---------------------------- MODULE TraceChain ----------------------------
(***************************************************************************)
(* The causal chain: internal/trace/chain.go and the decoding of           *)
(* jaeger.go.  From the spans of a run, the slowest one that talked to the *)
(* faulted address is climbed to its root, if its operation degraded.      *)
(* Durations are milliseconds.                                             *)
(***************************************************************************)
EXTENDS Integers, Sequences, FiniteSets

CONSTANTS
    Answers,   \* the Jaeger documents that may come back
    Target     \* the faulted address: a host, and a port or ""
ASSUME AnswersAssumption ==
    \A doc \in Answers :
        /\ doc.spans \in Seq({doc.spans[i] : i \in DOMAIN doc.spans})
        /\ \A i \in DOMAIN doc.spans : doc.spans[i].duration \in Int

VARIABLES
    spans,     \* the spans decoded, in the order of the document
    hops,      \* the chain: indices into spans, the target first
    climb      \* "measure", "climb" or "done"

traceVars == <<spans, hops, climb>>

degradationFactor == 2
minDegradationStep == 10

-----------------------------------------------------------------------------
(* The parent is the first CHILD_OF reference; a follows-from is none.  An *)
(* answer that carries errors is no traces at all.                         *)
decodeJaegerTraces(doc) ==
    LET Child(s)  == {k \in DOMAIN s.references : s.references[k].kind = "CHILD_OF"}
        Parent(s) == s.references[CHOOSE k \in Child(s) : \A m \in Child(s) : k <= m]
        Decode(s) == [trace |-> s.trace, id |-> s.id, service |-> s.service,
                      operation |-> s.operation, duration |-> s.duration,
                      peer |-> s.peer, peerPort |-> s.peerPort,
                      parent |-> IF Child(s) = {} THEN "" ELSE Parent(s).span]
    IN  IF doc.errors THEN <<>> ELSE [i \in DOMAIN doc.spans |-> Decode(doc.spans[i])]

TraceInit == /\ \E doc \in Answers : spans = decodeJaegerTraces(doc)
             /\ hops = <<>>
             /\ climb = "measure"

portOK(s) == Target.port = "" \/ s.peerPort \in {"", Target.port}

(* By its own service, or by the first peer attribute that names the host; *)
(* a port written in that attribute settles the matter by itself.          *)
matchesTarget(s) ==
    \/ s.service = Target.host /\ portOK(s)
    \/ /\ s.service # Target.host
       /\ s.peer.host = Target.host
       /\ IF s.peer.port # "" THEN Target.port \in {"", s.peer.port} ELSE portOK(s)

SameKey(s, t) == s.service = t.service /\ s.operation = t.operation

(* The spans of the operation of s. *)
Alike(s) == {i \in DOMAIN spans : SameKey(s, spans[i])}

(* How many of them took at most d. *)
Within(s, d) == Cardinality({i \in Alike(s) : spans[i].duration <= d})

(* Every duration measured for the operation of s, in ascending order: the *)
(* k-th is the shortest that k of them stay within.                        *)
Durations(s) ==
    LET ds == {spans[i].duration : i \in Alike(s)}
    IN  [k \in 1..Cardinality(Alike(s)) |->
           CHOOSE d \in ds : /\ k <= Within(s, d)
                             /\ \A e \in ds : k <= Within(s, e) => d <= e]

fastQuartileMedian(ds) ==
    LET n == IF Len(ds) < 4 THEN 1 ELSE Len(ds) \div 4 IN ds[n \div 2 + 1]

(* Mutant: the slowest observation stands for the percentile. *)
percentile_Max(ds, p) == ds[Len(ds)]

percentile(ds, p) == ds[(p * (Len(ds) - 1)) \div 100 + 1]

degradedEnough(s) ==
    LET base == fastQuartileMedian(Durations(s))
        slow == percentile(Durations(s), 95)
    IN  slow >= degradationFactor * base /\ slow - base >= minDegradationStep

(* The slowest matching span; of equals, the first. *)
Best ==
    LET M == {i \in DOMAIN spans : matchesTarget(spans[i])}
    IN  {i \in M : \A j \in M : \/ spans[j].duration < spans[i].duration
                                \/ spans[j].duration = spans[i].duration /\ i <= j}

(* BuildChain up to its loop: no span, or no degradation, is no chain. *)
BuildChain ==
    /\ climb = "measure"
    /\ IF \E i \in Best : degradedEnough(spans[i])
       THEN /\ \E i \in Best : hops' = <<i>>
            /\ climb' = "climb"
       ELSE climb' = "done" /\ hops' = hops
    /\ UNCHANGED spans

(* The span an id names in this trace: of duplicates the last decoded. *)
ByID(trace, id) ==
    LET S == {i \in DOMAIN spans : spans[i].trace = trace /\ spans[i].id = id}
    IN  {i \in S : \A j \in S : j <= i}

(* One turn of the loop: to the parent, unless it is missing or was seen. *)
Climb ==
    /\ climb = "climb"
    /\ LET cur  == spans[hops[Len(hops)]]
           up   == {p \in ByID(cur.trace, cur.parent) :
                      cur.parent # "" /\ \A k \in DOMAIN hops :
                                            spans[hops[k]].id # spans[p].id}
       IN  IF up = {} THEN climb' = "done" /\ hops' = hops
           ELSE climb' = "climb" /\ \E p \in up : hops' = Append(hops, p)
    /\ UNCHANGED spans

TraceNext == BuildChain \/ Climb

TraceSpec == TraceInit /\ [][TraceNext]_traceVars

-----------------------------------------------------------------------------
(* A chain is evidence: it starts at a span that reached the faulted       *)
(* address and is slow in more than one observation (a lone outlier among  *)
(* up to twenty never passes the p95), and every hop is a real span of the *)
(* same trace, the parent of the one before it, each at most once, however *)
(* the parent links of the document loop (R-VER-13).                       *)
ChainIsEvidence ==
    hops # <<>> =>
        LET first == spans[hops[1]]
            Slow  == {i \in Alike(first) : \E j \in Alike(first) :
                        /\ spans[i].duration >= 2 * spans[j].duration
                        /\ spans[i].duration >= 10 + spans[j].duration}
        IN  /\ Target.host \in {first.service, first.peer.host}
            /\ Cardinality(Slow) >= 2
            /\ Len(hops) <= Len(spans)
            /\ \A k \in 2..Len(hops) :
                 /\ spans[hops[k]].trace = first.trace
                 /\ spans[hops[k]].id = spans[hops[k - 1]].parent
                 /\ \A m \in 1..(k - 1) : spans[hops[m]].id # spans[hops[k]].id

=============================================================================
