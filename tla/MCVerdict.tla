----------------------------- MODULE MCVerdict -----------------------------
(* Verdict and TraceChain side by side: a behaviour is one run coming to   *)
(* its verdict, or one document of spans being climbed.                    *)
EXTENDS Verdict, TraceChain

-----------------------------------------------------------------------------
(* Runs: a list of assertions, faults, what the tools answer. *)

MCLibOf == [t \in {"db", "cache", "sut"} |->
              CASE t = "db" -> "pgx" [] t = "cache" -> "redis" [] t = "sut" -> "http"]

Asserted(kind, metric, result) == [kind |-> kind, metric |-> metric, result |-> result]

(* No two k6: entries share a metric: of two that do, thresholdsJSON keeps  *)
(* the later one only, and each would be counted by the other's result.     *)
AssertLists ==
    {<<Asserted("k6", "p95", k), Asserted("promql", "", p), Asserted("sql", "", q)>> :
        k \in {"held", "crossed"}, p \in {"vector", "empty", "failed"},
        q \in {"0", "3", "-2", "two rows", "unreachable"}}
    \cup {<<Asserted("promql", "", p)>> : p \in {"matrix", "unreachable", "not json"}}
    \cup {<<>>, <<Asserted("k6", "p95", "absent")>>, <<Asserted("k6", "p95", "crossed"), Asserted("k6", "errors", "held")>>}

Backend(e, a) == [explicit |-> e, traces |-> TRUE, lacksOtel |-> "unknown",
                  answers |-> a, service |-> TRUE]

BaseRun == [asserts |-> <<Asserted("k6", "p95", "held")>>, faults |-> <<"db">>,
            chains |-> {"db"}, backend |-> Backend(TRUE, "jaeger"),
            ceiling |-> "caused", detected |-> {"db"}, audited |-> {},
            queriers |-> {"prom", "sql"}, shape |-> "bare bool", reset |-> "clean", egress |-> "classified",
            summary |-> "readable", drive |-> "none", achieved |-> "enough"]

(* Slices of the product: what is attributed, and where a run may stop. *)
MCRuns ==
    {[BaseRun EXCEPT !.asserts = a, !.faults = f, !.chains = c, !.ceiling = l,
                     !.queriers = q] :
        a \in AssertLists,
        f \in {<<>>, <<"db">>, <<"topic">>, <<"db", "cache">>, <<"db", "db">>, <<"db", "topic">>},
        c \in SUBSET {"db", "cache"}, l \in {"correlated", "caused"},
        q \in {{}, {"prom", "sql"}}}
    \cup
    {[BaseRun EXCEPT !.asserts = <<Asserted("k6", "p95", k)>>, !.faults = f, !.backend = b,
                     !.detected = d, !.audited = u, !.drive = v] :
        k \in {"held", "crossed"}, f \in {<<>>, <<"cache">>, <<"db", "cache">>},
        b \in {[Backend(e, a) EXCEPT !.lacksOtel = l, !.service = s] :
                  e \in BOOLEAN, a \in {"jaeger", "jaeger, then silent", "tempo"},
                  l \in {"true", "unknown"}, s \in BOOLEAN},
        d \in SUBSET {"db", "cache"}, u \in {{}, {"db", "sut"}},
        v \in {"none", "failures"}}
    \cup
    {[BaseRun EXCEPT !.reset = r, !.egress = e, !.summary = s, !.drive = v, !.achieved = h] :
        r \in {"clean", "skipped", "failed"},
        e \in {"classified", "unclassified", "multiplied"},
        s \in {"readable", "unreadable"},
        v \in {"none", "clean", "failures", "broken", "not started", "cut short"},
        h \in {"enough", "short", "missing"}}

-----------------------------------------------------------------------------
(* Documents: a request, its call to the database, and the database's own  *)
(* span, with any parent links, and up to two more observed calls.         *)

MCTarget == [host |-> "db", port |-> "5432"]
NoPeer   == [host |-> "", port |-> ""]

Span(i, t, kind, ref, parent, d) ==
    [trace |-> t, id |-> i, operation |-> kind, duration |-> d,
     service  |-> CASE kind = "serve" -> "db" [] OTHER -> "api",
     peer     |-> CASE kind = "query" -> MCTarget
                    [] kind = "other" -> [host |-> "db", port |-> ""]
                    [] OTHER -> NoPeer,
     peerPort |-> IF kind = "other" THEN "6379" ELSE "",
     references |-> IF parent = "" THEN <<>> ELSE <<[kind |-> ref, span |-> parent]>>]

Parents == {"", "a", "b", "c", "lost"}

MCAnswers ==
    {[errors |-> e,
      spans |-> <<Span("a", 1, "handle", "CHILD_OF", pa, 29), Span("b", 1, k, r, pb, db),
                  Span("c", 1, "serve", "CHILD_OF", pc, 15)>>
                \o [i \in DOMAIN xs |-> Span("b", 2, k, "CHILD_OF", "", xs[i])]] :
        pa \in {"", "b", "c"}, pb \in Parents \ {"b"}, pc \in Parents \ {"c"},
        k \in {"query", "other"}, r \in {"CHILD_OF", "FOLLOWS_FROM"},
        db \in {15, 29}, e \in BOOLEAN,
        xs \in UNION {[1..n -> {6, 15, 29}] : n \in 0..2}}

-----------------------------------------------------------------------------
MCInit ==
    \/ VerdictInit /\ spans = <<>> /\ hops = <<>> /\ climb = "done"
    \/ TraceInit /\ run = BaseRun /\ stage = "idle" /\ verdict = NoVerdict

MCNext == \/ VerdictNext /\ UNCHANGED traceVars
          \/ TraceNext /\ UNCHANGED verdictVars

MCSpec == MCInit /\ [][MCNext]_<<verdictVars, traceVars>>

=============================================================================
