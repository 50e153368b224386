---------------------------- MODULE ReachProofs ----------------------------
(***************************************************************************)
(* Proofs about what stands around a run.  Whoever is reached over a       *)
(* tunnel is the one that was meant, and every tunnel is let go, for any   *)
(* number of callers and any hosts and services; the topology overlay, for *)
(* any application and any sequence of runs over its containers; a tool    *)
(* that a co-driver starts and stops.                                      *)
(***************************************************************************)
EXTENDS Reach, Overlay, ToolProcess, FiniteSetTheorems, TLAPS

(* The empty name: no host, and no service.                                 *)
NoName == ""

Calls == [at : {"off", "direct", "lookup", "ready", "asked", "ok", "failed"},
          host : Hosts \cup {NoName}, gen : Nat, hits : Nat, broke : Nat,
          heard : Hosts \cup Services_ \cup {NoName}]

Tunnels == [id : Nat, service : Services_, gen : Nat, used : BOOLEAN,
            user : Callers \cup {"idle"}]

ReachTypeOK ==
    /\ scope \in {"run", "smoke"} /\ sut \in Services_ \cup {NoName}
    /\ call \in [Callers -> Calls]
    /\ cache \in [Services_ -> Nat] /\ made \in Nat
    /\ tunnels \subseteq Tunnels /\ dialed \in Nat
    /\ stage \in {"on", "over"} /\ late \in BOOLEAN
    /\ result \in [sent : Nat, ok : Nat, exit : Int]

(* A caller that has a transport has a service to reach; what it has        *)
(* delivered so far depends on where it is.                                 *)
CallOK(c) ==
    /\ At(c, {"off"}) \/ call[c].host \in Hosts
    /\ At(c, {"off", "direct"}) => call[c].hits = 0 /\ call[c].broke = 0
    /\ At(c, {"lookup", "ready", "asked"}) => call[c].hits = call[c].broke
    /\ call[c].hits <= call[c].broke + 1
    /\ At(c, {"ready", "asked"}) => containerFor(c) \in Services_
    /\ At(c, {"ok"}) => call[c].heard \in {call[c].host, containerFor(c)} \ {NoName}

CallInv == \A c \in Callers : CallOK(c)

(* A tunnel in use is the one tunnel of a caller that waits for its answer. *)
TunnelInv ==
    /\ \A t \in tunnels : t.user # "idle" =>
         /\ At(t.user, {"asked"})
         /\ t.service = containerFor(t.user) /\ t.gen = call[t.user].gen
    /\ \A c \in Callers : At(c, {"asked"}) => \E t \in tunnels : t.user = c
    /\ \A t, u \in tunnels : t.user = u.user /\ t.user # "idle" => t = u

(* Whose a transport is: who is in the cache, at the end of a tunnel or     *)
(* about to be sent to under its number.                                    *)
Bound ==
    {<<s, cache[s]>> : s \in {x \in Services_ : cache[x] # 0}}
    \cup {<<t.service, t.gen>> : t \in tunnels}
    \cup {<<containerFor(c), call[c].gen>> : c \in {d \in Callers : At(d, {"ready", "asked"})}}

(* A transport leads to one service.                                        *)
BoundInv == \A p, q \in Bound : p[2] \in 1..made /\ (p[2] = q[2] => p[1] = q[1])

(* While the run is on the cache knows every transport that is in use.      *)
OnInv ==
    stage = "on" =>
        /\ \A t \in tunnels : cache[t.service] = t.gen
        /\ \A c \in Callers : At(c, {"ready", "asked"}) => cache[containerFor(c)] = call[c].gen

OverInv == stage = "over" /\ ~late => tunnels = {} /\ Out = {}

ResultInv ==
    stage = "over" /\ scope = "smoke" =>
        /\ result.exit = ExitCode(result)
        /\ result.exit = 1 /\ MinRate = 100 => \E c \in Callers : At(c, {"failed"}) \/ late

ReachInv == /\ ReachTypeOK /\ CallInv /\ TunnelInv /\ BoundInv
            /\ OnInv /\ OverInv /\ ResultInv

-----------------------------------------------------------------------------
(* What each step does, field by field.                                     *)

Only(c) == \A d \in Callers : d # c => call'[d] = call[d]

(* The caller stays with its host.                                          *)
Keeps(c) == /\ Only(c) /\ call' \in [Callers -> Calls]
            /\ call'[c].host = call[c].host
            /\ scope' = scope /\ sut' = sut /\ stage' = stage /\ late' = late /\ result' = result

(* The empty name is no host and no service,                            *)
LEMMA NobodyIsUnnamed == NoName \notin Hosts /\ NoName \notin Services_
BY ReachAssumption, Zenon DEF NoName, Services_

(* One delivery more is still a number of deliveries.                       *)
LEMMA OneMore == ASSUME NEW n \in Nat PROVE n + 1 \in Nat
OBVIOUS

(* A tick sends one caller off to a host.                                   *)
LEMMA AskDoes ==
    ASSUME ReachTypeOK, NEW c \in Callers, Ask(c)
    PROVE  /\ Only(c) /\ call' \in [Callers -> Calls] /\ stage = "on"
           /\ call[c].at = "off" /\ call'[c].at = "direct" /\ call'[c].host \in Hosts
           /\ call'[c].hits = call[c].hits /\ call'[c].broke = call[c].broke
           /\ UNCHANGED <<scope, sut, cache, made, tunnels, dialed, stage, late, result>>
<1>1. call[c] \in Calls /\ call \in [Callers -> Calls]
  BY DEF ReachTypeOK
<1>2. PICK h \in Hosts : call' = [call EXCEPT ![c].at = "direct", ![c].host = h]
  BY DEF Ask
<1> DEFINE n == [call[c] EXCEPT !.at = "direct", !.host = h]
<1>3. call' = [call EXCEPT ![c] = n]
  BY <1>1, <1>2
<1>4. /\ n \in Calls /\ n.at = "direct" /\ n.host = h /\ n.hits = call[c].hits
      /\ n.broke = call[c].broke
  BY <1>1 DEF Calls
<1> HIDE DEF n
<1> QED
  BY <1>1, <1>3, <1>4 DEF Ask, At, Only

(* A caller that goes on moves alone and keeps its host, its transport, and *)
(* what reached the host so far.                                            *)
LEMMA GoesDoes ==
    ASSUME ReachTypeOK, NEW c \in Callers,
           NEW at \in {"lookup", "ready", "asked", "failed"}, Goes(c, at)
    PROVE  /\ Only(c) /\ call' \in [Callers -> Calls]
           /\ call'[c].at = at /\ call'[c].host = call[c].host /\ call'[c].gen = call[c].gen
           /\ call'[c].hits = call[c].hits /\ call'[c].broke = call[c].broke
<1>1. call[c] \in Calls /\ call \in [Callers -> Calls]
  BY DEF ReachTypeOK
<1> DEFINE n == [call[c] EXCEPT !.at = at]
<1>2. call' = [call EXCEPT ![c] = n]
  BY <1>1 DEF Goes
<1>3. /\ n \in Calls /\ n.at = at /\ n.host = call[c].host /\ n.gen = call[c].gen
      /\ n.hits = call[c].hits /\ n.broke = call[c].broke
  BY <1>1 DEF Calls
<1> HIDE DEF n
<1> QED
  BY <1>1, <1>2, <1>3 DEF Only

(* An answer, or a failed one, from who.                                    *)
Hears(c, at, who) ==
    call' = [call EXCEPT ![c].at = at, ![c].hits = @ + 1, ![c].heard = who]

(* A caller that hears an answer moves alone, and its request has been      *)
(* delivered once more.                                                     *)
LEMMA HearsDoes ==
    ASSUME ReachTypeOK, NEW c \in Callers, NEW at \in {"ok", "failed"},
           NEW who \in Hosts \cup Services_ \cup {NoName}, Hears(c, at, who)
    PROVE  /\ Only(c) /\ call' \in [Callers -> Calls]
           /\ call'[c].at = at /\ call'[c].host = call[c].host /\ call'[c].gen = call[c].gen
           /\ call'[c].hits = call[c].hits + 1 /\ call'[c].broke = call[c].broke
           /\ call'[c].heard = who
<1>1. call[c] \in Calls /\ call \in [Callers -> Calls]
  BY DEF ReachTypeOK
<1> DEFINE more == call[c].hits + 1
<1>0. more \in Nat
  <2>1. call[c].hits \in Nat
    BY <1>1 DEF Calls
  <2> QED
    BY <2>1, OneMore
<1> DEFINE n == [call[c] EXCEPT !.at = at, !.hits = @ + 1, !.heard = who]
<1>2. call' = [call EXCEPT ![c] = n]
  BY <1>1 DEF Hears
<1> HIDE DEF more
<1>3. /\ n \in Calls /\ n.at = at /\ n.host = call[c].host /\ n.gen = call[c].gen
      /\ n.hits = call[c].hits + 1 /\ n.broke = call[c].broke /\ n.heard = who
  <2>1. n = [call[c] EXCEPT !.at = at, !.hits = more, !.heard = who]
    BY <1>1 DEF more, Calls
  <2> HIDE DEF n
  <2>2. /\ n \in Calls /\ n.at = at /\ n.host = call[c].host /\ n.gen = call[c].gen
        /\ n.hits = more /\ n.broke = call[c].broke /\ n.heard = who
    BY <1>0, <1>1, <2>1 DEF Calls
  <2> QED
    BY <2>2 DEF more
<1> HIDE DEF n
<1> QED
  BY <1>1, <1>2, <1>3 DEF Only

(* A caller whose connection breaks moves alone, delivered once more.       *)
LEMMA BreaksDoes ==
    ASSUME ReachTypeOK, NEW c \in Callers, NEW at \in {"lookup", "ready"}, Breaks(c, at)
    PROVE  /\ Only(c) /\ call' \in [Callers -> Calls]
           /\ call'[c].at = at /\ call'[c].host = call[c].host /\ call'[c].gen = call[c].gen
           /\ call'[c].hits = call[c].hits + 1 /\ call'[c].broke = call[c].broke + 1
<1>1. call[c] \in Calls /\ call \in [Callers -> Calls]
  BY DEF ReachTypeOK
<1> DEFINE more == call[c].hits + 1
           worse == call[c].broke + 1
<1>0. more \in Nat /\ worse \in Nat
  <2>1. call[c].hits \in Nat /\ call[c].broke \in Nat
    BY <1>1 DEF Calls
  <2> QED
    BY <2>1, OneMore
<1> DEFINE n == [call[c] EXCEPT !.at = at, !.hits = @ + 1, !.broke = @ + 1]
<1>2. call' = [call EXCEPT ![c] = n]
  BY <1>1 DEF Breaks
<1> HIDE DEF more, worse
<1>3. /\ n \in Calls /\ n.at = at /\ n.host = call[c].host /\ n.gen = call[c].gen
      /\ n.hits = call[c].hits + 1 /\ n.broke = call[c].broke + 1
  <2>1. n = [call[c] EXCEPT !.at = at, !.hits = more, !.broke = worse]
    BY <1>1 DEF more, worse, Calls
  <2> HIDE DEF n
  <2>2. /\ n \in Calls /\ n.at = at /\ n.host = call[c].host /\ n.gen = call[c].gen
        /\ n.hits = more /\ n.broke = worse
    BY <1>0, <1>1, <2>1 DEF Calls
  <2> QED
    BY <2>2 DEF more, worse
<1> HIDE DEF n
<1> QED
  BY <1>1, <1>2, <1>3 DEF Only

(* A direct dial either ends with the answer of the host itself or an       *)
(* error, or falls back undelivered.                                        *)
LEMMA DirectDoes ==
    ASSUME ReachTypeOK, CallInv, NEW c \in Callers, Direct(c)
    PROVE  /\ Keeps(c) /\ call[c].at = "direct" /\ call[c].host \in Hosts
           /\ \/ /\ call'[c].at \in {"ok", "failed"} /\ call'[c].hits = call[c].hits + 1
                 /\ call'[c].broke = call[c].broke /\ call'[c].heard = call[c].host
              \/ /\ call'[c].at = "lookup" /\ call'[c].hits = call[c].hits
                 /\ call'[c].broke = call[c].broke
              \/ /\ call'[c].at = "lookup" /\ call'[c].hits = call[c].hits + 1
                 /\ call'[c].broke = call[c].broke + 1
           /\ UNCHANGED <<cache, made, tunnels, dialed>>
<1>1. call[c] \in Calls /\ call \in [Callers -> Calls]
  BY DEF ReachTypeOK
<1>2. call[c].at = "direct" /\ call[c].host \in Hosts
  BY DEF Direct, At, CallInv, CallOK
<1>3. CASE \E at \in {"ok", "failed"} : Hears(c, at, call[c].host)
  BY <1>2, <1>3, HearsDoes DEF Direct, Keeps
<1>4. CASE Goes(c, "lookup")
  BY <1>2, <1>4, GoesDoes DEF Direct, Keeps
<1>5. CASE Breaks(c, "lookup")
  BY <1>2, <1>5, BreaksDoes DEF Direct, Keeps
<1> QED
  BY <1>3, <1>4, <1>5 DEF Direct, Hears

(* The service of a caller that has asked for a host.                       *)
LEMMA ServiceOfCaller ==
    ASSUME ReachTypeOK, NEW c \in Callers, call[c].host \in Hosts, containerFor(c) # NoName
    PROVE  containerFor(c) \in Services_
<1>1. sut \in Services_ \cup {NoName}
  BY DEF ReachTypeOK
<1>2. serviceOf[call[c].host] \in Services_ \cup {NoName}
  BY Zenon DEF Services_, NoName
<1> QED
  BY <1>1, <1>2 DEF containerFor

(* A lookup fails or gives the caller the transport cached for the          *)
(* container of its host, made now if there was none.                       *)
LEMMA LookupDoes ==
    ASSUME ReachTypeOK, CallInv, NEW c \in Callers, Lookup(c)
    PROVE  /\ Keeps(c) /\ call[c].at = "lookup"
           /\ call'[c].hits = call[c].hits /\ call'[c].broke = call[c].broke
           /\ \/ call'[c].at = "failed" /\ UNCHANGED <<cache, made>>
              \/ /\ containerFor(c) \in Services_ /\ call'[c].at = "ready"
                 /\ made' \in Nat /\ cache' \in [Services_ -> Nat]
                 /\ cache' = [cache EXCEPT ![containerFor(c)] = call'[c].gen]
                 /\ \/ cache[containerFor(c)] = 0 /\ call'[c].gen = made + 1 /\ made' = made + 1
                    \/ /\ cache[containerFor(c)] # 0 /\ call'[c].gen = cache[containerFor(c)]
                       /\ made' >= made
           /\ UNCHANGED <<tunnels, dialed>>
<1>1. call[c] \in Calls /\ call \in [Callers -> Calls]
  BY DEF ReachTypeOK
<1>2. call[c].at = "lookup" /\ call[c].host \in Hosts
  BY DEF Lookup, At, CallInv, CallOK
<1>3. CASE Goes(c, "failed") /\ UNCHANGED <<cache, made>>
  BY <1>2, <1>3, GoesDoes DEF Lookup, Keeps
<1>4. CASE containerFor(c) # NoName /\ hopTransportFor(c)
  <2>1. containerFor(c) \in Services_
    BY <1>2, <1>4, ServiceOfCaller
  <2> DEFINE g == IF cache[containerFor(c)] = 0 THEN made + 1 ELSE cache[containerFor(c)]
             n == [call[c] EXCEPT !.at = "ready", !.gen = g]
  <2>2. /\ cache \in [Services_ -> Nat] /\ made \in Nat /\ g \in Nat
    <3>1. cache \in [Services_ -> Nat] /\ made \in Nat
      BY DEF ReachTypeOK
    <3> QED
      BY <2>1, <3>1
  <2>3. /\ made' = IF g > made THEN g ELSE made
        /\ cache' = [cache EXCEPT ![containerFor(c)] = g]
        /\ call' = [call EXCEPT ![c] = n]
    BY <1>1, <1>4 DEF hopTransportFor
  <2>4. /\ \/ cache[containerFor(c)] = 0 /\ g = made + 1 /\ made' = made + 1
           \/ cache[containerFor(c)] # 0 /\ g = cache[containerFor(c)] /\ made' >= made
        /\ made' \in Nat
    BY <2>2, <2>3
  <2> HIDE DEF g
  <2>5. /\ n \in Calls /\ n.at = "ready" /\ n.host = call[c].host /\ n.gen = g
        /\ n.hits = call[c].hits /\ n.broke = call[c].broke
    BY <1>1, <2>2 DEF Calls
  <2> HIDE DEF n
  <2>6. call'[c] = n /\ Only(c) /\ call' \in [Callers -> Calls] /\ cache' \in [Services_ -> Nat]
    BY <1>1, <2>1, <2>2, <2>3, <2>5 DEF Only
  <2>7. Keeps(c) /\ UNCHANGED <<tunnels, dialed>>
    BY <2>5, <2>6 DEF Lookup, Keeps
  <2> QED
    BY <1>2, <2>1, <2>3, <2>4, <2>5, <2>6, <2>7
<1>5. \/ Goes(c, "failed") /\ UNCHANGED <<cache, made>>
      \/ containerFor(c) # NoName /\ hopTransportFor(c)
  BY Zenon DEF Lookup, NoName
<1> QED
  BY <1>3, <1>4, <1>5

(* The one tunnel of a caller that waits for an answer.                     *)
LEMMA HasTunnel ==
    ASSUME ReachTypeOK, TunnelInv, NEW c \in Callers, call[c].at = "asked"
    PROVE  /\ TunnelOf(c) \in tunnels /\ TunnelOf(c) \in Tunnels /\ TunnelOf(c).user = c
           /\ TunnelOf(c).service = containerFor(c) /\ TunnelOf(c).gen = call[c].gen
<1>1. \E t \in tunnels : t.user = c
  BY DEF TunnelInv, At
<1>2. TunnelOf(c) \in tunnels /\ TunnelOf(c).user = c
  BY <1>1 DEF TunnelOf
<1>3. c # "idle"
  BY ReachAssumption
<1>4. TunnelOf(c) \in Tunnels
  BY <1>2 DEF ReachTypeOK
<1> DEFINE T == TunnelOf(c)
<1>5. T \in tunnels /\ T.user = c
  BY <1>2
<1> HIDE DEF T
<1>6. T.service = containerFor(T.user) /\ T.gen = call[T.user].gen
  BY <1>3, <1>5 DEF TunnelInv
<1>7. T.service = containerFor(c) /\ T.gen = call[c].gen
  BY <1>5, <1>6
<1> QED
  BY <1>2, <1>4, <1>7 DEF T

(* A caller that sends gets a tunnel of its own transport, or fails.        *)
LEMMA SendDoes ==
    ASSUME ReachTypeOK, CallInv, BoundInv, NEW c \in Callers, Send(c)
    PROVE  /\ Keeps(c) /\ call[c].at = "ready" /\ call'[c].gen = call[c].gen
           /\ call'[c].hits = call[c].hits /\ call'[c].broke = call[c].broke
           /\ UNCHANGED <<cache, made>> /\ dialed' \in Nat
           /\ \/ call'[c].at = "failed" /\ tunnels' = tunnels
              \/ /\ call'[c].at = "asked"
                 /\ \E u \in Tunnels :
                      /\ u \in tunnels' /\ tunnels' \subseteq tunnels \cup {u} /\ u.user = c
                      /\ u.service = containerFor(c) /\ u.gen = call[c].gen
                      /\ \A t \in tunnels : t.user # "idle" => t \in tunnels'
<1>1. /\ call[c] \in Calls /\ tunnels \subseteq Tunnels /\ dialed \in Nat /\ call[c].gen \in Nat
      /\ call[c].at = "ready" /\ containerFor(c) \in Services_
  BY DEF ReachTypeOK, Calls, Send, At, CallInv, CallOK
<1>2. UNCHANGED <<scope, sut, cache, made, stage, late, result>>
  BY DEF Send
<1>3. ASSUME NEW t \in tunnels, t.gen = call[c].gen, t.user = "idle",
             tunnels' = (tunnels \ {t}) \cup {[t EXCEPT !.user = c]},
             dialed' = dialed, Goes(c, "asked")
      PROVE  /\ Keeps(c) /\ call'[c].gen = call[c].gen /\ call'[c].hits = call[c].hits
             /\ call'[c].broke = call[c].broke /\ dialed' \in Nat /\ call'[c].at = "asked"
             /\ \E u \in Tunnels :
                      /\ u \in tunnels' /\ tunnels' \subseteq tunnels \cup {u} /\ u.user = c
                      /\ u.service = containerFor(c) /\ u.gen = call[c].gen
                      /\ \A x \in tunnels : x.user # "idle" => x \in tunnels'
  <2>1. <<t.service, t.gen>> \in Bound /\ <<containerFor(c), call[c].gen>> \in Bound
    BY <1>1 DEF Bound, At
  <2>2. t.service = containerFor(c)
    BY <1>3, <2>1 DEF BoundInv
  <2> DEFINE u == [t EXCEPT !.user = c]
  <2>3. t \in Tunnels
    BY <1>1
  <2>4. u \in Tunnels /\ u.user = c /\ u.service = t.service /\ u.gen = t.gen
    BY <2>3 DEF Tunnels
  <2>5. u \in tunnels' /\ tunnels' \subseteq tunnels \cup {u}
    BY <1>3
  <2>6. \A x \in tunnels : x.user # "idle" => x \in tunnels'
    BY <1>3
  <2> HIDE DEF u
  <2>7. \E v \in Tunnels :
                      /\ v \in tunnels' /\ tunnels' \subseteq tunnels \cup {v} /\ v.user = c
                      /\ v.service = containerFor(c) /\ v.gen = call[c].gen
                      /\ \A x \in tunnels : x.user # "idle" => x \in tunnels'
    BY <1>3, <2>2, <2>4, <2>5, <2>6
  <2>8. /\ Keeps(c) /\ call'[c].gen = call[c].gen /\ call'[c].hits = call[c].hits
        /\ call'[c].broke = call[c].broke /\ call'[c].at = "asked"
    BY <1>2, <1>3, GoesDoes DEF Keeps
  <2> QED
    BY <1>1, <1>3, <2>7, <2>8
<1>4. ASSUME Dial(c)
      PROVE  /\ Keeps(c) /\ call'[c].gen = call[c].gen /\ call'[c].hits = call[c].hits
             /\ call'[c].broke = call[c].broke /\ dialed' \in Nat /\ call'[c].at = "asked"
             /\ \E u \in Tunnels :
                      /\ u \in tunnels' /\ tunnels' \subseteq tunnels \cup {u} /\ u.user = c
                      /\ u.service = containerFor(c) /\ u.gen = call[c].gen
                      /\ \A x \in tunnels : x.user # "idle" => x \in tunnels'
  <2> DEFINE next == dialed + 1
             u == [id |-> next, service |-> containerFor(c), gen |-> call[c].gen, used |-> FALSE,
                   user |-> c]
  <2>1. next \in Nat
    BY <1>1, OneMore
  <2>2. dialed' = next /\ Goes(c, "asked") /\ tunnels' = tunnels \cup {u}
    BY <1>4 DEF Dial
  <2> HIDE DEF next
  <2>3. /\ u \in Tunnels /\ u.user = c /\ u.service = containerFor(c) /\ u.gen = call[c].gen
    BY <1>1, <2>1 DEF Tunnels
  <2> HIDE DEF u
  <2>4. \E v \in Tunnels :
                      /\ v \in tunnels' /\ tunnels' \subseteq tunnels \cup {v} /\ v.user = c
                      /\ v.service = containerFor(c) /\ v.gen = call[c].gen
                      /\ \A x \in tunnels : x.user # "idle" => x \in tunnels'
    BY <2>2, <2>3
  <2>5. /\ Keeps(c) /\ call'[c].gen = call[c].gen /\ call'[c].hits = call[c].hits
        /\ call'[c].broke = call[c].broke /\ call'[c].at = "asked"
    BY <1>2, <2>2, GoesDoes DEF Keeps
  <2> QED
    BY <2>1, <2>2, <2>4, <2>5
<1>5. CASE Goes(c, "failed") /\ UNCHANGED <<tunnels, dialed>>
  BY <1>1, <1>2, <1>5, GoesDoes DEF Keeps
<1>6. \/ \E t \in tunnels :
            /\ t.gen = call[c].gen /\ t.user = "idle"
            /\ tunnels' = (tunnels \ {t}) \cup {[t EXCEPT !.user = c]}
            /\ dialed' = dialed /\ Goes(c, "asked")
      \/ Dial(c)
      \/ Goes(c, "failed") /\ UNCHANGED <<tunnels, dialed>>
  BY DEF Send
<1> QED
  BY <1>1, <1>2, <1>3, <1>4, <1>5, <1>6

(* A caller whose request ends, or is sent again, gives up its tunnel: it   *)
(* is closed, or left idle under the service and the transport it has.      *)
Ends(c) ==
    /\ Keeps(c) /\ call[c].at = "asked" /\ call'[c].at \in {"ok", "failed", "ready"}
    /\ call'[c].gen = call[c].gen
    /\ call'[c].at # "ready" => /\ call'[c].hits \in {call[c].hits, call[c].hits + 1}
                                /\ call'[c].broke = call[c].broke
    /\ call'[c].at = "ready" =>
         \/ call'[c].hits = call[c].hits /\ call'[c].broke = call[c].broke
         \/ call'[c].hits = call[c].hits + 1 /\ call'[c].broke = call[c].broke + 1
    /\ call'[c].at = "ok" => call'[c].heard = containerFor(c)
    /\ UNCHANGED <<cache, made, dialed>>
    /\ tunnels' \subseteq Tunnels
    /\ \A t \in tunnels' :
         /\ t.user # "idle" => t \in tunnels /\ t.user # c
         /\ \E u \in tunnels : u.service = t.service /\ u.gen = t.gen
    /\ \A t \in tunnels : t.user \notin {"idle", c} => t \in tunnels'

(* An answer ends a request, and its tunnel is idle again or gone.          *)
LEMMA AnswerDoes ==
    ASSUME ReachTypeOK, CallInv, TunnelInv, NEW c \in Callers, Answer(c)
    PROVE  Ends(c)
<1>1. call[c].at = "asked" /\ UNCHANGED <<scope, sut, cache, made, dialed, stage, late, result>>
  BY DEF Answer, At
<1> DEFINE T == TunnelOf(c)
<1>2. /\ T \in tunnels /\ T \in Tunnels /\ T.user = c
      /\ T.service = containerFor(c) /\ T.gen = call[c].gen
  BY <1>1, HasTunnel
<1>3. PICK at \in {"ok", "failed"} : Hears(c, at, T.service)
  BY DEF Answer, Hears
<1>4. tunnels' = (tunnels \ {T}) \cup (IF call[c].gen \in draining THEN {}
                                        ELSE {[T EXCEPT !.user = "idle", !.used = TRUE]})
  BY DEF Answer
<1> HIDE DEF T
<1>5. /\ Only(c) /\ call' \in [Callers -> Calls]
      /\ call'[c].at = at /\ call'[c].host = call[c].host /\ call'[c].gen = call[c].gen
      /\ call'[c].hits = call[c].hits + 1 /\ call'[c].broke = call[c].broke
      /\ call'[c].heard = T.service
  <2>1. T.service \in Hosts \cup Services_ \cup {NoName}
    BY <1>2 DEF Tunnels
  <2> QED
    BY <1>3, <2>1, HearsDoes
<1> DEFINE u == [T EXCEPT !.user = "idle", !.used = TRUE]
<1>6. u \in Tunnels /\ u.user = "idle" /\ u.service = T.service /\ u.gen = T.gen
  BY <1>2 DEF Tunnels
<1>7. tunnels' = (tunnels \ {T}) \cup (IF call[c].gen \in draining THEN {} ELSE {u})
  BY <1>4
<1> HIDE DEF u
<1>8. \A t \in tunnels : t.user = c => t = T
  <2>1. c # "idle"
    BY ReachAssumption
  <2> QED
    BY <1>2, <2>1 DEF TunnelInv
<1>9. tunnels' \subseteq Tunnels /\ tunnels' \subseteq (tunnels \ {T}) \cup {u}
  BY <1>6, <1>7 DEF ReachTypeOK
<1>10. \A t \in tunnels' :
         /\ t.user # "idle" => t \in tunnels /\ t.user # c
         /\ \E x \in tunnels : x.service = t.service /\ x.gen = t.gen
  BY <1>2, <1>6, <1>8, <1>9
<1>11. \A t \in tunnels : t.user \notin {"idle", c} => t \in tunnels'
  BY <1>2, <1>7
<1> QED
  BY <1>1, <1>2, <1>5, <1>9, <1>10, <1>11 DEF Ends, Keeps

(* A connection that breaks ends a request and its tunnel.                  *)
LEMMA ReadDoes ==
    ASSUME ReachTypeOK, CallInv, TunnelInv, NEW c \in Callers, Read(c)
    PROVE  Ends(c)
<1>1. call[c].at = "asked" /\ UNCHANGED <<scope, sut, cache, made, dialed, stage, late, result>>
  BY DEF Read, At
<1> DEFINE T == TunnelOf(c)
<1>2. /\ T \in tunnels /\ T \in Tunnels /\ T.user = c
      /\ T.service = containerFor(c) /\ T.gen = call[c].gen
  BY <1>1, HasTunnel
<1>3. tunnels' = tunnels \ {T} /\ (Hears(c, "ok", T.service) \/ Goes(c, "failed"))
  BY DEF Read, Hears
<1> HIDE DEF T
<1>4. \A t \in tunnels : t.user = c => t = T
  <2>1. c # "idle"
    BY ReachAssumption
  <2> QED
    BY <1>2, <2>1 DEF TunnelInv
<1>5. /\ tunnels' \subseteq Tunnels
      /\ \A t \in tunnels' : t \in tunnels /\ t.user # c
      /\ \A t \in tunnels : t.user \notin {"idle", c} => t \in tunnels'
  BY <1>2, <1>3, <1>4 DEF ReachTypeOK
<1>6. CASE Hears(c, "ok", T.service)
  <2>1. T.service \in Hosts \cup Services_ \cup {NoName}
    BY <1>2 DEF Tunnels
  <2>2. /\ Only(c) /\ call' \in [Callers -> Calls]
        /\ call'[c].at = "ok" /\ call'[c].host = call[c].host /\ call'[c].gen = call[c].gen
        /\ call'[c].hits = call[c].hits + 1 /\ call'[c].broke = call[c].broke
        /\ call'[c].heard = T.service
    BY <1>6, <2>1, HearsDoes
  <2> QED
    BY <1>1, <1>2, <1>5, <2>2 DEF Ends, Keeps
<1>7. CASE Goes(c, "failed")
  BY <1>1, <1>5, <1>7, GoesDoes DEF Ends, Keeps
<1> QED
  BY <1>3, <1>6, <1>7

(* A reused tunnel that died leaves its request to be sent again.           *)
LEMMA ReplayDoes ==
    ASSUME ReachTypeOK, CallInv, TunnelInv, NEW c \in Callers, Replay(c)
    PROVE  Ends(c)
<1>1. call[c].at = "asked" /\ UNCHANGED <<scope, sut, cache, made, dialed, stage, late, result>>
  BY DEF Replay, At
<1> DEFINE T == TunnelOf(c)
<1>2. T \in tunnels /\ T.user = c
  BY <1>1, HasTunnel
<1>3. tunnels' = tunnels \ {T} /\ (Goes(c, "ready") \/ Breaks(c, "ready"))
  BY DEF Replay
<1> HIDE DEF T
<1>4. \A t \in tunnels : t.user = c => t = T
  <2>1. c # "idle"
    BY ReachAssumption
  <2> QED
    BY <1>2, <2>1 DEF TunnelInv
<1>5. /\ tunnels' \subseteq Tunnels
      /\ \A t \in tunnels' : t \in tunnels /\ t.user # c
      /\ \A t \in tunnels : t.user \notin {"idle", c} => t \in tunnels'
  BY <1>2, <1>3, <1>4 DEF ReachTypeOK
<1>6. CASE Goes(c, "ready")
  BY <1>1, <1>5, <1>6, GoesDoes DEF Ends, Keeps
<1>7. CASE Breaks(c, "ready")
  BY <1>1, <1>5, <1>7, BreaksDoes DEF Ends, Keeps
<1> QED
  BY <1>3, <1>6, <1>7

(* Closing ends the idle tunnels of every transport in the cache.           *)
LEMMA CloseDoes ==
    ASSUME ReachTypeOK, Close
    PROVE  /\ stage = "on" /\ stage' = "over" /\ late' = (Out # {})
           /\ UNCHANGED <<scope, sut, call, made, dialed>>
           /\ tunnels' \subseteq tunnels /\ cache' = [s \in Services_ |-> 0]
           /\ \A t \in tunnels : t.user # "idle" => t \in tunnels'
           /\ \A t \in tunnels' : t.user = "idle" => ~\E s \in Services_ : cache[s] = t.gen /\ t.gen # 0
           /\ result' = IF scope = "smoke" THEN SmokeResult ELSE result
BY DEF Close, closeHopTransports

(* What a smoke reads off its counters is a result.                         *)
LEMMA ResultIsOne ==
    ASSUME ReachTypeOK
    PROVE  SmokeResult \in [sent : Nat, ok : Nat, exit : Int]
<1> DEFINE Sent == {c \in Callers : ~At(c, {"off"})}
           Ok == {c \in Callers : At(c, {"ok"})}
<1>1. IsFiniteSet(Sent) /\ IsFiniteSet(Ok)
  BY FS_Subset, ReachAssumption
<1> HIDE DEF Sent, Ok
<1>2. Cardinality(Sent) \in Nat /\ Cardinality(Ok) \in Nat
  BY <1>1, FS_CardinalityType
<1> DEFINE e == ExitCode([sent |-> Cardinality(Sent), ok |-> Cardinality(Ok)])
<1>3. e \in Int
  BY DEF ExitCode
<1>4. SmokeResult = [sent |-> Cardinality(Sent), ok |-> Cardinality(Ok), exit |-> e]
  BY DEF SmokeResult, Sent, Ok
<1> HIDE DEF e
<1> QED
  BY <1>2, <1>3, <1>4

(* The types hold at the start and after every step.                        *)
LEMMA ReachTypeInit == ReachInit => ReachTypeOK
<1>0. [sent |-> 0, ok |-> 0, exit |-> -1] \in [sent : Nat, ok : Nat, exit : Int]
  OBVIOUS
<1> SUFFICES ASSUME ReachInit PROVE ReachTypeOK
  OBVIOUS
<1> DEFINE none == [at |-> "off", host |-> NoName, gen |-> 0, hits |-> 0, broke |-> 0, heard |-> NoName]
<1>1. none \in Calls
  BY DEF Calls
<1>2. call = [c \in Callers |-> none]
  BY Zenon DEF ReachInit, ReachFresh, NoName
<1> HIDE DEF none
<1>3. call \in [Callers -> Calls]
  BY <1>1, <1>2
<1>4. /\ cache = [s \in Services_ |-> 0] /\ made = 0 /\ tunnels = {} /\ dialed = 0
      /\ stage = "on" /\ late = FALSE /\ result = [sent |-> 0, ok |-> 0, exit |-> -1]
      /\ scope \in {"run", "smoke"} /\ sut \in Services_ \cup {NoName}
  BY Zenon DEF ReachInit, ReachFresh, NoName
<1>5. cache \in [Services_ -> Nat]
  <2>1. cache = [s \in Services_ |-> 0]
    BY <1>4
  <2> QED
    BY <2>1
<1>6. result \in [sent : Nat, ok : Nat, exit : Int]
  BY <1>0, <1>4
<1> QED
  BY <1>3, <1>4, <1>5, <1>6 DEF ReachTypeOK

(* Every step of callers, tunnels and Close keeps the types.                *)
LEMMA ReachTypeStep ==
    ASSUME ReachTypeOK, CallInv, TunnelInv, BoundInv, [ReachNext]_reachVars
    PROVE  ReachTypeOK'
<1>0. [s \in Services_ |-> 0] \in [Services_ -> Nat]
  OBVIOUS
<1>9. tunnels \subseteq Tunnels
  BY DEF ReachTypeOK
<1>10. ASSUME NEW c \in Callers, Send(c) PROVE tunnels' \subseteq Tunnels
  <2>1. tunnels' = tunnels \/ \E u \in Tunnels : tunnels' \subseteq tunnels \cup {u}
    BY <1>10, SendDoes
  <2> QED
    BY <1>9, <2>1
<1> USE DEF ReachTypeOK
<1>1. CASE Close
  <2>1. result' \in [sent : Nat, ok : Nat, exit : Int]
    BY <1>1, ResultIsOne, CloseDoes
  <2>2. cache' \in [Services_ -> Nat]
    BY <1>0, <1>1, CloseDoes
  <2> QED
    BY <1>1, <2>1, <2>2, CloseDoes
<1>2. CASE IdleEnds
  BY <1>2 DEF IdleEnds
<1>3. ASSUME NEW c \in Callers, Ask(c) PROVE ReachTypeOK'
  BY <1>3, AskDoes
<1>4. ASSUME NEW c \in Callers, Direct(c) PROVE ReachTypeOK'
  BY <1>4, DirectDoes DEF Keeps
<1>5. ASSUME NEW c \in Callers, Lookup(c) PROVE ReachTypeOK'
  BY <1>5, LookupDoes DEF Keeps
<1>6. ASSUME NEW c \in Callers, Send(c) PROVE ReachTypeOK'
  <2>1. Keeps(c) /\ UNCHANGED <<cache, made>> /\ dialed' \in Nat
    BY <1>6, SendDoes
  <2>2. tunnels' \subseteq Tunnels
    BY <1>6, <1>10
  <2> QED
    BY <2>1, <2>2 DEF Keeps
<1>7. ASSUME NEW c \in Callers, Ends(c) PROVE ReachTypeOK'
  BY <1>7 DEF Ends, Keeps
<1>8. CASE UNCHANGED reachVars
  BY <1>8 DEF reachVars
<1> QED
  BY <1>1, <1>2, <1>3, <1>4, <1>5, <1>6, <1>7, <1>8, AnswerDoes, ReadDoes, ReplayDoes DEF ReachNext

(* A caller nobody touched is as it was.                                    *)
LEMMA SameCall ==
    ASSUME NEW d \in Callers, CallOK(d), call'[d] = call[d], scope' = scope, sut' = sut
    PROVE  CallOK(d)'
BY DEF CallOK, At, containerFor

(* A caller that keeps its host keeps the service it would reach.           *)
LEMMA SameService ==
    ASSUME NEW d, call'[d].host = call[d].host, scope' = scope, sut' = sut
    PROVE  containerFor(d)' = containerFor(d)
BY DEF containerFor

(* No step lets a caller hear of another host, or be delivered more often   *)
(* than it was sent.                                                        *)
LEMMA CallStep ==
    ASSUME ReachTypeOK, CallInv, TunnelInv, BoundInv, [ReachNext]_reachVars
    PROVE  CallInv'
<1> USE DEF CallInv
<1>0. ASSUME NEW c \in Callers, Only(c), scope' = scope, sut' = sut, CallOK(c)'
      PROVE  CallInv'
  BY <1>0, SameCall DEF Only
<1>1. CASE UNCHANGED <<call, scope, sut>>
  BY <1>1, SameCall
<1>2. ASSUME NEW c \in Callers, Ask(c) PROVE CallInv'
  <2>1. /\ Only(c) /\ call[c].at = "off" /\ call'[c].at = "direct" /\ call'[c].host \in Hosts
        /\ call'[c].hits = call[c].hits /\ call'[c].broke = call[c].broke
        /\ scope' = scope /\ sut' = sut
    BY <1>2, AskDoes
  <2>2. call[c].hits = 0 /\ call[c].broke = 0
    BY <2>1 DEF CallOK, At
  <2>3. CallOK(c)'
    BY <2>1, <2>2 DEF CallOK, At
  <2> QED
    BY <1>0, <2>1, <2>3
<1>3. ASSUME NEW c \in Callers, Direct(c) PROVE CallInv'
  <2>1. /\ Keeps(c) /\ call[c].at = "direct" /\ call[c].host \in Hosts
        /\ \/ /\ call'[c].at \in {"ok", "failed"} /\ call'[c].hits = call[c].hits + 1
              /\ call'[c].broke = call[c].broke /\ call'[c].heard = call[c].host
           \/ /\ call'[c].at = "lookup" /\ call'[c].hits = call[c].hits
              /\ call'[c].broke = call[c].broke
           \/ /\ call'[c].at = "lookup" /\ call'[c].hits = call[c].hits + 1
              /\ call'[c].broke = call[c].broke + 1
    BY <1>3, DirectDoes
  <2>2. call[c].hits = 0 /\ call[c].broke = 0 /\ call[c].host # NoName
    BY <2>1, NobodyIsUnnamed DEF CallOK, At
  <2>3. call'[c].host \in Hosts /\ call'[c].host = call[c].host
    BY <2>1 DEF Keeps
  <2>4. /\ call'[c].hits = call[c].hits + 1 => call'[c].hits = 1
        /\ call'[c].hits = call[c].hits => call'[c].hits = 0
        /\ call'[c].broke = call[c].broke + 1 => call'[c].broke = 1
    BY <2>2
  <2>5. \/ /\ call'[c].at \in {"ok", "failed"} /\ call'[c].hits = 1 /\ call'[c].broke = 0
           /\ call'[c].heard = call'[c].host
        \/ call'[c].at = "lookup" /\ call'[c].hits = 0 /\ call'[c].broke = 0
        \/ call'[c].at = "lookup" /\ call'[c].hits = 1 /\ call'[c].broke = 1
    BY <2>1, <2>2, <2>3, <2>4, Zenon
  <2>7. call'[c].host # NoName
    BY <2>2, <2>3
  <2>6. CallOK(c)'
    <3>1. (At(c, {"off", "direct"}) => call[c].hits = 0 /\ call[c].broke = 0)'
      BY <2>5 DEF At
    <3>2. (At(c, {"lookup", "ready", "asked"}) => call[c].hits = call[c].broke)'
      BY <2>5 DEF At
    <3>3. (call[c].hits <= call[c].broke + 1)'
      BY <2>5 DEF At
    <3>4. (At(c, {"ready", "asked"}) => containerFor(c) \in Services_)'
      BY <2>5 DEF At
    <3>5. (At(c, {"ok"}) => call[c].heard \in {call[c].host, containerFor(c)} \ {NoName})'
      BY <2>5, <2>7 DEF At
    <3> QED
      BY <2>3, <3>1, <3>2, <3>3, <3>4, <3>5 DEF CallOK, At
  <2> QED
    BY <1>0, <2>1, <2>6 DEF Keeps
<1>4. ASSUME NEW c \in Callers, Lookup(c) PROVE CallInv'
  <2>1. /\ Keeps(c) /\ call[c].at = "lookup"
        /\ call'[c].hits = call[c].hits /\ call'[c].broke = call[c].broke
        /\ call'[c].at = "failed" \/ (call'[c].at = "ready" /\ containerFor(c) \in Services_)
    BY <1>4, LookupDoes
  <2>2. CallOK(c) /\ containerFor(c)' = containerFor(c) /\ call'[c].host = call[c].host
    BY <2>1, SameService DEF Keeps
  <2>3. CallOK(c)'
    BY <2>1, <2>2 DEF CallOK, At
  <2> QED
    BY <1>0, <2>1, <2>3 DEF Keeps
<1>5. ASSUME NEW c \in Callers, Send(c) PROVE CallInv'
  <2>1. /\ Keeps(c) /\ call[c].at = "ready"
        /\ call'[c].hits = call[c].hits /\ call'[c].broke = call[c].broke
        /\ call'[c].at = "failed" \/ call'[c].at = "asked"
    BY <1>5, SendDoes
  <2>2. CallOK(c) /\ containerFor(c)' = containerFor(c) /\ call'[c].host = call[c].host
    BY <2>1, SameService DEF Keeps
  <2>3. CallOK(c)'
    BY <2>1, <2>2 DEF CallOK, At
  <2> QED
    BY <1>0, <2>1, <2>3 DEF Keeps
<1>6. ASSUME NEW c \in Callers, Ends(c) PROVE CallInv'
  <2>1. /\ Keeps(c) /\ call[c].at = "asked" /\ call'[c].at \in {"ok", "failed", "ready"}
        /\ call'[c].at # "ready" => /\ call'[c].hits \in {call[c].hits, call[c].hits + 1}
                                    /\ call'[c].broke = call[c].broke
        /\ call'[c].at = "ready" =>
             \/ call'[c].hits = call[c].hits /\ call'[c].broke = call[c].broke
             \/ call'[c].hits = call[c].hits + 1 /\ call'[c].broke = call[c].broke + 1
        /\ call'[c].at = "ok" => call'[c].heard = containerFor(c)
    BY <1>6 DEF Ends
  <2>2. CallOK(c) /\ containerFor(c)' = containerFor(c) /\ call'[c].host = call[c].host
    BY <2>1, SameService DEF Keeps
  <2>3. containerFor(c) # NoName /\ containerFor(c) \in Services_
    BY <2>1, <2>2, NobodyIsUnnamed DEF CallOK, At
  <2>5. call[c].hits = call[c].broke /\ call[c].broke \in Nat
    BY <2>1, <2>2 DEF CallOK, At, ReachTypeOK, Calls
  <2>6. call'[c].hits <= call'[c].broke + 1 /\ (call'[c].at = "ready" => call'[c].hits = call'[c].broke)
    BY <2>1, <2>5
  <2>4. CallOK(c)'
    BY <2>1, <2>2, <2>3, <2>6 DEF CallOK, At
  <2> QED
    BY <1>0, <2>1, <2>4 DEF Keeps
<1>7. UNCHANGED reachVars \/ Close \/ IdleEnds => UNCHANGED <<call, scope, sut>>
  BY DEF reachVars, Close, IdleEnds
<1> QED
  BY <1>1, <1>2, <1>3, <1>4, <1>5, <1>6, <1>7, AnswerDoes, ReadDoes, ReplayDoes DEF ReachNext

(* A caller that holds no tunnel and takes none changes nobody's tunnel.    *)
LEMMA TunnelsApart ==
    ASSUME ReachTypeOK, TunnelInv, NEW c \in Callers, Only(c), scope' = scope, sut' = sut,
           call[c].at # "asked", call'[c].at # "asked", tunnels' = tunnels
    PROVE  TunnelInv'
<1>1. \A d \in Callers : At(d, {"asked"}) => d # c
  BY DEF At
<1>2. \A d \in Callers : At(d, {"asked"})' => d # c /\ At(d, {"asked"})
  BY DEF At, Only
<1>3. ASSUME NEW t \in tunnels, t.user # "idle"
      PROVE  (/\ At(t.user, {"asked"}) /\ t.service = containerFor(t.user)
              /\ t.gen = call[t.user].gen)'
  <2>1. /\ t.user \in Callers /\ call[t.user].at = "asked"
        /\ t.service = containerFor(t.user) /\ t.gen = call[t.user].gen
    BY <1>3 DEF TunnelInv, At, ReachTypeOK, Tunnels
  <2>2. call'[t.user] = call[t.user]
    BY <2>1 DEF Only
  <2> QED
    BY <2>1, <2>2 DEF At, containerFor
<1> QED
  BY <1>2, <1>3 DEF TunnelInv

(* No step gives two requests one tunnel, or a request the tunnel of        *)
(* another transport.                                                       *)
LEMMA TunnelStep ==
    ASSUME ReachTypeOK, CallInv, TunnelInv, BoundInv, [ReachNext]_reachVars
    PROVE  TunnelInv'
<1>1. ASSUME UNCHANGED <<call, scope, sut>>, tunnels' \subseteq tunnels,
             \A t \in tunnels : t.user # "idle" => t \in tunnels'
      PROVE  TunnelInv'
  <2>1. \A d \in Callers : At(d, {"asked"})' = At(d, {"asked"})
    BY <1>1 DEF At
  <2>2. \A t \in tunnels' : t.user # "idle" =>
         (/\ At(t.user, {"asked"}) /\ t.service = containerFor(t.user)
          /\ t.gen = call[t.user].gen)'
    BY <1>1 DEF TunnelInv, At, containerFor
  <2>3. \A d \in Callers : At(d, {"asked"})' => \E t \in tunnels' : t.user = d
    <3>1. "idle" \notin Callers
      BY ReachAssumption
    <3> QED
      BY <1>1, <2>1, <3>1 DEF TunnelInv
  <2>4. \A t, u \in tunnels' : t.user = u.user /\ t.user # "idle" => t = u
    BY <1>1 DEF TunnelInv
  <2> QED
    BY <2>2, <2>3, <2>4 DEF TunnelInv
<1>2. ASSUME NEW c \in Callers, Ask(c) PROVE TunnelInv'
  BY <1>2, AskDoes, TunnelsApart
<1>3. ASSUME NEW c \in Callers, Direct(c) PROVE TunnelInv'
  <2>1. /\ Keeps(c) /\ call[c].at = "direct" /\ call'[c].at \in {"ok", "failed", "lookup"}
        /\ tunnels' = tunnels
    BY <1>3, DirectDoes
  <2> QED
    BY <2>1, TunnelsApart DEF Keeps
<1>4. ASSUME NEW c \in Callers, Lookup(c) PROVE TunnelInv'
  <2>1. /\ Keeps(c) /\ call[c].at = "lookup" /\ call'[c].at \in {"failed", "ready"}
        /\ tunnels' = tunnels
    BY <1>4, LookupDoes
  <2> QED
    BY <2>1, TunnelsApart DEF Keeps
<1>5. ASSUME NEW c \in Callers, Send(c) PROVE TunnelInv'
  <2>1. Keeps(c) /\ call[c].at = "ready" /\ call'[c].gen = call[c].gen
    BY <1>5, SendDoes
  <2>2. CASE call'[c].at = "failed" /\ tunnels' = tunnels
    BY <2>1, <2>2, TunnelsApart DEF Keeps
  <2>3. CASE call'[c].at = "asked" /\
             \E u \in Tunnels : /\ u \in tunnels' /\ tunnels' \subseteq tunnels \cup {u} /\ u.user = c
                                /\ u.service = containerFor(c) /\ u.gen = call[c].gen
                                /\ \A t \in tunnels : t.user # "idle" => t \in tunnels'
    <3>1. PICK u \in Tunnels : /\ u \in tunnels' /\ tunnels' \subseteq tunnels \cup {u} /\ u.user = c
                               /\ u.service = containerFor(c) /\ u.gen = call[c].gen
                               /\ \A t \in tunnels : t.user # "idle" => t \in tunnels'
      BY <2>3
    <3>2. containerFor(c)' = containerFor(c) /\ "idle" \notin Callers
      BY <2>1, ReachAssumption, SameService DEF Keeps
    <3>3. \A t \in tunnels : t.user # "idle" => t.user \in Callers /\ t.user # c /\ call[t.user].at = "asked"
      BY <2>1 DEF TunnelInv, ReachTypeOK, Tunnels, At
    <3>4. ASSUME NEW t \in tunnels', t.user # "idle"
          PROVE  (/\ At(t.user, {"asked"}) /\ t.service = containerFor(t.user)
                  /\ t.gen = call[t.user].gen)'
      <4>1. CASE t = u
        BY <2>1, <2>3, <3>1, <3>2, <4>1 DEF At
      <4>2. CASE t # u
        <5>1. /\ t \in tunnels /\ t.user \in Callers /\ t.user # c /\ call[t.user].at = "asked"
              /\ t.service = containerFor(t.user) /\ t.gen = call[t.user].gen
          BY <3>1, <3>3, <3>4, <4>2 DEF TunnelInv
        <5>2. call'[t.user] = call[t.user] /\ containerFor(t.user)' = containerFor(t.user)
          BY <2>1, <5>1, SameService DEF Keeps, Only
        <5> QED
          BY <5>1, <5>2 DEF At
      <4> QED
        BY <4>1, <4>2
    <3>5. \A d \in Callers : At(d, {"asked"})' => \E t \in tunnels' : t.user = d
      <4>1. SUFFICES ASSUME NEW d \in Callers, d # c, At(d, {"asked"})' PROVE \E t \in tunnels' : t.user = d
        BY <3>1
      <4>2. call[d].at = "asked"
        BY <2>1, <4>1 DEF Keeps, Only, At
      <4>3. PICK t \in tunnels : t.user = d
        BY <4>2 DEF TunnelInv, At
      <4> QED
        BY <3>1, <3>2, <4>3
    <3>6. \A t, w \in tunnels' : t.user = w.user /\ t.user # "idle" => t = w
      <4>1. \A t \in tunnels' : t = u \/ (t \in tunnels /\ (t.user # "idle" => t.user # u.user))
        BY <3>1, <3>3
      <4>2. \A t, w \in tunnels : t.user = w.user /\ t.user # "idle" => t = w
        BY DEF TunnelInv
      <4> QED
        BY <4>1, <4>2
    <3> QED
      BY <3>4, <3>5, <3>6 DEF TunnelInv
  <2> QED
    BY <1>5, <2>2, <2>3, SendDoes
<1>6. ASSUME NEW c \in Callers, Ends(c) PROVE TunnelInv'
  <2>1. /\ Keeps(c) /\ call'[c].at \in {"ok", "failed", "ready"}
        /\ \A t \in tunnels' : t.user # "idle" => t \in tunnels /\ t.user # c
        /\ \A t \in tunnels : t.user \notin {"idle", c} => t \in tunnels'
    BY <1>6 DEF Ends
  <2>2. ASSUME NEW t \in tunnels', t.user # "idle"
        PROVE  (/\ At(t.user, {"asked"}) /\ t.service = containerFor(t.user)
                /\ t.gen = call[t.user].gen)'
    <3>1. t \in tunnels /\ t.user # c /\ t.user \in Callers
      BY <2>1, <2>2 DEF ReachTypeOK, Tunnels
    <3>2. call[t.user].at = "asked" /\ t.service = containerFor(t.user) /\ t.gen = call[t.user].gen
      BY <2>2, <3>1 DEF TunnelInv, At
    <3>3. call'[t.user] = call[t.user] /\ containerFor(t.user)' = containerFor(t.user)
      BY <2>1, <3>1, SameService DEF Keeps, Only
    <3> QED
      BY <3>2, <3>3 DEF At
  <2>3. \A d \in Callers : At(d, {"asked"})' => \E t \in tunnels' : t.user = d
    <3>1. SUFFICES ASSUME NEW d \in Callers, At(d, {"asked"})' PROVE \E t \in tunnels' : t.user = d
      OBVIOUS
    <3>2. d # c /\ d # "idle" /\ call[d].at = "asked"
      BY <2>1, <3>1, ReachAssumption DEF Keeps, Only, At
    <3>3. PICK t \in tunnels : t.user = d
      BY <3>2 DEF TunnelInv, At
    <3> QED
      BY <2>1, <3>2, <3>3
  <2>4. \A t, u \in tunnels' : t.user = u.user /\ t.user # "idle" => t = u
    BY <2>1 DEF TunnelInv
  <2> QED
    BY <2>2, <2>3, <2>4 DEF TunnelInv
<1>7. UNCHANGED reachVars \/ Close \/ IdleEnds =>
        /\ UNCHANGED <<call, scope, sut>> /\ tunnels' \subseteq tunnels
        /\ \A t \in tunnels : t.user # "idle" => t \in tunnels'
  <2>1. CASE Close
    BY <2>1, CloseDoes
  <2>2. CASE IdleEnds
    BY <2>2 DEF IdleEnds
  <2>3. CASE UNCHANGED reachVars
    BY <2>3 DEF reachVars
  <2> QED
    BY <2>1, <2>2, <2>3
<1> QED
  BY <1>1, <1>2, <1>3, <1>4, <1>5, <1>6, <1>7, AnswerDoes, ReadDoes, ReplayDoes DEF ReachNext

(* Who leads where: the members of Bound, one kind at a time.               *)
LEMMA BoundIs ==
    ASSUME NEW p
    PROVE  p \in Bound <=> \/ \E s \in Services_ : cache[s] # 0 /\ p = <<s, cache[s]>>
                           \/ \E t \in tunnels : p = <<t.service, t.gen>>
                           \/ \E d \in Callers : /\ call[d].at \in {"ready", "asked"}
                                                 /\ p = <<containerFor(d), call[d].gen>>
BY DEF Bound, At

(* After a step, a transport is bound if it is cached, has a tunnel or is   *)
(* held by a caller.                                                        *)
LEMMA BoundIsNext ==
    ASSUME NEW p, p \in Bound'
    PROVE  \/ \E s \in Services_ : cache'[s] # 0 /\ p = <<s, cache'[s]>>
           \/ \E t \in tunnels' : p = <<t.service, t.gen>>
           \/ \E d \in Callers : /\ call'[d].at \in {"ready", "asked"}
                                 /\ p = <<containerFor(d)', call'[d].gen>>
BY DEF Bound, At

(* What leads nowhere new leads to one service each.                        *)
LEMMA BoundShrinks ==
    ASSUME ReachTypeOK, BoundInv, Bound' \subseteq Bound, made' \in Nat, made' >= made
    PROVE  BoundInv'
<1>1. made \in Nat
  BY DEF ReachTypeOK
<1>2. 1..made \subseteq 1..made'
  BY <1>1
<1> QED
  BY <1>2 DEF BoundInv

(* The callers nobody touched lead where they led.                          *)
LEMMA OthersLead ==
    ASSUME NEW c \in Callers, Only(c), scope' = scope, sut' = sut,
           NEW d \in Callers, d # c, call'[d].at \in {"ready", "asked"}
    PROVE  <<containerFor(d)', call'[d].gen>> \in Bound
<1>1. call'[d] = call[d] /\ containerFor(d)' = containerFor(d)
  BY SameService DEF Only
<1>2. call[d].at \in {"ready", "asked"} /\ <<containerFor(d)', call'[d].gen>> = <<containerFor(d), call[d].gen>>
  BY <1>1
<1> QED
  BY <1>2, BoundIs

(* No step makes a transport twice, or one that is bound to two containers. *)
LEMMA BoundStep ==
    ASSUME ReachTypeOK, CallInv, TunnelInv, BoundInv, [ReachNext]_reachVars
    PROVE  BoundInv'
<1>0. made \in Nat /\ made >= made
  BY DEF ReachTypeOK
<1>1. ASSUME UNCHANGED <<call, scope, sut, made>>, tunnels' \subseteq tunnels,
             cache' = cache \/ cache' = [s \in Services_ |-> 0]
      PROVE  BoundInv'
  <2>1. ASSUME NEW p \in Bound' PROVE p \in Bound
    <3>1. CASE \E s \in Services_ : cache'[s] # 0 /\ p = <<s, cache'[s]>>
      <4>1. cache' = cache
        BY <1>1, <3>1
      <4> QED
        BY <3>1, <4>1, BoundIs
    <3>2. CASE \E t \in tunnels' : p = <<t.service, t.gen>>
      BY <1>1, <3>2, BoundIs
    <3>3. CASE \E d \in Callers : /\ call'[d].at \in {"ready", "asked"}
                                  /\ p = <<containerFor(d)', call'[d].gen>>
      <4>1. \A d \in Callers : containerFor(d)' = containerFor(d)
        BY <1>1 DEF containerFor
      <4> QED
        BY <1>1, <3>3, <4>1, BoundIs
    <3> QED
      BY <3>1, <3>2, <3>3, BoundIsNext
  <2> QED
    BY <1>0, <1>1, <2>1, BoundShrinks
<1>2. ASSUME NEW c \in Callers, Only(c), UNCHANGED <<scope, sut, made, cache>>,
             \A t \in tunnels' : <<t.service, t.gen>> \in Bound,
             call'[c].at \in {"ready", "asked"} => <<containerFor(c)', call'[c].gen>> \in Bound
      PROVE  BoundInv'
  <2>1. ASSUME NEW p \in Bound' PROVE p \in Bound
    <3>1. CASE \E s \in Services_ : cache'[s] # 0 /\ p = <<s, cache'[s]>>
      BY <1>2, <3>1, BoundIs
    <3>2. CASE \E t \in tunnels' : p = <<t.service, t.gen>>
      BY <1>2, <3>2
    <3>3. CASE \E d \in Callers : /\ call'[d].at \in {"ready", "asked"}
                                  /\ p = <<containerFor(d)', call'[d].gen>>
      BY <1>2, <3>3, OthersLead
    <3> QED
      BY <3>1, <3>2, <3>3, BoundIsNext
  <2> QED
    BY <1>0, <1>2, <2>1, BoundShrinks
<1>3. \A t \in tunnels : <<t.service, t.gen>> \in Bound
  BY BoundIs
<1>4. ASSUME NEW c \in Callers, Ask(c) PROVE BoundInv'
  <2>1. /\ Only(c) /\ call'[c].at = "direct" /\ tunnels' = tunnels
        /\ UNCHANGED <<scope, sut, cache, made>>
    BY <1>4, AskDoes
  <2> QED
    BY <1>2, <1>3, <2>1
<1>5. ASSUME NEW c \in Callers, Direct(c) PROVE BoundInv'
  <2>1. /\ Keeps(c) /\ call'[c].at \in {"ok", "failed", "lookup"} /\ tunnels' = tunnels
        /\ UNCHANGED <<cache, made>>
    BY <1>5, DirectDoes
  <2> QED
    BY <1>2, <1>3, <2>1 DEF Keeps
<1>6. ASSUME NEW c \in Callers, Send(c) PROVE BoundInv'
  <2>1. /\ Keeps(c) /\ call[c].at = "ready" /\ call'[c].gen = call[c].gen
        /\ UNCHANGED <<cache, made>>
    BY <1>6, SendDoes
  <2>2. <<containerFor(c), call[c].gen>> \in Bound /\ containerFor(c)' = containerFor(c)
    BY <2>1, BoundIs, SameService DEF Keeps
  <2>3. ASSUME NEW t \in tunnels' PROVE <<t.service, t.gen>> \in Bound
    <3>1. t \in tunnels \/ (t.service = containerFor(c) /\ t.gen = call[c].gen)
      BY <1>6, <2>3, SendDoes
    <3> QED
      BY <1>3, <2>2, <3>1
  <2>4. /\ Only(c) /\ UNCHANGED <<scope, sut, made, cache>>
        /\ <<containerFor(c)', call'[c].gen>> \in Bound
    BY <2>1, <2>2 DEF Keeps
  <2> QED
    BY <1>2, <2>3, <2>4
<1>7. ASSUME NEW c \in Callers, Ends(c) PROVE BoundInv'
  <2>1. /\ Keeps(c) /\ call[c].at = "asked" /\ call'[c].gen = call[c].gen
        /\ UNCHANGED <<cache, made>>
        /\ \A t \in tunnels' : \E u \in tunnels : u.service = t.service /\ u.gen = t.gen
    BY <1>7 DEF Ends
  <2>2. \A t \in tunnels' : <<t.service, t.gen>> \in Bound
    BY <1>3, <2>1
  <2>3. <<containerFor(c)', call'[c].gen>> \in Bound
    <3>1. <<containerFor(c), call[c].gen>> \in Bound /\ containerFor(c)' = containerFor(c)
      BY <2>1, BoundIs, SameService DEF Keeps
    <3> QED
      BY <2>1, <3>1
  <2>4. Only(c) /\ UNCHANGED <<scope, sut, made, cache>>
    BY <2>1 DEF Keeps
  <2> QED
    BY <1>2, <2>2, <2>3, <2>4
<1>8. ASSUME NEW c \in Callers, Lookup(c) PROVE BoundInv'
  <2> DEFINE S == containerFor(c)
  <2>1. /\ Keeps(c) /\ tunnels' = tunnels /\ call[c].host = call'[c].host
    BY <1>8, LookupDoes DEF Keeps
  <2>2. containerFor(c)' = S
    BY <2>1, SameService DEF Keeps
  <2>3. CASE call'[c].at = "failed" /\ UNCHANGED <<cache, made>>
    BY <1>2, <1>3, <2>1, <2>3 DEF Keeps
  <2>4. CASE /\ S \in Services_ /\ made' \in Nat
             /\ cache' = [cache EXCEPT ![S] = call'[c].gen]
             /\ cache[S] # 0 /\ call'[c].gen = cache[S] /\ made' >= made
    <3>1. cache' = cache
      BY <2>4 DEF ReachTypeOK
    <3>2. <<S, call'[c].gen>> \in Bound
      BY <2>4, BoundIs
    <3>3. ASSUME NEW p \in Bound' PROVE p \in Bound
      <4>1. CASE \E s \in Services_ : cache'[s] # 0 /\ p = <<s, cache'[s]>>
        BY <3>1, <4>1, BoundIs
      <4>2. CASE \E t \in tunnels' : p = <<t.service, t.gen>>
        BY <1>3, <2>1, <4>2
      <4>3. CASE \E d \in Callers : /\ call'[d].at \in {"ready", "asked"}
                                    /\ p = <<containerFor(d)', call'[d].gen>>
        BY <2>1, <2>2, <3>2, <4>3, OthersLead DEF Keeps
      <4> QED
        BY <4>1, <4>2, <4>3, BoundIsNext
    <3> QED
      BY <2>4, <3>3, BoundShrinks
  <2>5. CASE /\ S \in Services_ /\ made' \in Nat
             /\ cache' = [cache EXCEPT ![S] = call'[c].gen]
             /\ cache[S] = 0 /\ call'[c].gen = made + 1 /\ made' = made + 1
    <3> DEFINE new == <<S, made + 1>>
    <3>1. \A s \in Services_ : cache'[s] = IF s = S THEN made + 1 ELSE cache[s]
      BY <2>5 DEF ReachTypeOK
    <3>2. ASSUME NEW p \in Bound' PROVE p \in Bound \cup {new}
      <4>1. CASE \E s \in Services_ : cache'[s] # 0 /\ p = <<s, cache'[s]>>
        BY <3>1, <4>1, BoundIs
      <4>2. CASE \E t \in tunnels' : p = <<t.service, t.gen>>
        BY <1>3, <2>1, <4>2
      <4>3. CASE \E d \in Callers : /\ call'[d].at \in {"ready", "asked"}
                                    /\ p = <<containerFor(d)', call'[d].gen>>
        BY <2>1, <2>2, <2>5, <4>3, OthersLead DEF Keeps
      <4> QED
        BY <4>1, <4>2, <4>3, BoundIsNext
    <3>3. new[1] = S /\ new[2] = made + 1
      OBVIOUS
    <3> HIDE DEF new
    <3>4. \A p \in Bound : p[2] \in 1..made
      BY DEF BoundInv
    <3>5. \A p \in Bound : p[2] \in 1..made' /\ p[2] # new[2]
      BY <1>0, <2>5, <3>3, <3>4
    <3>6. new[2] \in 1..made'
      BY <1>0, <2>5, <3>3
    <3>7. ASSUME NEW p \in Bound', NEW q \in Bound'
          PROVE  p[2] \in 1..made' /\ (p[2] = q[2] => p[1] = q[1])
      <4>1. p \in Bound \cup {new} /\ q \in Bound \cup {new}
        BY <3>2
      <4> QED
        BY <3>5, <3>6, <4>1 DEF BoundInv
    <3> QED
      BY <3>7 DEF BoundInv
  <2>6. \/ call'[c].at = "failed" /\ UNCHANGED <<cache, made>>
        \/ /\ S \in Services_ /\ made' \in Nat
           /\ cache' = [cache EXCEPT ![S] = call'[c].gen]
           /\ cache[S] # 0 /\ call'[c].gen = cache[S] /\ made' >= made
        \/ /\ S \in Services_ /\ made' \in Nat
           /\ cache' = [cache EXCEPT ![S] = call'[c].gen]
           /\ cache[S] = 0 /\ call'[c].gen = made + 1 /\ made' = made + 1
    BY <1>8, LookupDoes
  <2> QED
    BY <2>3, <2>4, <2>5, <2>6
<1>9. UNCHANGED reachVars \/ Close \/ IdleEnds =>
        /\ UNCHANGED <<call, scope, sut, made>> /\ tunnels' \subseteq tunnels
        /\ cache' = cache \/ cache' = [s \in Services_ |-> 0]
  <2>1. CASE Close
    BY <2>1, CloseDoes
  <2>2. CASE IdleEnds
    BY <2>2 DEF IdleEnds
  <2>3. CASE UNCHANGED reachVars
    BY <2>3 DEF reachVars
  <2> QED
    BY <2>1, <2>2, <2>3
<1> QED
  BY <1>1, <1>4, <1>5, <1>6, <1>7, <1>8, <1>9, AnswerDoes, ReadDoes, ReplayDoes DEF ReachNext

(* Nothing in use is numbered 0, the number of no transport.                *)
LEMMA InUseIsNumbered ==
    ASSUME ReachTypeOK, BoundInv
    PROVE  /\ \A t \in tunnels : t.gen # 0
           /\ \A d \in Callers : call[d].at \in {"ready", "asked"} => call[d].gen # 0
<1>1. made \in Nat
  BY DEF ReachTypeOK
<1>2. \A p \in Bound : p[2] # 0
  BY <1>1 DEF BoundInv
<1>3. ASSUME NEW t \in tunnels PROVE t.gen # 0
  <2>1. <<t.service, t.gen>> \in Bound
    BY BoundIs
  <2> QED
    BY <1>2, <2>1
<1>4. ASSUME NEW d \in Callers, call[d].at \in {"ready", "asked"} PROVE call[d].gen # 0
  <2>1. <<containerFor(d), call[d].gen>> \in Bound
    BY <1>4, BoundIs
  <2> QED
    BY <1>2, <2>1
<1> QED
  BY <1>3, <1>4

(* Whoever holds a transport that the cache knows, still does after a step  *)
(* of another caller that leaves the cache alone.                           *)
LEMMA OnOthers ==
    ASSUME OnInv, stage = "on", NEW c \in Callers, Only(c), scope' = scope, sut' = sut,
           cache' = cache, NEW d \in Callers, d # c, call'[d].at \in {"ready", "asked"}
    PROVE  cache'[containerFor(d)'] = call'[d].gen
<1>1. call'[d] = call[d] /\ containerFor(d)' = containerFor(d)
  BY SameService DEF Only
<1> QED
  BY <1>1 DEF OnInv, At

(* While the scope is open, a transport in use or with a tunnel is the      *)
(* cached one of its service.                                               *)
LEMMA OnStep ==
    ASSUME ReachTypeOK, CallInv, TunnelInv, BoundInv, OnInv, [ReachNext]_reachVars, stage' = "on"
    PROVE  OnInv'
<1>1. ASSUME stage = "on", UNCHANGED <<call, scope, sut, cache>>, tunnels' \subseteq tunnels
      PROVE  OnInv'
  BY <1>1 DEF OnInv, At, containerFor
<1>2. ASSUME NEW c \in Callers, stage = "on", Only(c), UNCHANGED <<scope, sut, cache>>,
             \A t \in tunnels' : cache[t.service] = t.gen,
             call'[c].at \in {"ready", "asked"} => cache[containerFor(c)'] = call'[c].gen
      PROVE  OnInv'
  <2>1. ASSUME NEW d \in Callers, call'[d].at \in {"ready", "asked"}
        PROVE  cache'[containerFor(d)'] = call'[d].gen
    BY <1>2, <2>1, OnOthers
  <2> QED
    BY <1>2, <2>1 DEF OnInv, At
<1>3. stage = "on" => \A t \in tunnels : cache[t.service] = t.gen
  BY DEF OnInv
<1>4. ASSUME NEW c \in Callers, Ask(c) PROVE OnInv'
  <2>1. /\ Only(c) /\ call'[c].at = "direct" /\ tunnels' = tunnels /\ stage = "on"
        /\ UNCHANGED <<scope, sut, cache>>
    BY <1>4, AskDoes
  <2> QED
    BY <1>2, <1>3, <2>1
<1>5. ASSUME NEW c \in Callers, Direct(c) PROVE OnInv'
  <2>1. /\ Keeps(c) /\ call'[c].at \in {"ok", "failed", "lookup"} /\ tunnels' = tunnels
        /\ UNCHANGED cache
    BY <1>5, DirectDoes
  <2> QED
    BY <1>2, <1>3, <2>1 DEF Keeps
<1>6. ASSUME NEW c \in Callers, Send(c) PROVE OnInv'
  <2>1. /\ Keeps(c) /\ call[c].at = "ready" /\ call'[c].gen = call[c].gen
        /\ UNCHANGED cache /\ stage = "on"
    BY <1>6, SendDoes DEF Keeps
  <2>2. cache[containerFor(c)] = call[c].gen /\ containerFor(c)' = containerFor(c)
    BY <2>1, SameService DEF Keeps, OnInv, At
  <2>3. ASSUME NEW t \in tunnels' PROVE cache[t.service] = t.gen
    <3>1. t \in tunnels \/ (t.service = containerFor(c) /\ t.gen = call[c].gen)
      BY <1>6, <2>3, SendDoes
    <3> QED
      BY <1>3, <2>1, <2>2, <3>1
  <2>4. /\ Only(c) /\ UNCHANGED <<scope, sut, cache>>
        /\ cache[containerFor(c)'] = call'[c].gen
    BY <2>1, <2>2 DEF Keeps
  <2> QED
    BY <1>2, <2>1, <2>3, <2>4
<1>7. ASSUME NEW c \in Callers, Ends(c) PROVE OnInv'
  <2>1. /\ Keeps(c) /\ call[c].at = "asked" /\ call'[c].gen = call[c].gen /\ UNCHANGED cache
        /\ stage = "on"
        /\ \A t \in tunnels' : \E u \in tunnels : u.service = t.service /\ u.gen = t.gen
    BY <1>7 DEF Ends, Keeps
  <2>2. \A t \in tunnels' : cache[t.service] = t.gen
    BY <1>3, <2>1
  <2>3. cache[containerFor(c)] = call[c].gen /\ containerFor(c)' = containerFor(c)
    BY <2>1, SameService DEF Keeps, OnInv, At
  <2>4. /\ Only(c) /\ UNCHANGED <<scope, sut, cache>> /\ cache[containerFor(c)'] = call'[c].gen
    BY <2>1, <2>3 DEF Keeps
  <2> QED
    BY <1>2, <2>1, <2>2, <2>4
<1>8. ASSUME NEW c \in Callers, Lookup(c) PROVE OnInv'
  <2> DEFINE S == containerFor(c)
  <2>1. /\ Keeps(c) /\ tunnels' = tunnels /\ stage = "on" /\ call[c].at = "lookup"
    BY <1>8, LookupDoes DEF Keeps
  <2>2. containerFor(c)' = S
    BY <2>1, SameService DEF Keeps
  <2>3. CASE call'[c].at = "failed" /\ cache' = cache
    BY <1>2, <1>3, <2>1, <2>3 DEF Keeps
  <2>4. CASE /\ S \in Services_ /\ cache' = [cache EXCEPT ![S] = call'[c].gen]
             /\ cache[S] # 0 => call'[c].gen = cache[S]
    <3>1. \A s \in Services_ : cache'[s] = IF s = S THEN call'[c].gen ELSE cache[s]
      BY <2>4 DEF ReachTypeOK
    <3>2. \A s \in Services_ : cache[s] # 0 => cache'[s] = cache[s]
      BY <2>4, <3>1
    <3> HIDE DEF S
    <3>3. ASSUME NEW t \in tunnels' PROVE cache'[t.service] = t.gen
      <4>1. t \in tunnels /\ t.service \in Services_ /\ cache[t.service] = t.gen /\ t.gen # 0
        BY <1>3, <2>1, InUseIsNumbered DEF ReachTypeOK, Tunnels
      <4> QED
        BY <3>2, <4>1
    <3>4. ASSUME NEW d \in Callers, call'[d].at \in {"ready", "asked"}
          PROVE  cache'[containerFor(d)'] = call'[d].gen
      <4>1. CASE d = c
        BY <2>2, <2>4, <3>1, <4>1
      <4>2. CASE d # c
        <5>1. call'[d] = call[d] /\ containerFor(d)' = containerFor(d)
          BY <2>1, <4>2, SameService DEF Keeps, Only
        <5>2. /\ containerFor(d) \in Services_ /\ cache[containerFor(d)] = call[d].gen
              /\ call[d].gen # 0
          BY <2>1, <3>4, <5>1, InUseIsNumbered DEF CallInv, CallOK, At, OnInv
        <5> QED
          BY <3>2, <5>1, <5>2
      <4> QED
        BY <4>1, <4>2
    <3> QED
      BY <3>3, <3>4 DEF OnInv, At
  <2>5. \/ call'[c].at = "failed" /\ cache' = cache
        \/ /\ S \in Services_ /\ cache' = [cache EXCEPT ![S] = call'[c].gen]
           /\ cache[S] # 0 => call'[c].gen = cache[S]
    BY <1>8, LookupDoes
  <2> QED
    BY <2>3, <2>4, <2>5
<1>9. UNCHANGED reachVars \/ IdleEnds =>
        /\ UNCHANGED <<call, scope, sut, cache>> /\ tunnels' \subseteq tunnels /\ stage = "on"
  BY DEF IdleEnds, reachVars
<1>10. ~Close
  BY CloseDoes
<1> QED
  BY <1>1, <1>4, <1>5, <1>6, <1>7, <1>8, <1>9, <1>10, AnswerDoes, ReadDoes, ReplayDoes DEF ReachNext

(* Nobody is out: every caller has not begun or has its answer.             *)
LEMMA NobodyOut ==
    Out = {} <=> \A d \in Callers : call[d].at \notin {"direct", "lookup", "ready", "asked"}
BY DEF Out, At

(* After Close returned in time nobody is under way and no tunnel is left;  *)
(* no step undoes that.                                                     *)
LEMMA OverStep ==
    ASSUME ReachInv, [ReachNext]_reachVars
    PROVE  OverInv'
<1> USE DEF ReachInv
<1>1. CASE UNCHANGED <<stage, late>>
  <2>1. SUFFICES ASSUME stage = "over", ~late PROVE UNCHANGED <<tunnels, call>>
    BY <1>1 DEF OverInv, Out, At
  <2>2. tunnels = {} /\ \A d \in Callers : call[d].at \notin {"direct", "lookup", "ready", "asked"}
    BY <2>1, NobodyOut DEF OverInv
  <2>3. ~Close /\ ~IdleEnds
    BY <2>1, <2>2 DEF Close, IdleEnds
  <2>4. \A c \in Callers : ~Ask(c) /\ ~Direct(c) /\ ~Lookup(c) /\ ~Send(c) /\ ~Answer(c) /\ ~Read(c) /\ ~Replay(c)
    BY <2>1, <2>2 DEF Ask, Direct, Lookup, Send, Answer, Read, Replay, At
  <2> QED
    BY <2>3, <2>4 DEF ReachNext, reachVars
<1>2. CASE Close
  <2>1. SUFFICES ASSUME Out = {} PROVE tunnels' = {} /\ Out' = {}
    BY <1>2, CloseDoes DEF OverInv
  <2>2. /\ stage = "on" /\ tunnels' \subseteq tunnels /\ UNCHANGED call
        /\ \A t \in tunnels' : t.user = "idle" => ~\E s \in Services_ : cache[s] = t.gen /\ t.gen # 0
    BY <1>2, CloseDoes
  <2>3. ASSUME NEW t \in tunnels' PROVE FALSE
    <3>1. t \in tunnels /\ t.service \in Services_ /\ t.user \in Callers \cup {"idle"}
      BY <2>2 DEF ReachTypeOK, Tunnels
    <3>2. cache[t.service] = t.gen /\ t.gen # 0
      BY <2>2, <3>1, InUseIsNumbered DEF OnInv
    <3>3. t.user # "idle"
      BY <2>2, <3>1, <3>2
    <3>4. t.user \in Callers /\ call[t.user].at = "asked"
      BY <3>1, <3>3 DEF TunnelInv, At
    <3> QED
      BY <2>1, <3>4, NobodyOut
  <2>4. Out' = {}
    BY <2>1, <2>2 DEF Out, At
  <2> QED
    BY <2>3, <2>4
<1>3. Close \/ UNCHANGED <<stage, late>>
  <2>1. ASSUME NEW c \in Callers, Ask(c) \/ Direct(c) \/ Lookup(c) \/ Send(c) \/ Answer(c) \/ Read(c) \/ Replay(c)
        PROVE  UNCHANGED <<stage, late>>
    BY <2>1 DEF Ask, Direct, Lookup, Send, Answer, Read, Replay
  <2> QED
    BY <2>1 DEF ReachNext, IdleEnds, reachVars
<1> QED
  BY <1>1, <1>2, <1>3

(* A smoke's result says what was sent and answered when it was closed.     *)
LEMMA ResultSays ==
    ASSUME ReachTypeOK, Close, scope = "smoke", result'.exit = 1, MinRate = 100
    PROVE  late' \/ \E c \in Callers : call'[c].at = "failed"
<1> DEFINE Sent == {c \in Callers : ~At(c, {"off"})}
           Ok == {c \in Callers : At(c, {"ok"})}
<1>1. IsFiniteSet(Sent) /\ IsFiniteSet(Ok)
  BY FS_Subset, ReachAssumption
<1>2. Cardinality(Sent) \in Nat /\ Cardinality(Ok) \in Nat
  <2> HIDE DEF Sent, Ok
  <2> QED
    BY <1>1, FS_CardinalityType
<1>3. result' = [sent |-> Cardinality(Sent), ok |-> Cardinality(Ok),
                 exit |-> ExitCode([sent |-> Cardinality(Sent), ok |-> Cardinality(Ok)])]
  BY CloseDoes DEF SmokeResult
<1>4. Cardinality(Sent) # Cardinality(Ok)
  <2> HIDE DEF Sent, Ok
  <2>1. ExitCode([sent |-> Cardinality(Sent), ok |-> Cardinality(Ok)]) = 1
    BY <1>3
  <2> QED
    BY <1>2, <2>1 DEF ExitCode
<1>5. PICK c \in Callers : call[c].at \notin {"off", "ok"}
  <2>1. Sent # Ok
    BY <1>4
  <2> QED
    BY <2>1 DEF At
<1>6. call[c].at \in {"direct", "lookup", "ready", "asked", "failed"}
  BY <1>5 DEF ReachTypeOK, Calls
<1>7. late' = (Out # {}) /\ call' = call
  BY CloseDoes
<1>8. CASE call[c].at = "failed"
  BY <1>7, <1>8
<1>9. CASE call[c].at # "failed"
  <2>1. Out # {}
    BY <1>6, <1>9, NobodyOut
  <2> QED
    BY <1>7, <2>1
<1> QED
  BY <1>8, <1>9

(* The counts that smoke reports are the counts of its callers when it took *)
(* them.                                                                    *)
LEMMA ResultStep ==
    ASSUME ReachInv, [ReachNext]_reachVars
    PROVE  ResultInv'
<1> USE DEF ReachInv
<1>1. CASE Close
  <2>1. SUFFICES ASSUME scope = "smoke"
                 PROVE  /\ result'.exit = ExitCode(result')
                        /\ result'.exit = 1 /\ MinRate = 100 =>
                             \E c \in Callers : call'[c].at = "failed" \/ late'
    BY <1>1, CloseDoes DEF ResultInv, At, ExitCode
  <2>2. result' = SmokeResult
    BY <1>1, <2>1, CloseDoes
  <2>3. result'.exit = ExitCode(result')
    BY <2>2 DEF SmokeResult, ExitCode
  <2>4. ASSUME result'.exit = 1, MinRate = 100
        PROVE  \E c \in Callers : call'[c].at = "failed" \/ late'
    <3>1. late' \/ \E c \in Callers : call'[c].at = "failed"
      BY <1>1, <2>1, <2>4, ResultSays
    <3>2. late' = (Out # {}) /\ Out \subseteq Callers
      BY <1>1, CloseDoes DEF Out
    <3> QED
      BY <3>1, <3>2
  <2> QED
    BY <2>3, <2>4
<1>2. CASE /\ UNCHANGED <<stage, scope, result, late>>
           /\ \A d \in Callers : call[d].at = "failed" => call'[d].at = "failed"
  BY <1>2 DEF ResultInv, At, ExitCode
<1>3. ASSUME NEW c \in Callers, Ask(c) \/ Direct(c) \/ Lookup(c) \/ Send(c) \/ Answer(c) \/ Read(c) \/ Replay(c)
      PROVE  /\ UNCHANGED <<stage, scope, result, late>>
             /\ \A d \in Callers : call[d].at = "failed" => call'[d].at = "failed"
  <2>1. call[c].at # "failed"
    BY <1>3 DEF Ask, Direct, Lookup, Send, Answer, Read, Replay, At
  <2>2. UNCHANGED <<stage, scope, result, late>>
    BY <1>3 DEF Ask, Direct, Lookup, Send, Answer, Read, Replay
  <2>3. Only(c)
    BY <1>3, AskDoes, DirectDoes, LookupDoes, SendDoes, AnswerDoes, ReadDoes, ReplayDoes DEF Keeps, Ends
  <2> QED
    BY <2>1, <2>2, <2>3 DEF Only
<1>4. UNCHANGED reachVars \/ IdleEnds => UNCHANGED <<stage, scope, result, late, call>>
  BY DEF IdleEnds, reachVars
<1> QED
  BY <1>1, <1>2, <1>3, <1>4 DEF ReachNext

(* The percentiles of n latencies are ranks among them, and in order.       *)
LEMMA PercentilesInOrder ==
    ASSUME NEW n \in Nat, n >= 1
    PROVE  /\ percentile(n, 50) <= percentile(n, 95)
           /\ percentile(n, 95) <= percentile(n, 99)
           /\ percentile(n, 99) \in 1..n
BY DEF percentile

(* The invariant of callers, tunnels, cache and result holds of every       *)
(* behaviour of the dialing.                                                *)
LEMMA ReachInvariance == ReachSpec => []ReachInv
<1>1. ReachInit => ReachInv
  <2> SUFFICES ASSUME ReachInit PROVE ReachInv
    OBVIOUS
  <2>1. ReachTypeOK
    BY ReachTypeInit
  <2>2. /\ \A c \in Callers : call[c].at = "off" /\ call[c].hits = 0 /\ call[c].broke = 0
        /\ \A s \in Services_ : cache[s] = 0
        /\ tunnels = {} /\ stage = "on"
    BY Zenon DEF ReachInit, ReachFresh
  <2>3. CallInv
    BY <2>2 DEF CallInv, CallOK, At
  <2>4. TunnelInv /\ OnInv /\ OverInv /\ ResultInv
    BY <2>2 DEF TunnelInv, OnInv, OverInv, ResultInv, At
  <2>5. BoundInv
    BY <2>2 DEF BoundInv, Bound, At
  <2> QED
    BY <2>1, <2>3, <2>4, <2>5 DEF ReachInv
<1>2. ReachInv /\ [ReachNext]_reachVars => ReachInv'
  <2> SUFFICES ASSUME ReachInv, [ReachNext]_reachVars PROVE ReachInv'
    OBVIOUS
  <2>1. ReachTypeOK /\ CallInv /\ TunnelInv /\ BoundInv /\ OnInv
    BY DEF ReachInv
  <2>2. ReachTypeOK' /\ CallInv' /\ TunnelInv' /\ BoundInv'
    BY <2>1, ReachTypeStep, CallStep, TunnelStep, BoundStep
  <2>3. OnInv'
    <3>1. CASE stage' = "on"
      BY <2>1, <3>1, OnStep
    <3>2. CASE stage' # "on"
      BY <3>2 DEF OnInv
    <3> QED
      BY <3>1, <3>2
  <2>4. OverInv' /\ ResultInv'
    BY OverStep, ResultStep
  <2> QED
    BY <2>2, <2>3, <2>4 DEF ReachInv
<1> QED
  BY <1>1, <1>2, PTL DEF ReachSpec

(* Whoever answers a caller is the one it asked, a request is delivered     *)
(* twice only over a broken connection, no teardown with nobody out leaves  *)
(* a tunnel, and a smoke's exit code is earned: for any callers, hosts,     *)
(* services and rate (internal/run's and internal/smoke's transports).      *)
THEOREM ReachedAndReleased == ReachSpec => []ReachedAndLetGo
<1>1. ReachInv => ReachedAndLetGo
  <2> SUFFICES ASSUME ReachInv PROVE ReachedAndLetGo
    OBVIOUS
  <2> USE DEF ReachInv
  <2>1. ASSUME NEW c \in Callers
        PROVE  /\ At(c, {"ok"}) => call[c].heard \in {call[c].host, containerFor(c)} \ {NoName}
               /\ call[c].hits <= call[c].broke + 1
    BY DEF CallInv, CallOK
  <2>2. stage = "on" => \A t \in tunnels : cache[t.service] = t.gen
    BY DEF OnInv
  <2>3. stage = "over" /\ ~late => tunnels = {}
    BY DEF OverInv
  <2>4. ASSUME stage = "over", scope = "smoke"
        PROVE  /\ result.exit = 0 => result.sent > 0 /\ result.ok * 100 >= MinRate * result.sent
               /\ result.exit = 1 /\ MinRate = 100 => \E c \in Callers : At(c, {"failed"}) \/ late
               /\ \A n \in 1..result.sent : percentile(n, 50) <= percentile(n, 95)
                                            /\ percentile(n, 95) <= percentile(n, 99)
                                            /\ percentile(n, 99) \in 1..n
    <3>1. result.exit = 0 => result.sent > 0 /\ result.ok * 100 >= MinRate * result.sent
      <4>1. result.exit = ExitCode(result)
        BY <2>4 DEF ResultInv
      <4> QED
        BY <4>1 DEF ExitCode
    <3>2. result.exit = 1 /\ MinRate = 100 => \E c \in Callers : At(c, {"failed"}) \/ late
      BY <2>4 DEF ResultInv, At
    <3>3. ASSUME NEW n \in 1..result.sent
          PROVE  percentile(n, 50) <= percentile(n, 95) /\ percentile(n, 95) <= percentile(n, 99)
                 /\ percentile(n, 99) \in 1..n
      <4>1. result.sent \in Nat
        BY DEF ReachTypeOK
      <4>2. n \in Nat /\ n >= 1
        BY <4>1
      <4> QED
        BY <4>2, PercentilesInOrder
    <3> QED
      BY <3>1, <3>2, <3>3
  <2> QED
    BY <2>1, <2>2, <2>3, <2>4, Zenon DEF ReachedAndLetGo, NoName
<1> QED
  BY <1>1, ReachInvariance, PTL

-----------------------------------------------------------------------------
(* What the theorem is about.  Every run resets the stack first, no service *)
(* names networks of its own (compose would unite them with the overlay's), *)
(* no outside host has the name of a service, a service waits for services  *)
(* only, and a fault's target has a class, as parsing sees to.              *)
Ordinary ==
    /\ \A s \in Services : BaseNets[s] = {} /\ DependsOn[s] \subseteq Services
    /\ \A r \in Requests :
         /\ r.reset = TRUE
         /\ Hostnames(ExternalHosts(r)) \cap Services = {}
         /\ \A f \in r.faults : f.target \in DOMAIN Classes(r)

Intercept == Hostnames(InternalHosts(request))

ProxyId == [service |-> "proxy", role |-> "proxy"]

(* The containers of the project under the overlay, one by one.             *)
Own(r, s) == [service |-> s, role |-> "own", aliases |-> {}, nets |-> BaseNets[s] \cup {"sut"},
              needs |-> rewriteDependsOn(s, Hostnames(InternalHosts(r)))]

Backend(r, s) == [service |-> s, role |-> "backend", aliases |-> {}, nets |-> {"sut"},
                  needs |-> BackendNeeds(s, Hostnames(InternalHosts(r)))]

Proxy(r) == [service |-> "proxy", role |-> "proxy", needs |-> {}, nets |-> ProxyNets,
             aliases |-> Hostnames(ExternalHosts(r)) \cup Hostnames(InternalHosts(r))]

(* The project has a container of each service, at its own name or moved    *)
(* aside, and the proxy.                                                    *)
LEMMA ProjectIs ==
    ASSUME NEW r
    PROVE  Project(r) = {Own(r, s) : s \in Services \ Hostnames(InternalHosts(r))}
                        \cup {Backend(r, s) : s \in Hostnames(InternalHosts(r))}
                        \cup {Proxy(r)}
BY DEF Project, Own, Backend, Proxy

(* A container that takes a name of its own is a service's, and only the    *)
(* proxy takes other names.                                                 *)
Named(c) == /\ c.role = "own" => c.service \in Services
            /\ c.aliases # {} => Id(c) = ProxyId

Moved(c) == c.role = "own" => c.nets = {"default"}

(* A proxy leads to what its host always stood for, whatever run made it:   *)
(* the clone of a service or the world.                                     *)
Faithful(P) ==
    \A h \in DOMAIN P :
        P[h] = [service |-> hostnameOf[h],
                role |-> IF hostnameOf[h] \in Services THEN "backend" ELSE "world"]

(* The inductive invariant: what is up is named right; until the overlay    *)
(* comes up only the base project's network is in use, and after that only  *)
(* by containers that the overlay did not replace; no proxy of an earlier   *)
(* run leads elsewhere.                                                     *)
OverlayInv ==
    /\ request \in Requests /\ Faithful(proxies)
    /\ \A c \in up : Named(c)
    /\ topo \in {"classify", "apply"} => \A c \in up : Moved(c)
    /\ topo \in {"apply", "prepare", "loaded"} => OfClass(request, {"unclassified"}) = {}
    /\ topo \in {"prepare", "loaded"} =>
         /\ Intercept \subseteq Services
         /\ Project(request) \subseteq up
         /\ \A c \in up : Id(c) \in {Id(d) : d \in Project(request)} => c \in Project(request)
         /\ \A c \in up \ Project(request) : Moved(c)
    /\ topo = "loaded" => Routed(request) \subseteq DOMAIN proxies

(* The containers of both projects are named right.                         *)
LEMMA ProjectsAreNamed ==
    ASSUME NEW r, Hostnames(InternalHosts(r)) \subseteq Services
    PROVE  \A c \in Project(r) : Named(c)
<1>1. \A s \in Services : Named(Own(r, s))
  BY DEF Named, Own
<1>2. \A s : Named(Backend(r, s))
  BY DEF Named, Backend
<1>3. Named(Proxy(r))
  BY DEF Named, Proxy, Id, ProxyId
<1> QED
  BY <1>1, <1>2, <1>3, ProjectIs

(* So are those of the base project, which are on its own network.          *)
LEMMA BaseIsNamed ==
    ASSUME Ordinary
    PROVE  \A c \in BaseProject : Named(c) /\ Moved(c)
BY DEF Ordinary, BaseProject, Named, Moved

(* `up` replaces the containers it starts and keeps the others.             *)
LEMMA StartedDoes ==
    ASSUME NEW S
    PROVE  /\ S \subseteq Started(S) /\ Started(S) \subseteq up \cup S
           /\ \A c \in Started(S) : Id(c) \in {Id(d) : d \in S} => c \in S
BY DEF Started

(* What Toxiproxy remembers is still faithful.                              *)
LEMMA RememberedIsFaithful ==
    ASSUME Faithful(proxies), NEW S
    PROVE  Faithful(Remembered(S))
<1>1. CASE {c \in S : c.role = "proxy"} \subseteq up
  BY <1>1 DEF Remembered
<1>2. CASE ~({c \in S : c.role = "proxy"} \subseteq up)
  <2>1. Remembered(S) = <<>> /\ DOMAIN <<>> = {}
    BY <1>2 DEF Remembered
  <2> QED
    BY <2>1, Zenon DEF Faithful
<1> QED
  BY <1>1, <1>2

(* A host of the request is a service's name exactly if it is internal.     *)
LEMMA RoutedAreTold ==
    ASSUME Ordinary, request \in Requests, Intercept \subseteq Services, NEW h \in Routed(request)
    PROVE  hostnameOf[h] \in Services <=> h \in InternalHosts(request)
BY DEF Ordinary, Intercept, Hostnames, Routed

(* Every step of every run keeps the invariant.                             *)
LEMMA OverlayStep ==
    ASSUME Ordinary, OverlayInv, [TopoNext]_topoVars
    PROVE  OverlayInv'
<1>1. CASE ResetStack
  <2>1. request.reset = TRUE
    BY DEF Ordinary, OverlayInv
  <2>2. /\ up' = {c \in up : c.role # "own"} \cup BaseProject
        /\ topo' = "classify" /\ request' = request /\ proxies' = proxies
    BY <1>1, <2>1 DEF ResetStack
  <2>3. \A c \in up' : Named(c) /\ Moved(c)
    BY <2>2, BaseIsNamed DEF OverlayInv, Moved
  <2> QED
    BY <2>2, <2>3 DEF OverlayInv, Named, Moved, Id
<1>2. CASE CheckEgress
  <2>1. EgressAudit(request).unclassified = OfClass(request, {"unclassified"})
    BY DEF EgressAudit
  <2>2. /\ topo = "classify" /\ UNCHANGED <<up, request, proxies>>
        /\ topo' \in {"apply", "over"}
        /\ topo' = "apply" => OfClass(request, {"unclassified"}) = {}
    BY <1>2, <2>1 DEF CheckEgress
  <2>3. (OfClass(request, {"unclassified"}) = {})' <=> OfClass(request, {"unclassified"}) = {}
    BY <2>2
  <2> QED
    BY <2>2, <2>3 DEF OverlayInv, Named, Moved, Id
<1>3. CASE Apply
  <2>1. /\ topo = "apply" /\ Intercept \subseteq Services /\ up' = Started(Project(request))
        /\ topo' = "prepare" /\ request' = request /\ proxies' = Remembered(Project(request))
    BY <1>3 DEF Apply, Interceptable, Intercept
  <2>2. \A c \in Project(request) : Named(c)
    BY <2>1, ProjectsAreNamed DEF Intercept
  <2>3. /\ \A c \in up' : Named(c)
        /\ \A c \in up' \ Project(request) : Moved(c)
    BY <2>1, <2>2, StartedDoes DEF OverlayInv
  <2>4. /\ Project(request) \subseteq up'
        /\ \A c \in up' : Id(c) \in {Id(d) : d \in Project(request)} => c \in Project(request)
    BY <2>1, StartedDoes
  <2>5. /\ Project(request)' = Project(request) /\ Intercept' = Intercept
        /\ OfClass(request, {"unclassified"})' = OfClass(request, {"unclassified"})
    BY <2>1 DEF Intercept
  <2>6. Faithful(proxies')
    BY <2>1, RememberedIsFaithful DEF OverlayInv
  <2> QED
    BY <2>1, <2>3, <2>4, <2>5, <2>6 DEF OverlayInv, Named, Moved, Id, Faithful
<1>4. CASE ApplyFails
  <2>1. /\ topo' = "over" /\ request' = request
    BY <1>4 DEF ApplyFails
  <2>2. \A c \in up' : Named(c)
    <3>1. CASE up' = up
      BY <3>1 DEF OverlayInv
    <3>2. CASE up' # up
      <4>1. PICK d \in Project(request) : /\ Interceptable
                                          /\ up' = Started(Project(request) \ {d})
        BY <1>4, <3>2 DEF ApplyFails
      <4>2. \A c \in Project(request) : Named(c)
        BY <4>1, ProjectsAreNamed DEF Interceptable
      <4> QED
        BY <4>1, <4>2, StartedDoes DEF OverlayInv
    <3> QED
      BY <3>1, <3>2
  <2>3. Faithful(proxies')
    BY <1>4, RememberedIsFaithful DEF OverlayInv, ApplyFails
  <2> QED
    BY <2>1, <2>2, <2>3 DEF OverlayInv, Named, Id, Faithful
<1>5. CASE EnsureProxies
  <2>1. /\ topo = "prepare" /\ topo' = "loaded" /\ UNCHANGED <<up, request>>
        /\ proxies' = [h \in DOMAIN proxies \cup Routed(request) |->
                         IF h \in DOMAIN proxies THEN proxies[h]
                         ELSE [service |-> hostnameOf[h],
                               role |-> IF h \in InternalHosts(request) THEN "backend" ELSE "world"]]
    BY <1>5 DEF EnsureProxies
  <2>3. Faithful(proxies') /\ Routed(request) \subseteq DOMAIN proxies'
    <3>1. \A h \in Routed(request) : hostnameOf[h] \in Services <=> h \in InternalHosts(request)
      BY <2>1, RoutedAreTold DEF OverlayInv
    <3> QED
      BY <2>1, <3>1 DEF OverlayInv, Faithful
  <2>2. /\ Project(request)' = Project(request) /\ Intercept' = Intercept
        /\ OfClass(request, {"unclassified"})' = OfClass(request, {"unclassified"})
        /\ Routed(request)' = Routed(request)
    BY <2>1 DEF Intercept, Routed
  <2> QED
    BY <2>1, <2>2, <2>3 DEF OverlayInv, Named, Moved, Id, Faithful
<1>6. CASE TeardownDisabled
  BY <1>6 DEF TeardownDisabled, OverlayInv, Named, Id, Faithful
<1>7. CASE NextRun
  BY <1>7 DEF NextRun, OverlayInv, Named, Id, Faithful
<1>8. CASE UNCHANGED topoVars
  <2>1. UNCHANGED <<up, request, topo, proxies>>
    BY <1>8 DEF topoVars
  <2>2. /\ Project(request)' = Project(request) /\ Intercept' = Intercept
        /\ OfClass(request, {"unclassified"})' = OfClass(request, {"unclassified"})
        /\ Routed(request)' = Routed(request)
    BY <2>1 DEF Intercept, Routed
  <2> QED
    BY <2>1, <2>2 DEF OverlayInv, Named, Moved, Id, Faithful
<1> QED
  BY <1>1, <1>2, <1>3, <1>4, <1>5, <1>6, <1>7, <1>8 DEF TopoNext

(* Every state of every sequence of runs has the invariant.                 *)
LEMMA OverlayInvariance ==
    ASSUME Ordinary
    PROVE  TopoSpec => []OverlayInv
<1>1. TopoInit => OverlayInv
  BY DEF TopoInit, OverlayInv, Faithful
<1>2. OverlayInv /\ [TopoNext]_topoVars => OverlayInv'
  BY OverlayStep
<1> QED
  BY <1>1, <1>2, PTL DEF TopoSpec

(* A target of a network fault whose class is known and not block is sent   *)
(* through the proxy.                                                       *)
LEMMA FaultsAreRouted ==
    ASSUME NEW r, OfClass(r, {"unclassified"}) = {}, NEW f \in r.faults,
           f.verb \in networkFaultVerbs, f.target \in DOMAIN Classes(r),
           Classes(r)[f.target] # "block"
    PROVE  f.target \in ExternalHosts(r) \cup InternalHosts(r)
<1> DEFINE t == f.target
<1>1. t \in DOMAIN r.hosts \cup DOMAIN r.detected /\ Classes(r)[t] = classifyOne(r, t)
  BY DEF Classes
<1>2. classifyOne(r, t) \in {"internal", "mock", "real", "block", "unclassified"}
  <2>1. CASE t \in DOMAIN r.hosts
    BY <2>1, Zenon DEF classifyOne, isKnownClass
  <2>2. CASE t \notin DOMAIN r.hosts
    BY <2>2, Zenon DEF classifyOne
  <2> QED
    BY <2>1, <2>2
<1>3. classifyOne(r, t) # "unclassified"
  BY <1>1 DEF OfClass
<1>4. CASE classifyOne(r, t) \in {"real", "mock"}
  BY <1>1, <1>4 DEF ExternalHosts, OfClass
<1>5. CASE classifyOne(r, t) = "internal"
  BY <1>1, <1>5 DEF InternalHosts, OfClass
<1> QED
  BY <1>1, <1>2, <1>3, <1>4, <1>5

(* Under load the name of every intercepted host leads to the proxy alone.  *)
LEMMA ProxyAnswers ==
    ASSUME Ordinary, OverlayInv, topo = "loaded",
           NEW c \in Project(request), c.nets = {"sut"},
           NEW n \in Hostnames(ExternalHosts(request)) \cup Intercept
    PROVE  {Id(d) : d \in AnswersTo(n, c)} = {ProxyId}
<1>1. /\ Intercept \subseteq Services /\ Project(request) \subseteq up
      /\ \A d \in up \ Project(request) : Moved(d)
      /\ \A d \in up : Named(d)
  BY DEF OverlayInv
<1>2. n \in Services => n \in Intercept
  BY DEF Ordinary, OverlayInv
<1>3. ASSUME NEW d \in AnswersTo(n, c)
      PROVE  Id(d) = ProxyId
  <2>1. CASE n \in d.aliases
    BY <1>1, <1>3, <2>1 DEF AnswersTo, Named
  <2>2. CASE n \notin d.aliases
    <3>1. d \in up /\ d.role = "own" /\ d.service = n /\ d.nets \cap {"sut"} # {}
      BY <1>3, <2>2 DEF AnswersTo
    <3>2. n \in Intercept
      BY <1>1, <1>2, <3>1 DEF Named
    <3>3. d \in Project(request)
      BY <1>1, <3>1 DEF Moved
    <3>4. d.service \in Services \ Intercept
      BY <3>1, <3>3, ProjectIs DEF Own, Backend, Proxy, Intercept
    <3> QED
      BY <3>1, <3>2, <3>4
  <2> QED
    BY <2>1, <2>2
<1>4. /\ Proxy(request) \in AnswersTo(n, c)
      /\ Id(Proxy(request)) = ProxyId
  <2>1. Proxy(request) \in up /\ n \in Proxy(request).aliases
    BY <1>1, ProjectIs DEF Proxy, Intercept
  <2> QED
    BY <2>1 DEF AnswersTo, Id, Proxy, ProxyId
<1> QED
  BY <1>3, <1>4

(* What a container of the project waits for is a container of the project. *)
LEMMA NeedsAreThere ==
    ASSUME Ordinary, NEW r, Hostnames(InternalHosts(r)) \subseteq Services, NEW c \in Project(r)
    PROVE  c.needs \subseteq {Id(d) : d \in Project(r)}
<1> DEFINE I == Hostnames(InternalHosts(r))
<1>1. ASSUME NEW s \in Services, NEW n \in rewriteDependsOn(s, I)
      PROVE  n \in {Id(d) : d \in Project(r)}
  <2>1. PICK d \in DependsOn[s] :
          n = [service |-> d, role |-> IF d \in I THEN "backend" ELSE "own"]
    BY <1>1 DEF rewriteDependsOn
  <2>2. d \in Services
    BY DEF Ordinary
  <2>3. CASE d \in I
    <3>1. n = Id(Backend(r, d)) /\ Backend(r, d) \in Project(r)
      BY <2>1, <2>3, ProjectIs DEF Id, Backend
    <3> QED
      BY <3>1
  <2>4. CASE d \notin I
    <3>1. n = Id(Own(r, d)) /\ Own(r, d) \in Project(r)
      BY <2>1, <2>2, <2>4, ProjectIs DEF Id, Own
    <3> QED
      BY <3>1
  <2> QED
    BY <2>3, <2>4
<1>2. \A s : BackendNeeds(s, I) \subseteq rewriteDependsOn(s, I)
  BY DEF BackendNeeds
<1> QED
  BY <1>1, <1>2, ProjectIs DEF Own, Backend, Proxy

(* Every fault has traffic to act on and nothing else leaves, for any       *)
(* ordinary application and any sequence of runs, aborted and failed ones   *)
(* among them (internal/run/topology.go, internal/egress).                  *)
THEOREM TrafficIsIntercepted ==
    ASSUME Ordinary
    PROVE  TopoSpec => []Intercepted
<1>1. OverlayInv => Intercepted
  <2> SUFFICES ASSUME OverlayInv, topo = "loaded" PROVE Intercepted
    BY DEF Intercepted, OnlyProxyLeadsOut, NamesLeadToProxy
  <2>1. Project(request) \subseteq up /\ Intercept \subseteq Services /\ request \in Requests
    BY DEF OverlayInv
  <2>2. Enabled = Project(request)
    BY DEF OverlayInv, Enabled
  <2>3. /\ Routed(request) \subseteq DOMAIN proxies
        /\ \A h \in InternalHosts(request) :
             proxies[h] = [service |-> hostnameOf[h], role |-> "backend"]
    BY <2>1, RoutedAreTold DEF OverlayInv, Faithful, Routed
  <2>4. \A h \in Routed(request) : hostnameOf[h] \in Hostnames(ExternalHosts(request)) \cup Intercept
    BY DEF Hostnames, Intercept, Routed
  <2>5. \A c \in Enabled : c.role # "proxy" => c.nets = {"sut"}
    BY <2>1, <2>2, ProjectIs DEF Own, Backend, Proxy, Ordinary
  <2>6. \A c \in Enabled : c.needs \subseteq {Id(d) : d \in Enabled}
    BY <2>1, <2>2, NeedsAreThere DEF Intercept
  <2>7. \A c \in Enabled : c.role = "own" =>
           \A h \in Routed(request) : {Id(d) : d \in AnswersTo(hostnameOf[h], c)} = {ProxyId}
    BY <2>2, <2>4, <2>5, ProxyAnswers
  <2>8. ASSUME NEW h \in InternalHosts(request)
        PROVE  \E d \in Enabled : Id(d) = proxies[h] /\ "sut" \in d.nets
    <3>1. hostnameOf[h] \in Hostnames(InternalHosts(request))
      BY DEF Hostnames
    <3>2. Backend(request, hostnameOf[h]) \in Project(request)
      BY <3>1, ProjectIs
    <3> QED
      BY <2>2, <2>3, <2>8, <3>2 DEF Backend, Id
  <2>9. \A f \in request.faults :
           f.verb \in networkFaultVerbs /\ Classes(request)[f.target] # "block"
              => f.target \in DOMAIN proxies
    BY <2>1, <2>3, FaultsAreRouted DEF OverlayInv, Ordinary, Routed
  <2> QED
    BY <2>5, <2>6, <2>7, <2>8, <2>9 DEF Intercepted, OnlyProxyLeadsOut, NamesLeadToProxy, ProxyId
<1> QED
  BY <1>1, OverlayInvariance, PTL

-----------------------------------------------------------------------------
(* How the tool itself may end, and what Stop then has to say.              *)
Passes == IF Fuzz THEN {"clean", "failures", "errors", "both", "crashed"} ELSE {"ok", "failed"}

ToolTold == [err |-> ToolError,
         failures |-> report /\ pass \in {"failures", "both"},
         unexecuted |-> report /\ pass \in {"errors", "both"}]

(* Where Start, Stop, the client, the container and the kills are.          *)
ToolTypeOK ==
    /\ point \in {"preflight", "refused", "start", "failed", "copy", "launch", "up", "stopping",
                  "remove", "over"}
    /\ client \in {"none", "running", "ended", "failed", "killed"}
    /\ asked \in {"none", "create", "start"} /\ box \in {"none", "created", "running", "exited"}
    /\ pass \in {"none"} \cup Passes
    /\ bound \in {"off", "armed", "fired"}
    /\ kill \in [{"bound", "stop"} -> {"no", "client", "box", "done"}]
    /\ cutShort \in BOOLEAN /\ report \in BOOLEAN

(* Start has handed the tool over. *)
Begun == point \in {"up", "stopping", "remove", "over"}

(* Until the client is started there is nothing but a created container.    *)
EarlyInv ==
    ~Begun => /\ client = "none" /\ asked = "none" /\ pass = "none" /\ ~cutShort
              /\ bound = "off" /\ kill = [a \in {"bound", "stop"} |-> "no"]
              /\ box = "none" \/ (point \in {"copy", "launch"} /\ box = "created")

(* Who ended the client shows: its own end in how the tool ended, a kill in *)
(* the bound or in Stop, which says that it cut the tool short.             *)
RaceInv ==
    /\ Begun => client # "none"
    /\ mode = "host" => asked = "none" /\ box = "none"
    /\ asked # "none" => box # "running"
    /\ client = "failed" => asked = "none" /\ box # "running"
    /\ client = "ended" => pass \in {"ok", "clean"}
    /\ client = "killed" => cutShort \/ kill["bound"] # "no"
    /\ ~Fuzz => bound = "off" /\ kill["bound"] = "no"
    /\ bound = "armed" => kill["bound"] = "no"
    /\ kill["stop"] = "client" => cutShort
    /\ point = "up" => ~cutShort /\ kill["stop"] = "no"
    /\ point \in {"stopping", "remove", "over"} =>
         bound # "armed" /\ (client = "running" => cutShort)

(* What Stop read is what there was: a pass without a report crashed, was   *)
(* killed, or never began.                                                  *)
ReadInv ==
    /\ point \in {"remove", "over"} =>
         /\ client # "running"
         /\ report => Fuzz /\ pass \notin {"none", "crashed"}
         /\ Fuzz /\ ~report => \/ pass = "crashed" \/ client = "killed"
                               \/ client = "failed" /\ pass = "none"
    /\ point = "over" =>
         /\ toolResult = ToolTold
         /\ box \in {"none", "created"} /\ (box = "created" => asked = "none")

ToolInv == ToolTypeOK /\ EarlyInv /\ RaceInv /\ ReadInv

(* Every step of the tool, its container, its bound and Stop keeps it.      *)
LEMMA ToolStep == ToolInv /\ [ToolNext]_toolVars => ToolInv'
<1> SUFFICES ASSUME ToolInv, [ToolNext]_toolVars PROVE ToolInv'
  OBVIOUS
<1>. ToolTypeOK /\ EarlyInv /\ RaceInv /\ ReadInv
  BY DEF ToolInv
<1>1. CASE Preflight
  <2>1. ToolTypeOK'
    BY <1>1 DEF Preflight, ToolTypeOK, Passes, Fuzz
  <2>2. EarlyInv'
    BY <1>1 DEF Preflight, ToolTypeOK, EarlyInv, RaceInv, Begun, Fuzz
  <2>3. RaceInv'
    BY <1>1 DEF Preflight, ToolTypeOK, EarlyInv, RaceInv, Begun, Passes, Fuzz
  <2>4. ReadInv'
    BY <1>1 DEF Preflight, ToolTypeOK, EarlyInv, RaceInv, ReadInv, Begun, ToolTold, ToolError, Fuzz
  <2> QED
    BY <2>1, <2>2, <2>3, <2>4 DEF ToolInv
<1>2. CASE StartTool
  <2>1. ToolTypeOK'
    BY <1>2 DEF StartTool, ToolTypeOK, Passes, Fuzz
  <2>2. EarlyInv'
    BY <1>2 DEF StartTool, ToolTypeOK, EarlyInv, RaceInv, Begun, Fuzz
  <2>3. RaceInv'
    BY <1>2 DEF StartTool, ToolTypeOK, EarlyInv, RaceInv, Begun, Passes, Fuzz
  <2>4. ReadInv'
    BY <1>2 DEF StartTool, ToolTypeOK, EarlyInv, RaceInv, ReadInv, Begun, ToolTold, ToolError, Fuzz
  <2> QED
    BY <2>1, <2>2, <2>3, <2>4 DEF ToolInv
<1>3. CASE CopySpec
  <2>1. ToolTypeOK'
    BY <1>3 DEF CopySpec, ToolTypeOK, Passes, Fuzz
  <2>2. EarlyInv'
    BY <1>3 DEF CopySpec, ToolTypeOK, EarlyInv, RaceInv, Begun, Fuzz
  <2>3. RaceInv'
    BY <1>3 DEF CopySpec, ToolTypeOK, EarlyInv, RaceInv, Begun, Passes, Fuzz
  <2>4. ReadInv'
    BY <1>3 DEF CopySpec, ToolTypeOK, EarlyInv, RaceInv, ReadInv, Begun, ToolTold, ToolError, Fuzz
  <2> QED
    BY <2>1, <2>2, <2>3, <2>4 DEF ToolInv
<1>4. CASE LaunchClient
  <2>1. ToolTypeOK'
    BY <1>4 DEF LaunchClient, ToolTypeOK, Passes, Fuzz
  <2>2. EarlyInv'
    BY <1>4 DEF LaunchClient, ToolTypeOK, EarlyInv, RaceInv, Begun, Fuzz
  <2>3. RaceInv'
    BY <1>4 DEF LaunchClient, ToolTypeOK, EarlyInv, RaceInv, Begun, Passes, Fuzz
  <2>4. ReadInv'
    BY <1>4 DEF LaunchClient, ToolTypeOK, EarlyInv, RaceInv, ReadInv, Begun, ToolTold, ToolError, Fuzz
  <2> QED
    BY <2>1, <2>2, <2>3, <2>4 DEF ToolInv
<1>5. CASE Daemon
  <2>1. ToolTypeOK'
    BY <1>5 DEF Daemon, ToolTypeOK, Passes, Fuzz
  <2>2. EarlyInv'
    BY <1>5 DEF Daemon, ToolTypeOK, EarlyInv, RaceInv, Begun, Fuzz
  <2>3. RaceInv'
    BY <1>5 DEF Daemon, ToolTypeOK, EarlyInv, RaceInv, Begun, Passes, Fuzz
  <2>4. ReadInv'
    BY <1>5 DEF Daemon, ToolTypeOK, EarlyInv, RaceInv, ReadInv, Begun, ToolTold, ToolError, Fuzz
  <2> QED
    BY <2>1, <2>2, <2>3, <2>4 DEF ToolInv
<1>6. CASE ToolEndsItself
  <2>1. ToolTypeOK'
    BY <1>6 DEF ToolEndsItself, Working, ToolTypeOK, Passes, Fuzz
  <2>2. EarlyInv'
    BY <1>6 DEF ToolEndsItself, Working, ToolTypeOK, EarlyInv, RaceInv, Begun, Fuzz
  <2>3. RaceInv'
    BY <1>6 DEF ToolEndsItself, Working, ToolTypeOK, EarlyInv, RaceInv, Begun, Passes, Fuzz
  <2>4. ReadInv'
    BY <1>6 DEF ToolEndsItself, Working, ToolTypeOK, EarlyInv, RaceInv, ReadInv, Begun, ToolTold, ToolError, Fuzz
  <2> QED
    BY <2>1, <2>2, <2>3, <2>4 DEF ToolInv
<1>7. CASE ClientFollows
  <2>1. ToolTypeOK'
    BY <1>7 DEF ClientFollows, ToolTypeOK, Passes, Fuzz
  <2>2. EarlyInv'
    BY <1>7 DEF ClientFollows, ToolTypeOK, EarlyInv, RaceInv, Begun, Fuzz
  <2>3. RaceInv'
    BY <1>7 DEF ClientFollows, ToolTypeOK, EarlyInv, RaceInv, Begun, Passes, Fuzz
  <2>4. ReadInv'
    BY <1>7 DEF ClientFollows, ToolTypeOK, EarlyInv, RaceInv, ReadInv, Begun, ToolTold, ToolError, Fuzz
  <2> QED
    BY <2>1, <2>2, <2>3, <2>4 DEF ToolInv
<1>8. CASE BoundFires
  <2>1. ToolTypeOK'
    BY <1>8 DEF BoundFires, ToolTypeOK, Passes, Fuzz
  <2>2. EarlyInv'
    BY <1>8 DEF BoundFires, ToolTypeOK, EarlyInv, RaceInv, Begun, Fuzz
  <2>3. RaceInv'
    BY <1>8 DEF BoundFires, ToolTypeOK, EarlyInv, RaceInv, Begun, Passes, Fuzz
  <2>4. ReadInv'
    BY <1>8 DEF BoundFires, ToolTypeOK, EarlyInv, RaceInv, ReadInv, Begun, ToolTold, ToolError, Fuzz
  <2> QED
    BY <2>1, <2>2, <2>3, <2>4 DEF ToolInv
<1>9. ASSUME NEW a \in {"bound", "stop"}, KillClient(a) PROVE ToolInv'
  <2>1. ToolTypeOK'
    BY <1>9 DEF KillClient, ToolTypeOK, Passes, Fuzz
  <2>2. EarlyInv'
    BY <1>9 DEF KillClient, ToolTypeOK, EarlyInv, RaceInv, Begun, Fuzz
  <2>3. RaceInv'
    BY <1>9 DEF KillClient, ToolTypeOK, EarlyInv, RaceInv, Begun, Passes, Fuzz
  <2>4. ReadInv'
    BY <1>9 DEF KillClient, ToolTypeOK, EarlyInv, RaceInv, ReadInv, Begun, ToolTold, ToolError, Fuzz
  <2> QED
    BY <2>1, <2>2, <2>3, <2>4 DEF ToolInv
<1>10. ASSUME NEW a \in {"bound", "stop"}, KillBox(a) PROVE ToolInv'
  <2>1. ToolTypeOK'
    BY <1>10 DEF KillBox, ToolTypeOK, Passes, Fuzz
  <2>2. EarlyInv'
    BY <1>10 DEF KillBox, ToolTypeOK, EarlyInv, RaceInv, Begun, Fuzz
  <2>3. RaceInv'
    BY <1>10 DEF KillBox, ToolTypeOK, EarlyInv, RaceInv, Begun, Passes, Fuzz
  <2>4. ReadInv'
    BY <1>10 DEF KillBox, ToolTypeOK, EarlyInv, RaceInv, ReadInv, Begun, ToolTold, ToolError, Fuzz
  <2> QED
    BY <2>1, <2>2, <2>3, <2>4 DEF ToolInv
<1>11. CASE StopLooks
  <2>1. ToolTypeOK'
    BY <1>11 DEF StopLooks, ToolTypeOK, Passes, Fuzz
  <2>2. EarlyInv'
    BY <1>11 DEF StopLooks, ToolTypeOK, EarlyInv, RaceInv, Begun, Fuzz
  <2>3. RaceInv'
    BY <1>11 DEF StopLooks, ToolTypeOK, EarlyInv, RaceInv, Begun, Passes, Fuzz
  <2>4. ReadInv'
    BY <1>11 DEF StopLooks, ToolTypeOK, EarlyInv, RaceInv, ReadInv, Begun, ToolTold, ToolError, Fuzz
  <2> QED
    BY <2>1, <2>2, <2>3, <2>4 DEF ToolInv
<1>12. CASE StopReads
  <2>1. ToolTypeOK'
    BY <1>12 DEF StopReads, ToolTypeOK, Passes, Fuzz
  <2>2. EarlyInv'
    BY <1>12 DEF StopReads, ToolTypeOK, EarlyInv, RaceInv, Begun, Fuzz
  <2>3. RaceInv'
    BY <1>12 DEF StopReads, ToolTypeOK, EarlyInv, RaceInv, Begun, Passes, Fuzz
  <2>4. ReadInv'
    BY <1>12 DEF StopReads, ToolTypeOK, EarlyInv, RaceInv, ReadInv, Begun, ToolTold, ToolError, Fuzz
  <2> QED
    BY <2>1, <2>2, <2>3, <2>4 DEF ToolInv
<1>13. CASE StopRemoves
  <2>1. ToolTypeOK'
    BY <1>13 DEF StopRemoves, ToolTypeOK, Passes, Fuzz
  <2>2. EarlyInv'
    BY <1>13 DEF StopRemoves, ToolTypeOK, EarlyInv, RaceInv, Begun, Fuzz
  <2>3. RaceInv'
    BY <1>13 DEF StopRemoves, ToolTypeOK, EarlyInv, RaceInv, Begun, Passes, Fuzz
  <2>4. ReadInv'
    BY <1>13 DEF StopRemoves, ToolTypeOK, EarlyInv, RaceInv, ReadInv, Begun, ToolTold, ToolError, Fuzz
  <2> QED
    BY <2>1, <2>2, <2>3, <2>4 DEF ToolInv
<1>14. CASE UNCHANGED toolVars
  <2>1. ToolTypeOK'
    BY <1>14 DEF toolVars, ToolTypeOK, Passes, Fuzz
  <2>2. EarlyInv'
    BY <1>14 DEF toolVars, ToolTypeOK, EarlyInv, RaceInv, Begun, Fuzz
  <2>3. RaceInv'
    BY <1>14 DEF toolVars, ToolTypeOK, EarlyInv, RaceInv, Begun, Passes, Fuzz
  <2>4. ReadInv'
    BY <1>14 DEF toolVars, ToolTypeOK, EarlyInv, RaceInv, ReadInv, Begun, ToolTold, ToolError, Fuzz
  <2> QED
    BY <2>1, <2>2, <2>3, <2>4 DEF ToolInv
<1> QED
  BY <1>1, <1>2, <1>3, <1>4, <1>5, <1>6, <1>7, <1>8, <1>9, <1>10, <1>11, <1>12, <1>13, <1>14
     DEF ToolNext

(* What Stop says of a tool is what became of it, whoever ended it first,   *)
(* and nothing of it runs on (internal/run pgbench.go, schemathesis.go). *)
THEOREM ToolIsStoppedAndTold == ToolSpec => []StoppedAndTold
<1>1. ToolInit => ToolInv
  BY DEF ToolInit, ToolFresh, ToolInv, ToolTypeOK, EarlyInv, RaceInv, ReadInv, Begun, Passes
<1>2. ToolInv => StoppedAndTold
  <2> SUFFICES ASSUME ToolInv PROVE StoppedAndTold
    OBVIOUS
  <2>1. CASE point = "failed"
    BY <2>1 DEF StoppedAndTold, ToolInv, ToolTypeOK, EarlyInv, Begun
  <2>2. CASE point = "over"
    <3>1. client # "running" /\ box # "running"
      BY <2>2 DEF ToolInv, ReadInv
    <3>2. toolResult = ToolTold
      BY <2>2 DEF ToolInv, ReadInv
    <3>3. /\ toolResult.err = ToolError
          /\ toolResult.failures = (report /\ pass \in {"failures", "both"})
          /\ toolResult.unexecuted = (report /\ pass \in {"errors", "both"})
      BY <3>2 DEF ToolTold
    <3>4. toolResult.err = "exit" => ~cutShort /\ client = "failed"
      BY <2>2, <3>3 DEF ToolInv, ToolTypeOK, RaceInv, ReadInv, ToolError, Fuzz
    <3>5. toolResult.err = "no report" =>
              pass = "crashed" \/ client = "failed" \/ kill["bound"] # "no"
      BY <2>2, <3>3 DEF ToolInv, ToolTypeOK, RaceInv, ReadInv, ToolError
    <3>6. ~Fuzz /\ pass = "failed" => cutShort \/ toolResult.err = "exit"
      BY <2>2, <3>3 DEF ToolInv, ToolTypeOK, RaceInv, ReadInv, ToolError, Begun
    <3>7. Fuzz /\ ~cutShort /\ toolResult = NoResult => pass = "clean"
      <4> SUFFICES ASSUME Fuzz, ~cutShort, toolResult = NoResult PROVE pass = "clean"
        OBVIOUS
      <4>1. toolResult.err = "none" /\ ~toolResult.failures
        BY DEF NoResult
      <4>2. report /\ pass # "errors"
        BY <3>3, <4>1 DEF ToolError
      <4>3. pass \notin {"failures", "both"}
        BY <3>3, <4>1, <4>2
      <4>4. pass \in Passes \ {"none", "crashed"}
        BY <2>2, <4>2 DEF ToolInv, ToolTypeOK, ReadInv
      <4> QED
        BY <4>2, <4>3, <4>4 DEF Passes
    <3>8. Fuzz /\ pass \in {"failures", "both"} /\ kill["bound"] = "no" /\ ~cutShort
              => toolResult.failures
      BY <2>2, <3>3 DEF ToolInv, ToolTypeOK, RaceInv, ReadInv
    <3> QED
      BY <2>2, <3>1, <3>4, <3>5, <3>6, <3>7, <3>8 DEF StoppedAndTold
  <2> QED
    BY <2>1, <2>2 DEF StoppedAndTold
<1> QED
  BY <1>1, <1>2, ToolStep, PTL DEF ToolSpec

=============================================================================
