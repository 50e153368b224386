------------------------------- MODULE Reach -------------------------------
(***************************************************************************)
(* Reaching a host that may sit on an internal network: internal/run's     *)
(* fallbackTransport and internal/smoke's tunnelTransport try a direct     *)
(* connection, then a helper container in the network namespace of a       *)
(* compose service (a tunnel), kept alive in one http.Transport per        *)
(* container.  The callers are the concurrent requests of a run (PromQL,   *)
(* broker, traces) or of a smoke, which also counts them.                  *)
(***************************************************************************)
EXTENDS Integers, Sequences, FiniteSets, SequencesExt

CONSTANTS
    Callers,        \* goroutines that send one request each
    Hosts,          \* what they may ask for
    serviceOf,      \* the running compose service a host names, or ""
    MinRate         \* --min-success-rate, in percent

ASSUME ReachAssumption ==
    /\ IsFiniteSet(Callers) /\ "idle" \notin Callers
    /\ "" \notin Hosts /\ MinRate \in Nat

VARIABLES
    scope,      \* "run" or "smoke"
    sut,        \* the compose service smoke found for the SUT, or ""
    call,       \* each caller: at, host, gen of its transport, hits (deliveries), those
                \* that broke, whom it heard
    cache,      \* hopTransports: the transport of each service, 0 for none
    made,       \* transports made
    tunnels,    \* helper containers alive: id, service, gen, used before, user ("idle" for none)
    dialed,     \* helper containers started
    draining,   \* transports whose idle connections were asked to close
    stage,      \* "on", then "over" once Run has returned or torn down
    result,     \* smoke's Result
    late        \* a request was still out at that moment

reachVars == <<scope, sut, call, cache, made, tunnels, dialed, draining, stage, late, result>>

Services_ == {serviceOf[h] : h \in Hosts} \ {""}

At(c, states) == call[c].at \in states

Goes(c, at) == call' = [call EXCEPT ![c].at = at]

(* The connection dies after the request was delivered.                    *)
Breaks(c, at) == call' = [call EXCEPT ![c].at = at, ![c].hits = @ + 1, ![c].broke = @ + 1]

(* The service whose container is tried: the host's own, or the SUT's.     *)
containerFor(c) == IF scope = "run" THEN serviceOf[call[c].host] ELSE sut

-----------------------------------------------------------------------------
ReachFresh(at) ==
    /\ call = [c \in Callers |-> [at |-> "off", host |-> "", gen |-> 0, hits |-> 0, broke |-> 0,
                                  heard |-> ""]]
    /\ cache = [s \in Services_ |-> 0] /\ made = 0
    /\ tunnels = {} /\ dialed = 0 /\ draining = {}
    /\ stage = at /\ late = FALSE /\ result = [sent |-> 0, ok |-> 0, exit |-> -1]

ReachInit ==
    /\ scope \in {"run", "smoke"} /\ sut \in Services_ \cup {""} /\ ReachFresh("on")

(* A tick of the constant-rate driver, or a query of the run. *)
Ask(c) ==
    /\ stage = "on" /\ At(c, {"off"})
    /\ \E h \in Hosts : call' = [call EXCEPT ![c].at = "direct", ![c].host = h]
    /\ UNCHANGED <<scope, sut, cache, made, tunnels, dialed, draining, stage, late, result>>

(* The direct attempt is answered, is refused, or breaks once delivered.   *)
(* Smoke takes an answer outside 2xx and 3xx for a failure.                *)
Direct(c) ==
    /\ At(c, {"direct"})
    /\ \/ \E at \in {"ok", "failed"} :
            call' = [call EXCEPT ![c].at = at, ![c].hits = @ + 1, ![c].heard = call[c].host]
       \/ Goes(c, "lookup")
       \/ Breaks(c, "lookup")
    /\ UNCHANGED <<scope, sut, cache, made, tunnels, dialed, draining, stage, late, result>>

(* Mutant: a transport of its own for every request. *)
hopTransportFor_Fresh(c) ==
    /\ made' = made + 1 /\ cache' = [cache EXCEPT ![containerFor(c)] = made + 1]
    /\ call' = [call EXCEPT ![c].at = "ready", ![c].gen = made + 1]

hopTransportFor(c) ==
    LET g == IF cache[containerFor(c)] = 0 THEN made + 1 ELSE cache[containerFor(c)]
    IN  /\ made' = IF g > made THEN g ELSE made
        /\ cache' = [cache EXCEPT ![containerFor(c)] = g]
        /\ call' = [call EXCEPT ![c].at = "ready", ![c].gen = g]

(* docker ps, by compose label: a host that is no service keeps its error. *)
Lookup(c) ==
    /\ At(c, {"lookup"})
    /\ \/ /\ Goes(c, "failed")
          /\ UNCHANGED <<cache, made>>
       \/ containerFor(c) # "" /\ hopTransportFor(c)
    /\ UNCHANGED <<scope, sut, tunnels, dialed, draining, stage, late, result>>

(* docker run of a helper in the service's network namespace.              *)
Dial(c) ==
    /\ dialed' = dialed + 1 /\ Goes(c, "asked")
    /\ tunnels' = tunnels \cup {[id |-> dialed + 1, service |-> containerFor(c),
                                 gen |-> call[c].gen, used |-> FALSE, user |-> c]}

(* The transport reuses an idle tunnel of its own, or dials another.       *)
Send(c) ==
    LET idle == {t \in tunnels : t.gen = call[c].gen /\ t.user = "idle"}
    IN  /\ At(c, {"ready"})
        /\ draining' = draining \ {call[c].gen}
        /\ \/ \E t \in idle : /\ tunnels' = (tunnels \ {t}) \cup {[t EXCEPT !.user = c]}
                              /\ dialed' = dialed /\ Goes(c, "asked")
           \/ idle = {} /\ Dial(c)
           \/ idle = {} /\ Goes(c, "failed") /\ UNCHANGED <<tunnels, dialed>>
        /\ UNCHANGED <<scope, sut, cache, made, stage, late, result>>

TunnelOf(c) == CHOOSE t \in tunnels : t.user = c

(* The service answers: the tunnel is kept unless it is being drained.     *)
Answer(c) ==
    /\ At(c, {"asked"})
    /\ \E at \in {"ok", "failed"} :
         call' = [call EXCEPT ![c].at = at, ![c].hits = @ + 1, ![c].heard = TunnelOf(c).service]
    /\ tunnels' = (tunnels \ {TunnelOf(c)})
                  \cup (IF call[c].gen \in draining THEN {}
                        ELSE {[TunnelOf(c) EXCEPT !.user = "idle", !.used = TRUE]})
    /\ UNCHANGED <<scope, sut, cache, made, dialed, draining, stage, late, result>>

(* A reused tunnel dies before the first byte of an answer: net/http sends *)
(* the request again over another, whether or not it had been delivered.   *)
Replay(c) ==
    /\ At(c, {"asked"}) /\ TunnelOf(c).used
    /\ tunnels' = tunnels \ {TunnelOf(c)}
    /\ Goes(c, "ready") \/ Breaks(c, "ready")
    /\ UNCHANGED <<scope, sut, cache, made, dialed, draining, stage, late, result>>

(* execConn.Read at the helper's end of file: it ends an answer, unless the *)
(* helper is seen to have exited with an error within half a second.       *)
eofIsAnswer(helper) == helper # "failed"

(* The service delimits its answer by closing, or the helper dies.         *)
Read(c) ==
    /\ At(c, {"asked"})
    /\ tunnels' = tunnels \ {TunnelOf(c)}
    /\ \E helper \in {"exited", "running", "failed"} :
         IF eofIsAnswer(helper)
         THEN call' = [call EXCEPT ![c].at = "ok", ![c].hits = @ + 1,
                                   ![c].heard = TunnelOf(c).service]
         ELSE Goes(c, "failed")
    /\ UNCHANGED <<scope, sut, cache, made, dialed, draining, stage, late, result>>

(* IdleConnTimeout, or the service closes a connection nobody uses.        *)
IdleEnds ==
    /\ \E t \in tunnels : t.user = "idle" /\ tunnels' = tunnels \ {t}
    /\ UNCHANGED <<scope, sut, call, cache, made, dialed, draining, stage, late, result>>

-----------------------------------------------------------------------------
Out == {c \in Callers : At(c, {"direct", "lookup", "ready", "asked"})}

(* Rank of the percentile p of n sorted latencies: ceil(p * n), clamped.   *)
percentile(n, p) ==
    LET i == (p * n + 99) \div 100 IN IF i < 1 THEN 1 ELSE IF i > n THEN n ELSE i

ExitCode(r) == CASE r.sent = 0 -> 2
                 [] r.sent > 0 /\ r.ok * 100 >= MinRate * r.sent -> 0
                 [] OTHER -> 1

(* The counters are read when every request is back, or after the timeout  *)
(* and a second of grace; a request that is still out has been sent.       *)
SmokeResult ==
    LET sent == Cardinality({c \in Callers : ~At(c, {"off"})})
        ok   == Cardinality({c \in Callers : At(c, {"ok"})})
    IN  [sent |-> sent, ok |-> ok, exit |-> ExitCode([sent |-> sent, ok |-> ok])]

(* closeHopTransports: idle tunnels end now, and no other is kept later.   *)
closeHopTransports ==
    LET closed == {cache[s] : s \in Services_} \ {0}
    IN  /\ draining' = draining \cup closed
        /\ tunnels' = {t \in tunnels : ~(t.gen \in closed /\ t.user = "idle")}
        /\ cache' = [s \in Services_ |-> 0]

(* A run tears down once its requests are back, or on a signal while some  *)
(* are out; smoke when they are back or its grace is over.  run.go:322,    *)
(* the deferred Close of cmd/tortureu/smoke.go.                            *)
Close ==
    /\ stage = "on"
    /\ stage' = "over" /\ late' = (Out # {})
    /\ closeHopTransports
    /\ result' = IF scope = "smoke" THEN SmokeResult ELSE result
    /\ UNCHANGED <<scope, sut, call, made, dialed>>

ReachNext == \/ Close \/ IdleEnds
             \/ \E c \in Callers : \/ Ask(c) \/ Direct(c) \/ Lookup(c) \/ Send(c)
                                   \/ Answer(c) \/ Read(c) \/ Replay(c)

ReachSpec == ReachInit /\ [][ReachNext]_reachVars

-----------------------------------------------------------------------------
(* Reached, and let go.  What answers a caller is the host it asked for    *)
(* directly, or the container of the service that stands for it; a request *)
(* is delivered once, and once more for each connection, direct or reused, *)
(* that broke after a delivery; while the run is on every tunnel belongs   *)
(* to a transport that the cache can still close, and a container has one  *)
(* transport, so that no teardown with nobody out leaves a tunnel behind   *)
(* (R-EXE-5).  A smoke that exits 0 got its rate of what it sent, and one  *)
(* that sent nothing never does; its percentiles are in order.             *)
ReachedAndLetGo ==
    /\ \A c \in Callers :
         /\ At(c, {"ok"}) => call[c].heard \in {call[c].host, containerFor(c)} \ {""}
         /\ call[c].hits <= call[c].broke + 1
    /\ stage = "on" => \A t \in tunnels : cache[t.service] = t.gen
    /\ stage = "over" /\ ~late => tunnels = {}
    /\ stage = "over" /\ scope = "smoke" =>
         /\ result.exit = 0 => result.sent > 0 /\ result.ok * 100 >= MinRate * result.sent
         /\ result.exit = 1 /\ MinRate = 100 => \E c \in Callers : At(c, {"failed"} ) \/ late
         /\ \A n \in 1..result.sent : percentile(n, 50) <= percentile(n, 95)
                                      /\ percentile(n, 95) <= percentile(n, 99)
                                      /\ percentile(n, 99) \in 1..n

=============================================================================
