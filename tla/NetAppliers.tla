----------------------------- MODULE NetAppliers -----------------------------
(***************************************************************************)
(* What ToxiproxyApplier and DockerApplier do to one dependency: a proxy   *)
(* of Toxiproxy in front of it and the container it runs in.  Every fault  *)
(* of the instance has that dependency as its target.  An apply is several *)
(* calls, each of which may fail; it ends with an undo that FaultRun shows *)
(* is called at most once, in any order (a for: timer obeys none).         *)
(***************************************************************************)
EXTENDS Naturals, FiniteSets

CONSTANTS
    Faults,
    Scenarios,    \* the assignments of verbs to faults that are explored
    Limit,        \* the limit each cpu_limit or mem_limit fault asks for
    Original,     \* the container's own limit before the run, 0 for none
    Disruptions   \* "refused": a call may fail without effect, "lost": after it

ToxicVerbs == {"latency", "bandwidth", "slicer", "timeout", "reset_peer"}
LimitVerbs == {"cpu_limit", "mem_limit"}
DockerVerbs == LimitVerbs \cup {"pause", "kill", "graceful", "stress"}
Verbs == ToxicVerbs \cup {"down"} \cup DockerVerbs

ASSUME NetAssumption ==
    /\ Scenarios \subseteq [Faults -> Verbs]
    /\ Limit \in [Faults -> Nat]
    /\ Original \in Nat
    /\ Disruptions \subseteq {"refused", "lost"}

VARIABLES
    verb,     \* the verb of each fault
    st,       \* how far its apply or undo is
    prev,     \* the limit cpu_limit and mem_limit read before they set theirs
    enabled,  \* the proxy accepts connections
    toxics,   \* faults whose toxic is on the proxy
    box,      \* the state of the container
    dying,    \* its process was sent SIGTERM and will end of it
    limit,    \* its cpu and memory limits
    stress    \* faults whose stress-ng runs in it

proxyVars == <<enabled, toxics>>
boxVars   == <<box, dying, limit, stress>>
vars == <<verb, st, prev, proxyVars, boxVars>>

TypeOK ==
    /\ verb \in Scenarios
    /\ st \in [Faults -> {"idle", "ready", "live", "undone", "early", "failed", "lost", "stuck"}]
    /\ prev \in [Faults -> Nat]
    /\ enabled \in BOOLEAN
    /\ toxics \in SUBSET Faults /\ stress \in SUBSET Faults
    /\ box \in {"running", "paused", "stopped"} /\ dying \in BOOLEAN
    /\ limit \in [LimitVerbs -> Nat]

(* EnsureProxies has created the proxy before the load started. *)
Init ==
    /\ verb \in Scenarios
    /\ st = [f \in Faults |-> "idle"]
    /\ prev = [f \in Faults |-> 0]
    /\ enabled = TRUE /\ toxics = {}
    /\ box = "running" /\ dying = FALSE /\ stress = {}
    /\ limit = [r \in LimitVerbs |-> Original]

Set(f, s) == st' = [st EXCEPT ![f] = s]

(* How the last call of an apply or an undo is reported: a call that took  *)
(* effect may still end in an error, and an apply that did has no undo.    *)
Reported(ok, error) == {ok} \cup (IF "lost" \in Disruptions THEN {error} ELSE {})
Applies(f) == \E s \in Reported("live", "lost") : Set(f, s)
Undoes(f)  == \E s \in Reported("undone", "stuck") : Set(f, s)

(* A call that fails without effect ends the apply with an error. *)
ApplyFails(f) ==
    /\ "refused" \in Disruptions
    /\ st[f] \in {"idle", "ready"}
    /\ Set(f, "failed")
    /\ UNCHANGED <<verb, prev, proxyVars, boxVars>>

(* ... and an undo too; nobody calls it again. *)
UndoFails(f) ==
    /\ "refused" \in Disruptions
    /\ st[f] = "live"
    /\ Set(f, "stuck")
    /\ UNCHANGED <<verb, prev, proxyVars, boxVars>>

-----------------------------------------------------------------------------
(* ToxiproxyApplier. *)

(* POST /proxies, answered 409 as the proxy is there: no error, no effect. *)
EnsureProxy(f) ==
    /\ verb[f] \in ToxicVerbs \cup {"down"}
    /\ st[f] = "idle"
    /\ Set(f, "ready")
    /\ UNCHANGED <<verb, prev, proxyVars, boxVars>>

ApplyToxic(f) ==
    /\ st[f] = "ready"
    /\ \/ verb[f] = "down"       /\ enabled' = FALSE          /\ UNCHANGED toxics
       \/ verb[f] \in ToxicVerbs /\ toxics' = toxics \cup {f} /\ UNCHANGED enabled
    /\ Applies(f)
    /\ UNCHANGED <<verb, prev, boxVars>>

(* Mutant: a toxic's undo resets the whole proxy. *)
UndoToxic_Resets(f) ==
    /\ st[f] = "live"
    /\ verb[f] \in ToxicVerbs \cup {"down"}
    /\ enabled' = TRUE /\ toxics' = {}
    /\ Undoes(f)
    /\ UNCHANGED <<verb, prev, boxVars>>

UndoToxic(f) ==
    /\ st[f] = "live"
    /\ \/ verb[f] = "down"       /\ enabled' = TRUE         /\ UNCHANGED toxics
       \/ verb[f] \in ToxicVerbs /\ toxics' = toxics \ {f} /\ UNCHANGED enabled
    /\ Undoes(f)
    /\ UNCHANGED <<verb, prev, boxVars>>

-----------------------------------------------------------------------------
(* DockerApplier, with what the docker command answers in each state.      *)

(* docker pause, kill and exec need a running container; kill also takes a *)
(* paused one.  docker inspect and update do not care.                     *)
Accepts(v) ==
    CASE v \in {"pause", "stress"}  -> box = "running"
      [] v \in {"kill", "graceful"} -> box # "stopped"
      [] OTHER                      -> TRUE

(* docker inspect -f {{.HostConfig.NanoCpus}}. *)
ReadLimit(f) ==
    /\ verb[f] \in LimitVerbs /\ st[f] = "idle"
    /\ prev' = [prev EXCEPT ![f] = limit[verb[f]]]
    /\ Set(f, "ready")
    /\ UNCHANGED <<verb, proxyVars, boxVars>>

(* docker update. *)
ApplyLimit(f) ==
    /\ verb[f] \in LimitVerbs /\ st[f] = "ready"
    /\ limit' = [limit EXCEPT ![verb[f]] = Limit[f]]
    /\ Applies(f)
    /\ UNCHANGED <<verb, prev, proxyVars, box, dying, stress>>

(* docker kill has SIGKILL's process stopped when it returns; SIGTERM only *)
(* delivered, to a process that may ignore it.  A paused container may be  *)
(* resumed to receive it.  A stopped container loses its stress-ng.        *)
ApplyDocker(f) ==
    /\ verb[f] \in DockerVerbs \ LimitVerbs /\ st[f] = "idle"
    /\ Accepts(verb[f])
    /\ \/ verb[f] = "pause" /\ box' = "paused" /\ UNCHANGED <<dying, stress>>
       \/ verb[f] = "kill" /\ box' = "stopped" /\ dying' = FALSE /\ stress' = {}
       \/ verb[f] = "graceful" /\ box' \in {box, "running"}
          /\ dying' \in {dying, TRUE} /\ UNCHANGED stress
       \/ verb[f] = "stress" /\ stress' = stress \cup {f} /\ UNCHANGED <<box, dying>>
    /\ Applies(f)
    /\ UNCHANGED <<verb, prev, proxyVars, limit>>

(* A process that was sent SIGTERM ends, seconds later or never. *)
Exits ==
    /\ dying /\ box = "running"
    /\ box' = "stopped" /\ dying' = FALSE /\ stress' = {}
    /\ UNCHANGED <<verb, st, prev, proxyVars, limit>>

DockerRefuses(f) ==
    /\ verb[f] \in DockerVerbs \ LimitVerbs /\ st[f] = "idle"
    /\ ~Accepts(verb[f])
    /\ Set(f, "failed")
    /\ UNCHANGED <<verb, prev, proxyVars, boxVars>>

(* cpusFromNanoCPUs prints two decimals, so thousandths of a core are      *)
(* rounded (a tie either way); the memory limit goes back as it was read.  *)
CPUs(milli) == {10 * ((milli + h) \div 10) : h \in {4, 5}}
RestoredTo(f) == IF verb[f] = "cpu_limit" THEN CPUs(prev[f]) ELSE {prev[f]}

(* Mutant: the previous limit is cleared, not restored. *)
UndoLimit_Clears(f) ==
    /\ verb[f] \in LimitVerbs /\ st[f] = "live"
    /\ limit' = [limit EXCEPT ![verb[f]] = 0]
    /\ Undoes(f)
    /\ UNCHANGED <<verb, prev, proxyVars, box, dying, stress>>

UndoLimit(f) ==
    /\ verb[f] \in LimitVerbs /\ st[f] = "live"
    /\ \E l \in RestoredTo(f) : limit' = [limit EXCEPT ![verb[f]] = l]
    /\ Undoes(f)
    /\ UNCHANGED <<verb, prev, proxyVars, box, dying, stress>>

(* unpause needs a paused container, start one that is not paused, exec a  *)
(* running one with a stress-ng to kill: pkill kills every one of them.    *)
(* start does nothing to a container whose process has yet to end: the     *)
(* success of such an undo comes early.                                    *)
UndoDocker(f) ==
    /\ st[f] = "live"
    /\ \/ /\ verb[f] = "pause" /\ box = "paused"
          /\ box' = "running" /\ UNCHANGED stress /\ Undoes(f)
       \/ /\ verb[f] \in {"kill", "graceful"} /\ box # "paused"
          /\ box' = "running" /\ UNCHANGED stress
          /\ IF verb[f] = "graceful" /\ dying
             THEN \E s \in Reported("early", "stuck") : Set(f, s)
             ELSE Undoes(f)
       \/ /\ verb[f] = "stress" /\ box = "running" /\ stress # {}
          /\ stress' = {} /\ UNCHANGED box /\ Undoes(f)
    /\ UNCHANGED <<verb, prev, proxyVars, dying, limit>>

UndoRefused(f) ==
    /\ st[f] = "live"
    /\ \/ verb[f] = "pause" /\ box # "paused"
       \/ verb[f] \in {"kill", "graceful"} /\ box = "paused"
       \/ verb[f] = "stress" /\ (box # "running" \/ stress = {})
    /\ Set(f, "stuck")
    /\ UNCHANGED <<verb, prev, proxyVars, boxVars>>

-----------------------------------------------------------------------------

Over == (\A f \in Faults : st[f] \in {"undone", "early", "failed", "lost", "stuck"}) /\ UNCHANGED vars

Next ==
    \/ \E f \in Faults :
         \/ ApplyFails(f) \/ UndoFails(f)
         \/ EnsureProxy(f) \/ ApplyToxic(f) \/ UndoToxic(f)
         \/ ReadLimit(f) \/ ApplyLimit(f) \/ UndoLimit(f)
         \/ ApplyDocker(f) \/ DockerRefuses(f) \/ UndoDocker(f) \/ UndoRefused(f)
    \/ Exits \/ Over

Spec == Init /\ [][Next]_vars

-----------------------------------------------------------------------------

(* At most one fault of the scenario uses each of these verbs. *)
Unshared(vs) == \A f, g \in Faults : verb[f] = verb[g] /\ verb[f] \in vs => f = g

Restored ==
    /\ enabled /\ toxics = {} /\ stress = {}
    /\ limit = [r \in LimitVerbs |-> Original]

UpAndWell == box = "running" /\ ~dying

(* R-EXE-5: faults on one dependency, applied and undone concurrently and   *)
(* in any order, leave it as it was if every undo reports success and no    *)
(* two of them changed the same limit; the container alone may be left      *)
(* stopped, by a graceful fault undone before its process had ended.        *)
CleanUndosRestore ==
    Unshared(LimitVerbs) /\ (\A f \in Faults : st[f] \in {"idle", "failed", "undone", "early"})
        => /\ Restored /\ box # "paused"
           /\ UpAndWell \/ \E f \in Faults : st[f] = "early"

(* One fault's undo does not lift another that the verdict says was under   *)
(* test: a live network or limit fault is in force, unless two faults share *)
(* the switch (the proxy's enabled flag, a limit) it works by.              *)
LiveIsInForce ==
    \A f \in Faults : st[f] = "live" =>
        /\ verb[f] = "down" /\ Unshared({"down"}) => ~enabled
        /\ verb[f] \in ToxicVerbs => f \in toxics
        /\ verb[f] \in LimitVerbs /\ Unshared(LimitVerbs) => limit[verb[f]] = Limit[f]

(* R-EXE-5 as written: once every undo has run, nothing of a fault is left. *)
TornDownIsRestored ==
    (\A f \in Faults : st[f] \in {"failed", "undone", "stuck"}) => Restored /\ UpAndWell

=============================================================================
