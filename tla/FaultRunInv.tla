---------------------------- MODULE FaultRunInv ----------------------------
(***************************************************************************)
(* The inductive invariant behind FaultRun's safety properties: TLC checks *)
(* it on the small instances, FaultRunProofs proves it for all of them.    *)
(***************************************************************************)
EXTENDS FaultRun

(* Who may be tearing down, and that only an open list has a batch. *)
ActorInv ==
    /\ \A a \in Actors : open[a] => td[a] \in Lists
    /\ \A a \in Actors : ~open[a] => batch[a] = <<>>
    /\ \A f \in Faults : td[f] # "topo" /\ (td[f] # "idle" => g[f] = "panic")
    /\ td["main"] # "idle" => pc = "teardown"
    /\ td["watch"] # "idle" => watch = "teardown"

(* An undo is in one place at most: its own registry, or one actor's batch. *)
RegistryInv ==
    /\ \A l \in Lists :
         /\ IsInjective(undos[l])
         /\ \A f \in ToSet(undos[l]) : ListOf(f) = l /\ g[f] = "end"
    /\ \A a \in Actors :
         /\ IsInjective(batch[a])
         /\ \A f \in ToSet(batch[a]) :
              /\ ListOf(f) = td[a] /\ g[f] = "end"
              /\ f \notin ToSet(undos[td[a]])
    /\ \A a, b \in Actors : a # b => ToSet(batch[a]) \cap ToSet(batch[b]) = {}

(* A registered undo has not run, unless its sync.Once says so. *)
PendingInv ==
    /\ \A l \in Lists : \A f \in ToSet(undos[l]) :
         eff[f] = "live" \/ (l = "exp" /\ once[f] = "done")
    /\ \A a \in Actors : \A f \in ToSet(batch[a]) :
         eff[f] = "live" \/ (td[a] = "exp" /\ once[f] = "done")

(* The life of one fault: applied at most once, undone at most once. *)
EffectInv ==
    \A f \in Faults :
        /\ eff[f] \in {"off", "stray", "live"} => runs[f] = 0
        /\ eff[f] \in {"undone", "stuck"} => runs[f] = 1 /\ g[f] = "end"
        /\ g[f] \in {"none", "sleep"} => eff[f] = "off"
        /\ g[f] = "panic" => eff[f] \in {"off", "stray"}
        /\ g[f] = "applied" => eff[f] = "live"
        /\ g[f] # "end" => once[f] = "no" /\ timer[f] = "off"
        /\ eff[f] \in {"off", "stray"} => once[f] = "no" /\ timer[f] = "off"
        /\ ListOf(f) # "exp" => once[f] = "no" /\ timer[f] = "off"
        /\ once[f] = "done" <=> ListOf(f) = "exp" /\ eff[f] \in {"undone", "stuck"}

(* No declared fault gets lost between the scheduler and the verdict. *)
Early == {"preflight", "reset", "classify", "topology", "armTopology",
          "prepare", "start", "schedule"}

SchedInv ==
    /\ pc \in Early => sched = "off"
    /\ sched \in {"off", "launch"} => waiting = {} /\ \A f \in Faults : g[f] = "none"
    /\ sched \in {"wait", "done"} =>
         \A f \in Faults : g[f] = "none" => f \in waiting \cup errs
    /\ \A f \in waiting : g[f] = "none"
    /\ sched = "done" =>
         waiting = {} /\ \A f \in Faults : g[f] \in {"none", "end"}
    /\ \A f \in Faults : g[f] = "end" /\ eff[f] \in {"off", "stray"} => f \in errs

(* A list the main goroutine has dealt with in its final teardown stays    *)
(* empty: nothing is left that could register another undo.                *)
Dealt(l) ==
    \/ td["main"] = l /\ open["main"]
    \/ td["main"] \in CASE l = "mgr" -> {"exp", "que", "topo", "idle"}
                         [] l = "exp" -> {"que", "topo", "idle"}
                         [] OTHER     -> {"topo", "idle"}

FinalInv ==
    /\ pc \in {"select", "drain", "evaluate"} => "exp" \in armed
    /\ pc = "evaluate" \/ outcome \in {"pass", "fail"} =>
         sched = "done" /\ errs = {} /\ "exp" \in armed
    /\ outcome \in {"pass", "fail"} =>
         /\ pc \in {"teardown", "returned", "exited"}
         /\ \A l \in Lists : Dealt(l) => undos[l] = <<>>
    /\ outcome # "aborted"
    /\ status # "none" => pc \in {"returned", "exited"}
    /\ status \in {"pass", "fail"} => outcome = status

AbortInv ==
    /\ aborted => watch = "caught"
    /\ pc \in Early \ {"schedule"} => load = "off"
    /\ status = "aborted" /\ load # "off" => watch = "caught"

TopologyInv ==
    /\ pc \in {"preflight", "reset", "classify", "topology", "armTopology"} =>
         "topo" \notin armed
    /\ "topo" \in armed /\ pc = "teardown" /\ td["main"] = "idle" =>
         stale # "present"
    /\ "topo" \in armed /\ status \in {"pass", "fail", "error"} =>
         stale # "present"

IInv ==
    /\ TypeOK /\ ActorInv /\ RegistryInv /\ PendingInv /\ EffectInv
    /\ LiveFaultIsOwned /\ SchedInv /\ FinalInv /\ AbortInv /\ TopologyInv

=============================================================================
