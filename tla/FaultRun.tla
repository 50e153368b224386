------------------------------ MODULE FaultRun ------------------------------
(***************************************************************************)
(* One call of run.Run (internal/run/run.go) without the --db-load/--fuzz  *)
(* co-drivers: the main goroutine, the signal watcher, the fault scheduler *)
(* (scheduler.go), one goroutine per declared fault, the for: timers, and  *)
(* the two undo registries (fault.Manager, queuefault.Manager) plus the    *)
(* expireTracker that the teardown drains.                                 *)
(*                                                                         *)
(* Time is abstracted: a sleep or a timer may end at any moment.  The k6   *)
(* marker channel is unbounded here; PhaseMarkers models its capacity.     *)
(***************************************************************************)
EXTENDS Naturals, SequencesExt

CONSTANTS
    Faults,        \* the declared faults
    Kind,          \* fault -> the registry and lifetime it gets
    Anchor,        \* fault -> number of the stage it is anchored to, 0 for t=
    NumPhases,     \* stages of the load profile, one marker each
    HasInternal,   \* some fault needs the rename trick (internal network host)
    Disruptions    \* which things go wrong in this instance

(* manager: no for:, undo tracked by fault.Manager.  expiring: has a for:.  *)
(* mock: error_rate, undo tracked by the expireTracker, no timer.           *)
(* queue: poison_pill / duplicate, tracked by queuefault.Manager.           *)
Kinds == {"manager", "expiring", "mock", "queue"}

DisruptionKinds ==
    {"preflight", "reset", "refused", "topology", "prepare", "start", "load",
     "apply", "stray", "undo", "evaluate", "panic", "signal"}

(* Names of the goroutines other than the per-fault ones, and the two idle  *)
(* values of a sync.Once.                                                   *)
Reserved == {"main", "watch", "timer", "no", "done"}

ASSUME ConstantsAssumption ==
    /\ Kind \in [Faults -> Kinds]
    /\ NumPhases \in Nat
    /\ Anchor \in [Faults -> 0..NumPhases]
    /\ HasInternal \in BOOLEAN
    /\ Disruptions \subseteq DisruptionKinds
    /\ Faults \cap Reserved = {}

(* The three undo registries and who can be tearing down: Run's own flow,   *)
(* the signal watcher, and a fault goroutine recovering from a panic.       *)
Lists  == {"mgr", "exp", "que"}
Actors == {"main", "watch"} \cup Faults

Statuses == {"pass", "fail", "error", "aborted"}

VARIABLES
    pc,        \* where Run's main goroutine is
    status,    \* the verdict's status, "none" until Run returns
    outcome,   \* the status Run will return once its teardown is over
    sig,       \* a SIGINT/SIGTERM is waiting in sigCh
    watch,     \* the signal watcher goroutine
    aborted,   \* the atomic flag abortedEarly reads
    load,      \* the load generator behind the LoadHandle
    emitted,   \* phase markers written so far
    read,      \* phase markers the scheduler has received
    sched,     \* the scheduler goroutine
    waiting,   \* phaseAnchored: faults whose phase has not started
    errs,      \* faults the scheduler reports an error for
    g,         \* each fault's goroutine
    eff,       \* what each fault is doing to the system under test
    runs,      \* how many times each fault's undo was invoked
    undos,     \* the registries' lists
    batch,     \* the list an actor swapped out and is working off
    td,        \* the teardown step an actor is in
    open,      \* the actor has swapped its current list out
    once,      \* the sync.Once of an expireTracker undo
    timer,     \* the time.AfterFunc of a for: fault
    armed,     \* which lazily armed teardown closures are set
    stale      \* the container the rename trick leaves behind

mainVars  == <<pc, status, outcome>>
sigVars   == <<sig, watch, aborted>>
loadVars  == <<load, emitted>>
schedVars == <<read, sched, waiting>>
faultVars == <<errs, g>>
effVars   == <<eff, runs>>
regVars   == <<undos, batch>>
tdVars    == <<td, open>>
onceVars  == <<once, timer>>
topoVars  == <<armed, stale>>

vars == <<mainVars, sigVars, loadVars, schedVars, faultVars, effVars,
          regVars, tdVars, onceVars, topoVars>>

PCs == {"preflight", "reset", "classify", "topology", "armTopology",
        "prepare", "start", "schedule", "armExpiring", "select", "drain",
        "evaluate", "teardown", "returned", "exited"}

ControlType ==
    /\ pc \in PCs
    /\ status \in Statuses \cup {"none"}
    /\ outcome \in Statuses \cup {"none"}
    /\ sig \in BOOLEAN
    /\ watch \in {"wait", "teardown", "caught", "quit"}
    /\ aborted \in BOOLEAN
    /\ load \in {"off", "running", "eof", "done", "failed"}
    /\ emitted \in 0..NumPhases
    /\ read \in 0..NumPhases
    /\ sched \in {"off", "launch", "wait", "done"}
    /\ waiting \in SUBSET Faults
    /\ armed \in SUBSET {"exp", "topo"}
    /\ stale \in {"none", "present", "removed", "stuck"}

FaultType ==
    /\ errs \in SUBSET Faults
    /\ g \in [Faults -> {"none", "sleep", "applied", "panic", "end"}]
    /\ eff \in [Faults -> {"off", "stray", "live", "undone", "stuck"}]
    /\ runs \in [Faults -> Nat]
    /\ once \in [Faults -> Actors \cup {"timer", "no", "done"}]
    /\ timer \in [Faults -> {"off", "set", "fired"}]

RegistryType ==
    /\ undos \in [Lists -> Seq(Faults)]
    /\ batch \in [Actors -> Seq(Faults)]
    /\ td \in [Actors -> Lists \cup {"topo", "idle"}]
    /\ open \in [Actors -> BOOLEAN]

(* Every variable holds a value of its kind. *)
TypeOK == ControlType /\ FaultType /\ RegistryType

Init ==
    /\ pc = "preflight" /\ status = "none" /\ outcome = "none"
    /\ sig = FALSE /\ watch = "wait" /\ aborted = FALSE
    /\ load = "off" /\ emitted = 0
    /\ read = 0 /\ sched = "off" /\ waiting = {}
    /\ errs = {} /\ g = [f \in Faults |-> "none"]
    /\ eff = [f \in Faults |-> "off"] /\ runs = [f \in Faults |-> 0]
    /\ undos = [l \in Lists |-> <<>>]
    /\ batch = [a \in Actors |-> <<>>]
    /\ td = [a \in Actors |-> "idle"] /\ open = [a \in Actors |-> FALSE]
    /\ once = [f \in Faults |-> "no"] /\ timer = [f \in Faults |-> "off"]
    /\ armed = {} /\ stale = "none"

(* Every goroutine dies with the process. *)
Alive == pc # "exited"

-----------------------------------------------------------------------------
(* The main goroutine.  A step ends where the code blocks or where another  *)
(* goroutine could observe the difference.                                  *)

mainFrame == <<sigVars, schedVars, faultVars, effVars, regVars, open, onceVars>>

(* finish(s): return the verdict, running no teardown. *)
Return(s) ==
    /\ pc' = "returned"
    /\ status' = s
    /\ UNCHANGED <<outcome, td>>

(* teardownAll(); return finish(s). *)
TeardownThen(s) ==
    /\ pc' = "teardown"
    /\ outcome' = s
    /\ td' = [td EXCEPT !["main"] = "mgr"]
    /\ UNCHANGED status

Goto(l) ==
    /\ pc' = l
    /\ UNCHANGED <<status, outcome, td>>

(* abortedEarly(): stop with an aborted verdict if the watcher has fired. *)
Continue(l) ==
    \/ ~aborted /\ Goto(l)
    \/ aborted /\ Return("aborted")

(* Step 0: checkDriveFlags and the empty base_url refusal. *)
Preflight ==
    /\ pc = "preflight"
    /\ \/ Goto("reset")
       \/ "preflight" \in Disruptions /\ Return("error")
    /\ UNCHANGED <<mainFrame, loadVars, topoVars>>

(* Step 1: the reset command; a failure aborts. *)
Reset ==
    /\ pc = "reset"
    /\ \/ Continue("classify")
       \/ "reset" \in Disruptions /\ Return("aborted")
    /\ UNCHANGED <<mainFrame, loadVars, topoVars>>

(* Step 2: CheckUnclassified and CheckMultiplier refuse before any load. *)
Classify ==
    /\ pc = "classify"
    /\ \/ Continue("topology")
       \/ "refused" \in Disruptions /\ Return("aborted")
    /\ UNCHANGED <<mainFrame, loadVars, topoVars>>

(* Step 3: Topology.Apply.  `docker compose up` can fail after it has      *)
(* already switched services over, so a failing Apply may have the effect. *)
ApplyTopology ==
    /\ pc = "topology"
    /\ \/ /\ Goto("armTopology")
          /\ stale' = IF HasInternal THEN "present" ELSE stale
       \/ /\ "topology" \in Disruptions
          /\ TeardownThen("error")
          /\ stale' \in IF HasInternal THEN {stale, "present"} ELSE {stale}
    /\ UNCHANGED <<mainFrame, loadVars, armed>>

(* setTeardownTopology(...). *)
ArmTopology ==
    /\ pc = "armTopology"
    /\ armed' = armed \cup {"topo"}
    /\ Goto("prepare")
    /\ UNCHANGED <<mainFrame, loadVars, stale>>

(* EnsureProxies, SUT container discovery, k6.Compile. *)
Prepare ==
    /\ pc = "prepare"
    /\ \/ Continue("start")
       \/ "prepare" \in Disruptions /\ TeardownThen("error")
    /\ UNCHANGED <<mainFrame, loadVars, topoVars>>

(* Step 4: Load.Start. *)
StartLoad ==
    /\ pc = "start"
    /\ \/ load' = "running" /\ Goto("schedule")
       \/ "start" \in Disruptions /\ TeardownThen("error") /\ UNCHANGED load
    /\ UNCHANGED <<mainFrame, emitted, topoVars>>

(* scheduleFaults spawns the scheduler goroutine and returns. *)
ScheduleFaults ==
    /\ pc = "schedule"
    /\ sched' = "launch"
    /\ Goto("armExpiring")
    /\ UNCHANGED <<sigVars, read, waiting, faultVars, effVars, regVars, open,
                   onceVars, loadVars, topoVars>>

(* setTeardownExpiring(expiringTeardown). *)
ArmExpiring ==
    /\ pc = "armExpiring"
    /\ armed' = armed \cup {"exp"}
    /\ Goto("select")
    /\ UNCHANGED <<mainFrame, loadVars, stale>>

(* select { Done / caught / Err }.  The Err branch does not wait for the   *)
(* scheduler.                                                              *)
Select ==
    /\ pc = "select"
    /\ \/ load = "done" /\ Continue("drain")
       \/ watch = "caught" /\ Return("aborted")
       \/ load = "failed" /\ TeardownThen("error")
    /\ UNCHANGED <<mainFrame, loadVars, topoVars>>

(* Mutant: the scheduler's errors are received and ignored. *)
Drain_IgnoresErrs ==
    /\ pc = "drain"
    /\ sched = "done"
    /\ Continue("evaluate")
    /\ UNCHANGED <<mainFrame, loadVars, topoVars>>

(* schedErrs := <-schedDone. *)
Drain ==
    /\ pc = "drain"
    /\ sched = "done"
    /\ \/ errs # {} /\ TeardownThen("error")
       \/ errs = {} /\ Continue("evaluate")
    /\ UNCHANGED <<mainFrame, loadVars, topoVars>>

(* Mutant: a pass or fail returns without the final teardownAll. *)
Evaluate_NoTeardown ==
    /\ pc = "evaluate"
    /\ \E s \in {"pass", "fail"} : Return(s)
    /\ UNCHANGED <<mainFrame, loadVars, topoVars>>

(* Steps 5 and 6: summary, assertions, then the final teardown.  Nothing   *)
(* looks at aborted any more.                                              *)
Evaluate ==
    /\ pc = "evaluate"
    /\ \/ \E s \in {"pass", "fail"} : TeardownThen(s)
       \/ "evaluate" \in Disruptions /\ TeardownThen("error")
    /\ UNCHANGED <<mainFrame, loadVars, topoVars>>

(* teardownAll() is over: return finish(outcome). *)
Finish ==
    /\ pc = "teardown"
    /\ td["main"] = "idle"
    /\ Return(outcome)
    /\ UNCHANGED <<mainFrame, loadVars, topoVars>>

(* The deferred recover: a panic in Run's own body tears down and reports  *)
(* an error.                                                               *)
Recover ==
    /\ "panic" \in Disruptions
    /\ pc \notin {"teardown", "returned", "exited"}
    /\ TeardownThen("error")
    /\ UNCHANGED <<mainFrame, loadVars, topoVars>>

MainStep ==
    \/ Preflight \/ Reset \/ Classify \/ ApplyTopology \/ ArmTopology
    \/ Prepare \/ StartLoad \/ ScheduleFaults \/ ArmExpiring \/ Select
    \/ Drain \/ Evaluate \/ Finish

-----------------------------------------------------------------------------
(* The signal watcher. *)

(* SIGINT or SIGTERM arrives.  sigCh holds one; the watcher handles one. *)
Signal ==
    /\ "signal" \in Disruptions
    /\ pc \notin {"returned", "exited"}
    /\ ~sig /\ watch = "wait"
    /\ sig' = TRUE
    /\ UNCHANGED <<mainVars, watch, aborted, loadVars, schedVars, faultVars,
                   effVars, regVars, tdVars, onceVars, topoVars>>

(* Mutant: aborted is stored before the teardown instead of after it. *)
WatchSignal_FlagFirst ==
    /\ Alive
    /\ watch = "wait" /\ sig
    /\ watch' = "teardown"
    /\ aborted' = TRUE
    /\ td' = [td EXCEPT !["watch"] = "mgr"]
    /\ UNCHANGED <<mainVars, sig, loadVars, schedVars, faultVars,
                   effVars, regVars, open, onceVars, topoVars>>

(* case sig := <-sigCh: teardownAll(). *)
WatchSignal ==
    /\ Alive
    /\ watch = "wait" /\ sig
    /\ watch' = "teardown"
    /\ td' = [td EXCEPT !["watch"] = "mgr"]
    /\ UNCHANGED <<mainVars, sig, aborted, loadVars, schedVars, faultVars,
                   effVars, regVars, open, onceVars, topoVars>>

(* aborted.Store(true); caught <- sig. *)
WatchStore ==
    /\ Alive
    /\ watch = "teardown" /\ td["watch"] = "idle"
    /\ watch' = "caught"
    /\ aborted' = TRUE
    /\ UNCHANGED <<mainVars, sig, loadVars, schedVars, faultVars,
                   effVars, regVars, tdVars, onceVars, topoVars>>

(* case <-quit, closed by Run's deferred function. *)
WatchQuit ==
    /\ pc = "returned"
    /\ watch = "wait"
    /\ watch' = "quit"
    /\ UNCHANGED <<mainVars, sig, aborted, loadVars, schedVars, faultVars,
                   effVars, regVars, tdVars, onceVars, topoVars>>

WatchStep == WatchSignal \/ WatchStore \/ WatchQuit

-----------------------------------------------------------------------------
(* The load generator: markers, end of output, then Done or Err. *)

loadFrame == <<mainVars, sigVars, schedVars, faultVars, effVars, regVars,
               tdVars, onceVars, topoVars>>

(* Mutant: a stage may announce itself again. *)
LoadMarker_Repeats ==
    /\ Alive
    /\ load = "running"
    /\ emitted' = emitted + 1
    /\ UNCHANGED <<load, loadFrame>>

LoadMarker ==
    /\ Alive
    /\ load = "running"
    /\ emitted < NumPhases
    /\ emitted' = emitted + 1
    /\ UNCHANGED <<load, loadFrame>>

(* Both output streams end and scanMarkers closes the marker channel.  A   *)
(* load that dies early has not written every marker.                      *)
LoadEOF ==
    /\ Alive
    /\ load = "running"
    /\ emitted = NumPhases \/ "load" \in Disruptions
    /\ load' = "eof"
    /\ UNCHANGED <<emitted, loadFrame>>

(* k6Handle.finish: a summary on disk means Done, anything else Err. *)
LoadFinish ==
    /\ Alive
    /\ load = "eof"
    /\ \/ load' = "done"
       \/ "load" \in Disruptions /\ load' = "failed"
    /\ UNCHANGED <<emitted, loadFrame>>

LoadStep == LoadMarker \/ LoadEOF \/ LoadFinish

-----------------------------------------------------------------------------
(* The scheduler goroutine. *)

schedFrame == <<mainVars, sigVars, loadVars, effVars, regVars, tdVars,
                onceVars, topoVars>>

(* applyAt: start the goroutine of every fault in F, except those whose     *)
(* duration in at: does not parse (atGrammar lets 10parsecs through), which *)
(* are errors right away.                                                   *)
ApplyAt(F) ==
    \E bad \in SUBSET F :
        /\ bad = {} \/ "apply" \in Disruptions
        /\ g' = [f \in Faults |-> IF f \in F \ bad THEN "sleep" ELSE g[f]]
        /\ errs' = errs \cup bad

(* t= faults start at once, the others wait for their phase. *)
SchedLaunch ==
    /\ Alive
    /\ sched = "launch"
    /\ ApplyAt({f \in Faults : Anchor[f] = 0})
    /\ waiting' = {f \in Faults : Anchor[f] # 0}
    /\ sched' = "wait"
    /\ UNCHANGED <<read, schedFrame>>

(* A marker arrives: launch the faults anchored to its phase. *)
SchedMarker ==
    /\ Alive
    /\ sched = "wait"
    /\ waiting # {}
    /\ read < emitted
    /\ read' = read + 1
    /\ ApplyAt({f \in waiting : Anchor[f] = read'})
    /\ waiting' = {f \in waiting : Anchor[f] # read'}
    /\ UNCHANGED <<sched, schedFrame>>

(* Mutant: a closed marker channel just ends the loop. *)
SchedClosed_Silent ==
    /\ Alive
    /\ sched = "wait"
    /\ waiting # {}
    /\ read = emitted
    /\ load \in {"eof", "done", "failed"}
    /\ waiting' = {}
    /\ UNCHANGED <<read, sched, faultVars, schedFrame>>

(* The channel is closed: every fault still waiting is an error.  *)
SchedClosed ==
    /\ Alive
    /\ sched = "wait"
    /\ waiting # {}
    /\ read = emitted
    /\ load \in {"eof", "done", "failed"}
    /\ errs' = errs \cup waiting
    /\ waiting' = {}
    /\ UNCHANGED <<read, sched, g, schedFrame>>

(* Mutant: the WaitGroup counts every declared fault, launched or not. *)
SchedJoin_AllFaults ==
    /\ Alive
    /\ sched = "wait"
    /\ waiting = {}
    /\ \A f \in Faults : g[f] = "end"
    /\ sched' = "done"
    /\ UNCHANGED <<read, waiting, faultVars, schedFrame>>

(* wg.Wait(); doneCh <- errs. *)
SchedJoin ==
    /\ Alive
    /\ sched = "wait"
    /\ waiting = {}
    /\ \A f \in Faults : g[f] \in {"none", "end"}
    /\ sched' = "done"
    /\ UNCHANGED <<read, waiting, faultVars, schedFrame>>

SchedStep == SchedLaunch \/ SchedMarker \/ SchedClosed \/ SchedJoin

-----------------------------------------------------------------------------
(* The goroutine of one fault. *)

goFrame == <<mainVars, sigVars, loadVars, schedVars, topoVars>>

(* The sleep is over, Translate succeeded and the Applier's side effect    *)
(* happened; its undo is not registered yet.                               *)
ApplyEffect(f) ==
    /\ Alive
    /\ g[f] = "sleep"
    /\ g' = [g EXCEPT ![f] = "applied"]
    /\ eff' = [eff EXCEPT ![f] = "live"]
    /\ UNCHANGED <<errs, runs, regVars, tdVars, onceVars, goFrame>>

(* Mutant: the error of an Applier is dropped. *)
ApplyError_Dropped(f) ==
    /\ Alive
    /\ "apply" \in Disruptions
    /\ g[f] = "sleep"
    /\ g' = [g EXCEPT ![f] = "end"]
    /\ UNCHANGED <<errs, effVars, regVars, tdVars, onceVars, goFrame>>

(* An Applier that fails may have had its effect (a request that was        *)
(* carried out and whose answer was lost); it returns no undo for it.       *)
MayStray(f) ==
    \/ UNCHANGED effVars
    \/ "stray" \in Disruptions /\ eff' = [eff EXCEPT ![f] = "stray"] /\ UNCHANGED runs

(* Translate, routePassedOver or the Applier refuses: addErr. *)
ApplyError(f) ==
    /\ Alive
    /\ "apply" \in Disruptions
    /\ g[f] = "sleep"
    /\ g' = [g EXCEPT ![f] = "end"]
    /\ errs' = errs \cup {f}
    /\ MayStray(f)
    /\ UNCHANGED <<regVars, tdVars, onceVars, goFrame>>

(* The registry a fault's undo is tracked in. *)
ListOf(f) ==
    CASE Kind[f] = "manager" -> "mgr"
      [] Kind[f] = "queue"   -> "que"
      [] OTHER               -> "exp"

(* Mutants: a for: fault is left to its timer; an error_rate mock, which    *)
(* has no timer, is not added to the expireTracker.                         *)
Track_TimerOnly(f) ==
    /\ Alive
    /\ g[f] = "applied"
    /\ undos' = IF Kind[f] = "expiring" THEN undos
                ELSE [undos EXCEPT ![ListOf(f)] = Append(@, f)]
    /\ timer' = [timer EXCEPT ![f] = IF Kind[f] = "expiring" THEN "set" ELSE @]
    /\ g' = [g EXCEPT ![f] = "end"]
    /\ UNCHANGED <<errs, effVars, batch, tdVars, once, goFrame>>

Track_MockForgotten(f) ==
    /\ Alive
    /\ g[f] = "applied"
    /\ undos' = IF Kind[f] = "mock" THEN undos
                ELSE [undos EXCEPT ![ListOf(f)] = Append(@, f)]
    /\ timer' = [timer EXCEPT ![f] = IF Kind[f] = "expiring" THEN "set" ELSE @]
    /\ g' = [g EXCEPT ![f] = "end"]
    /\ UNCHANGED <<errs, effVars, batch, tdVars, once, goFrame>>

(* Manager.track / expiring.add, and time.AfterFunc for a for: fault. *)
Track(f) ==
    /\ Alive
    /\ g[f] = "applied"
    /\ undos' = [undos EXCEPT ![ListOf(f)] = Append(@, f)]
    /\ timer' = [timer EXCEPT ![f] = IF Kind[f] = "expiring" THEN "set" ELSE @]
    /\ g' = [g EXCEPT ![f] = "end"]
    /\ UNCHANGED <<errs, effVars, batch, tdVars, once, goFrame>>

(* The goroutine panics in the Applier, before or after the effect, which   *)
(* is not tracked yet: recover tears down everything that is.               *)
ApplyPanic(f) ==
    /\ Alive
    /\ "panic" \in Disruptions
    /\ g[f] = "sleep"
    /\ g' = [g EXCEPT ![f] = "panic"]
    /\ td' = [td EXCEPT ![f] = "mgr"]
    /\ MayStray(f)
    /\ UNCHANGED <<errs, regVars, open, onceVars, goFrame>>

PanicDone(f) ==
    /\ Alive
    /\ g[f] = "panic" /\ td[f] = "idle"
    /\ g' = [g EXCEPT ![f] = "end"]
    /\ errs' = errs \cup {f}
    /\ UNCHANGED <<effVars, regVars, tdVars, onceVars, goFrame>>

GoStep(f) ==
    \/ ApplyEffect(f) \/ ApplyError(f) \/ Track(f) \/ ApplyPanic(f)
    \/ PanicDone(f)

-----------------------------------------------------------------------------
(* Undo functions and the teardown an actor runs. *)

tdFrame == <<mainVars, sigVars, loadVars, schedVars, faultVars>>

(* Invoke the undo of f.  An error leaves the fault in place; every caller *)
(* carries on.                                                             *)
RunUndo(f) ==
    /\ runs' = [runs EXCEPT ![f] = @ + 1]
    /\ \/ eff' = [eff EXCEPT ![f] = "undone"]
       \/ "undo" \in Disruptions /\ eff' = [eff EXCEPT ![f] = "stuck"]

(* Mutants: teardownAll without the topology, and without the queue.  *)
AfterList_NoTopology(a, l) ==
    IF a \in Faults
    THEN [mgr |-> "que", que |-> "exp", exp |-> "idle"][l]
    ELSE [mgr |-> "exp", exp |-> "que", que |-> "idle"][l]

AfterList_NoQueue(a, l) ==
    IF a \in Faults
    THEN [mgr |-> "que", que |-> "exp", exp |-> "idle"][l]
    ELSE [mgr |-> "exp", exp |-> "topo", que |-> "topo"][l]

(* teardownAll: manager, then the expiring closure (expiring, queue), then *)
(* topology.  A recovering fault goroutine: manager, queue, expiring.      *)
AfterList(a, l) ==
    IF a \in Faults
    THEN [mgr |-> "que", que |-> "exp", exp |-> "idle"][l]
    ELSE [mgr |-> "exp", exp |-> "que", que |-> "topo"][l]

(* Mutant: the list is copied but not emptied. *)
SwapOut_Copies(a) ==
    /\ Alive
    /\ td[a] \in Lists /\ ~open[a]
    /\ td[a] # "exp" \/ a \in Faults \/ "exp" \in armed
    /\ batch' = [batch EXCEPT ![a] = undos[td[a]]]
    /\ open' = [open EXCEPT ![a] = TRUE]
    /\ UNCHANGED <<undos, td, effVars, onceVars, topoVars, tdFrame>>

(* Swap the registry's list for nil under its mutex. *)
SwapOut(a) ==
    /\ Alive
    /\ td[a] \in Lists /\ ~open[a]
    /\ td[a] # "exp" \/ a \in Faults \/ "exp" \in armed
    /\ batch' = [batch EXCEPT ![a] = undos[td[a]]]
    /\ undos' = [undos EXCEPT ![td[a]] = <<>>]
    /\ open' = [open EXCEPT ![a] = TRUE]
    /\ UNCHANGED <<td, effVars, onceVars, topoVars, tdFrame>>

(* teardownExpiring is still the no-op it starts as. *)
SkipExpiring(a) ==
    /\ Alive
    /\ a \notin Faults
    /\ td[a] = "exp" /\ ~open[a]
    /\ "exp" \notin armed
    /\ td' = [td EXCEPT ![a] = "topo"]
    /\ UNCHANGED <<open, regVars, effVars, onceVars, topoVars, tdFrame>>

(* Run the newest undo of a Manager's list. *)
UndoLast(a) ==
    /\ Alive
    /\ open[a] /\ td[a] \in {"mgr", "que"}
    /\ batch[a] # <<>>
    /\ RunUndo(Last(batch[a]))
    /\ batch' = [batch EXCEPT ![a] = Front(@)]
    /\ UNCHANGED <<undos, tdVars, onceVars, topoVars, tdFrame>>

(* onceUndo: the first caller enters the sync.Once ... *)
OnceEnter(a) ==
    /\ Alive
    /\ open[a] /\ td[a] = "exp"
    /\ batch[a] # <<>>
    /\ once[Last(batch[a])] = "no"
    /\ once' = [once EXCEPT ![Last(batch[a])] = a]
    /\ UNCHANGED <<timer, regVars, effVars, tdVars, topoVars, tdFrame>>

(* ... runs the undo ... *)
OnceRun(a) ==
    /\ Alive
    /\ open[a] /\ td[a] = "exp"
    /\ batch[a] # <<>>
    /\ once[Last(batch[a])] = a
    /\ RunUndo(Last(batch[a]))
    /\ once' = [once EXCEPT ![Last(batch[a])] = "done"]
    /\ UNCHANGED <<timer, regVars, tdVars, topoVars, tdFrame>>

(* Mutant: a caller that finds the undo running does not wait for it. *)
OnceReturn_NoWait(a) ==
    /\ Alive
    /\ open[a] /\ td[a] = "exp"
    /\ batch[a] # <<>>
    /\ once[Last(batch[a])] \notin {"no", a}
    /\ batch' = [batch EXCEPT ![a] = Front(@)]
    /\ UNCHANGED <<undos, effVars, tdVars, onceVars, topoVars, tdFrame>>

(* ... and every caller returns only once it has completed. *)
OnceReturn(a) ==
    /\ Alive
    /\ open[a] /\ td[a] = "exp"
    /\ batch[a] # <<>>
    /\ once[Last(batch[a])] = "done"
    /\ batch' = [batch EXCEPT ![a] = Front(@)]
    /\ UNCHANGED <<undos, effVars, tdVars, onceVars, topoVars, tdFrame>>

(* The swapped-out list is worked off. *)
BatchDone(a) ==
    /\ Alive
    /\ td[a] \in Lists /\ open[a]
    /\ batch[a] = <<>>
    /\ open' = [open EXCEPT ![a] = FALSE]
    /\ td' = [td EXCEPT ![a] = AfterList(a, td[a])]
    /\ UNCHANGED <<regVars, effVars, onceVars, topoVars, tdFrame>>

(* teardownTopology, a no-op until armed; TeardownDisabled may fail, which *)
(* becomes a warning.                                                      *)
TeardownTopology(a) ==
    /\ Alive
    /\ td[a] = "topo"
    /\ td' = [td EXCEPT ![a] = "idle"]
    /\ \/ "topo" \notin armed /\ UNCHANGED stale
       \/ "topo" \in armed /\ stale' = IF stale = "none" THEN stale ELSE "removed"
       \/ "topo" \in armed /\ "undo" \in Disruptions
          /\ stale' = IF stale = "present" THEN "stuck" ELSE stale
    /\ UNCHANGED <<open, armed, regVars, effVars, onceVars, tdFrame>>

TeardownStep(a) ==
    \/ SwapOut(a) \/ SkipExpiring(a) \/ UndoLast(a) \/ OnceEnter(a)
    \/ OnceRun(a) \/ OnceReturn(a) \/ BatchDone(a) \/ TeardownTopology(a)

(* Mutants: the timer calls the bare undo; the timer does nothing. *)
TimerFire_NoOnce(f) ==
    /\ Alive
    /\ timer[f] = "set"
    /\ timer' = [timer EXCEPT ![f] = "fired"]
    /\ once' = [once EXCEPT ![f] = "timer"]
    /\ UNCHANGED <<regVars, effVars, tdVars, topoVars, tdFrame>>

TimerFire_NoUndo(f) ==
    /\ Alive
    /\ timer[f] = "set"
    /\ timer' = [timer EXCEPT ![f] = "fired"]
    /\ UNCHANGED <<once, regVars, effVars, tdVars, topoVars, tdFrame>>

(* The for: timer calls the same once-wrapped undo; if someone else has    *)
(* entered it, the call has no effect of its own.                          *)
TimerFire(f) ==
    /\ Alive
    /\ timer[f] = "set"
    /\ timer' = [timer EXCEPT ![f] = "fired"]
    /\ once' = [once EXCEPT ![f] = IF @ = "no" THEN "timer" ELSE @]
    /\ UNCHANGED <<regVars, effVars, tdVars, topoVars, tdFrame>>

TimerUndo(f) ==
    /\ Alive
    /\ once[f] = "timer"
    /\ RunUndo(f)
    /\ once' = [once EXCEPT ![f] = "done"]
    /\ UNCHANGED <<timer, regVars, tdVars, topoVars, tdFrame>>

TimerStep(f) == TimerFire(f) \/ TimerUndo(f)

-----------------------------------------------------------------------------
(* The CLI prints the verdict and calls os.Exit. *)
Exit ==
    /\ pc = "returned"
    /\ pc' = "exited"
    /\ UNCHANGED <<status, outcome, sigVars, loadVars, schedVars, faultVars,
                   effVars, regVars, tdVars, onceVars, topoVars>>

Exited == pc = "exited" /\ UNCHANGED vars

Next ==
    \/ MainStep \/ Recover \/ Signal \/ WatchStep \/ LoadStep \/ SchedStep
    \/ \E f \in Faults : GoStep(f) \/ TimerStep(f)
    \/ \E a \in Actors : TeardownStep(a)
    \/ Exit \/ Exited

Spec == Init /\ [][Next]_vars

(* Goroutines are scheduled, external calls and timers end, k6 ends.  No   *)
(* disruption is ever forced to happen.                                    *)
Fairness ==
    /\ WF_vars(MainStep)
    /\ WF_vars(WatchStep)
    /\ WF_vars(LoadStep)
    /\ WF_vars(SchedStep)
    /\ \A f \in Faults : WF_vars(GoStep(f)) /\ WF_vars(TimerStep(f))
    /\ \A a \in Actors : WF_vars(TeardownStep(a))

FairSpec == Spec /\ Fairness

-----------------------------------------------------------------------------
(* What Run promises. *)

Completed == status \in {"pass", "fail"}

(* R-EXE-5: when Run returns a completed (pass or fail) verdict, no fault   *)
(* is live any more, except one whose undo the signal watcher has already   *)
(* swapped out and is still working off (a signal that arrived after the    *)
(* last abortedEarly check).  Undos that returned an error are excused.     *)
CompletedRunIsClean ==
    Completed => \A f \in Faults :
        eff[f] \in {"undone", "stuck"} \/ f \in ToSet(batch["watch"])

(* R-EXE-19: a completed verdict means every declared fault really was      *)
(* applied; one that never fired, failed or panicked makes it an error,     *)
(* also when it left an effect that nobody can undo.                        *)
CompletedRunFiredEverything ==
    Completed => \A f \in Faults : eff[f] \notin {"off", "stray"}

(* Timer, watcher, Run's own teardown and recovering goroutines race for    *)
(* the same undos; each undo is invoked at most once.                       *)
UndoAtMostOnce == \A f \in Faults : runs[f] <= 1

(* No undo is ever lost: a live fault is about to be registered by its own  *)
(* goroutine, is in the registry of its kind, or is in a list some actor    *)
(* has swapped out and not finished.                                        *)
LiveFaultIsOwned ==
    \A f \in Faults : eff[f] = "live" =>
        \/ g[f] = "applied"
        \/ f \in ToSet(undos[ListOf(f)])
        \/ \E a \in Actors : f \in ToSet(batch[a])

(* abortedEarly's comment, "already tore everything down": once load has    *)
(* started, an aborted verdict is returned only after the watcher has       *)
(* finished every undo it took over.                                        *)
AbortedAfterTeardown ==
    status = "aborted" /\ load # "off" =>
        watch = "caught" /\ batch["watch"] = <<>>

(* R-EXE-20 cleanup: once the cleanup is armed, every verdict other than an *)
(* aborted one comes after an attempt to remove the disabled container.     *)
DisabledContainerTornDown ==
    status \in {"pass", "fail", "error"} /\ "topo" \in armed =>
        stale # "present"

(* R-VER-1: Run returns a verdict, whatever goes wrong and whenever.        *)
RunReturns == <>(status # "none")

(* R-CFG-10: a for: fault is lifted once its timer is set, unless the       *)
(* process ends first.                                                      *)
ForFaultExpires ==
    \A f \in Faults :
        timer[f] = "set" ~> (eff[f] \in {"undone", "stuck"} \/ pc = "exited")

(* R-EXE-5 and R-EXE-16 as written: no fault is left applied when the       *)
(* process exits.                                                           *)
NoFaultOutlivesRun ==
    pc = "exited" => \A f \in Faults : eff[f] # "live"

(* Run implements the contract its user sees: RunContract says which       *)
(* effects and verdicts may follow which.                                  *)
Contract == INSTANCE RunContract WITH
    effect <- eff, verdict <- status, interrupted <- watch \in {"teardown", "caught"}

(* Every step of run.Run's goroutines is a step of the contract or leaves   *)
(* its state alone.                                                         *)
ImplementsContract == Contract!ContractSpec

=============================================================================
