----------------------------- MODULE CoDrivers -----------------------------
(***************************************************************************)
(* The --db-load / --fuzz co-drivers of one run (internal/run/drive.go):   *)
(* start() runs in a goroutine of its own from the first phase marker on,  *)
(* stop() is called by Run's collection, by Run's teardown and by the      *)
(* signal watcher's teardown, whichever comes first.  FaultRun models the  *)
(* rest of Run; its steps from Load.Start to the verdict are repeated here *)
(* as far as they touch the co-drivers.                                    *)
(***************************************************************************)
EXTENDS Naturals, Sequences, SequencesExt

CONSTANTS
    Requested,    \* the flags given, in the order start() takes them
    Disruptions   \* which things go wrong in this instance

Tools == ToSet(Requested)

ASSUME DriversAssumption ==
    /\ Requested \in {<<"db">>, <<"fuzz">>, <<"db", "fuzz">>}
    /\ Disruptions \subseteq {"signal", "load", "start", "tool", "panic"}

VARIABLES
    main,      \* where Run is
    verdict,   \* its verdict, "none" until it returns
    outcome,   \* the verdict it returns once its teardown is over
    watch,     \* the signal watcher
    load,      \* the HTTP load
    marker,    \* the first phase marker has passed teeMarkers
    started,   \* coDrivers.started
    todo,      \* tools start() has yet to start
    launched,  \* Start has returned for Head(todo), its handle not stored yet
    proc,      \* each tool's process
    handles,   \* c.db / c.fuzz that are set
    failed,    \* result.dbErr / result.fuzzErr that are set
    once,      \* stopOnce: "no", the actor inside, or "done"
    snap,      \* the handles stop() read
    stops,     \* how often each tool was stopped
    result,    \* result.db / result.fuzz that are set
    warned,    \* the "never started" warning was added
    inTime     \* start() had finished when stop() read the handles

mainVars  == <<main, verdict, outcome, warned>>
startVars == <<started, todo, launched, handles, failed>>
stopVars  == <<once, snap, stops, result, inTime>>
driverVars == <<mainVars, watch, load, marker, startVars, stopVars, proc>>

DriversTypeOK ==
    /\ main \in {"starting", "load", "collect", "judge", "teardown", "returned", "exited"}
    /\ verdict \in {"none", "pass", "error", "aborted"}
    /\ outcome \in {"none", "pass", "error"}
    /\ watch \in {"wait", "teardown", "caught"}
    /\ load \in {"off", "running", "done", "failed"}
    /\ marker \in BOOLEAN /\ started \in BOOLEAN
    /\ launched \in BOOLEAN /\ warned \in BOOLEAN /\ inTime \in BOOLEAN
    /\ todo \in Seq(Tools) /\ Len(todo) <= Len(Requested)
    /\ proc \in [Tools -> {"off", "running", "stopped", "ended", "broken"}]
    /\ handles \in SUBSET Tools /\ failed \in SUBSET Tools
    /\ snap \in SUBSET Tools /\ result \in SUBSET Tools
    /\ stops \in [Tools -> Nat]
    /\ once \in {"no", "main", "watch", "done"}

DriversInit ==
    /\ main = "starting" /\ verdict = "none" /\ outcome = "none" /\ warned = FALSE
    /\ watch = "wait" /\ load = "off" /\ marker = FALSE
    /\ started = FALSE /\ todo = Requested /\ launched = FALSE
    /\ handles = {} /\ failed = {}
    /\ once = "no" /\ snap = {} /\ stops = [t \in Tools |-> 0] /\ result = {}
    /\ inTime = FALSE
    /\ proc = [t \in Tools |-> "off"]

Alive == main # "exited"

-----------------------------------------------------------------------------
(* Run. *)

(* Load.Start, teeMarkers, setTeardownDrivers. *)
StartLoad ==
    /\ main = "starting"
    /\ main' = "load" /\ load' = "running"
    /\ UNCHANGED <<verdict, outcome, warned, watch, marker, startVars, stopVars, proc>>

(* The select on Done, caught and Err, with the scheduler's errors and the *)
(* abortedEarly behind Done.                                               *)
Select ==
    /\ main = "load"
    /\ \/ /\ load = "done" /\ watch # "caught"
          /\ main' = "collect" /\ UNCHANGED <<verdict, outcome>>
       \/ /\ watch = "caught"
          /\ main' = "returned" /\ verdict' = "aborted" /\ UNCHANGED outcome
       \/ /\ load = "failed" \/ (load = "done" /\ "load" \in Disruptions)
          /\ main' = "teardown" /\ outcome' = "error" /\ UNCHANGED verdict
    /\ UNCHANGED <<warned, watch, load, marker, startVars, stopVars, proc>>

(* Mutant: a tool that could not be started is no error. *)
Collect_IgnoresStartErr ==
    /\ main = "collect" /\ once = "done"
    /\ main' = "judge"
    /\ outcome' = IF \E t \in result : proc[t] = "broken" THEN "error" ELSE "pass"
    /\ UNCHANGED <<verdict, warned, watch, load, marker, startVars, stopVars, proc>>

(* collect() returns once stop() has completed, whoever ran it.  A tool     *)
(* that could not start or broke is an error (applyDriveResults); pass      *)
(* stands for pass and fail, which the findings decide.                     *)
Collect ==
    /\ main = "collect" /\ once = "done"
    /\ main' = "judge"
    /\ outcome' = IF failed # {} \/ \E t \in result : proc[t] = "broken"
                  THEN "error" ELSE "pass"
    /\ UNCHANGED <<verdict, warned, watch, load, marker, startVars, stopVars, proc>>

(* everStarted() is asked after collect(): nothing started is a warning. *)
Judge ==
    /\ main = "judge"
    /\ main' = "teardown"
    /\ warned' = ~started
    /\ UNCHANGED <<verdict, outcome, watch, load, marker, startVars, stopVars, proc>>

(* teardownAll() with drivers.stop in it, then finish. *)
ReturnVerdict ==
    /\ main = "teardown" /\ once = "done"
    /\ main' = "returned" /\ verdict' = outcome
    /\ UNCHANGED <<outcome, warned, watch, load, marker, startVars, stopVars, proc>>

(* The deferred recover. *)
Recover ==
    /\ "panic" \in Disruptions
    /\ main \in {"load", "collect", "judge"} /\ once # "main"
    /\ main' = "teardown" /\ outcome' = "error"
    /\ UNCHANGED <<verdict, warned, watch, load, marker, startVars, stopVars, proc>>

Exit ==
    /\ main = "returned"
    /\ main' = "exited"
    /\ UNCHANGED <<verdict, outcome, warned, watch, load, marker, startVars, stopVars, proc>>

Exited == main = "exited" /\ UNCHANGED driverVars

-----------------------------------------------------------------------------
(* The signal watcher and the load. *)

(* teardownAll() before setTeardownDrivers has nothing to stop. *)
Signal ==
    /\ "signal" \in Disruptions
    /\ main \notin {"returned", "exited"} /\ watch = "wait"
    /\ watch' = IF main = "starting" THEN "caught" ELSE "teardown"
    /\ UNCHANGED <<mainVars, load, marker, startVars, stopVars, proc>>

WatchDone ==
    /\ Alive
    /\ watch = "teardown" /\ once = "done"
    /\ watch' = "caught"
    /\ UNCHANGED <<mainVars, load, marker, startVars, stopVars, proc>>

(* teeMarkers takes the first marker: it may still lie in the channel when  *)
(* the load has ended.                                                      *)
FirstMarker ==
    /\ Alive
    /\ load # "off" /\ ~marker
    /\ marker' = TRUE
    /\ UNCHANGED <<mainVars, watch, load, startVars, stopVars, proc>>

LoadEnds ==
    /\ Alive
    /\ load = "running"
    /\ \/ load' = "done"
       \/ load' = "failed" /\ "load" \in Disruptions
    /\ UNCHANGED <<mainVars, watch, marker, startVars, stopVars, proc>>

-----------------------------------------------------------------------------
(* start(), in the goroutine teeMarkers spawns. *)

StartFirst ==
    /\ Alive
    /\ marker /\ ~started
    /\ started' = TRUE
    /\ UNCHANGED <<mainVars, watch, load, marker, todo, launched, handles, failed, stopVars, proc>>

(* runner.Start: pgbench -i and the container lookup take real time. *)
Launch ==
    /\ Alive
    /\ started /\ ~launched /\ todo # <<>>
    /\ \/ proc' = [proc EXCEPT ![Head(todo)] = "running"]
       \/ "start" \in Disruptions /\ UNCHANGED proc
    /\ launched' = TRUE
    /\ UNCHANGED <<mainVars, watch, load, marker, started, todo, handles, failed, stopVars>>

(* c.db, c.result.dbErr = h, err under c.mu. *)
Store ==
    /\ Alive
    /\ launched
    /\ IF proc[Head(todo)] = "off"
       THEN failed' = failed \cup {Head(todo)} /\ UNCHANGED handles
       ELSE handles' = handles \cup {Head(todo)} /\ UNCHANGED failed
    /\ todo' = Tail(todo) /\ launched' = FALSE
    /\ UNCHANGED <<mainVars, watch, load, marker, started, stopVars, proc>>

(* A tool reaches its own duration bound, or fails. *)
ToolEnds(t) ==
    /\ proc[t] = "running"
    /\ \/ proc' = [proc EXCEPT ![t] = "ended"]
       \/ "tool" \in Disruptions /\ proc' = [proc EXCEPT ![t] = "broken"]
    /\ UNCHANGED <<mainVars, watch, load, marker, startVars, stopVars>>

-----------------------------------------------------------------------------
(* stop(). *)

(* Who is calling stop() at the moment. *)
Stopping(a) ==
    \/ a = "main"  /\ main \in {"collect", "teardown"}
    \/ a = "watch" /\ watch = "teardown"

(* stopOnce.Do: read both handles under c.mu. *)
StopEnter(a) ==
    /\ Alive
    /\ Stopping(a) /\ once = "no"
    /\ once' = a /\ snap' = handles
    /\ inTime' = (todo = <<>>)
    /\ UNCHANGED <<mainVars, watch, load, marker, startVars, stops, result, proc>>

(* handle.Stop(): kills the process unless it has ended, and reaps it. *)
StopTool(a, t) ==
    /\ Alive
    /\ once = a /\ t \in snap \ result
    /\ t = "fuzz" => "db" \notin snap \ result
    /\ proc' = [proc EXCEPT ![t] = IF @ = "running" THEN "stopped" ELSE @]
    /\ stops' = [stops EXCEPT ![t] = @ + 1]
    /\ result' = result \cup {t}
    /\ UNCHANGED <<mainVars, watch, load, marker, startVars, once, snap, inTime>>

(* Mutant: with nothing to stop, stop() never reports back. *)
StopDone_NeedsHandle(a) ==
    /\ Alive
    /\ once = a /\ snap = result /\ snap # {}
    /\ once' = "done"
    /\ UNCHANGED <<mainVars, watch, load, marker, startVars, snap, stops, result, inTime, proc>>

(* The results are stored and every caller of stop() goes on. *)
StopDone(a) ==
    /\ Alive
    /\ once = a /\ snap = result
    /\ once' = "done"
    /\ UNCHANGED <<mainVars, watch, load, marker, startVars, snap, stops, result, inTime, proc>>

StopStep(a) == StopEnter(a) \/ (\E t \in Tools : StopTool(a, t)) \/ StopDone(a)
DriverStep  == StartFirst \/ Launch \/ Store

(* The co-drivers on their own: a load that ends when it likes, and no      *)
(* scheduler to wait for.                                                   *)
DriversNext ==
    \/ StartLoad \/ Select \/ Collect \/ Judge \/ ReturnVerdict \/ Recover \/ Exit \/ Exited
    \/ Signal \/ WatchDone \/ FirstMarker \/ LoadEnds
    \/ DriverStep \/ (\E t \in Tools : ToolEnds(t))
    \/ (\E a \in {"main", "watch"} : StopStep(a))

DriversSpec == DriversInit /\ [][DriversNext]_driverVars

-----------------------------------------------------------------------------

(* R-EXE-26/27: if start() was finished when stop() took over, a pass means *)
(* every requested tool ran, was stopped and has its result folded in.      *)
InTimeMeansComplete ==
    verdict = "pass" /\ inTime =>
        result = Tools /\ \A t \in Tools : proc[t] \in {"stopped", "ended"}

(* R-EXE-26 as written: no tool is running when the process exits.          *)
NoToolOutlivesRun == main = "exited" => \A t \in Tools : proc[t] # "running"

=============================================================================
