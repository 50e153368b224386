------------------------------ MODULE DriveRun ------------------------------
(***************************************************************************)
(* A run with --db-load or --fuzz: the marker pipeline and the co-drivers  *)
(* together.  teeMarkers starts the drivers when it takes the first marker,*)
(* the handle resolves for Run's select only when both streams are scanned,*)
(* and Run goes on to collect the drivers only when the scheduler is over. *)
(***************************************************************************)
EXTENDS PhaseMarkers, CoDrivers

ASSUME CompositionAssumption == Tee /\ (LoadMayDie <=> "load" \in Disruptions)

driveVars == <<vars, driverVars>>

DriveInit == Init /\ DriversInit

(* The load generator's process and the goroutines of this one: nothing of  *)
(* it before Load.Start, nothing after the process has exited.              *)
Running == Alive /\ load # "off"

LoadWrites   == Running /\ (K6Marker \/ K6Exit) /\ UNCHANGED driverVars
Scans        == /\ Running /\ (ScanSend \/ (\E s \in open : ScanEOF(s)) \/ ScanClose)
                /\ UNCHANGED driverVars
GivesUp      == Running /\ (\E s \in open : ScanGivesUp(s)) /\ UNCHANGED driverVars
Resolves     == Finish /\ LoadEnds
Forwards     == Running /\ (TeeSend \/ TeeClose) /\ UNCHANGED driverVars
SchedulerRun == Running /\ SchedStep /\ UNCHANGED driverVars

(* The once of teeMarkers: `go drivers.start()`. *)
Takes == TeeTake /\ IF drivers THEN Running /\ UNCHANGED driverVars ELSE FirstMarker

(* select, then <-schedDone: a fault whose phase never came is an error.    *)
RunSelects ==
    /\ Select /\ UNCHANGED vars
    /\ main' = "collect" => sched = "fired"
    /\ main' = "teardown" /\ load = "done" => sched # "receiving"

RunStep == RunSelects \/ ((StartLoad \/ Collect \/ Judge \/ ReturnVerdict) /\ UNCHANGED vars)

DriveNext ==
    \/ LoadWrites \/ Scans \/ GivesUp \/ Resolves \/ Takes \/ Forwards \/ SchedulerRun \/ RunStep
    \/ (Recover \/ Exit \/ Exited \/ Signal \/ WatchDone \/ DriverStep) /\ UNCHANGED vars
    \/ (\E t \in Tools : ToolEnds(t)) /\ UNCHANGED vars
    \/ (\E a \in {"main", "watch"} : StopStep(a)) /\ UNCHANGED vars

DriveSpec == DriveInit /\ [][DriveNext]_driveVars

(* k6's profile is finite, goroutines run, and killing a process ends.  A   *)
(* k6 whose output nobody reads any more may block on it for ever.          *)
DriveFairSpec ==
    /\ DriveSpec
    /\ WF_driveVars(cut = {} /\ LoadWrites) /\ WF_driveVars(Scans \/ Resolves)
    /\ WF_driveVars(Takes \/ Forwards) /\ WF_driveVars(SchedulerRun)
    /\ WF_driveVars(RunStep) /\ WF_driveVars(WatchDone /\ UNCHANGED vars)
    /\ WF_driveVars(DriverStep /\ UNCHANGED vars)
    /\ \A a \in {"main", "watch"} : WF_driveVars(StopStep(a) /\ UNCHANGED vars)

-----------------------------------------------------------------------------

(* R-VER-1: a run whose co-drivers and scheduler share one stream of phase  *)
(* markers returns a verdict; neither the tee nor a slow start holds it up, *)
(* only a load generator whose output is no longer read.                    *)
RunReturns == <>(verdict # "none" \/ cut # {})

=============================================================================
