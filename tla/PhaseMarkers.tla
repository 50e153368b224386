---------------------------- MODULE PhaseMarkers ----------------------------
(***************************************************************************)
(* How a stage transition of the load reaches the fault scheduler: k6      *)
(* writes a marker line, a scan goroutine per stream parses it and sends   *)
(* it into k6Handle.markers, teeMarkers forwards it when --db-load or      *)
(* --fuzz is on, and the scheduler receives until every phase-anchored     *)
(* fault has fired.  Only when both streams have ended is the channel      *)
(* closed and the handle resolved onto Done or Err.                        *)
(*                                                                         *)
(* Markers are numbered, so each place in the pipeline is the number of    *)
(* markers that have passed it, and a channel's length is a difference.    *)
(***************************************************************************)
EXTENDS Naturals

CONSTANTS
    NumPhases,    \* stages of the load profile, one marker each
    MarkerCap,    \* make(chan PhaseMarker, 16) of newK6Handle
    TeeCap,       \* make(chan PhaseMarker, 8) of teeMarkers
    Tee,          \* a co-driver flag is set, so teeMarkers is in between
    LastAnchor,   \* the last stage a fault is anchored to, 0 for none
    LoadMayDie,   \* k6 may end before its profile is over
    LongLines     \* k6 may write a line over bufio.Scanner's 64 KiB

ASSUME PipelineAssumption ==
    /\ NumPhases \in Nat /\ MarkerCap \in Nat /\ TeeCap \in Nat
    /\ Tee \in BOOLEAN /\ LoadMayDie \in BOOLEAN
    /\ LongLines \in BOOLEAN
    /\ LastAnchor \in 0..NumPhases

VARIABLES
    k6,       \* the load generator's process
    open,     \* streams whose scan goroutine has not returned
    written,  \* markers k6 has written to stderr
    sent,     \* markers sent into k6Handle.markers
    taken,    \* markers teeMarkers has received
    teed,     \* markers teeMarkers has sent on
    read,     \* markers the scheduler has received
    closed,   \* which of the two channels are closed
    handle,   \* resolved: Done or Err has a value
    sched,    \* the scheduler's marker loop
    drivers,  \* drivers.start has been called
    cut       \* streams whose scan ended on a line too long for it

vars == <<k6, open, written, sent, taken, teed, read, closed, handle, sched, drivers, cut>>

Stages == 0..NumPhases

TypeOK ==
    /\ k6 \in {"running", "exited"}
    /\ open \in SUBSET {"stdout", "stderr"}
    /\ written \in Stages /\ sent \in Stages /\ taken \in Stages
    /\ teed \in Stages /\ read \in Stages
    /\ closed \in SUBSET {"markers", "tee"}
    /\ handle \in {"pending", "resolved"}
    /\ sched \in {"receiving", "fired", "starved"}
    /\ drivers \in BOOLEAN
    /\ cut \in SUBSET {"stdout", "stderr"}

Init ==
    /\ k6 = "running" /\ open = {"stdout", "stderr"}
    /\ written = 0 /\ sent = 0 /\ taken = 0 /\ teed = 0 /\ read = 0
    /\ closed = {} /\ handle = "pending"
    /\ sched = IF LastAnchor = 0 THEN "fired" ELSE "receiving"
    /\ drivers = FALSE /\ cut = {}

(* Mutant: a stage's scenario runs markPhase with more than one iteration. *)
K6Marker_Repeated ==
    /\ k6 = "running"
    /\ written <= NumPhases
    /\ written' = written + 1
    /\ UNCHANGED <<k6, open, sent, taken, teed, read, closed, handle, sched, drivers, cut>>

(* A stage begins: console.log of the marker. *)
K6Marker ==
    /\ k6 = "running"
    /\ written < NumPhases
    /\ written' = written + 1
    /\ UNCHANGED <<k6, open, sent, taken, teed, read, closed, handle, sched, drivers, cut>>

(* The profile is over, or k6 dies. *)
K6Exit ==
    /\ k6 = "running"
    /\ written = NumPhases \/ LoadMayDie
    /\ k6' = "exited"
    /\ UNCHANGED <<open, written, sent, taken, teed, read, closed, handle, sched, drivers, cut>>

(* Room in k6Handle.markers, seen by the scan goroutine. *)
Received == IF Tee THEN taken ELSE read

(* Mutant: the channel is made without a buffer to speak of. *)
ScanSend_Unbuffered ==
    /\ "stderr" \in open /\ sent < written
    /\ sent - Received < 1
    /\ sent' = sent + 1
    /\ UNCHANGED <<k6, open, written, taken, teed, read, closed, handle, sched, drivers, cut>>

(* h.markers <- PhaseMarker{...}: blocks while the channel is full. *)
ScanSend ==
    /\ "stderr" \in open /\ sent < written
    /\ sent - Received < MarkerCap
    /\ sent' = sent + 1
    /\ UNCHANGED <<k6, open, written, taken, teed, read, closed, handle, sched, drivers, cut>>

(* A stream ends, every line of it scanned and sent. *)
ScanEOF(s) ==
    /\ s \in open
    /\ k6 = "exited" /\ (s = "stderr" => sent = written)
    /\ open' = open \ {s}
    /\ UNCHANGED <<k6, written, sent, taken, teed, read, closed, handle, sched, drivers, cut>>

(* The scanner gives up on a line too long for it: the goroutine returns    *)
(* and leaves the rest of the stream unread.                                *)
ScanGivesUp(s) ==
    /\ LongLines /\ s \in open
    /\ open' = open \ {s} /\ cut' = cut \cup {s}
    /\ UNCHANGED <<k6, written, sent, taken, teed, read, closed, handle, sched, drivers>>

(* Mutant: the channel is closed when stdout alone has ended. *)
ScanClose_StdoutOnly ==
    /\ "stdout" \notin open /\ "markers" \notin closed
    /\ closed' = closed \cup {"markers"}
    /\ UNCHANGED <<k6, open, written, sent, taken, teed, read, handle, sched, drivers, cut>>

(* wg.Wait(); close(h.markers). *)
ScanClose ==
    /\ open = {} /\ "markers" \notin closed
    /\ closed' = closed \cup {"markers"}
    /\ UNCHANGED <<k6, open, written, sent, taken, teed, read, handle, sched, drivers, cut>>

(* cmd.Wait(), then finish puts one value into a channel of capacity one. *)
Finish ==
    /\ k6 = "exited" /\ "markers" \in closed /\ handle = "pending"
    /\ handle' = "resolved"
    /\ UNCHANGED <<k6, open, written, sent, taken, teed, read, closed, sched, drivers, cut>>

(* teeMarkers' loop receives a marker; the first one starts the drivers. *)
TeeTake ==
    /\ Tee /\ taken = teed /\ taken < sent
    /\ taken' = taken + 1
    /\ drivers' = TRUE
    /\ UNCHANGED <<k6, open, written, sent, teed, read, closed, handle, sched, cut>>

(* out <- m: blocks while out is full. *)
TeeSend ==
    /\ teed < taken
    /\ teed - read < TeeCap
    /\ teed' = teed + 1
    /\ UNCHANGED <<k6, open, written, sent, taken, read, closed, handle, sched, drivers, cut>>

(* The range over in ends; close(out). *)
TeeClose ==
    /\ Tee /\ "markers" \in closed /\ "tee" \notin closed
    /\ teed = taken /\ taken = sent
    /\ closed' = closed \cup {"tee"}
    /\ UNCHANGED <<k6, open, written, sent, taken, teed, read, handle, sched, drivers, cut>>

(* What the scheduler receives from: the tee or the handle itself. *)
Available == IF Tee THEN teed ELSE sent
Source    == IF Tee THEN "tee" ELSE "markers"

(* Mutant: the loop ends one phase-anchored fault too early. *)
SchedReceive_StopsEarly ==
    /\ sched = "receiving"
    /\ read < Available
    /\ read' = read + 1
    /\ sched' = IF read' + 1 = LastAnchor THEN "fired" ELSE "receiving"
    /\ UNCHANGED <<k6, open, written, sent, taken, teed, closed, handle, drivers, cut>>

(* m, ok := <-markers.  The loop ends with the last phase-anchored fault.  *)
SchedReceive ==
    /\ sched = "receiving"
    /\ read < Available
    /\ read' = read + 1
    /\ sched' = IF read' = LastAnchor THEN "fired" ELSE "receiving"
    /\ UNCHANGED <<k6, open, written, sent, taken, teed, closed, handle, drivers, cut>>

(* !ok: the faults still waiting are reported as never fired. *)
SchedClosed ==
    /\ sched = "receiving"
    /\ read = Available /\ Source \in closed
    /\ sched' = "starved"
    /\ UNCHANGED <<k6, open, written, sent, taken, teed, read, closed, handle, drivers, cut>>

(* Run has its result and the scheduler is over: nothing more happens. *)
Over ==
    /\ handle = "resolved" /\ sched # "receiving"
    /\ UNCHANGED vars

ScanStep  == ScanSend \/ (\E s \in open : ScanEOF(s)) \/ ScanClose \/ Finish
TeeStep   == TeeTake \/ TeeSend \/ TeeClose
SchedStep == SchedReceive \/ SchedClosed

Next ==
    \/ K6Marker \/ K6Exit
    \/ ScanStep \/ (\E s \in open : ScanGivesUp(s))
    \/ TeeStep \/ SchedStep \/ Over

Spec == Init /\ [][Next]_vars

(* k6's profile is finite and goroutines that can run do run.  A k6 whose   *)
(* output nobody reads any more may block on it for ever.                   *)
FairSpec ==
    /\ Spec
    /\ WF_vars(cut = {} /\ (K6Marker \/ K6Exit)) /\ WF_vars(ScanStep)
    /\ WF_vars(TeeStep) /\ WF_vars(SchedStep)

-----------------------------------------------------------------------------

(* R-EXE-19: "load ended before phase started" is said only of a phase the  *)
(* load really never announced, unless the scanner had given up; no marker  *)
(* is dropped by an early close.                                            *)
StarvedMeansUnannounced == sched = "starved" => read = written \/ "stderr" \in cut

(* A profile of at most MarkerCap stages never blocks the goroutine that    *)
(* has to report the load's end.                                            *)
ScannerFree == sent < written => sent - Received < MarkerCap

(* R-VER-1: the load's end reaches Run as Done or Err.                      *)
LoadResolves == <>(handle = "resolved")

(* R-EXE-8: every stage a fault is anchored to is seen by the scheduler if  *)
(* the load announces it and the scanner has not given up.                  *)
AnchorsSeen ==
    LastAnchor > 0 => (written >= LastAnchor ~> read >= LastAnchor \/ "stderr" \in cut)

(* R-EXE-8, R-VER-1: no bounded channel, and no reader that stops early,    *)
(* keeps an announced anchor from the scheduler or the load's end from Run. *)
MarkersArrive == AnchorsSeen /\ (LoadResolves \/ <>(cut # {}))

(* The order in which markers pass the pipeline, and what a close implies.  *)
PipelineInv ==
    /\ TypeOK
    /\ teed <= taken /\ taken <= sent /\ sent <= written
    /\ read <= Available
    /\ "markers" \in closed => open = {}
    /\ "tee" \in closed => "markers" \in closed /\ teed = sent
    /\ "stderr" \notin open => "stderr" \in cut \/ (k6 = "exited" /\ sent = written)
    /\ sched = "starved" => open = {} /\ read = sent

=============================================================================
