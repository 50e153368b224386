--------------------------- MODULE DriveRunProofs ---------------------------
(***************************************************************************)
(* A run with co-drivers: its two parts keep, in the composition, what each *)
(* keeps alone, for every load profile, channel capacity and set of things  *)
(* that go wrong; and a pass earned in time is a complete one.              *)
(***************************************************************************)
EXTENDS DriveRun, SequenceTheorems, TLAPS

-----------------------------------------------------------------------------
(* The marker pipeline on its own loses nothing, for every profile, capacity *)
(* and anchor, with and without the tee.                                     *)

(* Markers leave each place of the pipeline in order, and a channel is      *)
(* closed only once everything in it has been sent.                         *)
THEOREM Pipeline == Spec => []PipelineInv
<1> USE PipelineAssumption DEF PipelineInv, TypeOK, Stages, Available
<1>1. Init => PipelineInv
  <2> SUFFICES ASSUME Init PROVE PipelineInv
    OBVIOUS
  <2>1. 0 \in Stages
    OBVIOUS
  <2>2. /\ sched \in {"receiving", "fired"}
        /\ open = {"stdout", "stderr"} /\ closed = {} /\ drivers = FALSE /\ cut = {}
        /\ k6 = "running" /\ handle = "pending"
    BY DEF Init
  <2>3. written = 0 /\ sent = 0 /\ taken = 0 /\ teed = 0 /\ read = 0
    BY DEF Init
  <2>4. TypeOK
    BY <2>1, <2>2, <2>3
  <2> QED
    BY <2>2, <2>3, <2>4
<1>2. PipelineInv /\ [Next]_vars => PipelineInv'
  <2> SUFFICES ASSUME PipelineInv, [Next]_vars PROVE PipelineInv'
    OBVIOUS
  <2>1. CASE K6Marker
    BY <2>1 DEF K6Marker
  <2>2. CASE K6Exit
    BY <2>2 DEF K6Exit
  <2>3. CASE ScanSend
    BY <2>3 DEF ScanSend
  <2>4. ASSUME NEW s \in open, ScanEOF(s) PROVE PipelineInv'
    BY <2>4 DEF ScanEOF
  <2>5. CASE ScanClose
    BY <2>5 DEF ScanClose
  <2>6. CASE Finish
    BY <2>6 DEF Finish
  <2>7. CASE TeeTake
    BY <2>7 DEF TeeTake
  <2>8. CASE TeeSend
    BY <2>8 DEF TeeSend
  <2>9. CASE TeeClose
    BY <2>9 DEF TeeClose
  <2>10. CASE SchedReceive
    BY <2>10 DEF SchedReceive
  <2>11. CASE SchedClosed
    BY <2>11 DEF SchedClosed, Source
  <2>12. ASSUME NEW s \in open, ScanGivesUp(s) PROVE PipelineInv'
    BY <2>12 DEF ScanGivesUp
  <2>13. CASE UNCHANGED vars
    BY <2>13 DEF vars
  <2> QED
    BY <2>1, <2>2, <2>3, <2>4, <2>5, <2>6, <2>7, <2>8, <2>9, <2>10, <2>11,
       <2>12, <2>13 DEF Next, ScanStep, TeeStep, SchedStep, Over
<1> QED
  BY <1>1, <1>2, PTL DEF Spec

(* R-EXE-19: a fault is reported as never fired only if its phase was never *)
(* announced or the scanner had given up.                                   *)
THEOREM Unannounced == Spec => []StarvedMeansUnannounced
<1>1. PipelineInv => StarvedMeansUnannounced
  BY DEF PipelineInv, StarvedMeansUnannounced
<1> QED
  BY <1>1, Pipeline, PTL

(* The scan goroutine can always send when the profile has no more stages   *)
(* than the channel has places, whoever reads or does not read.             *)
THEOREM ShortProfileNeverBlocks ==
    ASSUME NumPhases <= MarkerCap
    PROVE  Spec => []ScannerFree
<1>1. PipelineInv => ScannerFree
  BY PipelineAssumption DEF PipelineInv, TypeOK, Stages, ScannerFree, Received
<1> QED
  BY <1>1, Pipeline, PTL

-----------------------------------------------------------------------------
(* The co-drivers on their own. *)

(* Every requested tool is yet to be started, running or over under a       *)
(* handle, or has failed to start; one that is yet to be started has no      *)
(* process, but for the first while its handle is not stored.               *)
StartInv ==
    /\ \A i, j \in DOMAIN todo : todo[i] = todo[j] => i = j
    /\ handles \cap failed = {}
    /\ ToSet(todo) \cap (handles \cup failed) = {}
    /\ ToSet(todo) \cup handles \cup failed = Tools
    /\ launched => todo # <<>>
    /\ \A t \in handles : proc[t] # "off"
    /\ \A t \in failed : proc[t] = "off"
    /\ \A t \in ToSet(todo) : (launched => t # Head(todo)) => proc[t] = "off"

(* stop() stops what it found, once, and what it stopped stays stopped.     *)
StopInv ==
    /\ result \subseteq snap /\ snap \subseteq handles
    /\ \A t \in result : proc[t] \notin {"off", "running"}
    /\ once = "no" => snap = {} /\ result = {} /\ ~inTime
    /\ once = "done" => result = snap
    /\ inTime => todo = <<>> /\ snap = handles

(* What a verdict of pass was decided on still holds when it is returned.   *)
PassInv ==
    /\ outcome = "pass" =>
         /\ once = "done"
         /\ inTime => failed = {}
         /\ \A t \in result : proc[t] # "broken"
    /\ verdict = "pass" => outcome = "pass"
    /\ verdict # "none" => main \in {"returned", "exited"}

(* The tools that are asked for form a sequence without repetition.         *)
LEMMA RequestedOnce ==
    /\ Requested \in Seq(Tools)
    /\ \A i, j \in DOMAIN Requested : Requested[i] = Requested[j] => i = j
BY DriversAssumption DEF Tools, ToSet

(* Taking the first off a sequence without repetition takes it off its set. *)
LEMMA TailOfSet ==
    ASSUME NEW S, NEW s \in Seq(S), s # <<>>,
           \A i, j \in DOMAIN s : s[i] = s[j] => i = j
    PROVE  /\ Head(s) \in ToSet(s)
           /\ ToSet(Tail(s)) = ToSet(s) \ {Head(s)}
           /\ \A i, j \in DOMAIN Tail(s) : Tail(s)[i] = Tail(s)[j] => i = j
<1>1. /\ Len(s) \in Nat \ {0} /\ DOMAIN s = 1..Len(s) /\ Head(s) = s[1]
      /\ Tail(s) \in Seq(S) /\ Len(Tail(s)) = Len(s) - 1
  BY EmptySeq, LenProperties, HeadTailProperties
<1>2. DOMAIN Tail(s) = 1..(Len(s) - 1) /\ \A i \in 1..(Len(s) - 1) : Tail(s)[i] = s[i + 1]
  BY <1>1, LenProperties, HeadTailProperties
<1>3. Head(s) \in ToSet(s)
  BY <1>1 DEF ToSet
<1>4. ASSUME NEW x \in ToSet(Tail(s)) PROVE x \in ToSet(s) \ {Head(s)}
  <2>1. PICK i \in 1..(Len(s) - 1) : x = Tail(s)[i]
    BY <1>2, <1>4 DEF ToSet
  <2>2. x = s[i + 1] /\ i + 1 \in 1..Len(s) /\ 1 \in 1..Len(s) /\ i + 1 # 1
    BY <1>1, <1>2, <2>1
  <2> QED
    BY <1>1, <2>2 DEF ToSet
<1>5. ASSUME NEW x \in ToSet(s), x # Head(s) PROVE x \in ToSet(Tail(s))
  <2>1. PICK i \in 1..Len(s) : x = s[i]
    BY <1>1, <1>5 DEF ToSet
  <2>2. i - 1 \in 1..(Len(s) - 1) /\ (i - 1) + 1 = i
    BY <1>1, <1>5, <2>1
  <2>3. Tail(s)[i - 1] = x
    BY <1>2, <2>1, <2>2
  <2> QED
    BY <1>2, <2>2, <2>3 DEF ToSet
<1>6. ASSUME NEW i \in 1..(Len(s) - 1), NEW j \in 1..(Len(s) - 1), Tail(s)[i] = Tail(s)[j]
      PROVE  i = j
  <2>1. s[i + 1] = s[j + 1] /\ i + 1 \in 1..Len(s) /\ j + 1 \in 1..Len(s)
    BY <1>1, <1>2, <1>6
  <2>2. i + 1 = j + 1
    BY <1>1, <2>1
  <2> QED
    BY <2>2
<1> QED
  BY <1>2, <1>3, <1>4, <1>5, <1>6

(* The shapes of the drivers' state are kept.                               *)
LEMMA DriversTypeInit == DriversInit => DriversTypeOK
<1> SUFFICES ASSUME DriversInit PROVE DriversTypeOK
  OBVIOUS
<1>1. todo \in Seq(Tools) /\ Len(todo) <= Len(Requested)
  BY RequestedOnce, LenProperties DEF DriversInit
<1>2. launched \in BOOLEAN /\ started \in BOOLEAN /\ marker \in BOOLEAN /\ warned \in BOOLEAN /\ inTime \in BOOLEAN
  BY DEF DriversInit
<1> QED
  BY <1>1, <1>2 DEF DriversInit, DriversTypeOK

(* Every step of the co-drivers keeps their types.                          *)
LEMMA DriversTypeStep == DriversTypeOK /\ StartInv /\ [DriversNext]_driverVars => DriversTypeOK'
<1> SUFFICES ASSUME DriversTypeOK, StartInv, [DriversNext]_driverVars PROVE DriversTypeOK'
  OBVIOUS
<1> USE DEF DriversTypeOK, mainVars, startVars, stopVars
<1>1. CASE StartLoad
  BY <1>1 DEF StartLoad
<1>2. CASE Select
  BY <1>2 DEF Select
<1>3. CASE Collect
  BY <1>3 DEF Collect
<1>4. CASE Judge
  BY <1>4 DEF Judge
<1>5. CASE ReturnVerdict
  BY <1>5 DEF ReturnVerdict
<1>6. CASE Recover
  BY <1>6 DEF Recover
<1>7. CASE Exit
  BY <1>7 DEF Exit
<1>8. CASE Exited
  BY <1>8 DEF Exited, driverVars
<1>9. CASE Signal
  BY <1>9 DEF Signal
<1>10. CASE WatchDone
  BY <1>10 DEF WatchDone
<1>11. CASE FirstMarker
  BY <1>11 DEF FirstMarker
<1>12. CASE LoadEnds
  BY <1>12 DEF LoadEnds
<1>13. CASE StartFirst
  BY <1>13 DEF StartFirst
<1>14. CASE Launch
  BY <1>14 DEF Launch
<1>15. CASE Store
  <2>1. todo # <<>>
    BY <1>15 DEF StartInv, Store
  <2>2. Head(todo) \in Tools /\ Tail(todo) \in Seq(Tools) /\ Len(Tail(todo)) <= Len(Requested)
    BY <2>1, RequestedOnce, HeadTailProperties, LenProperties
  <2>3. handles' \in SUBSET Tools /\ failed' \in SUBSET Tools
    BY <1>15, <2>2 DEF Store
  <2>4. todo' \in Seq(Tools) /\ Len(todo') <= Len(Requested)
    BY <1>15, <2>2 DEF Store
  <2>5. /\ launched' = FALSE
        /\ UNCHANGED <<mainVars, watch, load, marker, started, stopVars, proc>>
    BY <1>15 DEF Store
  <2>6. launched' \in BOOLEAN /\ started' \in BOOLEAN /\ marker' \in BOOLEAN
        /\ warned' \in BOOLEAN /\ inTime' \in BOOLEAN
    BY <2>5
  <2>7. /\ main' \in {"starting", "load", "collect", "judge", "teardown", "returned", "exited"}
        /\ verdict' \in {"none", "pass", "error", "aborted"}
        /\ outcome' \in {"none", "pass", "error"}
        /\ watch' \in {"wait", "teardown", "caught"}
        /\ load' \in {"off", "running", "done", "failed"}
        /\ once' \in {"no", "main", "watch", "done"}
        /\ proc' \in [Tools -> {"off", "running", "stopped", "ended", "broken"}]
        /\ snap' \in SUBSET Tools /\ result' \in SUBSET Tools /\ stops' \in [Tools -> Nat]
    BY <2>5
  <2> QED
    BY <2>3, <2>4, <2>6, <2>7
<1>16. ASSUME NEW t \in Tools, ToolEnds(t) PROVE DriversTypeOK'
  BY <1>16 DEF ToolEnds
<1>17. ASSUME NEW a \in {"main", "watch"}, StopEnter(a) PROVE DriversTypeOK'
  BY <1>17 DEF StopEnter
<1>18. ASSUME NEW a \in {"main", "watch"}, NEW t \in Tools, StopTool(a, t) PROVE DriversTypeOK'
  BY <1>18 DEF StopTool
<1>19. ASSUME NEW a \in {"main", "watch"}, StopDone(a) PROVE DriversTypeOK'
  BY <1>19 DEF StopDone
<1>20. CASE UNCHANGED driverVars
  BY <1>20 DEF driverVars
<1> QED
  BY <1>1, <1>2, <1>3, <1>4, <1>5, <1>6, <1>7, <1>8, <1>9, <1>10, <1>11, <1>12,
     <1>13, <1>14, <1>15, <1>16, <1>17, <1>18, <1>19, <1>20
     DEF DriversNext, DriverStep, StopStep

(* A tool moves from the list to its handle or its error, and to one only.  *)
LEMMA StartInit == DriversInit => StartInv
<1> SUFFICES ASSUME DriversInit PROVE StartInv
  OBVIOUS
<1>1. ToSet(todo) = Tools /\ handles = {} /\ failed = {}
  BY DEF DriversInit, Tools
<1> QED
  BY <1>1, RequestedOnce DEF DriversInit, StartInv

(* No step breaks the order in which start() works off the tools: launched, *)
(* stored, the next.                                                        *)
LEMMA StartStep == DriversTypeOK /\ StartInv /\ StopInv /\ [DriversNext]_driverVars => StartInv'
<1> SUFFICES ASSUME DriversTypeOK, StartInv, StopInv, [DriversNext]_driverVars PROVE StartInv'
  OBVIOUS
<1> USE DEF StartInv, mainVars, startVars, stopVars
<1>1. CASE StartLoad
  BY <1>1 DEF StartLoad
<1>2. CASE Select
  BY <1>2 DEF Select
<1>3. CASE Collect
  BY <1>3 DEF Collect
<1>4. CASE Judge
  BY <1>4 DEF Judge
<1>5. CASE ReturnVerdict
  BY <1>5 DEF ReturnVerdict
<1>6. CASE Recover
  BY <1>6 DEF Recover
<1>7. CASE Exit
  BY <1>7 DEF Exit
<1>8. CASE Exited
  BY <1>8 DEF Exited, driverVars
<1>9. CASE Signal
  BY <1>9 DEF Signal
<1>10. CASE WatchDone
  BY <1>10 DEF WatchDone
<1>11. CASE FirstMarker
  BY <1>11 DEF FirstMarker
<1>12. CASE LoadEnds
  BY <1>12 DEF LoadEnds
<1>13. CASE StartFirst
  BY <1>13 DEF StartFirst
<1>14. CASE Launch
  <2>1. Head(todo) \in ToSet(todo) /\ Head(todo) \in Tools
    BY <1>14, TailOfSet DEF Launch, DriversTypeOK
  <2>2. /\ UNCHANGED <<todo, handles, failed>> /\ launched' /\ todo # <<>>
        /\ \A t \in Tools : t # Head(todo) => proc'[t] = proc[t]
    BY <1>14 DEF Launch, DriversTypeOK
  <2> QED
    BY <2>1, <2>2
<1>15. CASE Store
  <2>1. /\ Head(todo) \in ToSet(todo) /\ ToSet(todo') = ToSet(todo) \ {Head(todo)}
        /\ \A i, j \in DOMAIN todo' : todo'[i] = todo'[j] => i = j
    BY <1>15, TailOfSet DEF Store, DriversTypeOK
  <2>2. UNCHANGED proc /\ launched /\ ~launched'
    BY <1>15 DEF Store
  <2>3. CASE proc[Head(todo)] = "off"
    BY <1>15, <2>1, <2>2, <2>3 DEF Store
  <2>4. CASE proc[Head(todo)] # "off"
    BY <1>15, <2>1, <2>2, <2>4 DEF Store
  <2> QED
    BY <2>3, <2>4
<1>16. ASSUME NEW t \in Tools, ToolEnds(t) PROVE StartInv'
  <2>1. proc[t] = "running" /\ proc'[t] # "off" /\ \A u \in Tools : u # t => proc'[u] = proc[u]
    BY <1>16 DEF ToolEnds, DriversTypeOK
  <2>2. UNCHANGED <<todo, launched, handles, failed>>
    BY <1>16 DEF ToolEnds
  <2> QED
    BY <2>1, <2>2
<1>17. ASSUME NEW a \in {"main", "watch"}, StopEnter(a) PROVE StartInv'
  BY <1>17 DEF StopEnter
<1>18. ASSUME NEW a \in {"main", "watch"}, NEW t \in Tools, StopTool(a, t) PROVE StartInv'
  <2>1. UNCHANGED <<todo, launched, handles, failed>> /\ t \in handles
    BY <1>18 DEF StopTool, StopInv
  <2>2. proc'[t] # "off" /\ \A u \in Tools : u # t => proc'[u] = proc[u]
    BY <1>18, <2>1 DEF StopTool, DriversTypeOK
  <2> QED
    BY <2>1, <2>2
<1>19. ASSUME NEW a \in {"main", "watch"}, StopDone(a) PROVE StartInv'
  BY <1>19 DEF StopDone
<1>20. CASE UNCHANGED driverVars
  BY <1>20 DEF driverVars
<1> QED
  BY <1>1, <1>2, <1>3, <1>4, <1>5, <1>6, <1>7, <1>8, <1>9, <1>10, <1>11, <1>12,
     <1>13, <1>14, <1>15, <1>16, <1>17, <1>18, <1>19, <1>20
     DEF DriversNext, DriverStep, StopStep

(* What stop() took, and that a tool it stopped is not started again.       *)
LEMMA StopsStep == DriversTypeOK /\ StartInv /\ StopInv /\ [DriversNext]_driverVars => StopInv'
<1> SUFFICES ASSUME DriversTypeOK, StartInv, StopInv, [DriversNext]_driverVars PROVE StopInv'
  OBVIOUS
<1> USE DEF StopInv, mainVars, startVars, stopVars
<1>1. CASE StartLoad
  BY <1>1 DEF StartLoad
<1>2. CASE Select
  BY <1>2 DEF Select
<1>3. CASE Collect
  BY <1>3 DEF Collect
<1>4. CASE Judge
  BY <1>4 DEF Judge
<1>5. CASE ReturnVerdict
  BY <1>5 DEF ReturnVerdict
<1>6. CASE Recover
  BY <1>6 DEF Recover
<1>7. CASE Exit
  BY <1>7 DEF Exit
<1>8. CASE Exited
  BY <1>8 DEF Exited, driverVars
<1>9. CASE Signal
  BY <1>9 DEF Signal
<1>10. CASE WatchDone
  BY <1>10 DEF WatchDone
<1>11. CASE FirstMarker
  BY <1>11 DEF FirstMarker
<1>12. CASE LoadEnds
  BY <1>12 DEF LoadEnds
<1>13. CASE StartFirst
  BY <1>13 DEF StartFirst
<1>14. CASE Launch
  <2>1. Head(todo) \in ToSet(todo) /\ todo # <<>>
    BY <1>14, TailOfSet DEF Launch, DriversTypeOK, StartInv
  <2>2. Head(todo) \notin result
    BY <2>1 DEF StartInv
  <2>3. \A t \in Tools : t # Head(todo) => proc'[t] = proc[t]
    BY <1>14 DEF Launch, DriversTypeOK
  <2> QED
    BY <1>14, <2>2, <2>3 DEF Launch, DriversTypeOK
<1>15. CASE Store
  <2>1. todo # <<>> /\ ~inTime /\ ~inTime'
    BY <1>15 DEF Store, StartInv
  <2> QED
    BY <1>15, <2>1 DEF Store
<1>16. ASSUME NEW t \in Tools, ToolEnds(t) PROVE StopInv'
  <2>1. t \notin result /\ \A u \in Tools : u # t => proc'[u] = proc[u]
    BY <1>16 DEF ToolEnds, DriversTypeOK
  <2> QED
    BY <1>16, <2>1 DEF ToolEnds, DriversTypeOK
<1>17. ASSUME NEW a \in {"main", "watch"}, StopEnter(a) PROVE StopInv'
  BY <1>17 DEF StopEnter
<1>18. ASSUME NEW a \in {"main", "watch"}, NEW t \in Tools, StopTool(a, t) PROVE StopInv'
  <2>1. t \in handles
    BY <1>18 DEF StopTool
  <2>2. proc'[t] \notin {"off", "running"} /\ \A u \in Tools : u # t => proc'[u] = proc[u]
    BY <1>18, <2>1 DEF StopTool, DriversTypeOK, StartInv
  <2> QED
    BY <1>18, <2>1, <2>2 DEF StopTool, DriversTypeOK
<1>19. ASSUME NEW a \in {"main", "watch"}, StopDone(a) PROVE StopInv'
  BY <1>19 DEF StopDone
<1>20. CASE UNCHANGED driverVars
  BY <1>20 DEF driverVars
<1> QED
  BY <1>1, <1>2, <1>3, <1>4, <1>5, <1>6, <1>7, <1>8, <1>9, <1>10, <1>11, <1>12,
     <1>13, <1>14, <1>15, <1>16, <1>17, <1>18, <1>19, <1>20
     DEF DriversNext, DriverStep, StopStep

(* The verdict is that of the collection, which nothing changes any more.   *)
LEMMA PassStep == DriversTypeOK /\ StartInv /\ StopInv /\ PassInv /\ [DriversNext]_driverVars => PassInv'
<1> SUFFICES ASSUME DriversTypeOK, StartInv, StopInv, PassInv, [DriversNext]_driverVars PROVE PassInv'
  OBVIOUS
<1> USE DEF PassInv, mainVars, startVars, stopVars
<1>1. CASE StartLoad
  BY <1>1 DEF StartLoad
<1>2. CASE Select
  BY <1>2 DEF Select
<1>3. CASE Collect
  <2>1. outcome' = "pass" => failed = {} /\ \A t \in result : proc[t] # "broken"
    BY <1>3 DEF Collect
  <2> QED
    BY <1>3, <2>1 DEF Collect
<1>4. CASE Judge
  BY <1>4 DEF Judge
<1>5. CASE ReturnVerdict
  BY <1>5 DEF ReturnVerdict
<1>6. CASE Recover
  BY <1>6 DEF Recover
<1>7. CASE Exit
  BY <1>7 DEF Exit
<1>8. CASE Exited
  BY <1>8 DEF Exited, driverVars
<1>9. CASE Signal
  BY <1>9 DEF Signal
<1>10. CASE WatchDone
  BY <1>10 DEF WatchDone
<1>11. CASE FirstMarker
  BY <1>11 DEF FirstMarker
<1>12. CASE LoadEnds
  BY <1>12 DEF LoadEnds
<1>13. CASE StartFirst
  BY <1>13 DEF StartFirst
<1>14. CASE Launch
  <2>1. Head(todo) \in ToSet(todo) /\ todo # <<>>
    BY <1>14, TailOfSet DEF Launch, DriversTypeOK, StartInv
  <2>2. Head(todo) \notin result
    BY <2>1 DEF StartInv, StopInv
  <2>3. \A t \in Tools : t # Head(todo) => proc'[t] = proc[t]
    BY <1>14 DEF Launch, DriversTypeOK
  <2> QED
    BY <1>14, <2>2, <2>3 DEF Launch, DriversTypeOK
<1>15. CASE Store
  <2>1. todo # <<>> /\ ~inTime /\ ~inTime'
    BY <1>15 DEF Store, StartInv, StopInv
  <2> QED
    BY <1>15, <2>1 DEF Store
<1>16. ASSUME NEW t \in Tools, ToolEnds(t) PROVE PassInv'
  <2>1. t \notin result /\ \A u \in Tools : u # t => proc'[u] = proc[u]
    BY <1>16 DEF ToolEnds, DriversTypeOK, StopInv
  <2> QED
    BY <1>16, <2>1 DEF ToolEnds, DriversTypeOK
<1>17. ASSUME NEW a \in {"main", "watch"}, StopEnter(a) PROVE PassInv'
  BY <1>17 DEF StopEnter
<1>18. ASSUME NEW a \in {"main", "watch"}, NEW t \in Tools, StopTool(a, t) PROVE PassInv'
  BY <1>18 DEF StopTool
<1>19. ASSUME NEW a \in {"main", "watch"}, StopDone(a) PROVE PassInv'
  BY <1>19 DEF StopDone
<1>20. CASE UNCHANGED driverVars
  BY <1>20 DEF driverVars
<1> QED
  BY <1>1, <1>2, <1>3, <1>4, <1>5, <1>6, <1>7, <1>8, <1>9, <1>10, <1>11, <1>12,
     <1>13, <1>14, <1>15, <1>16, <1>17, <1>18, <1>19, <1>20
     DEF DriversNext, DriverStep, StopStep

DriversInv == DriversTypeOK /\ StartInv /\ StopInv /\ PassInv

(* In every state of the co-drivers between Run, watcher and tee the        *)
(* handles, results and verdict fit together.                               *)
THEOREM DriversInvariance == DriversSpec => []DriversInv
<1>1. DriversInit => DriversInv
  BY DriversTypeInit, StartInit DEF DriversInit, DriversInv, StopInv, PassInv
<1>2. DriversInv /\ [DriversNext]_driverVars => DriversInv'
  BY DriversTypeStep, StartStep, StopsStep, PassStep DEF DriversInv
<1> QED
  BY <1>1, <1>2, PTL DEF DriversSpec

(* R-EXE-26/27: if start() had finished when stop() took over, a pass means *)
(* that every tool ran and was stopped or ended, and all are in the result. *)
THEOREM PassIsComplete == DriversSpec => []InTimeMeansComplete
<1>1. DriversInv => InTimeMeansComplete
  <2> SUFFICES ASSUME DriversInv, verdict = "pass", inTime
               PROVE  result = Tools /\ \A t \in Tools : proc[t] \in {"stopped", "ended"}
    BY DEF InTimeMeansComplete
  <2>1. once = "done" /\ failed = {} /\ \A t \in result : proc[t] # "broken"
    BY DEF DriversInv, PassInv
  <2>2. todo = <<>> /\ result = handles
    BY <2>1 DEF DriversInv, StopInv
  <2>3. ToSet(todo) = {}
    BY <2>2 DEF ToSet
  <2>4. result = Tools
    BY <2>1, <2>2, <2>3 DEF DriversInv, StartInv
  <2> QED
    BY <2>1, <2>4 DEF DriversInv, DriversTypeOK, StopInv
<1> QED
  BY <1>1, DriversInvariance, PTL

-----------------------------------------------------------------------------
(* The composition. *)

(* Every step of the composition is one of the pipeline, of the drivers or  *)
(* of both; neither does in it what it could not do alone.                  *)
LEMMA PipelineSteps == DriveNext => [Next]_vars
<1> SUFFICES ASSUME DriveNext PROVE [Next]_vars
  OBVIOUS
<1>1. CASE LoadWrites
  BY <1>1 DEF LoadWrites, Next
<1>2. CASE Scans
  BY <1>2 DEF Scans, Next, ScanStep
<1>3. CASE Resolves
  BY <1>3 DEF Resolves, Next, ScanStep
<1>4. CASE Takes
  BY <1>4 DEF Takes, Next, TeeStep
<1>5. CASE Forwards
  BY <1>5 DEF Forwards, Next, TeeStep
<1>6. CASE SchedulerRun
  BY <1>6 DEF SchedulerRun, Next
<1>7. CASE GivesUp
  BY <1>7 DEF GivesUp, Next
<1>8. CASE UNCHANGED vars
  BY <1>8
<1> QED
  BY <1>1, <1>2, <1>3, <1>4, <1>5, <1>6, <1>7, <1>8 DEF DriveNext, RunStep, RunSelects

(* Each step of the composition is a step of the co-drivers or leaves them  *)
(* alone.                                                                   *)
LEMMA DriversSteps == DriveNext => [DriversNext]_driverVars
<1> SUFFICES ASSUME DriveNext PROVE [DriversNext]_driverVars
  OBVIOUS
<1>1. CASE Resolves
  BY <1>1 DEF Resolves, DriversNext
<1>2. CASE Takes
  BY <1>2 DEF Takes, DriversNext
<1>3. CASE RunStep
  BY <1>3 DEF RunStep, RunSelects, DriversNext
<1>4. CASE UNCHANGED driverVars
  BY <1>4
<1>5. CASE Recover \/ Exit \/ Exited \/ Signal \/ WatchDone \/ DriverStep
  BY <1>5 DEF DriversNext
<1>6. CASE \/ \E t \in Tools : ToolEnds(t)
           \/ \E a \in {"main", "watch"} : StopStep(a)
  BY <1>6 DEF DriversNext
<1> QED
  BY <1>1, <1>2, <1>3, <1>4, <1>5, <1>6
     DEF DriveNext, LoadWrites, Scans, GivesUp, Forwards, SchedulerRun

(* A run with co-drivers is a behaviour of the marker pipeline...           *)
THEOREM DriveImplementsPipeline == DriveSpec => Spec
<1>1. DriveInit => Init
  BY DEF DriveInit
<1>2. [DriveNext]_driveVars => [Next]_vars
  BY PipelineSteps DEF driveVars
<1> QED
  BY <1>1, <1>2, PTL DEF DriveSpec, Spec

(* ... and one of the co-drivers.                                           *)
THEOREM DriveImplementsDrivers == DriveSpec => DriversSpec
<1>1. DriveInit => DriversInit
  BY DEF DriveInit
<1>2. [DriveNext]_driveVars => [DriversNext]_driverVars
  BY DriversSteps DEF driveVars
<1> QED
  BY <1>1, <1>2, PTL DEF DriveSpec, DriversSpec

(* Hence with co-drivers on no marker is lost, and a pass in time is        *)
(* complete.                                                                *)
THEOREM DriveKeepsBoth ==
    DriveSpec => []PipelineInv /\ []StarvedMeansUnannounced /\ []InTimeMeansComplete
BY DriveImplementsPipeline, DriveImplementsDrivers, Pipeline, Unannounced, PassIsComplete, PTL

=============================================================================
