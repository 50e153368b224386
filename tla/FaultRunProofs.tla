--------------------------- MODULE FaultRunProofs ---------------------------
(***************************************************************************)
(* FaultRun's safety properties, proved for every set of faults, every     *)
(* load profile and every combination of disruptions.                      *)
(***************************************************************************)
EXTENDS FaultRunInv, TLAPS

-----------------------------------------------------------------------------
(* Sequences: what taking the newest element off, appending one, and the   *)
(* empty list do to the set of elements.                                   *)

(* The newest element of a list belongs to it, and the rest is the list     *)
(* without it.                                                              *)
LEMMA FrontLast ==
    ASSUME NEW S, NEW s \in Seq(S), s # <<>>
    PROVE  /\ Last(s) \in S
           /\ Last(s) \in ToSet(s)
           /\ Front(s) \in Seq(S)
           /\ ToSet(s) = ToSet(Front(s)) \cup {Last(s)}
<1> DEFINE n == Len(s)
<1>1. /\ n \in Nat \ {0}
      /\ DOMAIN s = 1..n
      /\ \A i \in 1..n : s[i] \in S
  OBVIOUS
<1>2. /\ Front(s) \in Seq(S)
      /\ DOMAIN Front(s) = 1..(n-1)
      /\ \A i \in 1..(n-1) : Front(s)[i] = s[i]
  BY <1>1 DEF Front
<1>3. Last(s) = s[n]
  BY DEF Last
<1>4. ToSet(s) = ToSet(Front(s)) \cup {Last(s)}
  <2>1. 1..n = 1..(n-1) \cup {n}
    BY <1>1
  <2> QED
    BY <2>1, <1>1, <1>2, <1>3 DEF ToSet
<1> QED
  BY <1>1, <1>2, <1>3, <1>4 DEF ToSet

(* Taking the newest undo off a duplicate-free list leaves it duplicate-    *)
(* free and without that undo.                                              *)
LEMMA FrontInjective ==
    ASSUME NEW S, NEW s \in Seq(S), s # <<>>, IsInjective(s)
    PROVE  IsInjective(Front(s)) /\ Last(s) \notin ToSet(Front(s))
<1> DEFINE n == Len(s)
<1>1. /\ n \in Nat \ {0}
      /\ DOMAIN s = 1..n
  OBVIOUS
<1>2. /\ DOMAIN Front(s) = 1..(n-1)
      /\ \A i \in 1..(n-1) : Front(s)[i] = s[i]
  BY <1>1 DEF Front
<1>3. Last(s) = s[n]
  BY DEF Last
<1> QED
  BY <1>1, <1>2, <1>3 DEF IsInjective, ToSet

(* Registering an undo adds just that undo, and keeps a list duplicate-     *)
(* free.                                                                    *)
LEMMA AppendElements ==
    ASSUME NEW S, NEW s \in Seq(S), NEW x \in S
    PROVE  /\ Append(s, x) \in Seq(S)
           /\ ToSet(Append(s, x)) = ToSet(s) \cup {x}
           /\ IsInjective(s) /\ x \notin ToSet(s) => IsInjective(Append(s, x))
<1> DEFINE n == Len(s)
<1>1. /\ n \in Nat
      /\ DOMAIN s = 1..n
  OBVIOUS
<1>2. /\ DOMAIN Append(s, x) = 1..(n+1)
      /\ \A i \in 1..n : Append(s, x)[i] = s[i]
      /\ Append(s, x)[n+1] = x
  BY <1>1
<1>3. 1..(n+1) = 1..n \cup {n+1}
  BY <1>1
<1>4. ToSet(Append(s, x)) = ToSet(s) \cup {x}
  BY <1>1, <1>2, <1>3 DEF ToSet
<1>5. IsInjective(s) /\ x \notin ToSet(s) => IsInjective(Append(s, x))
  BY <1>1, <1>2, <1>3 DEF ToSet, IsInjective
<1> QED
  BY <1>4, <1>5

(* A registry that was swapped out holds nothing. *)
LEMMA EmptyToSet == ToSet(<<>>) = {}
BY DEF ToSet

(* The empty list is duplicate-free. *)
LEMMA EmptyInjective == IsInjective(<<>>)
BY DEF IsInjective

-----------------------------------------------------------------------------
(* The names of lists and actors, and what a process leaves alone. *)

(* Lists, actors and the idle values of a sync.Once are told apart. *)
LEMMA Names ==
    /\ "mgr" \in Lists /\ "exp" \in Lists /\ "que" \in Lists
    /\ "topo" \notin Lists /\ "idle" \notin Lists
    /\ "main" \in Actors /\ "watch" \in Actors
    /\ Faults \subseteq Actors
    /\ "main" \notin Faults /\ "watch" \notin Faults
    /\ Actors \cap {"timer", "no", "done"} = {}
BY ConstantsAssumption DEF Lists, Actors, Reserved

(* Every kind of fault has a registry for its undo. *)
LEMMA ListOfType == \A f \in Faults : ListOf(f) \in Lists
BY ConstantsAssumption DEF ListOf, Lists, Kinds

(* The tuples that group variables are always expanded. *)
USE DEF mainVars, sigVars, loadVars, schedVars, faultVars, effVars, regVars,
        tdVars, onceVars, topoVars, mainFrame, loadFrame, schedFrame, goFrame,
        tdFrame

(* What Run's own goroutine leaves alone, and how it can enter its          *)
(* teardown.                                                                *)
LEMMA MainFrame ==
    ASSUME MainStep \/ Recover
    PROVE  /\ UNCHANGED <<sigVars, read, waiting, faultVars, effVars, regVars,
                          open, onceVars, emitted>>
           /\ \/ td' = td
              \/ td' = [td EXCEPT !["main"] = "mgr"] /\ pc' = "teardown"
           /\ pc = "teardown" => td["main"] = "idle"
<1> USE DEF Continue, Return, TeardownThen, Goto
<1>1. CASE Preflight
  BY <1>1 DEF Preflight
<1>2. CASE Reset
  BY <1>2 DEF Reset
<1>3. CASE Classify
  BY <1>3 DEF Classify
<1>4. CASE ApplyTopology
  BY <1>4 DEF ApplyTopology
<1>5. CASE ArmTopology
  BY <1>5 DEF ArmTopology
<1>6. CASE Prepare
  BY <1>6 DEF Prepare
<1>7. CASE StartLoad
  BY <1>7 DEF StartLoad
<1>8. CASE ScheduleFaults
  BY <1>8 DEF ScheduleFaults
<1>9. CASE ArmExpiring
  BY <1>9 DEF ArmExpiring
<1>10. CASE Select
  BY <1>10 DEF Select
<1>11. CASE Drain
  BY <1>11 DEF Drain
<1>12. CASE Evaluate
  BY <1>12 DEF Evaluate
<1>13. CASE Finish
  BY <1>13 DEF Finish
<1>14. CASE Recover
  BY <1>14 DEF Recover
<1> QED
  BY <1>1, <1>2, <1>3, <1>4, <1>5, <1>6, <1>7, <1>8, <1>9, <1>10,
     <1>11, <1>12, <1>13, <1>14 DEF MainStep

(* What the signal and its watcher leave alone. *)
LEMMA WatchFrame ==
    ASSUME WatchStep \/ Signal
    PROVE  /\ UNCHANGED <<mainVars, loadVars, schedVars, faultVars, effVars,
                          regVars, open, onceVars, topoVars>>
           /\ \/ td' = td
              \/ /\ td' = [td EXCEPT !["watch"] = "mgr"]
                 /\ watch = "wait" /\ watch' = "teardown"
<1>1. CASE Signal
  BY <1>1 DEF Signal
<1>2. CASE WatchSignal
  BY <1>2 DEF WatchSignal
<1>3. CASE WatchStore
  BY <1>3 DEF WatchStore
<1>4. CASE WatchQuit
  BY <1>4 DEF WatchQuit
<1> QED
  BY <1>1, <1>2, <1>3, <1>4 DEF WatchStep

-----------------------------------------------------------------------------
(* Type correctness, one lemma per process. *)

(* Run's own goroutine preserves the types. *)
LEMMA TypeStepMain ==
    ASSUME TypeOK, MainStep \/ Recover
    PROVE  TypeOK'
<1>1. ControlType'
  <2> USE DEF TypeOK, ControlType, PCs, Statuses, Continue, Return,
          TeardownThen, Goto
  <2>1. CASE Preflight
    BY <2>1 DEF Preflight
  <2>2. CASE Reset
    BY <2>2 DEF Reset
  <2>3. CASE Classify
    BY <2>3 DEF Classify
  <2>4. CASE ApplyTopology
    BY <2>4 DEF ApplyTopology
  <2>5. CASE ArmTopology
    BY <2>5 DEF ArmTopology
  <2>6. CASE Prepare
    BY <2>6 DEF Prepare
  <2>7. CASE StartLoad
    BY <2>7 DEF StartLoad
  <2>8. CASE ScheduleFaults
    BY <2>8 DEF ScheduleFaults
  <2>9. CASE ArmExpiring
    BY <2>9 DEF ArmExpiring
  <2>10. CASE Select
    BY <2>10 DEF Select
  <2>11. CASE Drain
    BY <2>11 DEF Drain
  <2>12. CASE Evaluate
    BY <2>12 DEF Evaluate
  <2>13. CASE Finish
    BY <2>13 DEF Finish
  <2>14. CASE Recover
    BY <2>14 DEF Recover
  <2> QED
    BY <2>1, <2>2, <2>3, <2>4, <2>5, <2>6, <2>7, <2>8, <2>9, <2>10,
       <2>11, <2>12, <2>13, <2>14 DEF MainStep
<1>2. RegistryType'
  BY MainFrame, Names DEF TypeOK, RegistryType
<1>3. FaultType'
  BY MainFrame DEF TypeOK, FaultType
<1> QED
  BY <1>1, <1>2, <1>3 DEF TypeOK

(* The signal and its watcher preserve the types. *)
LEMMA TypeStepWatch ==
    ASSUME TypeOK, WatchStep \/ Signal
    PROVE  TypeOK'
<1>1. ControlType'
  <2> USE DEF TypeOK, ControlType
  <2>1. CASE Signal
    BY <2>1 DEF Signal
  <2>2. CASE WatchSignal
    BY <2>2 DEF WatchSignal
  <2>3. CASE WatchStore
    BY <2>3 DEF WatchStore
  <2>4. CASE WatchQuit
    BY <2>4 DEF WatchQuit
  <2> QED
    BY <2>1, <2>2, <2>3, <2>4 DEF WatchStep
<1>2. RegistryType'
  BY WatchFrame, Names DEF TypeOK, RegistryType
<1>3. FaultType'
  BY WatchFrame DEF TypeOK, FaultType
<1> QED
  BY <1>1, <1>2, <1>3 DEF TypeOK

(* The load generator preserves the types. *)
LEMMA TypeStepLoad ==
    ASSUME TypeOK, LoadStep
    PROVE  TypeOK'
<1> USE ConstantsAssumption DEF TypeOK, ControlType, FaultType, RegistryType
<1>1. CASE LoadMarker
  BY <1>1 DEF LoadMarker
<1>2. CASE LoadEOF
  BY <1>2 DEF LoadEOF
<1>3. CASE LoadFinish
  BY <1>3 DEF LoadFinish
<1> QED
  BY <1>1, <1>2, <1>3 DEF LoadStep

(* The scheduler preserves the types. *)
LEMMA TypeStepSched ==
    ASSUME TypeOK, SchedStep
    PROVE  TypeOK'
<1> USE ConstantsAssumption
        DEF TypeOK, ControlType, FaultType, RegistryType, ApplyAt
<1>1. CASE SchedLaunch
  BY <1>1 DEF SchedLaunch
<1>2. CASE SchedMarker
  BY <1>2 DEF SchedMarker
<1>3. CASE SchedClosed
  BY <1>3 DEF SchedClosed
<1>4. CASE SchedJoin
  BY <1>4 DEF SchedJoin
<1> QED
  BY <1>1, <1>2, <1>3, <1>4 DEF SchedStep

(* A fault's goroutine and its timer preserve the types. *)
LEMMA TypeStepFault ==
    ASSUME TypeOK, NEW f \in Faults, GoStep(f) \/ TimerStep(f)
    PROVE  TypeOK'
<1>1. ControlType'
  <2> USE DEF TypeOK, ControlType
  <2>1. CASE ApplyEffect(f)
    BY <2>1 DEF ApplyEffect
  <2>2. CASE ApplyError(f)
    BY <2>2 DEF ApplyError
  <2>3. CASE Track(f)
    BY <2>3 DEF Track
  <2>4. CASE ApplyPanic(f)
    BY <2>4 DEF ApplyPanic
  <2>5. CASE PanicDone(f)
    BY <2>5 DEF PanicDone
  <2>6. CASE TimerFire(f)
    BY <2>6 DEF TimerFire
  <2>7. CASE TimerUndo(f)
    BY <2>7 DEF TimerUndo
  <2> QED
    BY <2>1, <2>2, <2>3, <2>4, <2>5, <2>6, <2>7 DEF GoStep, TimerStep
<1>2. FaultType'
  <2> USE DEF TypeOK, FaultType, RunUndo
  <2>1. CASE ApplyEffect(f)
    BY <2>1 DEF ApplyEffect
  <2>2. CASE ApplyError(f)
    BY <2>2 DEF ApplyError, MayStray
  <2>3. CASE Track(f)
    BY <2>3 DEF Track
  <2>4. CASE ApplyPanic(f)
    BY <2>4 DEF ApplyPanic, MayStray
  <2>5. CASE PanicDone(f)
    BY <2>5 DEF PanicDone
  <2>6. CASE TimerFire(f)
    BY <2>6 DEF TimerFire
  <2>7. CASE TimerUndo(f)
    BY <2>7 DEF TimerUndo
  <2> QED
    BY <2>1, <2>2, <2>3, <2>4, <2>5, <2>6, <2>7 DEF GoStep, TimerStep
<1>3. RegistryType'
  <2> USE Names, ListOfType DEF TypeOK, RegistryType
  <2>1. CASE ApplyEffect(f)
    BY <2>1 DEF ApplyEffect
  <2>2. CASE ApplyError(f)
    BY <2>2 DEF ApplyError
  <2>3. CASE Track(f)
    BY <2>3, SMTT(30) DEF Track
  <2>4. CASE ApplyPanic(f)
    BY <2>4 DEF ApplyPanic
  <2>5. CASE PanicDone(f)
    BY <2>5 DEF PanicDone
  <2>6. CASE TimerFire(f)
    BY <2>6 DEF TimerFire
  <2>7. CASE TimerUndo(f)
    BY <2>7 DEF TimerUndo
  <2> QED
    BY <2>1, <2>2, <2>3, <2>4, <2>5, <2>6, <2>7 DEF GoStep, TimerStep
<1> QED
  BY <1>1, <1>2, <1>3 DEF TypeOK

(* The newest undo of a batch is some fault's. *)
LEMMA NewestIsFault ==
    ASSUME TypeOK, NEW a \in Actors, batch[a] # <<>>
    PROVE  Last(batch[a]) \in Faults /\ Front(batch[a]) \in Seq(Faults)
BY FrontLast DEF TypeOK, RegistryType

(* A teardown step preserves the types. *)
LEMMA TypeStepTeardown ==
    ASSUME TypeOK, NEW a \in Actors, TeardownStep(a)
    PROVE  TypeOK'
<1>1. ControlType'
  <2> USE DEF TypeOK, ControlType
  <2>1. CASE SwapOut(a)
    BY <2>1 DEF SwapOut
  <2>2. CASE SkipExpiring(a)
    BY <2>2 DEF SkipExpiring
  <2>3. CASE UndoLast(a)
    BY <2>3 DEF UndoLast
  <2>4. CASE OnceEnter(a)
    BY <2>4 DEF OnceEnter
  <2>5. CASE OnceRun(a)
    BY <2>5 DEF OnceRun
  <2>6. CASE OnceReturn(a)
    BY <2>6 DEF OnceReturn
  <2>7. CASE BatchDone(a)
    BY <2>7 DEF BatchDone
  <2>8. CASE TeardownTopology(a)
    BY <2>8 DEF TeardownTopology
  <2> QED
    BY <2>1, <2>2, <2>3, <2>4, <2>5, <2>6, <2>7, <2>8 DEF TeardownStep
<1>2. FaultType'
  <2> USE NewestIsFault DEF TypeOK, FaultType, RunUndo
  <2>1. CASE SwapOut(a)
    BY <2>1 DEF SwapOut
  <2>2. CASE SkipExpiring(a)
    BY <2>2 DEF SkipExpiring
  <2>3. CASE UndoLast(a)
    <3>1. Last(batch[a]) \in Faults
      BY <2>3 DEF UndoLast
    <3>2. runs' \in [Faults -> Nat]
      BY <2>3, <3>1 DEF UndoLast
    <3>3. eff' \in [Faults -> {"off", "stray", "live", "undone", "stuck"}]
      BY <2>3, <3>1 DEF UndoLast
    <3> QED
      BY <2>3, <3>2, <3>3 DEF UndoLast
  <2>4. CASE OnceEnter(a)
    BY <2>4 DEF OnceEnter
  <2>5. CASE OnceRun(a)
    BY <2>5 DEF OnceRun
  <2>6. CASE OnceReturn(a)
    BY <2>6 DEF OnceReturn
  <2>7. CASE BatchDone(a)
    BY <2>7 DEF BatchDone
  <2>8. CASE TeardownTopology(a)
    BY <2>8 DEF TeardownTopology
  <2> QED
    BY <2>1, <2>2, <2>3, <2>4, <2>5, <2>6, <2>7, <2>8 DEF TeardownStep
<1>3. RegistryType'
  <2>0. \A l \in Lists : AfterList(a, l) \in Lists \cup {"topo", "idle"}
    BY DEF AfterList, Lists
  <2> USE <2>0, NewestIsFault, Names DEF TypeOK, RegistryType
  <2>1. CASE SwapOut(a)
    BY <2>1 DEF SwapOut
  <2>2. CASE SkipExpiring(a)
    BY <2>2 DEF SkipExpiring
  <2>3. CASE UndoLast(a)
    BY <2>3 DEF UndoLast
  <2>4. CASE OnceEnter(a)
    BY <2>4 DEF OnceEnter
  <2>5. CASE OnceRun(a)
    BY <2>5 DEF OnceRun
  <2>6. CASE OnceReturn(a)
    BY <2>6 DEF OnceReturn
  <2>7. CASE BatchDone(a)
    BY <2>7 DEF BatchDone
  <2>8. CASE TeardownTopology(a)
    BY <2>8 DEF TeardownTopology
  <2> QED
    BY <2>1, <2>2, <2>3, <2>4, <2>5, <2>6, <2>7, <2>8 DEF TeardownStep
<1> QED
  BY <1>1, <1>2, <1>3 DEF TypeOK

(* Every step preserves the types. *)
LEMMA TypeStep ==
    ASSUME TypeOK, [Next]_vars
    PROVE  TypeOK'
<1>1. CASE Exit
  BY <1>1 DEF Exit, TypeOK, ControlType, FaultType, RegistryType, PCs
<1>2. CASE UNCHANGED vars
  BY <1>2 DEF vars, TypeOK, ControlType, FaultType, RegistryType
<1> QED
  BY <1>1, <1>2, TypeStepMain, TypeStepWatch, TypeStepLoad, TypeStepSched,
     TypeStepFault, TypeStepTeardown DEF Next, Exited

(* The initial state is well typed. *)
LEMMA TypeInit == Init => TypeOK
<1> SUFFICES ASSUME Init PROVE TypeOK
  OBVIOUS
<1>1. ControlType
  <2>1. 0 \in 0..NumPhases
    BY ConstantsAssumption
  <2> QED
    BY <2>1 DEF Init, ControlType, PCs, Statuses
<1>2. FaultType
  BY DEF Init, FaultType
<1>3. RegistryType
  BY DEF Init, RegistryType
<1> QED
  BY <1>1, <1>2, <1>3 DEF TypeOK

(* Every variable of FaultRun keeps its type, whatever the constants. *)
THEOREM TypeCorrect == Spec => []TypeOK
BY TypeInit, TypeStep, PTL DEF Spec

-----------------------------------------------------------------------------
(* The bookkeeping of a teardown. *)

(* Only an actor in its teardown has a list open. *)
LEMMA ActorStep ==
    ASSUME IInv, [Next]_vars
    PROVE  ActorInv'
<1> USE Names DEF IInv, TypeOK, RegistryType, ActorInv
<1>1. CASE MainStep \/ Recover
  <2>1. open' = open /\ batch' = batch /\ g' = g /\ watch' = watch
    BY <1>1, MainFrame DEF regVars, faultVars
  <2>2. CASE td' = td
    <3>1. pc = "teardown" => td["main"] = "idle"
      BY <1>1, MainFrame
    <3> QED
      BY <2>1, <2>2, <3>1
  <2>3. CASE td' = [td EXCEPT !["main"] = "mgr"] /\ pc' = "teardown"
    BY <2>1, <2>3
  <2> QED
    BY <1>1, <2>2, <2>3, MainFrame
<1>2. CASE WatchStep \/ Signal
  <2>1. td["watch"] # "idle" => td' = td /\ watch' = watch
    BY <1>2 DEF WatchStep, WatchSignal, WatchStore, WatchQuit, Signal
  <2> QED
    BY <1>2, <2>1, WatchFrame
<1>3. CASE LoadStep
  BY <1>3 DEF LoadStep, LoadMarker, LoadEOF, LoadFinish
<1>4. CASE SchedStep
  <2>1. \A f \in Faults : g[f] = "panic" => g'[f] = "panic"
    BY <1>4 DEF SchedStep, SchedLaunch, SchedMarker, SchedClosed, SchedJoin,
         ApplyAt, SchedInv, FaultType
  <2> QED
    BY <1>4, <2>1 DEF SchedStep, SchedLaunch, SchedMarker, SchedClosed,
         SchedJoin
<1>5. ASSUME NEW f \in Faults, GoStep(f)
      PROVE  ActorInv'
  <2> USE DEF FaultType
  <2>1. CASE ApplyEffect(f)
    BY <2>1 DEF ApplyEffect
  <2>2. CASE ApplyError(f)
    BY <2>2 DEF ApplyError
  <2>3. CASE Track(f)
    BY <2>3 DEF Track
  <2>4. CASE ApplyPanic(f)
    BY <2>4 DEF ApplyPanic
  <2>5. CASE PanicDone(f)
    BY <2>5 DEF PanicDone
  <2> QED
    BY <1>5, <2>1, <2>2, <2>3, <2>4, <2>5 DEF GoStep
<1>6. ASSUME NEW a \in Actors, TeardownStep(a)
      PROVE  ActorInv'
  <2>1. CASE SwapOut(a)
    BY <2>1 DEF SwapOut
  <2>2. CASE SkipExpiring(a)
    BY <2>2 DEF SkipExpiring
  <2>3. CASE UndoLast(a)
    BY <2>3 DEF UndoLast
  <2>4. CASE OnceEnter(a)
    BY <2>4 DEF OnceEnter
  <2>5. CASE OnceRun(a)
    BY <2>5 DEF OnceRun
  <2>6. CASE OnceReturn(a)
    BY <2>6 DEF OnceReturn
  <2>7. CASE BatchDone(a)
    <3>1. a \in Faults => AfterList(a, td[a]) # "topo"
      BY <2>7 DEF BatchDone, AfterList, Lists
    <3> QED
      BY <2>7, <3>1 DEF BatchDone
  <2>8. CASE TeardownTopology(a)
    BY <2>8 DEF TeardownTopology
  <2> QED
    BY <1>6, <2>1, <2>2, <2>3, <2>4, <2>5, <2>6, <2>7, <2>8 DEF TeardownStep
<1>7. ASSUME NEW f \in Faults, TimerStep(f)
      PROVE  ActorInv'
  BY <1>7 DEF TimerStep, TimerFire, TimerUndo
<1>8. CASE Exit
  BY <1>8 DEF Exit
<1>9. CASE UNCHANGED vars
  BY <1>9 DEF vars
<1> QED
  BY <1>1, <1>2, <1>3, <1>4, <1>5, <1>6, <1>7, <1>8, <1>9 DEF Next, Exited

(* An actor that is in no list, or has just not opened one, holds no undo. *)
LEMMA IdleHoldsNothing ==
    ASSUME IInv, NEW a \in Actors, td[a] \notin Lists \/ ~open[a]
    PROVE  batch[a] = <<>> /\ ToSet(batch[a]) = {}
BY EmptyToSet DEF IInv, ActorInv

(* An undo that is registered or being worked off belongs to a fault whose *)
(* goroutine has ended.                                                    *)
LEMMA HeldHasEnded ==
    ASSUME IInv, NEW f \in Faults, g[f] # "end"
    PROVE  /\ \A l \in Lists : f \notin ToSet(undos[l])
           /\ \A a \in Actors : f \notin ToSet(batch[a])
BY DEF IInv, RegistryInv

(* Registries and batches hold faults. *)
LEMMA ElementsAreFaults ==
    ASSUME IInv
    PROVE  /\ \A l \in Lists : ToSet(undos[l]) \subseteq Faults
           /\ \A a \in Actors : ToSet(batch[a]) \subseteq Faults
BY DEF IInv, TypeOK, RegistryType, ToSet

(* Taking the newest undo off a batch. *)
LEMMA Newest ==
    ASSUME IInv, NEW a \in Actors, batch[a] # <<>>
    PROVE  /\ Last(batch[a]) \in Faults
           /\ ToSet(batch[a]) = ToSet(Front(batch[a])) \cup {Last(batch[a])}
           /\ Last(batch[a]) \notin ToSet(Front(batch[a]))
           /\ IsInjective(Front(batch[a]))
<1>1. batch[a] \in Seq(Faults) /\ IsInjective(batch[a])
  BY DEF IInv, TypeOK, RegistryType, RegistryInv
<1>2. /\ Last(batch[a]) \in Faults
      /\ ToSet(batch[a]) = ToSet(Front(batch[a])) \cup {Last(batch[a])}
  BY <1>1, FrontLast
<1>3. Last(batch[a]) \notin ToSet(Front(batch[a])) /\ IsInjective(Front(batch[a]))
  BY <1>1, FrontInjective
<1> QED
  BY <1>2, <1>3

(* The scheduler only starts goroutines that did not exist yet. *)
LEMMA SchedLeavesEnded ==
    ASSUME IInv, SchedStep
    PROVE  /\ UNCHANGED schedFrame
           /\ g' \in [Faults -> {"none", "sleep", "applied", "panic", "end"}]
           /\ \A f \in Faults : g'[f] = g[f] \/ (g[f] = "none" /\ g'[f] = "sleep")
BY DEF IInv, TypeOK, FaultType, SchedInv, SchedStep, SchedLaunch, SchedMarker,
       SchedClosed, SchedJoin, ApplyAt

(* An undo stays in one place at most, in a list of its kind. *)
LEMMA RegistryStep ==
    ASSUME IInv, [Next]_vars
    PROVE  RegistryInv'
<1> USE Names DEF IInv, TypeOK, RegistryType, RegistryInv
<1>1. CASE MainStep \/ Recover
  <2>1. td' = td \/ ToSet(batch["main"]) = {}
    BY <1>1, MainFrame, IdleHoldsNothing DEF ActorInv
  <2> QED
    BY <1>1, <2>1, MainFrame
<1>2. CASE WatchStep \/ Signal
  <2>1. td' = td \/ ToSet(batch["watch"]) = {}
    BY <1>2, WatchFrame, IdleHoldsNothing DEF ActorInv
  <2> QED
    BY <1>2, <2>1, WatchFrame
<1>3. CASE LoadStep
  BY <1>3 DEF LoadStep, LoadMarker, LoadEOF, LoadFinish
<1>4. CASE SchedStep
  <2>1. \A f \in Faults : g[f] = "end" => g'[f] = "end"
    BY <1>4, SchedLeavesEnded
  <2> QED
    BY <1>4, <2>1, SchedLeavesEnded, ElementsAreFaults
<1>5. ASSUME NEW f \in Faults, GoStep(f)
      PROVE  RegistryInv'
  <2> USE DEF FaultType
  <2>1. CASE ApplyEffect(f)
    BY <2>1, HeldHasEnded DEF ApplyEffect
  <2>2. CASE ApplyError(f)
    BY <2>2, HeldHasEnded, SMTT(30) DEF ApplyError
  <2>3. CASE Track(f)
    <3> DEFINE l == ListOf(f)
    <3>1. l \in Lists /\ undos[l] \in Seq(Faults)
      BY ListOfType
    <3>2. /\ ToSet(undos'[l]) = ToSet(undos[l]) \cup {f}
          /\ IsInjective(undos'[l])
          /\ \A m \in Lists \ {l} : undos'[m] = undos[m]
      <4>1. f \notin ToSet(undos[l]) /\ IsInjective(undos[l])
        BY <2>3, <3>1, HeldHasEnded DEF Track
      <4> QED
        BY <2>3, <3>1, <4>1, AppendElements DEF Track
    <3>3. /\ batch' = batch /\ td' = td
          /\ g'[f] = "end" /\ \A x \in Faults \ {f} : g'[x] = g[x]
      BY <2>3 DEF Track
    <3>4. \A a \in Actors : f \notin ToSet(batch[a])
      BY <2>3, HeldHasEnded DEF Track
    <3> HIDE DEF l
    <3>5. ASSUME NEW m \in Lists
          PROVE  /\ IsInjective(undos'[m])
                 /\ \A x \in ToSet(undos'[m]) : ListOf(x) = m /\ g'[x] = "end"
      <4>1. CASE m = l
        <5>1. ListOf(f) = m /\ ToSet(undos'[m]) = ToSet(undos[m]) \cup {f}
              /\ IsInjective(undos'[m])
          BY <4>1, <3>2 DEF l
        <5>2. \A x \in ToSet(undos[m]) : x \in Faults /\ ListOf(x) = m /\ g[x] = "end"
          BY <4>1, <3>1, ElementsAreFaults
        <5> QED
          BY <5>1, <5>2, <3>3, Zenon
      <4>2. CASE m # l
        BY <4>2, <3>1, <3>2, <3>3, ElementsAreFaults DEF l
      <4> QED
        BY <4>1, <4>2
    <3>6. \A a \in Actors :
            /\ IsInjective(batch'[a])
            /\ \A x \in ToSet(batch'[a]) :
                 /\ ListOf(x) = td'[a] /\ g'[x] = "end"
                 /\ x \notin ToSet(undos'[td'[a]])
      <4> SUFFICES ASSUME NEW a \in Actors, NEW x \in ToSet(batch[a])
                   PROVE  /\ ListOf(x) = td[a] /\ g'[x] = "end"
                          /\ x \notin ToSet(undos'[td[a]])
        BY <3>3
      <4>1. /\ x \in Faults \ {f} /\ ListOf(x) = td[a] /\ g[x] = "end"
            /\ x \notin ToSet(undos[td[a]])
        BY <3>4, ElementsAreFaults
      <4>2. td[a] \in Lists
        BY <4>1, ListOfType
      <4> QED
        BY <4>1, <4>2, <3>2, <3>3
    <3> QED
      BY <3>3, <3>5, <3>6
  <2>4. CASE ApplyPanic(f)
    <3>1. td[f] = "idle"
      BY <2>4 DEF ApplyPanic, ActorInv
    <3>2. ToSet(batch[f]) = {}
      BY <3>1, IdleHoldsNothing
    <3>3. /\ undos' = undos /\ batch' = batch
          /\ \A x \in Faults \ {f} : g'[x] = g[x]
          /\ \A a \in Actors \ {f} : td'[a] = td[a]
      BY <2>4 DEF ApplyPanic
    <3>4. /\ \A l \in Lists : f \notin ToSet(undos[l])
          /\ \A a \in Actors : f \notin ToSet(batch[a])
      BY <2>4, HeldHasEnded DEF ApplyPanic
    <3> HIDE DEF IInv, TypeOK, RegistryType, FaultType, RegistryInv
    <3>5. \A l \in Lists : \A x \in ToSet(undos[l]) : x \in Faults \ {f}
      BY <3>4, ElementsAreFaults
    <3>6. \A a \in Actors : \A x \in ToSet(batch[a]) :
            a # f /\ x \in Faults \ {f}
      BY <3>2, <3>4, ElementsAreFaults
    <3> QED
      BY <3>3, <3>5, <3>6 DEF IInv, RegistryInv
  <2>5. CASE PanicDone(f)
    BY <2>5, HeldHasEnded DEF PanicDone
  <2> QED
    BY <1>5, <2>1, <2>2, <2>3, <2>4, <2>5 DEF GoStep
<1>6. ASSUME NEW a \in Actors, TeardownStep(a)
      PROVE  RegistryInv'
  <2>1. CASE SwapOut(a)
    BY <2>1, EmptyToSet, EmptyInjective, SMTT(30) DEF SwapOut
  <2>2. CASE SkipExpiring(a)
    BY <2>2, IdleHoldsNothing DEF SkipExpiring
  <2>3. CASE UndoLast(a)
    <3>1. /\ ToSet(Front(batch[a])) \subseteq ToSet(batch[a])
          /\ IsInjective(Front(batch[a]))
      BY <2>3, Newest DEF UndoLast
    <3> QED
      BY <2>3, <3>1 DEF UndoLast
  <2>4. CASE OnceEnter(a)
    BY <2>4 DEF OnceEnter
  <2>5. CASE OnceRun(a)
    BY <2>5 DEF OnceRun
  <2>6. CASE OnceReturn(a)
    <3>1. /\ ToSet(Front(batch[a])) \subseteq ToSet(batch[a])
          /\ IsInjective(Front(batch[a]))
      BY <2>6, Newest DEF OnceReturn
    <3> QED
      BY <2>6, <3>1 DEF OnceReturn
  <2>7. CASE BatchDone(a)
    BY <2>7, EmptyToSet DEF BatchDone
  <2>8. CASE TeardownTopology(a)
    BY <2>8, IdleHoldsNothing DEF TeardownTopology
  <2> QED
    BY <1>6, <2>1, <2>2, <2>3, <2>4, <2>5, <2>6, <2>7, <2>8 DEF TeardownStep
<1>7. ASSUME NEW f \in Faults, TimerStep(f)
      PROVE  RegistryInv'
  BY <1>7 DEF TimerStep, TimerFire, TimerUndo
<1>8. CASE Exit
  BY <1>8 DEF Exit
<1>9. CASE UNCHANGED vars
  BY <1>9 DEF vars
<1> QED
  BY <1>1, <1>2, <1>3, <1>4, <1>5, <1>6, <1>7, <1>8, <1>9 DEF Next, Exited

-----------------------------------------------------------------------------
(* The life of one fault. *)

(* The newest undo of a batch is one of its faults. *)
LEMMA NewestIsHeld ==
    ASSUME IInv, NEW a \in Actors, batch[a] # <<>>
    PROVE  Last(batch[a]) \in Faults /\ Last(batch[a]) \in ToSet(batch[a])
BY Newest

(* Entering the sync.Once of one fault that is still in force. *)
LEMMA OnceEnterOne ==
    ASSUME FaultType, EffectInv, NEW f \in Faults, NEW a \in Actors,
           ListOf(f) = "exp", g[f] = "end", eff[f] = "live",
           once' = [once EXCEPT ![f] = a], UNCHANGED <<g, eff, runs, timer>>
    PROVE  EffectInv'
<1> SUFFICES ASSUME NEW x \in Faults
             PROVE  EffectInv!(x)'
  BY DEF EffectInv
<1>1. CASE x = f
  <2>1. once'[x] = a /\ a # "done"
    BY <1>1, Names DEF FaultType
  <2> QED
    BY <1>1, <2>1 DEF EffectInv
<1>2. CASE x # f
  <2>1. once'[x] = once[x]
    BY <1>2 DEF FaultType
  <2> QED
    BY <2>1 DEF EffectInv
<1> QED
  BY <1>1, <1>2

(* A fault is applied and undone at most once, in that order. *)
LEMMA EffectStep ==
    ASSUME IInv, [Next]_vars
    PROVE  EffectInv'
<1> USE DEF IInv, TypeOK, FaultType, EffectInv
<1>1. CASE MainStep \/ Recover
  BY <1>1, MainFrame
<1>2. CASE WatchStep \/ Signal
  BY <1>2, WatchFrame
<1>3. CASE LoadStep
  BY <1>3 DEF LoadStep, LoadMarker, LoadEOF, LoadFinish
<1>4. CASE SchedStep
  BY <1>4, SchedLeavesEnded
<1>5. ASSUME NEW f \in Faults, GoStep(f)
      PROVE  EffectInv'
  <2>1. CASE ApplyEffect(f)
    BY <2>1 DEF ApplyEffect
  <2>2. CASE ApplyError(f)
    BY <2>2 DEF ApplyError, MayStray
  <2>3. CASE Track(f)
    <3>1. Kind[f] = "expiring" => ListOf(f) = "exp"
      BY DEF ListOf
    <3> QED
      BY <2>3, <3>1 DEF Track
  <2>4. CASE ApplyPanic(f)
    BY <2>4 DEF ApplyPanic, MayStray
  <2>5. CASE PanicDone(f)
    BY <2>5 DEF PanicDone
  <2> QED
    BY <1>5, <2>1, <2>2, <2>3, <2>4, <2>5 DEF GoStep
<1>6. ASSUME NEW a \in Actors, TeardownStep(a)
      PROVE  EffectInv'
  <2>1. CASE SwapOut(a)
    BY <2>1 DEF SwapOut
  <2>2. CASE SkipExpiring(a)
    BY <2>2 DEF SkipExpiring
  <2>3. CASE UndoLast(a)
    <3> DEFINE f == Last(batch[a])
    <3>1. f \in Faults /\ f \in ToSet(batch[a])
      BY <2>3, Newest DEF UndoLast
    <3>2. ListOf(f) # "exp" /\ g[f] = "end" /\ eff[f] = "live"
      BY <2>3, <3>1 DEF UndoLast, RegistryInv, PendingInv
    <3> HIDE DEF f
    <3>3. /\ runs' = [runs EXCEPT ![f] = @ + 1]
          /\ \/ eff' = [eff EXCEPT ![f] = "undone"]
             \/ eff' = [eff EXCEPT ![f] = "stuck"]
          /\ UNCHANGED <<g, once, timer>>
      BY <2>3 DEF UndoLast, RunUndo, f
    <3> QED
      BY <3>1, <3>2, <3>3
  <2>4. CASE OnceEnter(a)
    <3> DEFINE f == Last(batch[a])
    <3>1. f \in Faults /\ f \in ToSet(batch[a])
      BY <2>4, Newest DEF OnceEnter
    <3>2. ListOf(f) = "exp" /\ g[f] = "end" /\ eff[f] = "live"
      BY <2>4, <3>1 DEF OnceEnter, RegistryInv, PendingInv
    <3> HIDE DEF f
    <3>3. once' = [once EXCEPT ![f] = a] /\ UNCHANGED <<g, eff, runs, timer>>
      BY <2>4 DEF OnceEnter, f
    <3>4. FaultType /\ EffectInv
      OBVIOUS
    <3> HIDE DEF IInv, TypeOK, FaultType, EffectInv
    <3> QED
      BY <3>1, <3>2, <3>3, <3>4, OnceEnterOne
  <2>5. CASE OnceRun(a)
    <3> DEFINE f == Last(batch[a])
    <3>1. f \in Faults /\ f \in ToSet(batch[a])
      <4>1. batch[a] # <<>>
        BY <2>5 DEF OnceRun
      <4> HIDE DEF IInv
      <4> QED
        BY <4>1, NewestIsHeld
    <3>2. ListOf(f) = "exp" /\ g[f] = "end" /\ eff[f] = "live"
      BY <2>5, <3>1, Names DEF OnceRun, RegistryInv, PendingInv
    <3> HIDE DEF f
    <3>3. /\ runs' = [runs EXCEPT ![f] = @ + 1]
          /\ \/ eff' = [eff EXCEPT ![f] = "undone"]
             \/ eff' = [eff EXCEPT ![f] = "stuck"]
          /\ once' = [once EXCEPT ![f] = "done"]
          /\ UNCHANGED <<g, timer>>
      BY <2>5 DEF OnceRun, RunUndo, f
    <3> QED
      BY <3>1, <3>2, <3>3
  <2>6. CASE OnceReturn(a)
    BY <2>6 DEF OnceReturn
  <2>7. CASE BatchDone(a)
    BY <2>7 DEF BatchDone
  <2>8. CASE TeardownTopology(a)
    BY <2>8 DEF TeardownTopology
  <2> QED
    BY <1>6, <2>1, <2>2, <2>3, <2>4, <2>5, <2>6, <2>7, <2>8 DEF TeardownStep
<1>7. ASSUME NEW f \in Faults, TimerStep(f)
      PROVE  EffectInv'
  <2>1. CASE TimerFire(f)
    BY <2>1 DEF TimerFire
  <2>2. CASE TimerUndo(f)
    <3>1. ListOf(f) = "exp" /\ g[f] = "end" /\ eff[f] = "live"
      BY <2>2 DEF TimerUndo
    <3> QED
      BY <2>2, <3>1 DEF TimerUndo, RunUndo
  <2> QED
    BY <1>7, <2>1, <2>2 DEF TimerStep
<1>8. CASE Exit
  BY <1>8 DEF Exit
<1>9. CASE UNCHANGED vars
  BY <1>9 DEF vars
<1> QED
  BY <1>1, <1>2, <1>3, <1>4, <1>5, <1>6, <1>7, <1>8, <1>9 DEF Next, Exited

(* Running an undo concerns one fault. *)
LEMMA RunUndoOne ==
    ASSUME FaultType, NEW f \in Faults, RunUndo(f)
    PROVE  /\ \A x \in Faults \ {f} : eff'[x] = eff[x]
           /\ eff'[f] \in {"undone", "stuck"}
BY DEF FaultType, RunUndo

(* An undo that is still listed has not run, unless its sync.Once is done. *)
LEMMA PendingStep ==
    ASSUME IInv, [Next]_vars
    PROVE  PendingInv'
<1> USE DEF IInv, TypeOK, PendingInv
<1>1. CASE MainStep \/ Recover
  <2>1. td' = td \/ ToSet(batch["main"]) = {}
    BY <1>1, MainFrame, IdleHoldsNothing, Names DEF ActorInv
  <2>2. ASSUME NEW a \in Actors, NEW x \in ToSet(batch[a])
        PROVE  td'[a] = td[a]
    <3>1. td \in [Actors -> Lists \cup {"topo", "idle"}]
      BY DEF RegistryType
    <3>2. td' = td \/ td' = [td EXCEPT !["main"] = "mgr"]
      BY <1>1, MainFrame
    <3>3. CASE a = "main"
      BY <2>1, <3>3
    <3>4. CASE a # "main"
      BY <3>1, <3>2, <3>4
    <3> QED
      BY <3>3, <3>4
  <2>3. UNCHANGED <<undos, batch, eff, once>>
    BY <1>1, MainFrame
  <2> QED
    BY <2>2, <2>3
<1>2. CASE WatchStep \/ Signal
  <2>1. td' = td \/ ToSet(batch["watch"]) = {}
    BY <1>2, WatchFrame, IdleHoldsNothing, Names DEF ActorInv
  <2>2. ASSUME NEW a \in Actors, NEW x \in ToSet(batch[a])
        PROVE  td'[a] = td[a]
    <3>1. td \in [Actors -> Lists \cup {"topo", "idle"}]
      BY DEF RegistryType
    <3>2. td' = td \/ td' = [td EXCEPT !["watch"] = "mgr"]
      BY <1>2, WatchFrame
    <3>3. CASE a = "watch"
      BY <2>1, <3>3
    <3>4. CASE a # "watch"
      BY <3>1, <3>2, <3>4
    <3> QED
      BY <3>3, <3>4
  <2>3. UNCHANGED <<undos, batch, eff, once>>
    BY <1>2, WatchFrame
  <2> QED
    BY <2>2, <2>3
<1>3. CASE LoadStep
  BY <1>3 DEF LoadStep, LoadMarker, LoadEOF, LoadFinish
<1>4. CASE SchedStep
  BY <1>4, SchedLeavesEnded
<1>5. ASSUME NEW f \in Faults, GoStep(f)
      PROVE  PendingInv'
  <2>1. CASE ApplyEffect(f)
    <3>1. /\ \A l \in Lists : f \notin ToSet(undos[l])
          /\ \A a \in Actors : f \notin ToSet(batch[a])
      BY <2>1, HeldHasEnded DEF ApplyEffect
    <3>2. /\ \A x \in Faults \ {f} : eff'[x] = eff[x]
          /\ UNCHANGED <<undos, batch, td, once>>
      BY <2>1 DEF ApplyEffect, FaultType
    <3>3. PendingInv
      OBVIOUS
    <3> HIDE DEF IInv, TypeOK
    <3>4. \A l \in Lists : \A x \in ToSet(undos'[l]) :
            eff'[x] = "live" \/ (l = "exp" /\ once'[x] = "done")
      BY <3>1, <3>2, <3>3, ElementsAreFaults
    <3>5. \A b \in Actors : \A x \in ToSet(batch'[b]) :
            eff'[x] = "live" \/ (td'[b] = "exp" /\ once'[x] = "done")
      BY <3>1, <3>2, <3>3, ElementsAreFaults
    <3> QED
      BY <3>4, <3>5
  <2>2. CASE ApplyError(f)
    <3>1. /\ \A l \in Lists : f \notin ToSet(undos[l])
          /\ \A b \in Actors : f \notin ToSet(batch[b])
      BY <2>2, HeldHasEnded DEF ApplyError
    <3>2. /\ \A x \in Faults \ {f} : eff'[x] = eff[x]
          /\ UNCHANGED <<undos, batch, td, once>>
      BY <2>2 DEF ApplyError, MayStray, FaultType
    <3>3. PendingInv
      OBVIOUS
    <3> HIDE DEF IInv, TypeOK
    <3> QED
      BY <3>1, <3>2, <3>3, ElementsAreFaults
  <2>3. CASE Track(f)
    <3>1. eff[f] = "live" /\ UNCHANGED <<eff, once, batch, td>>
      BY <2>3 DEF Track, EffectInv
    <3>2. \A l \in Lists : ToSet(undos'[l]) \subseteq ToSet(undos[l]) \cup {f}
      <4>1. ListOf(f) \in Lists
        BY ListOfType
      <4> QED
        BY <2>3, <4>1, AppendElements DEF Track, RegistryType
    <3> QED
      BY <3>1, <3>2
  <2>4. CASE ApplyPanic(f)
    <3>1. td[f] = "idle"
      BY <2>4, Names DEF ApplyPanic, ActorInv
    <3>2. ToSet(batch[f]) = {}
      BY <3>1, IdleHoldsNothing, Names
    <3>3. /\ td \in [Actors -> Lists \cup {"topo", "idle"}]
          /\ td' = [td EXCEPT ![f] = "mgr"]
          /\ UNCHANGED <<undos, batch, once>>
          /\ \A x \in Faults \ {f} : eff'[x] = eff[x]
      BY <2>4 DEF ApplyPanic, MayStray, RegistryType, FaultType
    <3>5. /\ \A l \in Lists : f \notin ToSet(undos[l])
          /\ \A b \in Actors : f \notin ToSet(batch[b])
      BY <2>4, HeldHasEnded DEF ApplyPanic
    <3>4. \A a \in Actors : \A x \in ToSet(batch[a]) : td'[a] = td[a]
      <4> SUFFICES ASSUME NEW a \in Actors, NEW x \in ToSet(batch[a])
                   PROVE  td'[a] = td[a]
        OBVIOUS
      <4>1. a # f
        BY <3>2
      <4> QED
        BY <3>3, <4>1
    <3>6. PendingInv
      OBVIOUS
    <3> HIDE DEF IInv, TypeOK
    <3> QED
      BY <3>3, <3>4, <3>5, <3>6, ElementsAreFaults
  <2>5. CASE PanicDone(f)
    BY <2>5 DEF PanicDone
  <2> QED
    BY <1>5, <2>1, <2>2, <2>3, <2>4, <2>5 DEF GoStep
<1>6. ASSUME NEW a \in Actors, TeardownStep(a)
      PROVE  PendingInv'
  <2> USE DEF RegistryType
  <2>1. CASE SwapOut(a)
    BY <2>1, EmptyToSet DEF SwapOut
  <2>2. CASE SkipExpiring(a)
    BY <2>2, IdleHoldsNothing DEF SkipExpiring
  <2>3. CASE UndoLast(a)
    <3> DEFINE f == Last(batch[a])
    <3>1. /\ f \in Faults /\ f \in ToSet(batch[a])
          /\ ToSet(batch'[a]) = ToSet(batch[a]) \ {f}
      BY <2>3, Newest DEF UndoLast
    <3>2. /\ \A x \in Faults \ {f} : eff'[x] = eff[x]
          /\ UNCHANGED <<undos, td, once>>
          /\ \A b \in Actors \ {a} : batch'[b] = batch[b]
      BY <2>3, <3>1, RunUndoOne DEF UndoLast
    <3>3. /\ \A l \in Lists : f \notin ToSet(undos[l])
          /\ \A b \in Actors \ {a} : f \notin ToSet(batch[b])
      BY <3>1 DEF RegistryInv
    <3>4. PendingInv
      OBVIOUS
    <3> HIDE DEF f, IInv, TypeOK, RegistryType
    <3>5. \A l \in Lists : \A x \in ToSet(undos'[l]) :
            eff'[x] = "live" \/ (l = "exp" /\ once'[x] = "done")
      BY <3>1, <3>2, <3>3, <3>4, ElementsAreFaults
    <3>6. \A b \in Actors : \A x \in ToSet(batch'[b]) :
            eff'[x] = "live" \/ (td'[b] = "exp" /\ once'[x] = "done")
      BY <3>1, <3>2, <3>3, <3>4, ElementsAreFaults
    <3> QED
      BY <3>5, <3>6
  <2>4. CASE OnceEnter(a)
    BY <2>4, Newest DEF OnceEnter, FaultType
  <2>5. CASE OnceRun(a)
    <3> DEFINE f == Last(batch[a])
    <3>1. f \in Faults /\ f \in ToSet(batch[a]) /\ ListOf(f) = "exp"
      BY <2>5, Newest DEF OnceRun, RegistryInv
    <3>2. /\ \A x \in Faults \ {f} : eff'[x] = eff[x] /\ once'[x] = once[x]
          /\ once'[f] = "done"
          /\ UNCHANGED <<undos, td, batch>>
      BY <2>5, <3>1, RunUndoOne DEF OnceRun, FaultType
    <3>3. /\ \A l \in Lists : f \in ToSet(undos[l]) => l = "exp"
          /\ \A b \in Actors : f \in ToSet(batch[b]) => td[b] = "exp"
      BY <3>1 DEF RegistryInv
    <3>4. PendingInv
      OBVIOUS
    <3> HIDE DEF f, IInv, TypeOK, RegistryType
    <3>5. \A l \in Lists : \A x \in ToSet(undos'[l]) :
            eff'[x] = "live" \/ (l = "exp" /\ once'[x] = "done")
      BY <3>1, <3>2, <3>3, <3>4, ElementsAreFaults
    <3>6. \A b \in Actors : \A x \in ToSet(batch'[b]) :
            eff'[x] = "live" \/ (td'[b] = "exp" /\ once'[x] = "done")
      BY <3>1, <3>2, <3>3, <3>4, ElementsAreFaults
    <3> QED
      BY <3>5, <3>6
  <2>6. CASE OnceReturn(a)
    BY <2>6, Newest DEF OnceReturn
  <2>7. CASE BatchDone(a)
    BY <2>7, EmptyToSet DEF BatchDone
  <2>8. CASE TeardownTopology(a)
    BY <2>8, IdleHoldsNothing, Names DEF TeardownTopology
  <2> QED
    BY <1>6, <2>1, <2>2, <2>3, <2>4, <2>5, <2>6, <2>7, <2>8 DEF TeardownStep
<1>7. ASSUME NEW f \in Faults, TimerStep(f)
      PROVE  PendingInv'
  <2>1. CASE TimerFire(f)
    BY <2>1 DEF TimerFire, FaultType
  <2>2. CASE TimerUndo(f)
    <3>1. ListOf(f) = "exp"
      BY <2>2 DEF TimerUndo, EffectInv
    <3>2. /\ \A x \in Faults \ {f} : eff'[x] = eff[x] /\ once'[x] = once[x]
          /\ once'[f] = "done"
          /\ UNCHANGED <<undos, td, batch>>
      BY <2>2, RunUndoOne DEF TimerUndo, FaultType
    <3>3. /\ \A l \in Lists : f \in ToSet(undos[l]) => l = "exp"
          /\ \A b \in Actors : f \in ToSet(batch[b]) => td[b] = "exp"
      BY <3>1 DEF RegistryInv
    <3> QED
      BY <3>2, <3>3, ElementsAreFaults
  <2> QED
    BY <1>7, <2>1, <2>2 DEF TimerStep
<1>8. CASE Exit
  BY <1>8 DEF Exit
<1>9. CASE UNCHANGED vars
  BY <1>9 DEF vars
<1> QED
  BY <1>1, <1>2, <1>3, <1>4, <1>5, <1>6, <1>7, <1>8, <1>9 DEF Next, Exited

(* Every live fault keeps an owner. *)
LEMMA OwnedStep ==
    ASSUME IInv, [Next]_vars
    PROVE  LiveFaultIsOwned'
<1> USE DEF IInv, TypeOK, LiveFaultIsOwned
<1>1. CASE MainStep \/ Recover
  BY <1>1, MainFrame
<1>2. CASE WatchStep \/ Signal
  BY <1>2, WatchFrame
<1>3. CASE LoadStep
  BY <1>3 DEF LoadStep, LoadMarker, LoadEOF, LoadFinish
<1>4. CASE SchedStep
  BY <1>4, SchedLeavesEnded
<1>5. ASSUME NEW f \in Faults, GoStep(f)
      PROVE  LiveFaultIsOwned'
  <2> USE DEF FaultType
  <2>1. CASE ApplyEffect(f)
    BY <2>1 DEF ApplyEffect
  <2>2. CASE ApplyError(f)
    BY <2>2 DEF ApplyError, MayStray
  <2>3. CASE Track(f)
    <3>1. ListOf(f) \in Lists
      BY ListOfType
    <3>2. /\ f \in ToSet(undos'[ListOf(f)])
          /\ \A l \in Lists : ToSet(undos[l]) \subseteq ToSet(undos'[l])
      BY <2>3, <3>1, AppendElements DEF Track, RegistryType
    <3> QED
      BY <2>3, <3>2, ListOfType DEF Track
  <2>4. CASE ApplyPanic(f)
    BY <2>4 DEF ApplyPanic, MayStray
  <2>5. CASE PanicDone(f)
    BY <2>5 DEF PanicDone
  <2> QED
    BY <1>5, <2>1, <2>2, <2>3, <2>4, <2>5 DEF GoStep
<1>6. ASSUME NEW a \in Actors, TeardownStep(a)
      PROVE  LiveFaultIsOwned'
  <2> USE DEF RegistryType
  <2>1. CASE SwapOut(a)
    <3>1. batch[a] = <<>> /\ ToSet(batch[a]) = {}
      BY <2>1, IdleHoldsNothing DEF SwapOut
    <3> QED
      BY <2>1, <3>1, ListOfType DEF SwapOut
  <2>2. CASE SkipExpiring(a)
    BY <2>2 DEF SkipExpiring
  <2>3. CASE UndoLast(a)
    <3> DEFINE f == Last(batch[a])
    <3>1. f \in Faults /\ ToSet(batch'[a]) = ToSet(batch[a]) \ {f}
      BY <2>3, Newest DEF UndoLast
    <3>2. /\ \A x \in Faults \ {f} : eff'[x] = eff[x]
          /\ eff'[f] # "live"
          /\ UNCHANGED <<undos, g>>
          /\ \A b \in Actors \ {a} : batch'[b] = batch[b]
      BY <2>3, <3>1, RunUndoOne DEF UndoLast
    <3> HIDE DEF f
    <3> QED
      BY <3>1, <3>2
  <2>4. CASE OnceEnter(a)
    BY <2>4 DEF OnceEnter
  <2>5. CASE OnceRun(a)
    <3> DEFINE f == Last(batch[a])
    <3>1. f \in Faults
      BY <2>5, Newest DEF OnceRun
    <3>2. /\ \A x \in Faults \ {f} : eff'[x] = eff[x]
          /\ eff'[f] # "live"
          /\ UNCHANGED <<undos, g, batch>>
      BY <2>5, <3>1, RunUndoOne DEF OnceRun
    <3> HIDE DEF f
    <3> QED
      BY <3>1, <3>2
  <2>6. CASE OnceReturn(a)
    <3> DEFINE f == Last(batch[a])
    <3>1. f \in Faults /\ ToSet(batch'[a]) = ToSet(batch[a]) \ {f}
      BY <2>6, Newest DEF OnceReturn
    <3>2. eff[f] # "live"
      BY <2>6, <3>1 DEF OnceReturn, EffectInv
    <3>3. UNCHANGED <<eff, undos, g>> /\ \A b \in Actors \ {a} : batch'[b] = batch[b]
      BY <2>6 DEF OnceReturn
    <3> HIDE DEF f
    <3> QED
      BY <3>1, <3>2, <3>3
  <2>7. CASE BatchDone(a)
    BY <2>7 DEF BatchDone
  <2>8. CASE TeardownTopology(a)
    BY <2>8 DEF TeardownTopology
  <2> QED
    BY <1>6, <2>1, <2>2, <2>3, <2>4, <2>5, <2>6, <2>7, <2>8 DEF TeardownStep
<1>7. ASSUME NEW f \in Faults, TimerStep(f)
      PROVE  LiveFaultIsOwned'
  <2>1. CASE TimerFire(f)
    BY <2>1 DEF TimerFire
  <2>2. CASE TimerUndo(f)
    BY <2>2, RunUndoOne DEF TimerUndo
  <2> QED
    BY <1>7, <2>1, <2>2 DEF TimerStep
<1>8. CASE Exit
  BY <1>8 DEF Exit
<1>9. CASE UNCHANGED vars
  BY <1>9 DEF vars
<1> QED
  BY <1>1, <1>2, <1>3, <1>4, <1>5, <1>6, <1>7, <1>8, <1>9 DEF Next, Exited

-----------------------------------------------------------------------------
(* The scheduler, the verdict and the abort flag. *)

(* Run's own goroutine touches the scheduler only by starting it. *)
LEMMA MainSched ==
    ASSUME MainStep \/ Recover
    PROVE  \/ sched' = sched /\ (pc' \in Early => pc \in Early)
           \/ pc = "schedule" /\ sched' = "launch" /\ pc' \notin Early
<1> USE DEF Early, Continue, Return, TeardownThen, Goto
<1>1. CASE Preflight
  BY <1>1 DEF Preflight
<1>2. CASE Reset
  BY <1>2 DEF Reset
<1>3. CASE Classify
  BY <1>3 DEF Classify
<1>4. CASE ApplyTopology
  BY <1>4 DEF ApplyTopology
<1>5. CASE ArmTopology
  BY <1>5 DEF ArmTopology
<1>6. CASE Prepare
  BY <1>6 DEF Prepare
<1>7. CASE StartLoad
  BY <1>7 DEF StartLoad
<1>8. CASE ScheduleFaults
  BY <1>8 DEF ScheduleFaults
<1>9. CASE ArmExpiring
  BY <1>9 DEF ArmExpiring
<1>10. CASE Select
  BY <1>10 DEF Select
<1>11. CASE Drain
  BY <1>11 DEF Drain
<1>12. CASE Evaluate
  BY <1>12 DEF Evaluate
<1>13. CASE Finish
  BY <1>13 DEF Finish
<1>14. CASE Recover
  BY <1>14 DEF Recover
<1> QED
  BY <1>1, <1>2, <1>3, <1>4, <1>5, <1>6, <1>7, <1>8, <1>9, <1>10,
     <1>11, <1>12, <1>13, <1>14 DEF MainStep

(* The steps of fault goroutines, timers and teardowns leave the control   *)
(* state of Run, of the scheduler and of the load alone.                   *)
LEMMA FaultFrame ==
    ASSUME NEW f, GoStep(f) \/ TimerStep(f)
    PROVE  UNCHANGED <<mainVars, sigVars, loadVars, schedVars, topoVars>>
<1>1. CASE ApplyEffect(f)
  BY <1>1 DEF ApplyEffect
<1>2. CASE ApplyError(f)
  BY <1>2 DEF ApplyError
<1>3. CASE Track(f)
  BY <1>3 DEF Track
<1>4. CASE ApplyPanic(f)
  BY <1>4 DEF ApplyPanic
<1>5. CASE PanicDone(f)
  BY <1>5 DEF PanicDone
<1>6. CASE TimerFire(f)
  BY <1>6 DEF TimerFire
<1>7. CASE TimerUndo(f)
  BY <1>7 DEF TimerUndo
<1> QED
  BY <1>1, <1>2, <1>3, <1>4, <1>5, <1>6, <1>7 DEF GoStep, TimerStep

(* What a teardown step leaves alone. *)
LEMMA TeardownFrame ==
    ASSUME NEW a, TeardownStep(a)
    PROVE  UNCHANGED <<mainVars, sigVars, loadVars, schedVars, faultVars, armed>>
<1>1. CASE SwapOut(a)
  BY <1>1 DEF SwapOut
<1>2. CASE SkipExpiring(a)
  BY <1>2 DEF SkipExpiring
<1>3. CASE UndoLast(a)
  BY <1>3 DEF UndoLast
<1>4. CASE OnceEnter(a)
  BY <1>4 DEF OnceEnter
<1>5. CASE OnceRun(a)
  BY <1>5 DEF OnceRun
<1>6. CASE OnceReturn(a)
  BY <1>6 DEF OnceReturn
<1>7. CASE BatchDone(a)
  BY <1>7 DEF BatchDone
<1>8. CASE TeardownTopology(a)
  BY <1>8 DEF TeardownTopology
<1> QED
  BY <1>1, <1>2, <1>3, <1>4, <1>5, <1>6, <1>7, <1>8 DEF TeardownStep

(* No declared fault gets lost between the scheduler and its error list. *)
LEMMA SchedStepInv ==
    ASSUME IInv, [Next]_vars
    PROVE  SchedInv'
<1> USE DEF IInv, TypeOK, FaultType, SchedInv
<1>1. CASE MainStep \/ Recover
  <2>1. pc = "schedule" => sched = "off"
    BY DEF Early
  <2> QED
    BY <1>1, <2>1, MainFrame, MainSched
<1>2. CASE WatchStep \/ Signal
  BY <1>2, WatchFrame
<1>3. CASE LoadStep
  BY <1>3 DEF LoadStep, LoadMarker, LoadEOF, LoadFinish
<1>4. CASE SchedStep
  <2> USE DEF ApplyAt, EffectInv
  <2>1. CASE SchedLaunch
    BY <2>1 DEF SchedLaunch
  <2>2. CASE SchedMarker
    <3>1. /\ \A x \in Faults : g'[x] = g[x] \/ (x \in waiting \ waiting' /\ g'[x] = "sleep")
          /\ \A x \in waiting \ waiting' : g'[x] = "sleep" \/ x \in errs'
          /\ waiting' \subseteq waiting /\ waiting \subseteq Faults
      BY <2>2 DEF SchedMarker, ControlType
    <3>2. \A x \in waiting' : g'[x] = g[x]
      BY <2>2 DEF SchedMarker, ControlType
    <3>3. sched = "wait" /\ UNCHANGED <<pc, sched, eff>> /\ errs \subseteq errs'
      BY <2>2 DEF SchedMarker
    <3> QED
      BY <3>1, <3>2, <3>3
  <2>3. CASE SchedClosed
    BY <2>3 DEF SchedClosed
  <2>4. CASE SchedJoin
    BY <2>4 DEF SchedJoin
  <2> QED
    BY <1>4, <2>1, <2>2, <2>3, <2>4 DEF SchedStep
<1>5. ASSUME NEW f \in Faults, GoStep(f)
      PROVE  SchedInv'
  <2>1. g[f] # "none" /\ g'[f] # "none" /\ \A x \in Faults \ {f} : g'[x] = g[x]
    BY <1>5 DEF GoStep, ApplyEffect, ApplyError, Track, ApplyPanic, PanicDone
  <2>2. g[f] \in {"sleep", "applied", "panic"} /\ errs \subseteq errs'
    BY <1>5 DEF GoStep, ApplyEffect, ApplyError, Track, ApplyPanic, PanicDone
  <2>3. \A x \in Faults : g'[x] = "end" /\ eff'[x] \in {"off", "stray"} => x \in errs'
    <3>1. CASE ApplyEffect(f)
      BY <3>1, <1>5 DEF ApplyEffect
    <3>2. CASE ApplyError(f)
      BY <3>2, <1>5 DEF ApplyError, MayStray
    <3>3. CASE Track(f)
      BY <3>3 DEF Track, EffectInv
    <3>4. CASE ApplyPanic(f)
      BY <3>4, <1>5 DEF ApplyPanic, MayStray
    <3>5. CASE PanicDone(f)
      BY <3>5, <1>5 DEF PanicDone
    <3> QED
      BY <1>5, <3>1, <3>2, <3>3, <3>4, <3>5 DEF GoStep
  <2>4. sched = "wait" /\ waiting \subseteq Faults
    BY <2>2 DEF ControlType
  <2>5. UNCHANGED <<pc, sched, waiting>>
    BY <1>5, FaultFrame
  <2> QED
    BY <2>1, <2>2, <2>3, <2>4, <2>5
<1>6. ASSUME NEW a \in Actors, TeardownStep(a)
      PROVE  SchedInv'
  <2>1. \A x \in Faults : eff'[x] \in {"off", "stray"} => eff'[x] = eff[x]
    <3> USE Newest, RunUndoOne
    <3>1. CASE SwapOut(a)
      BY <3>1 DEF SwapOut
    <3>2. CASE SkipExpiring(a)
      BY <3>2 DEF SkipExpiring
    <3>3. CASE UndoLast(a)
      BY <3>3 DEF UndoLast
    <3>4. CASE OnceEnter(a)
      BY <3>4 DEF OnceEnter
    <3>5. CASE OnceRun(a)
      BY <3>5 DEF OnceRun
    <3>6. CASE OnceReturn(a)
      BY <3>6 DEF OnceReturn
    <3>7. CASE BatchDone(a)
      BY <3>7 DEF BatchDone
    <3>8. CASE TeardownTopology(a)
      BY <3>8 DEF TeardownTopology
    <3> QED
      BY <1>6, <3>1, <3>2, <3>3, <3>4, <3>5, <3>6, <3>7, <3>8 DEF TeardownStep
  <2> QED
    BY <1>6, <2>1, TeardownFrame
<1>7. ASSUME NEW f \in Faults, TimerStep(f)
      PROVE  SchedInv'
  <2>1. /\ UNCHANGED <<g, errs>>
        /\ \A x \in Faults : eff'[x] \in {"off", "stray"} => eff'[x] = eff[x]
    BY <1>7, RunUndoOne DEF TimerStep, TimerFire, TimerUndo
  <2> QED
    BY <1>7, <2>1, FaultFrame
<1>8. CASE Exit
  BY <1>8 DEF Exit, Early
<1>9. CASE UNCHANGED vars
  BY <1>9 DEF vars
<1> QED
  BY <1>1, <1>2, <1>3, <1>4, <1>5, <1>6, <1>7, <1>8, <1>9 DEF Next, Exited


(* When an outcome of pass or fail is settled, the scheduler is done, so no *)
(* goroutine is left that could register, fail or panic.                    *)
LEMMA SettledIsQuiet ==
    ASSUME IInv, pc = "evaluate" \/ outcome \in {"pass", "fail"}
    PROVE  /\ \A f \in Faults : g[f] = "end" /\ eff[f] \notin {"off", "stray"} /\ td[f] = "idle"
           /\ sched = "done"
<1>1. sched = "done" /\ errs = {} /\ waiting = {}
  BY DEF IInv, FinalInv, SchedInv
<1>2. \A f \in Faults : g[f] = "end"
  BY <1>1 DEF IInv, SchedInv
<1> QED
  BY <1>1, <1>2 DEF IInv, SchedInv, ActorInv

(* A settled outcome has every fault accounted for, and the lists its       *)
(* teardown has dealt with stay empty.                                      *)
LEMMA FinalStep ==
    ASSUME IInv, [Next]_vars
    PROVE  FinalInv'
<1>1. CASE MainStep \/ Recover
  <2>1. pc # "teardown" => td["main"] = "idle" /\ ~open["main"]
    BY Names DEF IInv, ActorInv
  <2>2. td' = [td EXCEPT !["main"] = "mgr"] /\ ~open["main"] =>
          \A l \in Lists : ~Dealt(l)'
    BY <1>1, MainFrame, Names DEF Dealt, Lists, IInv, TypeOK, RegistryType
  <2>3. open' = open /\ undos' = undos /\ errs' = errs
    BY <1>1, MainFrame
  <2>4. td' = td => \A l \in Lists : Dealt(l)' = Dealt(l)
    BY <2>3 DEF Dealt
  <2> USE <2>1, <2>2, <2>3, <2>4 DEF IInv, FinalInv, Continue, Return, TeardownThen, Goto
  <2>5. CASE Preflight
    BY <2>5 DEF Preflight
  <2>6. CASE Reset
    BY <2>6 DEF Reset
  <2>7. CASE Classify
    BY <2>7 DEF Classify
  <2>8. CASE ApplyTopology
    BY <2>8 DEF ApplyTopology
  <2>9. CASE ArmTopology
    BY <2>9 DEF ArmTopology
  <2>10. CASE Prepare
    BY <2>10 DEF Prepare
  <2>11. CASE StartLoad
    BY <2>11 DEF StartLoad
  <2>12. CASE ScheduleFaults
    BY <2>12 DEF ScheduleFaults
  <2>13. CASE ArmExpiring
    BY <2>13 DEF ArmExpiring
  <2>14. CASE Select
    BY <2>14 DEF Select
  <2>15. CASE Drain
    BY <2>15 DEF Drain
  <2>16. CASE Evaluate
    BY <2>16 DEF Evaluate
  <2>17. CASE Finish
    BY <2>17 DEF Finish
  <2>18. CASE Recover
    BY <2>18 DEF Recover
  <2> QED
    BY <1>1, <2>5, <2>6, <2>7, <2>8, <2>9, <2>10, <2>11, <2>12, <2>13, <2>14,
       <2>15, <2>16, <2>17, <2>18 DEF MainStep
<1>2. CASE WatchStep \/ Signal
  <2>1. td'["main"] = td["main"]
    BY <1>2, WatchFrame, Names DEF IInv, TypeOK, RegistryType
  <2>2. UNCHANGED <<pc, status, outcome, sched, errs, armed, undos, open>>
    BY <1>2, WatchFrame
  <2> QED
    BY <2>1, <2>2 DEF IInv, FinalInv, Dealt
<1>3. CASE LoadStep
  BY <1>3 DEF LoadStep, LoadMarker, LoadEOF, LoadFinish, IInv, FinalInv, Dealt
<1>4. CASE SchedStep
  <2>1. UNCHANGED <<pc, status, outcome, armed, undos, open, td>>
    BY <1>4, SchedLeavesEnded
  <2>2. ~(pc = "evaluate" \/ outcome \in {"pass", "fail"})
    BY <1>4, SettledIsQuiet DEF SchedStep, SchedLaunch, SchedMarker,
         SchedClosed, SchedJoin
  <2> QED
    BY <2>1, <2>2 DEF IInv, FinalInv, Dealt
<1>5. ASSUME NEW f \in Faults, GoStep(f)
      PROVE  FinalInv'
  <2>1. UNCHANGED <<pc, status, outcome, sched, armed>>
    BY <1>5, FaultFrame
  <2>2. ~(pc = "evaluate" \/ outcome \in {"pass", "fail"})
    BY <1>5, SettledIsQuiet DEF GoStep, ApplyEffect, ApplyError, Track,
         ApplyPanic, PanicDone
  <2> QED
    BY <2>1, <2>2 DEF IInv, FinalInv
<1>6. ASSUME NEW a \in Actors, TeardownStep(a)
      PROVE  FinalInv'
  <2>1. UNCHANGED <<pc, status, outcome, sched, errs, armed>>
    BY <1>6, TeardownFrame
  <2>2. ASSUME outcome \in {"pass", "fail"}, NEW l \in Lists, Dealt(l)'
        PROVE  undos'[l] = <<>>
    <3>1. "exp" \in armed /\ (Dealt(l) => undos[l] = <<>>)
      BY <2>2 DEF IInv, FinalInv
    <3>2. undos[l] = <<>> => undos'[l] = <<>>
      <4>1. CASE SwapOut(a)
        BY <4>1 DEF SwapOut, IInv, TypeOK, RegistryType
      <4>2. CASE SkipExpiring(a)
        BY <4>2 DEF SkipExpiring
      <4>3. CASE UndoLast(a)
        BY <4>3 DEF UndoLast
      <4>4. CASE OnceEnter(a)
        BY <4>4 DEF OnceEnter
      <4>5. CASE OnceRun(a)
        BY <4>5 DEF OnceRun
      <4>6. CASE OnceReturn(a)
        BY <4>6 DEF OnceReturn
      <4>7. CASE BatchDone(a)
        BY <4>7 DEF BatchDone
      <4>8. CASE TeardownTopology(a)
        BY <4>8 DEF TeardownTopology
      <4> QED
        BY <1>6, <4>1, <4>2, <4>3, <4>4, <4>5, <4>6, <4>7, <4>8 DEF TeardownStep
    <3>3. CASE a # "main"
      <4>1. td'["main"] = td["main"] /\ open'["main"] = open["main"]
        BY <1>6, <3>3, Names DEF TeardownStep, SwapOut, SkipExpiring, UndoLast,
             OnceEnter, OnceRun, OnceReturn, BatchDone, TeardownTopology, IInv,
             TypeOK, RegistryType
      <4> QED
        BY <2>2, <3>1, <3>2, <4>1 DEF Dealt
    <3>4. CASE a = "main"
      <4>1. CASE SwapOut(a)
        BY <2>2, <3>1, <3>2, <3>4, <4>1, Names
           DEF SwapOut, Dealt, Lists, IInv, TypeOK, RegistryType
      <4>2. CASE SkipExpiring(a)
        BY <3>1, <4>2 DEF SkipExpiring
      <4>3. CASE BatchDone(a)
        <5>1. /\ open["main"] /\ td'["main"] = AfterList("main", td["main"])
              /\ td["main"] \in Lists /\ undos' = undos
          BY <3>4, <4>3, Names DEF BatchDone, IInv, TypeOK, RegistryType
        <5>2. AfterList("main", td["main"]) =
                [mgr |-> "exp", exp |-> "que", que |-> "topo"][td["main"]]
          BY Names DEF AfterList
        <5>3. open'["main"] = FALSE
          BY <3>4, <4>3, Names DEF BatchDone, IInv, TypeOK, RegistryType
        <5>4. Dealt(l)
          BY <2>2, <5>1, <5>2, <5>3 DEF Dealt, Lists
        <5> QED
          BY <3>1, <5>1, <5>4
      <4>4. CASE TeardownTopology(a)
        BY <2>2, <3>1, <3>4, <4>4, Names
           DEF TeardownTopology, Dealt, Lists, IInv, TypeOK, RegistryType
      <4>5. CASE UndoLast(a) \/ OnceEnter(a) \/ OnceRun(a) \/ OnceReturn(a)
        <5>1. UNCHANGED <<td, open, undos>>
          BY <4>5 DEF UndoLast, OnceEnter, OnceRun, OnceReturn
        <5> QED
          BY <2>2, <3>1, <5>1 DEF Dealt
      <4> QED
        BY <1>6, <4>1, <4>2, <4>3, <4>4, <4>5 DEF TeardownStep
    <3> QED
      BY <3>3, <3>4
  <2> QED
    BY <2>1, <2>2 DEF IInv, FinalInv
<1>7. ASSUME NEW f \in Faults, TimerStep(f)
      PROVE  FinalInv'
  BY <1>7 DEF TimerStep, TimerFire, TimerUndo, IInv, FinalInv, Dealt
<1>8. CASE Exit
  BY <1>8 DEF Exit, IInv, FinalInv, Dealt
<1>9. CASE UNCHANGED vars
  BY <1>9 DEF vars, IInv, FinalInv, Dealt
<1> QED
  BY <1>1, <1>2, <1>3, <1>4, <1>5, <1>6, <1>7, <1>8, <1>9 DEF Next, Exited


(* The load and the disabled container are not touched by the signal        *)
(* watcher, the scheduler or a fault.                                       *)
LEMMA QuietSteps ==
    ASSUME SchedStep \/ (\E f \in Faults : GoStep(f) \/ TimerStep(f))
    PROVE  UNCHANGED <<mainVars, sigVars, load, topoVars>>
<1>1. CASE SchedStep
  BY <1>1 DEF SchedStep, SchedLaunch, SchedMarker, SchedClosed, SchedJoin
<1>2. ASSUME NEW f \in Faults, GoStep(f)
      PROVE  UNCHANGED <<mainVars, sigVars, load, topoVars>>
  BY <1>2 DEF GoStep, ApplyEffect, ApplyError, Track, ApplyPanic, PanicDone
<1>3. ASSUME NEW f \in Faults, TimerStep(f)
      PROVE  UNCHANGED <<mainVars, sigVars, load, topoVars>>
  BY <1>3 DEF TimerStep, TimerFire, TimerUndo
<1> QED
  BY <1>1, <1>2, <1>3

(* An aborted verdict after load has started comes from the watcher. *)
LEMMA AbortStep ==
    ASSUME IInv, [Next]_vars
    PROVE  AbortInv'
<1> USE DEF AbortInv
<1>0. AbortInv /\ outcome # "aborted"
      /\ (status # "none" => pc \in {"returned", "exited"})
  BY DEF IInv, FinalInv
<1>1. CASE MainStep \/ Recover
  <2> USE <1>0 DEF Continue, Return, TeardownThen, Goto, Early
  <2>0. UNCHANGED <<aborted, watch>>
    BY <1>1, MainFrame
  <2>1. CASE Preflight
    BY <2>0, <2>1 DEF Preflight
  <2>2. CASE Reset
    BY <2>0, <2>2 DEF Reset
  <2>3. CASE Classify
    BY <2>0, <2>3 DEF Classify
  <2>4. CASE ApplyTopology
    BY <2>0, <2>4 DEF ApplyTopology
  <2>5. CASE ArmTopology
    BY <2>0, <2>5 DEF ArmTopology
  <2>6. CASE Prepare
    BY <2>0, <2>6 DEF Prepare
  <2>7. CASE StartLoad
    BY <2>0, <2>7 DEF StartLoad
  <2>8. CASE ScheduleFaults
    BY <2>0, <2>8 DEF ScheduleFaults
  <2>9. CASE ArmExpiring
    BY <2>0, <2>9 DEF ArmExpiring
  <2>10. CASE Select
    BY <2>0, <2>10 DEF Select
  <2>11. CASE Drain
    BY <2>0, <2>11 DEF Drain
  <2>12. CASE Evaluate
    BY <2>0, <2>12 DEF Evaluate
  <2>13. CASE Finish
    BY <2>0, <2>13 DEF Finish
  <2>14. CASE Recover
    BY <2>0, <2>14 DEF Recover
  <2> QED
    BY <1>1, <2>1, <2>2, <2>3, <2>4, <2>5, <2>6, <2>7, <2>8, <2>9, <2>10,
       <2>11, <2>12, <2>13, <2>14 DEF MainStep
<1>2. CASE WatchStep \/ Signal
  BY <1>0, <1>2 DEF WatchStep, WatchSignal, WatchStore, WatchQuit, Signal, Early
<1>3. CASE LoadStep
  BY <1>0, <1>3 DEF LoadStep, LoadMarker, LoadEOF, LoadFinish, Early
<1>4. CASE SchedStep \/ (\E f \in Faults : GoStep(f) \/ TimerStep(f))
  BY <1>0, <1>4, QuietSteps
<1>5. ASSUME NEW a \in Actors, TeardownStep(a)
      PROVE  AbortInv'
  BY <1>0, <1>5, TeardownFrame
<1>6. CASE Exit
  BY <1>0, <1>6 DEF Exit, Early
<1>7. CASE UNCHANGED vars
  BY <1>0, <1>7 DEF vars
<1> QED
  BY <1>1, <1>2, <1>3, <1>4, <1>5, <1>6, <1>7 DEF Next, Exited

(* The disabled container is present only before the cleanup is armed, or   *)
(* until the teardown that precedes the verdict reaches it.                 *)
LEMMA TopologyStep ==
    ASSUME IInv, [Next]_vars
    PROVE  TopologyInv'
<1> USE DEF TopologyInv
<1>0. /\ TopologyInv
      /\ status # "none" => pc \in {"returned", "exited"}
      /\ td \in [Actors -> Lists \cup {"topo", "idle"}]
      /\ td["main"] # "idle" => pc = "teardown"
  BY DEF IInv, FinalInv, TypeOK, RegistryType, ActorInv
<1>1. CASE MainStep \/ Recover
  <2> USE <1>0, Names DEF Continue, Return, TeardownThen, Goto
  <2>1. CASE Preflight
    BY <2>1 DEF Preflight
  <2>2. CASE Reset
    BY <2>2 DEF Reset
  <2>3. CASE Classify
    BY <2>3 DEF Classify
  <2>4. CASE ApplyTopology
    BY <2>4 DEF ApplyTopology
  <2>5. CASE ArmTopology
    BY <2>5 DEF ArmTopology
  <2>6. CASE Prepare
    BY <2>6 DEF Prepare
  <2>7. CASE StartLoad
    BY <2>7 DEF StartLoad
  <2>8. CASE ScheduleFaults
    BY <2>8 DEF ScheduleFaults
  <2>9. CASE ArmExpiring
    BY <2>9 DEF ArmExpiring
  <2>10. CASE Select
    BY <2>10 DEF Select
  <2>11. CASE Drain
    BY <2>11 DEF Drain
  <2>12. CASE Evaluate
    BY <2>12 DEF Evaluate
  <2>13. CASE Finish
    BY <2>13 DEF Finish
  <2>14. CASE Recover
    BY <2>14 DEF Recover
  <2> QED
    BY <1>1, <2>1, <2>2, <2>3, <2>4, <2>5, <2>6, <2>7, <2>8, <2>9, <2>10,
       <2>11, <2>12, <2>13, <2>14 DEF MainStep
<1>2. CASE WatchStep \/ Signal
  <2>1. td'["main"] = td["main"]
    BY <1>0, <1>2, WatchFrame, Names
  <2>2. UNCHANGED <<pc, status, armed, stale>>
    BY <1>2, WatchFrame
  <2> QED
    BY <1>0, <2>1, <2>2
<1>3. CASE LoadStep
  BY <1>0, <1>3 DEF LoadStep, LoadMarker, LoadEOF, LoadFinish
<1>4. CASE SchedStep \/ (\E f \in Faults : GoStep(f) \/ TimerStep(f))
  <2>1. UNCHANGED <<pc, status, armed, stale>>
    BY <1>4, QuietSteps
  <2>2. td'["main"] = td["main"]
    <3>1. CASE SchedStep
      BY <3>1 DEF SchedStep, SchedLaunch, SchedMarker, SchedClosed, SchedJoin
    <3>2. ASSUME NEW f \in Faults, GoStep(f)
          PROVE  td'["main"] = td["main"]
      BY <1>0, <3>2, Names DEF GoStep, ApplyEffect, ApplyError, Track,
           ApplyPanic, PanicDone
    <3>3. ASSUME NEW f \in Faults, TimerStep(f)
          PROVE  td'["main"] = td["main"]
      BY <3>3 DEF TimerStep, TimerFire, TimerUndo
    <3> QED
      BY <1>4, <3>1, <3>2, <3>3
  <2> QED
    BY <1>0, <2>1, <2>2
<1>5. ASSUME NEW a \in Actors, TeardownStep(a)
      PROVE  TopologyInv'
  <2>1. UNCHANGED <<pc, status, armed>>
    BY <1>5, TeardownFrame
  <2>2. "topo" \in armed /\ stale # "present" => stale' # "present"
    BY <1>5 DEF TeardownStep, SwapOut, SkipExpiring, UndoLast, OnceEnter,
         OnceRun, OnceReturn, BatchDone, TeardownTopology
  <2>3. td'["main"] = "idle" /\ "topo" \in armed =>
          td["main"] = "idle" \/ stale' # "present"
    <3>1. CASE a # "main" \/ SwapOut(a) \/ UndoLast(a) \/ OnceEnter(a)
                 \/ OnceRun(a) \/ OnceReturn(a)
      <4>1. td'["main"] = td["main"]
        BY <1>0, <1>5, <3>1, Names DEF TeardownStep, SwapOut, SkipExpiring,
             UndoLast, OnceEnter, OnceRun, OnceReturn, BatchDone,
             TeardownTopology
      <4> QED
        BY <4>1
    <3>2. CASE a = "main" /\ SkipExpiring(a)
      BY <1>0, <3>2, Names DEF SkipExpiring
    <3>3. CASE a = "main" /\ BatchDone(a)
      <4>1. /\ td["main"] \in Lists
            /\ td'["main"] =
                 [mgr |-> "exp", exp |-> "que", que |-> "topo"][td["main"]]
        BY <1>0, <3>3, Names DEF BatchDone, AfterList
      <4> QED
        BY <4>1 DEF Lists
    <3>4. CASE a = "main" /\ TeardownTopology(a)
      BY <1>0, <3>4, Names DEF TeardownTopology
    <3> QED
      BY <1>5, <3>1, <3>2, <3>3, <3>4 DEF TeardownStep
  <2> QED
    BY <1>0, <2>1, <2>2, <2>3
<1>6. CASE Exit
  BY <1>0, <1>6 DEF Exit
<1>7. CASE UNCHANGED vars
  BY <1>0, <1>7 DEF vars
<1> QED
  BY <1>1, <1>2, <1>3, <1>4, <1>5, <1>6, <1>7 DEF Next, Exited

-----------------------------------------------------------------------------
(* The invariant, and the properties it implies. *)

(* The invariant holds initially. *)
LEMMA InvInit == Init => IInv
<1> SUFFICES ASSUME Init PROVE IInv
  OBVIOUS
<1>1. TypeOK
  BY TypeInit
<1>2. /\ \A l \in Lists : undos[l] = <<>>
      /\ \A a \in Actors : batch[a] = <<>> /\ td[a] = "idle" /\ open[a] = FALSE
  BY DEF Init
<1>3. /\ \A f \in Faults : /\ g[f] = "none" /\ eff[f] = "off" /\ runs[f] = 0
                           /\ once[f] = "no" /\ timer[f] = "off"
      /\ pc = "preflight" /\ status = "none" /\ outcome = "none"
      /\ watch = "wait" /\ aborted = FALSE /\ load = "off" /\ sched = "off"
      /\ waiting = {} /\ armed = {}
  BY DEF Init
<1>4. ActorInv
  BY <1>2, Names DEF ActorInv
<1>5. RegistryInv
  BY <1>2, EmptyToSet, EmptyInjective DEF RegistryInv
<1>6. PendingInv
  BY <1>2, EmptyToSet DEF PendingInv
<1>7. EffectInv
  BY <1>3 DEF EffectInv
<1>8. LiveFaultIsOwned
  BY <1>3 DEF LiveFaultIsOwned
<1>9. SchedInv /\ FinalInv
  BY <1>3 DEF SchedInv, FinalInv, Early
<1>10. AbortInv /\ TopologyInv
  BY <1>3 DEF AbortInv, TopologyInv
<1> QED
  BY <1>1, <1>4, <1>5, <1>6, <1>7, <1>8, <1>9, <1>10 DEF IInv

(* IInv is an invariant of run.Run, whatever the faults, the load profile   *)
(* and the disruptions.                                                     *)
THEOREM Invariance == Spec => []IInv
<1>1. IInv /\ [Next]_vars => IInv'
  <2> SUFFICES ASSUME IInv, [Next]_vars PROVE IInv'
    OBVIOUS
  <2>1. TypeOK'
    BY TypeStep DEF IInv
  <2>2. ActorInv' /\ RegistryInv'
    BY ActorStep, RegistryStep DEF IInv
  <2>3. PendingInv' /\ EffectInv' /\ LiveFaultIsOwned'
    BY PendingStep, EffectStep, OwnedStep
  <2>4. SchedInv' /\ FinalInv' /\ AbortInv' /\ TopologyInv'
    BY SchedStepInv, FinalStep, AbortStep, TopologyStep
  <2> QED
    BY <2>1, <2>2, <2>3, <2>4 DEF IInv
<1> QED
  BY <1>1, InvInit, PTL DEF Spec


(* Once Run has its own teardown behind it, a live fault can only be in the *)
(* list the signal watcher is still working off.                            *)
LEMMA CleanButForWatcher ==
    ASSUME IInv, outcome \in {"pass", "fail"}, td["main"] = "idle"
    PROVE  \A f \in Faults :
             \/ eff[f] \in {"undone", "stuck"}
             \/ eff[f] = "live" /\ f \in ToSet(batch["watch"]) /\ watch = "teardown"
<1> SUFFICES ASSUME NEW f \in Faults, eff[f] \notin {"undone", "stuck"}
             PROVE  eff[f] = "live" /\ f \in ToSet(batch["watch"]) /\ watch = "teardown"
  OBVIOUS
<1>1. /\ eff[f] = "live" /\ g[f] = "end"
      /\ \A x \in Faults : td[x] = "idle"
  BY SettledIsQuiet DEF IInv, TypeOK, FaultType
<1>2. undos[ListOf(f)] = <<>>
  <2>1. \A l \in Lists : Dealt(l)
    BY DEF Dealt, Lists
  <2> QED
    BY <2>1, ListOfType DEF IInv, FinalInv
<1>3. PICK a \in Actors : f \in ToSet(batch[a])
  BY <1>1, <1>2, EmptyToSet DEF IInv, LiveFaultIsOwned
<1>4. td[a] # "idle"
  BY <1>3, EmptyToSet, Names DEF IInv, ActorInv
<1>5. a = "watch"
  BY <1>1, <1>4 DEF Actors
<1> QED
  BY <1>1, <1>3, <1>4, <1>5 DEF IInv, ActorInv

(* R-EXE-5: a pass or fail verdict leaves no fault live, except those the   *)
(* signal watcher is lifting at that very moment.                           *)
THEOREM CompletedIsClean == Spec => []CompletedRunIsClean
<1>1. IInv => CompletedRunIsClean
  <2> SUFFICES ASSUME IInv, Completed PROVE CompletedRunIsClean
    BY DEF CompletedRunIsClean
  <2>1. outcome \in {"pass", "fail"} /\ td["main"] = "idle"
    BY DEF Completed, IInv, FinalInv, ActorInv
  <2> QED
    BY <2>1, CleanButForWatcher DEF CompletedRunIsClean
<1> QED
  BY <1>1, Invariance, PTL

(* R-EXE-19: a pass or fail verdict means that every fault was applied.     *)
THEOREM CompletedFiredEverything == Spec => []CompletedRunFiredEverything
<1>1. IInv => CompletedRunFiredEverything
  <2> SUFFICES ASSUME IInv, Completed
               PROVE  \A f \in Faults : eff[f] \notin {"off", "stray"}
    BY DEF CompletedRunFiredEverything
  <2>1. outcome \in {"pass", "fail"}
    BY DEF Completed, IInv, FinalInv
  <2> QED
    BY <2>1, SettledIsQuiet
<1> QED
  BY <1>1, Invariance, PTL

(* No undo runs twice, whoever races for it.                                *)
THEOREM UndoOnce == Spec => []UndoAtMostOnce
<1>1. IInv => UndoAtMostOnce
  <2> SUFFICES ASSUME IInv, NEW f \in Faults PROVE runs[f] <= 1
    BY DEF UndoAtMostOnce
  <2>1. runs[f] = 0 \/ runs[f] = 1
    BY DEF IInv, EffectInv, TypeOK, FaultType
  <2> QED
    BY <2>1
<1> QED
  BY <1>1, Invariance, PTL

(* No undo is lost: a live fault always has someone who will lift it.       *)
THEOREM LiveIsOwned == Spec => []LiveFaultIsOwned
<1>1. IInv => LiveFaultIsOwned
  BY DEF IInv
<1> QED
  BY <1>1, Invariance, PTL

(* After load has started, an aborted verdict follows the watcher's         *)
(* complete teardown.                                                       *)
THEOREM AbortFollowsTeardown == Spec => []AbortedAfterTeardown
<1>1. IInv => AbortedAfterTeardown
  <2> SUFFICES ASSUME IInv, watch = "caught"
               PROVE  batch["watch"] = <<>>
    BY DEF IInv, AbortInv, AbortedAfterTeardown
  <2> QED
    BY Names DEF IInv, ActorInv
<1> QED
  BY <1>1, Invariance, PTL

(* Once its cleanup is armed, the disabled container has been dealt with    *)
(* when Run returns a pass, fail or error verdict.                          *)
THEOREM ContainerTornDown == Spec => []DisabledContainerTornDown
<1>1. IInv => DisabledContainerTornDown
  BY DEF IInv, TopologyInv, DisabledContainerTornDown
<1> QED
  BY <1>1, Invariance, PTL


-----------------------------------------------------------------------------
(* Run implements its contract. *)

(* An undo is only ever run on a live fault: it is a Lift of the contract.  *)
LEMMA UndoIsLift ==
    ASSUME IInv, NEW f \in Faults, eff[f] = "live", RunUndo(f),
           UNCHANGED <<status, watch>>
    PROVE  Contract!Lift(f)
BY DEF RunUndo, Contract!Lift, Contract!Lifted

(* Run returns once, and a pass or fail only with every fault lifted.       *)
LEMMA ReturnConcludes ==
    ASSUME IInv, NEW s \in Statuses, Return(s), UNCHANGED <<eff, watch>>,
           pc \notin {"returned", "exited"},
           s \in {"pass", "fail"} => outcome = s /\ td["main"] = "idle"
    PROVE  Contract!Conclude(s)
<1>1. status = "none" /\ status' = s
  BY DEF IInv, FinalInv, Return
<1>2. s \in {"pass", "fail"} => \A f \in Faults :
        \/ eff[f] \in {"undone", "stuck"}
        \/ watch \in {"teardown", "caught"} /\ eff[f] = "live"
  BY CleanButForWatcher
<1> QED
  BY <1>1, <1>2 DEF Contract!Conclude, Contract!Lifted

(* Run's own goroutine only ever changes the verdict by concluding. *)
LEMMA MainRefines ==
    ASSUME IInv, MainStep \/ Recover
    PROVE  UNCHANGED status \/ \E s \in Statuses : Contract!Conclude(s)
<1>1. UNCHANGED <<eff, watch>>
  BY MainFrame
<1>2. ASSUME Return("aborted"), pc \notin {"returned", "exited"}
      PROVE  \E s \in Statuses : Contract!Conclude(s)
  BY <1>1, <1>2, ReturnConcludes DEF Statuses
<1>3. ASSUME Return("error"), pc \notin {"returned", "exited"}
      PROVE  \E s \in Statuses : Contract!Conclude(s)
  BY <1>1, <1>3, ReturnConcludes DEF Statuses
<1> USE DEF Continue, TeardownThen, Goto
<1>4. CASE Preflight
  BY <1>3, <1>4 DEF Preflight
<1>5. CASE Reset
  BY <1>2, <1>5 DEF Reset
<1>6. CASE Classify
  BY <1>2, <1>6 DEF Classify
<1>7. CASE ApplyTopology
  BY <1>7 DEF ApplyTopology
<1>8. CASE ArmTopology
  BY <1>8 DEF ArmTopology
<1>9. CASE Prepare
  BY <1>2, <1>9 DEF Prepare
<1>10. CASE StartLoad
  BY <1>10 DEF StartLoad
<1>11. CASE ScheduleFaults
  BY <1>11 DEF ScheduleFaults
<1>12. CASE ArmExpiring
  BY <1>12 DEF ArmExpiring
<1>13. CASE Select
  BY <1>2, <1>13 DEF Select
<1>14. CASE Drain
  BY <1>2, <1>14 DEF Drain
<1>15. CASE Evaluate
  BY <1>15 DEF Evaluate
<1>16. CASE Finish
  <2>1. pc = "teardown" /\ td["main"] = "idle" /\ Return(outcome)
    BY <1>16 DEF Finish
  <2>2. CASE outcome = "none"
    BY <2>1, <2>2 DEF Return, IInv, FinalInv
  <2>3. CASE outcome # "none"
    <3>1. outcome \in Statuses
      BY <2>3 DEF IInv, TypeOK, ControlType
    <3> QED
      BY <1>1, <2>1, <3>1, ReturnConcludes
  <2> QED
    BY <2>2, <2>3
<1>17. CASE Recover
  BY <1>17 DEF Recover
<1> QED
  BY <1>4, <1>5, <1>6, <1>7, <1>8, <1>9, <1>10, <1>11, <1>12, <1>13, <1>14,
     <1>15, <1>16, <1>17 DEF MainStep

(* Every step is a step of the contract or leaves its state alone. *)
LEMMA StepRefines ==
    ASSUME IInv, [Next]_vars
    PROVE  [Contract!CNext]_(Contract!cvars)
<1> USE DEF Contract!cvars
<1>1. CASE MainStep \/ Recover
  <2>1. UNCHANGED <<eff, watch>>
    BY <1>1, MainFrame
  <2> QED
    BY <1>1, <2>1, MainRefines DEF Contract!CNext, Statuses
<1>2. CASE WatchStep \/ Signal
  <2>1. CASE WatchSignal
    BY <2>1 DEF WatchSignal, Contract!CNext, Contract!Interrupt
  <2>2. CASE WatchStore
    BY <2>2 DEF WatchStore
  <2>3. CASE WatchQuit
    BY <2>3 DEF WatchQuit
  <2>4. CASE Signal
    BY <2>4 DEF Signal
  <2> QED
    BY <1>2, <2>1, <2>2, <2>3, <2>4 DEF WatchStep
<1>3. CASE LoadStep
  BY <1>3 DEF LoadStep, LoadMarker, LoadEOF, LoadFinish
<1>4. CASE SchedStep
  BY <1>4 DEF SchedStep, SchedLaunch, SchedMarker, SchedClosed, SchedJoin
<1>5. ASSUME NEW f \in Faults, GoStep(f)
      PROVE  [Contract!CNext]_(Contract!cvars)
  <2>1. CASE ApplyEffect(f)
    <3>1. eff[f] = "off" /\ status \notin {"pass", "fail"}
      BY <2>1, SettledIsQuiet DEF ApplyEffect, IInv, EffectInv, FinalInv
    <3>2. Contract!Inject(f)
      BY <2>1, <3>1 DEF ApplyEffect, Contract!Inject
    <3> QED
      BY <3>2 DEF Contract!CNext
  <2>2. CASE Track(f) \/ PanicDone(f)
    BY <2>2 DEF Track, PanicDone
  <2>3. CASE ApplyError(f) \/ ApplyPanic(f)
    <3>1. /\ eff[f] = "off" /\ status \notin {"pass", "fail"}
          /\ UNCHANGED <<status, watch>>
      BY <2>3, SettledIsQuiet DEF ApplyError, ApplyPanic, IInv, EffectInv, FinalInv
    <3>2. UNCHANGED eff \/ eff' = [eff EXCEPT ![f] = "stray"]
      BY <2>3 DEF ApplyError, ApplyPanic, MayStray
    <3>3. CASE UNCHANGED eff
      BY <3>1, <3>3
    <3>4. CASE eff' = [eff EXCEPT ![f] = "stray"]
      <4>1. Contract!Inject(f)
        BY <3>1, <3>4 DEF Contract!Inject
      <4> QED
        BY <4>1 DEF Contract!CNext
    <3> QED
      BY <3>2, <3>3, <3>4
  <2> QED
    BY <1>5, <2>1, <2>2, <2>3 DEF GoStep
<1>6. ASSUME NEW a \in Actors, TeardownStep(a)
      PROVE  [Contract!CNext]_(Contract!cvars)
  <2>1. UNCHANGED <<status, watch>>
    BY <1>6, TeardownFrame
  <2>2. CASE UndoLast(a)
    <3> DEFINE f == Last(batch[a])
    <3>1. f \in Faults /\ f \in ToSet(batch[a])
      BY <2>2, Newest DEF UndoLast
    <3>2. eff[f] = "live" /\ RunUndo(f)
      BY <2>2, <3>1 DEF UndoLast, IInv, PendingInv
    <3>3. Contract!Lift(f)
      BY <2>1, <3>1, <3>2, UndoIsLift
    <3> QED
      BY <3>1, <3>3 DEF Contract!CNext
  <2>3. CASE OnceRun(a)
    <3> DEFINE f == Last(batch[a])
    <3>1. f \in Faults /\ f \in ToSet(batch[a])
      BY <2>3, Newest DEF OnceRun
    <3>2. once[f] # "done"
      BY <2>3, Names DEF OnceRun
    <3>3. eff[f] = "live" /\ RunUndo(f)
      BY <2>3, <3>1, <3>2 DEF OnceRun, IInv, PendingInv
    <3>4. Contract!Lift(f)
      BY <2>1, <3>1, <3>3, UndoIsLift
    <3> QED
      BY <3>1, <3>4 DEF Contract!CNext
  <2>4. CASE \/ SwapOut(a) \/ SkipExpiring(a) \/ OnceEnter(a) \/ OnceReturn(a)
             \/ BatchDone(a) \/ TeardownTopology(a)
    <3>1. eff' = eff
      BY <2>4 DEF SwapOut, SkipExpiring, OnceEnter, OnceReturn, BatchDone,
           TeardownTopology
    <3> QED
      BY <2>1, <3>1
  <2> QED
    BY <1>6, <2>2, <2>3, <2>4 DEF TeardownStep
<1>7. ASSUME NEW f \in Faults, TimerStep(f)
      PROVE  [Contract!CNext]_(Contract!cvars)
  <2>1. CASE TimerFire(f)
    BY <2>1 DEF TimerFire
  <2>2. CASE TimerUndo(f)
    <3>1. eff[f] = "live"
      BY <2>2 DEF TimerUndo, IInv, EffectInv, TypeOK, FaultType
    <3>2. RunUndo(f) /\ UNCHANGED <<status, watch>>
      BY <2>2 DEF TimerUndo
    <3>3. Contract!Lift(f)
      BY <3>1, <3>2, UndoIsLift
    <3> QED
      BY <3>3 DEF Contract!CNext
  <2> QED
    BY <1>7, <2>1, <2>2 DEF TimerStep
<1>8. CASE Exit
  BY <1>8 DEF Exit
<1>9. CASE UNCHANGED vars
  BY <1>9 DEF vars
<1> QED
  BY <1>1, <1>2, <1>3, <1>4, <1>5, <1>6, <1>7, <1>8, <1>9 DEF Next, Exited

(* run.Run, with all its goroutines, implements the contract of RunContract *)
(* for every set of faults: each fault is injected and lifted at most once, *)
(* one verdict is given, and a pass or fail only over a restored system.    *)
THEOREM Refinement == Spec => ImplementsContract
<1>1. Init => Contract!CInit
  BY DEF Init, Contract!CInit
<1>2. IInv /\ [Next]_vars => [Contract!CNext]_(Contract!cvars)
  BY StepRefines
<1> QED
  BY <1>1, <1>2, Invariance, PTL DEF Spec, ImplementsContract, Contract!ContractSpec

=============================================================================
