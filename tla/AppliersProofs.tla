--------------------------- MODULE AppliersProofs ---------------------------
(***************************************************************************)
(* What undoing a fault leaves behind, for every set of faults, verbs,     *)
(* limits, rates, loops and failures: the network and container appliers,  *)
(* the mock's cycle of stubs and the duplicate loops.                      *)
(***************************************************************************)
EXTENDS NetAppliers, MockCycle, DuplicateLoop, FiniteSetTheorems,
        SequenceTheorems, TLAPS

-----------------------------------------------------------------------------
(* The network and container appliers. *)

(* Every actuator is off its rest position only on account of a fault that  *)
(* is live, was applied but reported as failed, or whose undo failed; the   *)
(* container also on account of one undone early.  A container may be       *)
(* paused by one fault while the undo of another would set it going, hence  *)
(* the box clauses; the limits are followed only where no two faults share  *)
(* one.                                                                     *)
Holds(f) == st[f] \in {"live", "lost", "stuck"}

ProxyInv ==
    /\ ~enabled => \E f \in Faults : verb[f] = "down" /\ Holds(f)
    /\ \A f \in toxics : verb[f] \in ToxicVerbs /\ Holds(f)
    /\ \A f \in Faults : verb[f] \in ToxicVerbs /\ st[f] = "live" => f \in toxics
    /\ Unshared({"down"}) => \A f \in Faults : verb[f] = "down" /\ st[f] = "live" => ~enabled

Ended(f) == verb[f] = "graceful" /\ (Holds(f) \/ st[f] = "early")

BoxInv ==
    /\ box = "paused"  => \E f \in Faults : verb[f] = "pause" /\ Holds(f)
    /\ box = "stopped" => \E f \in Faults : (verb[f] = "kill" /\ Holds(f)) \/ Ended(f)
    /\ dying => \E f \in Faults : Ended(f)
    /\ box = "stopped" => ~dying
    /\ \A f \in stress : verb[f] = "stress" /\ Holds(f)

LimitInv ==
    Unshared(LimitVerbs) =>
        \A f \in Faults : verb[f] \in LimitVerbs /\ st[f] = "live" => limit[verb[f]] = Limit[f]

RestInv ==
    Unshared(LimitVerbs) =>
        /\ \A r \in LimitVerbs : (\A f \in Faults : verb[f] # r) => limit[r] = Original
        /\ \A f \in Faults : verb[f] \in LimitVerbs =>
             /\ st[f] \in {"ready", "live"} => prev[f] = Original
             /\ ~Holds(f) => limit[verb[f]] = Original

(* Docker's two decimals do not change a limit of whole hundredths.         *)
LEMMA HundredthsRoundTrip ==
    ASSUME NEW n \in Nat, n % 10 = 0, NEW l \in CPUs(n)
    PROVE  l = n
BY DEF CPUs

(* Before the first fault the dependency and the books about it are well    *)
(* formed.                                                                  *)
LEMMA NetTypeInit == Init => TypeOK
<1> SUFFICES ASSUME Init PROVE TypeOK
  OBVIOUS
<1>1. enabled \in BOOLEAN /\ dying \in BOOLEAN
  BY DEF Init
<1> QED
  BY <1>1, NetAssumption DEF Init, TypeOK, LimitVerbs

(* Every application, undo and refusal of docker leaves them well formed.   *)
LEMMA NetTypeStep == TypeOK /\ [Next]_vars => TypeOK'
<1> SUFFICES ASSUME TypeOK, [Next]_vars PROVE TypeOK'
  OBVIOUS
<1> USE NetAssumption DEF TypeOK
<1>1. ASSUME NEW f \in Faults, ApplyFails(f) PROVE TypeOK'
  BY <1>1 DEF ApplyFails, Set, proxyVars, boxVars
<1>2. ASSUME NEW f \in Faults, UndoFails(f) PROVE TypeOK'
  BY <1>2 DEF UndoFails, Set, proxyVars, boxVars
<1>3. ASSUME NEW f \in Faults, EnsureProxy(f) PROVE TypeOK'
  BY <1>3 DEF EnsureProxy, Set, proxyVars, boxVars
<1>4. ASSUME NEW f \in Faults, ApplyToxic(f) PROVE TypeOK'
  BY <1>4 DEF ApplyToxic, Applies, Reported, Set, boxVars
<1>5. ASSUME NEW f \in Faults, UndoToxic(f) PROVE TypeOK'
  BY <1>5 DEF UndoToxic, Undoes, Reported, Set, boxVars
<1>6. ASSUME NEW f \in Faults, ReadLimit(f) PROVE TypeOK'
  BY <1>6 DEF ReadLimit, Set, proxyVars, boxVars
<1>7. ASSUME NEW f \in Faults, ApplyLimit(f) PROVE TypeOK'
  BY <1>7 DEF ApplyLimit, Applies, Reported, Set, proxyVars
<1>8. ASSUME NEW f \in Faults, UndoLimit(f) PROVE TypeOK'
  <2>1. PICK l \in RestoredTo(f) : limit' = [limit EXCEPT ![verb[f]] = l]
    BY <1>8 DEF UndoLimit
  <2>2. l \in Nat
    BY DEF RestoredTo, CPUs
  <2> QED
    BY <1>8, <2>1, <2>2 DEF UndoLimit, Undoes, Reported, Set, proxyVars
<1>9. ASSUME NEW f \in Faults, ApplyDocker(f) PROVE TypeOK'
  BY <1>9 DEF ApplyDocker, Applies, Reported, Set, proxyVars
<1>10. ASSUME NEW f \in Faults, DockerRefuses(f) PROVE TypeOK'
  BY <1>10 DEF DockerRefuses, Set, proxyVars, boxVars
<1>11. ASSUME NEW f \in Faults, UndoDocker(f) PROVE TypeOK'
  BY <1>11 DEF UndoDocker, Undoes, Reported, Set, proxyVars
<1>12. ASSUME NEW f \in Faults, UndoRefused(f) PROVE TypeOK'
  BY <1>12 DEF UndoRefused, Set, proxyVars, boxVars
<1>13. ASSUME Exits PROVE TypeOK'
  BY <1>13 DEF Exits, proxyVars
<1>14. CASE UNCHANGED vars
  BY <1>14 DEF vars, proxyVars, boxVars
<1> QED
  BY <1>1, <1>2, <1>3, <1>4, <1>5, <1>6, <1>7, <1>8, <1>9, <1>10, <1>11, <1>12, <1>13, <1>14
     DEF Next, Over

(* The proxy: what enables, disables or frees it is a fault of its own. *)
LEMMA ProxyStep == TypeOK /\ ProxyInv /\ [Next]_vars => ProxyInv'
<1> SUFFICES ASSUME TypeOK, ProxyInv, [Next]_vars PROVE ProxyInv'
  OBVIOUS
<1> USE NetAssumption DEF TypeOK, ProxyInv, Holds, Unshared, ToxicVerbs, DockerVerbs, LimitVerbs
<1>1. ASSUME NEW f \in Faults, ApplyFails(f) PROVE ProxyInv'
  BY <1>1 DEF ApplyFails, Set, proxyVars, boxVars
<1>2. ASSUME NEW f \in Faults, UndoFails(f) PROVE ProxyInv'
  BY <1>2 DEF UndoFails, Set, proxyVars, boxVars
<1>3. ASSUME NEW f \in Faults, EnsureProxy(f) PROVE ProxyInv'
  BY <1>3 DEF EnsureProxy, Set, proxyVars, boxVars
<1>4. ASSUME NEW f \in Faults, ApplyToxic(f) PROVE ProxyInv'
  BY <1>4 DEF ApplyToxic, Applies, Reported, Set, boxVars
<1>5. ASSUME NEW f \in Faults, UndoToxic(f) PROVE ProxyInv'
  BY <1>5 DEF UndoToxic, Undoes, Reported, Set, boxVars
<1>6. ASSUME NEW f \in Faults, ReadLimit(f) PROVE ProxyInv'
  BY <1>6 DEF ReadLimit, Set, proxyVars, boxVars
<1>7. ASSUME NEW f \in Faults, ApplyLimit(f) PROVE ProxyInv'
  BY <1>7 DEF ApplyLimit, Applies, Reported, Set, proxyVars
<1>8. ASSUME NEW f \in Faults, UndoLimit(f) PROVE ProxyInv'
  BY <1>8 DEF UndoLimit, Undoes, Reported, Set, proxyVars
<1>9. ASSUME NEW f \in Faults, ApplyDocker(f) PROVE ProxyInv'
  BY <1>9 DEF ApplyDocker, Applies, Reported, Set, proxyVars
<1>10. ASSUME NEW f \in Faults, DockerRefuses(f) PROVE ProxyInv'
  BY <1>10 DEF DockerRefuses, Set, proxyVars, boxVars
<1>11. ASSUME NEW f \in Faults, UndoDocker(f) PROVE ProxyInv'
  BY <1>11 DEF UndoDocker, Undoes, Reported, Set, proxyVars
<1>12. ASSUME NEW f \in Faults, UndoRefused(f) PROVE ProxyInv'
  BY <1>12 DEF UndoRefused, Set, proxyVars, boxVars
<1>13. ASSUME Exits PROVE ProxyInv'
  BY <1>13 DEF Exits, proxyVars
<1>14. CASE UNCHANGED vars
  BY <1>14 DEF vars, proxyVars, boxVars
<1> QED
  BY <1>1, <1>2, <1>3, <1>4, <1>5, <1>6, <1>7, <1>8, <1>9, <1>10, <1>11, <1>12, <1>13, <1>14
     DEF Next, Over

(* The container: it leaves "running" by a fault that then holds. *)
LEMMA BoxStep == TypeOK /\ BoxInv /\ [Next]_vars => BoxInv'
<1> SUFFICES ASSUME TypeOK, BoxInv, [Next]_vars PROVE BoxInv'
  OBVIOUS
<1> USE NetAssumption DEF TypeOK, BoxInv, Holds, Ended, Accepts, ToxicVerbs, DockerVerbs, LimitVerbs
<1>1. ASSUME NEW f \in Faults, ApplyFails(f) PROVE BoxInv'
  BY <1>1 DEF ApplyFails, Set, proxyVars, boxVars
<1>2. ASSUME NEW f \in Faults, UndoFails(f) PROVE BoxInv'
  BY <1>2 DEF UndoFails, Set, proxyVars, boxVars
<1>3. ASSUME NEW f \in Faults, EnsureProxy(f) PROVE BoxInv'
  BY <1>3 DEF EnsureProxy, Set, proxyVars, boxVars
<1>4. ASSUME NEW f \in Faults, ApplyToxic(f) PROVE BoxInv'
  BY <1>4 DEF ApplyToxic, Applies, Reported, Set, boxVars
<1>5. ASSUME NEW f \in Faults, UndoToxic(f) PROVE BoxInv'
  BY <1>5 DEF UndoToxic, Undoes, Reported, Set, boxVars
<1>6. ASSUME NEW f \in Faults, ReadLimit(f) PROVE BoxInv'
  BY <1>6 DEF ReadLimit, Set, proxyVars, boxVars
<1>7. ASSUME NEW f \in Faults, ApplyLimit(f) PROVE BoxInv'
  BY <1>7 DEF ApplyLimit, Applies, Reported, Set, proxyVars
<1>8. ASSUME NEW f \in Faults, UndoLimit(f) PROVE BoxInv'
  BY <1>8 DEF UndoLimit, Undoes, Reported, Set, proxyVars
<1>9. ASSUME NEW f \in Faults, ApplyDocker(f) PROVE BoxInv'
  <2>1. Holds(f)' /\ verb' = verb /\ \A g \in Faults \ {f} : st'[g] = st[g]
    BY <1>9 DEF ApplyDocker, Applies, Reported, Set
  <2>2. \A g \in Faults : (Holds(g) => Holds(g)') /\ (Ended(g) => Ended(g)')
    BY <2>1
  <2>3. CASE verb[f] = "pause"
    BY <1>9, <2>1, <2>2, <2>3 DEF ApplyDocker
  <2>4. CASE verb[f] = "kill"
    BY <1>9, <2>1, <2>2, <2>4 DEF ApplyDocker
  <2>5. CASE verb[f] = "graceful"
    <3>1. Ended(f)'
      BY <2>1, <2>5
    <3>2. box' \in {box, "running"} /\ box # "stopped" /\ stress' = stress
      BY <1>9, <2>5 DEF ApplyDocker
    <3> QED
      BY <2>1, <2>2, <3>1, <3>2
  <2>6. CASE verb[f] = "stress"
    BY <1>9, <2>1, <2>2, <2>6 DEF ApplyDocker
  <2> QED
    BY <1>9, <2>3, <2>4, <2>5, <2>6 DEF ApplyDocker
<1>10. ASSUME NEW f \in Faults, DockerRefuses(f) PROVE BoxInv'
  BY <1>10 DEF DockerRefuses, Set, proxyVars, boxVars
<1>11. ASSUME NEW f \in Faults, UndoDocker(f) PROVE BoxInv'
  BY <1>11 DEF UndoDocker, Undoes, Reported, Set, proxyVars
<1>12. ASSUME NEW f \in Faults, UndoRefused(f) PROVE BoxInv'
  BY <1>12 DEF UndoRefused, Set, proxyVars, boxVars
<1>13. ASSUME Exits PROVE BoxInv'
  BY <1>13 DEF Exits, proxyVars
<1>14. CASE UNCHANGED vars
  BY <1>14 DEF vars, proxyVars, boxVars
<1> QED
  BY <1>1, <1>2, <1>3, <1>4, <1>5, <1>6, <1>7, <1>8, <1>9, <1>10, <1>11, <1>12, <1>13, <1>14
     DEF Next, Over

(* An undo touches the limit of its own fault only, if no other has it.     *)
LEMMA LimitStep == TypeOK /\ LimitInv /\ [Next]_vars => LimitInv'
<1> SUFFICES ASSUME TypeOK, LimitInv, [Next]_vars PROVE LimitInv'
  OBVIOUS
<1> USE NetAssumption DEF TypeOK, LimitInv, Holds, Unshared, ToxicVerbs, DockerVerbs, LimitVerbs
<1>1. ASSUME NEW f \in Faults, ApplyFails(f) PROVE LimitInv'
  BY <1>1 DEF ApplyFails, Set, proxyVars, boxVars
<1>2. ASSUME NEW f \in Faults, UndoFails(f) PROVE LimitInv'
  BY <1>2 DEF UndoFails, Set, proxyVars, boxVars
<1>3. ASSUME NEW f \in Faults, EnsureProxy(f) PROVE LimitInv'
  BY <1>3 DEF EnsureProxy, Set, proxyVars, boxVars
<1>4. ASSUME NEW f \in Faults, ApplyToxic(f) PROVE LimitInv'
  BY <1>4 DEF ApplyToxic, Applies, Reported, Set, boxVars
<1>5. ASSUME NEW f \in Faults, UndoToxic(f) PROVE LimitInv'
  BY <1>5 DEF UndoToxic, Undoes, Reported, Set, boxVars
<1>6. ASSUME NEW f \in Faults, ReadLimit(f) PROVE LimitInv'
  BY <1>6 DEF ReadLimit, Set, proxyVars, boxVars
<1>7. ASSUME NEW f \in Faults, ApplyLimit(f) PROVE LimitInv'
  BY <1>7 DEF ApplyLimit, Applies, Reported, Set, proxyVars
<1>8. ASSUME NEW f \in Faults, UndoLimit(f) PROVE LimitInv'
  <2>1. PICK l \in RestoredTo(f) : limit' = [limit EXCEPT ![verb[f]] = l]
    BY <1>8 DEF UndoLimit
  <2> QED
    BY <1>8, <2>1 DEF UndoLimit, Undoes, Reported, Set
<1>9. ASSUME NEW f \in Faults, ApplyDocker(f) PROVE LimitInv'
  BY <1>9 DEF ApplyDocker, Applies, Reported, Set, proxyVars
<1>10. ASSUME NEW f \in Faults, DockerRefuses(f) PROVE LimitInv'
  BY <1>10 DEF DockerRefuses, Set, proxyVars, boxVars
<1>11. ASSUME NEW f \in Faults, UndoDocker(f) PROVE LimitInv'
  BY <1>11 DEF UndoDocker, Undoes, Reported, Set, proxyVars
<1>12. ASSUME NEW f \in Faults, UndoRefused(f) PROVE LimitInv'
  BY <1>12 DEF UndoRefused, Set, proxyVars, boxVars
<1>13. ASSUME Exits PROVE LimitInv'
  BY <1>13 DEF Exits, proxyVars
<1>14. CASE UNCHANGED vars
  BY <1>14 DEF vars, proxyVars, boxVars
<1> QED
  BY <1>1, <1>2, <1>3, <1>4, <1>5, <1>6, <1>7, <1>8, <1>9, <1>10, <1>11, <1>12, <1>13, <1>14
     DEF Next, Over

(* What a limit fault read before it set its own limit is the original, and *)
(* the undo puts that back, where it is a whole number of hundredths.       *)
LEMMA RestStep ==
    ASSUME Original % 10 = 0
    PROVE  TypeOK /\ RestInv /\ [Next]_vars => RestInv'
<1> SUFFICES ASSUME TypeOK, RestInv, [Next]_vars PROVE RestInv'
  OBVIOUS
<1> USE NetAssumption DEF TypeOK, RestInv, Holds, Unshared, ToxicVerbs, DockerVerbs, LimitVerbs
<1>1. ASSUME NEW f \in Faults, ApplyFails(f) PROVE RestInv'
  BY <1>1 DEF ApplyFails, Set, proxyVars, boxVars
<1>2. ASSUME NEW f \in Faults, UndoFails(f) PROVE RestInv'
  BY <1>2 DEF UndoFails, Set, proxyVars, boxVars
<1>3. ASSUME NEW f \in Faults, EnsureProxy(f) PROVE RestInv'
  BY <1>3 DEF EnsureProxy, Set, proxyVars, boxVars
<1>4. ASSUME NEW f \in Faults, ApplyToxic(f) PROVE RestInv'
  BY <1>4 DEF ApplyToxic, Applies, Reported, Set, boxVars
<1>5. ASSUME NEW f \in Faults, UndoToxic(f) PROVE RestInv'
  BY <1>5 DEF UndoToxic, Undoes, Reported, Set, boxVars
<1>6. ASSUME NEW f \in Faults, ReadLimit(f) PROVE RestInv'
  BY <1>6 DEF ReadLimit, Set, proxyVars, boxVars
<1>7. ASSUME NEW f \in Faults, ApplyLimit(f) PROVE RestInv'
  BY <1>7 DEF ApplyLimit, Applies, Reported, Set, proxyVars
<1>8. ASSUME NEW f \in Faults, UndoLimit(f) PROVE RestInv'
  <2>1. PICK l \in RestoredTo(f) : limit' = [limit EXCEPT ![verb[f]] = l]
    BY <1>8 DEF UndoLimit
  <2>2. Unshared(LimitVerbs) => prev[f] = Original
    BY <1>8 DEF UndoLimit
  <2>3. Unshared(LimitVerbs) => l = Original
    BY <2>1, <2>2, HundredthsRoundTrip DEF RestoredTo
  <2> QED
    BY <1>8, <2>1, <2>3 DEF UndoLimit, Undoes, Reported, Set
<1>9. ASSUME NEW f \in Faults, ApplyDocker(f) PROVE RestInv'
  BY <1>9 DEF ApplyDocker, Applies, Reported, Set, proxyVars
<1>10. ASSUME NEW f \in Faults, DockerRefuses(f) PROVE RestInv'
  BY <1>10 DEF DockerRefuses, Set, proxyVars, boxVars
<1>11. ASSUME NEW f \in Faults, UndoDocker(f) PROVE RestInv'
  BY <1>11 DEF UndoDocker, Undoes, Reported, Set, proxyVars
<1>12. ASSUME NEW f \in Faults, UndoRefused(f) PROVE RestInv'
  BY <1>12 DEF UndoRefused, Set, proxyVars, boxVars
<1>13. ASSUME Exits PROVE RestInv'
  BY <1>13 DEF Exits, proxyVars
<1>14. CASE UNCHANGED vars
  BY <1>14 DEF vars, proxyVars, boxVars
<1> QED
  BY <1>1, <1>2, <1>3, <1>4, <1>5, <1>6, <1>7, <1>8, <1>9, <1>10, <1>11, <1>12, <1>13, <1>14
     DEF Next, Over

(* The inductive invariant of the appliers.                                 *)
THEOREM NetInvariance == Spec => [](TypeOK /\ ProxyInv /\ BoxInv /\ LimitInv)
<1>1. Init => TypeOK /\ ProxyInv /\ BoxInv /\ LimitInv
  BY NetTypeInit DEF Init, ProxyInv, BoxInv, LimitInv, Holds, Ended
<1>2. TypeOK /\ ProxyInv /\ BoxInv /\ LimitInv /\ [Next]_vars
        => (TypeOK /\ ProxyInv /\ BoxInv /\ LimitInv)'
  BY NetTypeStep, ProxyStep, BoxStep, LimitStep
<1> QED
  BY <1>1, <1>2, PTL DEF Spec

(* A live network or limit fault is in force, whatever other faults on the  *)
(* dependency come and go, unless two share the switch it works by.         *)
THEOREM LiveFaultsAreInForce == Spec => []LiveIsInForce
<1>1. TypeOK /\ ProxyInv /\ BoxInv /\ LimitInv => LiveIsInForce
  BY DEF ProxyInv, LimitInv, LiveIsInForce
<1> QED
  BY <1>1, NetInvariance, PTL

(* Faults undone in any order, and refused calls between them, leave the    *)
(* dependency as it was found, if no undo failed, no two faults set the     *)
(* same limit and the limit is one docker's two decimals can write, but for *)
(* a container whose graceful fault was undone before its process ended.    *)
THEOREM UndosRestore ==
    ASSUME Original % 10 = 0
    PROVE  Spec => []CleanUndosRestore
<1>1. Init => RestInv
  BY DEF Init, RestInv, Holds
<1>2. TypeOK /\ RestInv /\ [Next]_vars => RestInv'
  BY RestStep
<1>3. TypeOK /\ ProxyInv /\ BoxInv /\ RestInv => CleanUndosRestore
  <2> SUFFICES ASSUME TypeOK, ProxyInv, BoxInv, RestInv, Unshared(LimitVerbs),
                      \A f \in Faults : st[f] \in {"idle", "failed", "undone", "early"}
               PROVE  /\ Restored /\ box # "paused"
                      /\ UpAndWell \/ \E f \in Faults : st[f] = "early"
    BY DEF CleanUndosRestore
  <2>1. \A f \in Faults : ~Holds(f)
    BY DEF Holds
  <2>2. enabled /\ toxics = {}
    BY <2>1 DEF ProxyInv, TypeOK
  <2>3. box # "paused" /\ stress = {}
    BY <2>1 DEF BoxInv, TypeOK
  <2>4. UpAndWell \/ \E f \in Faults : st[f] = "early"
    BY <2>1 DEF BoxInv, Ended, TypeOK, UpAndWell
  <2>5. \A r \in LimitVerbs : limit[r] = Original
    BY <2>1 DEF RestInv
  <2>6. limit = [r \in LimitVerbs |-> Original]
    BY <2>5 DEF TypeOK
  <2> QED
    BY <2>2, <2>3, <2>4, <2>6 DEF Restored
<1> QED
  BY <1>1, <1>2, <1>3, NetInvariance, PTL DEF Spec

-----------------------------------------------------------------------------
(* The mock's cycle of stubs. *)

(* What WireMock has is what the applier has yet to delete, but for the     *)
(* mappings whose deletion failed and the one whose creation seemed to.     *)
StubInv ==
    /\ phase = "idle" => ids = 0
    /\ phase \in {"idle", "creating", "live"} => stubs = 0..(ids - 1) /\ kept = {}
    /\ phase = "rollback" => stubs \subseteq todo \cup kept \cup {ids}
    /\ phase = "undoing"  => stubs \subseteq todo \cup kept
    /\ phase = "failed"   => stubs \subseteq kept \cup {ids}
    /\ phase \in {"undone", "stuck"} => stubs \subseteq kept
    /\ phase = "undone" => kept = {}

(* The answers are those of the last states, up to the one before "state".  *)
Place(s, n, i) == IF s - n + i - 1 < 0 THEN s - n + i - 1 + CycleLen ELSE s - n + i - 1

RateInv ==
    /\ answers # <<>> => stubs = Cycle
    /\ \A i \in 1..Len(answers) : answers[i] = Answer(Place(state, Len(answers), i))

(* WireMock steps through the states in order and starts again at the first. *)
LEMMA NextState ==
    ASSUME NEW k \in Nat \ {0}, NEW n \in 0..(k - 1)
    PROVE  (n + 1) % k = IF n + 1 = k THEN 0 ELSE n + 1
BY SMT

(* What integer division leaves over is less than the divisor.              *)
LEMMA DivBounds ==
    ASSUME NEW a \in Int, NEW b \in Nat \ {0}
    PROVE  a \div b \in Int /\ b * (a \div b) <= a /\ a < b * (a \div b) + b
BY SMT

(* A product grows with its factor.                                         *)
LEMMA TimesMonotone ==
    ASSUME NEW a \in Nat, NEW b \in Nat, a <= b, NEW c \in Nat
    PROVE  a * c <= b * c
BY SMT

(* approximateErrorRate asks for no more errors than the cycle has states.  *)
LEMMA ErrorCountInCycle == ErrorCount \in 0..CycleLen
<1> USE CycleAssumption
<1> DEFINE a == 2 * Num * CycleLen + Den
           b == 2 * Den
           q == a \div b
<1>1. a \in Nat /\ b \in Nat \ {0} /\ Num * CycleLen \in Nat /\ Den * CycleLen \in Nat
  OBVIOUS
<1>2. Num * CycleLen <= Den * CycleLen
  BY TimesMonotone
<1>3. a = 2 * (Num * CycleLen) + Den
  OBVIOUS
<1>4. q \in Int /\ b * q <= a /\ a < b * q + b
  <2> HIDE DEF a, b
  <2> QED
    BY <1>1, DivBounds
<1>5. b * q = 2 * (Den * q)
  <2> HIDE DEF q
  <2> QED
    BY <1>4
<1>6. q <= CycleLen
  <2> SUFFICES ASSUME q >= CycleLen + 1 PROVE FALSE
    BY <1>4
  <2> HIDE DEF q
  <2>1. Den * (CycleLen + 1) <= Den * q
    BY <1>4
  <2>2. Den * (CycleLen + 1) = Den * CycleLen + Den
    OBVIOUS
  <2> QED
    BY <1>1, <1>2, <1>3, <1>4, <1>5, <2>1, <2>2
<1>7. q >= 0
  <2> SUFFICES ASSUME q <= -1 PROVE FALSE
    BY <1>4
  <2> HIDE DEF q
  <2>1. Den * q <= -Den
    BY <1>4
  <2> QED
    BY <1>1, <1>3, <1>4, <1>5, <2>1
<1> QED
  BY <1>4, <1>6, <1>7 DEF ErrorCount

(* Before the first request nothing has been answered.                      *)
LEMMA NoAnswers == <<>> \in Seq({"error", "ok"}) /\ Len(<<>>) = 0
OBVIOUS

(* WireMock starts well formed, with no stub of the cycle.                  *)
LEMMA CycleTypeInit == CycleInit => CycleTypeOK
<1> SUFFICES ASSUME CycleInit PROVE CycleTypeOK
  OBVIOUS
<1>1. answers \in Seq({"error", "ok"}) /\ Len(answers) <= CycleLen
  BY CycleAssumption, NoAnswers DEF CycleInit
<1>2. kept \in SUBSET Cycle
  BY DEF CycleInit
<1>3. ids \in 0..CycleLen /\ state \in Cycle /\ stubs \in SUBSET Cycle /\ todo \in SUBSET Cycle
  BY CycleAssumption DEF CycleInit, Cycle
<1> QED
  BY <1>1, <1>2, <1>3 DEF CycleInit, CycleTypeOK

(* The shapes of the cycle's state are kept. *)
LEMMA CycleTypeStep == CycleTypeOK /\ [CycleNext]_cycleVars => CycleTypeOK'
<1> SUFFICES ASSUME CycleTypeOK, [CycleNext]_cycleVars PROVE CycleTypeOK'
  OBVIOUS
<1> USE CycleAssumption DEF CycleTypeOK, Cycle
<1>1. ASSUME StartApply PROVE CycleTypeOK'
  BY <1>1 DEF StartApply
<1>2. ASSUME Create PROVE CycleTypeOK'
  BY <1>2 DEF Create
<1>3. ASSUME CreateFails PROVE CycleTypeOK'
  BY <1>3 DEF CreateFails
<1>4. ASSUME Applied PROVE CycleTypeOK'
  BY <1>4 DEF Applied
<1>5. ASSUME StartUndo PROVE CycleTypeOK'
  BY <1>5 DEF StartUndo
<1>6. ASSUME NEW i \in Cycle, Delete(i) PROVE CycleTypeOK'
  <2>1. (answers \in Seq({"error", "ok"}) /\ Len(answers) <= CycleLen)'
    BY <1>6, NoAnswers DEF Delete
  <2> QED
    BY <1>6, <2>1 DEF Delete
<1>7. ASSUME Deleted PROVE CycleTypeOK'
  BY <1>7 DEF Deleted
<1>8. ASSUME Request PROVE CycleTypeOK'
  <2>1. (state + 1) % CycleLen \in Cycle
    BY NextState
  <2>2. Answer(state) \in {"error", "ok"}
    BY DEF Answer
  <2>3. state' \in Cycle /\ UNCHANGED <<phase, ids, stubs, todo, kept>>
    BY <1>8, <2>1 DEF Request
  <2>4. (answers \in Seq({"error", "ok"}) /\ Len(answers) <= CycleLen)'
    <3>1. CASE UNCHANGED answers
      BY <3>1
    <3>2. CASE answers' = Append(answers, Answer(state)) /\ Len(answers) < CycleLen
      BY <2>2, <3>2, AppendProperties
    <3>3. CASE answers' = Append(Tail(answers), Answer(state)) /\ ~(Len(answers) < CycleLen)
      <4>1. answers # <<>>
        BY <3>3
      <4>2. Tail(answers) \in Seq({"error", "ok"}) /\ Len(Tail(answers)) = Len(answers) - 1
        BY <4>1, HeadTailProperties
      <4> QED
        BY <2>2, <3>3, <4>2, AppendProperties
    <3> QED
      BY <1>8, <3>1, <3>2, <3>3 DEF Request
  <2> QED
    BY <2>3, <2>4
<1>9. CASE UNCHANGED cycleVars
  BY <1>9 DEF cycleVars
<1> QED
  BY <1>1, <1>2, <1>3, <1>4, <1>5, <1>6, <1>7, <1>8, <1>9 DEF CycleNext

(* Each creation and each deletion keeps WireMock and the list of ids apart *)
(* by the calls that failed alone.                                          *)
LEMMA StubStep == CycleTypeOK /\ StubInv /\ [CycleNext]_cycleVars => StubInv'
<1> SUFFICES ASSUME CycleTypeOK, StubInv, [CycleNext]_cycleVars PROVE StubInv'
  OBVIOUS
<1> USE CycleAssumption DEF CycleTypeOK, StubInv, Cycle
<1>1. ASSUME StartApply PROVE StubInv'
  BY <1>1 DEF StartApply
<1>2. ASSUME Create PROVE StubInv'
  BY <1>2 DEF Create
<1>3. ASSUME CreateFails PROVE StubInv'
  BY <1>3 DEF CreateFails
<1>4. ASSUME Applied PROVE StubInv'
  BY <1>4 DEF Applied
<1>5. ASSUME StartUndo PROVE StubInv'
  BY <1>5 DEF StartUndo
<1>6. ASSUME NEW i \in Cycle, Delete(i) PROVE StubInv'
  <2>1. CASE stubs' = stubs \ {i} /\ kept' = kept
    BY <1>6, <2>1 DEF Delete
  <2>2. CASE stubs' \in {stubs, stubs \ {i}} /\ kept' = kept \cup {i}
    BY <1>6, <2>2 DEF Delete
  <2> QED
    BY <1>6, <2>1, <2>2 DEF Delete
<1>7. ASSUME Deleted PROVE StubInv'
  BY <1>7 DEF Deleted
<1>8. ASSUME Request PROVE StubInv'
  BY <1>8 DEF Request
<1>9. CASE UNCHANGED cycleVars
  BY <1>9 DEF cycleVars
<1> QED
  BY <1>1, <1>2, <1>3, <1>4, <1>5, <1>6, <1>7, <1>8, <1>9 DEF CycleNext

(* As the scenario moves on, each answer is one place further from its end; *)
(* the last one is that of the state just left.                             *)
LEMMA PlaceMoves ==
    ASSUME NEW s \in Cycle, NEW t, t = IF s + 1 = CycleLen THEN 0 ELSE s + 1
    PROVE  /\ \A n \in 0..(CycleLen - 1), i \in 1..CycleLen : i <= n => Place(t, n + 1, i) = Place(s, n, i)
           /\ \A i \in 1..(CycleLen - 1) : Place(t, CycleLen, i) = Place(s, CycleLen, i + 1)
           /\ \A n \in 1..CycleLen : Place(t, n, n) = s
<1> USE CycleAssumption DEF Cycle, Place
<1>1. CASE s + 1 = CycleLen
  BY <1>1
<1>2. CASE s + 1 # CycleLen
  BY <1>2
<1> QED
  BY <1>1, <1>2

(* One more answer is that of the state the scenario was in. *)
LEMMA RateStep == CycleTypeOK /\ StubInv /\ RateInv /\ [CycleNext]_cycleVars => RateInv'
<1> SUFFICES ASSUME CycleTypeOK, StubInv, RateInv, [CycleNext]_cycleVars PROVE RateInv'
  OBVIOUS
<1> USE CycleAssumption DEF CycleTypeOK, RateInv, Cycle
<1>1. ASSUME StartApply PROVE RateInv'
  BY <1>1 DEF StartApply, StubInv
<1>2. ASSUME Create PROVE RateInv'
  BY <1>2 DEF Create, StubInv
<1>3. ASSUME CreateFails PROVE RateInv'
  BY <1>3 DEF CreateFails, StubInv
<1>4. ASSUME Applied PROVE RateInv'
  BY <1>4 DEF Applied, StubInv
<1>5. ASSUME StartUndo PROVE RateInv'
  BY <1>5 DEF StartUndo, StubInv
<1>6. ASSUME NEW i \in Cycle, Delete(i) PROVE RateInv'
  BY <1>6 DEF Delete
<1>7. ASSUME Deleted PROVE RateInv'
  BY <1>7 DEF Deleted, StubInv
<1>8. ASSUME Request PROVE RateInv'
  <2>1. CASE state \in stubs /\ stubs = Cycle /\ Len(answers) < CycleLen
    <3>1. answers' = Append(answers, Answer(state)) /\ state' = (state + 1) % CycleLen /\ stubs' = stubs
      BY <1>8, <2>1 DEF Request
    <3>2. state' = IF state + 1 = CycleLen THEN 0 ELSE state + 1
      BY <3>1, NextState
    <3>3. Len(answers') = Len(answers) + 1
      BY <3>1
    <3>4. ASSUME NEW i \in 1..Len(answers)
          PROVE  /\ answers'[i] = answers[i]
                 /\ Place(state', Len(answers'), i) = Place(state, Len(answers), i)
      <4>1. answers'[i] = answers[i]
        BY <3>1, <3>4
      <4>2. Place(state', Len(answers'), i) = Place(state, Len(answers), i)
        BY <2>1, <3>2, <3>3, <3>4, PlaceMoves
      <4> QED
        BY <4>1, <4>2
    <3>5. answers'[Len(answers) + 1] = Answer(state) /\ Place(state', Len(answers'), Len(answers) + 1) = state
      BY <2>1, <3>1, <3>2, <3>3, PlaceMoves
    <3>6. ASSUME NEW i \in 1..Len(answers') PROVE answers'[i] = Answer(Place(state', Len(answers'), i))
      BY <3>3, <3>4, <3>5, <3>6, SMTT(30) DEF Answer
    <3> QED
      BY <2>1, <3>1, <3>6
  <2>2. CASE state \in stubs /\ stubs = Cycle /\ Len(answers) = CycleLen
    <3>1. answers' = Append(Tail(answers), Answer(state)) /\ state' = (state + 1) % CycleLen /\ stubs' = stubs
      BY <1>8, <2>2 DEF Request
    <3>2. state' = IF state + 1 = CycleLen THEN 0 ELSE state + 1
      BY <3>1, NextState
    <3>3. Len(answers') = CycleLen
      BY <2>2, <3>1
    <3>4. ASSUME NEW i \in 1..(CycleLen - 1)
          PROVE  answers'[i] = answers[i + 1] /\ Place(state', Len(answers'), i) = Place(state, Len(answers), i + 1)
      <4>1. answers'[i] = answers[i + 1]
        BY <2>2, <3>1, <3>4
      <4>2. Place(state', Len(answers'), i) = Place(state, Len(answers), i + 1)
        BY <2>2, <3>2, <3>3, <3>4, PlaceMoves
      <4> QED
        BY <4>1, <4>2
    <3>5. answers'[CycleLen] = Answer(state) /\ Place(state', Len(answers'), CycleLen) = state
      BY <2>2, <3>1, <3>2, <3>3, PlaceMoves
    <3>6. ASSUME NEW i \in 1..Len(answers') PROVE answers'[i] = Answer(Place(state', Len(answers'), i))
      BY <2>2, <3>3, <3>4, <3>5, <3>6, SMTT(30) DEF Answer
    <3> QED
      BY <2>2, <3>1, <3>6
  <2>3. CASE ~(state \in stubs /\ stubs = Cycle)
    BY <1>8, <2>3 DEF Request
  <2> QED
    BY <2>1, <2>2, <2>3
<1>9. CASE UNCHANGED cycleVars
  BY <1>9 DEF cycleVars
<1> QED
  BY <1>1, <1>2, <1>3, <1>4, <1>5, <1>6, <1>7, <1>8, <1>9 DEF CycleNext

(* In every state of WireMockApplier under load, what exists is what it has *)
(* yet to delete but for failed calls, and the answers are those of the     *)
(* last states of the cycle.                                                *)
THEOREM CycleInvariance == CycleSpec => [](CycleTypeOK /\ StubInv /\ RateInv)
<1>1. CycleInit => CycleTypeOK /\ StubInv /\ RateInv
  BY CycleTypeInit, NoAnswers, CycleAssumption DEF CycleInit, StubInv, RateInv
<1>2. CycleTypeOK /\ StubInv /\ RateInv /\ [CycleNext]_cycleVars
        => (CycleTypeOK /\ StubInv /\ RateInv)'
  BY CycleTypeStep, StubStep, RateStep
<1> QED
  BY <1>1, <1>2, PTL DEF CycleSpec

(* An undo that reports success leaves no stub behind, one that reports a   *)
(* failure at most those it could not delete, and a rollback besides at     *)
(* most the one whose creation WireMock performed and seemed to refuse.     *)
THEOREM MockIsRestored == CycleSpec => []MockRestored
<1>1. CycleTypeOK /\ StubInv /\ RateInv => MockRestored
  BY DEF StubInv, MockRestored
<1> QED
  BY <1>1, CycleInvariance, PTL

(* A rotation of the cycle answers as many errors as the cycle does.        *)
LEMMA RotationCounts ==
    ASSUME NEW s \in Cycle, NEW a, DOMAIN a = 1..CycleLen,
           \A i \in 1..CycleLen : a[i] = Answer(Place(s, CycleLen, i))
    PROVE  Cardinality({i \in DOMAIN a : a[i] = "error"}) = ErrorCount
<1> USE CycleAssumption DEF Cycle
<1> DEFINE Errors == 0..(ErrorCount - 1)
           E == {i \in DOMAIN a : a[i] = "error"}
           f == [k \in Errors |-> IF k < s THEN k - s + CycleLen + 1 ELSE k - s + 1]
<1>1. \A i \in 1..CycleLen : Place(s, CycleLen, i) \in Cycle
  BY DEF Place
<1>2. E = {i \in 1..CycleLen : Place(s, CycleLen, i) < ErrorCount}
  BY DEF Answer
<1>3. \A k \in Errors : f[k] \in 1..CycleLen /\ Place(s, CycleLen, f[k]) = k
  BY ErrorCountInCycle DEF Place
<1>4. f \in [Errors -> E]
  <2>1. \A k \in Errors : f[k] \in E
    <3> HIDE DEF f
    <3> QED
      BY <1>2, <1>3, ErrorCountInCycle
  <2> QED
    BY <2>1
<1>5. \A k, m \in Errors : f[k] = f[m] => k = m
  BY <1>3
<1>6. \A i \in E : \E k \in Errors : f[k] = i
  <2> TAKE i \in E
  <2>1. i \in 1..CycleLen /\ Place(s, CycleLen, i) \in Errors
    BY <1>1, <1>2, ErrorCountInCycle
  <2>2. f[Place(s, CycleLen, i)] = i
    BY <2>1 DEF Place
  <2> QED
    BY <2>1, <2>2
<1> HIDE DEF f, E, Errors
<1>7. f \in Bijection(Errors, E)
  BY <1>4, <1>5, <1>6 DEF Bijection, Injection, Surjection, IsInjective
<1>8. IsFiniteSet(Errors) /\ Cardinality(Errors) = ErrorCount
  <2>1. 0 \in Int /\ ErrorCount - 1 \in Int /\ (0 > ErrorCount - 1 <=> ErrorCount = 0)
    BY ErrorCountInCycle
  <2>2. IsFiniteSet(Errors) /\ Cardinality(Errors) = IF 0 > ErrorCount - 1 THEN 0 ELSE (ErrorCount - 1) - 0 + 1
    BY <2>1, FS_Interval DEF Errors
  <2> QED
    BY <2>1, <2>2, ErrorCountInCycle
<1>9. Cardinality(E) = Cardinality(Errors)
  BY <1>7, <1>8, FS_Bijection DEF ExistsBijection
<1> QED
  BY <1>8, <1>9 DEF E

(* Any CycleLen consecutive answers have exactly the errors asked for, for  *)
(* every length of the cycle and every rate.                                *)
THEOREM RateOfErrors == CycleSpec => []RateIsExact
<1>1. CycleTypeOK /\ StubInv /\ RateInv => RateIsExact
  <2> SUFFICES ASSUME CycleTypeOK, RateInv, Len(answers) = CycleLen
               PROVE  Cardinality({i \in DOMAIN answers : answers[i] = "error"}) = ErrorCount
    BY DEF RateIsExact
  <2> QED
    BY RotationCounts DEF CycleTypeOK, RateInv
<1> QED
  BY <1>1, CycleInvariance, PTL

-----------------------------------------------------------------------------
(* The duplicate loops. *)

(* A loop has been given the topic up to pos, and its batch is the end of   *)
(* that.                                                                    *)
Handled(l) == pos[l] - Len(batch[l])

BatchInv ==
    \A l \in Loops :
        /\ pos[l] <= Len(topic) /\ Handled(l) \in Nat
        /\ \A j \in 1..Len(batch[l]) : batch[l][j] = topic[Handled(l) + j]

(* No record is on the topic twice: the messages are numbered as they come, *)
(* and what a loop has copied it has handled, so it does not meet it again. *)
OnceInv ==
    /\ \A i, j \in DOMAIN topic : topic[i] = topic[j] => i = j
    /\ \A i \in Published : topic[i].msg <= Cardinality(Published)
    /\ \A i \in DOMAIN topic, l \in Loops : topic[i].by = l =>
         \E j \in 1..Handled(l) :
             j \in DOMAIN topic /\ topic[j] = [msg |-> topic[i].msg, by |-> "sut"]

(* done is closed before the undo returns. *)
UndoInv == \A l \in Loops : undo[l] = "returned" => loop[l] = "done"

(* Finitely many messages have been published by the system itself.         *)
LEMMA PublishedIsFinite ==
    ASSUME topic \in Seq(Records)
    PROVE  IsFiniteSet(Published) /\ Cardinality(Published) \in Nat
<1>1. IsFiniteSet(1..Len(topic))
  BY FS_Interval
<1>2. Published \in SUBSET (1..Len(topic))
  BY DEF Published
<1>3. IsFiniteSet(Published)
  BY <1>1, <1>2, FS_Subset
<1> QED
  BY <1>3, FS_CardinalityType

(* What a redelivery does to the loop's batch and to the topic.             *)
LEMMA RedeliverDoes ==
    ASSUME LoopTypeOK, NEW l \in Loops, Redeliver(l)
    PROVE  /\ batch[l] \in Seq(Records) /\ Len(batch[l]) \in Nat \ {0}
           /\ batch[l][1] \in Records
           /\ batch' = [batch EXCEPT ![l] = Tail(batch[l])]
           /\ Tail(batch[l]) \in Seq(Records) /\ Len(Tail(batch[l])) = Len(batch[l]) - 1
           /\ \A j \in 1..(Len(batch[l]) - 1) : Tail(batch[l])[j] = batch[l][j + 1]
           /\ UNCHANGED <<consumer, loop, pos, undo>>
           /\ loop[l] = "publish"
           /\ \/ topic' = topic
              \/ batch[l][1].by = "sut" /\ topic' = Append(topic, [msg |-> batch[l][1].msg, by |-> l])
<1>1. batch[l] \in Seq(Records) /\ batch[l] # <<>>
  BY DEF LoopTypeOK, Redeliver
<1>2. Len(batch[l]) \in Nat \ {0} /\ Head(batch[l]) = batch[l][1]
  BY <1>1, EmptySeq
<1>3. batch[l][1] \in Records
  BY <1>1, <1>2, ElementOfSeq
<1> QED
  BY <1>1, <1>2, <1>3, HeadTailProperties DEF Redeliver

(* A record appended to the topic leaves the others where they are.         *)
LEMMA AppendKeeps ==
    ASSUME topic \in Seq(Records), NEW r \in Records, topic' = Append(topic, r)
    PROVE  /\ topic' \in Seq(Records) /\ Len(topic) \in Nat /\ Len(topic') = Len(topic) + 1
           /\ DOMAIN topic = 1..Len(topic) /\ DOMAIN topic' = 1..(Len(topic) + 1)
           /\ \A i \in 1..Len(topic) : topic'[i] = topic[i]
           /\ topic'[Len(topic) + 1] = r
<1>1. topic' \in Seq(Records) /\ Len(topic') = Len(topic) + 1
  BY AppendProperties
<1> QED
  BY <1>1, AppendProperties, LenProperties

(* The copy a loop publishes of a record is a record again.                 *)
LEMMA CopyIsRecord ==
    ASSUME NEW r \in Records, NEW l \in Loops
    PROVE  [msg |-> r.msg, by |-> l] \in Records
BY DEF Records

(* Publishing a copy, or passing over a marked one, keeps the types.        *)
LEMMA RedeliverType ==
    ASSUME LoopTypeOK, NEW l \in Loops, Redeliver(l)
    PROVE  LoopTypeOK'
<1> DEFINE copy == [msg |-> batch[l][1].msg, by |-> l]
<1>1. /\ batch[l][1] \in Records
      /\ batch' = [batch EXCEPT ![l] = Tail(batch[l])] /\ Tail(batch[l]) \in Seq(Records)
      /\ UNCHANGED <<consumer, loop, pos, undo>>
      /\ topic' = topic \/ topic' = Append(topic, copy)
  BY RedeliverDoes
<1>2. copy \in Records
  BY <1>1, CopyIsRecord
<1>3. topic \in Seq(Records)
  BY DEF LoopTypeOK
<1> HIDE DEF copy
<1>4. topic' \in Seq(Records)
  BY <1>1, <1>2, <1>3, AppendKeeps
<1> QED
  BY <1>1, <1>4 DEF LoopTypeOK

(* Every record put on the topic is an original's successor or a copy.      *)
LEMMA LoopTypeInit == LoopInit => LoopTypeOK
<1> SUFFICES ASSUME LoopInit PROVE LoopTypeOK
  OBVIOUS
<1>1. <<>> \in Seq(Records)
  OBVIOUS
<1> QED
  BY <1>1 DEF LoopInit, LoopTypeOK

(* Every step of a loop, an undo or the system keeps the types.             *)
LEMMA LoopTypeStep == LoopTypeOK /\ [LoopNext]_loopVars => LoopTypeOK'
<1> SUFFICES ASSUME LoopTypeOK, [LoopNext]_loopVars PROVE LoopTypeOK'
  OBVIOUS
<1> USE LoopAssumption DEF LoopTypeOK
<1>1. ASSUME Publish PROVE LoopTypeOK'
  <2>1. [msg |-> Cardinality(Published) + 1, by |-> "sut"] \in Records
    BY <1>1, PublishedIsFinite DEF Publish, Records, Originals
  <2> QED
    BY <1>1, <2>1 DEF Publish
<1>2. ASSUME NEW l \in Loops, CreateConsumer(l) PROVE LoopTypeOK'
  BY <1>2 DEF CreateConsumer
<1>3. ASSUME NEW l \in Loops, Subscribe(l) PROVE LoopTypeOK'
  BY <1>3 DEF Subscribe
<1>4. ASSUME NEW l \in Loops, Tick(l) PROVE LoopTypeOK'
  <2>1. PICK n \in pos[l]..Len(topic) :
          /\ batch' = [batch EXCEPT ![l] = SubSeq(topic, pos[l] + 1, n)]
          /\ pos' = [pos EXCEPT ![l] = n]
    BY <1>4 DEF Tick
  <2>2. SubSeq(topic, pos[l] + 1, n) \in Seq(Records)
    BY <2>1
  <2> QED
    BY <1>4, <2>1, <2>2 DEF Tick
<1>5. ASSUME NEW l \in Loops, Redeliver(l) PROVE LoopTypeOK'
  BY <1>5, RedeliverType
<1>6. ASSUME NEW l \in Loops, BatchOver(l) PROVE LoopTypeOK'
  BY <1>6 DEF BatchOver
<1>7. ASSUME NEW l \in Loops, Stop(l) PROVE LoopTypeOK'
  BY <1>7 DEF Stop
<1>8. ASSUME NEW l \in Loops, Undo(l) PROVE LoopTypeOK'
  BY <1>8 DEF Undo
<1>9. ASSUME NEW l \in Loops, UndoReturns(l) PROVE LoopTypeOK'
  BY <1>9 DEF UndoReturns
<1>10. CASE UNCHANGED loopVars
  BY <1>10 DEF loopVars
<1> QED
  BY <1>1, <1>2, <1>3, <1>4, <1>5, <1>6, <1>7, <1>8, <1>9, <1>10
     DEF LoopNext, LoopStep, LoopsOver

(* A loop that takes one record off its batch still holds unread records of *)
(* the topic only.                                                          *)
LEMMA RedeliverBatch ==
    ASSUME LoopTypeOK, BatchInv, NEW l \in Loops, Redeliver(l)
    PROVE  BatchInv'
<1> DEFINE copy == [msg |-> batch[l][1].msg, by |-> l]
<1>a. /\ batch[l][1] \in Records /\ topic \in Seq(Records)
      /\ topic' = topic \/ topic' = Append(topic, copy)
  BY RedeliverDoes DEF LoopTypeOK
<1>b. copy \in Records
  BY <1>a, CopyIsRecord
<1>c. /\ batch' = [batch EXCEPT ![l] = Tail(batch[l])] /\ pos' = pos
      /\ Len(batch[l]) \in Nat \ {0} /\ Len(Tail(batch[l])) = Len(batch[l]) - 1
      /\ \A j \in 1..(Len(batch[l]) - 1) : Tail(batch[l])[j] = batch[l][j + 1]
  BY RedeliverDoes
<1> HIDE DEF copy
<1>1. /\ Len(topic) \in Nat /\ Len(topic') \in Nat /\ Len(topic) <= Len(topic')
      /\ \A i \in 1..Len(topic) : topic'[i] = topic[i]
  BY <1>a, <1>b, AppendKeeps, LenProperties
<1>2. pos' = pos /\ \A k \in Loops \ {l} : batch'[k] = batch[k]
  BY <1>c DEF LoopTypeOK
<1>3. /\ Handled(l)' = Handled(l) + 1 /\ Len(batch'[l]) = Len(batch[l]) - 1
      /\ Len(batch[l]) \in Nat
      /\ \A j \in 1..Len(batch'[l]) : batch'[l][j] = batch[l][j + 1]
  BY <1>c DEF LoopTypeOK, Handled
<1>4. ASSUME NEW k \in Loops, k # l
      PROVE  /\ pos'[k] <= Len(topic') /\ Handled(k)' \in Nat
             /\ \A j \in 1..Len(batch'[k]) : batch'[k][j] = topic'[Handled(k)' + j]
  <2>1. Len(batch[k]) \in Nat /\ batch'[k] = batch[k] /\ pos'[k] = pos[k]
    BY <1>2, <1>4 DEF LoopTypeOK
  <2>2. \A j \in 1..Len(batch[k]) : Handled(k) + j \in 1..Len(topic)
    BY <1>1, <2>1 DEF LoopTypeOK, BatchInv, Handled
  <2>3. Handled(k)' = Handled(k) /\ Handled(k) \in Nat /\ pos[k] <= Len(topic)
    BY <2>1 DEF BatchInv, Handled
  <2>4. ASSUME NEW j \in 1..Len(batch'[k]) PROVE batch'[k][j] = topic'[Handled(k)' + j]
    <3>1. batch[k][j] = topic[Handled(k) + j]
      BY <2>1, <2>4 DEF BatchInv
    <3> QED
      BY <1>1, <2>1, <2>2, <2>3, <2>4, <3>1
  <2> QED
    BY <1>1, <2>1, <2>3, <2>4 DEF LoopTypeOK
<1>5. /\ pos'[l] <= Len(topic') /\ Handled(l)' \in Nat
      /\ \A j \in 1..Len(batch'[l]) : batch'[l][j] = topic'[Handled(l)' + j]
  <2>1. \A j \in 1..(Len(batch[l]) - 1) : Handled(l) + (j + 1) \in 1..Len(topic)
    BY <1>1, <1>3 DEF LoopTypeOK, BatchInv, Handled
  <2>2. Handled(l) \in Nat /\ pos[l] <= Len(topic) /\ pos[l] \in Nat
    BY DEF BatchInv, LoopTypeOK
  <2>3. ASSUME NEW j \in 1..Len(batch'[l]) PROVE batch'[l][j] = topic'[Handled(l)' + j]
    <3>1. batch[l][j + 1] = topic[Handled(l) + (j + 1)]
      BY <1>3, <2>3 DEF BatchInv
    <3>2. Handled(l)' + j = Handled(l) + (j + 1)
      BY <1>3, <2>2, <2>3
    <3> QED
      BY <1>1, <1>3, <2>1, <2>3, <3>1, <3>2
  <2> QED
    BY <1>1, <1>2, <1>3, <2>2, <2>3
<1> QED
  BY <1>4, <1>5 DEF BatchInv

(* A poll hands over the records that follow, a redelivery takes one off.   *)
LEMMA BatchStep == LoopTypeOK /\ BatchInv /\ [LoopNext]_loopVars => BatchInv'
<1> SUFFICES ASSUME LoopTypeOK, BatchInv, [LoopNext]_loopVars PROVE BatchInv'
  OBVIOUS
<1> USE DEF LoopTypeOK, BatchInv, Handled
<1>1. ASSUME Publish PROVE BatchInv'
  BY <1>1 DEF Publish
<1>2. ASSUME NEW l \in Loops, CreateConsumer(l) \/ Subscribe(l) PROVE BatchInv'
  BY <1>2, SMTT(30) DEF CreateConsumer, Subscribe
<1>4. ASSUME NEW l \in Loops, Tick(l) PROVE BatchInv'
  <2>1. PICK n \in pos[l]..Len(topic) :
          /\ batch' = [batch EXCEPT ![l] = SubSeq(topic, pos[l] + 1, n)]
          /\ pos' = [pos EXCEPT ![l] = n]
    BY <1>4 DEF Tick
  <2>2. Len(SubSeq(topic, pos[l] + 1, n)) = n - pos[l]
    BY <2>1
  <2>3. \A j \in 1..(n - pos[l]) : SubSeq(topic, pos[l] + 1, n)[j] = topic[pos[l] + j]
    BY <2>1
  <2>4. /\ pos'[l] = n /\ Len(batch'[l]) = n - pos[l] /\ topic' = topic
        /\ \A j \in 1..Len(batch'[l]) : batch'[l][j] = topic[pos[l] + j]
    BY <1>4, <2>1, <2>2, <2>3 DEF Tick
  <2>5. \A k \in Loops \ {l} : pos'[k] = pos[k] /\ batch'[k] = batch[k]
    BY <2>1
  <2>6. /\ pos'[l] <= Len(topic') /\ Handled(l)' = pos[l] /\ pos[l] \in Nat
    <3>1. pos[l] \in Nat /\ Len(topic) \in Nat /\ n \in Nat /\ n <= Len(topic)
      BY <2>1
    <3>2. pos'[l] - Len(batch'[l]) = pos[l]
      BY <2>4, <3>1
    <3> QED
      BY <2>4, <3>1, <3>2
  <2>7. ASSUME NEW k \in Loops, k # l
        PROVE  /\ pos'[k] <= Len(topic') /\ Handled(k)' \in Nat
               /\ \A j \in 1..Len(batch'[k]) : batch'[k][j] = topic'[Handled(k)' + j]
    <3>1. pos'[k] = pos[k] /\ batch'[k] = batch[k] /\ topic' = topic
      BY <2>4, <2>5, <2>7
    <3>2. Handled(k)' = Handled(k)
      BY <3>1
    <3> HIDE DEF Handled
    <3> QED
      BY <3>1, <3>2, <2>7
  <2> HIDE DEF Handled, LoopTypeOK
  <2> QED
    BY <2>4, <2>6, <2>7, SMTT(30)
<1>5. ASSUME NEW l \in Loops, Redeliver(l) PROVE BatchInv'
  BY <1>5, RedeliverBatch
<1>6. ASSUME NEW l \in Loops, BatchOver(l) \/ Stop(l) \/ Undo(l) \/ UndoReturns(l) PROVE BatchInv'
  BY <1>6 DEF BatchOver, Stop, Undo, UndoReturns
<1>7. CASE UNCHANGED loopVars
  BY <1>7 DEF loopVars
<1> QED
  BY <1>1, <1>2, <1>4, <1>5, <1>6, <1>7 DEF LoopNext, LoopStep, LoopsOver

(* A step that leaves the topic alone lets the loops at most handle more.   *)
LEMMA OnceKept ==
    ASSUME LoopTypeOK, BatchInv, OnceInv, topic' = topic,
           \A l \in Loops : Handled(l)' \in Nat /\ Handled(l) <= Handled(l)'
    PROVE  OnceInv'
<1>1. Published' = Published
  BY DEF Published
<1>2. ASSUME NEW i \in DOMAIN topic, NEW l \in Loops, topic[i].by = l
      PROVE  \E j \in 1..Handled(l)' :
                 j \in DOMAIN topic /\ topic[j] = [msg |-> topic[i].msg, by |-> "sut"]
  <2>1. PICK j \in 1..Handled(l) :
             j \in DOMAIN topic /\ topic[j] = [msg |-> topic[i].msg, by |-> "sut"]
    BY <1>2 DEF OnceInv
  <2>2. Handled(l) \in Nat
    BY <1>2 DEF BatchInv
  <2>3. j \in 1..Handled(l)'
    BY <1>2, <2>1, <2>2
  <2> QED
    BY <2>1, <2>3
<1> QED
  BY <1>1, <1>2 DEF OnceInv

(* A published message has a number of its own, and no copy is the system's. *)
LEMMA OncePublish ==
    ASSUME LoopTypeOK, BatchInv, OnceInv, Publish
    PROVE  OnceInv'
<1> DEFINE new == [msg |-> Cardinality(Published) + 1, by |-> "sut"]
           n == Len(topic)
<1>1. topic \in Seq(Records) /\ topic' = Append(topic, new) /\ \A l \in Loops : Handled(l)' = Handled(l)
  BY DEF LoopTypeOK, Publish, Handled
<1>2. IsFiniteSet(Published) /\ Cardinality(Published) \in Nat
  BY <1>1, PublishedIsFinite
<1>3. new \in Records /\ new.by = "sut" /\ new.msg = Cardinality(Published) + 1
  BY <1>2, LoopAssumption DEF Publish, Records, Originals
<1> HIDE DEF new
<1>4. /\ n \in Nat /\ DOMAIN topic = 1..n /\ DOMAIN topic' = 1..(n + 1)
      /\ \A i \in 1..n : topic'[i] = topic[i]
      /\ topic'[n + 1] = new
  BY <1>1, <1>3, AppendKeeps
<1>5. Published' = Published \cup {n + 1} /\ n + 1 \notin Published
  BY <1>3, <1>4 DEF Published
<1>6. Cardinality(Published)' = Cardinality(Published) + 1
  BY <1>2, <1>5, FS_AddElement
<1>7. ASSUME NEW i \in 1..n PROVE topic[i] # new
  BY <1>2, <1>3, <1>4 DEF OnceInv, Published
<1>8. ASSUME NEW i \in 1..(n + 1), NEW j \in 1..(n + 1), topic'[i] = topic'[j] PROVE i = j
  BY <1>4, <1>7, <1>8 DEF OnceInv
<1>9. ASSUME NEW i \in Published' PROVE topic'[i].msg <= Cardinality(Published)'
  <2>1. CASE i \in Published
    <3>1. i \in 1..n /\ topic'[i] = topic[i]
      BY <1>4, <2>1 DEF Published
    <3>a. topic[i] \in Records
      BY <1>1, <3>1, ElementOfSeq
    <3>b. topic[i].msg \in Nat
      BY <3>a DEF Records, Originals
    <3>2. topic[i].msg <= Cardinality(Published)
      BY <2>1 DEF OnceInv
    <3> QED
      BY <1>2, <1>6, <3>1, <3>b, <3>2
  <2>2. CASE i = n + 1
    BY <1>2, <1>3, <1>4, <1>6, <2>2
  <2> QED
    BY <1>5, <1>9, <2>1, <2>2
<1>10. ASSUME NEW i \in DOMAIN topic', NEW l \in Loops, topic'[i].by = l
       PROVE  \E j \in 1..Handled(l)' :
                  j \in DOMAIN topic' /\ topic'[j] = [msg |-> topic'[i].msg, by |-> "sut"]
  <2>1. i \in 1..n /\ topic'[i] = topic[i]
    BY <1>3, <1>4, <1>10, LoopAssumption
  <2>2. PICK j \in 1..Handled(l) :
             j \in DOMAIN topic /\ topic[j] = [msg |-> topic[i].msg, by |-> "sut"]
    BY <1>4, <1>10, <2>1 DEF OnceInv
  <2>3. Handled(l)' = Handled(l)
    BY <1>1
  <2>4. j \in 1..n /\ j \in 1..(n + 1) /\ topic'[j] = topic[j]
    BY <1>4, <2>2
  <2> QED
    BY <1>4, <2>1, <2>2, <2>3, <2>4
<1> QED
  BY <1>4, <1>8, <1>9, <1>10 DEF OnceInv

(* The first record of the batch follows the handled ones; a copy made of   *)
(* it before would have had its original among those, so twice on the topic. *)
LEMMA OnceRedeliver ==
    ASSUME LoopTypeOK, BatchInv, OnceInv, BatchInv', NEW l \in Loops, Redeliver(l)
    PROVE  OnceInv'
<1> DEFINE r == batch[l][1]
           copy == [msg |-> r.msg, by |-> l]
           n == Len(topic)
           p == Handled(l) + 1
<1>1. /\ r \in Records /\ topic \in Seq(Records) /\ Len(batch[l]) \in Nat \ {0}
      /\ \/ topic' = topic
         \/ r.by = "sut" /\ topic' = Append(topic, copy)
  BY RedeliverDoes DEF LoopTypeOK
<1>2. /\ \A k \in Loops \ {l} : Handled(k)' = Handled(k)
      /\ Handled(l)' = p
  <2> HIDE DEF r, copy, n
  <2>1. /\ batch' = [batch EXCEPT ![l] = Tail(batch[l])] /\ pos' = pos
        /\ Len(Tail(batch[l])) = Len(batch[l]) - 1
    BY RedeliverDoes
  <2>2. batch'[l] = Tail(batch[l]) /\ pos[l] \in Nat /\ \A k \in Loops \ {l} : batch'[k] = batch[k]
    BY <2>1 DEF LoopTypeOK
  <2>3. \A k \in Loops \ {l} : Handled(k)' = Handled(k)
    BY <2>1, <2>2 DEF Handled
  <2>4. pos'[l] = pos[l] /\ Len(batch'[l]) = Len(batch[l]) - 1 /\ Len(batch[l]) \in Nat
    BY <1>1, <2>1, <2>2
  <2>5. pos'[l] - Len(batch'[l]) = pos[l] - Len(batch[l]) + 1
    BY <2>2, <2>4
  <2> QED
    BY <2>3, <2>5 DEF Handled
<1>3. /\ \A k \in Loops : Handled(k) \in Nat
      /\ p \in 1..n /\ topic[p] = r
  BY <1>1 DEF BatchInv, LoopTypeOK, Handled
<1>4. CASE topic' = topic
  <2> HIDE DEF r, copy, n, p
  <2>1. \A k \in Loops : Handled(k)' \in Nat /\ Handled(k) <= Handled(k)'
    BY <1>2, <1>3 DEF p
  <2> QED
    BY <1>4, <2>1, OnceKept
<1>5. CASE r.by = "sut" /\ topic' = Append(topic, copy)
  <2>1. copy \in Records /\ copy.by = l /\ copy.msg = r.msg
    BY <1>1, CopyIsRecord
  <2>2. r = [msg |-> r.msg, by |-> "sut"]
    BY <1>1, <1>5 DEF Records
  <2> HIDE DEF copy, p, r
  <2>3. /\ n \in Nat /\ DOMAIN topic = 1..n /\ DOMAIN topic' = 1..(n + 1)
        /\ \A i \in 1..n : topic'[i] = topic[i]
        /\ topic'[n + 1] = copy
    BY <1>1, <1>5, <2>1, AppendKeeps
  <2> HIDE DEF n
  <2>4. Published' = Published
    BY <2>1, <2>3, LoopAssumption DEF Published
  <2>5. ASSUME NEW i \in 1..n PROVE topic[i] # copy
    <3> SUFFICES ASSUME topic[i] = copy PROVE FALSE
      OBVIOUS
    <3>1. PICK j \in 1..Handled(l) : j \in DOMAIN topic /\ topic[j] = [msg |-> topic[i].msg, by |-> "sut"]
      BY <2>1, <2>3, <2>5 DEF OnceInv
    <3>2. topic[j] = topic[p]
      BY <1>3, <2>1, <2>2, <3>1
    <3>3. j = p
      BY <1>3, <2>3, <3>1, <3>2 DEF OnceInv
    <3> QED
      BY <1>3, <3>1, <3>3 DEF p
  <2>6. ASSUME NEW i \in 1..(n + 1), NEW j \in 1..(n + 1), topic'[i] = topic'[j] PROVE i = j
    BY <2>3, <2>5, <2>6 DEF OnceInv
  <2>7. ASSUME NEW i \in Published PROVE topic'[i].msg <= Cardinality(Published)
    BY <2>3, <2>7 DEF OnceInv, Published
  <2>8. ASSUME NEW i \in 1..n, NEW k \in Loops, topic'[i].by = k
        PROVE  \E j \in 1..Handled(k)' :
                   j \in 1..n /\ topic'[j] = [msg |-> topic'[i].msg, by |-> "sut"]
    <3>1. PICK j \in 1..Handled(k) : j \in 1..n /\ topic[j] = [msg |-> topic[i].msg, by |-> "sut"]
      BY <2>3, <2>8 DEF OnceInv
    <3>2. j \in 1..Handled(k)'
      BY <1>2, <1>3, <3>1 DEF p
    <3> QED
      BY <2>3, <2>8, <3>1, <3>2
  <2>9. ASSUME NEW k \in Loops, copy.by = k
        PROVE  \E j \in 1..Handled(k)' :
                   j \in 1..n /\ topic'[j] = [msg |-> copy.msg, by |-> "sut"]
    <3>1. p \in 1..Handled(k)'
      BY <1>2, <1>3, <2>1, <2>9 DEF p
    <3> QED
      BY <1>3, <2>1, <2>2, <2>3, <3>1
  <2>10. ASSUME NEW i \in 1..(n + 1), NEW k \in Loops, topic'[i].by = k
         PROVE  \E j \in 1..Handled(k)' :
                    j \in 1..(n + 1) /\ topic'[j] = [msg |-> topic'[i].msg, by |-> "sut"]
    <3>1. CASE i \in 1..n
      BY <2>3, <2>8, <2>10, <3>1
    <3>2. CASE i = n + 1
      BY <2>3, <2>9, <2>10, <3>2
    <3> QED
      BY <2>3, <2>10, <3>1, <3>2
  <2> QED
    BY <2>3, <2>4, <2>6, <2>7, <2>10 DEF OnceInv
<1> QED
  BY <1>1, <1>4, <1>5

(* No step copies a message a second time for the same loop.                *)
LEMMA OnceStep == LoopTypeOK /\ BatchInv /\ OnceInv /\ BatchInv' /\ [LoopNext]_loopVars => OnceInv'
<1> SUFFICES ASSUME LoopTypeOK, BatchInv, OnceInv, BatchInv', [LoopNext]_loopVars PROVE OnceInv'
  OBVIOUS
<1>1. ASSUME Publish PROVE OnceInv'
  BY <1>1, OncePublish
<1>2. ASSUME NEW l \in Loops, Redeliver(l) PROVE OnceInv'
  BY <1>2, OnceRedeliver
<1>3. ASSUME NEW l \in Loops, Tick(l) PROVE OnceInv'
  <2>1. PICK n \in pos[l]..Len(topic) :
          /\ batch' = [batch EXCEPT ![l] = SubSeq(topic, pos[l] + 1, n)]
          /\ pos' = [pos EXCEPT ![l] = n]
    BY <1>3 DEF Tick
  <2>2. Len(SubSeq(topic, pos[l] + 1, n)) = n - pos[l]
    BY <2>1 DEF LoopTypeOK
  <2>3. Handled(l)' = pos[l] /\ pos[l] \in Nat /\ Len(batch[l]) \in Nat
    BY <2>1, <2>2 DEF Handled, LoopTypeOK
  <2>4. Handled(l) <= Handled(l)'
    BY <2>3 DEF Handled
  <2>5. \A k \in Loops \ {l} : Handled(k)' = Handled(k)
    BY <2>1 DEF Handled, LoopTypeOK
  <2>6. \A k \in Loops : Handled(k) \in Nat
    BY DEF BatchInv
  <2>7. \A k \in Loops : Handled(k)' \in Nat /\ Handled(k) <= Handled(k)'
    BY <2>3, <2>4, <2>5, <2>6
  <2> QED
    BY <1>3, <2>7, OnceKept DEF Tick
<1>4. ASSUME UNCHANGED <<topic, pos, batch>> PROVE OnceInv'
  <2>1. \A k \in Loops : Handled(k)' = Handled(k) /\ Handled(k) \in Nat
    BY <1>4 DEF Handled, BatchInv
  <2> QED
    BY <1>4, <2>1, OnceKept
<1>5. ASSUME NEW l \in Loops,
             CreateConsumer(l) \/ Subscribe(l) \/ BatchOver(l) \/ Stop(l) \/ Undo(l) \/ UndoReturns(l)
      PROVE  UNCHANGED <<topic, pos, batch>>
  BY <1>5 DEF CreateConsumer, Subscribe, BatchOver, Stop, Undo, UndoReturns
<1>6. ASSUME UNCHANGED loopVars PROVE UNCHANGED <<topic, pos, batch>>
  BY <1>6 DEF loopVars
<1> QED
  BY <1>1, <1>2, <1>3, <1>4, <1>5, <1>6 DEF LoopNext, LoopStep, LoopsOver

(* No step lets an undo return before its loop has closed done.             *)
LEMMA UndoStep == LoopTypeOK /\ UndoInv /\ [LoopNext]_loopVars => UndoInv'
<1> SUFFICES ASSUME LoopTypeOK, UndoInv, [LoopNext]_loopVars PROVE UndoInv'
  OBVIOUS
<1>1. ASSUME Publish PROVE UndoInv'
  BY <1>1 DEF Publish, UndoInv
<1>2. ASSUME NEW l \in Loops, LoopStep(l) \/ Undo(l) PROVE UndoInv'
  BY <1>2 DEF LoopStep, CreateConsumer, Subscribe, Tick, Redeliver, BatchOver, Stop, Undo, UndoReturns,
     UndoInv, LoopTypeOK
<1>3. ASSUME UNCHANGED loopVars PROVE UndoInv'
  BY <1>3 DEF loopVars, UndoInv
<1> QED
  BY <1>1, <1>2, <1>3 DEF LoopNext, LoopsOver

(* In every state of the loops on a topic a batch is the end of what was    *)
(* given to its loop, no record is there twice, and a returned undo has a   *)
(* loop that is done.                                                       *)
THEOREM LoopInvariance == LoopSpec => [](LoopTypeOK /\ BatchInv /\ OnceInv /\ UndoInv)
<1>1. LoopInit => LoopTypeOK /\ BatchInv /\ OnceInv /\ UndoInv
  <2> SUFFICES ASSUME LoopInit PROVE LoopTypeOK /\ BatchInv /\ OnceInv /\ UndoInv
    OBVIOUS
  <2>1. LoopTypeOK
    BY LoopTypeInit
  <2>2. Len(topic) = 0 /\ DOMAIN topic = {} /\ \A l \in Loops : pos[l] = 0 /\ Len(batch[l]) = 0
    BY DEF LoopInit
  <2>3. BatchInv
    BY <2>2 DEF BatchInv, Handled
  <2>4. OnceInv
    BY <2>2 DEF OnceInv, Published
  <2> QED
    BY <2>1, <2>3, <2>4 DEF LoopInit, UndoInv
<1>2. LoopTypeOK /\ BatchInv /\ OnceInv /\ UndoInv /\ [LoopNext]_loopVars
        => (LoopTypeOK /\ BatchInv /\ OnceInv /\ UndoInv)'
  BY LoopTypeStep, BatchStep, OnceStep, UndoStep
<1> QED
  BY <1>1, <1>2, PTL DEF LoopSpec

(* However many loops feed on each other's output, and however many         *)
(* messages the system publishes, a loop copies a message once at most.     *)
THEOREM Amplification == LoopSpec => []AmplificationBounded
<1>1. LoopTypeOK /\ OnceInv => AmplificationBounded
  <2> SUFFICES ASSUME LoopTypeOK, OnceInv, NEW l \in Loops, NEW m \in Originals
               PROVE  Cardinality({i \in DOMAIN topic : topic[i] = [msg |-> m, by |-> l]}) <= 1
    BY DEF AmplificationBounded
  <2> DEFINE S == {i \in DOMAIN topic : topic[i] = [msg |-> m, by |-> l]}
  <2>1. \A i, j \in S : i = j
    BY DEF OnceInv
  <2> HIDE DEF S
  <2>2. S = {} \/ \E i : S = {i}
    BY <2>1
  <2>3. Cardinality(S) = 0 \/ Cardinality(S) = 1
    BY <2>2, FS_EmptySet, FS_Singleton
  <2> QED
    BY <2>3 DEF S
<1> QED
  BY <1>1, LoopInvariance, PTL

(* No copy is published once the undo has returned: no step of the loop is  *)
(* left by then, so there is no poll to be in the middle of.                *)
THEOREM NoCopyOnceUndone == LoopSpec => NoCopyAfterUndo
<1> DEFINE Kept == \A l \in Loops : undo[l] = "returned" =>
                     \A i \in (Len(topic) + 1)..Len(topic') : topic'[i].by # l
<1>1. LoopTypeOK /\ BatchInv /\ UndoInv /\ [LoopNext]_loopVars => [Kept]_loopVars
  <2> SUFFICES ASSUME LoopTypeOK, UndoInv, [LoopNext]_loopVars,
                      NEW l \in Loops, undo[l] = "returned",
                      NEW i \in (Len(topic) + 1)..Len(topic')
               PROVE  topic'[i].by # l
    OBVIOUS
  <2>1. topic \in Seq(Records) /\ Len(topic) \in Nat /\ loop[l] = "done"
    BY DEF LoopTypeOK, UndoInv
  <2>2. topic' # topic
    BY <2>1
  <2>3. CASE Publish
    <3> DEFINE new == [msg |-> Cardinality(Published) + 1, by |-> "sut"]
    <3>1. new \in Records /\ topic' = Append(topic, new) /\ new.by = "sut"
      BY <2>1, <2>3, PublishedIsFinite, LoopAssumption DEF Publish, Records, Originals
    <3> HIDE DEF new
    <3>2. i = Len(topic) + 1 /\ topic'[i] = new
      BY <2>1, <3>1, AppendKeeps
    <3> QED
      BY <3>1, <3>2, LoopAssumption
  <2>4. ASSUME NEW k \in Loops, Redeliver(k) PROVE topic'[i].by # l
    <3> DEFINE copy == [msg |-> batch[k][1].msg, by |-> k]
    <3>1. loop[k] = "publish" /\ batch[k][1] \in Records /\ topic' = Append(topic, copy)
      BY <2>2, <2>4, RedeliverDoes
    <3>2. copy \in Records /\ copy.by = k /\ k # l
      BY <2>1, <3>1, CopyIsRecord
    <3> HIDE DEF copy
    <3>3. i = Len(topic) + 1 /\ topic'[i] = copy
      BY <2>1, <3>1, <3>2, AppendKeeps
    <3> QED
      BY <3>2, <3>3
  <2>5. ASSUME NEW k \in Loops,
               CreateConsumer(k) \/ Subscribe(k) \/ Tick(k) \/ BatchOver(k) \/ Stop(k) \/ Undo(k) \/ UndoReturns(k)
        PROVE  FALSE
    BY <2>2, <2>5 DEF CreateConsumer, Subscribe, Tick, BatchOver, Stop, Undo, UndoReturns
  <2>6. CASE UNCHANGED loopVars
    BY <2>2, <2>6 DEF loopVars
  <2> QED
    BY <2>3, <2>4, <2>5, <2>6 DEF LoopNext, LoopStep, LoopsOver
<1> QED
  BY <1>1, LoopInvariance, PTL DEF LoopSpec, NoCopyAfterUndo

=============================================================================
