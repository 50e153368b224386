----------------------------- MODULE MCAppliers -----------------------------
(* The three appliers for TLC.  They share no state and no goroutine, so a *)
(* behaviour of this module is a behaviour of one of them, chosen at the   *)
(* start, with the others at rest.                                         *)
EXTENDS NetAppliers, MockCycle, DuplicateLoop, TLC

(* Bounds: three faults on one dependency, two duplicate faults and two    *)
(* messages, a cycle of six states: the code's twenty enter as a modulus   *)
(* and a loop bound only, and each deletion may fail on its own.           *)
CONSTANTS f1, f2, f3

(* One verb of each shape; the toxics differ in nothing but their name. *)
EveryScenario == [Faults -> {"latency", "down"} \cup DockerVerbs]
TwoLimits     == [Faults -> {"cpu_limit"}]
AskedLimit    == [f \in Faults |-> IF f = f1 THEN 250 ELSE 750]

VARIABLE part

allVars == <<part, vars, cycleVars, loopVars>>

AllInit ==
    /\ part \in {"net", "mock", "loop"}
    /\ Init /\ CycleInit /\ LoopInit
    /\ part # "net" => verb = CHOOSE v \in Scenarios : TRUE

AllNext ==
    \/ part = "net"  /\ Next      /\ UNCHANGED <<part, cycleVars, loopVars>>
    \/ part = "mock" /\ CycleNext /\ UNCHANGED <<part, vars, loopVars>>
    \/ part = "loop" /\ LoopNext  /\ UNCHANGED <<part, vars, cycleVars>>

(* Fairness matters to the loops alone: their goroutines run, calls end,   *)
(* and a select that keeps finding stop closed takes it one day.           *)
AllSpec ==
    /\ AllInit /\ [][AllNext]_allVars
    /\ \A l \in Loops :
         /\ WF_allVars(part = "loop" /\ LoopStep(l) /\ UNCHANGED <<part, vars, cycleVars>>)
         /\ SF_allVars(part = "loop" /\ Stop(l) /\ UNCHANGED <<part, vars, cycleVars>>)

(* The appliers' own state, and what the mock server and the broker hold,   *)
(* have the shapes the code gives them.                                     *)
AllTypeOK == TypeOK /\ CycleTypeOK /\ LoopTypeOK

=============================================================================
