------------------------------ MODULE MockCycle ------------------------------
(***************************************************************************)
(* An error_rate fault on a mocked host (internal/applier, WireMock):      *)
(* CycleLen stub mappings are created one by one, each bound to one state  *)
(* of a scenario and moving it on to the next, so that requests of the     *)
(* system under test are answered by a fixed cycle of errors and successes.*)
(* A failed creation rolls back, the undo deletes mapping by mapping.      *)
(***************************************************************************)
EXTENDS Integers, Sequences, FiniteSets

CONSTANTS
    CycleLen,      \* errorRateCycleLen
    Num, Den,      \* the requested rate is Num / Den
    MockTroubles   \* "create": a creation may fail, "delete": a deletion may

ASSUME CycleAssumption ==
    /\ CycleLen \in Nat \ {0} /\ Den \in Nat \ {0} /\ Num \in 0..Den
    /\ MockTroubles \subseteq {"create", "delete"}

VARIABLES
    phase,    \* of ApplyErrorRate and its undo
    ids,      \* the mappings created so far, by their place in the cycle
    stubs,    \* the mappings WireMock has
    state,    \* the scenario's state
    todo,     \* the ids a rollback or undo has yet to delete
    kept,     \* the mappings whose deletion failed
    answers   \* the answers of the complete cycle since it was last complete

cycleVars == <<phase, ids, stubs, state, todo, kept, answers>>

Cycle == 0..(CycleLen - 1)

(* approximateErrorRate: int(rate * CycleLen + 0.5). *)
ErrorCount == (2 * Num * CycleLen + Den) \div (2 * Den)
Approximated == ErrorCount * Den # Num * CycleLen

CycleTypeOK ==
    /\ phase \in {"idle", "creating", "rollback", "failed", "live", "undoing", "undone", "stuck"}
    /\ ids \in 0..CycleLen
    /\ stubs \in SUBSET Cycle /\ state \in Cycle /\ todo \in SUBSET Cycle
    /\ kept \in SUBSET Cycle
    /\ answers \in Seq({"error", "ok"}) /\ Len(answers) <= CycleLen

CycleInit ==
    /\ phase = "idle" /\ ids = 0 /\ stubs = {} /\ state = 0 /\ todo = {}
    /\ kept = {} /\ answers = <<>>

StartApply ==
    /\ phase = "idle"
    /\ phase' = "creating"
    /\ UNCHANGED <<ids, stubs, state, todo, kept, answers>>

(* Mutant: one mapping too many. *)
Create_OffByOne ==
    /\ phase = "creating" /\ ids <= CycleLen
    /\ stubs' = stubs \cup {ids} /\ ids' = ids + 1
    /\ UNCHANGED <<phase, state, todo, kept, answers>>

(* POST /__admin/mappings of the next mapping. *)
Create ==
    /\ phase = "creating" /\ ids < CycleLen
    /\ stubs' = stubs \cup {ids} /\ ids' = ids + 1
    /\ UNCHANGED <<phase, state, todo, kept, answers>>

(* Mutant: the mappings created before the failure stay. *)
CreateFails_NoRollback ==
    /\ "create" \in MockTroubles
    /\ phase = "creating" /\ ids < CycleLen
    /\ stubs' \in {stubs, stubs \cup {ids}}
    /\ phase' = "rollback" /\ todo' = {}
    /\ UNCHANGED <<ids, state, kept, answers>>

(* The creation fails, or WireMock made the mapping and its answer is lost *)
(* or names no id: the rollback knows the earlier ids only.                *)
CreateFails ==
    /\ "create" \in MockTroubles
    /\ phase = "creating" /\ ids < CycleLen
    /\ stubs' \in {stubs, stubs \cup {ids}}
    /\ phase' = "rollback" /\ todo' = 0..(ids - 1)
    /\ UNCHANGED <<ids, state, kept, answers>>

Applied ==
    /\ phase = "creating" /\ ids = CycleLen
    /\ phase' = "live"
    /\ UNCHANGED <<ids, stubs, state, todo, kept, answers>>

StartUndo ==
    /\ phase = "live"
    /\ phase' = "undoing" /\ todo' = 0..(ids - 1)
    /\ UNCHANGED <<ids, stubs, state, kept, answers>>

(* DELETE of one mapping, in the order of creation; a failure, which may   *)
(* come after the deletion, is remembered and the loop goes on.            *)
Delete(i) ==
    /\ phase \in {"rollback", "undoing"} /\ i \in todo
    /\ \A j \in todo : i <= j
    /\ \/ stubs' = stubs \ {i} /\ UNCHANGED kept
       \/ /\ "delete" \in MockTroubles
          /\ stubs' \in {stubs, stubs \ {i}} /\ kept' = kept \cup {i}
    /\ todo' = todo \ {i} /\ answers' = <<>>
    /\ UNCHANGED <<phase, ids, state>>

(* The rollback's errors are dropped, the undo's become its result. *)
Deleted ==
    /\ phase \in {"rollback", "undoing"} /\ todo = {}
    /\ phase' = IF phase = "rollback" THEN "failed" ELSE IF kept # {} THEN "stuck" ELSE "undone"
    /\ UNCHANGED <<ids, stubs, state, todo, kept, answers>>

(* Mutant: an off-by-one in which states answer with the error. *)
Answer_OffByOne(i) == IF i <= ErrorCount THEN "error" ELSE "ok"

(* errorRateMappings. *)
Answer(i) == IF i < ErrorCount THEN "error" ELSE "ok"

(* A request of the system under test.  WireMock takes the mapping of the  *)
(* scenario's state if it has one, and the mock's own stub otherwise.      *)
Request ==
    /\ IF state \in stubs
       THEN /\ state' = (state + 1) % CycleLen
            /\ answers' = IF stubs # Cycle THEN answers
                          ELSE IF Len(answers) < CycleLen THEN Append(answers, Answer(state))
                          ELSE Append(Tail(answers), Answer(state))
       ELSE UNCHANGED <<state, answers>>
    /\ UNCHANGED <<phase, ids, stubs, todo, kept>>

CycleNext ==
    \/ StartApply \/ Create \/ CreateFails \/ Applied \/ StartUndo
    \/ (\E i \in Cycle : Delete(i)) \/ Deleted \/ Request

CycleSpec == CycleInit /\ [][CycleNext]_cycleVars

-----------------------------------------------------------------------------

(* R-EXE-22: whatever state the requests of the creation phase left the     *)
(* scenario in, any CycleLen consecutive requests get exactly ErrorCount    *)
(* errors.                                                                  *)
RateIsExact ==
    Len(answers) = CycleLen =>
        Cardinality({i \in DOMAIN answers : answers[i] = "error"}) = ErrorCount

(* R-EXE-18: "after it runs, the mock host's behaviour is exactly what it   *)
(* was before": no mapping survives an undo that reports success, a failed  *)
(* deletion costs at most the mapping it was for, and an apply that failed  *)
(* leaves besides at most the one mapping whose id it never learned.        *)
MockRestored ==
    /\ phase = "undone" => stubs = {}
    /\ phase = "stuck"  => stubs \subseteq kept
    /\ phase = "failed" => stubs \subseteq kept \cup {ids}

=============================================================================
