---------------------------- MODULE RunContract ----------------------------
(***************************************************************************)
(* What one run promises its user, without goroutines, registries or       *)
(* closures: each fault goes off -> live -> lifted once, exactly one       *)
(* verdict is given, and a pass or fail verdict comes only when every      *)
(* fault was injected and lifted again.  FaultRun implements it.           *)
(***************************************************************************)
CONSTANT Faults

VARIABLES
    effect,       \* what each fault is doing to the system under test
    verdict,      \* the verdict's status, "none" until there is one
    interrupted   \* a signal has been taken up

cvars == <<effect, verdict, interrupted>>

Lifted == {"undone", "stuck"}

CInit ==
    /\ effect = [f \in Faults |-> "off"]
    /\ verdict = "none"
    /\ interrupted = FALSE

(* After a pass or fail verdict nothing is injected any more. An injection  *)
(* that is reported as failed may leave an effect that is never lifted.     *)
Inject(f) ==
    /\ effect[f] = "off"
    /\ verdict \notin {"pass", "fail"}
    /\ \E e \in {"live", "stray"} : effect' = [effect EXCEPT ![f] = e]
    /\ UNCHANGED <<verdict, interrupted>>

(* Lifting may fail, and is not tried again. *)
Lift(f) ==
    /\ effect[f] = "live"
    /\ \E e \in Lifted : effect' = [effect EXCEPT ![f] = e]
    /\ UNCHANGED <<verdict, interrupted>>

Interrupt ==
    /\ ~interrupted
    /\ interrupted' = TRUE
    /\ UNCHANGED <<effect, verdict>>

(* Only an interrupted run may complete with a fault still being lifted. *)
Conclude(s) ==
    /\ verdict = "none"
    /\ s \in {"pass", "fail"} => \A f \in Faults :
         effect[f] \in Lifted \/ (interrupted /\ effect[f] = "live")
    /\ verdict' = s
    /\ UNCHANGED <<effect, interrupted>>

CNext ==
    \/ \E f \in Faults : Inject(f) \/ Lift(f)
    \/ \E s \in {"pass", "fail", "error", "aborted"} : Conclude(s)
    \/ Interrupt

ContractSpec == CInit /\ [][CNext]_cvars

=============================================================================
