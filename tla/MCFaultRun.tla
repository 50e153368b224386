----------------------------- MODULE MCFaultRun -----------------------------
(* Small instances of FaultRun for TLC. *)
EXTENDS FaultRunInv

(* Bounds: two faults, two stages. *)
CONSTANTS f1, f2

(* A t= fault that lives until the end and a for: fault anchored to stage 1. *)
NetKind   == f1 :> "manager" @@ f2 :> "expiring"
(* Two for: faults racing their timers in the same tracker. *)
ForKind   == f1 :> "expiring" @@ f2 :> "expiring"

FirstTimed == f1 :> 0 @@ f2 :> 1

=============================================================================
