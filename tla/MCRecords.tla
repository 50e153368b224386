----------------------------- MODULE MCRecords -----------------------------
(* What a run reports and what keeps it, for TLC: the verdict and the       *)
(* trace behind a cause, the trend store that keeps verdicts and its        *)
(* report, and the recorder with its replay.  A behaviour is one of one of  *)
(* them, chosen at the start, with the others at rest.                      *)
EXTENDS MCVerdict, MCStores

judgeVars == <<verdictVars, traceVars>>

RecordsInit ==
    \/ store = "verdict" /\ MCInit /\ StoreInit /\ ReportInit /\ RecorderInit /\ ReplayInit
    \/ AllInit /\ run = BaseRun /\ stage = "idle" /\ verdict = NoVerdict
               /\ spans = <<>> /\ hops = <<>> /\ climb = "done"

(* The document is written, or the climb has reached its end. *)
Judged == stage \in {"idle", "done"} /\ climb = "done" /\ UNCHANGED judgeVars

RecordsNext ==
    \/ AllNext /\ UNCHANGED judgeVars
    \/ store = "verdict" /\ (MCNext \/ Judged) /\ UNCHANGED allVars

RecordsSpec ==
    /\ RecordsInit /\ [][RecordsNext]_<<allVars, judgeVars>>
    /\ \A w \in Writers :
         WF_<<allVars, judgeVars>>(/\ store = "trend" /\ AppendStep(w)
                                   /\ UNCHANGED <<store, records, captureVars, judgeVars>>)

=============================================================================
