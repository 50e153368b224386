------------------------------ MODULE MCStores ------------------------------
(* The trend store, its report and the recorder with the replay of what it *)
(* leaves, for TLC.  They are separate commands: a behaviour of this module *)
(* is one of one of them, chosen at the start, with the others at rest.     *)
EXTENDS TrendStore, TrendReport, Replay, TLC

(* Bounds: three writers, four records of two scenarios and one assertion, *)
(* three requests and six clock readings, two for each of them.            *)
VARIABLE store

Leaf(number, value) == [number |-> number, value |-> value]

Document(s, c, status, findings, metrics) ==
    [scenario |-> s, commit |-> c, status |-> status, findings |-> findings, metrics |-> metrics]

Found(id, fault, unevaluated) ==
    {[id |-> id, broke |-> "p95", fault |-> fault, unevaluated |-> unevaluated]}

Slow == "p95" :> Leaf(TRUE, 900) @@ "unit" :> Leaf(FALSE, 0)
Fast == "p95" :> Leaf(TRUE, 300) @@ "rate" :> Leaf(TRUE, 50)

MCDocuments ==
    {Document(s, "c1", "fail", f, m) : s \in {"checkout", "search"}, m \in {Slow, Fast},
        f \in {Found("f1", "db", FALSE), Found("f1", "", TRUE), Found("f1", "", FALSE) \cup Found("f2", "", FALSE)}}
    \cup {Document("search", "", "pass", {}, Fast), Document("checkout", "c2", "error", {}, Slow),
          Document("search", "c2", "aborted", {}, <<>>), Document("search", "c2", "", {}, Fast)}

MCFilters == [scenario : {"", "search"}, metric : {"", "rate"}, last : {0, 2}]

MCReplayOptions ==
    {[flags |-> fl, multiplier |-> m, class |-> c, allowReal |-> a] :
        fl \in {TRUE}, m \in {4, 10, 15, 24}, c \in {"real", "internal"}, a \in BOOLEAN}
    \cup {[flags |-> FALSE, multiplier |-> 10, class |-> "real", allowReal |-> FALSE]}

captureVars == <<recorderVars, replayVars>>
allVars == <<store, storeVars, records, captureVars>>

AllInit ==
    /\ store \in {"trend", "report", "capture"}
    /\ StoreInit /\ ReportInit /\ RecorderInit /\ ReplayInit

ReportOver == Len(records) = MaxRecords /\ UNCHANGED records

AllNext ==
    \/ store = "trend"   /\ StoreNext    /\ UNCHANGED <<store, records, captureVars>>
    \/ store = "report"  /\ (ReportNext \/ ReportOver) /\ UNCHANGED <<store, storeVars, captureVars>>
    \/ store = "capture" /\ CaptureNext /\ UNCHANGED <<store, storeVars, records>>

=============================================================================
