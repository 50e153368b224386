----------------------------- MODULE TrendReport -----------------------------
(***************************************************************************)
(* tortureu trend: a verdict is projected to a record of the store, and    *)
(* Store.Report (internal/trend) makes of the records the rows of a series *)
(* and what changed in each since the last comparable run of its scenario. *)
(***************************************************************************)
EXTENDS Integers, Sequences, FiniteSets, SequencesExt

CONSTANTS
    Documents,    \* the verdict documents that `trend record` may be given
    Filters,      \* -scenario, -metric, -n
    MaxRecords    \* bound: records of the store
ASSUME FiltersAssumption == \A f \in Filters : f.last \in Int

VARIABLE records   \* Store.Records

(* FindingKey: never the finding's position, f.id. *)
FindingKey(f) == [broke |-> f.broke, fault |-> f.fault, unevaluated |-> f.unevaluated]

(* flatten keeps the numbers among the metrics' leaves; a leaf is a path. *)
flatten(metrics) == [k \in {p \in DOMAIN metrics : metrics[p].number} |-> metrics[k].value]

Project(v) == [scenario |-> v.scenario, commit |-> v.commit, status |-> v.status,
               metrics  |-> flatten(v.metrics),
               findings |-> {FindingKey(f) : f \in v.findings}]

ReportInit == records = <<>>

(* trendRecord, and Load of what it appended: a document without a status  *)
(* is no verdict.                                                          *)
ReportNext ==
    /\ Len(records) < MaxRecords
    /\ \E v \in Documents : v.status # "" /\ records' = Append(records, Project(v))

ReportSpec == ReportInit /\ [][ReportNext]_records

Anchored(r)   == r.commit # ""
Comparable(r) == r.status \in {"pass", "fail"}

NoBase == 0

Row(n, base) == [rec |-> n, base |-> base]

(* Mutant: the baseline is the last comparable run of any scenario. *)
ReportStep_SharedBase(acc, n) ==
    LET r == records[n] IN
    IF ~Anchored(r) THEN [acc EXCEPT !.unanchored = @ + 1]
    ELSE IF ~Comparable(r) THEN [acc EXCEPT !.rows = Append(@, Row(n, NoBase))]
    ELSE [acc EXCEPT !.rows = Append(@, Row(n, acc.prev[r.scenario])),
                     !.prev = [s \in DOMAIN @ |-> n]]

(* One turn of the loop: an anchorless run is not joined but counted, and  *)
(* a run that measured nothing has a row but no deltas and is nobody's     *)
(* baseline.                                                               *)
ReportStep(acc, n) ==
    LET r == records[n] IN
    IF ~Anchored(r) THEN [acc EXCEPT !.unanchored = @ + 1]
    ELSE IF ~Comparable(r) THEN [acc EXCEPT !.rows = Append(@, Row(n, NoBase))]
    ELSE [acc EXCEPT !.rows = Append(@, Row(n, acc.prev[r.scenario])),
                     !.prev[r.scenario] = n]

ScenarioNames == {v.scenario : v \in Documents}

Kept(s, filter) == filter.scenario \in {"", s}

(* What the loop has built after each of the records, the ones kept.       *)
Built(filter) ==
    LET built[n \in 0..Len(records)] ==
          IF n = 0
          THEN [rows |-> <<>>, unanchored |-> 0, prev |-> [s \in ScenarioNames |-> NoBase]]
          ELSE IF Kept(records[n].scenario, filter) THEN ReportStep(built[n - 1], n)
          ELSE built[n - 1]
    IN  built

Report(filter) ==
    LET all  == Built(filter)[Len(records)]
        from == IF filter.last > 0 /\ Len(all.rows) > filter.last THEN Len(all.rows) - filter.last ELSE 0
    IN  [all EXCEPT !.rows = SubSeq(@, from + 1, Len(@))]

(* The deltas of a row: of the metrics that both runs have. *)
Deltas(row) ==
    LET now    == records[row.rec].metrics
        before == records[row.base].metrics
    IN  IF row.base = NoBase THEN <<>>
        ELSE [k \in DOMAIN now \cap DOMAIN before |-> now[k] - before[k]]

(* diffFindings against the baseline's. *)
NewFindings(row)  == IF row.base = NoBase THEN {}
                     ELSE records[row.rec].findings \ records[row.base].findings
GoneFindings(row) == IF row.base = NoBase THEN {}
                     ELSE records[row.base].findings \ records[row.rec].findings

(* Render: scenario by scenario, in the order of their first rows; of a     *)
(* comparable run the metrics asked for, each with its delta if it has one. *)
FirstLike(rows, k) ==
    LET like == {i \in DOMAIN rows : records[rows[i].rec].scenario = records[rows[k].rec].scenario}
    IN  CHOOSE i \in like : \A j \in like : i <= j

Above(rows, k) ==
    {j \in DOMAIN rows : \/ FirstLike(rows, j) < FirstLike(rows, k)
                         \/ FirstLike(rows, j) = FirstLike(rows, k) /\ j < k}

Line(row, filter) ==
    [rec |-> row.rec, metrics |->
       IF ~Comparable(records[row.rec]) THEN {}
       ELSE {[key |-> k, delta |-> k \in DOMAIN Deltas(row)] :
               k \in {m \in DOMAIN records[row.rec].metrics : filter.metric \in {"", m}}}]

RenderSeries(filter) ==
    LET rows == Report(filter).rows
        Placed(i) == CHOOSE k \in DOMAIN rows : Cardinality(Above(rows, k)) = i - 1
    IN  [i \in DOMAIN rows |-> Line(rows[Placed(i)], filter)]

-----------------------------------------------------------------------------
NoFilter == [scenario |-> "", metric |-> "", last |-> 0]

Joined(n) == Anchored(records[n]) /\ Comparable(records[n])

(* A row is compared with the nearest earlier run of the same scenario that *)
(* has a commit and measured something; an anchorless, broken or aborted    *)
(* run in between changes nothing.                                          *)
BaselineIsNearest ==
    \A k \in DOMAIN Report(NoFilter).rows :
        LET row     == Report(NoFilter).rows[k]
            earlier == {j \in 1..(row.rec - 1) :
                          Joined(j) /\ records[j].scenario = records[row.rec].scenario}
        IN  row.base = IF Joined(row.rec) /\ earlier # {}
                       THEN CHOOSE j \in earlier : \A i \in earlier : i <= j
                       ELSE NoBase

(* A finding is present at a run exactly when it came at that run or an     *)
(* earlier one of the scenario (as new, or with the first of them) and is   *)
(* said to be gone at none since.                                           *)
FindingsAddUp ==
    LET rows    == Report(NoFilter).rows
        At(k)   == records[rows[k].rec].findings
        Came(k) == IF rows[k].base = NoBase THEN At(k) ELSE NewFindings(rows[k])
    IN  \A n \in DOMAIN rows : Joined(rows[n].rec) =>
          LET mine == {k \in 1..n : /\ Joined(rows[k].rec)
                                    /\ records[rows[k].rec].scenario = records[rows[n].rec].scenario}
          IN  At(n) = {f \in UNION {At(k) : k \in mine} :
                         \E m \in mine : /\ f \in Came(m)
                                         /\ \A k \in mine : k > m => f \notin GoneFindings(rows[k])}

(* A filter hides rows, the oldest first, and never changes what one is     *)
(* compared with; no record is lost between the rows and the excluded; and  *)
(* what is printed is the rows, each once, a scenario's in their order, and *)
(* no metric with a delta that a run without measurement had a part in.     *)
FiltersOnlyHide ==
    \A f \in Filters :
        LET mine == {row \in ToSet(Report(NoFilter).rows) : Kept(records[row.rec].scenario, f)}
            rep  == Report(f)
            out  == RenderSeries(f)
        IN  /\ ToSet(rep.rows) \subseteq mine
            /\ \A j, k \in DOMAIN rep.rows : j < k => rep.rows[j].rec < rep.rows[k].rec
            /\ \A row \in mine \ ToSet(rep.rows) : \A k \in DOMAIN rep.rows : row.rec < rep.rows[k].rec
            /\ Len(rep.rows) = IF f.last <= 0 \/ Cardinality(mine) < f.last THEN Cardinality(mine)
                               ELSE f.last
            /\ Cardinality(mine) + rep.unanchored =
                 Cardinality({n \in DOMAIN records : Kept(records[n].scenario, f)})
            /\ Len(out) = Len(rep.rows)
            /\ {out[k].rec : k \in DOMAIN out} = {row.rec : row \in ToSet(rep.rows)}
            /\ \A j, k \in DOMAIN out :
                 j < k /\ records[out[j].rec].scenario = records[out[k].rec].scenario
                    => /\ out[j].rec < out[k].rec
                       /\ \A i \in j..k : records[out[i].rec].scenario = records[out[j].rec].scenario
            /\ \A k \in DOMAIN out : \A m \in out[k].metrics :
                 Joined(out[k].rec)
                 /\ (m.delta => \E n \in 1..(out[k].rec - 1) :
                       Joined(n) /\ m.key \in DOMAIN records[n].metrics)

(* The series says what changed, when, and against what (R-CLI-14, 17). *)
SeriesIsTrue == BaselineIsNearest /\ FindingsAddUp /\ FiltersOnlyHide

=============================================================================
