------------------------------ MODULE Verdict ------------------------------
(***************************************************************************)
(* From a loaded run to its verdict: internal/run/findings.go, promql.go,  *)
(* sqlassert.go, trace.go, drive.go and the tail of run.go, with           *)
(* internal/k6/summary.go and internal/verdict.  What the run was given    *)
(* and what its tools answered is one record, chosen at the start; each    *)
(* action is one stage of run.go, and may end the run.                     *)
(***************************************************************************)
EXTENDS Integers, Sequences, FiniteSets, SequencesExt

CONSTANTS
    Runs,      \* the records `run` may be
    LibOf      \* the client library a dependency, or the SUT, is built on

(* A chain is built for an address, and detection states a ceiling, of     *)
(* which `correlated` is the floor (detect/compose.go:209).                *)
ASSUME RunsAssumption ==
    \A r \in Runs : /\ r.asserts \in Seq([kind: {"k6", "promql", "sql"},
                                          metric: STRING, result: STRING])
                    /\ r.faults \in Seq(STRING) /\ IsFiniteSet(r.chains)
                    /\ {"", "topic"} \cap r.chains = {}
                    /\ r.ceiling \in {"correlated", "caused"}

VARIABLES
    run,       \* what this run is given and what its tools answer
    stage,     \* the next stage of run.go
    verdict    \* the document: status, error, findings, passed, warnings

verdictVars == <<run, stage, verdict>>

NoVerdict == [status |-> "none", error |-> FALSE, reset |-> "",
              unclassified |-> FALSE, findings |-> <<>>, passed |-> <<>>,
              warnings |-> {}]

VerdictInit == run \in Runs /\ stage = "reset" /\ verdict = NoVerdict

Finish(status, v) == stage' = "done" /\ verdict' = [v EXCEPT !.status = status]

(* Mutant: the error is returned with no word in the document. *)
Fail_Silent(v) == Finish("error", v)

Fail(v) == Finish("error", [v EXCEPT !.error = TRUE])

Proceed(next, v) == stage' = next /\ verdict' = v

-----------------------------------------------------------------------------
(* Confidence and cause. *)

Rank(c) == CASE c = "ambiguous" -> 0 [] c = "correlated" -> 1 [] c = "caused" -> 2

(* A ceiling that is no confidence caps nothing. *)
AtMost(c, ceiling) ==
    IF ceiling \in {"ambiguous", "correlated", "caused"} /\ Rank(c) > Rank(ceiling)
    THEN ceiling ELSE c

ConfidenceFor(active) == IF active = 1 THEN "correlated" ELSE "ambiguous"

(* A queue fault has a topic and no target. *)
IsAddress(target) == target \notin {"", "topic"}

(* Only a Jaeger opens; a Tempo, like any other address, is refused. *)
Opens(b) == b.answers \in {"jaeger", "jaeger, then silent"}

(* Spans are read from the backend the user named, or from a Jaeger on     *)
(* localhost when detection saw tracing and no service lacks it.           *)
TraceSource(b) == (b.explicit \/ (b.traces /\ b.lacksOtel # "true")) /\ Opens(b)

(* Any answer but a Jaeger document is no traces. *)
Traces(b) == b.answers = "jaeger"

(* The chains BuildChain finds in the spans of this run: TraceChain says   *)
(* when there is one.                                                      *)
Chains == IF run.backend.service /\ TraceSource(run.backend) /\ Traces(run.backend)
          THEN run.chains ELSE {}

(* Mutant: the first degraded fault is named, without looking further. *)
SoleDegradedFault_First ==
    LET D == {i \in DOMAIN run.faults : run.faults[i] \in Chains}
    IN  IF D = {} THEN 0 ELSE CHOOSE i \in D : \A j \in D : i <= j

(* The one fault whose target degraded, or 0: two candidates are none. *)
SoleDegradedFault ==
    LET D == {i \in DOMAIN run.faults :
                IsAddress(run.faults[i]) /\ run.faults[i] \in Chains}
    IN  IF Cardinality(D) = 1 THEN CHOOSE i \in D : TRUE ELSE 0

(* A broken assertion: cause and confidence from the fault count, and then *)
(* from the spans.  `traced` is whether applyTraceChain is called at all.  *)
Cause(traced) ==
    CASE Len(run.faults) = 1            -> 1
      [] Len(run.faults) # 1 /\ traced -> SoleDegradedFault
      [] OTHER                          -> 0

HasChain(traced) == /\ traced
                    /\ Cause(traced) # 0
                    /\ run.faults[Cause(traced)] \in Chains

Confidence(traced) == IF HasChain(traced)
                      THEN AtMost("caused", run.ceiling)
                      ELSE ConfidenceFor(Len(run.faults))

-----------------------------------------------------------------------------
(* Candidates: the libraries a reader should look at (R-VER-4). *)

(* Detection saw these dependencies' clients in a lockfile; the audit of   *)
(* the source names libraries by dependency, or by the SUT.                *)
CandidatesFromAudit(key) == IF key \in run.audited THEN {LibOf[key]} ELSE {}

BuildCandidates(target) ==
    (IF target \in run.detected THEN {LibOf[target]} ELSE {})
        \cup CandidatesFromAudit(target) \cup CandidatesFromAudit("sut")

CandidatesFromDetectedDeps ==
    UNION {{LibOf[d]} \cup CandidatesFromAudit(d) : d \in run.detected}

Candidates == IF run.faults = <<>> THEN CandidatesFromDetectedDeps
              ELSE UNION {BuildCandidates(t) : t \in ToSet(run.faults)}

(* Whether the statistic the threshold names is in the summary: a `rate`   *)
(* may be written as k6's `value`.                                         *)
Measured(i) == run.asserts[i].result # "absent"

Broken(i, traced) ==
    [measured |-> Measured(i), assert |-> i, confidence |-> Confidence(traced), cause |-> Cause(traced),
     chain |-> HasChain(traced), unevaluated |-> FALSE, candidates |-> Candidates]

Unevaluated(i) ==
    [measured |-> FALSE, assert |-> i, confidence |-> "ambiguous", cause |-> 0,
     chain |-> FALSE, unevaluated |-> TRUE, candidates |-> {}]

QueryError(i) == [Unevaluated(i) EXCEPT !.unevaluated = FALSE]

-----------------------------------------------------------------------------
(* The three kinds of assertion, each in the order of `assert:`. *)

Of(S) == CHOOSE q \in [1..Cardinality(S) -> S] :
            \A j, k \in DOMAIN q : j < k => q[j] < q[k]

(* thresholdsJSON keys k6's thresholds by metric: of two entries on one    *)
(* metric the later replaces the earlier.                                  *)
Thresholds ==
    {i \in DOMAIN run.asserts :
        /\ run.asserts[i].kind = "k6"
        /\ \A j \in DOMAIN run.asserts :
             j > i => run.asserts[j].kind # "k6"
                      \/ run.asserts[j].metric # run.asserts[i].metric}

(* recomputeThresholds: held means the statistic was found and satisfies   *)
(* the expression, whatever k6 wrote beside it, and in whatever shape.     *)
ThresholdHeld(i) == Measured(i) /\ run.asserts[i].result = "held"

Recomputed(shape) == "object"

ShapesReadable == \A i \in Thresholds : Recomputed(run.shape) \in {"object", "bare bool"}

(* An answer of Prometheus: not an answer, or an empty or non-empty result *)
(* of any type.                                                            *)
PromError(result) == result \in {"unreachable", "not json", "failed"}
PromHolds(result) == result \in {"vector", "matrix"}

(* The count is asked of the engine's client in the database's container:  *)
(* an unknown engine, no container, or a query that fails is an error.     *)
Violations(result) == result \notin {"unreachable", "no container"}

Entries(kind) == {i \in DOMAIN run.asserts : run.asserts[i].kind = kind}

(* One row, one column, a number; the fraction of a number is cut off      *)
(* before its sign is looked at.  Counts are written in halves.            *)
Whole(halves) == IF halves >= 0 THEN halves \div 2 ELSE -((-halves) \div 2)

Halves(result) == CASE result = "0" -> 0     [] result = "3" -> 6
                    [] result = "-2" -> -4   [] result = "0.5" -> 1

(* Mutant: the error of a query that failed is dropped. *)
ViolationCount_NoError(result) ==
    IF Violations(result) /\ result \in {"0", "3", "-2", "0.5"} THEN Whole(Halves(result)) ELSE 0

ViolationCount(result) ==
    IF ~Violations(result) \/ result \in {"no row", "two rows", "two columns", "text"}
    THEN -1 ELSE Whole(Halves(result))

SQLFails == /\ "sql" \in run.queriers
            /\ \E i \in Entries("sql") : ViolationCount(run.asserts[i].result) < 0

(* What each evaluator appends, in the order run.go calls them. *)
Held ==
    Of({i \in Thresholds : ThresholdHeld(i)})
    \o Of({i \in Entries("promql") :
             "prom" \in run.queriers /\ PromHolds(run.asserts[i].result)})
    \o Of({i \in Entries("sql") :
             "sql" \in run.queriers /\ ViolationCount(run.asserts[i].result) = 0})

ThresholdFinding(i) == Broken(i, TRUE)

PromFinding(i) == CASE "prom" \notin run.queriers          -> Unevaluated(i)
                    [] PromError(run.asserts[i].result)    -> QueryError(i)
                    [] OTHER                               -> Broken(i, TRUE)

(* sql: findings are attributed by the fault count and never traced. *)
SQLFinding(i) == IF "sql" \notin run.queriers THEN Unevaluated(i) ELSE Broken(i, FALSE)

(* A fuzz failure is caused by its own request, unless a fault was in play. *)
FuzzFinding ==
    [measured |-> TRUE, assert |-> 0, confidence |-> IF run.faults = <<>> THEN "correlated" ELSE "ambiguous",
     cause |-> 0, chain |-> FALSE, unevaluated |-> FALSE,
     candidates |-> CandidatesFromDetectedDeps]

Each(F(_), S) == [k \in 1..Cardinality(S) |-> F(Of(S)[k])]

Findings ==
    Each(ThresholdFinding, {i \in Thresholds : ~ThresholdHeld(i)})
    \o Each(PromFinding, Entries("promql") \ ToSet(Held))
    \o Each(SQLFinding, Entries("sql") \ ToSet(Held))
    \o (IF run.drive = "failures" THEN <<FuzzFinding>> ELSE <<>>)

-----------------------------------------------------------------------------
(* The stages of Run that decide what the verdict says. *)

Reset ==
    /\ stage = "reset"
    /\ IF run.reset = "failed"
       THEN Finish("aborted", [verdict EXCEPT !.reset = "failed", !.error = TRUE])
       ELSE Proceed("classify", [verdict EXCEPT !.reset = run.reset])
    /\ UNCHANGED run

Classify ==
    /\ stage = "classify"
    /\ CASE run.egress = "unclassified" ->
              Finish("aborted", [verdict EXCEPT !.unclassified = TRUE])
         [] run.egress = "multiplied" -> Finish("aborted", verdict)
         [] OTHER -> Proceed("ingest", verdict)
    /\ UNCHANGED run

(* IngestSummary; the shapes it leaves behind are always readable. *)
Ingest ==
    /\ stage = "ingest"
    /\ IF run.summary = "unreadable" THEN Fail(verdict) ELSE Proceed("drive", verdict)
    /\ UNCHANGED run

(* The co-driven tools: one that could not run is an error, one that never *)
(* started or was cut short a warning, a fuzz failure a finding below.     *)
Drive ==
    /\ stage = "drive"
    /\ IF run.drive = "broken" THEN Fail(verdict)
       ELSE Proceed("assert", [verdict EXCEPT !.warnings =
              IF run.drive \in {"not started", "cut short"} THEN {"drive"} ELSE {}])
    /\ UNCHANGED run

ThroughputWarning == run.achieved # "missing" /\ run.achieved = "short"

Evaluate ==
    /\ stage = "assert"
    /\ IF ~ShapesReadable \/ SQLFails THEN Fail(verdict)
       ELSE LET v == [verdict EXCEPT !.passed = Held, !.findings = Findings,
                        !.warnings = @ \cup IF ThroughputWarning THEN {"rps"} ELSE {}]
            IN  Finish(IF v.findings = <<>> THEN "pass" ELSE "fail", v)
    /\ UNCHANGED run

VerdictNext == Reset \/ Classify \/ Ingest \/ Drive \/ Evaluate

VerdictSpec == VerdictInit /\ [][VerdictNext]_verdictVars

-----------------------------------------------------------------------------
(* What a caller sees: verdict/exitcode.go and render.go. *)

AllAmbiguous(fs) == fs # <<>> /\ \A k \in DOMAIN fs : fs[k].confidence = "ambiguous"

ExitCode(v) ==
    CASE v.status = "pass"    -> 0
      [] v.status = "error"   -> 2
      [] v.status = "aborted" -> 3
      [] v.status = "fail"    -> IF AllAmbiguous(v.findings) THEN 4 ELSE 1
      [] OTHER                -> 2

(* The lines Render prints to say why a run did not complete. *)
Render(v) ==
    [label  |-> IF ExitCode(v) = 4 THEN "inconclusive" ELSE v.status,
     why    |-> (IF v.unclassified THEN {"unclassified"} ELSE {})
                \cup (IF v.reset \notin {"", "clean"} THEN {"reset"} ELSE {})
                \cup (IF v.status \in {"error", "aborted"} /\ v.error THEN {"error"} ELSE {}),
     arrows |-> {k \in DOMAIN v.findings : ~v.findings[k].unevaluated}]

-----------------------------------------------------------------------------
Done == stage = "done"

(* Of the assertions declared, how each really stands. *)
ReallyHeld(a) ==
    \/ a.kind = "k6" /\ a.result = "held"
    \/ a.kind = "promql" /\ a.result \in {"vector", "matrix"} /\ "prom" \in run.queriers
    \/ a.kind = "sql" /\ a.result = "0" /\ "sql" \in run.queriers

(* A green run was earned: exit 0 means that every assertion declared was  *)
(* measured and held and no fuzz request failed; and an assertion of a     *)
(* completed run is listed once, as held or as a finding (R-VER-5, 8).     *)
GreenIsEarned ==
    /\ Done /\ ExitCode(verdict) = 0 =>
         /\ \A i \in DOMAIN run.asserts : ReallyHeld(run.asserts[i])
         /\ run.drive # "failures"
    /\ Done /\ verdict.status \in {"pass", "fail"} =>
         \A i \in DOMAIN run.asserts :
            Cardinality({k \in DOMAIN verdict.passed : verdict.passed[k] = i})
            + Cardinality({k \in DOMAIN verdict.findings :
                             verdict.findings[k].assert = i}) = 1

(* A cause is named only on evidence: the one fault there was, or the one  *)
(* fault whose target the spans show degraded; `caused` takes a chain that *)
(* ends at the named fault's target, and never exceeds the ceiling the     *)
(* verdict itself states (R-VER-3, 13, 14, 17).                            *)
CauseHasEvidence ==
    \A k \in DOMAIN verdict.findings :
        LET f == verdict.findings[k]
        IN  /\ Rank(f.confidence) <= Rank(run.ceiling)
            /\ f.confidence = "caused" =>
                 f.chain /\ f.cause # 0 /\ run.faults[f.cause] \in Chains
            /\ f.cause # 0 =>
                 \A i \in DOMAIN run.faults \ {f.cause} :
                    f.chain /\ run.faults[i] \notin run.chains
            /\ f.unevaluated => f.cause = 0 /\ k \notin Render(verdict).arrows
            /\ f.candidates \subseteq
                 {LibOf[d] : d \in (run.detected \cup run.audited)
                                   \cap (IF run.faults = <<>> THEN run.detected
                                         ELSE IF f.assert = 0 THEN run.detected
                                         ELSE ToSet(run.faults) \cup {"sut"})}

(* The exit code separates the tool's failures from the service's: 2 and 3 *)
(* carry no findings, 4 says that nothing was shown about the service with *)
(* more than a guess, and an error always says what broke (R-VER-2, 7).    *)
ExitCodesSeparate ==
    Done =>
        /\ ExitCode(verdict) \in {2, 3} => verdict.findings = <<>> /\ verdict.passed = <<>>
        /\ ExitCode(verdict) = 2 => verdict.error /\ "error" \in Render(verdict).why
        /\ ExitCode(verdict) = 4 <=> Render(verdict).label = "inconclusive"
        /\ ExitCode(verdict) = 1 =>
             \E k \in DOMAIN verdict.findings : ~verdict.findings[k].unevaluated

=============================================================================
