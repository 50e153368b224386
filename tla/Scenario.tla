----------------------------- MODULE Scenario -----------------------------
(***************************************************************************)
(* From torture.yaml to faults in force: config.Parse, the refusals of     *)
(* drive.go, k6.Compile, and the translation of each fault by the layer    *)
(* that owns its verb (fault, queuefault, egress with applier).  A number  *)
(* in an inject: is [n, unit], n in thousandths; a duration is in seconds. *)
(***************************************************************************)
EXTENDS Integers, Sequences, FiniteSets, SequencesExt

CONSTANT Documents      \* what torture.yaml may say, with the flags of the run

VARIABLES
    doc,       \* the document, and what is detected and wired
    scen,      \* "parse", "flags", "compile", "fire", "done" or "refused"
    plan,      \* the compiled stages: phase, rate, start
    routed     \* the faults fired: fault, the layer that took it or "error", amount

scenarioVars == <<doc, scen, plan, routed>>

(* Two values that are no number of a document. *)
Absent == -999998
Malformed == -999999

(* What YAML decodes to, once its keys are known: lists of stages and of   *)
(* faults, and numbers where numbers are.                                  *)
IsDocument(d) ==
    /\ d.load.stages \in Seq([phase : STRING, to : Int, hold : Int, over : Int, for : Int])
    /\ d.faults \in Seq(ToSet(d.faults))
    /\ \A f \in ToSet(d.faults) :
         /\ f \in [at : STRING, offset : Int, for : Int, target : STRING, inject : {f.inject}]
         /\ \A k \in DOMAIN f.inject : f.inject[k].n \in Int

ASSUME DocumentsAssumption == \A d \in Documents : IsDocument(d)

-----------------------------------------------------------------------------
(* The verb tables: torture.yaml's, the fault layer's, the queue layer's.  *)

configVerbs ==
    [latency |-> {"jitter"}, down |-> {}, bandwidth |-> {}, slicer |-> {"delay"},
     error_rate |-> {"status"}, cpu |-> {"workers"}, mem |-> {"workers"},
     io |-> {"workers"}, fd |-> {"workers"}, cpu_limit |-> {}, mem_limit |-> {},
     pause |-> {}, kill |-> {}, graceful |-> {}, poison_pill |-> {"count"}, duplicate |-> {}]

faultVerbs == [v \in {"timeout", "reset_peer"} \cup DOMAIN configVerbs |->
                 IF v \in DOMAIN configVerbs THEN configVerbs[v] ELSE {}]

queueVerbs == [poison_pill |-> {"count"}, duplicate |-> {}]

toxicVerbs == {"latency", "down", "bandwidth", "slicer", "timeout", "reset_peer"}

dockerVerbs == {"cpu", "mem", "io", "fd", "cpu_limit", "mem_limit", "pause", "kill", "graceful"}

otherLayerOwner == [error_rate |-> "egress", poison_pill |-> "queuefault",
                    duplicate |-> "queuefault"]

-----------------------------------------------------------------------------
(* Numbers, each read as its layer reads it; Malformed is an error. *)

Number(v) == v.unit \in {"int", "float"}

Fraction(v) == Number(v) /\ v.n >= 0 /\ v.n <= 1000

Integral(v) == Number(v) /\ v.n % 1000 = 0

PositiveInt(v) == Integral(v) /\ v.n >= 1000

Rounded(thousandths) == (thousandths + 500) \div 1000

parseMillis(v) == CASE v.unit \in {"int", "float", "ms"} -> Rounded(v.n)
                    [] v.unit = "s"                      -> v.n
                    [] OTHER                             -> Malformed

parseRateKBps(v) == CASE Number(v)       -> Rounded(v.n)
                      [] v.unit = "mbps" -> Rounded(v.n * 125)
                      [] v.unit = "kbps" -> Rounded(v.n \div 8)
                      [] OTHER           -> Malformed

parsePercent(v) == IF v.unit \in {"int", "float", "%"} /\ v.n >= 0 /\ v.n <= 100000
                   THEN Rounded(v.n) ELSE Malformed

-----------------------------------------------------------------------------
(* config.Parse. *)

EgressOK ==
    \/ ~doc.egress.present
    \/ /\ doc.egress.default = "deny"
       /\ \A h \in DOMAIN doc.egress.hosts :
            LET eh == doc.egress.hosts[h]
            IN  \/ eh.class = "mock" /\ eh.from \in {"capture", "spec"}
                \/ eh.class = "real" /\ eh.max_rps > 0
                \/ eh.class \in {"internal", "block"}

StageOK(s) == (s.to = Absent) # (s.hold = Absent)

FlowsOK == \A i \in DOMAIN doc.scenarios : doc.scenarios[i] = "method and path"

(* Mutant: a phase may be declared twice. *)
LoadOK_Repeats ==
    /\ doc.load.model = "arrival_rate" /\ FlowsOK
    /\ \A k \in DOMAIN doc.load.stages : StageOK(doc.load.stages[k])

LoadOK ==
    /\ doc.load.model = "arrival_rate" /\ FlowsOK
    /\ \A k \in DOMAIN doc.load.stages :
         /\ StageOK(doc.load.stages[k])
         /\ \A m \in DOMAIN doc.load.stages :
              doc.load.stages[m].phase = doc.load.stages[k].phase => m = k

Phases == {doc.load.stages[k].phase : k \in DOMAIN doc.load.stages}

VerbsOf(f) == DOMAIN f.inject \cap DOMAIN configVerbs

Verb(f) == CHOOSE v \in VerbsOf(f) : TRUE

(* at: is a declared phase, with or without an offset, or t=duration.      *)
FaultOK(f) ==
    /\ f.at # "" /\ f.target # "" /\ DOMAIN f.inject # {}
    /\ f.at \in Phases \cup {"t="}
    /\ f.target \in {doc.service} \cup DOMAIN doc.egress.hosts
    /\ Cardinality(VerbsOf(f)) = 1
    /\ DOMAIN f.inject \subseteq {Verb(f)} \cup configVerbs[Verb(f)]
    /\ \A k \in DOMAIN f.inject :
         /\ k \in {"duplicate", "error_rate"} => Fraction(f.inject[k])
         /\ k \in {"count", "workers"} => PositiveInt(f.inject[k])

(* `fuzz:` is a key that is accepted and not read. *)
Parses ==
    /\ doc.keys \subseteq {"version", "target", "egress", "reset", "load", "faults",
                           "assert", "fuzz"}
    /\ doc.compose # "" /\ doc.service # ""
    /\ EgressOK
    /\ "load" \in doc.keys => LoadOK
    /\ \A i \in DOMAIN doc.faults : FaultOK(doc.faults[i])
    /\ doc.asserts > 0

-----------------------------------------------------------------------------
(* Drive-tier flags: refused before anything is touched. *)

fuzzSpecPath == IF doc.fuzzSpec # "" THEN doc.fuzzSpec ELSE doc.openapi

FlagsOK ==
    /\ doc.dbLoad => /\ "postgresql" \in doc.depTypes
                     /\ doc.dbURL # "" /\ {"db", "db preflight"} \subseteq doc.wired
    /\ doc.fuzz => /\ doc.specDetected /\ fuzzSpecPath # "" /\ doc.baseURL # ""
                   /\ {"fuzzer", "fuzzer preflight"} \subseteq doc.wired
    /\ doc.baseURL # ""

Max2(a, b) == IF a > b THEN a ELSE b

(* The sum of the first k numbers of a list, for each k.                   *)
Sums(list) ==
    LET sum[k \in 0..Len(list)] == IF k = 0 THEN 0 ELSE sum[k - 1] + list[k]
    IN  sum

(* The bound on a co-driven tool: over: of each stage, else for:, and 30s. *)
drives == [k \in DOMAIN doc.load.stages |->
             LET s == doc.load.stages[k]
             IN  Max2(0, IF s.over # Absent THEN s.over ELSE s.for)]

driveDuration == Max2(10, Sums(drives)[Len(doc.load.stages)] + 30)

-----------------------------------------------------------------------------
(* k6.Compile: a stage ramps to: a rate over: a time, or holds one for: it. *)

Rate(s)   == IF s.to = Absent THEN s.hold ELSE s.to
Length(s) == IF s.to = Absent THEN s.for ELSE s.over

Compiles ==
    /\ "load" \in doc.keys /\ doc.load.stages # <<>>
    /\ \A k \in DOMAIN doc.load.stages :
         Rate(doc.load.stages[k]) >= 0 /\ Length(doc.load.stages[k]) >= 0

lengths == [k \in DOMAIN doc.load.stages |-> Length(doc.load.stages[k])]

resolveStages ==
    [k \in DOMAIN doc.load.stages |->
       [phase |-> doc.load.stages[k].phase, rate |-> Rate(doc.load.stages[k]),
        start |-> Sums(lengths)[k - 1]]]

-----------------------------------------------------------------------------
(* A fault at its time: the layer that takes it, or an error, and the      *)
(* amount its layer was given.                                             *)

Took(layer, amount) == IF amount = Malformed THEN [layer |-> "error", amount |-> 0]
                       ELSE [layer |-> layer, amount |-> amount]

Refused == Took("", Malformed)

translateToxic(f) ==
    CASE Verb(f) = "latency" ->
           IF "jitter" \in DOMAIN f.inject /\ parseMillis(f.inject["jitter"]) = Malformed
           THEN Refused ELSE Took("toxiproxy", parseMillis(f.inject["latency"]))
      [] Verb(f) = "bandwidth" -> Took("toxiproxy", parseRateKBps(f.inject["bandwidth"]))
      [] OTHER -> Took("toxiproxy", 0)

translateDocker(f) ==
    IF Verb(f) = "cpu" THEN Took("docker", parsePercent(f.inject["cpu"])) ELSE Took("docker", 0)

(* An error rate goes to the mock provider, and only of a mocked host. *)
TranslateErrorRate(f) ==
    IF /\ Fraction(f.inject["error_rate"])
       /\ f.target \in DOMAIN doc.egress.hosts /\ doc.egress.hosts[f.target].class = "mock"
       /\ "mock" \in doc.wired
       /\ "status" \in DOMAIN f.inject => Number(f.inject["status"])
    THEN Took("mock", f.inject["error_rate"].n) ELSE Refused

queueAmount(f) ==
    IF Verb(f) = "duplicate" THEN Took("broker", f.inject["duplicate"].n)
    ELSE IF "count" \in DOMAIN f.inject THEN Took("broker", f.inject["count"].n \div 1000)
    ELSE Took("broker", 1)

queueTranslate(f) == IF "broker" \in doc.wired THEN queueAmount(f) ELSE Refused

routePassedOver(f) ==
    IF otherLayerOwner[Verb(f)] = "egress" THEN TranslateErrorRate(f)
    ELSE IF DOMAIN f.inject \subseteq {Verb(f)} \cup queueVerbs[Verb(f)]
         THEN queueTranslate(f) ELSE Refused

(* What the fault layer keeps. *)
translateOwn(f) ==
    IF \/ "workers" \in DOMAIN f.inject /\ ~PositiveInt(f.inject["workers"])
       \/ f.for = Malformed THEN Refused
    ELSE CASE Verb(f) \in toxicVerbs  -> translateToxic(f)
           [] Verb(f) \in dockerVerbs -> translateDocker(f)
           [] OTHER                   -> Refused

(* The modifiers, then the owner; a duration is read once it is known that *)
(* the fault layer keeps the fault.                                        *)
Translate(f) ==
    IF ~ (DOMAIN f.inject \subseteq {Verb(f)} \cup faultVerbs[Verb(f)]) THEN Refused
    ELSE IF Verb(f) \in DOMAIN otherLayerOwner THEN routePassedOver(f)
    ELSE translateOwn(f)

-----------------------------------------------------------------------------
ScenarioInit == doc \in Documents /\ scen = "parse" /\ plan = <<>> /\ routed = {}

Step(now, ok, then) == scen = now /\ scen' = IF ok THEN then ELSE "refused"

Parse == Step("parse", Parses, "flags") /\ UNCHANGED <<doc, plan, routed>>

CheckDriveFlags == Step("flags", FlagsOK, "compile") /\ UNCHANGED <<doc, plan, routed>>

Compile ==
    /\ Step("compile", Compiles, "fire")
    /\ plan' = IF Compiles THEN resolveStages ELSE <<>>
    /\ UNCHANGED <<doc, routed>>

(* A fault whose offset or t= is no duration never gets a time: an error.  *)
Fire(i) ==
    /\ scen = "fire" /\ \A r \in routed : r.fault # i
    /\ LET f == doc.faults[i]
           r == IF f.offset = Malformed THEN Refused ELSE Translate(f)
       IN  routed' = routed \cup {[fault |-> i, layer |-> r.layer, amount |-> r.amount]}
    /\ UNCHANGED <<doc, scen, plan>>

EndOfLoad ==
    /\ scen = "fire" /\ Cardinality(routed) = Len(doc.faults)
    /\ scen' = "done"
    /\ UNCHANGED <<doc, plan, routed>>

ScenarioNext == \/ Parse \/ CheckDriveFlags \/ Compile \/ EndOfLoad
                \/ \E i \in DOMAIN doc.faults : Fire(i)

ScenarioSpec == ScenarioInit /\ [][ScenarioNext]_scenarioVars

-----------------------------------------------------------------------------
(* Half a KB/s at most between a rate in KB/s and one in thousandths of a   *)
(* kbps, and what the division by 8 drops.                                  *)
ToHalfAStep(rate, kbps) == LET off == 8000 * rate - kbps IN off <= 4000 /\ off >= -4008

(* One layer took the fault, with its own rate, or it failed for a reason. *)
TakenAsItSays(r) ==
    LET f == doc.faults[r.fault]
    IN  /\ Cardinality({q \in routed : q.fault = r.fault}) = 1
        /\ r.layer = "toxiproxy" => Verb(f) \in toxicVerbs
        /\ r.layer = "docker" => Verb(f) \in dockerVerbs
        /\ r.layer = "mock" => doc.egress.hosts[f.target].class = "mock"
        /\ r.layer = "error" =>
             \/ f.for = Malformed \/ f.offset = Malformed
             \/ \E k \in DOMAIN f.inject : \/ ~Number(f.inject[k])
                                           \/ f.inject[k].n < 0 \/ f.inject[k].n > 100000
             \/ Verb(f) \in DOMAIN otherLayerOwner /\ {"mock", "broker"} \ doc.wired # {}
             \/ Verb(f) = "error_rate" /\ f.target \notin
                  {h \in DOMAIN doc.egress.hosts : doc.egress.hosts[h].class = "mock"}
        /\ r.layer = "toxiproxy" /\ Verb(f) = "bandwidth"
             /\ f.inject["bandwidth"].unit = "kbps" =>
               ToHalfAStep(r.amount, f.inject["bandwidth"].n)

(* An accepted document is a plan that means what it says.  A phase fires  *)
(* a fault at one moment only; a fault that torture.yaml admits is taken   *)
(* by exactly one layer, the owner of its verb, or fails aloud, and fails  *)
(* only for its wiring, its target's class or a text no parser read before *)
(* (three tables of verbs agree, R-EXE-15, 19); a rate keeps its magnitude *)
(* to half a KB/s; and the bound on the co-driven tools outlasts the load, *)
(* unless a stage that holds also says over:.                              *)
PlanMeansWhatItSays ==
    /\ scen \in {"fire", "done"} =>
         /\ \A i \in DOMAIN doc.faults :
              doc.faults[i].at # "t=" =>
                Cardinality({k \in DOMAIN plan : plan[k].phase = doc.faults[i].at}) = 1
         /\ (\A k \in DOMAIN doc.load.stages :
               doc.load.stages[k].to = Absent => doc.load.stages[k].over = Absent)
              => driveDuration > Last(plan).start + Length(Last(doc.load.stages))
    /\ \A r \in routed : TakenAsItSays(r)

=============================================================================
