-------------------------------- MODULE Emit --------------------------------
(***************************************************************************)
(* tortureu emit <tool> (internal/emit): a torture.yaml is parsed as for a *)
(* run, and a script for another tool made of it, in which each fault is   *)
(* either a command or a comment that says it is not translated.  Of a     *)
(* script the blocks are kept, one per fault, and the load's steps.        *)
(***************************************************************************)
EXTENDS Scenario

CONSTANTS
    Emitters,        \* the tools asked for
    EmitDocuments    \* what torture.yaml may say to them
ASSUME EmitDocumentsAssumption == \A d \in EmitDocuments : IsDocument(d)

VARIABLES
    emitter,     \* the tool
    emission,    \* "parse", "emit" or "done"
    script,      \* [blocks, steps]
    emitExit     \* the exit status

emitVars == <<emitter, emission, script, emitExit>>

NoScript == [blocks |-> <<>>, steps |-> <<>>]

-----------------------------------------------------------------------------
(* What each tool reads of a document. *)

(* Without one of these, detected, there is only a note. *)
Needs(t) ==
    CASE t \in {"kafka-load", "rebalance"} -> {"kafka"}
      [] t = "sysbench"       -> {"mysql"}
      [] t = "memtier"        -> {"redis"}
      [] t = "jmeter"         -> {"jms", "ldap", "soap"}
      [] t = "soda"           -> {"postgresql", "mysql", "snowflake"}
      [] t = "porcupine"      -> {"etcd", "consul", "zookeeper"}
      [] t = "testcontainers" -> {"lang:go"}
      [] t = "kind"           -> {"platform:k8s"}
      [] t = "localstack"     -> {"aws"}
      [] t = "ghz"            -> {"spec:proto"}
      [] t = "restler"        -> {"spec:openapi"}
      [] OTHER                -> {}

HasNeeds(t) == /\ Needs(t) = {} \/ Needs(t) \cap doc.depTypes # {}
               /\ t = "restler" => doc.openapi # ""
               /\ t \in {"restler", "slowloris"} => doc.baseURL # ""

Injectors == {"pumba", "netem", "iptables", "chaosmesh", "fio", "hoverfly", "kafka-load"}

(* These report every fault; the listers without translating it. *)
Reporters == {"gatling", "locust", "ghz", "jmeter", "restler", "soda", "bencher", "porcupine",
              "slowloris"}
Listers == {"testcontainers", "kind", "localstack", "jaeger", "dashboard"}

(* These read no fault at all. *)
FaultBlind == {"sysbench", "memtier", "clockskew", "rebalance", "dlq-test", "fixtures"}

registry == Injectors \cup Reporters \cup Listers \cup FaultBlind \cup {"pyroscope"}

(* Of the stages jmeter keeps the peak rate alone; a ramp that is less     *)
(* than half a request per second is a comment in ghz's script.            *)
Steppers == {"gatling", "locust", "ghz", "jmeter", "kafka-load"}

-----------------------------------------------------------------------------
(* buildSteps: the load profile, stage by stage. *)

stepRate(s) == IF s.hold # Absent THEN s.hold ELSE s.to
stepSecs(s) == IF s.hold # Absent THEN s.for ELSE s.over

StepsOK == \A k \in DOMAIN doc.load.stages :
              stepRate(doc.load.stages[k]) >= 0 /\ stepSecs(doc.load.stages[k]) >= 0

buildSteps ==
    LET st == doc.load.stages
    IN  [k \in DOMAIN st |->
           [phase |-> st[k].phase, to |-> stepRate(st[k]), secs |-> stepSecs(st[k]),
            from  |-> IF st[k].hold # Absent THEN st[k].hold
                      ELSE IF k = 1 THEN 0 ELSE stepRate(st[k - 1])]]

-----------------------------------------------------------------------------
(* A fault, as fault.Translate has it: the layer is the run's, "passed" for *)
(* a verb of another layer.  An emit does not read for:.                    *)
Act(f) == IF Verb(f) \in DOMAIN otherLayerOwner
          THEN IF DOMAIN f.inject \subseteq {Verb(f)} \cup faultVerbs[Verb(f)]
               THEN Took("passed", 0) ELSE Refused
          ELSE Translate([f EXCEPT !.for = Absent])

(* The container to act in, and the peer to act against, if only one. *)
resolveContainer(f) ==
    IF f.target = doc.service \/ doc.egress.hosts[f.target].class = "internal"
    THEN [box |-> f.target, peer |-> ""]
    ELSE [box |-> doc.service, peer |-> f.target]

Verbs(t) == CASE t = "pumba"      -> {"latency", "bandwidth", "kill", "graceful", "pause", "cpu"}
              [] t = "netem"      -> {"latency", "bandwidth"}
              [] t = "iptables"   -> {"down"}
              [] t = "chaosmesh"  -> {"down", "latency", "bandwidth", "kill", "cpu"}
              [] t = "fio"        -> {"io"}
              [] t = "hoverfly"   -> {"latency"}
              [] t = "kafka-load" -> {"poison_pill", "duplicate"}
              [] OTHER            -> {}

Translatable(t, f) ==
    /\ Verb(f) \in Verbs(t)
    /\ t = "pumba" /\ Verb(f) = "pause" => f.for # Absent
    /\ t = "hoverfly" => /\ f.target \in DOMAIN doc.egress.hosts
                         /\ doc.egress.hosts[f.target].class = "mock"

(* Where a tool's command takes place. *)
Place(t, f) ==
    CASE t = "iptables"   -> [box |-> doc.service, peer |-> IF f.target = doc.service THEN "" ELSE f.target]
      [] t = "netem"      -> [box |-> resolveContainer(f).box, peer |-> ""]
      [] t = "kafka-load" -> [box |-> "broker", peer |-> ""]
      [] OTHER            -> IF t = "hoverfly" \/ Verb(f) \in dockerVerbs \ {"io"}
                             THEN [box |-> f.target, peer |-> ""] ELSE resolveContainer(f)

(* A bandwidth is written in kbit. *)
Amount(f) == CASE Verb(f) = "bandwidth" -> 8 * Act(f).amount
               [] Verb(f) \in DOMAIN queueVerbs -> queueAmount(f).amount
               [] OTHER -> Act(f).amount

(* How long; Absent is until somebody ends it.  pumba asks for a duration,  *)
(* fio for one it can read, and a kill has none.                            *)
Window(t, f) ==
    IF Verb(f) \in {"kill", "graceful", "poison_pill"} \/ t = "hoverfly" THEN Absent
    ELSE CASE t = "pumba" /\ f.for = Absent      -> 10
           [] t = "fio" /\ f.for = Malformed     -> Absent
           [] t = "kafka-load" /\ f.for = Absent -> 30
           [] OTHER                              -> f.for

-----------------------------------------------------------------------------
(* pyroscope: the window of each fault, in seconds from the run's start.    *)
(* A stage lasts its for:, or else its over:.                               *)
lasts == [k \in DOMAIN doc.load.stages |->
            LET s == doc.load.stages[k] IN IF s.for # Absent THEN s.for ELSE s.over]

stageOf(f) == CHOOSE k \in DOMAIN doc.load.stages : doc.load.stages[k].phase = f.at

obsPhaseOffset(f) ==
    IF f.at = "t=" \/ f.offset = Malformed THEN f.offset
    ELSE IF \E k \in 1..(stageOf(f) - 1) : lasts[k] < 0 THEN Malformed
    ELSE Sums(lasts)[stageOf(f) - 1] + f.offset

-----------------------------------------------------------------------------
Block(does, i, amount, place, window, from) ==
    [does |-> does, fault |-> i, amount |-> amount, place |-> place, window |-> window,
     from |-> from]

Says(i) == Block(FALSE, i, 0, [box |-> "", peer |-> ""], Absent, Absent)

BlockOf(t, i) ==
    LET f == doc.faults[i]
    IN  IF t \in Injectors /\ Translatable(t, f)
        THEN Block(TRUE, i, Amount(f), Place(t, f), Window(t, f), Absent)
        ELSE IF t = "pyroscope" /\ obsPhaseOffset(f) >= 0 /\ f.for >= 0
        THEN Block(TRUE, i, 0, [box |-> doc.service, peer |-> ""], f.for, obsPhaseOffset(f))
        ELSE Says(i)

(* Mutant: a fault that the tool cannot express is passed over. *)
Blocks_Dropped(t) ==
    IF t \in FaultBlind THEN <<>>
    ELSE SelectSeq([i \in DOMAIN doc.faults |-> BlockOf(t, i)],
                   LAMBDA b : t \in Injectors => b.does)

Blocks(t) == IF t \in FaultBlind THEN <<>> ELSE [i \in DOMAIN doc.faults |-> BlockOf(t, i)]

TranslatesAll(t) ==
    t \in FaultBlind \cup Listers \cup {"pyroscope"}
    \/ \A i \in DOMAIN doc.faults : Act(doc.faults[i]).layer # "error"

EmitInit == /\ doc \in EmitDocuments /\ scen = "idle" /\ plan = <<>> /\ routed = {}
            /\ emitter \in Emitters
            /\ emission = "parse" /\ script = NoScript /\ emitExit = 0

Done(code) == emission' = "done" /\ emitExit' = code

(* runEmit reads the file; then the registry's function. *)
runEmit ==
    /\ emission = "parse"
    /\ IF Parses THEN emission' = "emit" /\ UNCHANGED emitExit ELSE Done(2)
    /\ UNCHANGED <<emitter, script, scenarioVars>>

EmitScript ==
    /\ emission = "emit"
    /\ IF emitter \notin registry THEN Done(2) /\ UNCHANGED script
       ELSE IF ~HasNeeds(emitter) THEN Done(0) /\ UNCHANGED script
       ELSE IF (emitter \in Steppers => StepsOK) /\ TranslatesAll(emitter)
       THEN /\ Done(0)
            /\ script' = [steps  |-> IF emitter \in Steppers \ {"jmeter"} THEN buildSteps ELSE <<>>,
                          blocks |-> Blocks(emitter)]
       ELSE Done(2) /\ UNCHANGED script
    /\ UNCHANGED <<emitter, scenarioVars>>

EmitNext == runEmit \/ EmitScript

EmitSpec == EmitInit /\ [][EmitNext]_<<emitVars, scenarioVars>>

-----------------------------------------------------------------------------
(* An emitted script is the scenario that a run would play (R-CLI-8): its   *)
(* author kept a second reading of stages and a table of verbs per tool.    *)
(* Every fault is one block of it, a command or a comment.  A command has   *)
(* the run's magnitude (a bandwidth in bits), lies between the service and  *)
(* the fault's target and lasts as long as the fault; a window begins when  *)
(* the fault would, unless a stage before says both over: and for:; the     *)
(* steps are the compiled stages.  And what is refused, a run refuses or    *)
(* reports as an error.  (A run without a broker refuses what a script      *)
(* for a queue does.)                                                       *)
ScriptIsTheScenario ==
    emission = "done" =>
      /\ emitExit = 2 => \/ emitter \notin registry \/ ~Parses \/ ~Compiles
                         \/ \E i \in DOMAIN doc.faults : Translate(doc.faults[i]).layer = "error"
      /\ script.steps # <<>> /\ Compiles =>
           /\ Len(script.steps) = Len(resolveStages)
           /\ \A k \in DOMAIN script.steps :
                /\ script.steps[k].phase = resolveStages[k].phase
                /\ script.steps[k].to = resolveStages[k].rate
                /\ k > 1 => resolveStages[k].start = resolveStages[k - 1].start + script.steps[k - 1].secs
                /\ k > 1 => \/ script.steps[k].from = script.steps[k - 1].to
                            \/ script.steps[k].from = script.steps[k].to
      /\ emitExit = 0 /\ HasNeeds(emitter) /\ emitter \notin FaultBlind =>
           \A i \in DOMAIN doc.faults :
             LET f    == doc.faults[i]
                 mine == {b \in ToSet(script.blocks) : b.fault = i}
                 ran  == Translate([f EXCEPT !.for = Absent])
             IN  /\ Cardinality(mine) = 1 /\ Len(script.blocks) = Len(doc.faults)
                 /\ \A b \in {m \in mine : m.does /\ emitter \in Injectors
                                            /\ (Verb(f) \in DOMAIN queueVerbs => "broker" \in doc.wired)} :
                      /\ ran.layer \notin {"error", "mock"}
                      /\ b.amount = IF Verb(f) = "bandwidth" THEN 8 * ran.amount ELSE ran.amount
                      /\ \/ ran.layer = "broker"
                         \/ b.place.box = f.target
                         \/ b.place.box = doc.service /\ f.target \in DOMAIN doc.egress.hosts
                      /\ b.window \in {Absent, f.for} \/ f.for = Absent
                      /\ b.window # Absent \/ f.for \in {Absent, Malformed} \/ ran.layer = "broker"
                         \/ Verb(f) \in {"kill", "graceful"} \/ emitter = "hoverfly"
                 /\ \A b \in {m \in mine : m.does /\ emitter = "pyroscope"} :
                      (\A k \in DOMAIN doc.load.stages :
                         doc.load.stages[k].over = Absent \/ doc.load.stages[k].for = Absent) /\ Compiles
                        => b.from = f.offset + IF f.at = "t=" THEN 0
                             ELSE resolveStages[CHOOSE k \in DOMAIN resolveStages :
                                                  resolveStages[k].phase = f.at].start

=============================================================================
