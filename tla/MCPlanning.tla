---------------------------- MODULE MCPlanning ----------------------------
(* The components around a run, side by side: a behaviour is a sequence of *)
(* runs over one set of containers, one torture.yaml being read and its    *)
(* faults fired, or a script emitted of it, and so on.                     *)
EXTENDS Overlay, Emit, Reach, FileClaims, ToolProcess

-----------------------------------------------------------------------------
(* Overlay: an application with two dependencies, one of which waits for   *)
(* the other, and an outside host.                                         *)

MCServices  == {"api", "db", "cache"}
MCDependsOn == [s \in MCServices |-> CASE s = "api" -> {"db", "cache"}
                                       [] s = "db" -> {"cache"} [] OTHER -> {}]
MCBaseNets  == [s \in MCServices |-> {}]
MCHostnameOf == "db:5432" :> "db" @@ "cache:6379" :> "cache"
                @@ "stripe:443" :> "stripe" @@ "lost:1" :> "lost"

Aimed(verb, targets) == {[target |-> t, verb |-> verb] : t \in targets}

Request(hosts, faults, m, a) ==
    [hosts |-> hosts, detected |-> "db:5432" :> "internal" @@ "stripe:443" :> "",
     faults |-> faults, multiplier |-> m, allowReal |-> a, reset |-> TRUE]

Aimless == Request("stripe:443" :> "mock", {}, 1, FALSE)

MCRequests ==
    {Request("db:5432" :> "internal" @@ "cache:6379" :> "internal" @@ "stripe:443" :> c, f, m, a) :
        c \in {"mock", "real", "block", "unheard of"},
        f \in {{}, Aimed("latency", {"db:5432"}), Aimed("pause", {"db:5432"}),
               Aimed("down", {"db:5432", "cache:6379"}), Aimed("latency", {"stripe:443"})},
        m \in {1, 2}, a \in BOOLEAN}
    \cup {Request("lost:1" :> "internal" @@ "stripe:443" :> "mock",
                  Aimed("down", {"lost:1"}), 1, FALSE)}

(* Two instances in which Intercepted fails: a service has a network of its *)
(* own, or the stack may be kept as the last run left it.                   *)
MCOwnNets == [MCBaseNets EXCEPT !["api"] = {"front"}]

MCRequestsKept ==
    {[r EXCEPT !.reset = b] : r \in {q \in MCRequests : q.multiplier = 1 /\ ~q.allowReal},
                              b \in BOOLEAN}

-----------------------------------------------------------------------------
(* Scenario: one document, and the ways it may differ from it. *)

Val(n, unit) == [n |-> n, unit |-> unit]

Fault(at, offset, for, target, inject) ==
    [at |-> at, offset |-> offset, for |-> for, target |-> target, inject |-> inject]

Stage(phase, to, hold, over, for) ==
    [phase |-> phase, to |-> to, hold |-> hold, over |-> over, for |-> for]

Ramp == Stage("ramp", 100, Absent, 10, Absent)
Hold == Stage("hold", Absent, 100, Absent, 20)

BaseDoc ==
    [keys |-> {"version", "target", "egress", "load", "faults", "assert"},
     compose |-> "compose.yaml", service |-> "api", openapi |-> "spec.json", baseURL |-> "http",
     egress |-> [present |-> TRUE, default |-> "deny", hosts |->
        "db:5432" :> [class |-> "internal", from |-> "", max_rps |-> 0]
        @@ "stripe:443" :> [class |-> "mock", from |-> "spec", max_rps |-> 0]],
     load |-> [model |-> "arrival_rate", stages |-> <<Ramp, Hold>>],
     scenarios |-> <<"method and path">>, faults |-> <<>>, asserts |-> 1,
     dbLoad |-> FALSE, dbURL |-> "", fuzz |-> FALSE, fuzzSpec |-> "",
     depTypes |-> {"postgresql"}, specDetected |-> TRUE,
     wired |-> {"db", "db preflight", "fuzzer", "fuzzer preflight", "mock", "broker"}]

Values == {Val(-1000, "int"), Val(0, "int"), Val(500, "float"), Val(2000, "int"),
           Val(300000, "ms"), Val(2000, "s"), Val(3000, "kbps"), Val(5000, "kbps"),
           Val(1000, "mbps"), Val(90000, "%"), Val(150000, "%"), Val(0, "word")}

AllVerbs == DOMAIN configVerbs \cup {"timeout"}

Injects == {v :> x : v \in AllVerbs, x \in Values}
           \cup {v :> Val(500, "float") @@ k :> x : v \in AllVerbs,
                    k \in {"jitter", "status", "workers", "count", "delay"}, x \in Values}
           \cup {"latency" :> Val(2000, "s") @@ "down" :> Val(0, "int")}

Stages == {Ramp, Hold, Stage("ramp", Absent, 5, Absent, 3), Stage("hold", 5, 5, 1, 1),
           Stage("hold", Absent, 5, 60, 3), Stage("soak", Malformed, Absent, 5, Absent),
           Stage("soak", 10, Absent, Malformed, Absent)}

MCDocuments ==
    {[BaseDoc EXCEPT !.faults = <<Fault("ramp", 0, 5, t, i)>>, !.wired = w] :
        t \in {"api", "db:5432", "stripe:443"}, i \in Injects, w \in {{}, BaseDoc.wired}}
    \cup
    {[BaseDoc EXCEPT !.faults = <<Fault(a, o, f, "db:5432", "latency" :> Val(300000, "ms")),
                                  Fault("ramp", 0, Absent, "stripe:443", "error_rate" :> Val(500, "float"))>>,
                     !.load.stages = s] :
        a \in {"ramp", "soak", "t=", ""}, o \in {0, Malformed}, f \in {Absent, 5, Malformed},
        s \in UNION {[1..n -> Stages] : n \in 0..2}}
    \cup
    {[BaseDoc EXCEPT !.dbLoad = d, !.fuzz = z, !.dbURL = u, !.depTypes = t, !.openapi = p,
                     !.baseURL = b, !.wired = w] :
        d \in BOOLEAN, z \in BOOLEAN, u \in {"", "dsn"}, t \in {{}, {"postgresql"}},
        p \in {"", "spec.json"}, b \in {"", "http"}, w \in {BaseDoc.wired, {"db", "fuzzer"}}}
    \cup
    {[BaseDoc EXCEPT !.keys = k, !.egress.default = d, !.asserts = n, !.scenarios = <<c>>] :
        k \in {BaseDoc.keys, BaseDoc.keys \cup {"fuzz"}, BaseDoc.keys \cup {"chaos"},
               BaseDoc.keys \ {"load"}},
        d \in {"deny", "allow"}, n \in {0, 1}, c \in {"method and path", "a bare string"}}

-----------------------------------------------------------------------------
(* Emit: of the documents above, those with what an emit reads.            *)

MCEmitters == {"pumba", "netem", "iptables", "chaosmesh", "fio", "hoverfly", "kafka-load",
               "pyroscope", "gatling", "jmeter", "ghz", "restler", "kind", "clockskew", "nobody's"}

Detectable == {"kafka", "jms", "spec:proto", "spec:openapi", "platform:k8s"}

EmitValues == {Val(500, "float"), Val(300000, "ms"), Val(5000, "kbps"), Val(90000, "%"), Val(0, "word")}

MCEmitDocuments ==
    {[BaseDoc EXCEPT !.faults = <<Fault("hold", 2, for, t, i), Fault("t=", 4, 5, "api", "down" :> Val(0, "int"))>>,
                     !.depTypes = Detectable] :
        for \in {Absent, 5, Malformed}, t \in {"api", "db:5432", "stripe:443"},
        i \in {v :> x : v \in AllVerbs, x \in EmitValues}
             \cup {"latency" :> Val(2000, "s") @@ "jitter" :> x : x \in EmitValues}
             \cup {"poison_pill" :> Val(0, "word") @@ "count" :> Val(2000, "int"),
                    "pause" :> Val(0, "word") @@ "workers" :> Val(2000, "int")}}
    \cup
    {[BaseDoc EXCEPT !.faults = <<Fault(a, o, 5, "db:5432", "latency" :> Val(300000, "ms"))>>,
                     !.load.stages = s, !.depTypes = deps] :
        a \in {"hold", "soak", "t="}, o \in {0, 7, Malformed}, deps \in {{}, Detectable},
        s \in UNION {[1..n -> Stages] : n \in 0..2}}

-----------------------------------------------------------------------------
(* Reach: three requests, of a service, of the SUT and of an outside host. *)

MCServiceOf == "prom" :> "prom" @@ "api" :> "api" @@ "outside" :> ""

-----------------------------------------------------------------------------
(* Detection: one or two services built, a queue, observers, images of     *)
(* known and unknown kinds, hosts in the environment; manifests that are   *)
(* whole, stop at a module that was not read, or do not parse; in one      *)
(* project a directory that cannot be walked.                              *)

Image(kind, type, port, signals, sdk) ==
    [kind |-> kind, type |-> type, port |-> port, signals |-> signals, sdk |-> sdk]

NoImage   == Image("none", "", "", {}, "")
Postgres  == Image("dependency", "postgresql", "5432", {}, "")
Kafka     == Image("dependency", "kafka", "9092", {}, "")
Redis     == Image("dependency", "redis", "6379", {}, "")
Memcached == Image("unknown", "", "", {}, "")
Collector == Image("observer", "", "", {"traces", "metrics"}, "collector")
Jaeger    == Image("observer", "", "", {"traces"}, "")

Host(name, port, form) == [name |-> name, port |-> port, form |-> form, tld |-> name = "mail.com"]

Service(build, image, ports, needs, env) ==
    [build |-> build, image |-> image, ports |-> ports, expose |-> {}, needs |-> needs, env |-> env]

Port(n) == [n |-> n, proto |-> "tcp"]

MCEnv == {Host("db", "5432", "url"), Host("pay.com", "", "url"), Host("mail.com", "25", "bare"),
          Host("localhost", "1", "url"), Host("internal.lan", "", "bare")}

Manifest(file, imports, unread, broken) ==
    [file |-> file, imports |-> imports, unread |-> unread, broken |-> broken]

Import(name, type, sdk) == [name |-> name, type |-> type, sdk |-> sdk]

GoMod      == Manifest("gomod", <<Import("pgx", "postgresql", ""), Import("otel", "", "otel")>>, FALSE, FALSE)
Package    == Manifest("package", <<Import("pg", "postgresql", ""), Import("pg-native", "postgresql", ""),
                                    Import("client-sqs", "sqs", "aws")>>, FALSE, FALSE)
Aggregator == Manifest("pom", <<Import("jedis", "redis", "")>>, TRUE, FALSE)
Unparsable == Manifest("pom", <<>>, FALSE, TRUE)

(* The manifests of a directory: none, one, or two of a polyglot one. *)
MCManifests == {{}, {GoMod}, {Package}, {Aggregator}, {Unparsable}, {GoMod, Package}}

File(calls, drivers, sigs) == [calls |-> calls, drivers |-> drivers, sigs |-> sigs]

MCSources == {<<>>, <<File({"sql.Open"}, {"redis"}, {"timeout"}), File({"redis"}, {}, {"retry"}),
                      File({"sql.Open", "http"}, {"postgresql"}, {"retry", "cap", "backoff", "jitter"})>>}

MCProjects ==
    {[asked |-> wanted, order |-> <<"api", "db", "otel", "web">>,
      services |-> "api" :> Service(".", NoImage, ports, need, MCEnv)
                @@ "db" :> Service("", image, <<>>, {}, {})
                @@ "otel" :> Service("", IF src = <<>> THEN Collector ELSE Jaeger, <<>>, {}, {})
                @@ "web" :> Service(ctx, IF ctx = "" THEN NoImage ELSE Redis, <<Port(80)>>,
                                    need2, {Host("pay.com", "", "url")}),
      manifests |-> "." :> m @@ "web" :> n, files |-> {"spec:openapi"},
      unwalked |-> wanted = "db" /\ image = Memcached, source |-> src] :
        wanted \in {"", "db", "nobody"}, ports \in {<<>>, <<Port(80)>>, <<Port(80), Port(0), Port(9229)>>},
        need \in {{}, {"web"}}, need2 \in {{}, {"api"}}, ctx \in {"", "web"},
        image \in {Postgres, Kafka, Memcached}, m \in MCManifests, n \in MCManifests, src \in MCSources}

Term(ns, value) == [ns |-> ns, value |-> value]

MCPredicates == {<<Term("always", "")>>, <<Term("never", "")>>,
                 <<Term("lang", "java"), Term("lang", "scala")>>,
                 <<Term("fact", "platform:aws"), Term("dep", "sqs")>>,
                 <<Term("dep", "kafka"), Term("fact", "lacks:otel")>>,
                 <<Term("fact", "spec:openapi"), Term("has", "traffic-capture")>>}

-----------------------------------------------------------------------------
(* McpServer: what an assistant writes, in one of the projects. *)

MCServed == {p \in MCProjects :
    /\ p.asked = "" /\ p.services["api"].ports = <<Port(80)>> /\ p.services["web"].build = ""
    /\ p.services["api"].needs = {} /\ p.services["web"].needs = {}
    /\ p.services["db"].image = Postgres /\ p.source # <<>>
    /\ p.manifests["."] = {GoMod} /\ p.manifests["web"] = {GoMod}}

Line(form, id, method, name, run) ==
    [form |-> form, id |-> id, method |-> method, params |-> name # "", tool |-> name,
     run |-> run, finding |-> "F1"]

MCLines == {Line("garbage", 0, "", "", 0), Line("too long", 0, "", "", 0),
            Line("request", 1, "tools/call", "describe_system", 0),
            Line("request", 1, "tools/call", "propose_experiments", 0),
            Line("request", 0, "tools/call", "run_experiment", 0),
            Line("request", 2, "tools/call", "run_experiment", 0),
            Line("request", 3, "tools/call", "explain_failure", 1)}

(* A Go module with a package.json beside it. *)
MCPolyglot == {[p EXCEPT !.manifests["."] = {GoMod, Package}] : p \in MCServed}

-----------------------------------------------------------------------------
TopoIdle == up = {} /\ overlay = {"none"} /\ request = Aimless /\ topo = "idle" /\ proxies = <<>>
ScenarioIdle == /\ doc = BaseDoc /\ scen = "idle" /\ plan = <<>> /\ routed = {}

EmitIdle == emitter = "netem" /\ emission = "idle" /\ script = NoScript /\ emitExit = 0

ReachIdle == scope = "idle" /\ sut = "" /\ ReachFresh("idle")

AnyProject == CHOOSE p \in MCProjects : TRUE

DetectionIdle == /\ project = AnyProject /\ looked = "failed" /\ found = <<>> /\ hints = {}
                 /\ written = NoFile

ToolIdle == ToolFresh("idle") /\ tool = CHOOSE h \in ToolSites : ~h.docker /\ ~h.reach

PlanningInit ==
  /\ McpInit
  /\ \/ EmitInit
        /\ TopoIdle /\ ReachIdle /\ DetectionIdle /\ ToolIdle
     \/ TopoInit /\ ScenarioIdle /\ EmitIdle /\ ReachIdle /\ DetectionIdle /\ ToolIdle
     \/ TopoIdle /\ ScenarioInit /\ EmitIdle /\ ReachIdle /\ DetectionIdle /\ ToolIdle
     \/ TopoIdle /\ ScenarioIdle /\ EmitIdle /\ ReachInit /\ DetectionIdle /\ ToolIdle
     \/ TopoIdle /\ ScenarioIdle /\ EmitIdle /\ ReachIdle /\ DetectionInit /\ ToolIdle
     \/ TopoIdle /\ ScenarioIdle /\ EmitIdle /\ ReachIdle /\ DetectionIdle /\ ToolInit

documentVars == <<scenarioVars, emitVars>>

PlanningNext ==
  \/ TopoNext /\ UNCHANGED <<documentVars, reachVars, detectionVars, mcpVars, toolVars>>
  \/ ScenarioNext /\ UNCHANGED <<emitVars, topoVars, reachVars, detectionVars, mcpVars, toolVars>>
  \/ EmitNext /\ UNCHANGED <<topoVars, reachVars, detectionVars, mcpVars, toolVars>>
  \/ stage # "idle" /\ ReachNext /\ UNCHANGED <<topoVars, documentVars, detectionVars, mcpVars, toolVars>>
  \/ DetectionNext /\ UNCHANGED <<topoVars, documentVars, reachVars, mcpVars, toolVars>>
  \/ McpNext /\ UNCHANGED <<topoVars, documentVars, reachVars, toolVars>>
  \/ ToolNext /\ UNCHANGED <<topoVars, documentVars, reachVars, detectionVars, mcpVars>>

planningVars == <<topoVars, documentVars, reachVars, detectionVars, mcpVars, toolVars>>

PlanningSpec == PlanningInit /\ [][PlanningNext]_planningVars

=============================================================================
