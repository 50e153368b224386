# A verification project for TortureU

TortureU (`src/`) is a Go command line tool. `tortureu run` starts a k6 load
against a docker-compose application, injects the faults a scenario declares
while the load runs, undoes them, evaluates assertions and emits one verdict.
Around it there is detection of the system under test, a recording proxy
(`capture`), a trend store (`trend`), an MCP server and several generators and
checkers.

The project consists of TLA+ modules that model the program, TLC
configurations that check them on small instances, and proofs for TLAPS. Every
definition is translated from the Go source; `PROJECT.json` names the lines of
each. A definition whose name is that of another plus a suffix
(`Track_MockForgotten`) is a *mutant*: the same code with a plausible bug, used
to show that a property can fail. It is part of no specification.

## 1. The system

| component | state | operations | what makes it correct |
|---|---|---|---|
| run orchestrator, `internal/run/run.go` | verdict, aborted flag, the lazily armed teardown closures | `Run` with its early returns and deferred recover; the signal watcher; `teardownAll` | one verdict, always; a completed run has applied and undone every fault; nothing is left behind |
| fault scheduler, `run/scheduler.go` | faults waiting for a phase, reported errors, `expireTracker`, `sync.Once` per `for:` fault | one goroutine to schedule, one per fault, `AfterFunc` timers | each fault fires when its phase starts and is undone once |
| fault managers, `fault/manager.go`, `queuefault/manager.go` | LIFO lists of undos | `Apply`, `Teardown` | no undo lost, none called twice |
| load handle, `run/load.go`, `k6/k6.go` | marker channel (16), `Done`, `Err` | two scan goroutines, `finish` | markers arrive in order; the load's end is always reported |
| co-drivers, `run/drive.go`, `pgbench.go`, `schemathesis.go` | handles, results, `stopOnce`; a process or a container | `start`, `stop`, `collect`, `teeMarkers`; `Preflight`, `Start`, `Stop` of a tool | started with the load, stopped once, never outliving the run; what is said of the tool is what became of it |
| topology overlay, `run/topology.go` | containers, the overlay file, the proxies | `Apply`, `EnsureProxies`, `TeardownDisabled` | every fault's traffic goes through the proxy; the disabled container is removed on every path |
| appliers, `run/toxiproxy_applier.go`, `run/docker_applier.go`, `applier/` | a proxy, a container, WireMock stubs, a topic | apply and undo of each verb | an undo restores what was there and lifts nothing else |
| configuration and translation, `config/`, `fault/translate.go`, `queuefault/translate.go` | none | parsing, validation, verb to action | each verb reaches the layer that owns it, with the value that was written |
| egress, `egress/` | none in one run | classification, audit, multiplier | nothing unclassified gets out |
| verdict, `verdict/`, `run/findings.go` | the verdict document | status, exit code, attribution, rendering | status and exit code agree with the findings; a cause has evidence |
| k6 compiler and summary, `k6/` | none | stages, thresholds, summary parsing | an assert is what k6 evaluates |
| assertion back ends, `run/promql.go`, `run/sqlassert.go`, `run/trace.go`, `trace/` | none | queries, trace chain | a failed query is not a pass; a chain is made of real spans |
| in-network dialing, `run/inreach.go`, `smoke/reach.go` | transports per container, tunnels | direct dial, fallback through a helper container, close | the host that was asked for answers; no helper outlives the run |
| detection, doctor, init, `detect/`, `doctor/`, `cmd/tortureu/init.go` | none | compose and manifests to a system, audit of its clients, the first torture.yaml | what is claimed is in the files, what is not decided is said |
| trend store, `trend/` | a JSONL file under `flock` | `Append`, `Load`, `Report` | records survive other writers; deltas have the right baseline |
| capture and replay, `capture/` | epoch, sequence number, count, cassette | the proxy's handlers, shutdown, replay | instants and numbers describe what happened |
| MCP server, `mcp/` | the table of runs of this process | the request loop, five tools | one answer per request, of this session |
| smoke, `smoke/` | counts | calls, percentiles | exit 0 only with the rate asked for |
| contract checks, ci, `contracts/`, `cmd/tortureu` | none | checks, printing, exit | sequential |
| emit, `emit/` | none | a script for each of 26 other tools | the script plays the scenario; what it leaves out it says |

How they interact: `cmd/tortureu` calls `run.Run`, which starts the load, hands
the marker channel (through `teeMarkers` if a co-driver was asked for) to the
scheduler and waits for the load's `Done` or `Err`. The scheduler's goroutines
call appliers through the managers and register each undo afterwards. A signal
watcher, Run's own return paths and each fault goroutine's recover may all call
`teardownAll` or a manager's `Teardown`, at the same time as timers. Before
that, detection and `torture.yaml` decide the hosts, their classes and with
them the topology; after it, the summary, PromQL, SQL and traces decide the
verdict, which the trend store keeps and the MCP server explains.

The hard behaviours are therefore (`hazards` in `PROJECT.json` has them by
line): teardowns racing applications that are not registered yet; several
callers of one undo; a signal or a panic between any two steps; bounded
channels between goroutines of which one stops receiving; tools started by one
goroutine and stopped by another; overlapping faults on one target; failures in
the middle of a multi-call apply or of an append; concurrent handlers sharing
an epoch, a counter or a transport; containers that earlier runs left behind;
tables of verbs kept in three places; answers of back ends that are absent,
partial or of another shape; facts denied while a manifest was not read.

## 2. Modules

| module | models |
|---|---|
| `RunContract` | what a run promises its user: effects, one verdict, what a completed verdict implies. Abstract |
| `FaultRun` | `run.Run`, watcher, scheduler, fault goroutines, timers, managers, `expireTracker` |
| `FaultRunInv`, `FaultRunProofs` | its inductive invariant; its theorems |
| `PhaseMarkers` | the marker pipeline with its channel capacities |
| `CoDrivers` | the co-drivers between Run, watcher and `teeMarkers` |
| `DriveRun`, `DriveRunProofs` | the composition of `PhaseMarkers` and `CoDrivers`; theorems about each of the three |
| `ToolProcess` | one co-driven tool: its client, its container, its bound, `Stop` |
| `NetAppliers` | `ToxiproxyApplier` and `DockerApplier` on one dependency |
| `MockCycle` | `WireMockApplier`'s cycle of stubs for an error rate |
| `DuplicateLoop` | `BrokerApplier`'s duplicate loops on one topic |
| `AppliersProofs` | theorems about those three |
| `Scenario` | `config.Parse`, the refusals of a run's flags, `k6.Compile`, the translation of every verb |
| `Emit` | `tortureu emit`: which faults, steps and windows another tool is given |
| `Overlay` | egress classes and the compose project that `Topology` makes of them |
| `Reach` | dialing from inside the network: `fallbackTransport`, `tunnelTransport`, smoke |
| `ReachProofs` | theorems about `Reach`, `Overlay` and `ToolProcess` |
| `Verdict`, `TraceChain` | from a loaded run to its verdict; the chain of spans behind a cause |
| `VerdictProofs` | theorems about `Verdict` and `TraceChain` |
| `Detection` | detection, the resilience audit, `tortureu init` |
| `McpServer` | the MCP server over a detected system |
| `FileClaims` | what is made of a detection: the file that `init` wrote as the parser and the egress audit read it, the facts that the registry of tools goes by |
| `PlanningProofs` | theorems about `Detection`, `McpServer`, `FileClaims`, `Scenario` and `Emit` |
| `TrendStore`, `TrendReport` | `Append` and `Load`; `Project`, `Store.Report` and `Render` |
| `Recorder`, `Replay` | the recording proxy and `tortureu capture`'s end; `tortureu replay` of the cassette it left |
| `StoresProofs` | theorems about `TrendStore`, `TrendReport`, `Recorder` and `Replay` |
| `OrderFacts` | lemmas on least members, lists and the places of an order, which the other proofs cite |
| `MCFaultRun`, `MCPhaseMarkers`, `MCDriveRun`, `MCAppliers`, `MCPlanning`, `MCVerdict`, `MCStores`, `MCRecords` | instances for TLC |

`MCAppliers`, `MCPlanning`, `MCVerdict`, `MCStores` and `MCRecords` each hold
components that share no state. A behaviour of them is one of one component,
chosen at the start, with the others at rest; one TLC run then covers them all.
Each component has a specification of its own (`StoreSpec`, `CycleSpec`,
`TopoSpec`, ...), which is what the theorems of section 4 are about; the MC
modules run several of those next to one another.

Where the code has a `switch` with a fall-through order, the guards of a `CASE`
here exclude one another: TLA+ leaves open which arm of an overlapping `CASE`
is taken, and nothing could be proved of it.

### FaultRun

One action is one step of one goroutine, between two points where others can
see or disturb it.

* main: `Preflight`, `Reset`, `Classify`, `ApplyTopology`, `ArmTopology`,
  `Prepare`, `StartLoad`, `ScheduleFaults`, `ArmExpiring`, `Select`, `Drain`,
  `Evaluate`, `Finish`; `Recover` is the deferred recover. Each can return
  early the way the code does: with an error, or because `abortedEarly` is set.
* watcher: `WatchSignal` (take the signal, begin the teardown), `WatchStore`
  (`aborted.Store` after it), `WatchQuit`.
* load: `LoadMarker`, `LoadEOF`, `LoadFinish`.
* scheduler: `SchedLaunch`, `SchedMarker`, `SchedClosed`, `SchedJoin`.
* a fault's goroutine: `ApplyEffect` or `ApplyError`, then `Track` which
  registers the undo; `ApplyPanic` and `PanicDone`. Between `ApplyEffect` and
  `Track` the fault is live and known to nobody else. An Applier that fails or
  panics may have had its effect (`MayStray`); it returns no undo, so that such
  a "stray" effect stays, and the run is an error.
* teardown, by any of main, watcher and a panicking goroutine: `SwapOut` takes
  a registry's list, `UndoLast` calls its undos from the end, `OnceEnter`,
  `OnceRun` and `OnceReturn` are a call of a `sync.Once`-wrapped undo with its
  waiting, `BatchDone` goes on to the next list, `TeardownTopology` is last.
  `SkipExpiring` is a teardown that runs before the tracker is armed.
* timers: `TimerFire`, `TimerUndo`; the process: `Exit`.

`eff` is what each fault does to the system under test, `undos` the three
registries (`mgr`, `exp`, `que`), `batch` the list an actor has swapped out.
A fault is its `Kind` (which registry and whether it has a timer) and its
`Anchor` (a stage, or 0 for `at: t=`). `Disruptions` selects what may go wrong;
an instance with fewer is used for liveness.

Abstracted: time (a sleep or timer ends at any moment); durations that do not
parse (`applyAt` may fail for any fault that has one); the content of findings
and warnings (that is `Verdict`); evaluation (one step, which may fail).
Its marker channel is unbounded: what the capacity does is `PhaseMarkers`.
`FaultRun`'s `RunReturns` hence holds of load profiles of at most 16 stages.

### PhaseMarkers, CoDrivers, DriveRun, ToolProcess

k6 writes one marker per stage and may die at any point. `ScanSend`, `ScanEOF`
and `ScanClose` are the scan goroutines, `Finish` sends `Done` or `Err`, the
`Tee` actions are `teeMarkers` with its own channel of 8, and the scheduler
stops receiving after the last stage a fault is anchored to. In `ScanGivesUp` a
line is longer than the scanner takes: its goroutine returns, the stream is `cut`
and what is left of it is not read. k6 may then block on its output, so nothing
is assumed of its progress any more.

`CoDrivers` has `start()` for each tool (`StartFirst`, `Launch`, `Store`:
launching a tool and storing its handle are two steps), `stop()` under its
`sync.Once` (`StopEnter`, `StopTool`, `StopDone`), called by collection,
teardown and watcher, and the steps of Run from the load's start to the
verdict as far as they touch the co-drivers.

`DriveRun` joins the two as the code does: the first marker that `teeMarkers`
takes is what begins `start()` (`Takes`), both streams must be scanned before
the handle resolves Run's select (`Resolves`, `RunSelects`), and Run collects
the drivers only when the scheduler is over.

`ToolProcess` is what stands behind one handle. `Preflight` and `useContainer`
choose between a process of this host and a container in the target's network
namespace; `LaunchClient` and `Daemon` are the docker client and the container
it asks for, which go at their own pace; `ToolEndsItself`, `BoundFires` (the
fuzzer's `time.AfterFunc`) and `StopLooks` race, each kill being two steps
(`KillClient`, `KillBox`); `StopReads` turns what is left into a result.

### Appliers

`NetAppliers` has one proxy and one container and gives each fault any verb. A
limit fault reads the limit (`ReadLimit`) and sets it (`ApplyLimit`) in two
calls; `UndoLimit` sets what was read, through `cpusFromNanoCPUs`'s two
decimals (limits count in thousandths of a core). A `graceful` fault only
delivers SIGTERM: the container is `dying`, and `Exits` is its process ending,
seconds later or never. An undo in between finds it running and restarts
nothing; the fault is then undone "early". A call may be refused without an
effect, or fail after it: such an apply is "lost", as nobody has an undo for it,
such an undo is "stuck". What docker answers in each container state
(`Accepts`, `DockerRefuses`, `UndoRefused`) and when a process ends are not code
of the repository; those definitions are marked external.

`MockCycle` creates the stubs one at a time under the system's requests, rolls
back, and deletes. A creation that is reported as failed may have made its
mapping (an answer that is lost, or names no id), which the rollback cannot
know: `ids` is then the place of a mapping that may stay. WireMock's scenario is
external. In `DuplicateLoop` a record is an original or a marked copy. A
`poison_pill` has nothing to undo and is left out.

### Scenario, Emit, Overlay, Reach

`Scenario` takes one document through `Parse`, `CheckDriveFlags`, `Compile` and
`Fire`. A number is its thousandths and a unit, so that the parsers
(`parseMillis`, `parseRateKBps`, `parsePercent`, ...) are what they do to it,
rounding included. The three verb tables (`configVerbs`, `faultVerbs`,
`queueVerbs`) are kept apart, as they are in the code. `IsDocument` is what YAML
decoding guarantees of a document before anything is checked, and the sums of
the stages' durations (`Sums`) are a recursive function of how many stages are
summed.

`Emit` extends it: `runEmit` reads a document as a run would, `EmitScript` makes
the script for one tool. A script is its blocks, one per fault, each a command
or a comment, and the load's steps. `Verbs` and `Translatable` are the tables of
what each tool can express; `Place`, `Amount` and `Window` are the container,
the magnitude and the duration of a command; `buildSteps` and `obsPhaseOffset`
are emit's own readings of the load's stages. Which documents are emitted is a
constant of its own (`EmitDocuments`). Text, and how a tool's threads and
pools are sized, are left out.

`Overlay` is a sequence of runs over one set of containers. `Classes` is
`classifyOne` for every host; `Project` is the compose project with the proxy,
the networks, the rename of an intercepted service and the rewritten
`depends_on`, which a clone has only if one of its needs was renamed
(`BackendNeeds`); `Apply` starts it beside what is already up. A proxy container
that is not replaced keeps the proxies of earlier runs (`Remembered`), and
`EnsureProxies` leaves those where they lead, as a 409 does. `AnswersTo` says
whom a container gets when it asks for a name: that is docker's, as the code
uses it.

`Reach` has concurrent callers that try a direct connection and then the
transport cached for a service (`Lookup`, `Dial`), whose tunnel is a helper
container; an idle tunnel may end by itself, a connection may break before or
after the request was delivered (`Breaks`), and `Close` may come at any time.
`Replay` is net/http's own: a request on a reused tunnel that dies before the
first byte of an answer is sent again over another. `execConn.Close` only ends
the docker client; the process in the container is taken to end with the input
it reads.

### Verdict and TraceChain

One record, chosen at the start, is what a run was given and what its tools
answered; `Reset`, `Classify`, `Ingest`, `Drive` and `Evaluate` are the stages
of run.go that can end it. A finding is made by `Broken`, `Unevaluated`,
`QueryError` or `FuzzFinding`, with the confidence, cause and candidates of
findings.go; `ExitCode` and `Render` are `verdict`'s. Of PromQL and SQL answers
the shape is kept (`PromHolds`, `Violations`), counts in halves so that the
truncation of a fraction is seen.

`TraceChain` decodes one Jaeger document (`decodeJaegerTraces`), looks for the
slowest degraded span at the faulted address (`Best`, against the median of the
fast quartile and the 95th percentile) and climbs one parent per step. The sorted
durations of an operation (`Durations`) are defined by rank: the k-th is the
shortest that k of them stay within.

### Detection and McpServer

`Detection` runs over a project: services, environment hosts, the manifests of
each build context and their imports, some of which were not read, and the
source files with the client calls in them. An image or an import is what the
tables of patterns make of it (a kind, a type, a port); the tables are not
spelled out. A directory may have several manifests, of which `readManifest`
takes the `Preferred` one and says nothing of the others. `DetectServices`,
`detectExternalHosts`, `detectManifests` settle the system, `Audit` is the
doctor's, `buildInit` and `runInit` write the torture.yaml. The loops over the
services, over a manifest's imports and over the manifests are recursive
functions of how many turns have been taken (`Surveyed`, `Attached`,
`Manifested`). `FileClaims` reads
that file as the parser would, with `Scenario`'s definitions, and audits it with
`Overlay`'s, both through `INSTANCE`. Parsing compose files and lockfiles is
taken as done.

`McpServer` extends `Detection`. The client writes lines ahead, the server
handles one at a time (`handleLine`, `BeginRun`, `FinishRun`), the compose file
may be edited in between (`Edit`), and the process may end, fail or be killed
and be started again with an empty table of runs.

### Stores

In `TrendStore` a file is a list of pieces: a beginning of a record, a record
without its newline, or a whole line. Writers append under the lock, fail or
are killed anywhere, and `Load` reads what stands alone between two newlines.
`TrendReport` begins with a verdict document: `Project` keeps the numeric leaves
of its metrics (`flatten`) and the findings' identities (`FindingKey`),
`ReportStep` is a turn of the loop of `Report` and `Built` the loop, a recursive
function of the number of records read; then come the filters, the deltas against
the baseline (`Deltas`, `NewFindings`, `GoneFindings`) and the order of what is
printed (`RenderSeries`, each row at the place that the number of rows above it
gives).

`Recorder` gives every handler its two clock readings, which need not reach
`since()` in the order they were taken, and the cassette's entries, whose
numbers are given under the mutex. The time of a reading is a counter, so that
two readings are never equal. The cassette is a list of pieces as the trend
store's file is: a failed write, or the end of the process in the middle of one
(`Gone`, `KillCapture`), leaves a beginning, a record without its newline, or
nothing. `Replay` extends it: once the process is gone the file is read whole
or refused (`Readable`), and its entries are sent one after the other, each
`repeat` times.

## 3. Runs

| run | distinct states | instance |
|---|---|---|
| `fault_run` | 942,444 | a lasting and a `for:` fault, every disruption possible |
| `fault_live` | 281,775 | two `for:` faults racing their timers; termination |
| `markers` | 108,071 | sixteen stages through both channels, k6 dying and lines too long anywhere |
| `drive` | 777,350 | both tools and the marker pipeline, two stages, every disruption |
| `appliers` | 450,621 | three faults of all verbs; the mock's cycle; two loops |
| `records` | 398,943 | about 1,700 runs to their verdicts, 6,800 trace documents; three writers, four records, three exchanges |
| `planning` | 360,766 | sequences of runs over one stack; documents; scripts of them for fifteen tools; two callers and three hosts; projects of four services; two MCP lines; one tool |
| `signal_leak`, `markers_stuck`, `drive_leak`, `applier_overlap`, `polyglot` | | five statements of the documentation that do not hold |

What they show:

* **A completed run is clean and complete** (`CompletedRunIsClean`,
  `CompletedRunFiredEverything`). Pass and fail mean that every fault was
  applied and undone, and that no Applier call failed after its effect. One
  exception is built into the statement because the code has it: a signal after
  the last `abortedEarly` check makes the watcher take the lists over, and Run
  returns while it still works them off.
* **No undo is lost or doubled** (`LiveFaultIsOwned`, `UndoAtMostOnce`), with
  any overlap of teardowns, timers and panics.
* **An abort follows its teardown** (`AbortedAfterTeardown`), and a container
  whose cleanup is armed has been dealt with by any verdict but an abort
  (`DisabledContainerTornDown`); the window before it is armed is open in the
  code (see below).
* **The orchestrator implements its contract** (`ImplementsContract`).
* **Every run returns and every `for:` fault is lifted** (`RunReturns`,
  `ForFaultExpires`), assuming fairness.
* **The pipeline drops no marker** (`StarvedMeansUnannounced`, `MarkersArrive`)
  but those behind a line longer than the scanner takes, and up to its capacity
  never blocks the goroutine that reports the load's end (`ScannerFree`, and
  `LoadResolves`, a part of `MarkersArrive`).
* **Co-drivers**: if `start()` was over in time, a pass has run, stopped and
  collected every tool (`InTimeMeansComplete`); neither the tee nor a slow
  start keeps a run from returning, only a k6 whose output is no longer read
  (`RunReturns` of `DriveRun`). Whoever ended
  a tool first, what its result says is what became of it, and after a `Stop`
  or a failed `Start` nothing of it runs (`StoppedAndTold`).
* **Appliers**: undone in any order, faults that do not share a limit leave
  the dependency as it was, except that a `graceful` fault undone before its
  process had ended may leave the container stopped, and nothing else does
  (`CleanUndosRestore`); none lifts another
  (`LiveIsInForce`, which excepts `down` and limit faults that share their
  switch); any full cycle of mock answers has exactly the rounded number of
  errors (`RateIsExact`), an undo costs no more stubs than deletions failed and a
  rollback at most one more, the one whose id never came (`MockRestored`); loops
  copy a message once each and are quiet after their undo
  (`AmplificationBounded`, `NoCopyAfterUndo`, `UndoEnds`).
* **A document means what it says** (`PlanMeansWhatItSays`): each phase one
  moment, each accepted fault one layer or a loud failure, each rate its
  magnitude, a drive bound that outlasts the load.
* **An emitted script plays the scenario of the run** (`ScriptIsTheScenario`):
  each fault is one command or one comment, a command has the run's magnitude,
  acts between the service and the target and lasts as long, the steps are the
  compiled stages, and what is refused a run would refuse too. Excepted are six
  tools that read no fault, windows after a stage with both `over:` and `for:`,
  and queue faults where the run has no broker: the run refuses them, the script
  has them.
* **Every fault has traffic to act on and nothing else leaves**
  (`Intercepted`), whatever earlier runs left running, proxies included, if
  every run resets the stack and no service names networks of its own.
* **The right host answers, and helpers are let go** (`ReachedAndLetGo`); a
  request is delivered again only for a connection that broke under it.
* **A verdict is earned**: exit 0 only with every assertion measured and held
  (`GreenIsEarned`), a cause only on evidence within the stated ceiling
  (`CauseHasEvidence`), exit codes that keep the tool's failures apart from the
  service's (`ExitCodesSeparate`), chains of real spans (`ChainIsEvidence`).
* **A claim is supported by what was read or its lack is said**
  (`KnowsOrSays`), and **an MCP
  session answers in order and of itself** (`AnswersAreOfThisSession`).
* **Stores**: a torn write costs at most the one record glued to it
  (`LossIsBounded`, `RecordedStays`), nobody waits for a lock for ever
  (`AppendsEnd`). A row is compared with the nearest comparable run, findings
  that come and go add up, and no filter changes what a row is compared with
  (`SeriesIsTrue`). A cassette's instants give the real overlaps
  (`OverlapIsReal`), the count that is printed after a shutdown in time is true
  (`ReportIsTrue`), and whatever way the capture ended, a replay sends every
  entry that was written, in order and as often as the multiplier says, or
  nothing at all, and to a real host more than once only on request
  (`ReplayIsTheRecording`).

### Disagreements between code and documentation

Shown by a run of their own:

* `signal_leak`: a SIGINT while an applier call is in flight. The watcher's
  teardown does not see the fault; Run takes `<-caught` and returns without a
  second teardown and without waiting for the scheduler. The fault outlives
  the process (SPEC.md:583).
* `markers_stuck`: seventeen stages and no fault anchored to one. The scan
  goroutine blocks on the channel of 16 and Run never returns (SPEC.md:710).
* `drive_leak`: `stop()` reads the handles before `start()` stores one.
  The tool keeps running, without any signal or failure (SPEC.md:602).
* `applier_overlap`: two overlapping limit faults undone in the order of their
  timers. The container keeps the first one's limit (SPEC.md:583,
  manager.go:41).
* `polyglot`: a directory with two manifests. One is read; what the other
  declares is reported as verified absent (lockfile.go:291 against :422,
  SPEC.md:161).

Met while modelling, kept as the code has them in the models:

* Run and teardown: a load failure while a fault is being applied leaves it
  live like `signal_leak` does (run.go:557). An Applier call that fails after it
  took effect leaves the effect, for which there is no undo (scheduler.go:108),
  and a mapping of WireMock whose id was lost stays after the rollback
  (mock_applier.go:205, against R-EXE-18). A signal between `Topology.Apply`
  and the assignment of its teardown leaves the replacement container (run.go:443,
  against run.go:281). Two `down` faults on one proxy lift each other. A
  container paused when a `stress` fault is undone keeps its stress-ng, since
  Run drops the teardown's error (run.go:305). `cpusFromNanoCPUs` does not
  restore a limit of more than two decimals exactly. A `graceful` fault that is
  undone before its process has ended leaves the container stopped although the
  undo succeeded: `docker start` found it running (docker_applier.go:120, against
  SPEC.md:583 and manager.go:41). A line of k6 over 64 KiB ends the scan of its
  stream without an error (load.go:295): phases announced later are not heard and
  their faults are reported as never fired, where load.go:286 says that no marker
  is dropped; k6 may block on the pipe, and then Run does not return.
* Co-drivers: one that starts too late leaves a pass with neither its result
  nor a warning (drive.go:499, SPEC.md:608). "The load generator announced no
  phase" can be said though k6 announced one (drive.go:491). A fuzz pass killed
  by its own bound is reported as having produced no report, where
  schemathesis.go:320 says "we did not kill it". Killing the client of a
  `docker run` may leave a container that was created and never started.
* Verdict: an aborted verdict has no `error` (run.go:417, against SPEC.md:854).
  The fraction of a SQL count is truncated (sqlassert.go:261, SPEC.md:510). Of
  two k6 assertions on one metric the earlier is dropped (k6.go:215,
  SPEC.md:728). `validateThresholdShapes` can refuse nothing. A failed PromQL
  query gives a finding that is not marked unevaluated, and SQL findings never
  get a trace chain.
* Configuration: a bandwidth below 4 kbps rounds to 0. A stage may have `hold:`
  with both `over:` and `for:`, and the drive bound then uses the shorter
  (drive.go:131). The verb table lacks `timeout` and `reset_peer`
  (SPEC.md:1364). `for:` is ignored on queue and egress faults, `fuzz:` is
  accepted and ignored.
* Overlay: a service that names networks in the compose file keeps them under
  the overlay, because compose unites the lists of both files and `!override`
  is only used for `depends_on` (topology.go:459, against SPEC.md:88 and
  egress/topology.go:20). With `--no-reset`, a dependency's own container that
  an earlier run left on the internal network goes on answering to the name
  that the next run gives to the proxy (topology.go:338 and 344, SPEC.md:1443).
  Both are counterexamples to `Intercepted` that TLC finds when `Planning.cfg`
  is given `BaseNets <- MCOwnNets`, or `Requests <- MCRequestsKept`.
* Emit: `sysbench`, `memtier`, `clockskew`, `rebalance`, `dlq-test` and
  `fixtures` say nothing of the faults they do not translate, where R-CLI-8
  wants each reported (SPEC.md:1189). A rate of a stage must be whole for emit
  and may be a fraction for k6: `parseRPS` uses protocol.go's pattern, and its
  own, loadgen.go:43, is used nowhere. Of a stage with both durations
  `obsPhaseOffset` takes `for:` (observability.go:648) where k6 takes `over:`
  for a ramp, so that later windows are elsewhere than the faults. Names that
  differ in case or punctuation only become one name in several tools
  (platform.go:152, loadgen.go:151, observability.go:664). Of a `for:` it cannot
  read, such as 500ms, `fio` says that none was given (protocol.go:228). A ramp
  over 0s makes `ghz` divide by zero (grpc.go:212). (The contract check looks for
  the OpenAPI file beside the flag's path, not beside the compose file that was
  found, check.go:65.)
* Reaching hosts: a base_url on a port of this host is dialed directly even if
  another service has taken it, so that tools can disagree on what they were
  pointed at (R-EXE-27). inreach.go:258 and the comment of `hopTransports`
  describe a retry and a cache otherwise than `RoundTrip` has them.
* Detection: the choice of a client among a package.json's imports depends on
  map order; clients attach only to the first dependency of a type; a service
  with neither image nor build is skipped silently; a build context without a
  known manifest still lets a fact be "false". mcp/dispatch.go:97, check.go:60,
  smoke.go:56 and keploy.go:111 detect without the service that torture.yaml
  names (R-DET-19); the fragments of `propose_experiments` target a dependency
  by its service name, which parsing torture.yaml refuses when `init` has
  classified the host as `host:port` (SPEC.md:1494, mcp.go:59);
  `propose_experiments` does not resolve the compose file the way the others do
  (R-DET-15); `doctor` audits the directory of the flag and not of the file
  that was found (doctor.go:258); `init` overwrites a torture.yaml where `init
  --ci` refuses to.
* Records: after a torn write the next record is lost although its `Append`
  succeeded, where SPEC.md:1648 speaks of one skippable line. A request that
  began before the one that fixed the epoch gives an entry without history. A
  line of more than 16 MiB ends an MCP session (server.go:71, SPEC.md:1496).
  A finding's identity across runs has a part that SPEC.md's R-CLI-14 does not
  name, whether it was evaluated (trend.go:109). One torn line makes a replay
  refuse the whole cassette (cassette.go:117), where the trend store skips a
  line; an entry whose write was reported as failed is replayed if only its
  newline is missing. A replay goes by the order of writing, which may not be
  the order of two exchanges whose large answers left before their entries.

### Bounds

* Two faults in `FaultRun` suffice to have two members of one list, or one in
  each of two, and all three kinds of actors at once: what a step does depends
  on one fault and on whether another is pending. TLC's instances are network
  faults; the theorems below hold for every `Kind`, number and anchor.
* Sixteen stages are the marker channel's capacity and seventeen the first
  number beyond it; the tee's channel of 8 is smaller. In `drive` the channels
  are 2 and 1 with two stages, so that both fill up.
* Three faults on one dependency allow an undo between two others. The mock's
  cycle has 6 states where the code has 20: they enter as a modulus and a loop
  bound. Two loops, two messages: a loop meets its own and another's copies.
* Three writers: one torn, one glued to it, one after. Four records of two
  scenarios, each out of 16 documents: two comparable runs with two others
  between them. Three exchanges with two clock readings each (`MaxClock`):
  every interleaving of the three, with at most one failed write (`MaxLost`),
  which may be the first, the last or between two.
* Runs to a verdict: up to two faults and three assertions, one of each back
  end, with every answer a back end can give; a trace has three linked spans
  with any parents, cycles included, and up to two observations more, which is
  what "slow in more than one observation" can be missed by.
* Two dependencies, one waiting for the other, and two outside hosts; any
  sequence of requests. One document and every single change of each of its
  parts, each verb with each value. Of the 26 tools every one with a table of
  verbs of its own and one of each other kind, over documents with one fault and
  with two. Two callers of three hosts share or do not
  share a transport. Four services, of which two may be built and need each
  other. Two lines written ahead and two runs (`MaxLines`, `MaxRuns`): the
  second is written while the first is handled.

### Fairness

`FairSpec` of `FaultRun` and `PhaseMarkers` asks weak fairness of each
goroutine: the Go scheduler runs what can run, external calls have timeouts or
end, k6's profile is finite and its output is read (once a scan has given up on
a line, nothing is asked of k6, nor that a scan gives up). `DriveFairSpec` asks
the same of the load's writes, the scans, the tee, the scheduler, Run, the
watcher, `start()` and the steps of `stop()`. No disruption is fair. `appliers`
asks strong fairness of one step: a `select` whose `stop` case stays ready
beside a ticker takes it eventually, as Go chooses among ready cases at random.
`records` asks that a process in `Append` runs and that a granted lock is the
only thing it waits for. Deadlock checking is off in `markers_stuck`, whose
point is that everything stops, and in `planning` and `polyglot`, where reading
a document, a detection or a killed server simply ends.

## 4. Proofs

`FaultRunProofs` proves, for any set of faults, kinds, anchors, number of
stages and set of disruptions (`ConstantsAssumption`):

| theorem | statement |
|---|---|
| `TypeCorrect`, `Invariance` | `Spec => []TypeOK`, `Spec => []IInv` |
| `CompletedIsClean`, `CompletedFiredEverything` | a completed run is clean and has fired every fault |
| `UndoOnce`, `LiveIsOwned` | no undo twice, none lost |
| `AbortFollowsTeardown`, `ContainerTornDown` | the abort and container properties |
| `Refinement` | `Spec => Contract!ContractSpec` |

None of the safety properties is inductive by itself: that a completed run is
clean depends on where undos can be. `IInv` (in `FaultRunInv`, checked by TLC in
`fault_run`) is the conjunction of `TypeOK` and

* `ActorInv`: who may be tearing down, and that only an open list has a batch;
* `RegistryInv`: an undo is in one place at most, its own registry or one batch;
* `PendingInv`: a registered undo has not run, unless its `Once` says so;
* `EffectInv`: the life of a fault, its goroutine, its `Once` and its timer; a
  stray effect belongs to a goroutine that reported an error;
* `LiveFaultIsOwned`: a live fault has an owner;
* `SchedInv`: no declared fault gets lost between scheduler and verdict;
* `FinalInv`: a list main has dealt with in its last teardown stays empty;
* `AbortInv`, `TopologyInv`: the flags.

The proof takes one lemma per group of conjuncts and in it one step per action.
The list lemmas (front, last, append of a sequence without repetitions) come
first. `CompletedIsClean` then follows from `FinalInv` (all lists dealt with),
`LiveFaultIsOwned` and `ActorInv`: the only batch left is the watcher's.
`Refinement` maps `eff` to the effects, `status` to the verdict and the
watcher's progress to `interrupted`, and shows each step to be a contract step
or a stutter; the conclusion step needs `IInv`.

`DriveRunProofs` proves for all capacities, numbers of stages and anchors that
the pipeline's order is kept (`Pipeline`, itself inductive), hence that a fault
reported as never fired had an unannounced phase (`Unannounced`) or lay behind
a line too long for the scanner, and that up to the channel's capacity the scan
goroutine never blocks (`ShortProfileNeverBlocks`).

It and five more modules prove that each component keeps what the runs check of it:

| module | theorem | property |
|---|---|---|
| `DriveRunProofs` | `PassIsComplete` | `InTimeMeansComplete` |
| | `DriveImplementsPipeline`, `DriveImplementsDrivers`, `DriveKeepsBoth` | the composition implements both its parts, so what is proved of a part holds in it |
| `AppliersProofs` | `LiveFaultsAreInForce`, `UndosRestore` | `LiveIsInForce`, `CleanUndosRestore` |
| | `MockIsRestored`, `RateOfErrors` | `MockRestored`, `RateIsExact` |
| | `Amplification`, `NoCopyOnceUndone` | `AmplificationBounded`, `NoCopyAfterUndo` |
| `StoresProofs` | `TornWritesCostOneEach`, `NoRecordIsUnwritten` | `LossIsBounded`, `RecordedStays` |
| | `InstantsAreReal`, `TheReportIsTrue` | `OverlapIsReal`, `ReportIsTrue` |
| | `TheReplayIsTheRecording` | `ReplayIsTheRecording` |
| | `SeriesSaysWhatChanged` | `SeriesIsTrue` |
| `ReachProofs` | `ReachedAndReleased` | `ReachedAndLetGo` |
| | `TrafficIsIntercepted`, `ToolIsStoppedAndTold` | `Intercepted`, `StoppedAndTold` |
| `VerdictProofs` | `GreenRunsAreEarned`, `ExitCodesTell`, `CausesHaveEvidence` | `GreenIsEarned`, `ExitCodesSeparate`, `CauseHasEvidence` |
| | `ChainsAreEvidence` | `ChainIsEvidence` |
| `PlanningProofs` | `ClaimsAreKnown` | `KnowsOrSays` |
| | `PlansMeanWhatTheySay`, `ScriptsPlayTheScenario` | `PlanMeansWhatItSays`, `ScriptIsTheScenario` |
| | `AnswersAreInOrder` | `AnswersAreOfThisSession` |

Each follows the same argument: an invariant that the initial state has and
every step keeps, checked by TLC on the run's instance before it was proved,
and from which the property follows. What the strengthenings add:

* Co-drivers: a pass says something about the past of every tool. `StartInv`
  follows each requested tool from the queue over its handle to a result,
  `StopInv` says that `stop()` is done with what it has passed, `PassInv` that
  what the verdict was decided on still holds.
* Network appliers: `ProxyInv`, `BoxInv` and `LimitInv` say that an actuator is
  off its rest position only on account of a fault that is live or whose undo
  failed, or of an apply that failed after its effect; a container that is
  stopped or dying has a `graceful` or `kill` fault to account for it; what a
  limit is, and that a proxy stays down, are followed only as long as no two
  faults share the switch. `RestInv` is `CleanUndosRestore` made inductive.
* Mock: `StubInv` relates the stubs that exist, those still to be deleted, the
  deletions that failed and the one mapping whose id is not known; `RateInv`
  says that the answers are those of the last states of the cycle.
  `RateOfErrors` then needs that as many residues modulo the cycle's length are
  below the number of errors in any full round, which is proved by a bijection
  and not by counting.
* Duplicate loops: `BatchInv` says that a loop's batch is the end of what it
  was given, `OnceInv` that no record is on the topic twice and that a loop has
  handled what it copied, `UndoInv` that the loop is over when its undo is.
* Trend store: `PieceInv`: one piece for each writer, only the lock's holder at
  work, and what it has begun is the end of the file. The bound on the losses
  is an injection: each lost record lies next to the torn one that cost it.
* Recorder: `TimeInv` (instants are measured from an epoch that stands),
  `EntryInv` (what is written is over), `GoneInv`, `CountInv`, `SeqInv` (the
  numbers rise). Replay: `SentInv`, that what has been sent is the beginning of
  the cassette with every entry `repeat` times.
* Reach: `CallInv` states for each step of a caller what it holds and that each
  delivery but one is matched by a connection that broke, `TunnelInv`
  that a tunnel in use is that of one waiting caller, `BoundInv` that a
  transport leads to one service, `OnInv` and `OverInv` that the cache knows
  every transport until Close has closed it, `ResultInv` the counts of smoke.
* Verdict: `VerdictInv`: a verdict is silent until the run is over, and then an
  error, an abort, or exactly what was held and found.
* Trace: `ChainInv`: the climb so far is a chain. That its first span is slow in
  more than one observation needs the arithmetic of the percentile: in a list of
  two or more the place it takes is before the last, so that two observations are
  as slow as it is (`BelowGrows` and the lemmas after it count ranks).
* Trend report: for each filter, what the loop has built after n records is
  stated outright: rows for the anchored records kept, in their order, each with
  the nearest joined record as its base. A first n at which that fails would
  have a turn of the loop that breaks it.
* Scenario: `ScenarioInv`: what is fired is the outcome of a fault that parsing
  accepted (`RoutedAs`). The lemmas before it are the argument: the three verb
  tables agree, each verb has one owner and each owner an amount it can read or
  an error, and greater durations have greater sums.
* Emit: `EmitInv`: a finished emit is what the two steps make of the document.
  The argument is one lemma for each kind of tool, that a block and the
  translation of the same fault agree, and one for each reading of the stages.
* Detection: `DetectionInv` says for each stage what has been settled.
  `ServicesKnown`: the service is derived, every image is told of. `FactsOK`:
  every manifest has been heard, and what is denied was in none of them. Both
  speak of loops that have ended; that they hold after each turn, and that the
  later turns lose nothing of it (`Keeps`), is what the lemmas are about
  (`SurveyTells`, `ManifestsAreHeard`). A client stays supported by a manifest
  (`Supported`) however many imports are attached in whatever order.
* MCP: `LinesInv`, `RunInv` (one run at a time, begun by a line), `AskInv` (the
  answers settle the first lines that want one: all of them between two lines,
  all but one during a run), `SayInv` (a verdict is the only one of its run, an
  explanation is of a run of this process).
* Overlay: `OverlayInv`: what was up before the overlay and is not replaced by
  it has only the base project's network, so it cannot answer under load.
* Tool: `RaceInv` and `ReadInv`: who ended the client can be told from what
  there is when Stop reads it.

Assumptions. The constants' are named where they are declared, evaluated by TLC
and no stronger than the code: `"sut"` is no loop and `"none"` no writer (the
models' own values), `""` is no host, a confidence ceiling is `correlated` or
`caused` (detect/compose.go:209), and no chain leads to `""` or `topic`, which
are no addresses; a document has lists and integers where YAML decoding puts them
(`DocumentsAssumption`, `EmitDocumentsAssumption`); `-last` is an integer
(`FiltersAssumption`); the number that `init` leaves out is the parser's
(`NotSaidAssumption`); a project has finitely many services, with names and in one
order, images that the tables have read and for each directory a set of
manifests, each of a known kind (`ProjectsAssumption`), and a
registry's predicate is a list of terms (`PredicatesAssumption`). Three theorems
have a hypothesis of their own, for cases that the code does not handle:

* `UndosRestore`: the container's own limit is a multiple of a hundredth of
  a core, since `cpusFromNanoCPUs` keeps two decimals.
* `GreenRunsAreEarned`: each metric has one k6 assertion
  (`OneThresholdPerMetric`), since the later of two replaces the earlier, and a
  SQL count is whole (`WholeCounts`), since a fraction is cut off.
* `TrafficIsIntercepted`: `Ordinary`, which asks that every run resets and that
  no service has networks of its own, each of which is needed (section 3,
  Overlay); that no outside host has the name of a service, which
  would then be answered twice; that services wait for services and that a
  fault's target has a class, as parsing sees to.

What a loop or a sum computes for a list of any length is proved without
induction theorems (the library's take an operator as a parameter, which no
installed prover can instantiate): the loop is a recursive function of the number
of turns, whose existence and whose values follow from the least counterexample
(`LeastNat` of `OrderFacts`, from the well-foundedness of inclusion among finite
sets). `PlacesAreTaken` does the same for sorting: the number of members above
one tells the places apart.

Only model-checked: everything temporal under fairness (`RunReturns`,
`ForFaultExpires`, `MarkersArrive`, `UndoEnds`, `AppendsEnd`), which this prover
does not reach. Every invariant that a passing run checks is also a theorem.

## 5. Not modelled, and the plan

The contract checks compare recorded samples in one pass. Left out of
components that are modelled: the text of the k6 script and of emitted ones,
the dashboards, seeds and provisioning of `emit` that depend on no fault, of
docker's command lines, stress-ng's arguments, the numbers in pgbench's output,
the layout and JSON of a verdict, parsing of YAML, compose files and lockfiles,
`init --ci`, scrubbing and `keploy`, `poison_pill`, and the verbs of the
command line that only call one component.

What remains, in this order:

1. Proofs: `FaultRun`'s contract under `DriveRun`.
2. The contract checks, as one more slice of `MCPlanning`.
