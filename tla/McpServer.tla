----------------------------- MODULE McpServer -----------------------------
(***************************************************************************)
(* internal/mcp: five tools over lines of JSON-RPC on stdin and stdout.    *)
(* The client may write many lines ahead; the server reads one, does what  *)
(* it says and answers before it reads the next.  Verdicts live as long as *)
(* the process does.                                                       *)
(***************************************************************************)
EXTENDS Detection

CONSTANTS
    Served,      \* the projects in which a server is started
    Lines,       \* what a client may write
    MaxLines,    \* bound: lines written in a session
    MaxRuns      \* bound: no further process is started after so many runs
ASSUME BoundsAssumption == MaxLines \in Nat /\ MaxRuns \in Nat

VARIABLES
    session,     \* "down", "up", "running" an experiment, "failed", "ended"
    inbox,       \* lines written and not read
    read,        \* lines read, the one being handled last
    replies,     \* lines written back
    runs,        \* the verdicts of this process, by run id, with their system
    lastRun,     \* the id of the last run of any process
    stack        \* the dependencies that detection finds now

mcpVars == <<session, inbox, read, replies, runs, lastRun, stack>>

-----------------------------------------------------------------------------
(* The world around the server. *)

McpInit ==
    /\ session = "down" /\ inbox = <<>> /\ read = <<>> /\ replies = <<>>
    /\ runs = <<>> /\ lastRun = 0 /\ stack = <<>>

(* A new process knows no run of the one before. *)
Start ==
    /\ session \in {"down", "failed", "ended"} /\ looked = "written" /\ project \in Served
    /\ lastRun < MaxRuns
    /\ session' = "up" /\ inbox' = <<>> /\ read' = <<>> /\ replies' = <<>>
    /\ runs' = <<>> /\ stack' = found.deps
    /\ UNCHANGED lastRun

Write(line) ==
    /\ session \in {"up", "running"} /\ Len(read) + Len(inbox) < MaxLines
    /\ inbox' = Append(inbox, line)
    /\ UNCHANGED <<session, read, replies, runs, lastRun, stack>>

Edit ==
    /\ session \in {"up", "running"}
    /\ stack' = <<>>
    /\ UNCHANGED <<session, inbox, read, replies, runs, lastRun>>

-----------------------------------------------------------------------------
(* The tools, and what each answers; of a run where it is of one.  A file  *)
(* that a tool reads may be missing or broken at that moment: an error.    *)

NoRun == 0
Told(kind, run, says) == [kind |-> kind, run |-> run, says |-> says, id |-> 0]
Error(kind) == Told(kind, NoRun, {})

knobsByDepType == {"postgresql", "mysql", "redis", "mongodb", "kafka", "rabbitmq"}

(* A library that owns a knob of the dependency that the fault was on. *)
candidatesForTarget(target, deps) ==
    LET hits == {i \in DOMAIN deps : target \in {deps[i].name, deps[i].address}}
        hit  == deps[CHOOSE i \in hits : \A j \in hits : i <= j]
    IN  IF hits = {} \/ hit.type \notin knobsByDepType \/ hit.clients = <<>> THEN {}
        ELSE {hit.clients[1].import}

ExplainFailure(run, deps, finding) ==
    LET f == CHOOSE g \in run.findings : g.id = finding
    IN  IF f.candidates # {} \/ f.target = "" THEN f.candidates
        ELSE candidatesForTarget(f.target, deps)

(* Mutant: explained against the system as it is now. *)
callExplainFailure_Now(line) ==
    CASE line.run \notin DOMAIN runs -> Error("error")
      [] OTHER -> IF \E f \in runs[line.run].findings : f.id = line.finding
                  THEN Told("explanation", line.run,
                              ExplainFailure(runs[line.run], stack, line.finding))
                  ELSE Error("error")

callExplainFailure(line) ==
    CASE line.run \notin DOMAIN runs -> Error("error")
      [] OTHER -> IF \E f \in runs[line.run].findings : f.id = line.finding
                  THEN Told("explanation", line.run,
                              ExplainFailure(runs[line.run], runs[line.run].sys, line.finding))
                  ELSE Error("error")

(* A fault at t=30s for 30 seconds: an outage to try retries, a delay to   *)
(* try timeouts; what is absent first, then what is not known.             *)
fragmentFor(h) ==
    [at |-> "t=", offset |-> 0, for |-> 30, target |-> h.dep,
     inject |-> IF h.check = "retry" THEN "down" :> [n |-> 1000, unit |-> "bool"]
                ELSE "latency" :> [n |-> 300000, unit |-> "ms"]
                     @@ "jitter" :> [n |-> 50000, unit |-> "ms"]]

rankFor(h) == [absent |-> 1, present |-> 3] @@ ("not determined" :> 2)

ProposeExperiments == {[rank |-> rankFor(h)[h.result], fault |-> fragmentFor(h)] : h \in hints}

callTool(line) ==
    CASE line.tool = "describe_system"     -> Told("system", NoRun, {d.name : d \in ToSet(stack)})
      [] line.tool = "propose_experiments" -> Told("fragments", NoRun, ProposeExperiments)
      [] line.tool = "emit_k6_script"      -> Told("script", NoRun, {})
      [] line.tool = "explain_failure"     -> callExplainFailure(line)
      [] line.tool = "run_experiment"      -> Error("error")
      [] OTHER                             -> Error("error")

dispatch(line) ==
    IF line.form = "garbage" THEN Error("parse error")
    ELSE CASE line.method = "initialize" -> Told("capabilities", NoRun, {})
           [] line.method = "tools/list" -> Told("tools", NoRun, {})
           [] line.method = "tools/call" ->
                IF line.params THEN callTool(line) ELSE Error("invalid params")
           [] line.method = "notifications/initialized" -> Told("nothing", NoRun, {})
           [] OTHER -> Error("method not found")

-----------------------------------------------------------------------------
(* A request without an id is a notification: done, and not answered.      *)
Answerable(line) == line.form = "garbage" \/ (line.form = "request" /\ line.id # 0)

Calls(line) == line.form = "request" /\ line.method = "tools/call" /\ line.params

Executes(line) == Calls(line) /\ line.tool = "run_experiment"

ReadsAFile(line) ==
    Calls(line) /\ line.tool \in {"emit_k6_script", "describe_system", "propose_experiments"}

Reply(line, answer) ==
    replies' = IF Answerable(line)
               THEN Append(replies, [answer EXCEPT !.id = IF line.form = "garbage" THEN 0
                                                          ELSE line.id])
               ELSE replies

Take == /\ session = "up" /\ inbox # <<>>
        /\ inbox' = Tail(inbox) /\ read' = Append(read, Head(inbox))

(* A blank line is skipped. *)
handleLine ==
    /\ Take /\ Head(inbox).form # "too long"
    /\ \/ Head(inbox).form = "blank" /\ UNCHANGED replies
       \/ Head(inbox).form # "blank" /\ Reply(Head(inbox), dispatch(Head(inbox)))
       \/ ReadsAFile(Head(inbox)) /\ Reply(Head(inbox), Error("error"))
    /\ UNCHANGED <<session, runs, lastRun, stack>>

(* run_experiment finds its files good, then runs for minutes.             *)
BeginRun ==
    /\ Take /\ Executes(Head(inbox))
    /\ session' = "running"
    /\ lastRun' = lastRun + 1
    /\ runs' = [r \in DOMAIN runs \cup {lastRun'} |->
                   IF r = lastRun' THEN [findings |-> {}, sys |-> stack, over |-> FALSE]
                   ELSE runs[r]]
    /\ UNCHANGED <<replies, stack>>

Findings == {[id |-> "F1", target |-> "db", candidates |-> c] : c \in {{}, {"own library"}}}
            \cup {[id |-> "F1", target |-> "", candidates |-> {}]}

FinishRun ==
    /\ session = "running" /\ session' = "up"
    /\ \E fs \in {{}} \cup {{f} : f \in Findings} :
         runs' = [runs EXCEPT ![lastRun].findings = fs, ![lastRun].over = TRUE]
    /\ Reply(read[Len(read)], Told("verdict", lastRun, {}))
    /\ UNCHANGED <<inbox, read, lastRun, stack>>

(* A line past the buffer, or a pipe that the client has closed, ends the  *)
(* server with an error; an end of input without one; a kill, at any time. *)
Fail == /\ \/ Take /\ Head(inbox).form = "too long"
           \/ Take /\ Answerable(Head(inbox)) /\ ~Executes(Head(inbox))
        /\ session' = "failed" /\ UNCHANGED <<replies, runs, lastRun, stack>>

EndOfInput == /\ session = "up" /\ inbox = <<>> /\ session' = "ended"
              /\ UNCHANGED <<inbox, read, replies, runs, lastRun, stack>>

Killed == /\ session \in {"up", "running"} /\ session' = "failed"
          /\ UNCHANGED <<inbox, read, replies, runs, lastRun, stack>>

McpNext == /\ \/ Start \/ Edit \/ handleLine \/ BeginRun \/ FinishRun \/ Fail \/ EndOfInput \/ Killed
              \/ \E line \in Lines : Write(line)
           /\ UNCHANGED detectionVars

(* A server is started over what detection has found. *)
McpSpec == /\ DetectionInit /\ McpInit
           /\ [][McpNext \/ (DetectionNext /\ UNCHANGED mcpVars)]_<<mcpVars, detectionVars>>

-----------------------------------------------------------------------------
(* What a session tells the assistant is in order and of this session.     *)
(* Every request read is answered once, under its own id and before the    *)
(* next is read, save the one in hand and the last before a failure;       *)
(* notifications never are (R-MCP-7).  Only run_experiment runs anything,  *)
(* one run at a time (R-MCP-2).  A verdict is answered once, and a failure *)
(* is explained only from a verdict of this process that holds it, by the  *)
(* system as that run found it and by a client of the dependency at fault, *)
(* where that one has a client that owns a knob (R-MCP-3).                 *)
Asked == {i \in DOMAIN read : Answerable(read[i])}

(* The k-th reply is the answer to the line at i, the k-th asked. *)
Settles(k, i) ==
    /\ Cardinality({j \in Asked : j <= i}) = k
    /\ replies[k].id \in {0, read[i].id}
    /\ replies[k].kind = "parse error" <=> read[i].form = "garbage"

Explains(says, f, deps) ==
    LET named == {d \in ToSet(deps) : f.target \in {d.name, d.address}}
        own   == {d \in named : d.clients # <<>> /\ d.type \in knobsByDepType}
    IN  IF f.candidates # {} THEN says = f.candidates
        ELSE /\ says \subseteq {d.clients[1].import : d \in own}
             /\ f.target # "" /\ named # {} /\ named = own => says # {}

AnswersAreOfThisSession ==
    /\ \A k \in DOMAIN replies : \E i \in Asked : Settles(k, i)
    /\ session = "up" => Len(replies) = Cardinality(Asked)
    /\ Cardinality(Asked) - Len(replies) \in {0, 1}
    /\ Cardinality({r \in DOMAIN runs : ~runs[r].over}) <= 1
    /\ session = "up" => \A r \in DOMAIN runs : runs[r].over
    /\ Cardinality(DOMAIN runs) <=
         Cardinality({i \in DOMAIN read : read[i].tool = "run_experiment"})
    /\ \A k \in DOMAIN replies :
         /\ replies[k].kind = "verdict" =>
              /\ replies[k].run \in DOMAIN runs
              /\ \A m \in DOMAIN replies : replies[m] = replies[k] => m = k
         /\ replies[k].kind = "explanation" =>
              /\ replies[k].run \in DOMAIN runs
              /\ \E f \in runs[replies[k].run].findings :
                    Explains(replies[k].says, f, runs[replies[k].run].sys)

=============================================================================
