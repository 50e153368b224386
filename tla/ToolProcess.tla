---------------------------- MODULE ToolProcess ----------------------------
(***************************************************************************)
(* One co-driven tool behind the handle that CoDrivers stores: pgbench or  *)
(* schemathesis, run as a process of this host or, where the host cannot   *)
(* reach the target, as a container in the target's network namespace.     *)
(* The docker client, the container it asks for, the tool's own end, the   *)
(* fuzzer's bound and Stop all go at their own pace.                       *)
(***************************************************************************)
EXTENDS Naturals

VARIABLES
    tool,      \* which tool, and what Start finds on this host
    point,     \* where Preflight, Start and Stop are
    mode,      \* "host" or "container" once Start has chosen
    client,    \* the process that the handle waits for
    asked,     \* what the docker client has asked of the daemon
    box,       \* the tool's container
    pass,      \* how the tool itself ended
    bound,     \* the fuzzer's time.AfterFunc
    kill,      \* how far the bound and Stop are with their kill()
    cutShort,  \* Stop found it running
    report,    \* the JUnit report was read
    toolResult

toolVars == <<tool, point, mode, client, asked, box, pass, bound, kill, cutShort, report, toolResult>>

Fuzz == tool.kind = "schemathesis"

(* What Start finds: the tool's binary and docker on PATH, the target's     *)
(* container, an address it can read, and whether a dial from here connects.*)
(* The container is looked up through docker, and under the host of a       *)
(* connection URI (containerForService, dsnHost).                           *)
ToolSites == {h \in [kind : {"pgbench", "schemathesis"}, bin : BOOLEAN, docker : BOOLEAN,
                  netns : BOOLEAN, uri : BOOLEAN, reach : BOOLEAN] :
             h.netns => h.docker /\ (h.kind = "pgbench" => h.uri)}

NoResult == [err |-> "none", failures |-> FALSE, unexecuted |-> FALSE]

ToolFresh(p) ==
    /\ point = p /\ mode = "none" /\ client = "none" /\ asked = "none" /\ box = "none"
    /\ pass = "none" /\ bound = "off" /\ kill = [a \in {"bound", "stop"} |-> "no"]
    /\ cutShort = FALSE /\ report = FALSE /\ toolResult = NoResult

ToolInit == tool \in ToolSites /\ ToolFresh("preflight")

-----------------------------------------------------------------------------
(* Preflight and Start. *)

Preflight ==
    /\ point = "preflight"
    /\ point' = IF tool.bin \/ tool.docker THEN "start" ELSE "refused"
    /\ UNCHANGED <<tool, mode, client, asked, box, pass, bound, kill, cutShort, report, toolResult>>

(* The host dials its own way first; a DSN that is no URI stays on the host.*)
useContainer ==
    /\ tool.netns
    /\ ~tool.bin \/ (tool.uri /\ ~tool.reach)

(* pgbench -i, or docker create, has to come back before anything starts.   *)
StartTool ==
    /\ point = "start"
    /\ mode' = IF useContainer THEN "container" ELSE "host"
    /\ \/ /\ useContainer \/ tool.bin
          /\ point' = IF useContainer /\ Fuzz THEN "copy" ELSE "launch"
          /\ box' = IF useContainer /\ Fuzz THEN "created" ELSE "none"
       \/ point' = "failed" /\ UNCHANGED box
    /\ UNCHANGED <<tool, client, asked, pass, bound, kill, cutShort, report, toolResult>>

(* docker cp of the document; where it fails the container is removed. *)
CopySpec ==
    /\ point = "copy"
    /\ \/ point' = "launch" /\ UNCHANGED box
       \/ point' = "failed" /\ box' = "none"
    /\ UNCHANGED <<tool, mode, client, asked, pass, bound, kill, cutShort, report, toolResult>>

(* cmd.Start; a client that could not be started takes the container along. *)
LaunchClient ==
    /\ point = "launch"
    /\ \/ /\ point' = "up" /\ client' = "running" /\ UNCHANGED box
          /\ asked' = IF mode = "host" THEN "none" ELSE IF Fuzz THEN "start" ELSE "create"
          /\ bound' = IF Fuzz THEN "armed" ELSE "off"
       \/ point' = "failed" /\ box' = "none" /\ UNCHANGED <<client, asked, bound>>
    /\ UNCHANGED <<tool, mode, pass, kill, cutShort, report, toolResult>>

-----------------------------------------------------------------------------
(* The daemon, the tool and the client. *)

(* A request in flight is served or dropped, its client dead or not; only   *)
(* `docker run` goes on from create to start, and only while it lives.      *)
Daemon ==
    /\ asked # "none"
    /\ \/ /\ asked = "create" /\ box' = "created"
          /\ asked' = IF client = "running" THEN "start" ELSE "none"
          /\ UNCHANGED client
       \/ /\ asked = "start" /\ box = "created" /\ box' = "running"
          /\ asked' = "none" /\ UNCHANGED client
       \/ /\ asked' = "none" /\ UNCHANGED box
          /\ client' = IF client = "running" THEN "failed" ELSE client
    /\ UNCHANGED <<tool, point, mode, pass, bound, kill, cutShort, report, toolResult>>

Working == IF mode = "host" THEN client = "running" ELSE box = "running"

(* pgbench ends at -T or fails; schemathesis writes its report as it ends,  *)
(* or ends without one.                                                     *)
ToolEndsItself ==
    /\ Working /\ pass = "none"
    /\ pass' \in IF Fuzz THEN {"clean", "failures", "errors", "both", "crashed"} ELSE {"ok", "failed"}
    /\ IF mode = "host"
       THEN client' = (IF pass' \in {"ok", "clean"} THEN "ended" ELSE "failed") /\ UNCHANGED box
       ELSE box' = "exited" /\ UNCHANGED client
    /\ UNCHANGED <<tool, point, mode, asked, bound, kill, cutShort, report, toolResult>>

(* The client attached to the container exits as the tool did; --rm.  *)
ClientFollows ==
    /\ mode = "container" /\ client = "running" /\ asked = "none" /\ box \notin {"created", "running"}
    /\ client' = IF pass \in {"ok", "clean"} THEN "ended" ELSE "failed"
    /\ box' = IF Fuzz THEN box ELSE "none"
    /\ UNCHANGED <<tool, point, mode, asked, pass, bound, kill, cutShort, report, toolResult>>

-----------------------------------------------------------------------------
(* kill(), from the bound's own goroutine and from Stop. *)

BoundFires ==
    /\ bound = "armed"
    /\ bound' = "fired"
    /\ kill' = [kill EXCEPT !["bound"] = IF client = "running" THEN "client" ELSE "no"]
    /\ UNCHANGED <<tool, point, mode, client, asked, box, pass, cutShort, report, toolResult>>

KillClient(a) ==
    /\ kill[a] = "client"
    /\ client' = IF client = "running" THEN "killed" ELSE client
    /\ kill' = [kill EXCEPT ![a] = IF mode = "container" THEN "box" ELSE "done"]
    /\ UNCHANGED <<tool, point, mode, asked, box, pass, bound, cutShort, report, toolResult>>

(* docker kill leaves the fuzzer's container for its report; pgbench's is   *)
(* removed at once.                                                         *)
KillBox(a) ==
    /\ kill[a] = "box"
    /\ kill' = [kill EXCEPT ![a] = "done"]
    /\ box' = IF ~Fuzz THEN "none" ELSE IF box = "running" THEN "exited" ELSE box
    /\ UNCHANGED <<tool, point, mode, client, asked, pass, bound, cutShort, report, toolResult>>

-----------------------------------------------------------------------------
(* Stop. *)

StopLooks ==
    /\ point = "up"
    /\ point' = "stopping"
    /\ bound' = IF bound = "armed" THEN "off" ELSE bound
    /\ cutShort' = (client = "running")
    /\ kill' = [kill EXCEPT !["stop"] = IF client = "running" THEN "client" ELSE "done"]
    /\ UNCHANGED <<tool, mode, client, asked, box, pass, report, toolResult>>

(* <-h.exited, then the report comes out of the container. *)
StopReads ==
    /\ point = "stopping" /\ kill["stop"] = "done" /\ client # "running"
    /\ point' = "remove"
    /\ report' = (Fuzz /\ pass \notin {"none", "crashed"})
    /\ UNCHANGED <<tool, mode, client, asked, box, pass, bound, kill, cutShort, toolResult>>

(* Mutant: the exit status alone decides, whoever ended the process. *)
ToolError_AnyExit ==
    IF Fuzz
    THEN IF ~report THEN (IF cutShort THEN "none" ELSE "no report")
         ELSE IF pass = "errors" THEN "nothing executed" ELSE "none"
    ELSE IF client \in {"failed", "killed"} THEN "exit" ELSE "none"

(* A process that was killed here failed nothing; a fuzz pass without a     *)
(* report, or of which every case errored, did.                             *)
ToolError ==
    IF Fuzz
    THEN IF ~report THEN (IF cutShort THEN "none" ELSE "no report")
         ELSE IF pass = "errors" THEN "nothing executed" ELSE "none"
    ELSE IF ~cutShort /\ client \in {"failed", "killed"} THEN "exit" ELSE "none"

(* docker rm -f on every path, then the result. *)
StopRemoves ==
    /\ point = "remove"
    /\ point' = "over"
    /\ box' = "none"
    /\ toolResult' = [err |-> ToolError,
                      failures |-> report /\ pass \in {"failures", "both"},
                      unexecuted |-> report /\ pass \in {"errors", "both"}]
    /\ UNCHANGED <<tool, mode, client, asked, pass, bound, kill, cutShort, report>>

ToolNext ==
    \/ Preflight \/ StartTool \/ CopySpec \/ LaunchClient
    \/ Daemon \/ ToolEndsItself \/ ClientFollows \/ BoundFires
    \/ \E a \in {"bound", "stop"} : KillClient(a) \/ KillBox(a)
    \/ StopLooks \/ StopReads \/ StopRemoves

ToolSpec == ToolInit /\ [][ToolNext]_toolVars

-----------------------------------------------------------------------------

(* What Stop says of the tool is what became of it, whoever ended it first. *)
(* Once Start has failed or Stop has returned nothing of it runs and, after *)
(* a failed Start, nothing was created; an error is the tool's own and not  *)
(* the kill of Stop; a pass called clean ran to its end; and failures that  *)
(* were found before Stop looked are reported (R-EXE-5, 26, 27, R-VER-2).   *)
StoppedAndTold ==
    /\ point = "failed" => client = "none" /\ box = "none"
    /\ point = "over" =>
         /\ client # "running" /\ box # "running"
         /\ toolResult.err = "exit" => ~cutShort /\ client = "failed"
         /\ toolResult.err = "no report" =>
              pass = "crashed" \/ client = "failed" \/ kill["bound"] # "no"
         /\ ~Fuzz /\ pass = "failed" => cutShort \/ toolResult.err = "exit"
         /\ Fuzz /\ ~cutShort /\ toolResult = NoResult => pass = "clean"
         /\ Fuzz /\ pass \in {"failures", "both"} /\ kill["bound"] = "no" /\ ~cutShort
              => toolResult.failures

=============================================================================
