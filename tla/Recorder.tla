------------------------------ MODULE Recorder ------------------------------
(***************************************************************************)
(* tortureu capture: the recording proxy (internal/capture, Recorder) and  *)
(* the command around it.  Each request has a handler goroutine that       *)
(* forwards it, answers the client and then writes one entry; the command  *)
(* stops the server, waits for the handlers for some seconds, reports how  *)
(* many exchanges it captured and exits.                                   *)
(***************************************************************************)
EXTENDS Integers, Sequences, FiniteSets

CONSTANTS
    Requests,
    MaxClock,          \* bound: readings of the monotonic clock
    MaxLost,           \* bound: writes that fail
    RecorderTroubles   \* what may go wrong

ASSUME RecorderAssumption ==
    /\ MaxClock \in Nat /\ MaxLost \in Nat
    /\ RecorderTroubles \subseteq {"upstream", "write", "timeout", "serve", "kill"}

VARIABLES
    clock,      \* the monotonic clock
    handler,    \* where each request's handler is
    start, end, \* the handler's two time.Now()
    call,       \* callNS, relative to the epoch
    return,     \* returnNS
    epoch,      \* Recorder.epoch, NoEpoch until fixed
    seq,        \* Recorder.seq
    count,      \* Recorder.count
    cassette,   \* the pieces of the file, as [req, seq, cut]
    lost,       \* requests whose failed write was reported on ErrOut
    server,     \* the capture command
    reported    \* the number of exchanges it printed

NoEpoch == -1

timeVars     == <<start, end, call, return, epoch>>
cassetteVars == <<seq, count, cassette, lost>>
recorderVars == <<clock, handler, timeVars, cassetteVars, server, reported>>

RecorderTypeOK ==
    /\ clock \in 0..MaxClock
    /\ handler \in [Requests -> {"none", "begun", "forward", "answered", "ended", "write", "over"}]
    /\ start \in [Requests -> 0..MaxClock] /\ end \in [Requests -> 0..MaxClock]
    /\ call \in [Requests -> Int] /\ return \in [Requests -> Int]
    /\ epoch \in {NoEpoch} \cup 0..MaxClock
    /\ seq \in Nat /\ count \in Nat
    /\ cassette \in Seq([req : Requests, seq : Nat, cut : {"part", "json", "line"}])
    /\ lost \in SUBSET Requests
    /\ server \in {"serving", "stopping", "drained", "gaveup", "exited"}
    /\ reported \in Nat

RecorderInit ==
    /\ clock = 0 /\ handler = [r \in Requests |-> "none"]
    /\ start = [r \in Requests |-> 0] /\ end = [r \in Requests |-> 0]
    /\ call = [r \in Requests |-> 0] /\ return = [r \in Requests |-> 0]
    /\ epoch = NoEpoch /\ seq = 0 /\ count = 0 /\ cassette = <<>> /\ lost = {}
    /\ server = "serving" /\ reported = 0

At(r, from, to) ==
    /\ server # "exited"
    /\ handler[r] = from
    /\ handler' = [handler EXCEPT ![r] = to]

(* start := time.Now().  Time passes between any two readings. *)
Begin(r) ==
    /\ At(r, "none", "begun")
    /\ server = "serving" /\ clock < MaxClock
    /\ clock' = clock + 1
    /\ start' = [start EXCEPT ![r] = clock']
    /\ UNCHANGED <<end, call, return, epoch, cassetteVars, server, reported>>

(* Mutant: every handler measures from its own start. *)
Since_OwnEpoch(t) == epoch' = t

(* The first since() fixes the epoch at the instant it is given. *)
Since(t) == epoch' = IF epoch = NoEpoch THEN t ELSE epoch

(* Mutant: since() without its +1. *)
Call_FromZero(r) ==
    /\ At(r, "begun", "forward")
    /\ Since(start[r])
    /\ call' = [call EXCEPT ![r] = start[r] - epoch']
    /\ UNCHANGED <<clock, start, end, return, cassetteVars, server, reported>>

(* callNS := rec.since(start). *)
Call(r) ==
    /\ At(r, "begun", "forward")
    /\ Since(start[r])
    /\ call' = [call EXCEPT ![r] = start[r] - epoch' + 1]
    /\ UNCHANGED <<clock, start, end, return, cassetteVars, server, reported>>

(* Reading the body, or the upstream, fails: 502 and no entry. *)
BadGateway(r) ==
    /\ "upstream" \in RecorderTroubles
    /\ At(r, "forward", "over")
    /\ UNCHANGED <<clock, timeVars, cassetteVars, server, reported>>

(* The upstream's answer is relayed to the client. *)
Forward(r) ==
    /\ At(r, "forward", "answered")
    /\ UNCHANGED <<clock, timeVars, cassetteVars, server, reported>>

(* end := time.Now(). *)
End(r) ==
    /\ At(r, "answered", "ended")
    /\ clock < MaxClock
    /\ clock' = clock + 1
    /\ end' = [end EXCEPT ![r] = clock']
    /\ UNCHANGED <<start, call, return, epoch, cassetteVars, server, reported>>

(* returnNS := rec.since(end), then scrubbing. *)
Return(r) ==
    /\ At(r, "ended", "write")
    /\ Since(end[r])
    /\ return' = [return EXCEPT ![r] = end[r] - epoch' + 1]
    /\ UNCHANGED <<clock, start, end, call, cassetteVars, server, reported>>

(* What os.File.Write leaves of an entry: the line, all but its newline,   *)
(* a beginning, or nothing.                                                *)
Leave(r, n, cut) ==
    cassette' = IF cut = "nothing" THEN cassette
                ELSE Append(cassette, [req |-> r, seq |-> n, cut |-> cut])

(* Mutant: the number is taken back when the write fails. *)
WriteEntry_ReusesSeq(r) ==
    /\ At(r, "write", "over")
    /\ \/ seq' = seq + 1 /\ Leave(r, seq', "line") /\ count' = count + 1 /\ UNCHANGED lost
       \/ /\ "write" \in RecorderTroubles /\ Cardinality(lost) < MaxLost
          /\ \E cut \in {"nothing", "part", "json"} : Leave(r, seq + 1, cut)
          /\ lost' = lost \cup {r}
          /\ UNCHANGED <<seq, count>>
    /\ UNCHANGED <<clock, timeVars, server, reported>>

(* Under rec.mu: seq++, WriteEntry, count++.  A failed write is reported   *)
(* on ErrOut and has used up its number.                                   *)
WriteEntry(r) ==
    /\ At(r, "write", "over")
    /\ seq' = seq + 1
    /\ \/ Leave(r, seq', "line") /\ count' = count + 1 /\ UNCHANGED lost
       \/ /\ "write" \in RecorderTroubles /\ Cardinality(lost) < MaxLost
          /\ \E cut \in {"nothing", "part", "json"} : Leave(r, seq', cut)
          /\ lost' = lost \cup {r}
          /\ UNCHANGED count
    /\ UNCHANGED <<clock, timeVars, server, reported>>

-----------------------------------------------------------------------------
(* The capture command. *)

(* A signal or -duration: Shutdown takes no new request. *)
Stop ==
    /\ server = "serving"
    /\ server' = "stopping"
    /\ UNCHANGED <<clock, handler, timeVars, cassetteVars, reported>>

Idle == \A r \in Requests : handler[r] \in {"none", "over"}

(* Mutant: srv.Close instead of srv.Shutdown. *)
Drained_Close ==
    /\ server = "stopping"
    /\ server' = "drained" /\ reported' = count
    /\ UNCHANGED <<clock, handler, timeVars, cassetteVars>>

(* Shutdown returns when every handler has; the count is printed. *)
Drained ==
    /\ server = "stopping" /\ Idle
    /\ server' = "drained" /\ reported' = count
    /\ UNCHANGED <<clock, handler, timeVars, cassetteVars>>

(* Its five seconds are over, which is not reported; Count() is read while *)
(* handlers are still at work.                                             *)
ShutdownTimeout ==
    /\ "timeout" \in RecorderTroubles
    /\ server = "stopping" /\ ~Idle
    /\ server' = "gaveup" /\ reported' = count
    /\ UNCHANGED <<clock, handler, timeVars, cassetteVars>>

(* The process ends: its memory is gone, and only the file remains, of     *)
(* which a write in progress may have left a beginning.                    *)
Gone ==
    /\ server' = "exited"
    /\ \/ UNCHANGED cassette
       \/ \E r \in Requests : handler[r] = "write" /\ Leave(r, seq + 1, "part")
    /\ clock' = 0 /\ handler' = [r \in Requests |-> "none"]
    /\ start' = [r \in Requests |-> 0] /\ end' = start' /\ call' = start' /\ return' = start'
    /\ epoch' = NoEpoch /\ seq' = 0 /\ count' = 0 /\ lost' = {} /\ reported' = 0

ExitCapture == server \in {"drained", "gaveup"} /\ Gone

(* srv.Serve fails: exit status 1 at once, nothing is waited for. *)
ServeFails == "serve" \in RecorderTroubles /\ server = "serving" /\ Gone

KillCapture == "kill" \in RecorderTroubles /\ server # "exited" /\ Gone

HandlerStep(r) ==
    \/ Begin(r) \/ Call(r) \/ BadGateway(r) \/ Forward(r) \/ End(r) \/ Return(r) \/ WriteEntry(r)

RecorderNext ==
    \/ \E r \in Requests : HandlerStep(r)
    \/ Stop \/ Drained \/ ShutdownTimeout \/ ExitCapture \/ ServeFails \/ KillCapture

RecorderSpec == RecorderInit /\ [][RecorderNext]_recorderVars

-----------------------------------------------------------------------------

Entry == {cassette[i].req : i \in {j \in DOMAIN cassette : cassette[j].cut = "line"}}

(* R-CLI-13: of any two exchanges of a cassette, its instants say that one  *)
(* was over before the other began exactly if it was; the porcupine check   *)
(* built on them depends on nothing else.                                   *)
OverlapIsReal ==
    \A a, b \in Entry : return[a] < call[b] <=> end[a] < start[b]

(* The command's last line: unless Shutdown ran out of time, the number it  *)
(* prints is the cassette's length, and no client was given an answer whose *)
(* entry is still to be written.                                            *)
ReportIsTrue ==
    server = "drained" =>
        /\ reported = Cardinality(Entry)
        /\ \A r \in Requests : handler[r] \notin {"answered", "ended", "write"}

=============================================================================
