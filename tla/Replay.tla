------------------------------- MODULE Replay -------------------------------
(***************************************************************************)
(* tortureu replay: the cassette that a capture has left, however that     *)
(* ended, is read and sent to -target, every entry some number of times.   *)
(***************************************************************************)
EXTENDS Recorder, SequencesExt

CONSTANT
    ReplayOptions   \* flags complete or not, multiplier in tenths, class, allowReal

ASSUME ReplayAssumption ==
    /\ ReplayOptions # {}
    /\ \A o \in ReplayOptions : o.multiplier \in Int

VARIABLES
    replayer,     \* "idle", "sending", "over"
    asked,        \* the options of this replay
    sent,         \* the entries sent, by number
    replayExit    \* the exit status

replayVars == <<replayer, asked, sent, replayExit>>

ReplayInit == /\ replayer = "idle" /\ asked = CHOOSE o \in ReplayOptions : TRUE
              /\ sent = <<>> /\ replayExit = 0

(* A piece is a line of its own if a newline, or an end of the file, is on  *)
(* either side; anything glued to a cut piece is no JSON.                   *)
Parses(i) == /\ cassette[i].cut = "line" \/ (cassette[i].cut = "json" /\ i = Len(cassette))
             /\ i = 1 \/ cassette[i - 1].cut = "line"

(* ReadCassette: one line that does not parse refuses the file. *)
Readable == \A i \in DOMAIN cassette : Parses(i)

(* egress.CheckMultiplier for the target's host. *)
MultiplierAllowed(o) == o.multiplier <= 10 \/ o.allowReal \/ o.class # "real"

(* int(multiplier + 0.5), and once at least. *)
repeat == LET n == (asked.multiplier + 5) \div 10 IN IF n < 1 THEN 1 ELSE n

runReplay ==
    /\ server = "exited" /\ replayer = "idle"
    /\ asked' \in ReplayOptions
    /\ IF asked'.flags /\ MultiplierAllowed(asked') /\ Readable /\ cassette # <<>>
       THEN replayer' = "sending" /\ UNCHANGED replayExit
       ELSE replayer' = "over" /\ replayExit' = 2
    /\ UNCHANGED <<sent, recorderVars>>

(* doReplayRequest: one after the other.  Whether the answer counts as a   *)
(* success (below 500) goes into the printed result only.                  *)
doReplayRequest ==
    /\ replayer = "sending" /\ Len(sent) < repeat * Len(cassette)
    /\ sent' = Append(sent, cassette[Len(sent) \div repeat + 1].seq)
    /\ UNCHANGED <<replayer, asked, replayExit, recorderVars>>

ReplayEnds ==
    /\ replayer = "sending" /\ Len(sent) = repeat * Len(cassette)
    /\ replayer' = "over"
    /\ UNCHANGED <<asked, sent, replayExit, recorderVars>>

ReplayOver == replayer = "over" /\ UNCHANGED <<replayVars, recorderVars>>

CaptureNext == \/ RecorderNext /\ UNCHANGED replayVars
               \/ runReplay \/ doReplayRequest \/ ReplayEnds \/ ReplayOver

CaptureSpec == RecorderInit /\ ReplayInit /\ [][CaptureNext]_<<recorderVars, replayVars>>

-----------------------------------------------------------------------------

Times(n) == Cardinality({k \in DOMAIN sent : sent[k] = n})

(* A replay is the recording (R-CLI-10).  While a capture runs, its numbers *)
(* are in the order of the file, and each one not there stands for a loss   *)
(* that was reported.  A replay that exits 0 has sent every entry whose     *)
(* write succeeded, in order and as often as the nearest number to the      *)
(* multiplier says, but no entry of which a part is missing; one that does  *)
(* not has sent nothing.  More than once goes to a real host only on        *)
(* request (R-DC2-4), however the capture ended.                            *)
ReplayIsTheRecording ==
    /\ \A i, j \in DOMAIN cassette : i < j => cassette[i].seq < cassette[j].seq
    /\ server # "exited" => seq = Cardinality(Entry) + Cardinality(lost)
    /\ replayer = "over" /\ replayExit = 0 =>
         /\ \A i \in DOMAIN cassette :
              LET n == Times(cassette[i].seq)
              IN  /\ cassette[i].cut # "part"
                  /\ n >= 1 /\ (n > 1 \/ asked.multiplier >= 10 =>
                                  10 * n - asked.multiplier \in -4..5)
         /\ \A k \in 2..Len(sent) : sent[k - 1] <= sent[k]
    /\ replayer = "over" /\ replayExit # 0 => sent = <<>>
    /\ asked.class = "real" /\ ~asked.allowReal => \A k \in DOMAIN sent : Times(sent[k]) = 1

=============================================================================
