----------------------------- MODULE TrendStore -----------------------------
(***************************************************************************)
(* The trend store (internal/trend): processes append one record each to a *)
(* shared JSONL file under flock, any of them may fail or be killed in the *)
(* middle of its write, and readers take no lock.  A record counts as a    *)
(* value; what matters is which line of the file holds how much of it.     *)
(***************************************************************************)
EXTENDS Naturals, Sequences, FiniteSets

CONSTANTS
    Writers,         \* processes that call trend.Append once
    StoreTroubles    \* "write": a write may stop short, "kill": SIGKILL

ASSUME StoreAssumption == "none" \notin Writers /\ StoreTroubles \subseteq {"write", "kill"}

VARIABLES
    file,   \* the pieces of the file, in order: whose record, and how much of it
    lock,   \* the holder of the flock
    app     \* where each Append is

storeVars == <<file, lock, app>>

(* "part" is a proper prefix of the JSON, "json" all of it without the     *)
(* newline, "line" the whole line.                                         *)
Pieces == [by : Writers, cut : {"part", "json", "line"}]

StoreTypeOK ==
    /\ file \in Seq(Pieces)
    /\ lock \in Writers \cup {"none"}
    /\ app \in [Writers -> {"idle", "open", "locked", "writing", "written",
                            "recorded", "failed", "killed"}]

StoreInit ==
    /\ file = <<>> /\ lock = "none"
    /\ app = [w \in Writers |-> "idle"]

(* MkdirAll, Marshal, OpenFile with O_APPEND. *)
Open(w) ==
    /\ app[w] = "idle"
    /\ app' = [app EXCEPT ![w] = "open"]
    /\ UNCHANGED <<file, lock>>

(* The directory, the encoding, the open or the lock fails: an error. *)
OpenFails(w) ==
    /\ "write" \in StoreTroubles
    /\ app[w] \in {"idle", "open"}
    /\ app' = [app EXCEPT ![w] = "failed"]
    /\ UNCHANGED <<file, lock>>

(* Mutant: a non-blocking lock whose refusal is ignored. *)
Lock_NoWait(w) ==
    /\ app[w] = "open"
    /\ lock' = w
    /\ app' = [app EXCEPT ![w] = "locked"]
    /\ UNCHANGED file

(* lockExclusive: flock(LOCK_EX) blocks. *)
Lock(w) ==
    /\ app[w] = "open" /\ lock = "none"
    /\ lock' = w
    /\ app' = [app EXCEPT ![w] = "locked"]
    /\ UNCHANGED file

(* Mutant: the file is opened with O_TRUNC. *)
WriteBegins_Truncates(w) ==
    /\ app[w] = "locked"
    /\ file' = <<[by |-> w, cut |-> "part"]>>
    /\ app' = [app EXCEPT ![w] = "writing"]
    /\ UNCHANGED lock

(* The bytes of f.Write(line) as they reach the file. *)
WriteBegins(w) ==
    /\ app[w] = "locked"
    /\ file' = Append(file, [by |-> w, cut |-> "part"])
    /\ app' = [app EXCEPT ![w] = "writing"]
    /\ UNCHANGED lock

WriteEnds(w) ==
    /\ app[w] = "writing"
    /\ file' = [file EXCEPT ![Len(file)] = [by |-> w, cut |-> "line"]]
    /\ app' = [app EXCEPT ![w] = "written"]
    /\ UNCHANGED lock

(* What a write that does not get to its end leaves behind. *)
Torn == file' = file \/ file' = [file EXCEPT ![Len(file)].cut = "json"]

(* Mutant: the error is returned without the unlock. *)
WriteFails_KeepsLock(w) ==
    /\ "write" \in StoreTroubles
    /\ \/ app[w] = "locked" /\ UNCHANGED file
       \/ app[w] = "writing" /\ Torn
    /\ app' = [app EXCEPT ![w] = "failed"]
    /\ UNCHANGED lock

(* A full disk: the error is returned, the deferred unlock runs. *)
WriteFails(w) ==
    /\ "write" \in StoreTroubles
    /\ \/ app[w] = "locked" /\ UNCHANGED file
       \/ app[w] = "writing" /\ Torn
    /\ app' = [app EXCEPT ![w] = "failed"]
    /\ lock' = "none"

(* f.Sync, which may fail after all, and the deferred unlock. *)
Sync(w) ==
    /\ app[w] = "written"
    /\ \/ app' = [app EXCEPT ![w] = "recorded"]
       \/ "write" \in StoreTroubles /\ app' = [app EXCEPT ![w] = "failed"]
    /\ lock' = "none"
    /\ UNCHANGED file

(* The kernel releases the lock of a process that is killed. *)
Kill(w) ==
    /\ "kill" \in StoreTroubles
    /\ app[w] \in {"open", "locked", "writing", "written"}
    /\ app' = [app EXCEPT ![w] = "killed"]
    /\ lock' = IF lock = w THEN "none" ELSE lock
    /\ IF app[w] = "writing" THEN Torn ELSE UNCHANGED file

Ended(w) == app[w] \in {"recorded", "failed", "killed"}

StoreOver == (\A w \in Writers : Ended(w)) /\ UNCHANGED storeVars

AppendStep(w) == Open(w) \/ Lock(w) \/ WriteBegins(w) \/ WriteEnds(w) \/ Sync(w)

StoreNext == (\E w \in Writers : AppendStep(w) \/ OpenFails(w) \/ WriteFails(w) \/ Kill(w)) \/ StoreOver

StoreSpec == StoreInit /\ [][StoreNext]_storeVars

-----------------------------------------------------------------------------
(* Load: a line is what stands between two newlines; one that is not a     *)
(* single record's JSON is skipped and reported.                           *)

StartsLine(i) == i = 1 \/ file[i - 1].cut = "line"
EndsLine(i)   == i = Len(file) \/ file[i].cut = "line"

Load == {file[i].by : i \in {j \in DOMAIN file :
            StartsLine(j) /\ EndsLine(j) /\ file[j].cut # "part"}}

Recorded == {w \in Writers : app[w] = "recorded"}
TornBy   == {w \in Writers : \E i \in DOMAIN file : file[i].by = w /\ file[i].cut # "line"
                               /\ Ended(w)}

(* R-CLI-16: two writers never share a line unless one of them was cut      *)
(* short, and a write cut short costs at most one record that was reported  *)
(* as written: the one glued to it.                                         *)
LossIsBounded == Cardinality(Recorded \ Load) <= Cardinality(TornBy)

(* "Nothing here rewrites a byte it did not just append": a record that was *)
(* reported as written and can be read stays readable, whatever happens to  *)
(* later writers.                                                           *)
RecordedStays == [][\A w \in Recorded \cap Load : w \in Load']_storeVars

(* lockExclusive blocks: no Append waits for a lock that is never released. *)
AppendsEnd == \A w \in Writers : app[w] = "open" ~> Ended(w)

=============================================================================
