---------------------------- MODULE StoresProofs ----------------------------
(***************************************************************************)
(* What the trend store and the recorder leave behind, for every number of *)
(* writers, requests and failures, and what the report says of the records.*)
(***************************************************************************)
EXTENDS TrendStore, TrendReport, Replay, OrderFacts, FiniteSetTheorems, SequenceTheorems, TLAPS

-----------------------------------------------------------------------------
(* The trend store. *)

InLock(w) == app[w] \in {"locked", "writing", "written"}

(* The file has one piece of a writer at most.  The lock's holder is the    *)
(* only one at work, and what it has begun to write is the file's end.      *)
PieceInv ==
    /\ \A i, j \in DOMAIN file : file[i].by = file[j].by => i = j
    /\ \A w \in Writers : InLock(w) => lock = w
    /\ \A i \in DOMAIN file : app[file[i].by] \notin {"idle", "open", "locked"}
    /\ \A w \in Writers : app[w] = "writing" =>
         file # <<>> /\ file[Len(file)] = [by |-> w, cut |-> "part"]
    /\ \A w \in Writers : app[w] \in {"written", "recorded"} =>
         \E i \in DOMAIN file : file[i] = [by |-> w, cut |-> "line"]
    /\ \A i \in DOMAIN file : file[i].cut # "line" =>
         app[file[i].by] \in {"writing", "failed", "killed"}

(* A step of a writer changes nothing of the file but its own piece: it      *)
(* adds it at the end, replaces it there or leaves the file alone.          *)
FileGrows(w) ==
    /\ Len(file') = Len(file) + 1
    /\ \A i \in DOMAIN file : file'[i] = file[i]
    /\ file'[Len(file) + 1] = [by |-> w, cut |-> "part"]

LastChanges(w, cut) ==
    /\ Len(file') = Len(file)
    /\ \A i \in DOMAIN file : i # Len(file) => file'[i] = file[i]
    /\ file'[Len(file)] = [by |-> w, cut |-> cut]

(* The first byte of a record appends one unfinished piece to the file.     *)
LEMMA WriteBeginsDoes ==
    ASSUME StoreTypeOK, NEW w \in Writers, WriteBegins(w)
    PROVE  file' \in Seq(Pieces) /\ FileGrows(w)
<1> DEFINE p == [by |-> w, cut |-> "part"]
<1>1. p \in Pieces /\ file \in Seq(Pieces) /\ file' = Append(file, p)
  BY DEF Pieces, StoreTypeOK, WriteBegins
<1> HIDE DEF p
<1>2. /\ file' \in Seq(Pieces) /\ Len(file') = Len(file) + 1 /\ DOMAIN file = 1..Len(file)
      /\ \A i \in 1..Len(file) : file'[i] = file[i]
      /\ file'[Len(file) + 1] = p
  BY <1>1, AppendProperties, LenProperties
<1> QED
  BY <1>2 DEF FileGrows, p

(* The newline finishes the last piece and no other.                        *)
LEMMA WriteEndsDoes ==
    ASSUME StoreTypeOK, PieceInv, NEW w \in Writers, WriteEnds(w)
    PROVE  file' \in Seq(Pieces) /\ LastChanges(w, "line")
<1>1. /\ file \in Seq(Pieces) /\ file # <<>> /\ app[w] = "writing"
      /\ file' = [file EXCEPT ![Len(file)] = [by |-> w, cut |-> "line"]]
  BY DEF StoreTypeOK, PieceInv, WriteEnds
<1>2. Len(file) \in 1..Len(file) /\ DOMAIN file = 1..Len(file)
  BY <1>1, EmptySeq, LenProperties
<1>3. [by |-> w, cut |-> "line"] \in Pieces
  BY DEF Pieces
<1> QED
  BY <1>1, <1>2, <1>3, ExceptSeq DEF LastChanges

(* A process that dies while writing changes at most its own piece, the     *)
(* last.                                                                    *)
LEMMA TornDoes ==
    ASSUME StoreTypeOK, PieceInv, NEW w \in Writers, app[w] = "writing", Torn
    PROVE  file' \in Seq(Pieces) /\ (file' = file \/ LastChanges(w, "json"))
<1>1. /\ file \in Seq(Pieces) /\ file # <<>> /\ file[Len(file)] = [by |-> w, cut |-> "part"]
  BY DEF StoreTypeOK, PieceInv
<1>2. Len(file) \in 1..Len(file) /\ DOMAIN file = 1..Len(file)
  BY <1>1, EmptySeq, LenProperties
<1>3. [by |-> w, cut |-> "json"] \in Pieces
  BY DEF Pieces
<1>4. CASE file' = [file EXCEPT ![Len(file)].cut = "json"]
  <2>1. file' = [file EXCEPT ![Len(file)] = [by |-> w, cut |-> "json"]]
    <3>1. file' = [file EXCEPT ![Len(file)] = [file[Len(file)] EXCEPT !.cut = "json"]]
      BY <1>4
    <3>2. [file[Len(file)] EXCEPT !.cut = "json"] = [by |-> w, cut |-> "json"]
      BY <1>1
    <3> QED
      BY <3>1, <3>2
  <2> QED
    BY <1>1, <1>2, <1>3, <2>1, ExceptSeq DEF LastChanges
<1> QED
  BY <1>1, <1>4 DEF Torn

(* The shapes of the store's state are kept.                                *)
LEMMA StoreTypeStep == StoreTypeOK /\ PieceInv /\ [StoreNext]_storeVars => StoreTypeOK'
<1> SUFFICES ASSUME StoreTypeOK, PieceInv, [StoreNext]_storeVars PROVE StoreTypeOK'
  OBVIOUS
<1>0. /\ file \in Seq(Pieces) /\ lock \in Writers \cup {"none"}
      /\ app \in [Writers -> {"idle", "open", "locked", "writing", "written",
                             "recorded", "failed", "killed"}]
  BY DEF StoreTypeOK
<1>1. ASSUME NEW w \in Writers, Open(w) PROVE StoreTypeOK'
  BY <1>1, <1>0 DEF Open, StoreTypeOK
<1>2. ASSUME NEW w \in Writers, OpenFails(w) PROVE StoreTypeOK'
  BY <1>2, <1>0 DEF OpenFails, StoreTypeOK
<1>3. ASSUME NEW w \in Writers, Lock(w) PROVE StoreTypeOK'
  BY <1>3, <1>0 DEF Lock, StoreTypeOK
<1>4. ASSUME NEW w \in Writers, WriteBegins(w) PROVE StoreTypeOK'
  <2>1. file' \in Seq(Pieces)
    BY <1>4, <1>0, WriteBeginsDoes
  <2> QED
    BY <1>4, <1>0, <2>1 DEF WriteBegins, StoreTypeOK
<1>5. ASSUME NEW w \in Writers, WriteEnds(w) PROVE StoreTypeOK'
  <2>1. file' \in Seq(Pieces)
    BY <1>5, <1>0, WriteEndsDoes
  <2> QED
    BY <1>5, <1>0, <2>1 DEF WriteEnds, StoreTypeOK
<1>6. ASSUME NEW w \in Writers, WriteFails(w) PROVE StoreTypeOK'
  <2>1. file' \in Seq(Pieces)
    BY <1>6, <1>0, TornDoes DEF WriteFails
  <2> QED
    BY <1>6, <1>0, <2>1 DEF WriteFails, StoreTypeOK
<1>7. ASSUME NEW w \in Writers, Sync(w) PROVE StoreTypeOK'
  BY <1>7, <1>0 DEF Sync, StoreTypeOK
<1>8. ASSUME NEW w \in Writers, Kill(w) PROVE StoreTypeOK'
  <2>1. file' \in Seq(Pieces)
    BY <1>8, <1>0, TornDoes DEF Kill
  <2> QED
    BY <1>8, <1>0, <2>1 DEF Kill, StoreTypeOK
<1>9. CASE UNCHANGED storeVars
  BY <1>9, <1>0 DEF storeVars, StoreTypeOK
<1> QED
  BY <1>1, <1>2, <1>3, <1>4, <1>5, <1>6, <1>7, <1>8, <1>9 DEF StoreNext, AppendStep, StoreOver

(* The holder's last step on its piece: the whole line, or what a write cut *)
(* short leaves, which is then no writer's any more.                        *)
LEMMA LastPieceStep ==
    ASSUME StoreTypeOK, PieceInv, NEW w \in Writers, app[w] = "writing",
           file' \in Seq(Pieces), NEW cut \in {"line", "json"},
           (file' = file /\ cut = "json") \/ LastChanges(w, cut),
           app'[w] \in IF cut = "line" THEN {"written"} ELSE {"failed", "killed"},
           \A v \in Writers : v # w => app'[v] = app[v],
           lock' = IF cut = "line" THEN lock ELSE "none"
    PROVE  PieceInv'
<1>1. /\ file \in Seq(Pieces) /\ Len(file) \in Nat \ {0} /\ DOMAIN file = 1..Len(file)
      /\ file[Len(file)] = [by |-> w, cut |-> "part"]
  BY EmptySeq, LenProperties DEF StoreTypeOK, PieceInv
<1>2. \A i \in DOMAIN file : file[i].by \in Writers
  <2>1. \A i \in DOMAIN file : file[i] \in Pieces
    BY <1>1, ElementOfSeq
  <2> QED
    BY <2>1 DEF Pieces
<1>3. /\ DOMAIN file' = DOMAIN file /\ Len(file') = Len(file)
      /\ \A i \in DOMAIN file : file'[i].by = file[i].by /\ (i # Len(file) => file'[i] = file[i])
  BY <1>1, LenProperties DEF LastChanges
<1>4. \A v \in Writers : v # w => ~InLock(v)
  BY DEF PieceInv, InLock
<1>5. \A i \in DOMAIN file : file[i].by = w => i = Len(file)
  BY <1>1 DEF PieceInv
<1>6. \A i, j \in DOMAIN file' : file'[i].by = file'[j].by => i = j
  BY <1>3 DEF PieceInv
<1>7. \A v \in Writers : InLock(v)' => lock' = v
  BY <1>4 DEF PieceInv, InLock
<1>8. \A i \in DOMAIN file' : app'[file'[i].by] \notin {"idle", "open", "locked"}
  BY <1>2, <1>3 DEF PieceInv
<1>9. \A v \in Writers : app'[v] # "writing"
  BY <1>4 DEF InLock
<1>10. ASSUME NEW v \in Writers, app'[v] \in {"written", "recorded"}
       PROVE  \E i \in DOMAIN file' : file'[i] = [by |-> v, cut |-> "line"]
  <2>1. CASE v = w
    BY <1>1, <1>3, <1>10, <2>1 DEF LastChanges
  <2>2. CASE v # w
    <3>1. PICK i \in DOMAIN file : file[i] = [by |-> v, cut |-> "line"]
      BY <1>10, <2>2 DEF PieceInv
    <3> QED
      BY <1>1, <1>3, <2>2, <3>1
  <2> QED
    BY <2>1, <2>2
<1>11. ASSUME NEW i \in DOMAIN file, file'[i].cut # "line"
       PROVE  app'[file'[i].by] \in {"writing", "failed", "killed"}
  <2>1. CASE i = Len(file)
    BY <1>1, <1>3, <1>11, <2>1 DEF LastChanges
  <2>2. CASE i # Len(file)
    BY <1>2, <1>3, <1>5, <1>11, <2>2 DEF PieceInv
  <2> QED
    BY <2>1, <2>2
<1> QED
  BY <1>3, <1>6, <1>7, <1>8, <1>9, <1>10, <1>11 DEF PieceInv

(* A writer that gives up between two writes leaves the file, and the lock  *)
(* that it may have held.                                                   *)
LEMMA EndsAside ==
    ASSUME StoreTypeOK, PieceInv, NEW w \in Writers, app[w] # "writing", file' = file,
           app'[w] \in {"failed", "killed"}, \A v \in Writers : v # w => app'[v] = app[v],
           \/ lock' = lock /\ lock # w
           \/ lock' = "none" /\ (lock = w \/ InLock(w))
    PROVE  PieceInv'
<1>1. \A i \in DOMAIN file : file[i].by \in Writers
  <2>1. file \in Seq(Pieces)
    BY DEF StoreTypeOK
  <2>2. \A i \in DOMAIN file : file[i] \in Pieces
    BY <2>1, ElementOfSeq, LenProperties
  <2> QED
    BY <2>2 DEF Pieces
<1>2. \A i, j \in DOMAIN file' : file'[i].by = file'[j].by => i = j
  BY DEF PieceInv
<1>3. ASSUME NEW v \in Writers, InLock(v)' PROVE lock' = v
  <2>1. v # w /\ InLock(v)
    BY <1>3 DEF InLock
  <2>2. lock = v
    BY <2>1 DEF PieceInv
  <2>3. InLock(w) => lock = w
    BY DEF PieceInv
  <2> QED
    BY <2>1, <2>2, <2>3
<1>4. ASSUME NEW i \in DOMAIN file'
      PROVE  app'[file'[i].by] \notin {"idle", "open", "locked"}
  <2>1. app[file[i].by] \notin {"idle", "open", "locked"} /\ file[i].by \in Writers
    BY <1>1 DEF PieceInv
  <2> QED
    BY <2>1
<1>5. ASSUME NEW v \in Writers, app'[v] = "writing"
      PROVE  file' # <<>> /\ file'[Len(file')] = [by |-> v, cut |-> "part"]
  <2>1. app[v] = "writing"
    BY <1>5
  <2> QED
    BY <2>1 DEF PieceInv
<1>6. ASSUME NEW v \in Writers, app'[v] \in {"written", "recorded"}
      PROVE  \E i \in DOMAIN file' : file'[i] = [by |-> v, cut |-> "line"]
  <2>1. app[v] \in {"written", "recorded"}
    BY <1>6
  <2> QED
    BY <2>1 DEF PieceInv
<1>7. ASSUME NEW i \in DOMAIN file', file'[i].cut # "line"
      PROVE  app'[file'[i].by] \in {"writing", "failed", "killed"}
  <2>1. app[file[i].by] \in {"writing", "failed", "killed"} /\ file[i].by \in Writers
    BY <1>1, <1>7 DEF PieceInv
  <2> QED
    BY <2>1
<1> QED
  BY <1>2, <1>3, <1>4, <1>5, <1>6, <1>7 DEF PieceInv

(* Nobody else writes while the lock is held, so a piece ends up alone.     *)
LEMMA PieceStep == StoreTypeOK /\ PieceInv /\ [StoreNext]_storeVars => PieceInv'
<1> SUFFICES ASSUME StoreTypeOK, PieceInv, [StoreNext]_storeVars PROVE PieceInv'
  OBVIOUS
<1>0. /\ lock \in Writers \cup {"none"} /\ "none" \notin Writers
      /\ app \in [Writers -> {"idle", "open", "locked", "writing", "written",
                             "recorded", "failed", "killed"}]
      /\ file \in Seq(Pieces) /\ Len(file) \in Nat /\ DOMAIN file = 1..Len(file)
      /\ \A i \in DOMAIN file : file[i].by \in Writers
  <2>1. file \in Seq(Pieces)
    BY DEF StoreTypeOK
  <2>2. \A i \in DOMAIN file : file[i] \in Pieces
    BY <2>1, ElementOfSeq, LenProperties
  <2> QED
    BY <2>1, <2>2, LenProperties, StoreAssumption DEF StoreTypeOK, Pieces
<1>1. ASSUME NEW w \in Writers, Open(w) PROVE PieceInv'
  BY <1>1, <1>0 DEF Open, PieceInv, InLock
<1>2. ASSUME NEW w \in Writers, OpenFails(w) PROVE PieceInv'
  BY <1>2, <1>0 DEF OpenFails, PieceInv, InLock
<1>3. ASSUME NEW w \in Writers, Lock(w) PROVE PieceInv'
  BY <1>3, <1>0 DEF Lock, PieceInv, InLock
<1>4. ASSUME NEW w \in Writers, WriteBegins(w) PROVE PieceInv'
  <2>1. FileGrows(w) /\ DOMAIN file' = 1..(Len(file) + 1)
    BY <1>4, <1>0, WriteBeginsDoes, LenProperties DEF FileGrows
  <2>2. /\ app[w] = "locked" /\ app'[w] = "writing" /\ lock' = lock /\ lock = w
        /\ \A v \in Writers : v # w => app'[v] = app[v] /\ ~InLock(v)
    BY <1>4, <1>0 DEF WriteBegins, PieceInv, InLock
  <2>3. \A i \in DOMAIN file : file[i].by # w
    BY <2>2 DEF PieceInv
  <2>4. file'[Len(file')] = [by |-> w, cut |-> "part"] /\ file' # <<>>
    BY <1>0, <2>1 DEF FileGrows
  <2> QED
    BY <1>0, <2>1, <2>2, <2>3, <2>4 DEF PieceInv, InLock, FileGrows
<1>5. ASSUME NEW w \in Writers, WriteEnds(w) PROVE PieceInv'
  <2>1. /\ app[w] = "writing" /\ app'[w] = "written" /\ lock' = lock
        /\ \A v \in Writers : v # w => app'[v] = app[v]
    BY <1>0, <1>5 DEF WriteEnds
  <2>2. file' \in Seq(Pieces) /\ LastChanges(w, "line")
    BY <1>5, WriteEndsDoes
  <2> QED
    BY <2>1, <2>2, LastPieceStep
<1>6. ASSUME NEW w \in Writers, WriteFails(w) PROVE PieceInv'
  <2>1. /\ app'[w] = "failed" /\ \A v \in Writers : v # w => app'[v] = app[v]
    BY <1>0, <1>6 DEF WriteFails
  <2>2. CASE app[w] = "writing"
    <3>1. Torn /\ lock' = "none"
      BY <1>6, <2>2 DEF WriteFails, PieceInv, InLock
    <3>2. file' \in Seq(Pieces) /\ (file' = file \/ LastChanges(w, "json"))
      BY <2>2, <3>1, TornDoes
    <3> QED
      BY <2>1, <2>2, <3>1, <3>2, LastPieceStep
  <2>3. CASE app[w] # "writing"
    <3>1. file' = file /\ ((lock' = lock /\ lock # w) \/ (lock' = "none" /\ (lock = w \/ InLock(w))))
      BY <1>0, <1>6, <2>3 DEF WriteFails, InLock
    <3> QED
      BY <2>1, <2>3, <3>1, EndsAside
  <2> QED
    BY <2>2, <2>3
<1>7. ASSUME NEW w \in Writers, Sync(w) PROVE PieceInv'
  BY <1>7, <1>0 DEF Sync, PieceInv, InLock
<1>8. ASSUME NEW w \in Writers, Kill(w) PROVE PieceInv'
  <2>1. /\ app'[w] = "killed" /\ \A v \in Writers : v # w => app'[v] = app[v]
    BY <1>0, <1>8 DEF Kill
  <2>2. CASE app[w] = "writing"
    <3>1. Torn /\ lock' = "none"
      BY <1>8, <2>2 DEF Kill, PieceInv, InLock
    <3>2. file' \in Seq(Pieces) /\ (file' = file \/ LastChanges(w, "json"))
      BY <2>2, <3>1, TornDoes
    <3> QED
      BY <2>1, <2>2, <3>1, <3>2, LastPieceStep
  <2>3. CASE app[w] # "writing"
    <3>1. file' = file /\ ((lock' = lock /\ lock # w) \/ (lock' = "none" /\ (lock = w \/ InLock(w))))
      <4>1. file' = file
        BY <1>8, <2>3 DEF Kill
      <4>2. lock = w => lock' = "none"
        BY <1>8 DEF Kill
      <4>3. lock # w => lock' = lock
        BY <1>8 DEF Kill
      <4> QED
        BY <4>1, <4>2, <4>3 DEF InLock
    <3> QED
      BY <2>1, <2>3, <3>1, EndsAside
  <2> QED
    BY <2>2, <2>3
<1>9. CASE UNCHANGED storeVars
  BY <1>9, <1>0 DEF storeVars, PieceInv, InLock
<1> QED
  BY <1>1, <1>2, <1>3, <1>4, <1>5, <1>6, <1>7, <1>8, <1>9 DEF StoreNext, AppendStep, StoreOver

(* Only the holder of the lock has an unfinished piece, and it is the last  *)
(* one, in every state of the writers.                                      *)
THEOREM StoreInvariance == StoreSpec => [](StoreTypeOK /\ PieceInv)
<1>1. StoreInit => StoreTypeOK /\ PieceInv
  <2> SUFFICES ASSUME StoreInit PROVE StoreTypeOK /\ PieceInv
    OBVIOUS
  <2>1. file \in Seq(Pieces) /\ DOMAIN file = {}
    BY EmptySeq DEF StoreInit
  <2>2. StoreTypeOK
    BY <2>1 DEF StoreInit, StoreTypeOK
  <2> QED
    BY <2>1, <2>2 DEF StoreInit, PieceInv, InLock
<1>2. StoreTypeOK /\ PieceInv /\ [StoreNext]_storeVars => (StoreTypeOK /\ PieceInv)'
  BY StoreTypeStep, PieceStep
<1> QED
  BY <1>1, <1>2, PTL DEF StoreSpec

(* A whole line is never changed again, whoever writes, fails or is killed. *)
LEMMA LinesStay ==
    ASSUME StoreTypeOK, PieceInv, [StoreNext]_storeVars
    PROVE  /\ DOMAIN file = 1..Len(file) /\ Len(file) \in Nat
           /\ file' \in Seq(Pieces) /\ Len(file) <= Len(file')
           /\ \A i \in DOMAIN file : file[i].cut = "line" => file'[i] = file[i]
<1>1. file \in Seq(Pieces) /\ DOMAIN file = 1..Len(file) /\ Len(file) \in Nat
  BY LenProperties DEF StoreTypeOK
<1>2. \A w \in Writers : app[w] = "writing" => file[Len(file)].cut # "line"
  <2> TAKE w \in Writers
  <2> HAVE app[w] = "writing"
  <2>1. file[Len(file)] = [by |-> w, cut |-> "part"]
    BY DEF PieceInv
  <2> QED
    BY <2>1
<1>3. ASSUME NEW w \in Writers, NEW cut, app[w] = "writing",
             file' \in Seq(Pieces), file' = file \/ LastChanges(w, cut)
      PROVE  /\ file' \in Seq(Pieces) /\ Len(file) <= Len(file')
             /\ \A i \in DOMAIN file : file[i].cut = "line" => file'[i] = file[i]
  BY <1>1, <1>2, <1>3 DEF LastChanges
<1>4. ASSUME NEW w \in Writers, WriteBegins(w)
      PROVE  /\ file' \in Seq(Pieces) /\ Len(file) <= Len(file')
             /\ \A i \in DOMAIN file : file[i].cut = "line" => file'[i] = file[i]
  <2>1. file' \in Seq(Pieces) /\ FileGrows(w)
    BY <1>4, WriteBeginsDoes
  <2> QED
    BY <1>1, <2>1 DEF FileGrows
<1>5. ASSUME NEW w \in Writers, WriteEnds(w)
      PROVE  app[w] = "writing" /\ file' \in Seq(Pieces) /\ LastChanges(w, "line")
  BY <1>5, WriteEndsDoes DEF WriteEnds
<1>6. ASSUME NEW w \in Writers, app[w] = "writing", Torn
      PROVE  file' \in Seq(Pieces) /\ (file' = file \/ LastChanges(w, "json"))
  BY <1>6, TornDoes
<1>7. ASSUME NEW w \in Writers,
             Open(w) \/ OpenFails(w) \/ Lock(w) \/ Sync(w) \/ WriteFails(w) \/ Kill(w)
      PROVE  file' = file \/ (app[w] = "writing" /\ Torn)
  <2>1. Open(w) \/ OpenFails(w) \/ Lock(w) \/ Sync(w) => file' = file
    BY DEF Open, OpenFails, Lock, Sync
  <2>2. WriteFails(w) => file' = file \/ (app[w] = "writing" /\ Torn)
    BY DEF WriteFails, Torn
  <2>3. Kill(w) => file' = file \/ (app[w] = "writing" /\ Torn)
    <3>1. CASE app[w] = "writing"
      BY <3>1 DEF Kill, Torn
    <3>2. CASE app[w] # "writing"
      BY <3>2 DEF Kill
    <3> QED
      BY <3>1, <3>2
  <2> QED
    BY <1>7, <2>1, <2>2, <2>3 DEF Torn
<1>8. UNCHANGED storeVars => file' = file
  BY DEF storeVars
<1> QED
  BY <1>1, <1>3, <1>4, <1>5, <1>6, <1>7, <1>8 DEF StoreNext, AppendStep, StoreOver

(* A record that was reported as written and can be read stays readable.    *)
THEOREM NoRecordIsUnwritten == StoreSpec => RecordedStays
<1> DEFINE Stays == \A w \in Recorded \cap Load : w \in Load'
<1>1. StoreTypeOK /\ PieceInv /\ [StoreNext]_storeVars => [Stays]_storeVars
  <2> SUFFICES ASSUME StoreTypeOK, PieceInv, [StoreNext]_storeVars, NEW w \in Recorded \cap Load
               PROVE  w \in Load'
    OBVIOUS
  <2>1. PICK i \in DOMAIN file : file[i].by = w /\ StartsLine(i)
    BY DEF Load
  <2>2. file[i].cut = "line"
    BY <2>1 DEF Recorded, PieceInv
  <2>3. /\ i \in 1..Len(file) /\ DOMAIN file = 1..Len(file) /\ Len(file) \in Nat
        /\ DOMAIN file' = 1..Len(file') /\ Len(file') \in Nat /\ Len(file) <= Len(file')
        /\ \A j \in DOMAIN file : file[j].cut = "line" => file'[j] = file[j]
    BY <2>1, LinesStay, LenProperties
  <2>4. i \in DOMAIN file' /\ file'[i] = file[i]
    BY <2>2, <2>3
  <2>5. i = 1 \/ file'[i - 1].cut = "line"
    BY <2>1, <2>3 DEF StartsLine
  <2> QED
    BY <2>1, <2>2, <2>4, <2>5 DEF Load, StartsLine, EndsLine
<1> QED
  BY <1>1, StoreInvariance, PTL DEF StoreSpec, RecordedStays

(* Only writers whose write was cut short cost records, one each at most.   *)
THEOREM TornWritesCostOneEach == StoreSpec => []LossIsBounded
<1>1. StoreTypeOK /\ PieceInv => LossIsBounded
  <2> SUFFICES ASSUME StoreTypeOK, PieceInv PROVE Cardinality(Recorded \ Load) <= Cardinality(TornBy)
    BY DEF LossIsBounded
  <2>1. /\ file \in Seq(Pieces) /\ Len(file) \in Nat /\ DOMAIN file = 1..Len(file)
        /\ \A i \in DOMAIN file : file[i].by \in Writers
    <3>1. file \in Seq(Pieces)
      BY DEF StoreTypeOK
    <3>2. \A i \in DOMAIN file : file[i] \in Pieces
      BY <3>1, ElementOfSeq, LenProperties
    <3> QED
      BY <3>1, <3>2, LenProperties DEF Pieces
  <2>2. ASSUME NEW w \in Recorded \ Load
        PROVE  \E i \in 2..Len(file) : file[i].by = w /\ file[i - 1].by \in TornBy
    <3>1. PICK i \in DOMAIN file : file[i] = [by |-> w, cut |-> "line"]
      BY DEF Recorded, PieceInv
    <3>2. ~StartsLine(i)
      BY <3>1 DEF Load, EndsLine
    <3>3. i \in 2..Len(file) /\ i - 1 \in DOMAIN file /\ file[i - 1].cut # "line"
      BY <2>1, <3>1, <3>2 DEF StartsLine
    <3>4. app[file[i - 1].by] # "writing"
      <4> SUFFICES ASSUME app[file[i - 1].by] = "writing" PROVE FALSE
        OBVIOUS
      <4>1. file[Len(file)].by = file[i - 1].by /\ Len(file) \in DOMAIN file
        <5> DEFINE holder == file[i - 1].by
        <5>1. holder \in Writers /\ app[holder] = "writing"
          BY <2>1, <3>3
        <5> HIDE DEF holder
        <5>2. file[Len(file)] = [by |-> holder, cut |-> "part"]
          BY <5>1 DEF PieceInv
        <5>3. Len(file) \in DOMAIN file
          BY <2>1, <3>3
        <5> QED
          BY <5>2, <5>3 DEF holder
      <4>2. Len(file) = i - 1
        BY <3>3, <4>1 DEF PieceInv
      <4> QED
        BY <2>1, <3>3, <4>2
    <3>5. Ended(file[i - 1].by)
      BY <3>3, <3>4 DEF PieceInv, Ended
    <3> QED
      BY <2>1, <3>1, <3>3, <3>5 DEF TornBy
  <2> DEFINE unread == Recorded \ Load
             place == [w \in unread |-> CHOOSE i \in 2..Len(file) :
                                         file[i].by = w /\ file[i - 1].by \in TornBy]
             glued == [w \in unread |-> file[place[w] - 1].by]
             authors == {file[i].by : i \in DOMAIN file}
             author == [i \in DOMAIN file |-> file[i].by]
  <2>3. \A w \in unread : /\ place[w] \in 2..Len(file) /\ file[place[w]].by = w
                        /\ file[place[w] - 1].by \in TornBy
    BY <2>2
  <2>4. ASSUME NEW v \in unread, NEW w \in unread, glued[v] = glued[w] PROVE v = w
    <3> HIDE DEF place, unread
    <3>1. file[place[v] - 1].by = file[place[w] - 1].by
      BY <2>4
    <3>2. place[v] - 1 \in DOMAIN file /\ place[w] - 1 \in DOMAIN file
      BY <2>1, <2>3
    <3>3. place[v] - 1 = place[w] - 1
      BY <3>1, <3>2 DEF PieceInv
    <3>4. place[v] = place[w]
      BY <2>3, <3>3
    <3> QED
      BY <2>3, <3>4
  <2>5. glued \in Injection(unread, TornBy)
    <3>1. glued \in [unread -> TornBy]
      <4> HIDE DEF place, unread
      <4> QED
        BY <2>3
    <3> HIDE DEF glued
    <3> QED
      BY <2>4, <3>1 DEF Injection, IsInjective
  <2>6. author \in Surjection(DOMAIN file, authors)
    BY DEF Surjection
  <2>7. IsFiniteSet(DOMAIN file)
    BY <2>1, FS_Interval
  <2>8. IsFiniteSet(authors)
    <3> HIDE DEF author, authors
    <3> QED
      BY <2>6, <2>7, FS_Surjection
  <2>9. TornBy \subseteq authors
    BY DEF TornBy
  <2> HIDE DEF unread, glued, authors, author, place
  <2>10. IsFiniteSet(TornBy)
    BY <2>8, <2>9, FS_Subset
  <2>11. Cardinality(unread) <= Cardinality(TornBy)
    BY <2>5, <2>10, FS_Injection
  <2> QED
    BY <2>11 DEF unread
<1> QED
  BY <1>1, StoreInvariance, PTL

-----------------------------------------------------------------------------
(* The recorder. *)

Called == {"forward", "answered", "ended", "write", "over"}

(* Once a handler has asked for it, the epoch stands, and every instant of  *)
(* that handler is measured from it.                                        *)
TimeInv ==
    /\ \A r \in Requests : handler[r] \in Called =>
         epoch # NoEpoch /\ call[r] = start[r] - epoch + 1
    /\ \A r \in Requests : handler[r] = "write" => return[r] = end[r] - epoch + 1

(* What is in the cassette or was reported as lost is over; an entry's      *)
(* instants are still those its handler took.                               *)
EntryInv ==
    server # "exited" =>
        /\ \A i \in DOMAIN cassette : handler[cassette[i].req] = "over"
        /\ \A r \in lost : handler[r] = "over"
        /\ \A r \in Entry : return[r] = end[r] - epoch + 1

(* An ended process leaves no memory.                                       *)
GoneInv ==
    server = "exited" =>
        \A r \in Requests : /\ handler[r] = "none"
                            /\ start[r] = 0 /\ end[r] = 0 /\ call[r] = 0 /\ return[r] = 0

(* The counters tell what was written and what was lost.                    *)
CountInv ==
    /\ IsFiniteSet(Entry) /\ IsFiniteSet(lost)
    /\ server # "exited" =>
        /\ count = Cardinality(Entry)
        /\ seq = Cardinality(Entry) + Cardinality(lost)
        /\ Entry \cap lost = {}
    /\ server = "drained" => Idle /\ reported = count

(* The numbers of the cassette rise, and none is ahead of the counter.      *)
SeqInv ==
    /\ \A i, j \in DOMAIN cassette : i < j => cassette[i].seq < cassette[j].seq
    /\ server # "exited" => \A i \in DOMAIN cassette : cassette[i].seq <= seq

RecorderInv == RecorderTypeOK /\ TimeInv /\ EntryInv /\ GoneInv /\ CountInv /\ SeqInv

CassettePieces == [req : Requests, seq : Nat, cut : {"part", "json", "line"}]

(* The cassette is a sequence of pieces, each of a request.                 *)
LEMMA CassetteIs ==
    ASSUME RecorderTypeOK
    PROVE  /\ cassette \in Seq(CassettePieces)
           /\ Len(cassette) \in Nat /\ DOMAIN cassette = 1..Len(cassette)
           /\ \A i \in DOMAIN cassette : /\ cassette[i].req \in Requests
                                         /\ cassette[i].seq \in Nat
           /\ Entry \subseteq Requests
<1>1. cassette \in Seq(CassettePieces)
  BY DEF RecorderTypeOK, CassettePieces
<1>2. Len(cassette) \in Nat /\ DOMAIN cassette = 1..Len(cassette)
  BY <1>1, LenProperties
<1>3. \A i \in DOMAIN cassette : cassette[i] \in CassettePieces
  BY <1>1, ElementOfSeq, <1>2
<1> QED
  BY <1>1, <1>2, <1>3 DEF CassettePieces, Entry

(* What a write leaves is the file's last piece, and one more entry if it   *)
(* is a whole line.                                                         *)
LEMMA LeaveDoes ==
    ASSUME RecorderTypeOK, NEW r \in Requests, NEW n \in Nat,
           NEW cut \in {"part", "json", "line"}, Leave(r, n, cut)
    PROVE  /\ cassette' \in Seq(CassettePieces)
           /\ Len(cassette') = Len(cassette) + 1
           /\ DOMAIN cassette' = 1..(Len(cassette) + 1)
           /\ \A i \in 1..Len(cassette) : cassette'[i] = cassette[i]
           /\ cassette'[Len(cassette) + 1] = [req |-> r, seq |-> n, cut |-> cut]
           /\ Entry' = Entry \cup (IF cut = "line" THEN {r} ELSE {})
<1> DEFINE p == [req |-> r, seq |-> n, cut |-> cut]
<1>1. p \in CassettePieces /\ cassette' = Append(cassette, p)
  BY DEF CassettePieces, Leave
<1>2. p.req = r /\ p.cut = cut
  OBVIOUS
<1> HIDE DEF p
<1>3. cassette \in Seq(CassettePieces) /\ Len(cassette) \in Nat /\ DOMAIN cassette = 1..Len(cassette)
  BY CassetteIs
<1>4. /\ cassette' \in Seq(CassettePieces)
      /\ Len(cassette') = Len(cassette) + 1
      /\ \A i \in 1..Len(cassette) : cassette'[i] = cassette[i]
      /\ cassette'[Len(cassette) + 1] = p
  BY <1>1, <1>3, AppendProperties
<1>5. DOMAIN cassette' = 1..(Len(cassette) + 1)
  BY <1>4, LenProperties
<1>6. Entry' = Entry \cup (IF cut = "line" THEN {r} ELSE {})
  <2>1. Entry' = {cassette'[i].req : i \in {j \in DOMAIN cassette' : cassette'[j].cut = "line"}}
    BY DEF Entry
  <2>2. ASSUME NEW x \in Entry PROVE x \in Entry'
    BY <1>3, <1>4, <1>5, <2>1, <2>2 DEF Entry
  <2>3. ASSUME NEW x \in Entry' PROVE x \in Entry \/ (x = r /\ cut = "line")
    <3>1. PICK i \in DOMAIN cassette' : x = cassette'[i].req /\ cassette'[i].cut = "line"
      BY <2>1, <2>3
    <3>2. CASE i = Len(cassette) + 1
      BY <1>2, <1>4, <3>1, <3>2
    <3>3. CASE i \in 1..Len(cassette)
      BY <1>3, <1>4, <3>1, <3>3 DEF Entry
    <3> QED
      BY <1>3, <1>5, <3>1, <3>2, <3>3
  <2>4. cut = "line" => r \in Entry'
    BY <1>2, <1>3, <1>4, <1>5, <2>1
  <2> QED
    BY <2>2, <2>3, <2>4
<1> QED
  BY <1>4, <1>5, <1>6 DEF p

(* A handler's step before it writes touches its own place and instants.    *)
LEMMA HandlerFrame ==
    ASSUME RecorderTypeOK, NEW r \in Requests,
           Begin(r) \/ Call(r) \/ BadGateway(r) \/ Forward(r) \/ End(r) \/ Return(r)
    PROVE  /\ cassetteVars' = cassetteVars /\ server' = server /\ reported' = reported
           /\ server # "exited"
           /\ handler[r] \in {"none", "begun", "forward", "answered", "ended"}
           /\ handler' \in [Requests -> {"none", "begun", "forward", "answered", "ended", "write", "over"}]
           /\ \A q \in Requests : q # r =>
                /\ handler'[q] = handler[q] /\ start'[q] = start[q] /\ end'[q] = end[q]
                /\ call'[q] = call[q] /\ return'[q] = return[q]
           /\ epoch # NoEpoch => epoch' = epoch
<1>0. /\ handler \in [Requests -> {"none", "begun", "forward", "answered", "ended", "write", "over"}]
      /\ start \in [Requests -> 0..MaxClock] /\ end \in [Requests -> 0..MaxClock]
      /\ call \in [Requests -> Int] /\ return \in [Requests -> Int]
  BY DEF RecorderTypeOK
<1>1. CASE Begin(r)
  BY <1>0, <1>1 DEF Begin, At, cassetteVars
<1>2. CASE Call(r)
  BY <1>0, <1>2 DEF Call, At, Since, cassetteVars
<1>3. CASE BadGateway(r)
  BY <1>0, <1>3 DEF BadGateway, At, cassetteVars, timeVars
<1>4. CASE Forward(r)
  BY <1>0, <1>4 DEF Forward, At, cassetteVars, timeVars
<1>5. CASE End(r)
  BY <1>0, <1>5 DEF End, At, cassetteVars
<1>6. CASE Return(r)
  BY <1>0, <1>6 DEF Return, At, Since, cassetteVars
<1> QED
  BY <1>1, <1>2, <1>3, <1>4, <1>5, <1>6

(* One entry is tried for a request whose instants are taken: it is in the  *)
(* cassette and counted, or it is lost.                                     *)
LEMMA WriteEntryDoes ==
    ASSUME RecorderTypeOK, NEW r \in Requests, WriteEntry(r)
    PROVE  /\ handler[r] = "write" /\ server # "exited" /\ server' = server
           /\ handler' = [handler EXCEPT ![r] = "over"]
           /\ UNCHANGED <<clock, timeVars, server, reported>>
           /\ seq' = seq + 1 /\ seq' \in Nat
           /\ \/ Leave(r, seq', "line") /\ count' = count + 1 /\ lost' = lost
              \/ /\ lost' = lost \cup {r} /\ count' = count
                 /\ \/ cassette' = cassette
                    \/ \E cut \in {"part", "json"} : Leave(r, seq', cut)
<1>1. seq' = seq + 1 /\ seq' \in Nat
  BY DEF WriteEntry, RecorderTypeOK
<1>2. ASSUME NEW cut \in {"nothing", "part", "json"}, Leave(r, seq', cut)
      PROVE  cassette' = cassette \/ \E c \in {"part", "json"} : Leave(r, seq', c)
  BY <1>2 DEF Leave
<1> QED
  BY <1>1, <1>2 DEF WriteEntry, At

(* The end of the process leaves the file, with a piece at most at its end. *)
LEMMA GoneDoes ==
    ASSUME RecorderTypeOK, Gone
    PROVE  /\ server' = "exited" /\ handler' = [r \in Requests |-> "none"]
           /\ clock' = 0 /\ epoch' = NoEpoch
           /\ start' = [r \in Requests |-> 0] /\ end' = start' /\ call' = start' /\ return' = start'
           /\ seq' = 0 /\ count' = 0 /\ lost' = {} /\ reported' = 0
           /\ \/ cassette' = cassette
              \/ \E r \in Requests : handler[r] = "write" /\ Leave(r, seq + 1, "part")
  BY DEF Gone

(* The shapes of the recorder's state are kept.                             *)
LEMMA RecorderTypeStep == RecorderTypeOK /\ [RecorderNext]_recorderVars => RecorderTypeOK'
<1> SUFFICES ASSUME RecorderTypeOK, [RecorderNext]_recorderVars PROVE RecorderTypeOK'
  OBVIOUS
<1>0. /\ clock \in 0..MaxClock /\ MaxClock \in Nat
      /\ handler \in [Requests -> {"none", "begun", "forward", "answered", "ended", "write", "over"}]
      /\ start \in [Requests -> 0..MaxClock] /\ end \in [Requests -> 0..MaxClock]
      /\ call \in [Requests -> Int] /\ return \in [Requests -> Int]
      /\ epoch \in {NoEpoch} \cup 0..MaxClock
      /\ seq \in Nat /\ count \in Nat
      /\ cassette \in Seq([req : Requests, seq : Nat, cut : {"part", "json", "line"}])
      /\ lost \in SUBSET Requests
      /\ server \in {"serving", "stopping", "drained", "gaveup", "exited"}
      /\ reported \in Nat
  BY RecorderAssumption DEF RecorderTypeOK
<1>1. ASSUME NEW r \in Requests, HandlerStep(r) PROVE RecorderTypeOK'
  <2>1. CASE Begin(r)
    BY <1>0, <2>1 DEF Begin, At, cassetteVars, RecorderTypeOK
  <2>2. CASE Call(r)
    <3>1. epoch' \in 0..MaxClock /\ epoch' \in Int
      BY <1>0, <2>2 DEF Call, Since, NoEpoch
    <3>2. call' \in [Requests -> Int]
      BY <1>0, <2>2, <3>1 DEF Call
    <3> QED
      BY <1>0, <2>2, <3>1, <3>2 DEF Call, At, cassetteVars, RecorderTypeOK
  <2>3. CASE BadGateway(r)
    BY <1>0, <2>3 DEF BadGateway, At, cassetteVars, timeVars, RecorderTypeOK
  <2>4. CASE Forward(r)
    BY <1>0, <2>4 DEF Forward, At, cassetteVars, timeVars, RecorderTypeOK
  <2>5. CASE End(r)
    <3>1. clock' \in 0..MaxClock /\ end' \in [Requests -> 0..MaxClock]
      BY <1>0, <2>5 DEF End
    <3> QED
      BY <1>0, <2>5, <3>1 DEF End, At, cassetteVars, RecorderTypeOK
  <2>6. CASE Return(r)
    <3>1. epoch' \in 0..MaxClock /\ epoch' \in Int
      BY <1>0, <2>6 DEF Return, Since, NoEpoch
    <3>2. return' \in [Requests -> Int]
      BY <1>0, <2>6, <3>1 DEF Return
    <3> QED
      BY <1>0, <2>6, <3>1, <3>2 DEF Return, At, cassetteVars, RecorderTypeOK
  <2>7. CASE WriteEntry(r)
    <3>1. cassette' \in Seq(CassettePieces) /\ lost' \in SUBSET Requests /\ count' \in Nat
      <4>1. seq' \in Nat
        BY <2>7, WriteEntryDoes
      <4>2. ASSUME NEW cut \in {"part", "json", "line"}, Leave(r, seq', cut)
            PROVE  cassette' \in Seq(CassettePieces)
        BY <4>1, <4>2, LeaveDoes
      <4> QED
        BY <1>0, <2>7, <4>1, <4>2, WriteEntryDoes DEF CassettePieces
    <3> QED
      BY <1>0, <2>7, <3>1, WriteEntryDoes DEF timeVars, CassettePieces, RecorderTypeOK
  <2> QED
    BY <1>1, <2>1, <2>2, <2>3, <2>4, <2>5, <2>6, <2>7 DEF HandlerStep
<1>2. ASSUME Gone PROVE RecorderTypeOK'
  <2>1. cassette' \in Seq(CassettePieces)
    <3>1. ASSUME NEW r \in Requests, Leave(r, seq + 1, "part") PROVE cassette' \in Seq(CassettePieces)
      <4>1. seq + 1 \in Nat
        BY <1>0
      <4> QED
        BY <3>1, <4>1, LeaveDoes
    <3> QED
      BY <1>0, <1>2, <3>1, GoneDoes DEF CassettePieces
  <2>2. [r \in Requests |-> 0] \in [Requests -> 0..MaxClock] /\ [r \in Requests |-> 0] \in [Requests -> Int]
    BY <1>0
  <2> QED
    BY <1>0, <1>2, <2>1, <2>2, GoneDoes, SMTT(30) DEF CassettePieces, RecorderTypeOK
<1>3. CASE Stop \/ Drained \/ ShutdownTimeout
  BY <1>0, <1>3 DEF Stop, Drained, ShutdownTimeout, timeVars, cassetteVars, RecorderTypeOK
<1>4. CASE UNCHANGED recorderVars
  BY <1>0, <1>4 DEF recorderVars, timeVars, cassetteVars, RecorderTypeOK
<1> QED
  BY <1>1, <1>2, <1>3, <1>4 DEF RecorderNext, ExitCapture, ServeFails, KillCapture

(* The instants are taken once, from an epoch that does not move.           *)
LEMMA TimeStep == RecorderTypeOK /\ TimeInv /\ [RecorderNext]_recorderVars => TimeInv'
<1> SUFFICES ASSUME RecorderTypeOK, TimeInv, [RecorderNext]_recorderVars PROVE TimeInv'
  OBVIOUS
<1>0. /\ MaxClock \in Nat
      /\ handler \in [Requests -> {"none", "begun", "forward", "answered", "ended", "write", "over"}]
      /\ start \in [Requests -> 0..MaxClock] /\ end \in [Requests -> 0..MaxClock]
      /\ call \in [Requests -> Int] /\ return \in [Requests -> Int]
      /\ epoch \in {NoEpoch} \cup 0..MaxClock
  BY RecorderAssumption DEF RecorderTypeOK
<1>1. ASSUME NEW r \in Requests,
             Begin(r) \/ Call(r) \/ BadGateway(r) \/ Forward(r) \/ End(r) \/ Return(r)
      PROVE  TimeInv'
  <2>1. /\ \A q \in Requests : q # r =>
             /\ handler'[q] = handler[q] /\ start'[q] = start[q] /\ end'[q] = end[q]
             /\ call'[q] = call[q] /\ return'[q] = return[q]
        /\ epoch # NoEpoch => epoch' = epoch
    BY <1>1, HandlerFrame
  <2>2. ASSUME NEW q \in Requests, q # r, handler'[q] = "write"
        PROVE  return'[q] = end'[q] - epoch' + 1
    BY <2>1, <2>2 DEF TimeInv, Called
  <2>3. ASSUME NEW q \in Requests, q # r, handler'[q] \in Called
        PROVE  epoch' # NoEpoch /\ call'[q] = start'[q] - epoch' + 1
    BY <2>1, <2>3 DEF TimeInv
  <2>4. handler'[r] = "write" => return'[r] = end'[r] - epoch' + 1
    BY <1>0, <1>1 DEF Begin, Call, BadGateway, Forward, End, Return, At
  <2>5. handler'[r] \in Called => epoch' # NoEpoch /\ call'[r] = start'[r] - epoch' + 1
    <3>1. CASE Begin(r)
      BY <1>0, <3>1 DEF Begin, At, Called
    <3>2. CASE Call(r)
      BY <1>0, <3>2 DEF Call, At, Since, NoEpoch
    <3>3. CASE BadGateway(r) \/ Forward(r) \/ End(r)
      BY <1>0, <3>3 DEF BadGateway, Forward, End, At, TimeInv, Called, timeVars
    <3>4. CASE Return(r)
      BY <1>0, <3>4 DEF Return, At, Since, TimeInv, Called
    <3> QED
      BY <1>1, <3>1, <3>2, <3>3, <3>4
  <2> QED
    BY <2>2, <2>3, <2>4, <2>5 DEF TimeInv
<1>2. ASSUME NEW r \in Requests, WriteEntry(r) PROVE TimeInv'
  <2>1. handler' = [handler EXCEPT ![r] = "over"] /\ handler[r] = "write" /\ UNCHANGED timeVars
    BY <1>2, WriteEntryDoes
  <2> QED
    BY <1>0, <2>1 DEF TimeInv, timeVars, Called
<1>3. CASE Gone
  BY <1>3, GoneDoes DEF TimeInv, Called
<1>4. CASE Stop \/ Drained \/ ShutdownTimeout \/ UNCHANGED recorderVars
  <2>1. UNCHANGED <<handler, timeVars>>
    BY <1>4 DEF Stop, Drained, ShutdownTimeout, recorderVars
  <2> QED
    BY <2>1 DEF TimeInv, timeVars
<1> QED
  BY <1>1, <1>2, <1>3, <1>4 DEF RecorderNext, HandlerStep, ExitCapture, ServeFails, KillCapture

(* What is written or lost is over, and its instants stay.                  *)
LEMMA EntryStep == RecorderTypeOK /\ TimeInv /\ EntryInv /\ [RecorderNext]_recorderVars => EntryInv'
<1> SUFFICES ASSUME RecorderTypeOK, TimeInv, EntryInv, [RecorderNext]_recorderVars,
                    server' # "exited"
             PROVE  /\ \A i \in DOMAIN cassette' : handler'[cassette'[i].req] = "over"
                    /\ \A r \in lost' : handler'[r] = "over"
                    /\ \A r \in Entry' : return'[r] = end'[r] - epoch' + 1
  BY DEF EntryInv
<1>0. /\ handler \in [Requests -> {"none", "begun", "forward", "answered", "ended", "write", "over"}]
      /\ lost \subseteq Requests /\ Entry \subseteq Requests
      /\ DOMAIN cassette = 1..Len(cassette) /\ Len(cassette) \in Nat
      /\ \A i \in DOMAIN cassette : cassette[i].req \in Requests
  BY CassetteIs DEF RecorderTypeOK
<1>1. ASSUME server # "exited"
      PROVE  /\ \A i \in DOMAIN cassette : handler[cassette[i].req] = "over"
             /\ \A r \in lost : handler[r] = "over"
             /\ \A r \in Entry : /\ handler[r] = "over"
                                 /\ return[r] = end[r] - epoch + 1 /\ epoch # NoEpoch
  <2>1. /\ \A i \in DOMAIN cassette : handler[cassette[i].req] = "over"
        /\ \A r \in lost : handler[r] = "over"
        /\ \A r \in Entry : return[r] = end[r] - epoch + 1
    BY <1>1 DEF EntryInv
  <2>2. \A r \in Entry : handler[r] = "over"
    BY <2>1 DEF Entry
  <2> QED
    BY <1>0, <2>1, <2>2 DEF TimeInv, Called
<1>2. ASSUME NEW r \in Requests,
             Begin(r) \/ Call(r) \/ BadGateway(r) \/ Forward(r) \/ End(r) \/ Return(r)
      PROVE  /\ \A i \in DOMAIN cassette' : handler'[cassette'[i].req] = "over"
             /\ \A q \in lost' : handler'[q] = "over"
             /\ \A q \in Entry' : return'[q] = end'[q] - epoch' + 1
  <2>1. /\ cassette' = cassette /\ lost' = lost /\ server # "exited" /\ handler[r] # "over"
        /\ \A q \in Requests : q # r =>
             handler'[q] = handler[q] /\ end'[q] = end[q] /\ return'[q] = return[q]
        /\ epoch # NoEpoch => epoch' = epoch
    BY <1>2, HandlerFrame DEF cassetteVars
  <2>2. Entry' = Entry
    BY <2>1 DEF Entry
  <2> QED
    BY <1>0, <1>1, <2>1, <2>2
<1>3. ASSUME NEW r \in Requests, WriteEntry(r)
      PROVE  /\ \A i \in DOMAIN cassette' : handler'[cassette'[i].req] = "over"
             /\ \A q \in lost' : handler'[q] = "over"
             /\ \A q \in Entry' : return'[q] = end'[q] - epoch' + 1
  <2>1. /\ server # "exited" /\ handler[r] = "write" /\ seq + 1 \in Nat
        /\ handler' = [handler EXCEPT ![r] = "over"]
        /\ return' = return /\ end' = end /\ epoch' = epoch
        /\ lost' \subseteq lost \cup {r}
        /\ cassette' = cassette \/ \E cut \in {"part", "json", "line"} : Leave(r, seq + 1, cut)
    BY <1>3, WriteEntryDoes DEF timeVars
  <2>2. return[r] = end[r] - epoch + 1
    BY <2>1 DEF TimeInv
  <2>3. \A q \in Requests : handler[q] = "over" \/ q = r => handler'[q] = "over"
    BY <1>0, <2>1
  <2>4. CASE cassette' = cassette
    <3>1. Entry' = Entry
      BY <2>4 DEF Entry
    <3> QED
      BY <1>0, <1>1, <2>1, <2>3, <2>4, <3>1
  <2>5. ASSUME NEW cut \in {"part", "json", "line"}, Leave(r, seq + 1, cut)
        PROVE  /\ DOMAIN cassette' = 1..(Len(cassette) + 1)
               /\ \A i \in DOMAIN cassette' :
                    cassette'[i].req = r \/ (i \in DOMAIN cassette /\ cassette'[i] = cassette[i])
               /\ Entry' \subseteq Entry \cup {r}
    <3>1. /\ DOMAIN cassette' = 1..(Len(cassette) + 1)
          /\ \A i \in 1..Len(cassette) : cassette'[i] = cassette[i]
          /\ cassette'[Len(cassette) + 1] = [req |-> r, seq |-> seq + 1, cut |-> cut]
      BY <2>1, <2>5, LeaveDoes
    <3>2. cassette'[Len(cassette) + 1].req = r
      BY <3>1
    <3>3. Entry' \subseteq Entry \cup {r}
      <4>1. Entry' = {cassette'[i].req : i \in {j \in DOMAIN cassette' : cassette'[j].cut = "line"}}
        BY DEF Entry
      <4> QED
        BY <1>0, <3>1, <3>2, <4>1 DEF Entry
    <3> QED
      BY <1>0, <3>1, <3>2, <3>3
  <2>6. CASE \E cut \in {"part", "json", "line"} : Leave(r, seq + 1, cut)
    <3>1. /\ \A i \in DOMAIN cassette' :
               cassette'[i].req = r \/ (i \in DOMAIN cassette /\ cassette'[i] = cassette[i])
          /\ Entry' \subseteq Entry \cup {r}
      BY <2>5, <2>6
    <3> QED
      BY <1>0, <1>1, <2>1, <2>2, <2>3, <3>1
  <2> QED
    BY <2>1, <2>4, <2>6
<1>4. CASE Stop \/ Drained \/ ShutdownTimeout \/ UNCHANGED recorderVars
  <2>1. UNCHANGED <<handler, timeVars, cassetteVars>> /\ server # "exited"
    BY <1>4 DEF Stop, Drained, ShutdownTimeout, recorderVars
  <2> QED
    BY <1>1, <2>1 DEF timeVars, cassetteVars, Entry
<1>5. CASE Gone
  BY <1>5 DEF Gone
<1> QED
  BY <1>2, <1>3, <1>4, <1>5 DEF RecorderNext, HandlerStep, ExitCapture, ServeFails, KillCapture

(* Nothing runs in a process that has ended.                                *)
LEMMA GoneStep == RecorderTypeOK /\ GoneInv /\ [RecorderNext]_recorderVars => GoneInv'
<1> SUFFICES ASSUME RecorderTypeOK, GoneInv, [RecorderNext]_recorderVars PROVE GoneInv'
  OBVIOUS
<1>1. CASE Gone
  BY <1>1, GoneDoes DEF GoneInv
<1>2. ASSUME NEW r \in Requests, HandlerStep(r) PROVE server' # "exited"
  BY <1>2, HandlerFrame, WriteEntryDoes DEF HandlerStep
<1>3. CASE Stop \/ Drained \/ ShutdownTimeout
  BY <1>3 DEF Stop, Drained, ShutdownTimeout, GoneInv
<1>4. CASE UNCHANGED recorderVars
  BY <1>4 DEF recorderVars, timeVars, GoneInv
<1> QED
  BY <1>1, <1>2, <1>3, <1>4 DEF RecorderNext, ExitCapture, ServeFails, KillCapture, GoneInv

(* Every number is in the cassette or stands for a loss.                    *)
LEMMA CountStep ==
    RecorderTypeOK /\ EntryInv /\ CountInv /\ [RecorderNext]_recorderVars => CountInv'
<1> SUFFICES ASSUME RecorderTypeOK, EntryInv, CountInv, [RecorderNext]_recorderVars
             PROVE  CountInv'
  OBVIOUS
<1>0. /\ handler \in [Requests -> {"none", "begun", "forward", "answered", "ended", "write", "over"}]
      /\ IsFiniteSet(Entry) /\ IsFiniteSet(lost) /\ seq \in Nat /\ count \in Nat
  BY DEF RecorderTypeOK, CountInv
<1>1. ASSUME NEW r \in Requests,
             Begin(r) \/ Call(r) \/ BadGateway(r) \/ Forward(r) \/ End(r) \/ Return(r)
      PROVE  CountInv'
  <2>1. /\ UNCHANGED cassetteVars /\ server' = server
        /\ server # "exited" /\ reported' = reported
        /\ handler[r] \in {"none", "begun", "forward", "answered", "ended"}
    BY <1>1, HandlerFrame
  <2>2. server # "drained"
    <3>1. CASE Begin(r)
      BY <3>1 DEF Begin
    <3>2. CASE Call(r) \/ BadGateway(r) \/ Forward(r) \/ End(r) \/ Return(r)
      <4>1. handler[r] \notin {"none", "over"}
        BY <3>2 DEF Call, BadGateway, Forward, End, Return, At
      <4> QED
        BY <4>1 DEF CountInv, Idle
    <3> QED
      BY <1>1, <3>1, <3>2
  <2>3. Entry' = Entry /\ lost' = lost /\ count' = count /\ seq' = seq
    BY <2>1 DEF Entry, cassetteVars
  <2> QED
    BY <2>1, <2>2, <2>3 DEF CountInv
<1>2. ASSUME NEW r \in Requests, WriteEntry(r) PROVE CountInv'
  <2>1. /\ handler[r] = "write" /\ server # "exited" /\ server' = server
        /\ seq' = seq + 1 /\ seq' \in Nat
        /\ \/ Leave(r, seq', "line") /\ count' = count + 1 /\ lost' = lost
           \/ /\ lost' = lost \cup {r} /\ count' = count
              /\ \/ cassette' = cassette
                 \/ \E cut \in {"part", "json"} : Leave(r, seq', cut)
    BY <1>2, WriteEntryDoes
  <2>2. server # "drained"
    BY <2>1 DEF CountInv, Idle
  <2>3. r \notin Entry /\ r \notin lost
    <3>1. /\ \A i \in DOMAIN cassette : handler[cassette[i].req] = "over"
          /\ \A q \in lost : handler[q] = "over"
      BY <2>1 DEF EntryInv
    <3> QED
      BY <2>1, <3>1 DEF Entry
  <2>4. /\ count = Cardinality(Entry) /\ Entry \cap lost = {}
        /\ seq = Cardinality(Entry) + Cardinality(lost)
    BY <2>1 DEF CountInv
  <2>5. /\ IsFiniteSet(Entry \cup {r}) /\ Cardinality(Entry \cup {r}) = Cardinality(Entry) + 1
        /\ IsFiniteSet(lost \cup {r}) /\ Cardinality(lost \cup {r}) = Cardinality(lost) + 1
        /\ Cardinality(Entry) \in Nat /\ Cardinality(lost) \in Nat
    BY <1>0, <2>3, FS_AddElement, FS_CardinalityType
  <2>6. CASE Leave(r, seq', "line") /\ count' = count + 1 /\ lost' = lost
    <3>1. Entry' = Entry \cup {r}
      BY <2>1, <2>6, LeaveDoes
    <3> QED
      BY <1>0, <2>1, <2>2, <2>3, <2>4, <2>5, <2>6, <3>1 DEF CountInv
  <2>7. CASE /\ lost' = lost \cup {r} /\ count' = count
             /\ \/ cassette' = cassette
                \/ \E cut \in {"part", "json"} : Leave(r, seq', cut)
    <3>1. ASSUME NEW cut \in {"part", "json"}, Leave(r, seq', cut) PROVE Entry' = Entry
      <4>1. Entry' = Entry \cup (IF cut = "line" THEN {r} ELSE {})
        <5>1. seq' \in Nat
          BY <2>1
        <5> QED
          BY <3>1, <5>1, LeaveDoes
      <4> QED
        BY <3>1, <4>1
    <3>2. Entry' = Entry
      BY <2>7, <3>1 DEF Entry
    <3> QED
      BY <1>0, <2>1, <2>2, <2>3, <2>4, <2>5, <2>7, <3>2 DEF CountInv
  <2> QED
    BY <2>1, <2>6, <2>7
<1>3. CASE Gone
  <2>1. Entry' = Entry
    <3>1. ASSUME NEW r \in Requests, Leave(r, seq + 1, "part") PROVE Entry' = Entry
      <4>1. seq + 1 \in Nat
        BY <1>0
      <4> QED
        BY <3>1, <4>1, LeaveDoes
    <3> QED
      BY <1>3, <3>1, GoneDoes DEF Entry
  <2>2. server' = "exited" /\ lost' = {}
    BY <1>3, GoneDoes
  <2> QED
    BY <1>0, <2>1, <2>2, FS_EmptySet DEF CountInv
<1>4. CASE Stop \/ Drained \/ ShutdownTimeout \/ UNCHANGED recorderVars
  <2>1. UNCHANGED <<handler, cassetteVars>>
    BY <1>4 DEF Stop, Drained, ShutdownTimeout, recorderVars
  <2>2. /\ Entry' = Entry /\ lost' = lost /\ count' = count /\ seq' = seq /\ Idle' = Idle
    BY <2>1 DEF Entry, Idle, cassetteVars
  <2>3. server' = "exited" \/ server # "exited"
    BY <1>4 DEF Stop, Drained, ShutdownTimeout, recorderVars
  <2>4. server' = "drained" => Idle /\ reported' = count
    BY <1>4 DEF Stop, Drained, ShutdownTimeout, recorderVars, CountInv
  <2> QED
    BY <2>2, <2>3, <2>4 DEF CountInv
<1> QED
  BY <1>1, <1>2, <1>3, <1>4 DEF RecorderNext, HandlerStep, ExitCapture, ServeFails, KillCapture

(* The counter is ahead of the file, and every piece takes the next number. *)
LEMMA SeqStep == RecorderTypeOK /\ SeqInv /\ [RecorderNext]_recorderVars => SeqInv'
<1> SUFFICES ASSUME RecorderTypeOK, SeqInv, [RecorderNext]_recorderVars PROVE SeqInv'
  OBVIOUS
<1>0. /\ DOMAIN cassette = 1..Len(cassette) /\ Len(cassette) \in Nat /\ seq \in Nat
      /\ \A i \in DOMAIN cassette : cassette[i].seq \in Nat
  BY CassetteIs DEF RecorderTypeOK
<1>1. ASSUME NEW r \in Requests, NEW cut \in {"part", "json", "line"}, server # "exited",
             Leave(r, seq + 1, cut), seq' = seq + 1 \/ server' = "exited"
      PROVE  SeqInv'
  <2>1. seq + 1 \in Nat
    BY <1>0
  <2>2. /\ DOMAIN cassette' = 1..(Len(cassette) + 1)
        /\ \A i \in 1..Len(cassette) : cassette'[i] = cassette[i]
        /\ cassette'[Len(cassette) + 1] = [req |-> r, seq |-> seq + 1, cut |-> cut]
    BY <1>1, <2>1, LeaveDoes
  <2>3. cassette'[Len(cassette) + 1].seq = seq + 1
    BY <2>2
  <2>4. \A i \in DOMAIN cassette : cassette[i].seq <= seq
    BY <1>1 DEF SeqInv
  <2>5. \A i \in 1..Len(cassette) : cassette'[i].seq = cassette[i].seq
    BY <2>2
  <2>6. ASSUME NEW i \in DOMAIN cassette', NEW j \in DOMAIN cassette', i < j
        PROVE  cassette'[i].seq < cassette'[j].seq
    <3>1. i \in 1..Len(cassette)
      BY <1>0, <2>2, <2>6
    <3>2. CASE j \in 1..Len(cassette)
      BY <1>0, <2>5, <2>6, <3>1, <3>2 DEF SeqInv
    <3>3. CASE j = Len(cassette) + 1
      BY <1>0, <2>3, <2>4, <2>5, <3>1, <3>3
    <3> QED
      BY <1>0, <2>2, <3>2, <3>3
  <2>7. server' # "exited" => \A i \in DOMAIN cassette' : cassette'[i].seq <= seq'
    BY <1>0, <1>1, <2>2, <2>3, <2>4, <2>5
  <2> QED
    BY <2>6, <2>7 DEF SeqInv
<1>2. ASSUME cassette' = cassette, seq' \in Nat, seq' >= seq \/ server' = "exited",
             server = "exited" => server' = "exited"
      PROVE  SeqInv'
  BY <1>0, <1>2 DEF SeqInv
<1>3. ASSUME NEW r \in Requests, HandlerStep(r) PROVE SeqInv'
  <2>1. CASE Begin(r) \/ Call(r) \/ BadGateway(r) \/ Forward(r) \/ End(r) \/ Return(r)
    <3>1. cassette' = cassette /\ seq' = seq /\ server # "exited"
      BY <2>1, HandlerFrame DEF cassetteVars
    <3> QED
      BY <1>0, <1>2, <3>1
  <2>2. CASE WriteEntry(r)
    <3>1. /\ server # "exited" /\ seq' = seq + 1 /\ seq' \in Nat
          /\ cassette' = cassette \/ \E cut \in {"part", "json", "line"} : Leave(r, seq + 1, cut)
      BY <2>2, WriteEntryDoes
    <3> QED
      BY <1>0, <1>1, <1>2, <3>1
  <2> QED
    BY <1>3, <2>1, <2>2 DEF HandlerStep
<1>4. ASSUME Gone, server # "exited" PROVE SeqInv'
  <2>1. /\ server' = "exited" /\ seq' = 0
        /\ cassette' = cassette \/ \E r \in Requests : Leave(r, seq + 1, "part")
    BY <1>4, GoneDoes
  <2> QED
    BY <1>1, <1>2, <1>4, <2>1
<1>5. CASE Stop \/ Drained \/ ShutdownTimeout \/ UNCHANGED recorderVars
  <2>1. cassette' = cassette /\ seq' = seq /\ (server = "exited" => server' = "exited")
    BY <1>5 DEF Stop, Drained, ShutdownTimeout, recorderVars, cassetteVars
  <2> QED
    BY <1>0, <1>2, <2>1
<1> QED
  BY <1>3, <1>4, <1>5 DEF RecorderNext, ExitCapture, ServeFails, KillCapture

(* Every step of the proxy and of the end of capture keeps its invariant.   *)
LEMMA RecorderInvStep == RecorderInv /\ [RecorderNext]_recorderVars => RecorderInv'
  BY RecorderTypeStep, TimeStep, EntryStep, GoneStep, CountStep, SeqStep DEF RecorderInv

(* A capture starts with an empty cassette, no exchange and the invariant.  *)
LEMMA RecorderInvInit == RecorderInit => RecorderInv
<1> SUFFICES ASSUME RecorderInit PROVE RecorderInv
  OBVIOUS
<1>1. cassette = <<>> /\ DOMAIN cassette = {} /\ cassette \in Seq(CassettePieces)
  BY EmptySeq DEF RecorderInit
<1>2. Entry = {}
  BY <1>1 DEF Entry
<1>3. RecorderTypeOK
  BY <1>1, RecorderAssumption DEF RecorderInit, RecorderTypeOK, CassettePieces, NoEpoch
<1>4. TimeInv /\ EntryInv /\ GoneInv /\ SeqInv
  BY <1>1, <1>2 DEF RecorderInit, TimeInv, EntryInv, GoneInv, SeqInv, Called
<1>5. CountInv
  BY <1>2, FS_EmptySet DEF RecorderInit, CountInv
<1> QED
  BY <1>3, <1>4, <1>5 DEF RecorderInv

(* Types and the recorder's invariant hold throughout.                      *)
THEOREM RecorderInvariance == RecorderSpec => []RecorderInv
  BY RecorderInvInit, RecorderInvStep, PTL DEF RecorderSpec

(* The instants of any two entries overlap exactly if the exchanges did.    *)
THEOREM InstantsAreReal == RecorderSpec => []OverlapIsReal
<1>1. RecorderInv => OverlapIsReal
  <2> SUFFICES ASSUME RecorderInv, NEW a \in Entry, NEW b \in Entry
               PROVE  return[a] < call[b] <=> end[a] < start[b]
    BY DEF OverlapIsReal
  <2>0. /\ a \in Requests /\ b \in Requests /\ MaxClock \in Nat
        /\ start \in [Requests -> 0..MaxClock] /\ end \in [Requests -> 0..MaxClock]
        /\ epoch \in {NoEpoch} \cup 0..MaxClock
    BY CassetteIs, RecorderAssumption DEF RecorderInv, RecorderTypeOK
  <2>1. CASE server = "exited"
    BY <2>0, <2>1 DEF RecorderInv, GoneInv
  <2>2. CASE server # "exited"
    <3>1. return[a] = end[a] - epoch + 1
      BY <2>2 DEF RecorderInv, EntryInv
    <3>2. handler[b] = "over"
      <4>1. \A i \in DOMAIN cassette : handler[cassette[i].req] = "over"
        BY <2>2 DEF RecorderInv, EntryInv
      <4> QED
        BY <4>1 DEF Entry
    <3>3. call[b] = start[b] - epoch + 1
      BY <2>0, <3>2 DEF RecorderInv, TimeInv, Called
    <3>4. epoch \in Int /\ start[b] \in Int /\ end[a] \in Int
      BY <2>0 DEF NoEpoch
    <3> QED
      BY <3>1, <3>3, <3>4
  <2> QED
    BY <2>1, <2>2
<1> QED
  BY <1>1, RecorderInvariance, PTL

(* A count that was not cut short is the number of entries, all handlers    *)
(* being through.                                                           *)
THEOREM TheReportIsTrue == RecorderSpec => []ReportIsTrue
<1>1. RecorderInv => ReportIsTrue
  BY DEF RecorderInv, CountInv, ReportIsTrue, Idle
<1> QED
  BY <1>1, RecorderInvariance, PTL

-----------------------------------------------------------------------------
(* The replay. *)

(* What has been sent is the beginning of the cassette, every entry as      *)
(* often as repeat says; only a replay that passed its checks sends.        *)
SentInv ==
    /\ asked \in ReplayOptions /\ sent \in Seq(Nat)
    /\ replayer \in {"idle", "sending", "over"}
    /\ replayer = "idle" => sent = <<>> /\ replayExit = 0
    /\ replayer # "idle" => server = "exited"
    /\ replayExit # 0 => replayer = "over" /\ sent = <<>>
    /\ replayer # "idle" /\ replayExit = 0 => MultiplierAllowed(asked) /\ Readable
    /\ replayer = "over" /\ replayExit = 0 => Len(sent) = repeat * Len(cassette)
    /\ Len(sent) <= repeat * Len(cassette)
    /\ \A k \in DOMAIN sent : sent[k] = cassette[(k - 1) \div repeat + 1].seq

(* Division with a remainder.                                               *)
LEMMA Division ==
    ASSUME NEW a \in Int, NEW b \in Nat \ {0}
    PROVE  a \div b \in Int /\ b * (a \div b) <= a /\ a < b * (a \div b) + b
BY SMT

(* Multiplied by the factor, two different numbers are at least the factor  *)
(* apart.                                                                   *)
LEMMA FactorGrows ==
    ASSUME NEW r \in Nat, NEW p \in Int, NEW q \in Int, p < q
    PROVE  r * p \in Int /\ r * q \in Int /\ r * p + r <= r * q
<1> DEFINE d == q - p - 1
<1>1. d \in Nat /\ q = p + (d + 1)
  OBVIOUS
<1> HIDE DEF d
<1>2. r * q = r * p + (r * d + r)
  BY <1>1
<1>3. r * d \in Nat
  BY <1>1
<1> QED
  BY <1>2, <1>3

(* A number lies in one block of r numbers only.                            *)
LEMMA OneBlock ==
    ASSUME NEW r \in Nat \ {0}, NEW k \in Int, NEW p \in Int, NEW q \in Int,
           r * p <= k, k < r * p + r, r * q <= k, k < r * q + r
    PROVE  p = q
<1>1. ~(p < q) /\ ~(q < p)
  <2>1. CASE p < q
    <3>1. r * p + r <= r * q /\ r * p \in Int /\ r * q \in Int
      BY <2>1, FactorGrows
    <3> QED
      BY <3>1
  <2>2. CASE q < p
    <3>1. r * q + r <= r * p /\ r * p \in Int /\ r * q \in Int
      BY <2>2, FactorGrows
    <3> QED
      BY <3>1
  <2> QED
    BY <2>1, <2>2
<1> QED
  BY <1>1

(* The k-th request sends the entry in whose block of r requests k lies.    *)
LEMMA BlockOf ==
    ASSUME NEW r \in Nat \ {0}, NEW n \in Nat, NEW k \in Nat \ {0}, k <= r * n
    PROVE  /\ (k - 1) \div r + 1 \in 1..n
           /\ \A i \in 1..n : (k - 1) \div r + 1 = i <=> k \in (r * (i - 1) + 1)..(r * i)
<1> DEFINE q == (k - 1) \div r
<1>1. q \in Int /\ r * q <= k - 1 /\ k - 1 < r * q + r
  BY Division
<1> HIDE DEF q
<1>2. q < n
  <2> SUFFICES ASSUME n <= q PROVE FALSE
    BY <1>1
  <2>1. n = q \/ r * n + r <= r * q
    BY <1>1, FactorGrows
  <2>2. r * n \in Int /\ r * q \in Int
    BY <1>1
  <2> QED
    BY <1>1, <2>1, <2>2
<1>3. 0 <= q
  <2> SUFFICES ASSUME q < 0 PROVE FALSE
    BY <1>1
  <2>1. r * q + r <= r * 0 /\ r * q \in Int
    BY <1>1, FactorGrows
  <2> QED
    BY <1>1, <2>1
<1>4. ASSUME NEW i \in 1..n
      PROVE  q + 1 = i <=> k \in (r * (i - 1) + 1)..(r * i)
  <2> DEFINE p == i - 1
  <2>1. p \in Int /\ i = p + 1
    OBVIOUS
  <2> HIDE DEF p
  <2>2. r * p \in Int /\ r * (p + 1) = r * p + r
    BY <2>1
  <2>3. q = p <=> k \in (r * p + 1)..(r * (p + 1))
    <3>1. CASE q = p
      BY <1>1, <2>2, <3>1
    <3>2. ASSUME k \in (r * p + 1)..(r * (p + 1)) PROVE q = p
      <4>1. r * p <= k - 1 /\ k - 1 < r * p + r
        BY <2>2, <3>2
      <4> QED
        BY <1>1, <2>1, <4>1, OneBlock
    <3> QED
      BY <3>1, <3>2
  <2> QED
    BY <1>1, <2>1, <2>3 DEF p
<1> QED
  BY <1>1, <1>2, <1>3, <1>4 DEF q

(* int(multiplier + 0.5): the nearest number, and once at least.            *)
LEMMA RepeatIs ==
    ASSUME asked \in ReplayOptions
    PROVE  /\ repeat \in Nat \ {0}
           /\ repeat > 1 \/ asked.multiplier >= 10 => 10 * repeat - asked.multiplier \in -4..5
           /\ asked.multiplier <= 10 => repeat = 1
<1> DEFINE m == asked.multiplier
           q == (m + 5) \div 10
<1>1. m \in Int
  BY ReplayAssumption
<1>2. repeat = IF q < 1 THEN 1 ELSE q
  BY DEF repeat
<1> HIDE DEF m
<1>3. q \in Int /\ 10 * q <= m + 5 /\ m + 5 < 10 * q + 10
  BY <1>1
<1> HIDE DEF q
<1> QED
  BY <1>1, <1>2, <1>3 DEF m

(* A number of the cassette is the number of one entry only, and the later  *)
(* entry has the greater one.                                               *)
LEMMA NumbersRise ==
    ASSUME RecorderTypeOK, SeqInv, NEW i \in DOMAIN cassette, NEW j \in DOMAIN cassette
    PROVE  /\ i <= j => cassette[i].seq <= cassette[j].seq
           /\ cassette[i].seq = cassette[j].seq => i = j
<1>1. i \in Nat /\ j \in Nat /\ cassette[i].seq \in Nat /\ cassette[j].seq \in Nat
  BY CassetteIs
<1>2. /\ i < j => cassette[i].seq < cassette[j].seq
      /\ j < i => cassette[j].seq < cassette[i].seq
  BY DEF SeqInv
<1> QED
  BY <1>1, <1>2

(* The recorder has ended when the replay begins, and changes nothing more. *)
LEMMA RecorderRests ==
    ASSUME RecorderTypeOK, GoneInv, [RecorderNext]_recorderVars, server = "exited"
    PROVE  UNCHANGED recorderVars
<1>1. ASSUME NEW r \in Requests, HandlerStep(r) PROVE FALSE
  BY <1>1, HandlerFrame, WriteEntryDoes DEF HandlerStep
<1> QED
  BY <1>1 DEF RecorderNext, Stop, Drained, ShutdownTimeout, ExitCapture, ServeFails, KillCapture

(* No step of a replay sends anything but the next copy of the next entry.  *)
LEMMA SentStep ==
    ASSUME RecorderInv, SentInv, [CaptureNext]_<<recorderVars, replayVars>>
    PROVE  SentInv'
<1>0. /\ asked \in ReplayOptions /\ sent \in Seq(Nat) /\ Len(sent) \in Nat
      /\ DOMAIN sent = 1..Len(sent)
      /\ repeat \in Nat \ {0} /\ Len(cassette) \in Nat /\ DOMAIN cassette = 1..Len(cassette)
      /\ \A i \in DOMAIN cassette : cassette[i].seq \in Nat
  BY RepeatIs, CassetteIs, LenProperties DEF SentInv, RecorderInv
<1>1. ASSUME [RecorderNext]_recorderVars, UNCHANGED replayVars PROVE SentInv'
  <2>1. /\ asked' = asked /\ sent' = sent /\ replayer' = replayer /\ replayExit' = replayExit
    BY <1>1 DEF replayVars
  <2>2. repeat' = repeat
    BY <2>1 DEF repeat
  <2>3. CASE server = "exited"
    <3>1. UNCHANGED recorderVars
      BY <1>1, <2>3, RecorderRests DEF RecorderInv
    <3>2. cassette' = cassette /\ server' = server
      BY <3>1 DEF recorderVars, cassetteVars
    <3>3. Readable' = Readable /\ (MultiplierAllowed(asked))' = MultiplierAllowed(asked)
      BY <2>1, <3>2 DEF Readable, Parses, MultiplierAllowed
    <3> QED
      BY <2>1, <2>2, <3>2, <3>3 DEF SentInv
  <2>4. CASE server # "exited"
    <3>1. replayer = "idle" /\ sent = <<>> /\ replayExit = 0
      BY <2>4 DEF SentInv
    <3>2. DOMAIN sent' = {} /\ Len(sent') = 0
      BY <2>1, <3>1
    <3>3. Len(cassette') \in Nat
      BY RecorderInvStep, <1>1, CassetteIs, LenProperties DEF RecorderInv, RecorderTypeOK
    <3>4. 0 <= repeat' * Len(cassette')
      BY <1>0, <2>2, <3>3
    <3> QED
      BY <1>0, <2>1, <3>1, <3>2, <3>4 DEF SentInv
  <2> QED
    BY <2>3, <2>4
<1>2. ASSUME runReplay PROVE SentInv'
  <2>1. /\ server = "exited" /\ replayer = "idle" /\ asked' \in ReplayOptions
        /\ sent' = <<>> /\ replayExit = 0 /\ sent = <<>>
        /\ cassette' = cassette /\ server' = server
        /\ \/ /\ replayer' = "sending" /\ replayExit' = 0
              /\ MultiplierAllowed(asked') /\ Readable
           \/ replayer' = "over" /\ replayExit' = 2
    BY <1>2 DEF runReplay, SentInv, recorderVars, cassetteVars
  <2>2. repeat' \in Nat
    <3>1. \A n \in Int : (IF n < 1 THEN 1 ELSE n) \in Nat
      OBVIOUS
    <3>2. asked'.multiplier \in Int
      BY <2>1, ReplayAssumption
    <3>3. (asked'.multiplier + 5) \div 10 \in Int
      BY <3>2
    <3> QED
      BY <3>1, <3>3 DEF repeat
  <2>3. Len(sent') = 0 /\ DOMAIN sent' = {} /\ sent' \in Seq(Nat) /\ Len(sent') <= repeat' * Len(cassette')
    BY <1>0, <2>1, <2>2
  <2>4. /\ Readable' = Readable
        /\ (MultiplierAllowed(asked))' = MultiplierAllowed(asked')
    BY <2>1 DEF Readable, Parses, MultiplierAllowed
  <2> QED
    BY <2>1, <2>3, <2>4 DEF SentInv
<1>3. ASSUME doReplayRequest PROVE SentInv'
  <2> DEFINE e == cassette[Len(sent) \div repeat + 1].seq
  <2>1. /\ replayer = "sending" /\ Len(sent) < repeat * Len(cassette)
        /\ sent' = Append(sent, e)
        /\ replayer' = replayer /\ asked' = asked /\ replayExit' = replayExit
        /\ cassette' = cassette /\ server' = server
    BY <1>3 DEF doReplayRequest, recorderVars, cassetteVars
  <2>2. Len(sent) \div repeat + 1 \in DOMAIN cassette
    <3> DEFINE k == Len(sent) + 1
    <3>1. k \in Nat \ {0} /\ k <= repeat * Len(cassette) /\ k - 1 = Len(sent)
      <4>1. repeat * Len(cassette) \in Nat
        BY <1>0
      <4> QED
        BY <1>0, <2>1, <4>1
    <3> HIDE DEF k
    <3>2. (k - 1) \div repeat + 1 \in 1..Len(cassette)
      BY <1>0, <3>1, BlockOf
    <3> QED
      BY <1>0, <3>1, <3>2
  <2>3. e \in Nat
    BY <1>0, <2>2
  <2>4. repeat' = repeat /\ Readable' = Readable /\ (MultiplierAllowed(asked))' = MultiplierAllowed(asked)
    BY <2>1 DEF repeat, Readable, Parses, MultiplierAllowed
  <2> HIDE DEF e
  <2>5. /\ sent' \in Seq(Nat) /\ Len(sent') = Len(sent) + 1
        /\ \A k \in 1..Len(sent) : sent'[k] = sent[k]
        /\ sent'[Len(sent) + 1] = e
    BY <1>0, <2>1, <2>3, AppendProperties
  <2>6. DOMAIN sent' = 1..(Len(sent) + 1)
    BY <2>5, LenProperties
  <2>7. ASSUME NEW k \in DOMAIN sent'
        PROVE  sent'[k] = cassette'[(k - 1) \div repeat' + 1].seq
    <3>1. CASE k \in 1..Len(sent)
      BY <1>0, <2>1, <2>4, <2>5, <3>1 DEF SentInv
    <3>2. CASE k = Len(sent) + 1
      <4>1. k - 1 = Len(sent)
        BY <1>0, <3>2
      <4> QED
        BY <2>1, <2>4, <2>5, <3>2, <4>1 DEF e
    <3> QED
      BY <1>0, <2>6, <3>1, <3>2
  <2>8. Len(sent') <= repeat' * Len(cassette')
    BY <1>0, <2>1, <2>4, <2>5
  <2>9. replayExit' = 0
    BY <2>1 DEF SentInv
  <2> QED
    BY <1>0, <2>1, <2>4, <2>5, <2>7, <2>8, <2>9 DEF SentInv
<1>4. ASSUME ReplayEnds PROVE SentInv'
  <2>1. /\ replayer = "sending" /\ Len(sent) = repeat * Len(cassette)
        /\ replayer' = "over" /\ asked' = asked /\ sent' = sent /\ replayExit' = replayExit
        /\ cassette' = cassette /\ server' = server
    BY <1>4 DEF ReplayEnds, recorderVars, cassetteVars
  <2>2. repeat' = repeat /\ Readable' = Readable /\ (MultiplierAllowed(asked))' = MultiplierAllowed(asked)
    BY <2>1 DEF repeat, Readable, Parses, MultiplierAllowed
  <2> QED
    BY <2>1, <2>2 DEF SentInv
<1> QED
  BY <1>1, <1>2, <1>3, <1>4 DEF CaptureNext, ReplayOver

(* A capture and the replay of what it left keep the invariants of both.    *)
THEOREM CaptureInvariance == CaptureSpec => [](RecorderInv /\ SentInv)
<1>1. RecorderInit /\ ReplayInit => RecorderInv /\ SentInv
  <2> SUFFICES ASSUME RecorderInit, ReplayInit PROVE RecorderInv /\ SentInv
    OBVIOUS
  <2>1. asked \in ReplayOptions
    BY ReplayAssumption DEF ReplayInit
  <2>2. sent = <<>> /\ sent \in Seq(Nat) /\ Len(sent) = 0 /\ DOMAIN sent = {}
    BY DEF ReplayInit
  <2>3. 0 <= repeat * Len(cassette)
    <3>1. Len(cassette) = 0
      BY DEF RecorderInit
    <3> QED
      BY <2>1, <3>1, RepeatIs
  <2> QED
    BY <2>1, <2>2, <2>3, RecorderInvInit DEF ReplayInit, SentInv
<1>2. RecorderInv /\ SentInv /\ [CaptureNext]_<<recorderVars, replayVars>> => (RecorderInv /\ SentInv)'
  <2> SUFFICES ASSUME RecorderInv, SentInv, [CaptureNext]_<<recorderVars, replayVars>>
               PROVE  RecorderInv' /\ SentInv'
    OBVIOUS
  <2>1. [RecorderNext]_recorderVars
    BY DEF CaptureNext, runReplay, doReplayRequest, ReplayEnds, ReplayOver
  <2> QED
    BY <2>1, SentStep, RecorderInvStep
<1> QED
  BY <1>1, <1>2, PTL DEF CaptureSpec

(* An entry that was sent is one of the cassette, and every entry is sent   *)
(* as often as repeat says once the replay has succeeded.                   *)
LEMMA TimesIsRepeat ==
    ASSUME RecorderInv, SentInv, replayer = "over", replayExit = 0,
           NEW i \in DOMAIN cassette
    PROVE  Times(cassette[i].seq) = repeat
<1> DEFINE r == repeat
           n == Len(cassette)
           block == (r * (i - 1) + 1)..(r * i)
<1>1. /\ r \in Nat \ {0} /\ n \in Nat /\ i \in 1..n /\ DOMAIN cassette = 1..n
      /\ sent \in Seq(Nat) /\ Len(sent) = r * n
  BY RepeatIs, CassetteIs DEF SentInv, RecorderInv
<1>2. DOMAIN sent = 1..(r * n)
  BY <1>1, LenProperties
<1>3. \A k \in DOMAIN sent : sent[k] = cassette[(k - 1) \div r + 1].seq
  BY DEF SentInv
<1> HIDE DEF r, n
<1>4. ASSUME NEW k \in DOMAIN sent PROVE sent[k] = cassette[i].seq <=> k \in block
  <2>1. k \in Nat \ {0} /\ k <= r * n
    BY <1>1, <1>2
  <2> DEFINE p == (k - 1) \div r + 1
  <2>2. p \in 1..n /\ (p = i <=> k \in block)
    BY <1>1, <2>1, BlockOf
  <2>3. sent[k] = cassette[p].seq
    BY <1>3
  <2> HIDE DEF p, block
  <2>4. cassette[p].seq = cassette[i].seq => p = i
    <3>1. p \in DOMAIN cassette /\ i \in DOMAIN cassette
      BY <1>1, <2>2
    <3>2. RecorderTypeOK /\ SeqInv
      BY DEF RecorderInv
    <3> QED
      BY <3>1, <3>2, NumbersRise
  <2> QED
    BY <2>2, <2>3, <2>4
<1>5. r * (i - 1) \in Nat /\ r * i \in Nat /\ r * i = r * (i - 1) + r /\ r * i <= r * n
  <2>1. r * i = r * (i - 1) + r /\ r * (i - 1) \in Nat /\ r * i \in Nat /\ r * n \in Nat
    BY <1>1
  <2>2. i = n \/ r * i + r <= r * n
    <3>1. i < n \/ i = n
      BY <1>1
    <3>2. CASE i < n
      <4>1. r \in Nat /\ i \in Int /\ n \in Int
        BY <1>1
      <4> QED
        BY <3>2, <4>1, FactorGrows
    <3> QED
      BY <3>1, <3>2
  <2> DEFINE a == r * (i - 1)
             b == r * i
             c == r * n
  <2>3. a \in Nat /\ b \in Nat /\ c \in Nat /\ b = a + r /\ (i = n => b = c)
    BY <2>1
  <2>4. i = n \/ b + r <= c
    BY <2>2
  <2> HIDE DEF a, b, c
  <2>5. b <= c
    BY <1>1, <2>3, <2>4
  <2> QED
    BY <2>3, <2>5 DEF a, b, c
<1>6. block \subseteq DOMAIN sent
  BY <1>1, <1>2, <1>5, SMTT(20)
<1>7. {k \in DOMAIN sent : sent[k] = cassette[i].seq} = block
  <2> HIDE DEF block
  <2> QED
    BY <1>4, <1>6
<1>8. Cardinality(block) = r
  <2> DEFINE a == r * (i - 1) + 1
             b == r * i
  <2>1. a \in Int /\ b \in Int /\ b = a + r - 1 /\ block = a..b
    BY <1>1, <1>5, SMTT(20)
  <2> HIDE DEF a, b, block
  <2> QED
    BY <1>1, <2>1, FS_Interval
<1> QED
  BY <1>7, <1>8 DEF Times, r

(* Each part of ReplayIsTheRecording follows from the two invariants.       *)
LEMMA ReplayFollows == RecorderInv /\ SentInv => ReplayIsTheRecording
<1> SUFFICES ASSUME RecorderInv, SentInv PROVE ReplayIsTheRecording
  OBVIOUS
<1>0. /\ DOMAIN cassette = 1..Len(cassette) /\ Len(cassette) \in Nat
      /\ asked \in ReplayOptions /\ asked.multiplier \in Int
      /\ repeat \in Nat \ {0}
      /\ sent \in Seq(Nat) /\ Len(sent) \in Nat /\ DOMAIN sent = 1..Len(sent)
      /\ Len(sent) <= repeat * Len(cassette)
      /\ \A k \in DOMAIN sent : sent[k] = cassette[(k - 1) \div repeat + 1].seq
  BY CassetteIs, RepeatIs, ReplayAssumption, LenProperties DEF SentInv, RecorderInv
<1>1. \A i, j \in DOMAIN cassette : i < j => cassette[i].seq < cassette[j].seq
  BY DEF RecorderInv, SeqInv
<1>2. server # "exited" => seq = Cardinality(Entry) + Cardinality(lost)
  BY DEF RecorderInv, CountInv
<1>3. ASSUME replayer = "over", replayExit = 0, NEW i \in DOMAIN cassette
      PROVE  LET n == Times(cassette[i].seq)
             IN  /\ cassette[i].cut # "part"
                 /\ n >= 1 /\ (n > 1 \/ asked.multiplier >= 10 =>
                                 10 * n - asked.multiplier \in -4..5)
  <2>1. Times(cassette[i].seq) = repeat
    BY <1>3, TimesIsRepeat
  <2>2. Parses(i)
    BY <1>3 DEF SentInv, Readable
  <2>3. repeat > 1 \/ asked.multiplier >= 10 => 10 * repeat - asked.multiplier \in -4..5
    BY <1>0, RepeatIs
  <2> QED
    BY <1>0, <2>1, <2>2, <2>3 DEF Parses
<1>4. ASSUME NEW k \in 2..Len(sent) PROVE sent[k - 1] <= sent[k]
  <2> DEFINE p == (k - 2) \div repeat
             q == (k - 1) \div repeat
  <2>1. /\ k \in Nat \ {0} /\ k <= repeat * Len(cassette) /\ k - 1 \in Nat \ {0}
        /\ k - 1 <= repeat * Len(cassette) /\ (k - 1) - 1 = k - 2
        /\ k \in DOMAIN sent /\ k - 1 \in DOMAIN sent
    <3>1. repeat * Len(cassette) \in Nat
      BY <1>0
    <3> QED
      BY <1>0, <1>4, <3>1
  <2>2. q + 1 \in DOMAIN cassette
    BY <1>0, <2>1, BlockOf
  <2>3. p + 1 \in DOMAIN cassette
    <3>1. ((k - 1) - 1) \div repeat + 1 \in 1..Len(cassette)
      BY <1>0, <2>1, BlockOf
    <3> QED
      BY <1>0, <2>1, <3>1
  <2>4. sent[k] = cassette[q + 1].seq /\ sent[k - 1] = cassette[p + 1].seq
    <3>1. sent[k - 1] = cassette[((k - 1) - 1) \div repeat + 1].seq
      BY <1>0, <2>1
    <3> QED
      BY <1>0, <2>1, <3>1
  <2>5. /\ p \in Int /\ repeat * p <= k - 2
        /\ q \in Int /\ k - 1 < repeat * q + repeat
    BY <1>0, <1>4, Division
  <2> HIDE DEF p, q
  <2>6. p <= q
    <3> SUFFICES ASSUME q < p PROVE FALSE
      BY <2>5
    <3>1. repeat * q + repeat <= repeat * p /\ repeat * p \in Int /\ repeat * q \in Int
      BY <1>0, <2>5, FactorGrows
    <3> QED
      <4> DEFINE u == repeat * q
                 v == repeat * p
      <4>1. u + repeat <= v /\ u \in Int /\ v \in Int /\ v <= k - 2 /\ k - 1 < u + repeat
        BY <2>5, <3>1
      <4> HIDE DEF u, v
      <4> QED
        BY <1>0, <1>4, <4>1
  <2> QED
    BY <2>2, <2>3, <2>4, <2>5, <2>6, NumbersRise DEF RecorderInv
<1>5. replayExit # 0 => sent = <<>>
  BY DEF SentInv
<1>6. ASSUME asked.class = "real", ~asked.allowReal, NEW k \in DOMAIN sent
      PROVE  Times(sent[k]) = 1
  <2>1. repeat = 1
    <3>1. sent # <<>>
      BY <1>0, <1>6
    <3>2. MultiplierAllowed(asked)
      BY <3>1 DEF SentInv
    <3> QED
      BY <1>0, <1>6, <3>2, RepeatIs DEF MultiplierAllowed
  <2>2. \A j \in DOMAIN sent : j \in DOMAIN cassette /\ sent[j] = cassette[j].seq
    <3> TAKE j \in DOMAIN sent
    <3>1. j \in Nat \ {0} /\ j <= Len(cassette) /\ (j - 1) \div 1 + 1 = j
      BY <1>0, <2>1
    <3> QED
      BY <1>0, <2>1, <3>1
  <2>3. ASSUME NEW j \in DOMAIN sent PROVE sent[j] = sent[k] <=> j = k
    BY <1>6, <2>2, NumbersRise DEF RecorderInv
  <2>4. {j \in DOMAIN sent : sent[j] = sent[k]} = {k}
    BY <1>6, <2>3
  <2> QED
    BY <2>4, FS_Singleton DEF Times
<1> QED
  BY <1>1, <1>2, <1>3, <1>4, <1>5, <1>6 DEF ReplayIsTheRecording

(* A replay sends the recording, in order and as often as was asked for,    *)
(* and to a real host not more than once unless that was allowed.           *)
THEOREM TheReplayIsTheRecording == CaptureSpec => []ReplayIsTheRecording
  BY CaptureInvariance, ReplayFollows, PTL

-----------------------------------------------------------------------------
(* The report of the trend store.  The loop over the records is a recursive *)
(* function: that there is one, and what it has built after n records, are  *)
(* shown by a least n where it fails.                                       *)

N == Len(records)

(* The store is a list of records, each of a document's scenario.           *)
RecordsInv == Listed(records) /\ \A n \in DOMAIN records : records[n].scenario \in ScenarioNames

(* The record at n passes the filter.                                       *)
KeptAt(filter, n) == Kept(records[n].scenario, filter)

(* What the loop starts with.                                               *)
Fresh == [rows |-> <<>>, unanchored |-> 0, prev |-> [s \in ScenarioNames |-> NoBase]]

(* One turn of the loop.                                                    *)
Turn(filter, acc, n) == IF KeptAt(filter, n) THEN ReportStep(acc, n) ELSE acc

(* b is what the loop has built after each of m records.                    *)
Loops(filter, b, m) == b = [n \in 0..m |-> IF n = 0 THEN Fresh ELSE Turn(filter, b[n - 1], n)]

(* The loop over m - 1 records has a next turn.                             *)
LEMMA LoopsOn ==
    ASSUME NEW filter, NEW m \in Nat \ {0}, NEW b, Loops(filter, b, m - 1)
    PROVE  \E c : Loops(filter, c, m)
<1> DEFINE c == [n \in 0..m |-> IF n = m THEN Turn(filter, b[m - 1], m) ELSE b[n]]
<1>1. ASSUME NEW n \in 0..m
      PROVE  c[n] = IF n = 0 THEN Fresh ELSE Turn(filter, c[n - 1], n)
  <2>1. CASE n = m
    <3>1. m - 1 \in 0..m /\ m - 1 # m /\ n # 0
      BY <2>1
    <3> QED
      BY <2>1, <3>1
  <2>2. CASE n # m
    <3>1. n \in 0..(m - 1) /\ c[n] = b[n]
      BY <2>2
    <3>2. b[n] = IF n = 0 THEN Fresh ELSE Turn(filter, b[n - 1], n)
      <4> HIDE DEF c
      <4> QED
        BY <3>1 DEF Loops
    <3>3. CASE n # 0
      <4>1. n - 1 \in 0..m /\ n - 1 # m
        BY <3>1, <3>3
      <4>2. c[n - 1] = b[n - 1]
        BY <4>1
      <4> QED
        BY <3>1, <3>2, <4>2
    <3> QED
      BY <3>1, <3>2, <3>3
  <2> QED
    BY <2>1, <2>2
<1>2. c = [n \in 0..m |-> c[n]]
  OBVIOUS
<1> HIDE DEF c
<1>3. Loops(filter, c, m)
  BY <1>1, <1>2 DEF Loops
<1> QED
  BY <1>3

(* The loop over the records ends, however many there are.                  *)
LEMMA LoopExists ==
    ASSUME NEW filter, NEW m \in Nat
    PROVE  \E b : Loops(filter, b, m)
<1> DEFINE T == {n \in Nat : ~\E b : Loops(filter, b, n)}
<1>1. SUFFICES ASSUME T # {} PROVE FALSE
  OBVIOUS
<1>2. PICK n \in T : \A i \in T : n <= i
  <2>1. T \in SUBSET Nat
    OBVIOUS
  <2> HIDE DEF T
  <2> QED
    BY <1>1, <2>1, LeastNat
<1>3. CASE n = 0
  <2> DEFINE b == [i \in 0..0 |-> Fresh]
  <2>1. b = [i \in 0..0 |-> IF i = 0 THEN Fresh ELSE Turn(filter, b[i - 1], i)]
    OBVIOUS
  <2> HIDE DEF b
  <2>2. Loops(filter, b, 0)
    BY <2>1 DEF Loops
  <2> QED
    BY <1>2, <1>3, <2>2
<1>4. CASE n # 0
  <2>1. n - 1 \in Nat /\ n - 1 \notin T /\ n \in Nat \ {0}
    BY <1>2, <1>4
  <2>2. PICK b : Loops(filter, b, n - 1)
    BY <2>1
  <2> QED
    BY <1>2, <2>1, <2>2, LoopsOn
<1> QED
  BY <1>3, <1>4

(* What the loop builds is what its turns build, one after the other.       *)
LEMMA BuiltIs ==
    ASSUME NEW filter, N \in Nat
    PROVE  /\ Built(filter)[0] = Fresh
           /\ \A n \in 1..N : Built(filter)[n] = Turn(filter, Built(filter)[n - 1], n)
<1> DEFINE B == Built(filter)
<1>1. B = CHOOSE b : b = [n \in 0..Len(records) |->
                            IF n = 0
                            THEN [rows |-> <<>>, unanchored |-> 0, prev |-> [s \in ScenarioNames |-> NoBase]]
                            ELSE IF Kept(records[n].scenario, filter) THEN ReportStep(b[n - 1], n)
                            ELSE b[n - 1]]
  BY DEF Built
<1>2. B = CHOOSE b : Loops(filter, b, N)
  BY <1>1, Zenon DEF Loops, Turn, KeptAt, Fresh, N
<1>3. Loops(filter, B, N)
  BY <1>2, LoopExists
<1> HIDE DEF B
<1>4. B[0] = Fresh /\ \A n \in 1..N : B[n] = Turn(filter, B[n - 1], n)
  BY <1>3 DEF Loops
<1> QED
  BY <1>4 DEF B

(* The joined records of a scenario among the first n, and the last of them.*)
JoinedOf(s, n) == {j \in 1..n : Joined(j) /\ records[j].scenario = s}

LastOf(E) == IF E = {} THEN NoBase ELSE CHOOSE j \in E : \A i \in E : i <= j

Latest(s, n) == LastOf(JoinedOf(s, n))

(* The baseline of the record at n.                                         *)
Base(n) == IF Joined(n) THEN Latest(records[n].scenario, n - 1) ELSE NoBase

(* The nearest of the joined records is one of them, and none is later.     *)
LEMMA LatestIs ==
    ASSUME NEW s, NEW n \in Nat, JoinedOf(s, n) # {}
    PROVE  Latest(s, n) \in JoinedOf(s, n) /\ \A i \in JoinedOf(s, n) : i <= Latest(s, n)
<1>1. JoinedOf(s, n) \in SUBSET Int /\ JoinedOf(s, n) \in SUBSET (1..n) /\ IsFiniteSet(1..n)
  BY FS_Interval DEF JoinedOf
<1>2. IsFiniteSet(JoinedOf(s, n))
  BY <1>1, FS_Subset
<1>3. \E j \in JoinedOf(s, n) : \A i \in JoinedOf(s, n) : i <= j
  BY <1>1, <1>2, Greatest
<1> QED
  BY <1>3, Zenon DEF Latest, LastOf

(* A record becomes the nearest of its own scenario, if it is joined.       *)
LEMMA LatestGrows ==
    ASSUME NEW s, NEW n \in Nat \ {0}
    PROVE  /\ Latest(s, n) = IF Joined(n) /\ records[n].scenario = s THEN n ELSE Latest(s, n - 1)
           /\ Latest(s, n) \in Nat
<1>1. CASE Joined(n) /\ records[n].scenario = s
  <2>1. n \in JoinedOf(s, n) /\ \A i \in JoinedOf(s, n) : i <= n
    BY <1>1 DEF JoinedOf
  <2>2. Latest(s, n) \in JoinedOf(s, n) /\ n <= Latest(s, n)
    BY <2>1, LatestIs
  <2> QED
    BY <1>1, <2>1, <2>2 DEF JoinedOf
<1>2. CASE ~(Joined(n) /\ records[n].scenario = s)
  <2>1. JoinedOf(s, n) = JoinedOf(s, n - 1)
    BY <1>2 DEF JoinedOf
  <2>2. Latest(s, n) = Latest(s, n - 1)
    BY <2>1 DEF Latest
  <2>3. CASE JoinedOf(s, n) = {}
    BY <1>2, <2>2, <2>3 DEF Latest, LastOf, NoBase
  <2>4. CASE JoinedOf(s, n) # {}
    <3>1. Latest(s, n) \in JoinedOf(s, n)
      BY <2>4, LatestIs
    <3> QED
      BY <1>2, <2>2, <3>1 DEF JoinedOf
  <2> QED
    BY <2>3, <2>4
<1> QED
  BY <1>1, <1>2

(* Before the first record there is no baseline.                            *)
LEMMA NoneBefore == ASSUME NEW s PROVE Latest(s, 0) = NoBase
BY DEF Latest, LastOf, JoinedOf

(* What rows and what the loop builds are made of.                          *)
Rows == [rec : Nat, base : Nat]

Accs == [rows : Seq(Rows), unanchored : Nat, prev : [ScenarioNames -> Nat]]

(* The kept records with and without a commit.                              *)
Shown(filter, n) == {i \in 1..n : KeptAt(filter, i) /\ Anchored(records[i])}

Excluded(filter, n) == {i \in 1..n : KeptAt(filter, i) /\ ~Anchored(records[i])}

(* One row for each of the first n records that is shown, in their order,   *)
(* each with its baseline.                                                  *)
RowsOK(filter, n, q) ==
    /\ \A j, k \in DOMAIN q : j < k => q[j].rec < q[k].rec
    /\ \A k \in DOMAIN q : q[k].rec \in Shown(filter, n) /\ q[k].base = Base(q[k].rec)
    /\ \A i \in Shown(filter, n) : \E k \in DOMAIN q : q[k].rec = i

(* What the loop has built after n records.                                 *)
LoopInv(filter, n, acc) ==
    /\ acc \in Accs
    /\ RowsOK(filter, n, acc.rows)
    /\ acc.unanchored = Cardinality(Excluded(filter, n))
    /\ \A s \in ScenarioNames : Kept(s, filter) => acc.prev[s] = Latest(s, n)

(* Each record that is kept is either shown or counted as excluded.         *)
LEMMA ExcludedGrows ==
    ASSUME NEW filter, NEW n \in Nat \ {0}
    PROVE  /\ Cardinality(Excluded(filter, n)) =
                Cardinality(Excluded(filter, n - 1))
                + (IF KeptAt(filter, n) /\ ~Anchored(records[n]) THEN 1 ELSE 0)
           /\ Shown(filter, n) = Shown(filter, n - 1)
                \cup (IF KeptAt(filter, n) /\ Anchored(records[n]) THEN {n} ELSE {})
<1>1. Excluded(filter, n) = Excluded(filter, n - 1)
        \cup (IF KeptAt(filter, n) /\ ~Anchored(records[n]) THEN {n} ELSE {})
  BY DEF Excluded
<1>2. Excluded(filter, n - 1) \in SUBSET (1..(n - 1)) /\ IsFiniteSet(1..(n - 1)) /\ n \notin Excluded(filter, n - 1)
  <2>1. 1 \in Int /\ n - 1 \in Int
    OBVIOUS
  <2> QED
    BY <2>1, FS_Interval DEF Excluded
<1>3. IsFiniteSet(Excluded(filter, n - 1)) /\ Cardinality(Excluded(filter, n - 1)) \in Nat
  BY <1>2, FS_Subset, FS_CardinalityType
<1>4. Cardinality(Excluded(filter, n - 1) \cup {n}) = Cardinality(Excluded(filter, n - 1)) + 1
  BY <1>2, <1>3, FS_AddElement
<1>5. CASE KeptAt(filter, n) /\ ~Anchored(records[n])
  <2>1. Excluded(filter, n) = Excluded(filter, n - 1) \cup {n}
    BY <1>1, <1>5
  <2> QED
    BY <1>4, <1>5, <2>1 DEF Shown
<1>6. CASE ~(KeptAt(filter, n) /\ ~Anchored(records[n]))
  <2>1. Excluded(filter, n) = Excluded(filter, n - 1)
    BY <1>1, <1>6
  <2>2. Cardinality(Excluded(filter, n)) = Cardinality(Excluded(filter, n - 1)) + 0
    BY <1>3, <2>1
  <2>3. Shown(filter, n) = Shown(filter, n - 1)
                \cup (IF KeptAt(filter, n) /\ Anchored(records[n]) THEN {n} ELSE {})
    BY DEF Shown
  <2> QED
    BY <1>6, <2>2, <2>3
<1> QED
  BY <1>5, <1>6

(* The loop begins with no rows, no count and no baselines.                 *)
LEMMA LoopBegins == ASSUME NEW filter PROVE LoopInv(filter, 0, Fresh)
<1>1. Fresh \in Accs
  BY DEF Fresh, Accs, NoBase
<1>2. DOMAIN Fresh.rows = {} /\ Fresh.unanchored = 0 /\ \A s \in ScenarioNames : Fresh.prev[s] = NoBase
  BY DEF Fresh
<1>3. Shown(filter, 0) = {} /\ Excluded(filter, 0) = {}
  BY DEF Shown, Excluded
<1>4. Cardinality({}) = 0
  BY FS_EmptySet
<1> QED
  BY <1>1, <1>2, <1>3, <1>4, NoneBefore DEF LoopInv, RowsOK

(* A record that gets a row is the last of them.                            *)
LEMMA RowAdded ==
    ASSUME NEW filter, NEW n \in Nat \ {0}, NEW acc, LoopInv(filter, n - 1, acc),
           KeptAt(filter, n), Anchored(records[n]),
           NEW b \in Nat, b = Base(n), NEW q, q = Append(acc.rows, Row(n, b))
    PROVE  q \in Seq(Rows) /\ RowsOK(filter, n, q)
<1> DEFINE rows == acc.rows
           m == Len(rows) + 1
<1>1. rows \in Seq(Rows) /\ Row(n, b) \in Rows /\ Row(n, b).rec = n /\ Row(n, b).base = b
  BY DEF LoopInv, Accs, Rows, Row
<1>2. q \in Seq(Rows) /\ Len(q) = m /\ q[m] = Row(n, b) /\ \A k \in 1..Len(rows) : q[k] = rows[k]
  BY <1>1, AppendProperties
<1>3. DOMAIN q = 1..m /\ DOMAIN rows = 1..Len(rows) /\ Len(rows) \in Nat
  BY <1>1, <1>2, LenProperties
<1>4. /\ \A j, k \in 1..Len(rows) : j < k => rows[j].rec < rows[k].rec
      /\ \A k \in 1..Len(rows) : rows[k].rec \in Shown(filter, n - 1) /\ rows[k].base = Base(rows[k].rec)
      /\ \A i \in Shown(filter, n - 1) : \E k \in 1..Len(rows) : rows[k].rec = i
  BY <1>3 DEF LoopInv, RowsOK
<1>5. Shown(filter, n) = Shown(filter, n - 1) \cup {n} /\ \A i \in Shown(filter, n - 1) : i \in Nat /\ i < n
  BY ExcludedGrows DEF Shown
<1> HIDE DEF rows
<1>6. \A k \in 1..m : k # m => k \in 1..Len(rows) /\ q[k] = rows[k]
  BY <1>2, <1>3
<1>7. q[m].rec = n /\ q[m].base = Base(n) /\ m \in 1..m
  BY <1>1, <1>2, <1>3
<1>8. ASSUME NEW j \in 1..m, NEW k \in 1..m, j < k PROVE q[j].rec < q[k].rec
  <2>1. j # m
    BY <1>3, <1>8
  <2>2. CASE k = m
    BY <1>4, <1>5, <1>6, <1>7, <2>1, <2>2
  <2>3. CASE k # m
    BY <1>4, <1>6, <1>8, <2>1, <2>3
  <2> QED
    BY <2>2, <2>3
<1>9. ASSUME NEW k \in 1..m PROVE q[k].rec \in Shown(filter, n) /\ q[k].base = Base(q[k].rec)
  BY <1>4, <1>5, <1>6, <1>7
<1>10. ASSUME NEW i \in Shown(filter, n) PROVE \E k \in 1..m : q[k].rec = i
  <2>1. CASE i = n
    BY <1>7, <2>1
  <2>2. CASE i \in Shown(filter, n - 1)
    <3>1. PICK k \in 1..Len(rows) : rows[k].rec = i
      BY <1>4, <2>2
    <3> QED
      BY <1>2, <1>3, <3>1
  <2> QED
    BY <1>5, <2>1, <2>2
<1> QED
  BY <1>2, <1>3, <1>8, <1>9, <1>10 DEF RowsOK

(* A turn of the loop keeps what it has built in order.                     *)
LEMMA TurnKeeps ==
    ASSUME RecordsInv, NEW filter, NEW n \in 1..N, NEW acc, LoopInv(filter, n - 1, acc)
    PROVE  LoopInv(filter, n, Turn(filter, acc, n))
<1> DEFINE s == records[n].scenario
<1>1. N \in Nat /\ n \in Nat \ {0} /\ n - 1 \in Nat /\ s \in ScenarioNames
  BY ListIs DEF RecordsInv, N
<1>2. acc \in Accs /\ acc.unanchored = Cardinality(Excluded(filter, n - 1))
      /\ \A t \in ScenarioNames : Kept(t, filter) => acc.prev[t] = Latest(t, n - 1)
  BY DEF LoopInv
<1>3. CASE ~KeptAt(filter, n)
  <2>1. Turn(filter, acc, n) = acc
    BY <1>3 DEF Turn
  <2>2. Shown(filter, n) = Shown(filter, n - 1) /\ Cardinality(Excluded(filter, n)) = acc.unanchored
    <3>1. acc.unanchored \in Nat
      BY <1>2 DEF Accs
    <3>2. Cardinality(Excluded(filter, n)) = acc.unanchored + 0
      BY <1>1, <1>2, <1>3, ExcludedGrows, Zenon
    <3>3. Shown(filter, n) = Shown(filter, n - 1) \cup {}
      BY <1>1, <1>3, ExcludedGrows, Zenon
    <3> QED
      BY <3>1, <3>2, <3>3
  <2>3. \A t \in ScenarioNames : Kept(t, filter) => Latest(t, n) = Latest(t, n - 1)
    BY <1>1, <1>3, LatestGrows DEF KeptAt
  <2> QED
    BY <1>2, <2>1, <2>2, <2>3 DEF LoopInv, RowsOK
<1>4. CASE KeptAt(filter, n) /\ ~Anchored(records[n])
  <2> DEFINE new == [acc EXCEPT !.unanchored = @ + 1]
  <2>1. Turn(filter, acc, n) = new
    BY <1>4 DEF Turn, ReportStep
  <2>2. new \in Accs /\ new.rows = acc.rows /\ new.prev = acc.prev /\ new.unanchored = acc.unanchored + 1
    BY <1>2 DEF Accs
  <2>3. Shown(filter, n) = Shown(filter, n - 1) /\ Cardinality(Excluded(filter, n)) = acc.unanchored + 1
    BY <1>1, <1>2, <1>4, ExcludedGrows
  <2>4. \A t \in ScenarioNames : Latest(t, n) = Latest(t, n - 1)
    BY <1>1, <1>4, LatestGrows DEF Joined
  <2> HIDE DEF new
  <2> QED
    BY <1>2, <2>1, <2>2, <2>3, <2>4 DEF LoopInv, RowsOK
<1>5. CASE KeptAt(filter, n) /\ Anchored(records[n]) /\ ~Comparable(records[n])
  <2> DEFINE q == Append(acc.rows, Row(n, NoBase))
             new == [acc EXCEPT !.rows = Append(@, Row(n, NoBase))]
  <2>1. Turn(filter, acc, n) = new
    BY <1>5 DEF Turn, ReportStep
  <2>2. q \in Seq(Rows) /\ RowsOK(filter, n, q)
    <3>1. NoBase \in Nat /\ NoBase = Base(n)
      BY <1>5 DEF NoBase, Base, Joined
    <3>2. q = Append(acc.rows, Row(n, NoBase))
      OBVIOUS
    <3> HIDE DEF q
    <3> QED
      BY <1>1, <1>5, <3>1, <3>2, RowAdded
  <2>3. Cardinality(Excluded(filter, n)) = acc.unanchored
    <3>1. acc.unanchored \in Nat
      BY <1>2 DEF Accs
    <3> QED
      BY <1>1, <1>2, <1>5, <3>1, ExcludedGrows
  <2>4. \A t \in ScenarioNames : Latest(t, n) = Latest(t, n - 1)
    BY <1>1, <1>5, LatestGrows DEF Joined
  <2>5. new.rows = q /\ new.prev = acc.prev /\ new.unanchored = acc.unanchored
        /\ new = [rows |-> q, unanchored |-> acc.unanchored, prev |-> acc.prev]
    <3>1. acc = [rows |-> acc.rows, unanchored |-> acc.unanchored, prev |-> acc.prev]
      BY <1>2 DEF Accs
    <3>2. new = [acc EXCEPT !.rows = q]
      BY <3>1
    <3> HIDE DEF new, q
    <3> QED
      BY <3>1, <3>2
  <2>6. new \in Accs
    <3> HIDE DEF q, new
    <3> QED
      BY <1>2, <2>2, <2>5 DEF Accs
  <2> HIDE DEF new, q
  <2> QED
    BY <1>2, <2>1, <2>2, <2>3, <2>4, <2>5, <2>6 DEF LoopInv
<1>6. CASE KeptAt(filter, n) /\ Joined(n)
  <2> DEFINE q == Append(acc.rows, Row(n, acc.prev[s]))
             p == [acc.prev EXCEPT ![s] = n]
             new == [acc EXCEPT !.rows = Append(@, Row(n, acc.prev[s])), !.prev[s] = n]
  <2>1. Turn(filter, acc, n) = new
    BY <1>6 DEF Turn, ReportStep, Joined
  <2>2. q \in Seq(Rows) /\ RowsOK(filter, n, q)
    <3>1. acc.prev[s] \in Nat /\ acc.prev[s] = Base(n)
      BY <1>1, <1>2, <1>6 DEF Accs, Base, KeptAt
    <3>2. q = Append(acc.rows, Row(n, acc.prev[s])) /\ Anchored(records[n])
      BY <1>6 DEF Joined
    <3> HIDE DEF q, s
    <3> QED
      BY <1>1, <1>6, <3>1, <3>2, RowAdded
  <2>3. Cardinality(Excluded(filter, n)) = acc.unanchored
    <3>1. acc.unanchored \in Nat
      BY <1>2 DEF Accs
    <3> QED
      BY <1>1, <1>2, <1>6, <3>1, ExcludedGrows DEF Joined
  <2>4. \A t \in ScenarioNames : Kept(t, filter) => p[t] = Latest(t, n)
    <3>1. acc.prev \in [ScenarioNames -> Nat]
      BY <1>2 DEF Accs
    <3> QED
      BY <1>1, <1>2, <1>6, <3>1, LatestGrows
  <2>5. new.rows = q /\ new.prev = p /\ new.unanchored = acc.unanchored
        /\ new = [rows |-> q, unanchored |-> acc.unanchored, prev |-> p]
    <3>1. acc = [rows |-> acc.rows, unanchored |-> acc.unanchored, prev |-> acc.prev]
      BY <1>2 DEF Accs
    <3>2. new = [acc EXCEPT !.rows = q, !.prev = p]
      BY <3>1
    <3> HIDE DEF new, q, p
    <3> QED
      BY <3>1, <3>2
  <2>6. new \in Accs
    <3>1. p \in [ScenarioNames -> Nat]
      BY <1>1, <1>2 DEF Accs
    <3> HIDE DEF q, p, new
    <3> QED
      BY <1>2, <2>2, <2>5, <3>1 DEF Accs
  <2> HIDE DEF new, q, p
  <2> QED
    BY <1>2, <2>1, <2>2, <2>3, <2>4, <2>5, <2>6 DEF LoopInv
<1> QED
  BY <1>3, <1>4, <1>5, <1>6 DEF Joined

(* What the loop has built when it is over.                                 *)
LEMMA LoopKeeps ==
    ASSUME RecordsInv, NEW filter
    PROVE  LoopInv(filter, N, Built(filter)[N]) /\ N \in Nat
<1> DEFINE B == Built(filter)
           T == {n \in Nat : n <= N /\ ~LoopInv(filter, n, B[n])}
<1>1. N \in Nat
  BY ListIs DEF RecordsInv, N
<1>2. B[0] = Fresh /\ \A n \in 1..N : B[n] = Turn(filter, B[n - 1], n)
  BY <1>1, BuiltIs
<1> HIDE DEF B
<1>3. ASSUME T # {} PROVE FALSE
  <2>1. PICK n \in T : \A i \in T : n <= i
    <3>1. T \in SUBSET Nat
      OBVIOUS
    <3> HIDE DEF T
    <3> QED
      BY <1>3, <3>1, LeastNat
  <2>2. n # 0
    BY <1>2, <2>1, LoopBegins
  <2>3. n \in 1..N /\ n - 1 \in Nat /\ n - 1 <= N /\ n - 1 \notin T
    BY <1>1, <2>1, <2>2
  <2>4. LoopInv(filter, n - 1, B[n - 1])
    BY <2>3
  <2>5. LoopInv(filter, n, B[n])
    BY <1>2, <2>3, <2>4, TurnKeeps
  <2> QED
    BY <2>1, <2>5
<1>4. LoopInv(filter, N, B[N])
  BY <1>1, <1>3
<1> QED
  BY <1>1, <1>4 DEF B

(* Both kinds of records can be counted.                                    *)
LEMMA ShownIsFinite ==
    ASSUME NEW filter, NEW n \in Nat
    PROVE  /\ IsFiniteSet(Shown(filter, n)) /\ Cardinality(Shown(filter, n)) \in Nat
           /\ IsFiniteSet(Excluded(filter, n)) /\ Cardinality(Excluded(filter, n)) \in Nat
<1>1. Shown(filter, n) \in SUBSET (1..n) /\ Excluded(filter, n) \in SUBSET (1..n) /\ IsFiniteSet(1..n)
  BY FS_Interval DEF Shown, Excluded
<1> QED
  BY <1>1, FS_Subset, FS_CardinalityType

(* There are as many rows as records shown.                                 *)
LEMMA RowsCount ==
    ASSUME NEW filter, NEW n \in Nat, NEW q \in Seq(Rows), RowsOK(filter, n, q)
    PROVE  Len(q) = Cardinality(Shown(filter, n))
<1> DEFINE S == Shown(filter, n)
           f == [k \in 1..Len(q) |-> q[k].rec]
<1>1. Len(q) \in Nat /\ DOMAIN q = 1..Len(q)
  BY LenProperties
<1>2. /\ \A j, k \in 1..Len(q) : j < k => q[j].rec < q[k].rec
      /\ \A k \in 1..Len(q) : q[k].rec \in S
      /\ \A i \in S : \E k \in 1..Len(q) : q[k].rec = i
  BY <1>1 DEF RowsOK
<1>3. \A i \in S : i \in Int
  BY DEF Shown
<1> HIDE DEF S
<1>4. f \in [1..Len(q) -> S]
  BY <1>2
<1>5. ASSUME NEW j \in 1..Len(q), NEW k \in 1..Len(q), f[j] = f[k] PROVE j = k
  <2>1. ~(j < k) /\ ~(k < j)
    BY <1>2, <1>3, <1>5
  <2> QED
    BY <1>1, <2>1
<1>6. \A i \in S : \E k \in 1..Len(q) : f[k] = i
  BY <1>2
<1> HIDE DEF f
<1>7. f \in Bijection(1..Len(q), S)
  BY <1>4, <1>5, <1>6 DEF Bijection, Injection, Surjection, IsInjective
<1>8. ExistsBijection(1..Len(q), S)
  BY <1>7 DEF ExistsBijection
<1>9. IsFiniteSet(1..Len(q)) /\ Cardinality(1..Len(q)) = Len(q)
  <2>1. 1 \in Int /\ Len(q) \in Int /\ Len(q) \in Nat
    BY <1>1
  <2>2. IsFiniteSet(1..Len(q)) /\ Cardinality(1..Len(q)) = IF 1 > Len(q) THEN 0 ELSE Len(q) - 1 + 1
    BY <2>1, FS_Interval
  <2> QED
    BY <2>1, <2>2
<1> QED
  BY <1>8, <1>9, FS_Bijection DEF S

(* The last rows of what is shown.                                          *)
RowsEnd(filter, q) ==
    /\ q \in Seq(Rows)
    /\ Len(q) = IF filter.last > 0 /\ Cardinality(Shown(filter, N)) > filter.last THEN filter.last
                ELSE Cardinality(Shown(filter, N))
    /\ \A j, k \in DOMAIN q : j < k => q[j].rec < q[k].rec
    /\ \A k \in DOMAIN q : q[k].rec \in Shown(filter, N) /\ q[k].base = Base(q[k].rec)
    /\ \A i \in Shown(filter, N) : \/ \E k \in DOMAIN q : q[k].rec = i
                                   \/ /\ \A k \in DOMAIN q : i < q[k].rec
                                      /\ filter.last > 0

(* Report cuts the oldest rows and nothing else.                            *)
LEMMA ReportIs ==
    ASSUME RecordsInv, NEW filter, filter.last \in Int
    PROVE  /\ RowsEnd(filter, Report(filter).rows)
           /\ Report(filter).unanchored = Cardinality(Excluded(filter, N))
<1> DEFINE all == Built(filter)[N]
           c == Len(all.rows)
           d == IF filter.last > 0 /\ c > filter.last THEN c - filter.last ELSE 0
           q == SubSeq(all.rows, d + 1, c)
<1>1. N \in Nat /\ all \in Accs /\ RowsOK(filter, N, all.rows)
      /\ all.unanchored = Cardinality(Excluded(filter, N))
  BY LoopKeeps DEF LoopInv
<1>2. Report(filter) = [all EXCEPT !.rows = q]
  BY DEF Report, N
<1>3. Report(filter).rows = q /\ Report(filter).unanchored = all.unanchored
  <2> HIDE DEF all, q
  <2> QED
    BY <1>1, <1>2 DEF Accs
<1>4. all.rows \in Seq(Rows)
  BY <1>1 DEF Accs
<1> HIDE DEF all
<1>5. c \in Nat /\ DOMAIN all.rows = 1..c /\ c = Cardinality(Shown(filter, N)) /\ all.rows \in [1..c -> Rows]
  BY <1>1, <1>4, LenProperties, RowsCount
<1>6. d \in 0..c /\ c - d = (IF filter.last > 0 /\ c > filter.last THEN filter.last ELSE c)
      /\ (d > 0 => filter.last > 0)
  BY <1>5
<1> HIDE DEF c, d
<1>7. q \in Seq(Rows) /\ Len(q) = c - d /\ \A k \in 1..(c - d) : q[k] = all.rows[k + d]
  <2>1. \A i \in (d + 1)..c : all.rows[i] \in Rows
    BY <1>5, <1>6
  <2>2. d + 1 \in Int /\ c \in Int
    BY <1>5, <1>6
  <2>3. /\ q \in Seq(Rows)
        /\ Len(q) = IF d + 1 <= c THEN c - (d + 1) + 1 ELSE 0
        /\ \A i \in 1..(c - (d + 1) + 1) : q[i] = all.rows[d + 1 + i - 1]
    BY <2>1, <2>2, SubSeqProperties
  <2> HIDE DEF q
  <2> QED
    BY <1>5, <1>6, <2>3
<1> HIDE DEF q
<1>8. DOMAIN q = 1..(c - d)
  BY <1>7, LenProperties
<1>9. /\ \A j, k \in 1..c : j < k => all.rows[j].rec < all.rows[k].rec
      /\ \A k \in 1..c : all.rows[k].rec \in Shown(filter, N) /\ all.rows[k].base = Base(all.rows[k].rec)
      /\ \A i \in Shown(filter, N) : \E k \in 1..c : all.rows[k].rec = i
  BY <1>1, <1>5 DEF RowsOK
<1>10. \A k \in 1..(c - d) : k + d \in 1..c /\ q[k] = all.rows[k + d]
  BY <1>5, <1>6, <1>7
<1>11. \A j, k \in DOMAIN q : j < k => q[j].rec < q[k].rec
  <2> SUFFICES ASSUME NEW j \in 1..(c - d), NEW k \in 1..(c - d), j < k PROVE q[j].rec < q[k].rec
    BY <1>8
  <2>1. j + d < k + d
    BY <1>5, <1>6
  <2> QED
    BY <1>9, <1>10, <2>1
<1>12. \A k \in DOMAIN q : q[k].rec \in Shown(filter, N) /\ q[k].base = Base(q[k].rec)
  BY <1>8, <1>9, <1>10
<1>13. ASSUME NEW i \in Shown(filter, N)
       PROVE  \/ \E k \in DOMAIN q : q[k].rec = i
              \/ (\A k \in DOMAIN q : i < q[k].rec) /\ filter.last > 0
  <2>1. PICK k \in 1..c : all.rows[k].rec = i
    BY <1>9
  <2>2. CASE k > d
    <3>1. k - d \in 1..(c - d) /\ (k - d) + d = k
      BY <1>5, <1>6, <2>2
    <3> QED
      BY <1>8, <1>10, <2>1, <3>1
  <2>3. CASE ~(k > d)
    <3>1. d > 0 /\ \A j \in 1..(c - d) : k < j + d
      BY <1>5, <1>6, <2>3
    <3>2. \A j \in 1..(c - d) : i < q[j].rec
      BY <1>9, <1>10, <2>1, <3>1
    <3> QED
      BY <1>6, <1>8, <3>1, <3>2
  <2> QED
    BY <2>2, <2>3
<1>14. Len(q) = IF filter.last > 0 /\ Cardinality(Shown(filter, N)) > filter.last THEN filter.last
                ELSE Cardinality(Shown(filter, N))
  BY <1>5, <1>6, <1>7
<1> QED
  BY <1>1, <1>3, <1>7, <1>11, <1>12, <1>13, <1>14 DEF RowsEnd

(* Without a filter every scenario is kept, and every row.                  *)
LEMMA NoFilterKeepsAll == NoFilter.last = 0 /\ \A s : Kept(s, NoFilter)
<1>1. NoFilter.last = 0
  BY DEF NoFilter
<1>2. \A s : Kept(s, NoFilter)
  BY Zenon DEF Kept, NoFilter
<1> QED
  BY <1>1, <1>2

(* Without a filter every record with a commit has its row.                 *)
LEMMA WholeSeries ==
    ASSUME RecordsInv
    PROVE  LET q == Report(NoFilter).rows IN
           /\ q \in Seq(Rows) /\ N \in Nat /\ DOMAIN q = 1..Len(q) /\ Len(q) \in Nat
           /\ \A j, k \in DOMAIN q : j < k => q[j].rec < q[k].rec
           /\ \A k \in DOMAIN q : /\ q[k].rec \in 1..N /\ Anchored(records[q[k].rec])
                                  /\ q[k].base = Base(q[k].rec)
           /\ \A i \in 1..N : Anchored(records[i]) => \E k \in DOMAIN q : q[k].rec = i
<1>1. NoFilter.last = 0 /\ \A s : Kept(s, NoFilter)
  BY NoFilterKeepsAll
<1>2. RowsEnd(NoFilter, Report(NoFilter).rows) /\ N \in Nat
  BY <1>1, ReportIs, LoopKeeps
<1>3. Shown(NoFilter, N) = {i \in 1..N : Anchored(records[i])}
  BY <1>1 DEF Shown, KeptAt
<1> DEFINE q == Report(NoFilter).rows
<1> HIDE DEF q
<1>4. RowsEnd(NoFilter, q)
  BY <1>2 DEF q
<1>5. q \in Seq(Rows) /\ DOMAIN q = 1..Len(q) /\ Len(q) \in Nat
  BY <1>4, LenProperties DEF RowsEnd
<1>6. /\ \A j, k \in DOMAIN q : j < k => q[j].rec < q[k].rec
      /\ \A k \in DOMAIN q : /\ q[k].rec \in 1..N /\ Anchored(records[q[k].rec])
                             /\ q[k].base = Base(q[k].rec)
      /\ \A i \in 1..N : Anchored(records[i]) => \E k \in DOMAIN q : q[k].rec = i
  BY <1>1, <1>3, <1>4 DEF RowsEnd
<1> QED
  BY <1>2, <1>5, <1>6 DEF q

(* The baseline of a row is its scenario's nearest measured run.            *)
LEMMA NearestKept == ASSUME RecordsInv PROVE BaselineIsNearest
<1> DEFINE q == Report(NoFilter).rows
<1>1. \A k \in DOMAIN q : q[k].base = Base(q[k].rec)
  BY WholeSeries
<1> HIDE DEF q
<1> SUFFICES ASSUME NEW k \in DOMAIN q
             PROVE  LET earlier == {j \in 1..(q[k].rec - 1) :
                              Joined(j) /\ records[j].scenario = records[q[k].rec].scenario}
                    IN  q[k].base = IF Joined(q[k].rec) /\ earlier # {}
                                    THEN CHOOSE j \in earlier : \A i \in earlier : i <= j
                                    ELSE NoBase
  BY Zenon DEF q, BaselineIsNearest
<1> QED
  BY <1>1, Zenon DEF Base, Latest, LastOf, JoinedOf

(* The findings of a row, those it came with, the rows of its scenario up to*)
(* it, and whether a finding came and stayed.                               *)
FoundAt(q, k) == records[q[k].rec].findings

Came(q, k) == IF q[k].base = NoBase THEN FoundAt(q, k) ELSE NewFindings(q[k])

Mine(q, n) == {k \in 1..n : /\ Joined(q[k].rec)
                            /\ records[q[k].rec].scenario = records[q[n].rec].scenario}

Stays(q, n, f) == \E m \in Mine(q, n) : /\ f \in Came(q, m)
                                        /\ \A k \in Mine(q, n) : k > m => f \notin GoneFindings(q[k])

(* A row without a baseline is the first measured run of its scenario.      *)
LEMMA FirstOfItsScenario ==
    ASSUME RecordsInv, NEW q, q = Report(NoFilter).rows, NEW n \in DOMAIN q, Joined(q[n].rec),
           q[n].base = NoBase
    PROVE  Mine(q, n) = {n}
<1>1. /\ DOMAIN q = 1..Len(q) /\ Len(q) \in Nat
      /\ \A j, k \in DOMAIN q : j < k => q[j].rec < q[k].rec
      /\ \A k \in DOMAIN q : q[k].rec \in 1..N /\ q[k].base = Base(q[k].rec)
      /\ N \in Nat
  BY WholeSeries
<1> DEFINE r == q[n].rec
           s == records[r].scenario
<1>2. JoinedOf(s, r - 1) = {}
  <2>1. q[n].base = Latest(s, r - 1) /\ r - 1 \in Nat
    BY <1>1 DEF Base
  <2>2. CASE JoinedOf(s, r - 1) # {}
    <3>1. Latest(s, r - 1) \in JoinedOf(s, r - 1)
      BY <2>1, <2>2, LatestIs
    <3>2. Latest(s, r - 1) # NoBase
      BY <3>1 DEF JoinedOf, NoBase
    <3> QED
      BY <2>1, <3>2
  <2> QED
    BY <2>2
<1>3. n \in Mine(q, n)
  BY <1>1 DEF Mine
<1>4. ASSUME NEW k \in Mine(q, n), k # n PROVE FALSE
  <2>1. k \in DOMAIN q /\ k < n /\ Joined(q[k].rec) /\ records[q[k].rec].scenario = s
    BY <1>1, <1>4 DEF Mine
  <2>2. q[k].rec \in 1..(r - 1)
    BY <1>1, <2>1
  <2>3. q[k].rec \in JoinedOf(s, r - 1)
    BY <2>1, <2>2 DEF JoinedOf
  <2> QED
    BY <1>2, <2>3
<1> QED
  BY <1>3, <1>4

(* The baseline of a row is the row before it of the same scenario.         *)
LEMMA BaselineHasARow ==
    ASSUME RecordsInv, NEW q, q = Report(NoFilter).rows, NEW n \in DOMAIN q, Joined(q[n].rec),
           q[n].base # NoBase
    PROVE  \E p \in DOMAIN q : /\ p < n /\ q[p].rec = q[n].base /\ Joined(q[p].rec)
                               /\ Mine(q, n) = Mine(q, p) \cup {n}
<1>1. /\ DOMAIN q = 1..Len(q) /\ Len(q) \in Nat
      /\ \A j, k \in DOMAIN q : j < k => q[j].rec < q[k].rec
      /\ \A k \in DOMAIN q : q[k].rec \in 1..N /\ q[k].base = Base(q[k].rec)
      /\ \A i \in 1..N : Anchored(records[i]) => \E k \in DOMAIN q : q[k].rec = i
      /\ N \in Nat
  BY WholeSeries
<1> DEFINE r == q[n].rec
           s == records[r].scenario
           b == q[n].base
<1>2. b = Latest(s, r - 1) /\ r - 1 \in Nat /\ r \in 1..N
  BY <1>1 DEF Base
<1>3. JoinedOf(s, r - 1) # {}
  BY <1>2 DEF Latest, LastOf
<1>4. b \in JoinedOf(s, r - 1) /\ \A i \in JoinedOf(s, r - 1) : i <= b
  BY <1>2, <1>3, LatestIs
<1>5. b \in 1..(r - 1) /\ Joined(b) /\ records[b].scenario = s /\ Anchored(records[b])
  BY <1>4 DEF JoinedOf, Joined
<1>6. b \in 1..N /\ b < r
  <2> HIDE DEF b, r
  <2> QED
    BY <1>1, <1>2, <1>5
<1>7. DOMAIN q \subseteq Int /\ n \in Int /\ \A k \in DOMAIN q : q[k].rec \in Int
  BY <1>1
<1>8. \A j, k \in DOMAIN q : j < k => q[j].rec < q[k].rec
  BY <1>1
<1>9. PICK p \in DOMAIN q : q[p].rec = b
  <2>1. \A i \in 1..N : Anchored(records[i]) => \E k \in DOMAIN q : q[k].rec = i
    BY <1>1
  <2> HIDE DEF b
  <2> QED
    BY <2>1, <1>5, <1>6, Zenon
<1>10. p < n
  <2>1. ~(q[n].rec < q[p].rec) /\ q[p].rec # q[n].rec
    <3>1. b \in Int /\ r \in Int
      BY <1>7, <1>9
    <3> HIDE DEF b
    <3> QED
      BY <3>1, <1>6, <1>9
  <2>2. ~(n < p) /\ p # n
    <3> HIDE DEF b
    <3> QED
      BY <2>1, <1>8
  <2>3. p \in Int /\ n \in Int
    BY <1>7
  <2> QED
    BY <2>2, <2>3
<1>11. ASSUME NEW k \in Mine(q, n) PROVE k \in Mine(q, p) \cup {n}
  <2>1. k \in 1..n /\ k \in DOMAIN q /\ Joined(q[k].rec) /\ records[q[k].rec].scenario = s
    BY <1>1, <1>11 DEF Mine
  <2>2. CASE k < n
    <3>1. q[k].rec \in 1..(r - 1)
      <4>1. q[k].rec < r
        BY <1>8, <2>1, <2>2
      <4>2. q[k].rec \in 1..N /\ r \in 1..N /\ N \in Nat
        BY <1>1, <2>1
      <4> HIDE DEF r
      <4> QED
        BY <4>1, <4>2
    <3>2. q[k].rec <= b
      BY <1>4, <2>1, <3>1 DEF JoinedOf
    <3>3. ~(p < k)
      <4>1. b \in Int /\ q[k].rec \in Int
        BY <1>7, <1>9, <2>1
      <4>2. ~(b < q[k].rec)
        <5> HIDE DEF b
        <5> QED
          BY <4>1, <3>2
      <4> HIDE DEF b
      <4> QED
        BY <4>2, <1>8, <1>9, <2>1
    <3>4. k \in 1..p
      <4>1. k \in 1..n /\ p \in Int /\ n \in Int
        BY <1>7, <2>1
      <4> QED
        BY <4>1, <3>3
    <3>5. records[q[p].rec].scenario = s
      BY <1>5, <1>9
    <3> HIDE DEF s
    <3> QED
      BY <2>1, <3>4, <3>5 DEF Mine
  <2>3. CASE ~(k < n)
    BY <2>1, <2>3, <1>7
  <2> QED
    BY <2>2, <2>3
<1>12. n \in Mine(q, n)
  BY <1>1 DEF Mine
<1>13. ASSUME NEW k \in Mine(q, p) PROVE k \in Mine(q, n)
  <2>1. k \in 1..p /\ Joined(q[k].rec) /\ records[q[k].rec].scenario = s
    BY <1>5, <1>9, <1>13 DEF Mine
  <2>2. k \in 1..n
    <3>1. k \in 1..p /\ p \in Int /\ n \in Int
      BY <1>7, <2>1
    <3> QED
      BY <3>1, <1>10
  <2> HIDE DEF s
  <2> QED
    BY <2>1, <2>2 DEF Mine, s
<1>14. Mine(q, n) = Mine(q, p) \cup {n}
  BY <1>11, <1>12, <1>13
<1> QED
  BY <1>5, <1>9, <1>10, <1>14

(* If the rows before add up, so does this one.                             *)
LEMMA StaysOn ==
    ASSUME RecordsInv, NEW q, q = Report(NoFilter).rows, NEW n \in DOMAIN q, Joined(q[n].rec), NEW f,
           \A p \in DOMAIN q : p < n /\ Joined(q[p].rec) => (f \in FoundAt(q, p) <=> Stays(q, p, f))
    PROVE  f \in FoundAt(q, n) <=> Stays(q, n, f)
<1>1. /\ DOMAIN q = 1..Len(q) /\ Len(q) \in Nat
  BY WholeSeries
<1>2. CASE q[n].base = NoBase
  <2>1. Mine(q, n) = {n} /\ Came(q, n) = FoundAt(q, n)
    BY <1>2, FirstOfItsScenario DEF Came
  <2>2. ~(n > n)
    BY <1>1
  <2> QED
    BY <2>1, <2>2 DEF Stays
<1>3. CASE q[n].base # NoBase
  <2>1. PICK p \in DOMAIN q : /\ p < n /\ q[p].rec = q[n].base /\ Joined(q[p].rec)
                              /\ Mine(q, n) = Mine(q, p) \cup {n}
    BY <1>3, BaselineHasARow
  <2>2. /\ Came(q, n) = FoundAt(q, n) \ FoundAt(q, p) /\ GoneFindings(q[n]) = FoundAt(q, p) \ FoundAt(q, n)
    BY <1>3, <2>1 DEF Came, FoundAt, NewFindings, GoneFindings
  <2>3. f \in FoundAt(q, p) <=> Stays(q, p, f)
    BY <2>1
  <2>4. \A m \in Mine(q, p) : m < n /\ ~(n < m)
    BY <1>1, <2>1 DEF Mine
  <2>5. ~(n > n) /\ n \notin Mine(q, p)
    BY <1>1, <2>4
  <2>6. ASSUME f \in FoundAt(q, n) PROVE Stays(q, n, f)
    <3>1. CASE f \in FoundAt(q, p)
      <4>1. PICK m \in Mine(q, p) : /\ f \in Came(q, m)
                                    /\ \A k \in Mine(q, p) : k > m => f \notin GoneFindings(q[k])
        BY <2>3, <3>1 DEF Stays
      <4>2. \A k \in Mine(q, n) : k > m => f \notin GoneFindings(q[k])
        BY <2>1, <2>2, <2>6, <4>1
      <4> QED
        BY <2>1, <4>1, <4>2 DEF Stays
    <3>2. CASE f \notin FoundAt(q, p)
      <4>1. f \in Came(q, n) /\ n \in Mine(q, n)
        BY <2>1, <2>2, <2>6, <3>2
      <4>2. \A k \in Mine(q, n) : ~(k > n)
        BY <2>1, <2>4, <2>5
      <4> QED
        BY <4>1, <4>2 DEF Stays
    <3> QED
      BY <3>1, <3>2
  <2>7. ASSUME Stays(q, n, f) PROVE f \in FoundAt(q, n)
    <3>1. PICK m \in Mine(q, n) : /\ f \in Came(q, m)
                                  /\ \A k \in Mine(q, n) : k > m => f \notin GoneFindings(q[k])
      BY <2>7 DEF Stays
    <3>2. CASE m = n
      BY <2>2, <3>1, <3>2
    <3>3. CASE m # n
      <4>1. m \in Mine(q, p) /\ n > m
        BY <2>1, <2>4, <3>3
      <4>2. \A k \in Mine(q, p) : k > m => f \notin GoneFindings(q[k])
        BY <2>1, <3>1
      <4>3. f \in FoundAt(q, p)
        BY <2>3, <3>1, <4>1, <4>2 DEF Stays
      <4>4. f \notin GoneFindings(q[n])
        BY <2>1, <3>1, <4>1
      <4> QED
        BY <2>2, <4>3, <4>4
    <3> QED
      BY <3>2, <3>3
  <2> QED
    BY <2>6, <2>7
<1> QED
  BY <1>2, <1>3

(* All rows add up: a first one that does not would have a row before it.   *)
LEMMA FindingsKept == ASSUME RecordsInv PROVE FindingsAddUp
<1> DEFINE q == Report(NoFilter).rows
<1>1. /\ DOMAIN q = 1..Len(q) /\ Len(q) \in Nat
  BY WholeSeries
<1>2. ASSUME NEW f, NEW n \in DOMAIN q, Joined(q[n].rec)
      PROVE  f \in FoundAt(q, n) <=> Stays(q, n, f)
  <2> DEFINE T == {i \in DOMAIN q : Joined(q[i].rec) /\ ~(f \in FoundAt(q, i) <=> Stays(q, i, f))}
  <2>1. ASSUME T # {} PROVE FALSE
    <3>1. T \in SUBSET Nat
      BY <1>1
    <3>2. PICK i \in T : \A j \in T : i <= j
      <4> HIDE DEF T
      <4> QED
        BY <2>1, <3>1, LeastNat
    <3>3. i \in DOMAIN q /\ Joined(q[i].rec) /\ ~(f \in FoundAt(q, i) <=> Stays(q, i, f))
      BY <3>2
    <3>4. \A p \in DOMAIN q : p < i /\ Joined(q[p].rec) => (f \in FoundAt(q, p) <=> Stays(q, p, f))
      <4> SUFFICES ASSUME NEW p \in DOMAIN q, p < i, Joined(q[p].rec), p \in T PROVE FALSE
        OBVIOUS
      <4> HIDE DEF T, q
      <4>1. i <= p /\ p \in Int /\ i \in Int
        BY <1>1, <3>1, <3>2
      <4> QED
        BY <4>1
    <3> QED
      BY <3>3, <3>4, StaysOn
  <2> QED
    BY <1>2, <2>1
<1> HIDE DEF q
<1>3. ASSUME NEW n \in DOMAIN q, Joined(q[n].rec)
      PROVE  FoundAt(q, n) = {f \in UNION {FoundAt(q, k) : k \in Mine(q, n)} :
                            \E m \in Mine(q, n) : /\ f \in Came(q, m)
                                                  /\ \A k \in Mine(q, n) : k > m => f \notin GoneFindings(q[k])}
  <2>1. n \in Mine(q, n)
    BY <1>1, <1>3 DEF Mine
  <2>2. \A f : f \in FoundAt(q, n) <=> Stays(q, n, f)
    BY <1>2, <1>3
  <2> QED
    BY <2>1, <2>2 DEF Stays
<1> QED
  BY <1>3, Zenon DEF q, FindingsAddUp, FoundAt, Came, Mine


(* The first row of a row's scenario.                                       *)
LEMMA FirstIs ==
    ASSUME NEW q \in Seq(Rows), NEW k \in DOMAIN q
    PROVE  /\ FirstLike(q, k) \in DOMAIN q
           /\ records[q[FirstLike(q, k)].rec].scenario = records[q[k].rec].scenario
<1> DEFINE like == {i \in DOMAIN q : records[q[i].rec].scenario = records[q[k].rec].scenario}
<1>1. DOMAIN q = 1..Len(q) /\ Len(q) \in Nat /\ IsFiniteSet(1..Len(q))
  BY LenProperties, FS_Interval
<1>2. like \in SUBSET Int /\ like \in SUBSET (1..Len(q)) /\ k \in like
  BY <1>1
<1>3. FirstLike(q, k) = CHOOSE i \in like : \A j \in like : i <= j
  BY DEF FirstLike
<1> HIDE DEF like
<1>4. IsFiniteSet(like)
  BY <1>1, <1>2, FS_Subset
<1>5. \E i \in like : \A j \in like : i <= j
  BY <1>2, <1>4, Least
<1>6. FirstLike(q, k) \in like
  BY <1>3, <1>5
<1> QED
  BY <1>6 DEF like

(* Two rows have the same first row when they are of the same scenario.     *)
LEMMA SameFirst ==
    ASSUME NEW q \in Seq(Rows), NEW j \in DOMAIN q, NEW k \in DOMAIN q
    PROVE  records[q[j].rec].scenario = records[q[k].rec].scenario <=> FirstLike(q, j) = FirstLike(q, k)
<1>1. ASSUME records[q[j].rec].scenario = records[q[k].rec].scenario PROVE FirstLike(q, j) = FirstLike(q, k)
  BY <1>1 DEF FirstLike
<1>2. ASSUME FirstLike(q, j) = FirstLike(q, k) PROVE records[q[j].rec].scenario = records[q[k].rec].scenario
  BY <1>2, FirstIs
<1> QED
  BY <1>1, <1>2

(* What is printed above what is a strict order of the rows.                *)
LEMMA PrintedInOrder ==
    ASSUME NEW q \in Seq(Rows)
    PROVE  Ordered([k \in 1..Len(q) |-> Above(q, k)], Len(q))
<1> DEFINE n == Len(q)
           A == [k \in 1..n |-> Above(q, k)]
<1>1. DOMAIN q = 1..n /\ n \in Nat
  BY LenProperties
<1>2. \A k \in 1..n : FirstLike(q, k) \in 1..n
  BY <1>1, FirstIs
<1>3. \A j, k \in 1..n : j \in Above(q, k) <=> \/ FirstLike(q, j) < FirstLike(q, k)
                                               \/ FirstLike(q, j) = FirstLike(q, k) /\ j < k
  BY <1>1 DEF Above
<1>4. \A k \in 1..n : Above(q, k) \subseteq 1..n /\ k \notin Above(q, k)
  BY <1>1, <1>2, <1>3 DEF Above
<1>5. ASSUME NEW j \in 1..n, NEW k \in 1..n, j \in Above(q, k) PROVE Above(q, j) \subseteq Above(q, k)
  <2> SUFFICES ASSUME NEW i \in Above(q, j) PROVE i \in Above(q, k)
    OBVIOUS
  <2>1. i \in 1..n
    BY <1>4
  <2> DEFINE a == FirstLike(q, i)
             b == FirstLike(q, j)
             c == FirstLike(q, k)
  <2>2. a < b \/ (a = b /\ i < j)
    BY <1>3, <2>1
  <2>3. b < c \/ (b = c /\ j < k)
    BY <1>3, <1>5
  <2>4. i \in Int /\ j \in Int /\ k \in Int
    BY <1>1, <2>1
  <2>5. a \in Int /\ b \in Int /\ c \in Int
    BY <1>1, <1>2, <2>1
  <2>6. a < c \/ (a = c /\ i < k)
    <3> HIDE DEF a, b, c
    <3> QED
      BY <2>2, <2>3, <2>4, <2>5
  <2> QED
    BY <1>3, <2>1, <2>6
<1>6. ASSUME NEW j \in 1..n, NEW k \in 1..n, j # k PROVE j \in Above(q, k) \/ k \in Above(q, j)
  <2>1. j \in Int /\ k \in Int /\ FirstLike(q, j) \in Int /\ FirstLike(q, k) \in Int
    BY <1>1, <1>2
  <2>2. \/ FirstLike(q, j) < FirstLike(q, k) \/ FirstLike(q, k) < FirstLike(q, j)
        \/ FirstLike(q, j) = FirstLike(q, k) /\ (j < k \/ k < j)
    BY <1>6, <2>1
  <2> QED
    BY <1>3, <2>2
<1>7. A \in [1..n -> SUBSET (1..n)] /\ \A k \in 1..n : A[k] = Above(q, k)
  BY <1>4
<1> HIDE DEF A
<1>8. Ordered(A, n)
  BY <1>4, <1>5, <1>6, <1>7 DEF Ordered
<1> QED
  BY <1>8 DEF A

(* A row is its record and that one's baseline.                             *)
RowOf(i) == [rec |-> i, base |-> Base(i)]

(* The unfiltered rows that a filter keeps are those of its own records.    *)
LEMMA MineAre ==
    ASSUME RecordsInv, NEW f
    PROVE  {row \in ToSet(Report(NoFilter).rows) : Kept(records[row.rec].scenario, f)}
             = {RowOf(i) : i \in Shown(f, N)}
<1> DEFINE q == Report(NoFilter).rows
           mine == {row \in ToSet(q) : Kept(records[row.rec].scenario, f)}
<1>1. /\ q \in Seq(Rows) /\ N \in Nat
      /\ \A k \in DOMAIN q : /\ q[k].rec \in 1..N /\ Anchored(records[q[k].rec])
                             /\ q[k].base = Base(q[k].rec)
      /\ \A i \in 1..N : Anchored(records[i]) => \E k \in DOMAIN q : q[k].rec = i
  BY WholeSeries
<1> HIDE DEF q
<1>2. \A k \in DOMAIN q : q[k] \in Rows
  BY <1>1, LenProperties
<1>3. \A k \in DOMAIN q : q[k] = RowOf(q[k].rec)
  BY <1>1, <1>2 DEF RowOf, Rows
<1>4. ASSUME NEW row \in mine PROVE \E i \in Shown(f, N) : row = RowOf(i)
  <2>1. PICK k \in DOMAIN q : row = q[k]
    BY DEF ToSet
  <2>2. q[k].rec \in Shown(f, N)
    BY <1>1, <2>1 DEF Shown, KeptAt
  <2> QED
    BY <1>3, <2>1, <2>2
<1>5. ASSUME NEW i \in Shown(f, N) PROVE RowOf(i) \in mine
  <2>1. i \in 1..N /\ Anchored(records[i]) /\ Kept(records[i].scenario, f)
    BY DEF Shown, KeptAt
  <2>2. PICK k \in DOMAIN q : q[k].rec = i
    BY <1>1, <2>1
  <2>3. q[k] = RowOf(i) /\ q[k] \in ToSet(q)
    BY <1>3, <2>2 DEF ToSet
  <2>4. RowOf(i).rec = i
    BY DEF RowOf
  <2> QED
    BY <2>1, <2>3, <2>4
<1>6. mine = {RowOf(i) : i \in Shown(f, N)}
  <2> HIDE DEF mine
  <2> QED
    BY <1>4, <1>5
<1> QED
  BY <1>6 DEF q

(* Rows are counted by their records.                                       *)
LEMMA MineCount ==
    ASSUME NEW S, IsFiniteSet(S)
    PROVE  Cardinality({RowOf(i) : i \in S}) = Cardinality(S)
<1> DEFINE T == {RowOf(i) : i \in S}
           f == [i \in S |-> RowOf(i)]
<1>1. f \in [S -> T] /\ \A i \in S : f[i].rec = i
  BY DEF RowOf
<1>2. \A t \in T : \E i \in S : f[i] = t
  OBVIOUS
<1> HIDE DEF f, T
<1>3. f \in Surjection(S, T) /\ f \in Injection(S, T)
  BY <1>1, <1>2 DEF Surjection, Injection, IsInjective
<1>4. Cardinality(T) = Cardinality(S)
  BY <1>3, FS_Surjection
<1> QED
  BY <1>4 DEF T

(* No record is lost between the rows and the excluded.                     *)
LEMMA NoneLost ==
    ASSUME NEW f, N \in Nat, DOMAIN records = 1..N
    PROVE  Cardinality(Shown(f, N)) + Cardinality(Excluded(f, N))
             = Cardinality({n \in DOMAIN records : Kept(records[n].scenario, f)})
<1>1. {n \in DOMAIN records : Kept(records[n].scenario, f)} = Shown(f, N) \cup Excluded(f, N)
  BY DEF Shown, Excluded, KeptAt
<1>2. Shown(f, N) \cap Excluded(f, N) = {}
  BY DEF Shown, Excluded
<1>3. /\ IsFiniteSet(Shown(f, N)) /\ Cardinality(Shown(f, N)) \in Nat
      /\ IsFiniteSet(Excluded(f, N)) /\ Cardinality(Excluded(f, N)) \in Nat
  BY ShownIsFinite
<1>4. Cardinality(Shown(f, N) \cup Excluded(f, N))
        = Cardinality(Shown(f, N)) + Cardinality(Excluded(f, N)) - Cardinality(Shown(f, N) \cap Excluded(f, N))
  BY <1>3, FS_Union
<1>5. Cardinality(Shown(f, N) \cap Excluded(f, N)) = 0
  BY <1>2, FS_EmptySet
<1> DEFINE a == Cardinality(Shown(f, N))
           b == Cardinality(Excluded(f, N))
           c == Cardinality(Shown(f, N) \cup Excluded(f, N))
<1>6. c = a + b - 0 /\ a \in Nat /\ b \in Nat
  BY <1>3, <1>4, <1>5
<1>7. a + b = c
  <2> HIDE DEF a, b, c
  <2> QED
    BY <1>6
<1> QED
  BY <1>1, <1>7

(* Each row is printed once, in the order that puts it.                     *)
LEMMA PrintedOnce ==
    ASSUME NEW f, NEW q \in Seq(Rows), q = Report(f).rows
    PROVE  \E P \in [1..Len(q) -> 1..Len(q)] :
             /\ DOMAIN RenderSeries(f) = 1..Len(q) /\ Len(RenderSeries(f)) = Len(q)
             /\ \A i \in 1..Len(q) : RenderSeries(f)[i] = Line(q[P[i]], f)
             /\ \A i, j \in 1..Len(q) : i < j => P[i] \in Above(q, P[j])
             /\ \A k \in 1..Len(q) : \E i \in 1..Len(q) : P[i] = k
<1> DEFINE n == Len(q)
           A == [k \in 1..n |-> Above(q, k)]
           P == [i \in 1..n |-> CHOOSE k \in 1..n : Cardinality(Above(q, k)) = i - 1]
           out == RenderSeries(f)
<1>1. n \in Nat /\ DOMAIN q = 1..n
  BY LenProperties
<1>2. out = [i \in 1..n |-> Line(q[P[i]], f)]
  BY <1>1 DEF RenderSeries
<1>3. Ordered(A, n)
  BY PrintedInOrder
<1>4. \A k \in 1..n : A[k] = Above(q, k)
  OBVIOUS
<1>5. \A i \in 1..n : P[i] = CHOOSE k \in 1..n : Cardinality(Above(q, k)) = i - 1
  OBVIOUS
<1>6. DOMAIN P = 1..n /\ P = [i \in 1..n |-> P[i]]
  OBVIOUS
<1> HIDE DEF A, P, n, out
<1>7. /\ \A k \in 1..n : Cardinality(Above(q, k)) \in 0..(n - 1)
      /\ \A j, k \in 1..n : Cardinality(Above(q, j)) = Cardinality(Above(q, k)) => j = k
      /\ \A j, k \in 1..n : Cardinality(Above(q, j)) < Cardinality(Above(q, k)) => j \in Above(q, k)
      /\ \A i \in 1..n : \E k \in 1..n : Cardinality(Above(q, k)) = i - 1
  <2>1. /\ \A k \in 1..n : Cardinality(A[k]) \in 0..(n - 1)
        /\ \A j, k \in 1..n : Cardinality(A[j]) = Cardinality(A[k]) => j = k
        /\ \A j, k \in 1..n : Cardinality(A[j]) < Cardinality(A[k]) => j \in A[k]
        /\ \A i \in 1..n : \E k \in 1..n : Cardinality(A[k]) = i - 1
    BY <1>1, <1>3, PlacesAreTaken, Zenon
  <2>2. \A k \in 1..n : Cardinality(Above(q, k)) = Cardinality(A[k])
    BY <1>4
  <2>3. \A k \in 1..n : Cardinality(Above(q, k)) \in 0..(n - 1)
    BY <2>1, <2>2
  <2>4. \A j, k \in 1..n : Cardinality(Above(q, j)) = Cardinality(Above(q, k)) => j = k
    BY <2>1, <2>2
  <2>5. \A j, k \in 1..n : Cardinality(Above(q, j)) < Cardinality(Above(q, k)) => j \in Above(q, k)
    BY <1>4, <2>1, <2>2
  <2>6. \A i \in 1..n : \E k \in 1..n : Cardinality(Above(q, k)) = i - 1
    BY <2>1, <2>2
  <2> QED
    BY <2>3, <2>4, <2>5, <2>6
<1>8. ASSUME NEW i \in 1..n PROVE P[i] \in 1..n /\ Cardinality(Above(q, P[i])) = i - 1
  <2>1. P[i] = CHOOSE k \in 1..n : Cardinality(Above(q, k)) = i - 1
    BY <1>5
  <2>2. \E k \in 1..n : Cardinality(Above(q, k)) = i - 1
    BY <1>7
  <2> QED
    BY <2>1, <2>2, Zenon
<1>9. P \in [1..n -> 1..n]
  BY <1>6, <1>8
<1>10. ASSUME NEW i \in 1..n, NEW j \in 1..n, i < j PROVE P[i] \in Above(q, P[j])
  <2>1. P[i] \in 1..n /\ P[j] \in 1..n
    BY <1>8
  <2>2. Cardinality(Above(q, P[i])) < Cardinality(Above(q, P[j]))
    BY <1>1, <1>8, <1>10
  <2> QED
    BY <1>7, <2>1, <2>2
<1>11. ASSUME NEW k \in 1..n PROVE \E i \in 1..n : P[i] = k
  <2> DEFINE i == Cardinality(Above(q, k)) + 1
  <2>1. i \in 1..n /\ Cardinality(Above(q, k)) = i - 1
    BY <1>1, <1>7
  <2> HIDE DEF i
  <2>2. P[i] = k
    BY <1>7, <1>8, <2>1
  <2> QED
    BY <2>1, <2>2
<1>12. DOMAIN out = 1..n /\ Len(out) = n
  <2> DEFINE T == {Line(q[P[i]], f) : i \in 1..n}
  <2>1. out \in [1..n -> T]
    BY <1>2
  <2> HIDE DEF T
  <2>2. out \in Seq(T)
    BY <1>1, <2>1, SeqDef
  <2> QED
    BY <1>1, <2>1, <2>2, LenProperties
<1>13. \A i \in 1..n : out[i] = Line(q[P[i]], f)
  BY <1>2
<1> QED
  BY <1>9, <1>10, <1>11, <1>12, <1>13, Zenon DEF n, out

(* A delta is of a metric that the nearest measured run had too.            *)
LEMMA DeltaIsOfABase ==
    ASSUME RecordsInv, NEW row, row.rec \in 1..N, Anchored(records[row.rec]), row.base = Base(row.rec),
           NEW f, NEW m \in Line(row, f).metrics
    PROVE  /\ Joined(row.rec)
           /\ m.delta => \E n \in 1..(row.rec - 1) : Joined(n) /\ m.key \in DOMAIN records[n].metrics
<1>1. Line(row, f).metrics =
        IF ~Comparable(records[row.rec]) THEN {}
        ELSE {[key |-> k, delta |-> k \in DOMAIN Deltas(row)] :
                k \in {p \in DOMAIN records[row.rec].metrics : f.metric \in {"", p}}}
  BY Zenon DEF Line
<1>2. Comparable(records[row.rec]) /\ Joined(row.rec)
  BY <1>1, Zenon DEF Joined
<1>3. PICK k : m = [key |-> k, delta |-> k \in DOMAIN Deltas(row)]
  BY <1>1, <1>2, Zenon
<1>4. m.key = k /\ (m.delta <=> k \in DOMAIN Deltas(row))
  BY <1>3, Zenon
<1>5. ASSUME k \in DOMAIN Deltas(row)
      PROVE  \E n \in 1..(row.rec - 1) : Joined(n) /\ k \in DOMAIN records[n].metrics
  <2>1. row.base # NoBase /\ k \in DOMAIN records[row.base].metrics
    <3>1. CASE row.base = NoBase
      <4>1. DOMAIN Deltas(row) = {}
        BY <3>1 DEF Deltas
      <4> QED
        BY <1>5, <4>1
    <3>2. CASE row.base # NoBase
      <4>1. DOMAIN Deltas(row) = DOMAIN records[row.rec].metrics \cap DOMAIN records[row.base].metrics
        BY <3>2, Zenon DEF Deltas
      <4> QED
        BY <1>5, <3>2, <4>1
    <3> QED
      BY <3>1, <3>2
  <2>2. N \in Nat /\ row.rec - 1 \in Nat
    BY ListIs DEF RecordsInv, N
  <2>3. row.base = Latest(records[row.rec].scenario, row.rec - 1)
    BY <1>2 DEF Base
  <2>4. row.base \in JoinedOf(records[row.rec].scenario, row.rec - 1)
    <3>1. JoinedOf(records[row.rec].scenario, row.rec - 1) # {}
      BY <2>1, <2>3 DEF Latest, LastOf
    <3> QED
      BY <2>2, <2>3, <3>1, LatestIs
  <2>5. row.base \in 1..(row.rec - 1) /\ Joined(row.base)
    BY <2>4 DEF JoinedOf
  <2> QED
    BY <2>1, <2>5
<1> QED
  BY <1>2, <1>4, <1>5, Zenon

(* What is printed is the rows of the report, in their order.               *)
LEMMA PrintedKept ==
    ASSUME RecordsInv, NEW f, f.last \in Int
    PROVE  LET rep == Report(f) out == RenderSeries(f)
           IN  /\ Len(out) = Len(rep.rows)
               /\ {out[k].rec : k \in DOMAIN out} = {row.rec : row \in ToSet(rep.rows)}
               /\ \A j, k \in DOMAIN out :
                    j < k /\ records[out[j].rec].scenario = records[out[k].rec].scenario
                       => /\ out[j].rec < out[k].rec
                          /\ \A i \in j..k : records[out[i].rec].scenario = records[out[j].rec].scenario
               /\ \A k \in DOMAIN out : \A m \in out[k].metrics :
                    Joined(out[k].rec)
                    /\ (m.delta => \E n \in 1..(out[k].rec - 1) :
                          Joined(n) /\ m.key \in DOMAIN records[n].metrics)
<1> DEFINE q == Report(f).rows
           out == RenderSeries(f)
           n == Len(q)
           Of(k) == records[q[k].rec].scenario
<1>1. RowsEnd(f, q)
  BY ReportIs
<1>2. q \in Seq(Rows) /\ DOMAIN q = 1..n /\ n \in Nat
  BY <1>1, LenProperties DEF RowsEnd
<1>3. /\ \A j, k \in 1..n : j < k => q[j].rec < q[k].rec
      /\ \A k \in 1..n : q[k].rec \in 1..N /\ Anchored(records[q[k].rec]) /\ q[k].base = Base(q[k].rec)
  BY <1>1, <1>2 DEF RowsEnd, Shown
<1>4. PICK P \in [1..n -> 1..n] :
             /\ DOMAIN out = 1..n /\ Len(out) = n
             /\ \A i \in 1..n : out[i] = Line(q[P[i]], f)
             /\ \A i, j \in 1..n : i < j => P[i] \in Above(q, P[j])
             /\ \A k \in 1..n : \E i \in 1..n : P[i] = k
  BY <1>2, PrintedOnce
<1>5. \A i \in 1..n : out[i].rec = q[P[i]].rec
  <2>1. \A row : Line(row, f).rec = row.rec
    BY DEF Line
  <2> HIDE DEF q, out, n
  <2> QED
    BY <1>4, <2>1
<1>6. \A k \in 1..n : FirstLike(q, k) \in 1..n
  BY <1>2, FirstIs
<1>7. \A i, j \in 1..n : i < j => \/ FirstLike(q, P[i]) < FirstLike(q, P[j])
                                  \/ FirstLike(q, P[i]) = FirstLike(q, P[j]) /\ P[i] < P[j]
  BY <1>2, <1>4 DEF Above
<1>8. \A i, j \in 1..n : Of(P[i]) = Of(P[j]) <=> FirstLike(q, P[i]) = FirstLike(q, P[j])
  <2> SUFFICES ASSUME NEW i \in 1..n, NEW j \in 1..n
               PROVE  Of(P[i]) = Of(P[j]) <=> FirstLike(q, P[i]) = FirstLike(q, P[j])
    OBVIOUS
  <2>1. P[i] \in DOMAIN q /\ P[j] \in DOMAIN q
    BY <1>2, <1>4
  <2> HIDE DEF q, n
  <2> QED
    BY <1>2, <2>1, SameFirst
<1> HIDE DEF q, out, n
<1>9. {out[k].rec : k \in DOMAIN out} = {row.rec : row \in ToSet(q)}
  <2>1. {out[k].rec : k \in DOMAIN out} = {q[P[i]].rec : i \in 1..n}
    <3>1. DOMAIN out = 1..n
      BY <1>4
    <3> QED
      BY <1>5, <3>1
  <2>2. {q[P[i]].rec : i \in 1..n} = {q[k].rec : k \in 1..n}
    <3>1. \A i \in 1..n : P[i] \in 1..n
      BY Zenon
    <3>2. \A k \in 1..n : \E i \in 1..n : P[i] = k
      BY <1>4
    <3> QED
      BY <3>1, <3>2, Zenon
  <2>3. {q[k].rec : k \in 1..n} = {row.rec : row \in ToSet(q)}
    BY <1>2 DEF ToSet
  <2> QED
    BY <2>1, <2>2, <2>3
<1>10. ASSUME NEW j \in 1..n, NEW k \in 1..n, j < k, Of(P[j]) = Of(P[k])
       PROVE  /\ out[j].rec < out[k].rec
              /\ \A i \in j..k : i \in 1..n /\ Of(P[i]) = Of(P[j])
  <2>1. FirstLike(q, P[j]) = FirstLike(q, P[k])
    BY <1>8, <1>10
  <2>2. P[j] \in 1..n /\ P[k] \in 1..n /\ FirstLike(q, P[j]) \in 1..n
    BY <1>4, <1>6
  <2>3. P[j] < P[k]
    BY <1>2, <1>7, <1>10, <2>1, <2>2
  <2>4. out[j].rec < out[k].rec
    BY <1>3, <1>5, <2>2, <2>3
  <2>5. ASSUME NEW i \in j..k PROVE i \in 1..n /\ Of(P[i]) = Of(P[j])
    <3>1. i \in 1..n /\ (i = j \/ j < i) /\ (i = k \/ i < k)
      BY <1>2
    <3>2. P[i] \in 1..n /\ FirstLike(q, P[i]) \in 1..n
      BY <1>4, <1>6, <3>1
    <3>3. FirstLike(q, P[j]) <= FirstLike(q, P[i]) /\ FirstLike(q, P[i]) <= FirstLike(q, P[k])
      <4>1. i = j \/ FirstLike(q, P[j]) < FirstLike(q, P[i]) \/ FirstLike(q, P[j]) = FirstLike(q, P[i])
        BY <1>7, <3>1
      <4>2. i = k \/ FirstLike(q, P[i]) < FirstLike(q, P[k]) \/ FirstLike(q, P[i]) = FirstLike(q, P[k])
        BY <1>7, <3>1
      <4> DEFINE a == FirstLike(q, P[i])
                 b == FirstLike(q, P[j])
                 c == FirstLike(q, P[k])
      <4>3. a \in Int /\ b \in Int /\ c \in Int
        <5>1. P[i] \in 1..n /\ P[j] \in 1..n /\ P[k] \in 1..n
          BY <1>4, <3>1
        <5>2. a \in 1..n /\ b \in 1..n /\ c \in 1..n
          BY <1>6, <5>1
        <5> HIDE DEF a, b, c
        <5> QED
          BY <1>2, <5>2
      <4>4. (a = b \/ b < a) /\ (a = c \/ a < c)
        BY <4>1, <4>2, Zenon
      <4> HIDE DEF a, b, c
      <4>5. b <= a /\ a <= c
        BY <4>3, <4>4
      <4> QED
        BY <4>5 DEF a, b, c
    <3>4. FirstLike(q, P[i]) = FirstLike(q, P[j])
      BY <1>2, <2>1, <2>2, <3>2, <3>3
    <3> QED
      BY <1>8, <3>1, <3>4
  <2> QED
    BY <2>4, <2>5
<1>11. \A j, k \in DOMAIN out :
                    j < k /\ records[out[j].rec].scenario = records[out[k].rec].scenario
                       => /\ out[j].rec < out[k].rec
                          /\ \A i \in j..k : records[out[i].rec].scenario = records[out[j].rec].scenario
  <2> SUFFICES ASSUME NEW j \in 1..n, NEW k \in 1..n, j < k,
                      records[out[j].rec].scenario = records[out[k].rec].scenario
               PROVE  /\ out[j].rec < out[k].rec
                      /\ \A i \in j..k : records[out[i].rec].scenario = records[out[j].rec].scenario
    BY <1>4, Zenon
  <2>1. Of(P[j]) = Of(P[k])
    BY <1>5
  <2>2. out[j].rec < out[k].rec /\ \A i \in j..k : i \in 1..n /\ Of(P[i]) = Of(P[j])
    BY <1>10, <2>1
  <2> QED
    BY <1>5, <2>2
<1>12. \A k \in DOMAIN out : \A m \in out[k].metrics :
                    Joined(out[k].rec)
                    /\ (m.delta => \E i \in 1..(out[k].rec - 1) :
                          Joined(i) /\ m.key \in DOMAIN records[i].metrics)
  <2> SUFFICES ASSUME NEW k \in 1..n, NEW m \in out[k].metrics
               PROVE  Joined(out[k].rec)
                      /\ (m.delta => \E i \in 1..(out[k].rec - 1) :
                            Joined(i) /\ m.key \in DOMAIN records[i].metrics)
    BY <1>4, Zenon
  <2> DEFINE row == q[P[k]]
  <2>1. out[k].rec = row.rec /\ out[k] = Line(row, f) /\ P[k] \in 1..n
    BY <1>4, <1>5
  <2>2. row.rec \in 1..N /\ Anchored(records[row.rec]) /\ row.base = Base(row.rec)
    BY <1>3, <2>1
  <2>3. m \in Line(row, f).metrics
    BY <2>1
  <2> HIDE DEF row
  <2>4. /\ Joined(row.rec)
        /\ m.delta => \E i \in 1..(row.rec - 1) : Joined(i) /\ m.key \in DOMAIN records[i].metrics
    BY <2>2, <2>3, DeltaIsOfABase, Zenon
  <2> QED
    BY <2>1, <2>4, Zenon
<1>13. Len(out) = Len(q)
  BY <1>4 DEF n
<1> QED
  BY <1>9, <1>11, <1>12, <1>13, Zenon DEF q, out

(* A filter hides rows and changes none.                                    *)
LEMMA FiltersKept == ASSUME RecordsInv PROVE FiltersOnlyHide
<1> SUFFICES ASSUME NEW f \in Filters
             PROVE  LET mine == {row \in ToSet(Report(NoFilter).rows) : Kept(records[row.rec].scenario, f)}
                        rep  == Report(f)
                    IN  /\ ToSet(rep.rows) \subseteq mine
                        /\ \A j, k \in DOMAIN rep.rows : j < k => rep.rows[j].rec < rep.rows[k].rec
                        /\ \A row \in mine \ ToSet(rep.rows) :
                              \A m \in DOMAIN rep.rows : row.rec < rep.rows[m].rec
                        /\ Len(rep.rows) = IF f.last <= 0 \/ Cardinality(mine) < f.last THEN Cardinality(mine)
                                           ELSE f.last
                        /\ Cardinality(mine) + rep.unanchored =
                             Cardinality({n \in DOMAIN records : Kept(records[n].scenario, f)})
  <2>1. \A g \in Filters : g.last \in Int
    BY FiltersAssumption
  <2> QED
    BY <2>1, PrintedKept, Zenon DEF FiltersOnlyHide
<1> DEFINE mine == {row \in ToSet(Report(NoFilter).rows) : Kept(records[row.rec].scenario, f)}
           rep == Report(f)
           q == rep.rows
           S == Shown(f, N)
<1>1. f.last \in Int
  BY FiltersAssumption
<1>2. RowsEnd(f, q) /\ rep.unanchored = Cardinality(Excluded(f, N))
  BY <1>1, ReportIs
<1>3. N \in Nat /\ DOMAIN records = 1..N
  BY ListIs DEF RecordsInv, N
<1>4. mine = {RowOf(i) : i \in S}
  BY MineAre
<1>5. Cardinality(mine) = Cardinality(S) /\ Cardinality(S) \in Nat
  BY <1>3, <1>4, ShownIsFinite, MineCount
<1>6. Cardinality(S) + rep.unanchored = Cardinality({n \in DOMAIN records : Kept(records[n].scenario, f)})
  BY <1>2, <1>3, NoneLost
<1> HIDE DEF mine, rep, S
<1>7. /\ q \in Seq(Rows) /\ DOMAIN q = 1..Len(q)
      /\ Len(q) = (IF f.last > 0 /\ Cardinality(S) > f.last THEN f.last ELSE Cardinality(S))
      /\ \A j, k \in DOMAIN q : j < k => q[j].rec < q[k].rec
      /\ \A k \in DOMAIN q : q[k].rec \in S /\ q[k].base = Base(q[k].rec)
      /\ \A i \in S : (\E k \in DOMAIN q : q[k].rec = i) \/ (\A k \in DOMAIN q : i < q[k].rec)
  BY <1>2, LenProperties DEF RowsEnd, S
<1> HIDE DEF q
<1>8. \A k \in DOMAIN q : q[k] = RowOf(q[k].rec)
  <2>1. \A k \in DOMAIN q : q[k] \in Rows
    BY <1>7, LenProperties
  <2> QED
    BY <1>7, <2>1 DEF RowOf, Rows
<1>9. ToSet(q) \subseteq mine
  BY <1>4, <1>7, <1>8 DEF ToSet
<1>10. \A row \in mine \ ToSet(q) : \A k \in DOMAIN q : row.rec < q[k].rec
  <2> SUFFICES ASSUME NEW row \in mine, row \notin ToSet(q) PROVE \A k \in DOMAIN q : row.rec < q[k].rec
    OBVIOUS
  <2>1. PICK i \in S : row = RowOf(i)
    BY <1>4
  <2>2. row.rec = i
    BY <2>1 DEF RowOf
  <2>3. ~\E k \in DOMAIN q : q[k].rec = i
    BY <1>8, <2>1 DEF ToSet
  <2> QED
    BY <1>7, <2>2, <2>3
<1>11. Len(q) = IF f.last <= 0 \/ Cardinality(mine) < f.last THEN Cardinality(mine) ELSE f.last
  BY <1>1, <1>5, <1>7
<1> QED
  BY <1>5, <1>6, <1>7, <1>9, <1>10, <1>11 DEF mine, rep, q

(* A verdict recorded is one more record of a known scenario.               *)
LEMMA RecordsGrow == ASSUME RecordsInv, [ReportNext]_records PROVE RecordsInv'
<1>1. CASE UNCHANGED records
  BY <1>1 DEF RecordsInv, Listed
<1>2. CASE ReportNext
  <2>1. PICK v \in Documents : records' = Append(records, Project(v))
    BY <1>2 DEF ReportNext
  <2>2. Project(v).scenario \in ScenarioNames
    BY DEF Project, ScenarioNames
  <2>3. /\ Listed(records') /\ Len(records') = Len(records) + 1
        /\ records'[Len(records) + 1] = Project(v)
        /\ \A n \in 1..Len(records) : records'[n] = records[n]
    BY <2>1, Appended DEF RecordsInv
  <2>4. DOMAIN records' = 1..(Len(records) + 1) /\ DOMAIN records = 1..Len(records) /\ Len(records) \in Nat
    BY <2>3, ListIs DEF RecordsInv
  <2>5. \A n \in DOMAIN records' : records'[n].scenario \in ScenarioNames
    BY <2>2, <2>3, <2>4 DEF RecordsInv
  <2>6. Listed(records)'
    BY <2>3 DEF Listed
  <2>7. ScenarioNames' = ScenarioNames
    BY DEF ScenarioNames
  <2> QED
    BY <2>5, <2>6, <2>7 DEF RecordsInv
<1> QED
  BY <1>1, <1>2

(* TrendReport's SeriesIsTrue, for any verdict documents, any number of     *)
(* records and any filters: each row is compared with the nearest measured  *)
(* run of its scenario, the findings add up along the series, and a filter  *)
(* only hides (internal/trend, Store.Report and Render).                    *)
THEOREM SeriesSaysWhatChanged == ReportSpec => []SeriesIsTrue
<1>1. ReportInit => RecordsInv
  BY DEF ReportInit, RecordsInv, Listed
<1>2. RecordsInv /\ [ReportNext]_records => RecordsInv'
  BY RecordsGrow
<1>3. RecordsInv => SeriesIsTrue
  BY NearestKept, FindingsKept, FiltersKept DEF SeriesIsTrue
<1> QED
  BY <1>1, <1>2, <1>3, PTL DEF ReportSpec

=============================================================================
