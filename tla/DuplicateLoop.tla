---------------------------- MODULE DuplicateLoop ----------------------------
(***************************************************************************)
(* The duplicate faults on one topic (internal/applier, BrokerApplier):    *)
(* each has a consumer of its own and a goroutine that polls a batch and   *)
(* publishes some of it again on the same topic, marked, until its undo    *)
(* stops it.                                                               *)
(***************************************************************************)
EXTENDS Naturals, Sequences, FiniteSets

CONSTANTS
    Loops,        \* the duplicate faults
    MaxMessages   \* bound: messages the system under test publishes

ASSUME LoopAssumption == IsFiniteSet(Loops) /\ "sut" \notin Loops /\ MaxMessages \in Nat

VARIABLES
    topic,     \* the topic's log: original n, or a marked copy of it by a loop
    consumer,  \* each loop's consumer on the broker
    loop,      \* its goroutine
    pos,       \* the records its consumer has been given
    batch,     \* the records of the poll it is working on
    undo       \* its undo: "no", "waiting" for done, "returned"

loopVars == <<topic, consumer, loop, pos, batch, undo>>

Originals == 1..MaxMessages
Records == [msg : Originals, by : Loops \cup {"sut"}]
Published == {i \in DOMAIN topic : topic[i].by = "sut"}

LoopTypeOK ==
    /\ topic \in Seq(Records)
    /\ consumer \in [Loops -> {"none", "created", "subscribed", "deleted"}]
    /\ loop \in [Loops -> {"off", "select", "publish", "done", "failed"}]
    /\ pos \in [Loops -> Nat]
    /\ batch \in [Loops -> Seq(Records)]
    /\ undo \in [Loops -> {"no", "waiting", "returned"}]

LoopInit ==
    /\ topic = <<>>
    /\ consumer = [l \in Loops |-> "none"] /\ loop = [l \in Loops |-> "off"]
    /\ pos = [l \in Loops |-> 0] /\ batch = [l \in Loops |-> <<>>]
    /\ undo = [l \in Loops |-> "no"]

(* The system under test publishes a message of its own. *)
Publish ==
    /\ Cardinality(Published) < MaxMessages
    /\ topic' = Append(topic, [msg |-> Cardinality(Published) + 1, by |-> "sut"])
    /\ UNCHANGED <<consumer, loop, pos, batch, undo>>

CreateConsumer(l) ==
    /\ loop[l] = "off" /\ consumer[l] = "none"
    /\ \/ consumer' = [consumer EXCEPT ![l] = "created"] /\ UNCHANGED loop
       \/ loop' = [loop EXCEPT ![l] = "failed"] /\ UNCHANGED consumer
    /\ UNCHANGED <<topic, pos, batch, undo>>

(* A subscription that fails deletes the consumer again. *)
Subscribe(l) ==
    /\ loop[l] = "off" /\ consumer[l] = "created"
    /\ \/ /\ consumer' = [consumer EXCEPT ![l] = "subscribed"]
          /\ loop' = [loop EXCEPT ![l] = "select"]
       \/ /\ consumer' = [consumer EXCEPT ![l] = "deleted"]
          /\ loop' = [loop EXCEPT ![l] = "failed"]
    /\ UNCHANGED <<topic, pos, batch, undo>>

(* The ticker: one poll, which may give nothing back.  With stop closed as *)
(* well, select takes either.                                              *)
Tick(l) ==
    /\ loop[l] = "select"
    /\ \E n \in pos[l]..Len(topic) :
         /\ batch' = [batch EXCEPT ![l] = SubSeq(topic, pos[l] + 1, n)]
         /\ pos' = [pos EXCEPT ![l] = n]
    /\ loop' = [loop EXCEPT ![l] = "publish"]
    /\ UNCHANGED <<topic, consumer, undo>>

(* Mutant: a loop recognises only its own copies. *)
Redeliver_OwnMark(l) ==
    /\ loop[l] = "publish" /\ batch[l] # <<>>
    /\ batch' = [batch EXCEPT ![l] = Tail(@)]
    /\ \/ Head(batch[l]).by # l
          /\ topic' = Append(topic, [msg |-> Head(batch[l]).msg, by |-> l])
       \/ UNCHANGED topic
    /\ UNCHANGED <<consumer, loop, pos, undo>>

(* redeliverOnce's loop: a marked copy is skipped, anything else is        *)
(* published again or not as the roll says.                                *)
Redeliver(l) ==
    /\ loop[l] = "publish" /\ batch[l] # <<>>
    /\ batch' = [batch EXCEPT ![l] = Tail(@)]
    /\ \/ Head(batch[l]).by = "sut"
          /\ topic' = Append(topic, [msg |-> Head(batch[l]).msg, by |-> l])
       \/ UNCHANGED topic
    /\ UNCHANGED <<consumer, loop, pos, undo>>

BatchOver(l) ==
    /\ loop[l] = "publish" /\ batch[l] = <<>>
    /\ loop' = [loop EXCEPT ![l] = "select"]
    /\ UNCHANGED <<topic, consumer, pos, batch, undo>>

(* Mutant: the goroutine returns without closing done. *)
Stop_NoDone(l) ==
    /\ loop[l] = "select" /\ undo[l] = "waiting"
    /\ loop' = [loop EXCEPT ![l] = "failed"]
    /\ UNCHANGED <<topic, consumer, pos, batch, undo>>

(* select finds stop closed; the deferred close(done). *)
Stop(l) ==
    /\ loop[l] = "select" /\ undo[l] = "waiting"
    /\ loop' = [loop EXCEPT ![l] = "done"]
    /\ UNCHANGED <<topic, consumer, pos, batch, undo>>

(* stopOnce.Do: close(stop). *)
Undo(l) ==
    /\ loop[l] \in {"select", "publish"} /\ undo[l] = "no"
    /\ undo' = [undo EXCEPT ![l] = "waiting"]
    /\ UNCHANGED <<topic, consumer, loop, pos, batch>>

(* Mutant: the undo does not wait for the loop. *)
UndoReturns_NoWait(l) ==
    /\ undo[l] = "waiting"
    /\ undo' = [undo EXCEPT ![l] = "returned"]
    /\ consumer' = [consumer EXCEPT ![l] = "deleted"]
    /\ UNCHANGED <<topic, loop, pos, batch>>

(* <-done, then the consumer is deleted. *)
UndoReturns(l) ==
    /\ undo[l] = "waiting" /\ loop[l] = "done"
    /\ undo' = [undo EXCEPT ![l] = "returned"]
    /\ consumer' = [consumer EXCEPT ![l] = "deleted"]
    /\ UNCHANGED <<topic, loop, pos, batch>>

LoopStep(l) ==
    \/ CreateConsumer(l) \/ Subscribe(l) \/ Tick(l) \/ Redeliver(l) \/ BatchOver(l)
    \/ Stop(l) \/ UndoReturns(l)

LoopsOver ==
    /\ \A l \in Loops : loop[l] = "failed" \/ undo[l] = "returned"
    /\ UNCHANGED loopVars

LoopNext == Publish \/ (\E l \in Loops : LoopStep(l) \/ Undo(l)) \/ LoopsOver

LoopSpec == LoopInit /\ [][LoopNext]_loopVars

-----------------------------------------------------------------------------

(* R-EXE-5: "no further copy is produced after undo returns".               *)
NoCopyAfterUndo ==
    [][\A l \in Loops : undo[l] = "returned" =>
         \A i \in (Len(topic) + 1)..Len(topic') : topic'[i].by # l]_loopVars

(* duplicatePrefix's comment, amplification has a bound: however the loops  *)
(* feed on each other's output, each copies a message once at most.         *)
AmplificationBounded ==
    \A l \in Loops, m \in Originals :
        Cardinality({i \in DOMAIN topic : topic[i] = [msg |-> m, by |-> l]}) <= 1

(* R-EXE-5: an undo that was asked for returns, also in the middle of a     *)
(* batch.                                                                   *)
UndoEnds == \A l \in Loops : undo[l] = "waiting" ~> undo[l] = "returned"

=============================================================================
