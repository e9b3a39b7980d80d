------------------------- MODULE CoordinatorChannel -------------------------
(***************************************************************************)
(* The channel from the PHP worker processes to the coordinator process:   *)
(* ChunkedMessageProcessor cuts a message into chunks and puts them back   *)
(* together, CoordinatorProcess carries the chunks through a bounded       *)
(* message queue in shared memory that all workers write and only the      *)
(* coordinator reads.                                                      *)
(*                                                                         *)
(* A chunk is sent in one step, so the chunks of different workers         *)
(* interleave in the queue.  Contents are abstracted to their origin: a    *)
(* piece names the message, offset and length its bytes were copied from.  *)
(***************************************************************************)
EXTENDS Integers, SequencesExt

CONSTANTS
  Workers,     \* processes that send
  Messages,    \* messages, each handed to sendPayload at most once
  Total,       \* Total[m]: bytes of m, which is a serialized command, never empty
  ChunkData,   \* sizeof(CoordinatorPayload::payload)
  QueueSize,   \* maxQueueSize
  MasterPid,   \* pid of the process that constructs the CoordinatorProcess
  Respawn,     \* TRUE iff a worker may be killed and replaced by a new fork
  NoMessage    \* the worker is not in sendPayload

ASSUME ChannelAssumption ==
  /\ Total \in [Messages -> Nat \ {0}]
  /\ ChunkData \in Nat \ {0}
  /\ QueueSize \in Nat \ {0}
  /\ Respawn \in BOOLEAN
  /\ NoMessage \notin Messages

VARIABLES
  msgId,      \* msgId_ of each worker's copy of the processor
  current,    \* the message a worker is sending
  offset,     \* chunk.payloadOffset of the worker's next chunk
  mq,         \* the message queue in shared memory
  partial,    \* recievedMessages_: the messages still being put together
  parent,     \* TRUE while the coordinator's parent process is alive
  working,    \* TRUE while the coordinator's loop runs
  offered,    \* history: messages handed to sendPayload, in order
  reported,   \* history: messages sendPayload returned TRUE for
  dropped,    \* history: messages that lost a chunk to a full queue
  damaged,    \* history: messages cut short by their sender or cleaned up
  delivered   \* history: what was handed to processMessage_, in order

workerVars == <<msgId, current, offset, offered, reported>>
coordinatorVars == <<partial, parent, working, delivered>>
vars == <<workerVars, coordinatorVars, mq, dropped, damaged>>

\* senderProcessId_ = getpid() runs once, in the process that constructs the
\* processor; the workers are forked from it later and copy the value.
SenderProcessId(w) == MasterPid

\* struct CoordinatorPayload.
Chunk == [pid : {SenderProcessId(w) : w \in Workers}, msgId : Nat, total : Nat \ {0},
          offset : Nat, len : Nat \ {0}, msg : Messages]

\* class ChunkedMessage, with its key in recievedMessages_.  stale: more than
\* the cleanup's maximum age has passed since lastUpdated_.
Piece == [msg : Messages, offset : Nat, len : Nat \ {0}]
Entry == [pid : {SenderProcessId(w) : w \in Workers}, msgId : Nat, total : Nat \ {0},
          size : Nat, pieces : Seq(Piece), stale : BOOLEAN]

Init ==
  /\ msgId = [w \in Workers |-> 0]
  /\ current = [w \in Workers |-> NoMessage]
  /\ offset = [w \in Workers |-> 0]
  /\ mq = <<>>
  /\ partial = {}
  /\ parent = TRUE /\ working = TRUE
  /\ offered = <<>> /\ reported = {} /\ dropped = {} /\ damaged = {}
  /\ delivered = <<>>

-----------------------------------------------------------------------------
(* A worker: sendPayload.                                                  *)

\* Mutant of StartSend: msgId_ is not incremented.
StartSendSameId(w, m) ==
  /\ current[w] = NoMessage
  /\ m \notin ToSet(offered)
  /\ current' = [current EXCEPT ![w] = m]
  /\ offset' = [offset EXCEPT ![w] = 0]
  /\ offered' = Append(offered, m)
  /\ UNCHANGED <<msgId, reported, coordinatorVars, mq, dropped, damaged>>

StartSend(w, m) ==
  /\ current[w] = NoMessage
  /\ m \notin ToSet(offered)
  /\ msgId' = [msgId EXCEPT ![w] = @ + 1]
  /\ current' = [current EXCEPT ![w] = m]
  /\ offset' = [offset EXCEPT ![w] = 0]
  /\ offered' = Append(offered, m)
  /\ UNCHANGED <<reported, coordinatorVars, mq, dropped, damaged>>

\* Mutant of ChunkSize: the room in a chunk is one byte less than it is.
ChunkSizeSmaller(w) ==
  IF Total[current[w]] - offset[w] < ChunkData - 1
  THEN Total[current[w]] - offset[w] ELSE ChunkData - 1

\* std::min(dataPayloadSize, payload.size() - chunk.payloadOffset)
ChunkSize(w) ==
  IF Total[current[w]] - offset[w] < ChunkData THEN Total[current[w]] - offset[w] ELSE ChunkData

NextChunk(w) ==
  [pid |-> SenderProcessId(w), msgId |-> msgId[w], total |-> Total[current[w]],
   offset |-> offset[w], len |-> ChunkSize(w), msg |-> current[w]]

\* enqueueMessage: try_send returns false when the queue is full; the result
\* is not looked at and the chunk is gone.
TrySend(w) ==
  IF Len(mq) < QueueSize
  THEN mq' = Append(mq, NextChunk(w)) /\ UNCHANGED dropped
  ELSE dropped' = dropped \cup {current[w]} /\ UNCHANGED mq

\* Mutant of SendChunk: the loop's condition is <= instead of <.
SendChunkOnceMore(w) ==
  /\ current[w] # NoMessage
  /\ TrySend(w)
  /\ LET sentTo == offset[w] + ChunkSize(w)
         done == offset[w] = Total[current[w]]
     IN  /\ offset' = [offset EXCEPT ![w] = IF done THEN 0 ELSE sentTo]
         /\ current' = [current EXCEPT ![w] = IF done THEN NoMessage ELSE @]
         /\ reported' = IF done THEN reported \cup {current[w]} ELSE reported
  /\ UNCHANGED <<msgId, offered, coordinatorVars, damaged>>

\* One turn of sendPayload's loop, the last of which returns true.
SendChunk(w) ==
  /\ current[w] # NoMessage
  /\ TrySend(w)
  /\ LET sentTo == offset[w] + ChunkSize(w)
         done == sentTo = Total[current[w]]
     IN  /\ offset' = [offset EXCEPT ![w] = IF done THEN 0 ELSE sentTo]
         /\ current' = [current EXCEPT ![w] = IF done THEN NoMessage ELSE @]
         /\ reported' = IF done THEN reported \cup {current[w]} ELSE reported
  /\ UNCHANGED <<msgId, offered, coordinatorVars, damaged>>

\* The worker gives the message up where it stands.
Abandon(w) ==
  /\ current[w] # NoMessage
  /\ damaged' = damaged \cup {current[w]}
  /\ current' = [current EXCEPT ![w] = NoMessage]
  /\ offset' = [offset EXCEPT ![w] = 0]

\* try_send throws interprocess_exception: sendPayload returns false.
SendFails(w) ==
  /\ Abandon(w)
  /\ UNCHANGED <<msgId, offered, reported, coordinatorVars, mq, dropped>>

\* The worker is killed, or has served its share of requests; the process
\* manager forks another from the master, whose counter never moved.
WorkerReplaced(w) ==
  /\ Respawn
  /\ msgId' = [msgId EXCEPT ![w] = 0]
  /\ \/ Abandon(w)
     \/ current[w] = NoMessage /\ msgId[w] # 0 /\ UNCHANGED <<current, offset, damaged>>
  /\ UNCHANGED <<offered, reported, coordinatorVars, mq, dropped>>

-----------------------------------------------------------------------------
(* The coordinator: coordinatorLoop and processReceivedChunk.              *)

SameKey(e, c) == e.pid = c.pid /\ e.msgId = c.msgId

\* recievedMessages_[pid].find(msgId), or the entry emplaced for a first
\* chunk, whose lastUpdated_ is the clock's epoch.
EntryFor(c) ==
  IF \E e \in partial : SameKey(e, c)
  THEN CHOOSE e \in partial : SameKey(e, c)
  ELSE [pid |-> c.pid, msgId |-> c.msgId, total |-> c.total, size |-> 0,
        pieces |-> <<>>, stale |-> TRUE]

OtherEntries(c) == {e \in partial : ~SameKey(e, c)}

\* Mutant of Fits: the offset is not checked.
FitsAnyOffset(e, c) ==
  /\ c.offset + c.len <= c.total
  /\ e.size + c.len <= e.total

\* Mutant of Fits: the last chunk is turned away.
FitsStrictly(e, c) ==
  /\ e.size = c.offset
  /\ c.offset + c.len <= c.total
  /\ e.size + c.len < e.total

\* The three checks that throw: the offset, the chunk's own total, and in
\* addNextChunk the total of the entry, which the first chunk has set.
Fits(e, c) ==
  /\ e.size = c.offset
  /\ c.offset + c.len <= c.total
  /\ e.size + c.len <= e.total

\* addNextChunk.
Extended(e, c) ==
  [e EXCEPT !.size = @ + c.len,
            !.pieces = Append(@, [msg |-> c.msg, offset |-> c.offset, len |-> c.len]),
            !.stale = FALSE]

\* Mutant of Receive: the chunk is read and stays in the queue.
ReceivePeeks(c) ==
  /\ working
  /\ mq # <<>> /\ c = Head(mq)
  /\ UNCHANGED <<workerVars, parent, working, mq, dropped, damaged>>

\* timed_receive takes the chunk that waited longest.
Receive(c) ==
  /\ working
  /\ mq # <<>> /\ c = Head(mq)
  /\ mq' = Tail(mq)
  /\ UNCHANGED <<workerVars, parent, working, dropped, damaged>>

\* A check throws after the entry was emplaced; the loop goes on.
ReceiveRejected(c) ==
  /\ Receive(c)
  /\ ~Fits(EntryFor(c), c)
  /\ partial' = OtherEntries(c) \cup {EntryFor(c)}
  /\ UNCHANGED delivered

ReceiveStored(c) ==
  /\ Receive(c)
  /\ Fits(EntryFor(c), c)
  /\ LET e == Extended(EntryFor(c), c)
     IN  e.size # e.total /\ partial' = OtherEntries(c) \cup {e}
  /\ UNCHANGED delivered

\* The message is complete: erase it, unlock, process it.
ReceiveComplete(c) ==
  /\ Receive(c)
  /\ Fits(EntryFor(c), c)
  /\ LET e == Extended(EntryFor(c), c)
     IN  /\ e.size = e.total
         /\ partial' = OtherEntries(c)
         /\ delivered' = Append(delivered, e.pieces)

-----------------------------------------------------------------------------
(* The coordinator's periodic task.                                        *)

\* Ten seconds pass without a chunk for entry e.
GrowStale(e) ==
  /\ ~e.stale
  /\ partial' = (partial \ {e}) \cup {[e EXCEPT !.stale = TRUE]}
  /\ UNCHANGED <<workerVars, parent, working, delivered, mq, dropped, damaged>>

PiecesOf(entries) == UNION {{p.msg : p \in ToSet(e.pieces)} : e \in entries}

\* Mutant of Cleanup: an entry without data is left in the map.
CleanupSkipsEmpty ==
  /\ working
  /\ \E e \in partial : e.stale
  /\ LET old == {e \in partial : e.stale /\ e.pieces # <<>>}
     IN  /\ partial' = partial \ old
         /\ damaged' = damaged \cup PiecesOf(old)
  /\ UNCHANGED <<workerVars, parent, working, delivered, mq, dropped>>

\* cleanupAbandonedMessages erases what is stale.
Cleanup ==
  /\ working
  /\ \E e \in partial : e.stale
  /\ LET old == {e \in partial : e.stale}
     IN  /\ partial' = partial \ old
         /\ damaged' = damaged \cup PiecesOf(old)
  /\ UNCHANGED <<workerVars, parent, working, delivered, mq, dropped>>

ParentDies ==
  /\ parent
  /\ parent' = FALSE
  /\ UNCHANGED <<workerVars, partial, working, delivered, mq, dropped, damaged>>

\* getppid() is not the parent any more: the loop ends, the queue is left.
CoordinatorStops ==
  /\ working /\ ~parent
  /\ working' = FALSE
  /\ UNCHANGED <<workerVars, partial, parent, delivered, mq, dropped, damaged>>

-----------------------------------------------------------------------------
WorkerNext(w) ==
  \/ \E m \in Messages : StartSend(w, m)
  \/ SendChunk(w)
  \/ SendFails(w)
  \/ WorkerReplaced(w)

ReceiveNext ==
  \E c \in ToSet(mq) : ReceiveRejected(c) \/ ReceiveStored(c) \/ ReceiveComplete(c)

Next ==
  \/ \E w \in Workers : WorkerNext(w)
  \/ ReceiveNext
  \/ \E e \in partial : GrowStale(e)
  \/ Cleanup
  \/ ParentDies
  \/ CoordinatorStops

\* The coordinator's two threads run for as long as it lives, time passes, and
\* a worker inside sendPayload goes on (or is replaced).
Fairness ==
  /\ WF_vars(ReceiveNext)
  /\ WF_vars(Cleanup)
  /\ WF_vars(\E e \in partial : GrowStale(e))
  /\ WF_vars(CoordinatorStops)
  /\ \A w \in Workers : WF_vars(SendChunk(w))

Spec == Init /\ [][Next]_vars /\ Fairness

-----------------------------------------------------------------------------
(* Properties.                                                             *)

\* Every variable keeps its type, the queue its limit, and a worker that is in
\* sendPayload has something left to send.
TypeOK ==
  /\ msgId \in [Workers -> Nat]
  /\ current \in [Workers -> Messages \cup {NoMessage}]
  /\ offset \in [Workers -> Nat]
  /\ mq \in Seq(Chunk) /\ Len(mq) <= QueueSize
  /\ partial \subseteq Entry
  /\ parent \in BOOLEAN /\ working \in BOOLEAN
  /\ offered \in Seq(Messages)
  /\ reported \subseteq Messages /\ dropped \subseteq Messages
  /\ damaged \subseteq Messages
  /\ delivered \in Seq(Seq(Piece))
  /\ \A w \in Workers : current[w] # NoMessage => offset[w] < Total[current[w]]

\* The offset just after the last piece.
End(pieces) ==
  IF pieces = <<>> THEN 0 ELSE pieces[Len(pieces)].offset + pieces[Len(pieces)].len

\* The pieces lie end to end, the first at offset 0.
Contiguous(pieces) ==
  \A i \in 1 .. Len(pieces) :
    pieces[i].offset = IF i = 1 THEN 0 ELSE pieces[i-1].offset + pieces[i-1].len

\* Whatever chunks are lost, rejected or mixed, an entry holds a gapless prefix
\* and is kept only while incomplete: no complete message waits undelivered,
\* there is one entry per key, and nothing is delivered with a hole in it.
ReassemblySound ==
  /\ \A e \in partial : Contiguous(e.pieces) /\ End(e.pieces) = e.size /\ e.size < e.total
  /\ \A e, f \in partial : SameKey(e, f) => e = f
  /\ \A i \in 1 .. Len(delivered) : delivered[i] # <<>> /\ Contiguous(delivered[i])

\* The pieces of message m and nothing else, all of it.
Whole(pieces, m) ==
  /\ Contiguous(pieces) /\ End(pieces) = Total[m]
  /\ \A i \in 1 .. Len(pieces) : pieces[i].msg = m

\* Every message handed to the dispatcher is byte for byte one message that a
\* worker sent.
Intact ==
  \A i \in 1 .. Len(delivered) : \E m \in Messages : Whole(delivered[i], m)

\* No message reaches the dispatcher twice.
AtMostOnce ==
  \A i, j \in 1 .. Len(delivered) :
    \A m \in Messages : Whole(delivered[i], m) /\ Whole(delivered[j], m) => i = j

\* The message a delivered sequence of pieces stands for; NoMessage if it is
\* not one that was sent.
DeliveredMessage(pieces) ==
  IF \E m \in Messages : Whole(pieces, m)
  THEN CHOOSE m \in Messages : Whole(pieces, m) ELSE NoMessage

Abstract == INSTANCE MessageChannel WITH
  arrived <- [i \in 1 .. Len(delivered) |-> DeliveredMessage(delivered[i])]

\* The channel, used by one sender that is never replaced (the command line
\* program, which is the coordinator's parent itself), implements the lossy,
\* ordered, at-most-once channel.
ImplementsMessageChannel == Abstract!Spec

IsDelivered(m) == \E i \in 1 .. Len(delivered) : Whole(delivered[i], m)

\* A message none of whose chunks met a full queue, a failing queue, a dying
\* worker, or the cleanup, is delivered, unless the coordinator stops first:
\* the checks never turn away a chunk of a message that lost nothing.
UndamagedArrives ==
  \A m \in Messages :
    (m \in ToSet(offered)) ~>
      (IsDelivered(m) \/ m \in dropped \cup damaged \/ ~working)

\* An entry that is never completed is cleaned up: while the coordinator runs,
\* no key stays in the map for ever.
AbandonedCleaned ==
  \A id \in 1 .. Cardinality(Messages) :
    (\E e \in partial : e.msgId = id) ~> (~working \/ \A e \in partial : e.msgId # id)

\* sendPayload returns true only if every chunk entered the queue, as its
\* callers take it, who warn that they drop the payload otherwise.
ReportedWasQueued == reported \cap dropped = {}

=============================================================================
