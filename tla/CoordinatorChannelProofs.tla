----------------------- MODULE CoordinatorChannelProofs -----------------------
(***************************************************************************)
(* Machine-checked proofs about CoordinatorChannel, for any number of      *)
(* workers and messages, every message length, chunk size and queue size,  *)
(* and whatever chunks are lost, mixed or left by workers that died.       *)
(***************************************************************************)
EXTENDS CoordinatorChannel, TLAPS

-----------------------------------------------------------------------------
(* The worker's side.                                                      *)

\* A worker inside sendPayload cuts a chunk that is well typed, not empty, and
\* ends no later than its message.
LEMMA NextChunkType ==
  ASSUME TypeOK, NEW w \in Workers, current[w] # NoMessage
  PROVE  /\ current[w] \in Messages
         /\ NextChunk(w) \in Chunk
         /\ offset[w] + ChunkSize(w) <= Total[current[w]]
         /\ offset[w] + ChunkSize(w) \in Nat
<1>1. /\ current[w] \in Messages
      /\ offset[w] \in Nat /\ Total[current[w]] \in Nat \ {0} /\ offset[w] < Total[current[w]]
      /\ ChunkData \in Nat \ {0} /\ msgId[w] \in Nat
  BY ChannelAssumption DEF TypeOK
<1>2. /\ ChunkSize(w) \in Nat \ {0}
      /\ offset[w] + ChunkSize(w) <= Total[current[w]]
      /\ offset[w] + ChunkSize(w) \in Nat
  BY <1>1 DEF ChunkSize
<1> QED
  BY <1>1, <1>2 DEF NextChunk, Chunk

\* Every step of a worker keeps the types.
LEMMA WorkerType ==
  ASSUME TypeOK, NEW w \in Workers, WorkerNext(w)
  PROVE  TypeOK'
<1>1. ASSUME NEW m \in Messages, StartSend(w, m) PROVE TypeOK'
  <2>1. offered' \in Seq(Messages)
    BY <1>1 DEF StartSend, TypeOK
  <2>2. /\ msgId' \in [Workers -> Nat] /\ offset' \in [Workers -> Nat]
        /\ current' \in [Workers -> Messages \cup {NoMessage}]
    BY <1>1 DEF StartSend, TypeOK
  <2>3. \A v \in Workers : current'[v] # NoMessage => offset'[v] < Total[current'[v]]
    BY <1>1, ChannelAssumption DEF StartSend, TypeOK
  <2> QED
    BY <1>1, <2>1, <2>2, <2>3 DEF StartSend, coordinatorVars, TypeOK
<1>2. CASE SendChunk(w)
  <2> DEFINE sentTo == offset[w] + ChunkSize(w)
             done == sentTo = Total[current[w]]
  <2>1. /\ current[w] \in Messages /\ NextChunk(w) \in Chunk
        /\ sentTo <= Total[current[w]] /\ sentTo \in Nat
    BY <1>2, NextChunkType DEF SendChunk
  <2>2. /\ offset' = [offset EXCEPT ![w] = IF done THEN 0 ELSE sentTo]
        /\ current' = [current EXCEPT ![w] = IF done THEN NoMessage ELSE @]
        /\ reported' = IF done THEN reported \cup {current[w]} ELSE reported
        /\ UNCHANGED <<msgId, offered, coordinatorVars, damaged>>
    BY <1>2 DEF SendChunk
  <2>3. mq' \in Seq(Chunk) /\ Len(mq') <= QueueSize /\ dropped' \subseteq Messages
    <3>1. CASE Len(mq) < QueueSize /\ mq' = Append(mq, NextChunk(w)) /\ UNCHANGED dropped
      BY <2>1, <3>1, ChannelAssumption DEF TypeOK
    <3>2. CASE dropped' = dropped \cup {current[w]} /\ UNCHANGED mq
      BY <2>1, <3>2 DEF TypeOK
    <3> QED
      BY <1>2, <3>1, <3>2 DEF SendChunk, TrySend
  <2> HIDE DEF sentTo
  <2>4. /\ offset' \in [Workers -> Nat]
        /\ current' \in [Workers -> Messages \cup {NoMessage}]
        /\ reported' \subseteq Messages
    BY <2>1, <2>2 DEF TypeOK
  <2>5. \A v \in Workers : current'[v] # NoMessage => offset'[v] < Total[current'[v]]
    <3>1. Total[current[w]] \in Nat
      BY <2>1, ChannelAssumption
    <3> QED
      BY <2>1, <2>2, <3>1, ChannelAssumption DEF TypeOK
  <2> QED
    BY <2>2, <2>3, <2>4, <2>5 DEF coordinatorVars, TypeOK
<1>3. ASSUME Abandon(w), msgId' \in [Workers -> Nat],
             UNCHANGED <<offered, reported, coordinatorVars, mq, dropped>>
      PROVE  TypeOK'
  <2>1. current[w] \in Messages
    BY <1>3 DEF Abandon, TypeOK
  <2> QED
    BY <1>3, <2>1 DEF Abandon, coordinatorVars, TypeOK
<1>4. CASE SendFails(w)
  BY <1>3, <1>4 DEF SendFails, TypeOK
<1>5. CASE WorkerReplaced(w)
  <2>1. msgId' \in [Workers -> Nat]
    BY <1>5 DEF WorkerReplaced, TypeOK
  <2>2. CASE UNCHANGED <<current, offset, damaged>>
    BY <1>5, <2>1, <2>2 DEF WorkerReplaced, coordinatorVars, TypeOK
  <2> QED
    BY <1>3, <1>5, <2>1, <2>2 DEF WorkerReplaced
<1> QED
  BY <1>1, <1>2, <1>4, <1>5 DEF WorkerNext

-----------------------------------------------------------------------------
(* The coordinator's side.                                                 *)

\* The entry a chunk is added to is well typed and has the chunk's key; it is
\* one of the entries kept so far, or a fresh and empty one.
LEMMA EntryForType ==
  ASSUME NEW c \in Chunk, partial \subseteq Entry
  PROVE  /\ EntryFor(c) \in Entry /\ SameKey(EntryFor(c), c)
         /\ \/ EntryFor(c) \in partial
            \/ /\ EntryFor(c).pieces = <<>> /\ EntryFor(c).size = 0
               /\ EntryFor(c).total = c.total
<1>1. CASE \E e \in partial : SameKey(e, c)
  BY <1>1 DEF EntryFor
<1>2. CASE ~ \E e \in partial : SameKey(e, c)
  BY <1>2 DEF EntryFor, Entry, Chunk, SameKey
<1> QED
  BY <1>1, <1>2

\* What addNextChunk makes of an entry and a chunk.
LEMMA ExtendedType ==
  ASSUME NEW e \in Entry, NEW c \in Chunk
  PROVE  /\ Extended(e, c) \in Entry
         /\ Extended(e, c).pid = e.pid /\ Extended(e, c).msgId = e.msgId
         /\ Extended(e, c).total = e.total /\ Extended(e, c).size = e.size + c.len
         /\ Extended(e, c).pieces = Append(e.pieces, [msg |-> c.msg, offset |-> c.offset,
                                                      len |-> c.len])
<1>1. [msg |-> c.msg, offset |-> c.offset, len |-> c.len] \in Piece
  BY DEF Piece, Chunk
<1>2. Append(e.pieces, [msg |-> c.msg, offset |-> c.offset, len |-> c.len]) \in Seq(Piece)
  BY <1>1 DEF Entry
<1>3. e.size + c.len \in Nat
  BY DEF Entry, Chunk
<1> QED
  BY <1>2, <1>3 DEF Extended, Entry

\* A chunk the coordinator takes is well typed, and the rest stays so.
LEMMA ReceiveType ==
  ASSUME TypeOK, NEW c \in ToSet(mq), Receive(c)
  PROVE  /\ c \in Chunk
         /\ mq' \in Seq(Chunk) /\ Len(mq') <= QueueSize
         /\ UNCHANGED <<workerVars, parent, working, dropped, damaged>>
BY ChannelAssumption DEF TypeOK, Receive, ToSet

\* Every step of the coordinator keeps the types.
LEMMA ReceiveKeepsType == ASSUME TypeOK, ReceiveNext PROVE TypeOK'
<1> PICK c \in ToSet(mq) : ReceiveRejected(c) \/ ReceiveStored(c) \/ ReceiveComplete(c)
  BY DEF ReceiveNext
<1>1. Receive(c)
  BY DEF ReceiveRejected, ReceiveStored, ReceiveComplete
<1>2. /\ c \in Chunk /\ mq' \in Seq(Chunk) /\ Len(mq') <= QueueSize
      /\ UNCHANGED <<workerVars, parent, working, dropped, damaged>>
  BY <1>1, ReceiveType
<1>3. /\ EntryFor(c) \in Entry /\ OtherEntries(c) \subseteq Entry
      /\ Extended(EntryFor(c), c) \in Entry
  BY <1>2, EntryForType, ExtendedType DEF TypeOK, OtherEntries
<1>4. partial' \subseteq Entry
  BY <1>3 DEF ReceiveRejected, ReceiveStored, ReceiveComplete
<1>5. delivered' \in Seq(Seq(Piece))
  <2>1. Extended(EntryFor(c), c).pieces \in Seq(Piece)
    BY <1>3 DEF Entry
  <2>2. delivered \in Seq(Seq(Piece))
    BY DEF TypeOK
  <2>3. Append(delivered, Extended(EntryFor(c), c).pieces) \in Seq(Seq(Piece))
    BY <2>1, <2>2
  <2> QED
    BY <2>2, <2>3 DEF ReceiveRejected, ReceiveStored, ReceiveComplete
<1> QED
  BY <1>2, <1>4, <1>5 DEF workerVars, TypeOK

\* Steps of time, of the cleanup and of the parent keep the types.
LEMMA PeriodicKeepsType ==
  ASSUME TypeOK, (\E e \in partial : GrowStale(e)) \/ Cleanup \/ ParentDies \/ CoordinatorStops
  PROVE  TypeOK'
<1>1. ASSUME NEW e \in partial, GrowStale(e) PROVE TypeOK'
  <2>1. [e EXCEPT !.stale = TRUE] \in Entry
    BY DEF TypeOK, Entry
  <2> QED
    BY <1>1, <2>1 DEF GrowStale, workerVars, TypeOK
<1>2. CASE Cleanup
  <2>1. ASSUME NEW old \in SUBSET partial PROVE PiecesOf(old) \subseteq Messages
    <3>1. ASSUME NEW e \in old, NEW x \in ToSet(e.pieces) PROVE x.msg \in Messages
      <4>1. e.pieces \in Seq(Piece)
        BY DEF TypeOK, Entry
      <4>2. x \in Piece
        BY <4>1 DEF ToSet
      <4> QED
        BY <4>2 DEF Piece
    <3> QED
      BY <3>1 DEF PiecesOf
  <2> QED
    BY <1>2, <2>1 DEF Cleanup, workerVars, TypeOK
<1>3. CASE ParentDies \/ CoordinatorStops
  BY <1>3 DEF ParentDies, CoordinatorStops, workerVars, TypeOK
<1> QED
  BY <1>1, <1>2, <1>3

\* Every variable keeps its type, and the queue never holds more chunks than
\* it has places, whatever the workers and the coordinator do.
THEOREM ChannelTypeCorrect == Spec => []TypeOK
<1>1. Init => TypeOK
  BY ChannelAssumption DEF Init, TypeOK
<1>2. TypeOK /\ [Next]_vars => TypeOK'
  <2> SUFFICES ASSUME TypeOK, [Next]_vars PROVE TypeOK'
    OBVIOUS
  <2>1. CASE UNCHANGED vars
    BY <2>1 DEF vars, workerVars, coordinatorVars, TypeOK
  <2> QED
    BY <2>1, WorkerType, ReceiveKeepsType, PeriodicKeepsType DEF Next
<1> QED
  BY <1>1, <1>2, PTL DEF Spec

-----------------------------------------------------------------------------
(* Reassembly.                                                             *)

\* What ReassemblySound says of one entry.
Prefix(e) == Contiguous(e.pieces) /\ End(e.pieces) = e.size /\ e.size < e.total

\* An empty entry is a prefix of any message that has bytes.
LEMMA EmptyPrefix ==
  ASSUME NEW e \in Entry, e.pieces = <<>>, e.size = 0
  PROVE  Prefix(e)
BY DEF Prefix, Contiguous, End, Entry

\* A chunk that starts where the pieces end keeps them end to end.
LEMMA ExtendPrefix ==
  ASSUME NEW s \in Seq(Piece), NEW x \in Piece, Contiguous(s), x.offset = End(s)
  PROVE  Contiguous(Append(s, x)) /\ End(Append(s, x)) = x.offset + x.len /\ Append(s, x) # <<>>
<1> DEFINE t == Append(s, x)
           n == Len(s)
<1>1. /\ n \in Nat /\ Len(t) = n + 1 /\ t[n + 1] = x /\ t # <<>>
      /\ \A i \in 1 .. n : t[i] = s[i]
  OBVIOUS
<1> HIDE DEF t
<1>2. ASSUME NEW i \in 1 .. n + 1
      PROVE  t[i].offset = IF i = 1 THEN 0 ELSE t[i - 1].offset + t[i - 1].len
  <2>1. CASE i \in 1 .. n
    BY <1>1, <2>1 DEF Contiguous
  <2>2. CASE i = n + 1 /\ n = 0
    BY <1>1, <2>2 DEF End
  <2>3. CASE i = n + 1 /\ n # 0
    BY <1>1, <2>3 DEF End
  <2> QED
    BY <1>1, <2>1, <2>2, <2>3
<1>3. Contiguous(t)
  BY <1>1, <1>2 DEF Contiguous
<1>4. End(t) = x.offset + x.len
  BY <1>1 DEF End
<1> QED
  BY <1>1, <1>3, <1>4 DEF t

\* The map holds prefixes of messages under distinct keys.
MapSound ==
  /\ \A e \in partial : Prefix(e)
  /\ \A e, f \in partial : SameKey(e, f) => e = f

\* Putting an entry with a chunk's key in the place of the old one keeps the
\* map sound.
LEMMA Replaced ==
  ASSUME MapSound, NEW c \in Chunk, NEW e \in Entry, SameKey(e, c), Prefix(e),
         partial' = OtherEntries(c) \cup {e}
  PROVE  MapSound'
<1>1. \A f \in partial' : Prefix(f)
  BY DEF MapSound, OtherEntries
<1>2. \A f, g \in partial' : SameKey(f, g) => f = g
  BY DEF MapSound, OtherEntries, SameKey
<1> QED
  BY <1>1, <1>2 DEF MapSound, Prefix, Contiguous, End, SameKey

\* A chunk that passes the checks extends a prefix to a prefix, or completes it.
LEMMA DeliveredShape ==
  ASSUME TypeOK, ReassemblySound, NEW c \in ToSet(mq), Receive(c), Fits(EntryFor(c), c)
  PROVE  LET g == Extended(EntryFor(c), c)
         IN  /\ Contiguous(g.pieces) /\ End(g.pieces) = g.size
             /\ g.pieces # <<>> /\ g.size <= g.total
<1> DEFINE e == EntryFor(c)
           x == [msg |-> c.msg, offset |-> c.offset, len |-> c.len]
           g == Extended(e, c)
<1>1. c \in Chunk /\ partial \subseteq Entry
  BY ReceiveType DEF TypeOK
<1>2. e \in Entry /\ Prefix(e)
  BY <1>1, EntryForType, EmptyPrefix DEF ReassemblySound, Prefix
<1>3. /\ g.total = e.total /\ g.size = e.size + c.len
      /\ g.pieces = Append(e.pieces, x)
  BY <1>1, <1>2, ExtendedType
<1>4. Fits(e, c)
  OBVIOUS
<1> HIDE DEF e, g
<1>5. x \in Piece /\ e.pieces \in Seq(Piece) /\ x.offset = c.offset /\ x.len = c.len
  BY <1>1, <1>2 DEF Chunk, Piece, Entry
<1>6. x.offset = End(e.pieces) /\ Contiguous(e.pieces)
  BY <1>2, <1>4, <1>5 DEF Fits, Prefix
<1>7. /\ Contiguous(Append(e.pieces, x)) /\ Append(e.pieces, x) # <<>>
      /\ End(Append(e.pieces, x)) = x.offset + x.len
  BY <1>5, <1>6, ExtendPrefix
<1> QED
  BY <1>3, <1>4, <1>5, <1>7 DEF Fits, e, g

\* Receiving a chunk keeps the map sound and delivers only whole prefixes.
LEMMA ReceiveSound == ASSUME TypeOK, ReassemblySound, ReceiveNext PROVE ReassemblySound'
<1> PICK c \in ToSet(mq) : ReceiveRejected(c) \/ ReceiveStored(c) \/ ReceiveComplete(c)
  BY DEF ReceiveNext
<1> DEFINE e == EntryFor(c)
           x == [msg |-> c.msg, offset |-> c.offset, len |-> c.len]
           g == Extended(e, c)
<1>1. Receive(c)
  BY DEF ReceiveRejected, ReceiveStored, ReceiveComplete
<1>2. c \in Chunk /\ partial \subseteq Entry /\ delivered \in Seq(Seq(Piece))
  BY <1>1, ReceiveType DEF TypeOK
<1>3. MapSound
  BY DEF ReassemblySound, MapSound, Prefix
<1>4. e \in Entry /\ SameKey(e, c) /\ Prefix(e)
  BY <1>2, <1>3, EntryForType, EmptyPrefix DEF MapSound
<1>5. /\ g \in Entry /\ SameKey(g, c) /\ g.total = e.total /\ g.size = e.size + c.len
      /\ g.pieces = Append(e.pieces, x)
  BY <1>2, <1>4, ExtendedType DEF SameKey
<1>6. ASSUME Fits(e, c)
      PROVE  Contiguous(g.pieces) /\ End(g.pieces) = g.size /\ g.pieces # <<>> /\ g.size <= g.total
  BY <1>1, <1>6, DeliveredShape
<1> HIDE DEF e, x, g
<1>7. CASE ReceiveRejected(c)
  <2>1. partial' = OtherEntries(c) \cup {e} /\ UNCHANGED delivered
    BY <1>7 DEF ReceiveRejected, e
  <2> QED
    BY <1>2, <1>3, <1>4, <2>1, Replaced DEF ReassemblySound, MapSound, Prefix
<1>8. CASE ReceiveStored(c)
  <2>1. /\ Fits(e, c) /\ partial' = OtherEntries(c) \cup {g} /\ UNCHANGED delivered
        /\ g.size # g.total
    BY <1>8 DEF ReceiveStored, e, g
  <2>2. Prefix(g)
    BY <1>5, <1>6, <2>1 DEF Prefix, Entry
  <2> QED
    BY <1>2, <1>3, <1>5, <2>1, <2>2, Replaced DEF ReassemblySound, MapSound, Prefix
<1>9. CASE ReceiveComplete(c)
  <2>1. /\ Fits(e, c) /\ partial' = OtherEntries(c)
        /\ delivered' = Append(delivered, g.pieces)
    BY <1>9 DEF ReceiveComplete, e, g
  <2>2. \A i \in 1 .. Len(delivered') : delivered'[i] # <<>> /\ Contiguous(delivered'[i])
    <3>1. /\ Len(delivered') = Len(delivered) + 1 /\ delivered'[Len(delivered) + 1] = g.pieces
          /\ \A i \in 1 .. Len(delivered) : delivered'[i] = delivered[i]
          /\ Len(delivered) \in Nat
      <4>1. g.pieces \in Seq(Piece)
        BY <1>5 DEF Entry
      <4> QED
        BY <1>2, <2>1, <4>1
    <3>2. g.pieces # <<>> /\ Contiguous(g.pieces)
      BY <1>6, <2>1
    <3> QED
      BY <3>1, <3>2 DEF ReassemblySound
  <2>3. partial' \subseteq partial
    BY <2>1 DEF OtherEntries
  <2> QED
    BY <2>2, <2>3 DEF ReassemblySound
<1> QED
  BY <1>7, <1>8, <1>9

\* Time and the cleanup keep the map sound.
LEMMA PeriodicSound ==
  ASSUME TypeOK, ReassemblySound, (\E e \in partial : GrowStale(e)) \/ Cleanup
  PROVE  ReassemblySound'
<1>1. ASSUME NEW e \in partial, GrowStale(e) PROVE ReassemblySound'
  <2> DEFINE g == [e EXCEPT !.stale = TRUE]
  <2>1. /\ partial' = (partial \ {e}) \cup {g} /\ UNCHANGED delivered
        /\ g.pid = e.pid /\ g.msgId = e.msgId /\ g.pieces = e.pieces
        /\ g.size = e.size /\ g.total = e.total
    BY <1>1 DEF GrowStale, TypeOK, Entry
  <2> HIDE DEF g
  <2> QED
    BY <2>1 DEF ReassemblySound, SameKey
<1>2. CASE Cleanup
  BY <1>2 DEF Cleanup, ReassemblySound
<1> QED
  BY <1>1, <1>2

\* However the chunks of the workers are lost, turned away or interleaved, the
\* coordinator keeps gapless, incomplete prefixes under distinct keys, and
\* hands on nothing that has a hole in it.
THEOREM ReassemblyIsSound == Spec => []ReassemblySound
<1>1. Init => ReassemblySound
  BY DEF Init, ReassemblySound
<1>2. TypeOK /\ ReassemblySound /\ [Next]_vars => ReassemblySound'
  <2> SUFFICES ASSUME TypeOK, ReassemblySound, [Next]_vars PROVE ReassemblySound'
    OBVIOUS
  <2>1. CASE UNCHANGED <<partial, delivered>>
    BY <2>1 DEF ReassemblySound
  <2>2. ASSUME NEW w \in Workers, WorkerNext(w) PROVE UNCHANGED <<partial, delivered>>
    BY <2>2 DEF WorkerNext, StartSend, SendChunk, SendFails, WorkerReplaced, coordinatorVars
  <2>3. CASE ParentDies \/ CoordinatorStops \/ UNCHANGED vars
    BY <2>1, <2>3 DEF ParentDies, CoordinatorStops, vars, coordinatorVars
  <2> QED
    BY <2>1, <2>2, <2>3, ReceiveSound, PeriodicSound DEF Next
<1> QED
  BY <1>1, <1>2, ChannelTypeCorrect, PTL DEF Spec

-----------------------------------------------------------------------------
(* One sender that is never replaced.                                      *)

OneSender == ~Respawn /\ \E w : Workers = {w}

\* The message that was the i-th to be offered.
SentAs(id) == offered[id]

\* The number of a message tells which message it is: the worker numbers its
\* messages in the order of the calls, and chunks and entries carry the number
\* of the one message all their bytes are from.
Numbered ==
  /\ \A w \in Workers : msgId[w] = Len(offered)
  /\ \A w \in Workers : current[w] # NoMessage =>
       msgId[w] \in 1 .. Len(offered) /\ current[w] = SentAs(msgId[w])
  /\ \A c \in ToSet(mq) :
       c.msgId \in 1 .. Len(offered) /\ c.msg = SentAs(c.msgId) /\ c.total = Total[c.msg]
  /\ \A e \in partial :
       /\ e.msgId \in 1 .. Len(offered) /\ e.total = Total[SentAs(e.msgId)]
       /\ \A i \in 1 .. Len(e.pieces) : e.pieces[i].msg = SentAs(e.msgId)

\* The elements of a queue after one is appended, and after the head is taken.
LEMMA QueueElements ==
  ASSUME NEW S, NEW s \in Seq(S)
  PROVE  /\ \A x \in S : ToSet(Append(s, x)) \subseteq ToSet(s) \cup {x}
         /\ s # <<>> => ToSet(Tail(s)) \subseteq ToSet(s)
<1>1. ASSUME NEW x \in S PROVE ToSet(Append(s, x)) \subseteq ToSet(s) \cup {x}
  BY DEF ToSet
<1>2. ASSUME s # <<>> PROVE ToSet(Tail(s)) \subseteq ToSet(s)
  <2>1. /\ Len(s) \in Nat \ {0} /\ DOMAIN s = 1 .. Len(s) /\ DOMAIN Tail(s) = 1 .. Len(s) - 1
        /\ \A i \in 1 .. Len(s) - 1 : Tail(s)[i] = s[i + 1] /\ i + 1 \in 1 .. Len(s)
    BY <1>2
  <2> QED
    BY <2>1 DEF ToSet
<1> QED
  BY <1>1, <1>2

\* A step of the only worker keeps the numbering.
LEMMA WorkerNumbered ==
  ASSUME OneSender, TypeOK, Numbered, NEW w \in Workers, WorkerNext(w)
  PROVE  Numbered'
<1>0. Workers = {w} /\ ~Respawn
  BY DEF OneSender
<1>1. ASSUME NEW m \in Messages, StartSend(w, m) PROVE Numbered'
  <2>1. /\ offered' = Append(offered, m) /\ offered \in Seq(Messages)
        /\ msgId'[w] = msgId[w] + 1 /\ current'[w] = m /\ UNCHANGED <<mq, partial>>
    BY <1>1 DEF StartSend, coordinatorVars, TypeOK
  <2>2. /\ Len(offered') = Len(offered) + 1 /\ offered'[Len(offered) + 1] = m
        /\ Len(offered) \in Nat
        /\ \A i \in 1 .. Len(offered) : i \in 1 .. Len(offered') /\ offered'[i] = offered[i]
    BY <2>1
  <2>3. msgId[w] = Len(offered)
    BY DEF Numbered
  <2>4. \A v \in Workers : msgId'[v] = Len(offered') /\ msgId'[v] \in 1 .. Len(offered')
                           /\ current'[v] = offered'[msgId'[v]]
    BY <1>0, <2>1, <2>2, <2>3
  <2> QED
    BY <2>1, <2>2, <2>4 DEF Numbered, SentAs
<1>2. CASE SendChunk(w)
  <2>1. UNCHANGED <<msgId, offered, partial>> /\ current[w] # NoMessage
    BY <1>2 DEF SendChunk, coordinatorVars
  <2>2. current'[w] = current[w] \/ current'[w] = NoMessage
    BY <1>2 DEF SendChunk, TypeOK
  <2>3. ToSet(mq') \subseteq ToSet(mq) \cup {NextChunk(w)}
    <3>1. NextChunk(w) \in Chunk
      BY <2>1, NextChunkType
    <3> QED
      BY <1>2, <3>1, QueueElements DEF SendChunk, TrySend, TypeOK
  <2>4. /\ NextChunk(w).msgId = msgId[w] /\ NextChunk(w).msg = current[w]
        /\ NextChunk(w).total = Total[current[w]]
    BY DEF NextChunk
  <2> QED
    BY <1>0, <2>1, <2>2, <2>3, <2>4 DEF Numbered, SentAs
<1>3. CASE SendFails(w)
  BY <1>0, <1>3 DEF SendFails, Abandon, coordinatorVars, TypeOK, Numbered, SentAs
<1> QED
  BY <1>0, <1>1, <1>2, <1>3 DEF WorkerNext, WorkerReplaced

\* Whatever the coordinator does with the entry and the next chunk of its
\* message, all the bytes stay from that one message.
LEMMA ExtendedNumbered ==
  ASSUME TypeOK, Numbered, NEW c \in ToSet(mq), Receive(c)
  PROVE  LET e == EntryFor(c)
             g == Extended(e, c)
         IN  /\ \A f \in {e, g} :
                  /\ f \in Entry /\ f.msgId \in 1 .. Len(offered)
                  /\ f.total = Total[SentAs(f.msgId)]
                  /\ \A i \in 1 .. Len(f.pieces) : f.pieces[i].msg = SentAs(f.msgId)
<1> DEFINE e == EntryFor(c)
           g == Extended(e, c)
           x == [msg |-> c.msg, offset |-> c.offset, len |-> c.len]
<1>1. c \in Chunk /\ partial \subseteq Entry
  BY ReceiveType DEF TypeOK
<1>2. c.msgId \in 1 .. Len(offered) /\ c.msg = SentAs(c.msgId) /\ c.total = Total[c.msg]
  BY DEF Numbered
<1>3. e \in Entry /\ e.msgId = c.msgId
  BY <1>1, EntryForType DEF SameKey
<1>4. /\ e.total = Total[SentAs(e.msgId)]
      /\ \A i \in 1 .. Len(e.pieces) : e.pieces[i].msg = SentAs(e.msgId)
  <2>1. CASE e \in partial
    BY <2>1 DEF Numbered
  <2>2. CASE e.pieces = <<>> /\ e.total = c.total
    BY <1>2, <1>3, <2>2
  <2> QED
    BY <1>1, <2>1, <2>2, EntryForType
<1> HIDE DEF e, x
<1>5. /\ g \in Entry /\ g.msgId = e.msgId /\ g.total = e.total
      /\ g.pieces = Append(e.pieces, x)
  BY <1>1, <1>3, ExtendedType DEF x
<1> HIDE DEF g
<1>6. \A i \in 1 .. Len(g.pieces) : g.pieces[i].msg = SentAs(g.msgId)
  <2>1. e.pieces \in Seq(Piece) /\ x.msg = c.msg
    BY <1>3 DEF Entry, x
  <2>2. \A i \in 1 .. Len(g.pieces) :
          \/ i \in 1 .. Len(e.pieces) /\ g.pieces[i] = e.pieces[i]
          \/ g.pieces[i] = x
    BY <1>5, <2>1
  <2> QED
    BY <1>2, <1>3, <1>4, <1>5, <2>1, <2>2
<1> QED
  BY <1>2, <1>3, <1>4, <1>5, <1>6 DEF e, g

\* Every message the coordinator hands on is whole.
LEMMA ReceiveNumbered ==
  ASSUME TypeOK, ReassemblySound, Numbered, Intact, ReceiveNext
  PROVE  Numbered' /\ Intact'
<1> PICK c \in ToSet(mq) : ReceiveRejected(c) \/ ReceiveStored(c) \/ ReceiveComplete(c)
  BY DEF ReceiveNext
<1> DEFINE e == EntryFor(c)
           g == Extended(e, c)
<1>1. Receive(c)
  BY DEF ReceiveRejected, ReceiveStored, ReceiveComplete
<1>2. \A f \in {e, g} :
        /\ f \in Entry /\ f.msgId \in 1 .. Len(offered)
        /\ f.total = Total[SentAs(f.msgId)]
        /\ \A i \in 1 .. Len(f.pieces) : f.pieces[i].msg = SentAs(f.msgId)
  BY <1>1, ExtendedNumbered
<1>3. partial' \subseteq partial \cup {e, g}
  BY DEF ReceiveRejected, ReceiveStored, ReceiveComplete, OtherEntries
<1>4. UNCHANGED workerVars /\ ToSet(mq') \subseteq ToSet(mq)
  BY <1>1, QueueElements DEF Receive, TypeOK
<1> HIDE DEF e, g
<1>5. Numbered'
  BY <1>2, <1>3, <1>4 DEF Numbered, SentAs, workerVars
<1>6. CASE UNCHANGED delivered
  BY <1>5, <1>6, Zenon DEF Intact
<1>7. CASE ReceiveComplete(c)
  <2>1. delivered' = Append(delivered, g.pieces) /\ g.size = g.total
    BY <1>7 DEF ReceiveComplete, e, g
  <2>2. /\ Len(delivered') = Len(delivered) + 1 /\ delivered'[Len(delivered) + 1] = g.pieces
        /\ \A i \in 1 .. Len(delivered) : delivered'[i] = delivered[i]
        /\ Len(delivered) \in Nat
    <3>1. g.pieces \in Seq(Piece) /\ delivered \in Seq(Seq(Piece))
      BY <1>2 DEF Entry, TypeOK
    <3> QED
      BY <2>1, <3>1
  <2>3. Whole(g.pieces, SentAs(g.msgId)) /\ SentAs(g.msgId) \in Messages
    <3>1. Contiguous(g.pieces) /\ End(g.pieces) = g.size
      <4>1. Fits(EntryFor(c), c)
        BY <1>7 DEF ReceiveComplete
      <4> QED
        BY <1>1, <4>1, DeliveredShape DEF e, g
    <3> QED
      BY <1>2, <2>1, <3>1 DEF Whole, SentAs, TypeOK
  <2> QED
    BY <1>5, <2>2, <2>3 DEF Intact
<1> QED
  BY <1>5, <1>6, <1>7 DEF ReceiveRejected, ReceiveStored

LEMMA NumberedHolds == OneSender => (Spec => [](Numbered /\ Intact))
<1> SUFFICES ASSUME OneSender PROVE Spec => [](Numbered /\ Intact)
  OBVIOUS
<1>1. Init => Numbered /\ Intact
  <2>1. ToSet(<<>>) = {}
    BY DEF ToSet
  <2> QED
    BY <2>1 DEF Init, Numbered, Intact
<1>2. TypeOK /\ ReassemblySound /\ Numbered /\ Intact /\ [Next]_vars => Numbered' /\ Intact'
  <2> SUFFICES ASSUME TypeOK, ReassemblySound, Numbered, Intact, [Next]_vars
               PROVE  Numbered' /\ Intact'
    OBVIOUS
  <2>1. ASSUME NEW w \in Workers, WorkerNext(w) PROVE Numbered' /\ Intact'
    <3>1. UNCHANGED delivered
      BY <2>1 DEF WorkerNext, StartSend, SendChunk, SendFails, WorkerReplaced, coordinatorVars
    <3> QED
      BY <2>1, <3>1, WorkerNumbered DEF Intact
  <2>2. ASSUME NEW e \in partial, GrowStale(e) PROVE Numbered' /\ Intact'
    <3> DEFINE g == [e EXCEPT !.stale = TRUE]
    <3>1. /\ partial' = (partial \ {e}) \cup {g} /\ UNCHANGED <<workerVars, mq, delivered>>
          /\ g.msgId = e.msgId /\ g.pieces = e.pieces /\ g.total = e.total
      BY <2>2 DEF GrowStale, TypeOK, Entry
    <3> HIDE DEF g
    <3> QED
      BY <3>1 DEF Numbered, SentAs, Intact, workerVars
  <2>3. CASE Cleanup
    BY <2>3 DEF Cleanup, Numbered, SentAs, Intact, workerVars
  <2>4. CASE ParentDies \/ CoordinatorStops \/ UNCHANGED vars
    BY <2>4 DEF ParentDies, CoordinatorStops, vars, workerVars, coordinatorVars, Numbered,
                SentAs, Intact
  <2> QED
    BY <2>1, <2>2, <2>3, <2>4, ReceiveNumbered DEF Next
<1> QED
  BY <1>1, <1>2, ChannelTypeCorrect, ReassemblyIsSound, PTL DEF Spec

\* With one sender that is never replaced, every message handed to the
\* dispatcher is byte for byte one that was sent, whatever a full queue, a
\* failing one or the cleanup took away.  With more senders it is not so.
THEOREM OneSenderIntact == OneSender => (Spec => []Intact)
BY NumberedHolds, PTL

-----------------------------------------------------------------------------
(* At most once: the first chunk of a message is in one place at most, from *)
(* the worker's hands to what was delivered.                               *)

InHand(m) == {w \in Workers : current[w] = m /\ offset[w] = 0}

InQueue(m) == {i \in 1 .. Len(mq) : mq[i].msg = m /\ mq[i].offset = 0}

InMap(m) == {e \in partial : e.pieces # <<>> /\ e.pieces[1].msg = m}

InPast(m) == {i \in 1 .. Len(delivered) : delivered[i] # <<>> /\ delivered[i][1].msg = m}

AtMostOne(S) == \A x, y \in S : x = y

\* At most one of the four sets is not empty, and it has one element.
Apart(h, q, p, d) ==
  /\ AtMostOne(h) /\ AtMostOne(q) /\ AtMostOne(p) /\ AtMostOne(d)
  /\ h # {} => q = {} /\ p = {} /\ d = {}
  /\ q # {} => p = {} /\ d = {}
  /\ p # {} => d = {}

Once(m) ==
  /\ Apart(InHand(m), InQueue(m), InMap(m), InPast(m))
  /\ m \notin ToSet(offered) =>
       InHand(m) = {} /\ InQueue(m) = {} /\ InMap(m) = {} /\ InPast(m) = {}

FirstOnce == \A m \in Messages : Once(m)

\* No place is added.
Shrinks(S, T) == (S = {} => T = {}) /\ (AtMostOne(S) => AtMostOne(T))

LEMMA Quiet ==
  ASSUME NEW m, Once(m), ToSet(offered) \subseteq ToSet(offered)',
         Shrinks(InHand(m), InHand(m)'), Shrinks(InQueue(m), InQueue(m)'),
         Shrinks(InMap(m), InMap(m)'), Shrinks(InPast(m), InPast(m)')
  PROVE  Once(m)'
BY DEF Once, Apart, Shrinks

\* Fewer workers have the first chunk in hand, and nothing else changes.
LEMMA HandsDrop ==
  ASSUME NEW m, Once(m), InHand(m)' \subseteq InHand(m),
         UNCHANGED <<offered, mq, partial, delivered>>
  PROVE  Once(m)'
<1>1. Shrinks(InHand(m), InHand(m)')
  BY DEF Shrinks, AtMostOne
<1>2. UNCHANGED <<InQueue(m), InMap(m), InPast(m)>>
  BY DEF InQueue, InMap, InPast
<1> QED
  BY <1>1, <1>2, Quiet DEF Shrinks

\* A queue after its head was taken: a first chunk has gone with it, or the
\* others have moved up.
LEMMA QueueAdvances ==
  ASSUME TypeOK, NEW m \in Messages, Once(m), mq # <<>>, mq' = Tail(mq)
  PROVE  /\ Shrinks(InQueue(m), InQueue(m)')
         /\ Head(mq).msg = m /\ Head(mq).offset = 0 => InQueue(m) # {} /\ InQueue(m)' = {}
<1>1. /\ Len(mq) \in Nat \ {0} /\ Len(mq') = Len(mq) - 1 /\ Head(mq) = mq[1]
      /\ \A i \in 1 .. Len(mq') : mq'[i] = mq[i + 1] /\ i + 1 \in 1 .. Len(mq)
  BY DEF TypeOK
<1>2. \A i \in InQueue(m)' : i \in Nat \ {0} /\ i + 1 \in InQueue(m)
  BY <1>1 DEF InQueue
<1>3. AtMostOne(InQueue(m))
  BY DEF Once, Apart
<1>4. AtMostOne(InQueue(m)')
  BY <1>2, <1>3 DEF AtMostOne
<1>5. ASSUME Head(mq).msg = m, Head(mq).offset = 0
      PROVE  InQueue(m) # {} /\ InQueue(m)' = {}
  <2>1. 1 \in InQueue(m)
    BY <1>1, <1>5 DEF InQueue
  <2>2. ASSUME NEW i \in InQueue(m)' PROVE FALSE
    <3>1. i + 1 \in InQueue(m) /\ i \in Nat \ {0}
      BY <1>2
    <3>2. i + 1 = 1
      BY <1>3, <2>1, <3>1 DEF AtMostOne
    <3> QED
      BY <3>1, <3>2
  <2> QED
    BY <2>1, <2>2
<1> QED
  BY <1>2, <1>4, <1>5 DEF Shrinks

\* A worker's step: the first chunk of a message comes into its hands, once,
\* and goes from there to the queue or away.
LEMMA WorkerOnce ==
  ASSUME TypeOK, FirstOnce, NEW w \in Workers, WorkerNext(w)
  PROVE  FirstOnce'
<1> SUFFICES ASSUME NEW m \in Messages PROVE Once(m)'
  BY DEF FirstOnce
<1>0. Once(m) /\ m # NoMessage
  BY ChannelAssumption DEF FirstOnce
<1>1. ASSUME NEW n \in Messages, StartSend(w, n) PROVE Once(m)'
  <2>1. /\ ToSet(offered') = ToSet(offered) \cup {n} /\ n \notin ToSet(offered)
        /\ UNCHANGED <<mq, partial, delivered>>
    <3>1. offered \in Seq(Messages) /\ offered' = Append(offered, n)
      BY <1>1 DEF StartSend, TypeOK
    <3>2. ToSet(offered') = ToSet(offered) \cup {n}
      BY <3>1 DEF ToSet
    <3> QED
      BY <1>1, <3>2 DEF StartSend, coordinatorVars
  <2>2. UNCHANGED <<InQueue(m), InMap(m), InPast(m)>>
    BY <2>1 DEF InQueue, InMap, InPast
  <2>3. CASE m = n
    <3>1. InHand(m)' \subseteq {w} \cup InHand(m)
      BY <1>1, <2>3 DEF StartSend, InHand, TypeOK
    <3> QED
      BY <1>0, <2>1, <2>2, <2>3, <3>1 DEF Once, Apart, AtMostOne
  <2>4. CASE m # n
    <3>1. InHand(m)' \subseteq InHand(m)
      BY <1>1, <2>4 DEF StartSend, InHand, TypeOK
    <3> QED
      BY <1>0, <2>1, <2>2, <3>1, Quiet DEF Shrinks, AtMostOne
  <2> QED
    BY <2>3, <2>4
<1>2. CASE SendChunk(w)
  <2> DEFINE sentTo == offset[w] + ChunkSize(w)
             done == sentTo = Total[current[w]]
  <2>1. /\ current[w] \in Messages /\ NextChunk(w) \in Chunk /\ sentTo \in Nat
        /\ offset[w] \in Nat /\ ChunkSize(w) \in Nat \ {0} /\ mq \in Seq(Chunk)
        /\ NextChunk(w).msg = current[w] /\ NextChunk(w).offset = offset[w]
    BY <1>2, NextChunkType, ChannelAssumption DEF SendChunk, TypeOK, NextChunk, Chunk
  <2>2. /\ offset' = [offset EXCEPT ![w] = IF done THEN 0 ELSE sentTo]
        /\ current' = [current EXCEPT ![w] = IF done THEN NoMessage ELSE @]
        /\ UNCHANGED <<offered, partial, delivered>>
    BY <1>2 DEF SendChunk, coordinatorVars
  <2>3. sentTo # 0
    BY <2>1
  <2> HIDE DEF sentTo
  <2>4. w \notin InHand(m)' /\ InHand(m)' \subseteq InHand(m)
    BY <1>0, <2>1, <2>2, <2>3 DEF InHand, TypeOK
  <2>5. UNCHANGED <<InMap(m), InPast(m)>>
    BY <2>2 DEF InMap, InPast
  <2>6. CASE UNCHANGED mq
    BY <1>0, <2>2, <2>4, <2>6, HandsDrop
  <2>7. CASE mq' = Append(mq, NextChunk(w))
    <3>1. /\ Len(mq') = Len(mq) + 1 /\ mq'[Len(mq) + 1] = NextChunk(w) /\ Len(mq) \in Nat
          /\ \A i \in 1 .. Len(mq) : mq'[i] = mq[i]
      BY <2>1, <2>7
    <3>2. CASE w \in InHand(m)
      <4>1. InHand(m)' = {} /\ InQueue(m) = {}
        BY <1>0, <2>4, <3>2 DEF Once, Apart, AtMostOne
      <4>2. InQueue(m)' \subseteq {Len(mq) + 1}
        BY <3>1, <4>1 DEF InQueue
      <4> QED
        BY <1>0, <2>2, <2>5, <3>2, <4>1, <4>2 DEF Once, Apart, AtMostOne
    <3>3. CASE w \notin InHand(m)
      <4>1. ~(current[w] = m /\ offset[w] = 0)
        BY <3>3 DEF InHand
      <4>2. InQueue(m)' = InQueue(m)
        BY <2>1, <3>1, <4>1 DEF InQueue
      <4> QED
        BY <1>0, <2>2, <2>4, <2>5, <4>2, Quiet DEF Shrinks, AtMostOne
    <3> QED
      BY <3>2, <3>3
  <2> QED
    BY <1>2, <2>6, <2>7 DEF SendChunk, TrySend
<1>3. ASSUME Abandon(w) \/ UNCHANGED <<current, offset>>,
             UNCHANGED <<offered, mq, partial, delivered>>
      PROVE  Once(m)'
  <2>1. InHand(m)' \subseteq InHand(m)
    BY <1>0, <1>3 DEF Abandon, InHand, TypeOK
  <2> QED
    BY <1>0, <1>3, <2>1, HandsDrop
<1>4. CASE SendFails(w) \/ WorkerReplaced(w)
  BY <1>3, <1>4 DEF SendFails, WorkerReplaced, coordinatorVars
<1> QED
  BY <1>1, <1>2, <1>4 DEF WorkerNext

\* What a chunk makes of the first piece of the entry it is added to.
LEMMA ExtendedFirst ==
  ASSUME TypeOK, ReassemblySound, NEW c \in ToSet(mq), Receive(c), Fits(EntryFor(c), c),
         NEW m \in Messages
  PROVE  LET e == EntryFor(c)
             g == Extended(e, c)
         IN  /\ g \in Entry /\ SameKey(g, c) /\ SameKey(e, c) /\ g.pieces # <<>>
             /\ c.offset = 0 => g.pieces[1].msg = c.msg
             /\ c.offset # 0 => e \in partial /\ e.pieces # <<>> /\ g.pieces[1] = e.pieces[1]
<1> DEFINE e == EntryFor(c)
           x == [msg |-> c.msg, offset |-> c.offset, len |-> c.len]
           g == Extended(e, c)
<1>1. c \in Chunk /\ partial \subseteq Entry
  BY ReceiveType DEF TypeOK
<1>2. /\ e \in Entry /\ SameKey(e, c) /\ Prefix(e)
      /\ e \in partial \/ (e.pieces = <<>> /\ e.size = 0)
  BY <1>1, EntryForType, EmptyPrefix DEF ReassemblySound, Prefix
<1>3. g \in Entry /\ SameKey(g, c) /\ g.pieces = Append(e.pieces, x)
  BY <1>1, <1>2, ExtendedType DEF SameKey
<1>4. e.size = c.offset
  BY DEF Fits
<1> HIDE DEF e, g
<1>5. /\ e.pieces \in Seq(Piece) /\ x \in Piece /\ End(e.pieces) = e.size /\ c.offset \in Nat
  BY <1>1, <1>2 DEF Entry, Piece, Chunk, Prefix
<1>6. e.pieces = <<>> <=> c.offset = 0
  <2>1. CASE e.pieces = <<>>
    BY <1>4, <1>5, <2>1 DEF End
  <2>2. CASE e.pieces # <<>>
    <3>1. Len(e.pieces) \in 1 .. Len(e.pieces) /\ e.pieces[Len(e.pieces)] \in Piece
      BY <1>5, <2>2
    <3>2. End(e.pieces) > 0
      BY <2>2, <3>1 DEF End, Piece
    <3> QED
      BY <1>4, <1>5, <2>2, <3>2
  <2> QED
    BY <2>1, <2>2
<1>7. g.pieces # <<>> /\ (e.pieces = <<>> => g.pieces[1] = x)
        /\ (e.pieces # <<>> => g.pieces[1] = e.pieces[1])
  BY <1>3, <1>5
<1> QED
  BY <1>2, <1>3, <1>4, <1>6, <1>7 DEF e, g

\* Receiving a chunk moves the first one of a message from the queue to the map
\* or to the delivered messages, or from the map to those.
LEMMA ReceiveOnce == ASSUME TypeOK, ReassemblySound, FirstOnce, ReceiveNext PROVE FirstOnce'
<1> SUFFICES ASSUME NEW m \in Messages PROVE Once(m)'
  BY DEF FirstOnce
<1> PICK c \in ToSet(mq) : ReceiveRejected(c) \/ ReceiveStored(c) \/ ReceiveComplete(c)
  BY DEF ReceiveNext
<1> DEFINE e == EntryFor(c)
           g == Extended(e, c)
           first == c.msg = m /\ c.offset = 0
<1>1. Receive(c)
  BY DEF ReceiveRejected, ReceiveStored, ReceiveComplete
<1>2. /\ Once(m) /\ c \in Chunk /\ partial \subseteq Entry /\ delivered \in Seq(Seq(Piece))
      /\ mq # <<>> /\ c = Head(mq) /\ mq' = Tail(mq) /\ UNCHANGED workerVars
  BY <1>1, ReceiveType DEF TypeOK, FirstOnce, Receive
<1>3. UNCHANGED <<InHand(m), offered>>
  BY <1>2 DEF workerVars, InHand
<1>4. /\ Shrinks(InQueue(m), InQueue(m)')
      /\ first => InQueue(m) # {} /\ InQueue(m)' = {}
  BY <1>2, QueueAdvances
<1>5. /\ e \in partial \/ e.pieces = <<>>
      /\ OtherEntries(c) = {f \in partial : ~SameKey(f, c)}
      /\ SameKey(e, c)
  BY <1>2, EntryForType DEF OtherEntries
<1>6. ASSUME Fits(e, c)
      PROVE  /\ g.pieces # <<>> /\ g.pieces \in Seq(Piece) /\ SameKey(g, c)
             /\ c.offset = 0 => g.pieces[1].msg = c.msg
             /\ c.offset # 0 => e \in partial /\ e.pieces # <<>> /\ g.pieces[1] = e.pieces[1]
  BY <1>1, <1>6, ExtendedFirst DEF Entry
<1> HIDE DEF e, g
<1>7. CASE ReceiveRejected(c)
  <2>1. partial' = OtherEntries(c) \cup {e} /\ UNCHANGED delivered
    BY <1>7 DEF ReceiveRejected, e
  <2>2. InMap(m)' \subseteq InMap(m)
    BY <1>5, <2>1 DEF InMap
  <2>3. UNCHANGED InPast(m)
    BY <2>1 DEF InPast
  <2> QED
    BY <1>2, <1>3, <1>4, <2>2, <2>3, Quiet DEF Shrinks, AtMostOne
<1>8. CASE ReceiveStored(c)
  <2>1. Fits(e, c) /\ partial' = OtherEntries(c) \cup {g} /\ UNCHANGED delivered
    BY <1>8 DEF ReceiveStored, e, g
  <2>2. UNCHANGED InPast(m)
    BY <2>1 DEF InPast
  <2>3. InMap(m)' \subseteq {f \in InMap(m) : ~SameKey(f, c)} \cup {g}
    BY <1>5, <2>1 DEF InMap
  <2>4. CASE first
    <3>1. InMap(m) = {} /\ InHand(m) = {} /\ InPast(m) = {} /\ m \in ToSet(offered)
      BY <1>2, <1>4, <2>4 DEF Once, Apart
    <3>2. AtMostOne(InMap(m)')
      BY <2>3, <3>1 DEF AtMostOne
    <3> QED
      BY <1>3, <1>4, <2>2, <2>4, <3>1, <3>2 DEF Once, Apart, AtMostOne
  <2>5. CASE ~first /\ c.offset = 0
    <3>1. g \notin InMap(m)'
      BY <1>6, <2>1, <2>5 DEF InMap
    <3>2. InMap(m)' \subseteq InMap(m)
      BY <2>3, <3>1
    <3> QED
      BY <1>2, <1>3, <1>4, <2>2, <3>2, Quiet DEF Shrinks, AtMostOne
  <2>6. CASE c.offset # 0
    <3>1. g \in InMap(m)' => e \in InMap(m)
      BY <1>6, <2>1, <2>6 DEF InMap
    <3>2. Shrinks(InMap(m), InMap(m)')
      BY <1>5, <2>3, <3>1 DEF Shrinks, AtMostOne
    <3> QED
      BY <1>2, <1>3, <1>4, <2>2, <3>2, Quiet DEF Shrinks
  <2> QED
    BY <2>4, <2>5, <2>6
<1>9. CASE ReceiveComplete(c)
  <2>1. /\ Fits(e, c) /\ partial' = OtherEntries(c)
        /\ delivered' = Append(delivered, g.pieces)
    BY <1>9 DEF ReceiveComplete, e, g
  <2>2. /\ Len(delivered') = Len(delivered) + 1 /\ delivered'[Len(delivered) + 1] = g.pieces
        /\ \A i \in 1 .. Len(delivered) : delivered'[i] = delivered[i]
        /\ Len(delivered) \in Nat
    BY <1>2, <1>6, <2>1
  <2>3. InMap(m)' \subseteq {f \in InMap(m) : ~SameKey(f, c)}
    BY <1>5, <2>1 DEF InMap
  <2>4. /\ InPast(m)' \subseteq InPast(m) \cup {Len(delivered) + 1}
        /\ g.pieces[1].msg # m => InPast(m)' = InPast(m)
    BY <2>2 DEF InPast
  <2>5. CASE first
    <3>1. InMap(m) = {} /\ InHand(m) = {} /\ InPast(m) = {} /\ m \in ToSet(offered)
      BY <1>2, <1>4, <2>5 DEF Once, Apart
    <3>2. InMap(m)' = {} /\ AtMostOne(InPast(m)')
      BY <2>3, <2>4, <3>1 DEF AtMostOne
    <3> QED
      BY <1>3, <1>4, <2>5, <3>1, <3>2 DEF Once, Apart, AtMostOne
  <2>6. CASE g.pieces[1].msg # m
    BY <1>2, <1>3, <1>4, <2>3, <2>4, <2>6, Quiet DEF Shrinks, AtMostOne
  <2>7. CASE ~first /\ g.pieces[1].msg = m
    <3>1. e \in InMap(m)
      BY <1>6, <2>1, <2>7 DEF InMap
    <3>2. InMap(m) = {e} /\ InHand(m) = {} /\ InQueue(m) = {} /\ InPast(m) = {}
          /\ m \in ToSet(offered)
      BY <1>2, <3>1 DEF Once, Apart, AtMostOne
    <3>3. InMap(m)' = {} /\ AtMostOne(InPast(m)') /\ InQueue(m)' = {} /\ InHand(m)' = {}
      BY <1>3, <1>4, <1>5, <2>3, <2>4, <3>2 DEF AtMostOne, Shrinks
    <3> QED
      BY <1>3, <3>2, <3>3 DEF Once, Apart, AtMostOne
  <2> QED
    BY <2>5, <2>6, <2>7
<1> QED
  BY <1>7, <1>8, <1>9

\* Time and the cleanup leave the first chunks where they are or drop them.
LEMMA PeriodicOnce ==
  ASSUME TypeOK, FirstOnce, (\E e \in partial : GrowStale(e)) \/ Cleanup
  PROVE  FirstOnce'
<1> SUFFICES ASSUME NEW m \in Messages PROVE Once(m)'
  BY DEF FirstOnce
<1>1. Once(m) /\ UNCHANGED <<offered, InHand(m), InQueue(m), InPast(m)>>
  BY DEF FirstOnce, GrowStale, Cleanup, workerVars, InHand, InQueue, InPast
<1>2. ASSUME NEW e \in partial, GrowStale(e) PROVE Shrinks(InMap(m), InMap(m)')
  <2> DEFINE g == [e EXCEPT !.stale = TRUE]
  <2>1. partial' = (partial \ {e}) \cup {g} /\ g.pieces = e.pieces
    BY <1>2 DEF GrowStale, TypeOK, Entry
  <2> HIDE DEF g
  <2>2. InMap(m)' \subseteq (InMap(m) \ {e}) \cup {g} /\ (g \in InMap(m)' => e \in InMap(m))
    BY <2>1 DEF InMap
  <2> QED
    BY <2>2 DEF Shrinks, AtMostOne
<1>3. ASSUME Cleanup PROVE Shrinks(InMap(m), InMap(m)')
  <2>1. InMap(m)' \subseteq InMap(m)
    BY <1>3 DEF Cleanup, InMap
  <2> QED
    BY <2>1 DEF Shrinks, AtMostOne
<1> QED
  BY <1>1, <1>2, <1>3, Quiet DEF Shrinks

LEMMA FirstOnceInit == Init => FirstOnce
<1> SUFFICES ASSUME Init, NEW m \in Messages PROVE Once(m)
  BY DEF FirstOnce
<1>1. InHand(m) = {} /\ InQueue(m) = {} /\ InMap(m) = {} /\ InPast(m) = {}
  BY ChannelAssumption DEF Init, InHand, InQueue, InMap, InPast
<1> QED
  BY <1>1 DEF Once, Apart, AtMostOne

LEMMA FirstOnceNext == TypeOK /\ ReassemblySound /\ FirstOnce /\ [Next]_vars => FirstOnce'
<1> SUFFICES ASSUME TypeOK, ReassemblySound, FirstOnce, [Next]_vars PROVE FirstOnce'
  OBVIOUS
<1>1. CASE ParentDies \/ CoordinatorStops \/ UNCHANGED vars
  <2>1. UNCHANGED <<current, offset, offered, mq, partial, delivered>>
    BY <1>1 DEF ParentDies, CoordinatorStops, vars, workerVars, coordinatorVars
  <2> QED
    BY <2>1 DEF FirstOnce, Once, Apart, InHand, InQueue, InMap, InPast
<1> QED
  BY <1>1, WorkerOnce, ReceiveOnce, PeriodicOnce DEF Next

LEMMA FirstOnceDelivers == ReassemblySound /\ FirstOnce => AtMostOnce
<1> SUFFICES ASSUME ReassemblySound, FirstOnce,
                    NEW i \in 1 .. Len(delivered), NEW j \in 1 .. Len(delivered),
                    NEW m \in Messages, Whole(delivered[i], m), Whole(delivered[j], m)
             PROVE  i = j
  BY DEF AtMostOnce
<1>1. AtMostOne(InPast(m))
  BY DEF FirstOnce, Once, Apart
<1>2. i \in InPast(m) /\ j \in InPast(m)
  <2>1. ASSUME NEW k \in 1 .. Len(delivered), Whole(delivered[k], m) PROVE k \in InPast(m)
    BY <2>1 DEF ReassemblySound, Whole, InPast
  <2> QED
    BY <2>1
<1> QED
  BY <1>1, <1>2 DEF AtMostOne

LEMMA FirstOnceHolds == Spec => []FirstOnce
BY FirstOnceInit, FirstOnceNext, ChannelTypeCorrect, ReassemblyIsSound, PTL DEF Spec

\* No message reaches the dispatcher twice, for any number of workers that
\* share their sender id, replaced at any time, and whatever chunks are lost.
THEOREM DeliveredOnce == Spec => []AtMostOnce
BY FirstOnceDelivers, FirstOnceHolds, ReassemblyIsSound, PTL

-----------------------------------------------------------------------------
(* One sender again: the channel keeps the order.                          *)

\* No message is offered twice; the queue is in the order of the numbers, and
\* what was delivered last is not after what is still in the queue.
Ordered ==
  /\ \A i, j \in 1 .. Len(offered) : offered[i] = offered[j] => i = j
  /\ \A i, j \in 1 .. Len(mq) : i < j => mq[i].msgId <= mq[j].msgId
  /\ delivered # <<>> =>
       \A id \in 1 .. Len(offered) : Whole(delivered[Len(delivered)], SentAs(id)) =>
         \A i \in 1 .. Len(mq) : id <= mq[i].msgId

\* All that was proved about one sender.
OneSenderInv == TypeOK /\ ReassemblySound /\ Numbered /\ Intact /\ FirstOnce /\ Ordered

\* What is whole starts with its own first piece, and was offered.
LEMMA WholeWasOffered ==
  ASSUME OneSenderInv, NEW i \in 1 .. Len(delivered), NEW m \in Messages, Whole(delivered[i], m)
  PROVE  /\ delivered[i] # <<>> /\ delivered[i][1].msg = m
         /\ m \in ToSet(offered)
<1>1. delivered[i] # <<>> /\ delivered[i] \in Seq(Piece)
  BY DEF OneSenderInv, ReassemblySound, TypeOK
<1>2. delivered[i][1].msg = m
  BY <1>1 DEF Whole
<1>3. i \in InPast(m)
  BY <1>1, <1>2 DEF InPast
<1> QED
  BY <1>1, <1>2, <1>3 DEF OneSenderInv, FirstOnce, Once

LEMMA WorkerOrdered ==
  ASSUME OneSender, OneSenderInv, NEW w \in Workers, WorkerNext(w)
  PROVE  Ordered'
<1>0. Workers = {w} /\ ~Respawn /\ TypeOK /\ Numbered /\ Ordered
  BY DEF OneSender, OneSenderInv
<1>1. ASSUME NEW m \in Messages, StartSend(w, m) PROVE Ordered'
  <2>1. /\ offered' = Append(offered, m) /\ offered \in Seq(Messages) /\ m \notin ToSet(offered)
        /\ UNCHANGED <<mq, delivered>>
    BY <1>0, <1>1 DEF StartSend, coordinatorVars, TypeOK
  <2>2. /\ Len(offered') = Len(offered) + 1 /\ offered'[Len(offered) + 1] = m
        /\ Len(offered) \in Nat
        /\ \A i \in 1 .. Len(offered) : offered'[i] = offered[i] /\ offered[i] # m
    BY <2>1 DEF ToSet
  <2>3. \A i, j \in 1 .. Len(offered') : offered'[i] = offered'[j] => i = j
    BY <1>0, <2>2 DEF Ordered
  <2>4. ASSUME delivered # <<>>, NEW id \in 1 .. Len(offered'),
               Whole(delivered[Len(delivered)], offered'[id]),
               NEW i \in 1 .. Len(mq)
        PROVE  id <= mq[i].msgId
    <3>1. CASE id \in 1 .. Len(offered)
      BY <1>0, <2>2, <2>4, <3>1 DEF Ordered, SentAs
    <3>2. CASE id = Len(offered) + 1
      <4>1. Len(delivered) \in 1 .. Len(delivered)
        BY <1>0, <2>4 DEF TypeOK
      <4>2. m \in ToSet(offered)
        BY <2>2, <2>4, <3>2, <4>1, WholeWasOffered
      <4> QED
        BY <2>1, <4>2
    <3> QED
      BY <2>2, <3>1, <3>2
  <2> QED
    BY <1>0, <2>1, <2>3, <2>4 DEF Ordered, SentAs
<1>2. CASE SendChunk(w)
  <2>1. /\ UNCHANGED <<offered, delivered>> /\ current[w] # NoMessage
        /\ NextChunk(w).msgId = Len(offered) /\ NextChunk(w) \in Chunk
    BY <1>0, <1>2, NextChunkType DEF SendChunk, coordinatorVars, Numbered, NextChunk
  <2>2. CASE UNCHANGED mq
    BY <1>0, <2>1, <2>2 DEF Ordered, SentAs
  <2>3. CASE mq' = Append(mq, NextChunk(w))
    <3>1. /\ Len(mq') = Len(mq) + 1 /\ mq'[Len(mq) + 1] = NextChunk(w) /\ Len(mq) \in Nat
          /\ \A i \in 1 .. Len(mq) : mq'[i] = mq[i]
      BY <1>0, <2>1, <2>3 DEF TypeOK
    <3>2. \A i \in 1 .. Len(mq) : mq[i].msgId \in 1 .. Len(offered)
      BY <1>0 DEF Numbered, ToSet, TypeOK
    <3>3. Len(offered) \in Nat
      BY <1>0 DEF TypeOK
    <3>4. \A i, j \in 1 .. Len(mq') : i < j => mq'[i].msgId <= mq'[j].msgId
      BY <1>0, <2>1, <3>1, <3>2, <3>3 DEF Ordered
    <3>5. \A id \in 1 .. Len(offered) : \A i \in 1 .. Len(mq') :
            (i \in 1 .. Len(mq) => id <= mq[i].msgId) => id <= mq'[i].msgId
      BY <2>1, <3>1, <3>3
    <3> QED
      BY <1>0, <2>1, <3>4, <3>5 DEF Ordered, SentAs
  <2> QED
    BY <1>2, <2>2, <2>3 DEF SendChunk, TrySend
<1>3. CASE SendFails(w)
  BY <1>0, <1>3 DEF SendFails, coordinatorVars, Ordered, SentAs
<1> QED
  BY <1>0, <1>1, <1>2, <1>3 DEF WorkerNext, WorkerReplaced

\* A message that is completed is the one its last chunk's number names, and no
\* chunk left in the queue is of an earlier one.
LEMMA ReceiveOrdered ==
  ASSUME OneSenderInv, ReceiveNext
  PROVE  Ordered'
<1> PICK c \in ToSet(mq) : ReceiveRejected(c) \/ ReceiveStored(c) \/ ReceiveComplete(c)
  BY DEF ReceiveNext
<1> DEFINE g == Extended(EntryFor(c), c)
<1>0. TypeOK /\ Numbered /\ Ordered /\ ReassemblySound
  BY DEF OneSenderInv
<1>1. Receive(c)
  BY DEF ReceiveRejected, ReceiveStored, ReceiveComplete
<1>2. /\ mq # <<>> /\ c = Head(mq) /\ mq' = Tail(mq) /\ UNCHANGED offered
      /\ mq \in Seq(Chunk) /\ offered \in Seq(Messages)
  BY <1>0, <1>1 DEF Receive, workerVars, TypeOK
<1>3. /\ Len(mq) \in Nat \ {0} /\ Len(mq') = Len(mq) - 1 /\ c = mq[1]
      /\ \A i \in 1 .. Len(mq') : mq'[i] = mq[i + 1] /\ i + 1 \in 2 .. Len(mq)
  BY <1>2
<1>4. \A i \in 1 .. Len(mq') : c.msgId <= mq'[i].msgId
  BY <1>0, <1>3 DEF Ordered
<1>5. \A i, j \in 1 .. Len(mq') : i < j => mq'[i].msgId <= mq'[j].msgId
  BY <1>0, <1>3 DEF Ordered
<1>6. CASE UNCHANGED delivered
  BY <1>0, <1>2, <1>3, <1>5, <1>6 DEF Ordered, SentAs
<1>7. CASE ReceiveComplete(c)
  <2>1. Fits(EntryFor(c), c) /\ delivered' = Append(delivered, g.pieces)
    BY <1>7 DEF ReceiveComplete
  <2>2. /\ g \in Entry /\ g.msgId = c.msgId /\ c.msgId \in 1 .. Len(offered)
        /\ \A i \in 1 .. Len(g.pieces) : g.pieces[i].msg = SentAs(c.msgId)
    <3>1. c \in Chunk /\ partial \subseteq Entry
      BY <1>0, <1>1, ReceiveType DEF TypeOK
    <3>2. EntryFor(c) \in Entry /\ EntryFor(c).msgId = c.msgId
      BY <3>1, EntryForType DEF SameKey
    <3>3. g.msgId = c.msgId
      BY <3>1, <3>2, ExtendedType
    <3> QED
      BY <1>0, <1>1, <3>3, ExtendedNumbered
  <2>3. g.pieces # <<>>
    BY <1>0, <1>1, <2>1, DeliveredShape
  <2> HIDE DEF g
  <2>4. delivered' # <<>> /\ delivered'[Len(delivered')] = g.pieces
    <3>1. g.pieces \in Seq(Piece) /\ delivered \in Seq(Seq(Piece))
      BY <1>0, <2>2 DEF Entry, TypeOK
    <3> QED
      BY <2>1, <3>1
  <2>5. ASSUME NEW id \in 1 .. Len(offered), Whole(g.pieces, offered[id]) PROVE id = c.msgId
    <3>1. g.pieces \in Seq(Piece)
      BY <2>2 DEF Entry
    <3>2. g.pieces[1].msg = offered[id] /\ g.pieces[1].msg = offered[c.msgId]
      BY <2>2, <2>3, <2>5, <3>1 DEF Whole, SentAs
    <3> QED
      BY <1>0, <2>2, <3>2 DEF Ordered
  <2> QED
    BY <1>0, <1>2, <1>4, <1>5, <2>4, <2>5 DEF Ordered, SentAs
<1> QED
  BY <1>6, <1>7 DEF ReceiveRejected, ReceiveStored

LEMMA OrderedNext ==
  ASSUME OneSender, OneSenderInv, [Next]_vars
  PROVE  Ordered'
<1>1. CASE UNCHANGED <<offered, mq, delivered>>
  BY <1>1 DEF OneSenderInv, Ordered, SentAs
<1>2. ASSUME \/ \E e \in partial : GrowStale(e)
             \/ Cleanup \/ ParentDies \/ CoordinatorStops \/ UNCHANGED vars
      PROVE  UNCHANGED <<offered, mq, delivered>>
  BY <1>2 DEF GrowStale, Cleanup, ParentDies, CoordinatorStops, vars, workerVars, coordinatorVars
<1> QED
  BY <1>1, <1>2, WorkerOrdered, ReceiveOrdered DEF Next

LEMMA OneSenderInvHolds == OneSender => (Spec => []OneSenderInv)
<1> SUFFICES ASSUME OneSender PROVE Spec => []OneSenderInv
  OBVIOUS
<1>1. Init => Ordered
  BY DEF Init, Ordered
<1>2. OneSenderInv /\ [Next]_vars => Ordered'
  BY OrderedNext
<1>3. OneSenderInv <=> TypeOK /\ ReassemblySound /\ Numbered /\ Intact /\ FirstOnce /\ Ordered
  BY DEF OneSenderInv
<1> QED
  BY <1>1, <1>2, <1>3, ChannelTypeCorrect, ReassemblyIsSound, NumberedHolds, FirstOnceHolds, PTL
     DEF Spec

-----------------------------------------------------------------------------
(* The refinement of MessageChannel.                                       *)

Arrived == [i \in 1 .. Len(delivered) |-> DeliveredMessage(delivered[i])]

\* The message that a delivered sequence stands for is the only one it can be.
LEMMA DeliveredMessageIs ==
  ASSUME NEW s \in Seq(Piece), s # <<>>, NEW m \in Messages, Whole(s, m)
  PROVE  DeliveredMessage(s) = m
<1>1. \A n \in Messages : Whole(s, n) => n = m
  <2>1. Len(s) \in Nat \ {0} /\ 1 \in 1 .. Len(s)
    OBVIOUS
  <2> QED
    BY <2>1 DEF Whole
<1> QED
  BY <1>1 DEF DeliveredMessage

\* A message that was offered once has one position.
LEMMA PositionIs ==
  ASSUME Ordered, NEW i \in 1 .. Len(offered)
  PROVE  Abstract!Position(offered[i]) = i
BY DEF Ordered, Abstract!Position

\* A message that is delivered arrives, later than the one before it.
LEMMA DeliveryArrives ==
  ASSUME OneSender, OneSenderInv, OneSenderInv', NEW c \in ToSet(mq), ReceiveComplete(c)
  PROVE  Abstract!Arrive
<1> DEFINE g == Extended(EntryFor(c), c)
           n == Len(delivered)
<1>0. /\ TypeOK /\ Numbered /\ Ordered /\ ReassemblySound /\ Intact
      /\ TypeOK' /\ Intact' /\ ReassemblySound' /\ FirstOnce'
  BY DEF OneSenderInv
<1>1. /\ Receive(c) /\ UNCHANGED offered
      /\ delivered' = Append(delivered, g.pieces)
  BY DEF ReceiveComplete, Receive, workerVars
<1>2. /\ g.pieces \in Seq(Piece) /\ Len(g.pieces) \in 1 .. Len(g.pieces)
      /\ g.pieces[Len(g.pieces)].msg = c.msg
  <2>1. c \in Chunk /\ partial \subseteq Entry
    BY <1>0, <1>1, ReceiveType DEF TypeOK
  <2>2. /\ EntryFor(c) \in Entry /\ g \in Entry
        /\ g.pieces = Append(EntryFor(c).pieces, [msg |-> c.msg, offset |-> c.offset,
                                                  len |-> c.len])
    BY <2>1, EntryForType, ExtendedType
  <2>3. EntryFor(c).pieces \in Seq(Piece) /\ g.pieces \in Seq(Piece)
    BY <2>2 DEF Entry
  <2> HIDE DEF g
  <2> QED
    BY <2>2, <2>3
<1> HIDE DEF g
<1>3. /\ n \in Nat /\ Len(delivered') = n + 1 /\ delivered'[n + 1] = g.pieces
      /\ \A i \in 1 .. n : delivered'[i] = delivered[i]
  BY <1>0, <1>1, <1>2 DEF TypeOK
<1>4. PICK m \in Messages : Whole(g.pieces, m)
  <2>1. n + 1 \in 1 .. Len(delivered')
    BY <1>3
  <2> QED
    BY <1>0, <1>3, <2>1 DEF Intact
<1>5. g.pieces # <<>> /\ g.pieces[1].msg = m /\ m \in ToSet(offered)
  <2>1. (n + 1) \in 1 .. Len(delivered') /\ Whole(delivered'[n + 1], m)
    BY <1>3, <1>4
  <2>2. g.pieces # <<>>
    BY <1>0, <1>3, <2>1 DEF ReassemblySound
  <2>3. g.pieces[1].msg = m
    BY <1>2, <1>4, <2>2 DEF Whole
  <2>4. (n + 1) \in InPast(m)'
    BY <1>3, <2>1, <2>2, <2>3 DEF InPast
  <2>5. m \in ToSet(offered')
    BY <1>0, <2>4 DEF FirstOnce, Once
  <2> QED
    BY <1>1, <2>2, <2>3, <2>5
<1>6. Arrived' = Append(Arrived, m) /\ Len(Arrived) = n
  <2>1. DeliveredMessage(g.pieces) = m
    BY <1>2, <1>4, <1>5, DeliveredMessageIs
  <2>2. Arrived' = [i \in 1 .. n + 1 |-> DeliveredMessage(delivered'[i])]
    BY <1>3 DEF Arrived
  <2>3. Arrived = [i \in 1 .. n |-> DeliveredMessage(delivered[i])]
    BY DEF Arrived
  <2> QED
    BY <1>3, <2>1, <2>2, <2>3
<1>7. ASSUME n # 0
      PROVE  Abstract!Position(Arrived[n]) < Abstract!Position(m)
  <2>1. n \in 1 .. n /\ delivered # <<>>
    BY <1>0, <1>3, <1>7 DEF TypeOK
  <2>2. PICK old \in Messages : Whole(delivered[n], old)
    BY <1>0, <2>1 DEF Intact
  <2>3. /\ delivered[n] # <<>> /\ delivered[n] \in Seq(Piece) /\ old \in ToSet(offered)
    <3>1. delivered[n] # <<>>
      BY <1>0, <2>1 DEF ReassemblySound
    <3>2. delivered[n] \in Seq(Piece)
      BY <1>0, <2>1 DEF TypeOK
    <3>3. old \in ToSet(offered)
      BY <1>0, <2>1, <2>2, WholeWasOffered DEF OneSenderInv
    <3> QED
      BY <3>1, <3>2, <3>3
  <2>4. Arrived[n] = old
    BY <2>1, <2>2, <2>3, DeliveredMessageIs DEF Arrived
  <2>5. PICK i \in 1 .. Len(offered) : offered[i] = old
    BY <1>0, <2>3 DEF ToSet, TypeOK
  <2>6. PICK j \in 1 .. Len(offered) : offered[j] = m
    BY <1>0, <1>5 DEF ToSet, TypeOK
  <2>7. i # j
    <3>1. ASSUME old = m PROVE FALSE
      <4>1. Whole(delivered'[n], m) /\ Whole(delivered'[n + 1], m)
        BY <1>3, <1>4, <2>1, <2>2, <3>1
      <4>2. AtMostOnce'
        BY <1>0, FirstOnceDelivers, PTL
      <4> QED
        BY <1>3, <2>1, <4>1, <4>2 DEF AtMostOnce
    <3> QED
      BY <2>5, <2>6, <3>1
  <2>8. i <= j
    <3>1. c = mq[1] /\ 1 \in 1 .. Len(mq)
      BY <1>0, <1>1 DEF Receive, TypeOK
    <3>2. i <= c.msgId
      BY <1>0, <2>1, <2>2, <2>5, <3>1 DEF Ordered, SentAs
    <3>3. c.msg = m
      BY <1>2, <1>4 DEF Whole
    <3>4. c.msgId \in 1 .. Len(offered) /\ c.msg = offered[c.msgId]
      BY <1>0 DEF Numbered, SentAs
    <3>5. c.msgId = j
      BY <1>0, <2>6, <3>3, <3>4 DEF Ordered
    <3> QED
      BY <3>2, <3>5
  <2> QED
    BY <1>0, <2>4, <2>5, <2>6, <2>7, <2>8, PositionIs
<1>8. Arrived # <<>> => n # 0
  BY <1>6 DEF Arrived
<1>9. m \in Abstract!ToSet(offered)
  BY <1>5 DEF ToSet, Abstract!ToSet
<1>10. /\ Arrived # <<>> => Abstract!Position(Arrived[Len(Arrived)]) < Abstract!Position(m)
       /\ Arrived' = Append(Arrived, m)
  BY <1>6, <1>7, <1>8
<1> QED
  BY <1>1, <1>9, <1>10 DEF Abstract!Arrive, Arrived

\* Every other step offers a message, or changes nothing that is seen.
LEMMA ChannelSteps ==
  ASSUME OneSender, OneSenderInv, OneSenderInv', [Next]_vars
  PROVE  [Abstract!Next]_<<offered, Arrived>>
<1>1. ASSUME UNCHANGED delivered PROVE UNCHANGED Arrived
  BY <1>1 DEF Arrived
<1>2. ASSUME NEW w \in Workers, NEW m \in Messages, StartSend(w, m)
      PROVE  Abstract!Offer
  <2>1. UNCHANGED Arrived
    BY <1>1, <1>2 DEF StartSend, coordinatorVars
  <2> QED
    BY <1>2, <2>1 DEF StartSend, Abstract!Offer, Arrived, ToSet, Abstract!ToSet
<1>3. ASSUME NEW w \in Workers, SendChunk(w) \/ SendFails(w) \/ WorkerReplaced(w)
      PROVE  UNCHANGED <<offered, delivered>>
  BY <1>3 DEF SendChunk, SendFails, WorkerReplaced, coordinatorVars
<1>4. ASSUME NEW c \in ToSet(mq), ReceiveRejected(c) \/ ReceiveStored(c)
      PROVE  UNCHANGED <<offered, delivered>>
  BY <1>4 DEF ReceiveRejected, ReceiveStored, Receive, workerVars
<1>5. ASSUME \/ \E e \in partial : GrowStale(e)
             \/ Cleanup \/ ParentDies \/ CoordinatorStops \/ UNCHANGED vars
      PROVE  UNCHANGED <<offered, delivered>>
  BY <1>5 DEF GrowStale, Cleanup, ParentDies, CoordinatorStops, vars, workerVars, coordinatorVars
<1> QED
  BY <1>1, <1>2, <1>3, <1>4, <1>5, DeliveryArrives
     DEF Next, WorkerNext, ReceiveNext, Abstract!Next

\* With one sender that is never replaced, the channel implements the lossy,
\* ordered, at-most-once channel: whatever chunks a full queue, a failing one or
\* the cleanup takes away, what is handed on was offered, once and in order.
THEOREM OneSenderImplements == OneSender => (Spec => ImplementsMessageChannel)
<1> SUFFICES ASSUME OneSender PROVE Spec => ImplementsMessageChannel
  OBVIOUS
<1>1. Init => Abstract!Init
  BY DEF Init, Abstract!Init
<1>2. OneSenderInv /\ OneSenderInv' /\ [Next]_vars => [Abstract!Next]_<<offered, Arrived>>
  BY ChannelSteps
<1>3. Arrived = [i \in 1 .. Len(delivered) |-> DeliveredMessage(delivered[i])]
  BY DEF Arrived
<1> QED
  BY <1>1, <1>2, OneSenderInvHolds, PTL DEF Spec, ImplementsMessageChannel, Abstract!Spec, Arrived

=============================================================================
