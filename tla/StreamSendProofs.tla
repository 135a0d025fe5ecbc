--------------------------- MODULE StreamSendProofs ---------------------------
(***************************************************************************)
(* Proofs about the sending half of a stream: Inv is inductive, and what   *)
(* the runs check of StreamSend follows from it for all constants.         *)
(***************************************************************************)
EXTENDS StreamSend, NaturalsInduction, WellFoundedInduction, TLAPS

-----------------------------------------------------------------------------
(* The send buffer alone: BufInv holds of every sequence of calls.         *)

\* A non-empty set of offsets has a least element, and Min is that element
\* (RangeSet::first, used by SendBuf::send_off and SendBuf::ack_off).
LEMMA MinOfNat ==
  ASSUME NEW S \in SUBSET Nat, S # {}
  PROVE  Min(S) \in S /\ \A y \in S : Min(S) <= y
<1> DEFINE R == {ss \in Nat \X Nat : ss[1] < ss[2]}
<1>1. IsWellFoundedOn(R, Nat)
  BY NatLessThanWellFounded DEF OpToRel
<1>2. PICK x \in S : \A y \in S : ~(<<y, x>> \in R)
  BY <1>1, WFMin, ZenonT(30)
<1>3. \A y \in S : x <= y
  <2> TAKE y \in S
  <2>1. <<y, x>> \in Nat \X Nat /\ <<y, x>>[1] = y /\ <<y, x>>[2] = x
    OBVIOUS
  <2>2. ~(y < x)
    BY <1>2, <2>1
  <2> QED BY <2>2
<1> QED BY <1>3, ZenonT(30) DEF Min

\* Longer intervals of offsets contain shorter ones (the ranges of send_buf.rs).
LEMMA BytesMonotone ==
  ASSUME NEW a \in Nat, NEW b \in Nat, a <= b
  PROVE  Bytes(0, a) \subseteq Bytes(0, b)
BY DEF Bytes

\* ack_off() is the end of the acknowledged prefix.
LEMMA AckOffIsPrefixEnd ==
  ASSUME unsent_off \in Nat, NEW A \in SUBSET Bytes(0, unsent_off)
  PROVE  /\ AckOff(A) \in 0..unsent_off
         /\ AckOff(A) \notin A
         /\ Bytes(0, AckOff(A)) \subseteq A
<1> DEFINE S == {n \in 0..unsent_off : n \notin A}
<1>1. S \in SUBSET Nat /\ unsent_off \in S
  BY DEF Bytes
<1>2. Min(S) \in S /\ \A y \in S : Min(S) <= y
  BY <1>1, MinOfNat
<1>3. AckOff(A) = Min(S)
  BY DEF AckOff
<1> QED BY <1>2, <1>3 DEF Bytes

\* send_off() is at most unsent_off, and below it only when something waits in
\* `retransmits`.
LEMMA SendOffBound ==
  ASSUME unsent_off \in Nat, retransmits \subseteq Bytes(0, unsent_off)
  PROVE  /\ SendOff \in 0..unsent_off
         /\ IF retransmits = {} THEN SendOff = unsent_off
                                ELSE SendOff \in retransmits
<1>1. retransmits \in SUBSET Nat
  BY DEF Bytes
<1>2. CASE retransmits = {}
  BY <1>2 DEF SendOff
<1>3. CASE retransmits # {}
  <2>1. Min(retransmits) \in retransmits
    BY <1>1, <1>3, MinOfNat
  <2>2. SendOff \in retransmits
    BY <1>3, <2>1 DEF SendOff
  <2>3. SendOff \in Bytes(0, unsent_off)
    BY <2>2
  <2> QED BY <1>3, <2>2, <2>3 DEF Bytes
<1> QED BY <1>2, <1>3

\* A frame takes only pending offsets, starting at send_off().
LEMMA ReadEndTakesPending ==
  ASSUME BufInv, NEW room \in Nat
  PROVE  /\ ReadEnd(room) \in Nat /\ SendOff <= ReadEnd(room)
         /\ ReadEnd(room) <= write_off
         /\ Bytes(SendOff, ReadEnd(room)) \subseteq Pending
         /\ ReadEnd(room) = SendOff \/ Ready
<1>1. SendOff \in 0..unsent_off
  BY SendOffBound DEF BufInv, BufTypeOK
<1> DEFINE S == {n \in SendOff..(SendOff + room) :
                    n = SendOff + room \/ n \notin Pending}
<1>2. S \in SUBSET Nat /\ SendOff + room \in S
  BY <1>1
<1>3. Min(S) \in S /\ \A y \in S : Min(S) <= y
  BY <1>2, MinOfNat
<1>4. CASE ~Ready
  BY <1>1, <1>4 DEF ReadEnd, Bytes, BufInv, BufTypeOK
<1>5. CASE Ready
  <2>1. ReadEnd(room) = Min(S)
    BY <1>5 DEF ReadEnd
  <2> HIDE DEF S
  <2>2. /\ ReadEnd(room) \in SendOff..(SendOff + room)
        /\ \A y \in S : ReadEnd(room) <= y
    BY <2>1, <1>3 DEF S
  <2>3. Bytes(SendOff, ReadEnd(room)) \subseteq Pending
    <3> SUFFICES ASSUME NEW o \in Bytes(SendOff, ReadEnd(room)), o \notin Pending
                 PROVE  FALSE
      OBVIOUS
    <3>1. o \in Int /\ SendOff <= o /\ o < ReadEnd(room)
      BY <1>1, <2>2 DEF Bytes
    <3>2. o \in S
      BY <1>1, <2>2, <3>1 DEF S
    <3> QED BY <2>2, <3>1, <3>2, <1>1
  <2>4. ReadEnd(room) <= write_off
    <3>1. CASE ReadEnd(room) = SendOff
      BY <1>1, <3>1 DEF BufInv, BufTypeOK
    <3>2. CASE ReadEnd(room) # SendOff
      <4>1. ReadEnd(room) - 1 \in Bytes(SendOff, ReadEnd(room))
        BY <1>1, <2>2, <3>2 DEF Bytes
      <4>2. ReadEnd(room) - 1 \in Pending
        BY <2>3, <4>1
      <4> QED BY <4>2, <1>1, <2>2 DEF Pending, Bytes, BufInv, BufTypeOK
    <3> QED BY <3>1, <3>2
  <2> QED BY <1>1, <1>5, <2>2, <2>3, <2>4
<1> QED BY <1>4, <1>5

-----------------------------------------------------------------------------
(* Every call preserves the invariant.                                     *)

\* write(): nothing beyond the limit or the final size is buffered.
LEMMA BufWriteInv ==
  ASSUME BufInv, NEW n \in Nat, NEW fin \in BOOLEAN, BufWrite(n, fin)
  PROVE  BufInv'
<1> USE SendBufConstants
<1> DEFINE room    == max_data - write_off
           written == IF n > room THEN room ELSE n
<1>1. written \in Nat /\ written <= n /\ written <= room
      /\ write_off' = write_off + written
      /\ unacked_len' = unacked_len + written
  BY DEF BufInv, BufTypeOK, BufWrite
<1>2. UNCHANGED <<unsent_off, data_off, max_data, shutdown, stopped, acked,
                  retransmits>> /\ ~stopped
  BY DEF BufWrite
<1>3. /\ fin_off' \in Nat \cup {None}
      /\ fin_off' # None => fin_off' = write_off'
      /\ fin_off # None => fin_off' = fin_off /\ write_off' = write_off
  BY DEF BufInv, BufTypeOK, BufWrite
<1> HIDE DEF room, written
<1>4. BufTypeOK' /\ (unsent_off <= write_off)' /\ (write_off <= max_data)'
  BY <1>1, <1>2, <1>3 DEF BufInv, BufTypeOK, room
<1>5. (acked \cup retransmits \subseteq Bytes(0, unsent_off))'
  BY <1>2 DEF BufInv, Bytes
<1>6. CASE shutdown
  BY <1>2, <1>3, <1>4, <1>5, <1>6 DEF BufInv, Abandoned, Bytes, BufTypeOK
<1>7. CASE ~shutdown
  <2>1. Exact'
    BY <1>1, <1>2, <1>7 DEF BufInv, Exact, Bytes, BufTypeOK
  <2> QED BY <1>2, <1>3, <1>4, <1>5, <1>7, <2>1 DEF BufInv
<1> QED BY <1>6, <1>7

\* read(): the frame moves offsets out of `retransmits` and from unsent to sent.
LEMMA BufReadInv ==
  ASSUME BufInv, NEW room \in Nat, BufRead(room)
  PROVE  BufInv'
<1> DEFINE end == ReadEnd(room)
<1>1. end \in Nat /\ end <= write_off /\ SendOff \in 0..unsent_off
  BY ReadEndTakesPending, SendOffBound DEF BufInv, BufTypeOK
<1>2. /\ retransmits' \subseteq retransmits
      /\ unsent_off' = IF end > unsent_off THEN end ELSE unsent_off
      /\ UNCHANGED <<write_off, data_off, unacked_len, max_data, fin_off,
                     shutdown, stopped, acked>>
  BY DEF BufRead
<1> HIDE DEF end
<1>3. /\ unsent_off' \in Nat /\ unsent_off <= unsent_off'
      /\ unsent_off' <= write_off
  BY <1>1, <1>2 DEF BufInv, BufTypeOK
<1>4. BufTypeOK' /\ (acked \cup retransmits \subseteq Bytes(0, unsent_off))'
  BY <1>2, <1>3 DEF BufInv, BufTypeOK, Bytes
<1>5. CASE shutdown \/ stopped
  <2>1. unsent_off' = unsent_off
    BY <1>3, <1>5 DEF BufInv, Abandoned, BufTypeOK
  <2> QED BY <1>2, <1>3, <1>4, <1>5, <2>1 DEF BufInv, Abandoned
<1>6. CASE ~(shutdown \/ stopped)
  <2>1. Exact'
    BY <1>2, <1>3, <1>6 DEF BufInv, BufTypeOK, Exact
  <2> QED BY <1>2, <1>3, <1>4, <1>6, <2>1 DEF BufInv
<1> QED BY <1>5, <1>6

\* ack_and_drop(): the queue is cut exactly at the acknowledged prefix, although
\* the code cuts it by a byte count.
LEMMA AckAndDropInv ==
  ASSUME BufInv, NEW off \in Nat, NEW end \in Nat, end <= unsent_off,
         AckAndDrop(off, end)
  PROVE  /\ BufInv'
         /\ acked \subseteq acked' /\ retransmits' \subseteq retransmits
         /\ data_off <= data_off'
<1> DEFINE newAcked == acked \cup Bytes(off, end)
           ackOff   == AckOff(newAcked)
           advance  == IF off > ackOff THEN 0
                       ELSE ackOff - (write_off - unacked_len)
<1>1. UNCHANGED <<write_off, unsent_off, max_data, fin_off, shutdown, stopped>>
  BY DEF AckAndDrop
<1>2. CASE data_off = write_off
  <2>1. retransmits' = {} /\ UNCHANGED <<acked, unacked_len, data_off>>
    BY <1>2 DEF AckAndDrop
  <2>2. BufInv'
    BY <1>1, <2>1 DEF BufInv, BufTypeOK, Abandoned, Exact, Bytes
  <2> QED BY <2>1, <2>2 DEF BufInv, BufTypeOK
<1>3. CASE data_off # write_off
  <2>1. ~shutdown /\ ~stopped /\ Exact
    BY <1>3 DEF BufInv, Abandoned
  <2>2. /\ acked' = newAcked
        /\ retransmits' = retransmits \ Bytes(off, end)
        /\ unacked_len' = unacked_len - advance
        /\ data_off' = data_off + advance
    BY <1>3 DEF AckAndDrop
  <2>3. newAcked \in SUBSET Bytes(0, unsent_off)
    BY DEF BufInv, BufTypeOK, Bytes
  <2>4. /\ ackOff \in 0..unsent_off /\ ackOff \notin newAcked
        /\ Bytes(0, ackOff) \subseteq newAcked
    BY <2>3, AckOffIsPrefixEnd DEF BufInv, BufTypeOK
  <2>5. data_off <= ackOff
    <3> SUFFICES ASSUME ackOff < data_off PROVE FALSE
      BY <2>4 DEF BufInv, BufTypeOK
    <3>1. ackOff \in Bytes(0, data_off)
      BY <2>4 DEF Bytes, BufInv, BufTypeOK
    <3> QED BY <2>1, <2>4, <3>1 DEF Exact
  <2>6. off > ackOff => ackOff = data_off
    <3> SUFFICES ASSUME off > ackOff, ackOff # data_off PROVE FALSE
      OBVIOUS
    <3>1. data_off \in Bytes(0, ackOff) /\ data_off \notin Bytes(off, end)
      BY <2>4, <2>5 DEF Bytes, BufInv, BufTypeOK
    <3> QED BY <2>1, <2>4, <3>1 DEF Exact
  <2>7. advance = ackOff - data_off
    BY <2>1, <2>4, <2>6 DEF Exact, BufInv, BufTypeOK
  <2> HIDE DEF newAcked, ackOff, advance
  <2>8. data_off' = ackOff /\ unacked_len' = write_off - ackOff
    BY <2>1, <2>2, <2>4, <2>7 DEF Exact, BufInv, BufTypeOK
  <2>9. BufTypeOK' /\ (acked \cup retransmits \subseteq Bytes(0, unsent_off))'
    BY <1>1, <2>2, <2>3, <2>4, <2>8 DEF BufInv, BufTypeOK, Bytes
  <2>10. Exact'
    BY <1>1, <2>1, <2>2, <2>4, <2>8 DEF Exact, newAcked
  <2> QED BY <1>1, <2>1, <2>2, <2>5, <2>8, <2>9, <2>10 DEF BufInv, newAcked
<1> QED BY <1>2, <1>3

\* retransmit(): only bytes that were sent and are not acknowledged come back.
LEMMA RetransmitInv ==
  ASSUME BufInv, NEW off \in Nat, NEW end \in Nat, end <= unsent_off,
         Retransmit(off, end)
  PROVE  BufInv'
<1>1. UNCHANGED <<write_off, unsent_off, data_off, unacked_len, max_data, fin_off,
                  shutdown, stopped, acked>>
  BY DEF Retransmit
<1>2. retransmits' \in {retransmits, retransmits \cup (Bytes(off, end) \ acked)}
  BY DEF Retransmit
<1>3. retransmits' \subseteq Bytes(0, unsent_off)
  BY <1>2 DEF BufInv, BufTypeOK, Bytes
<1>4. BufTypeOK'
  BY <1>1, <1>3 DEF BufInv, BufTypeOK, Bytes
<1>5. Exact => Exact'
  BY <1>1, <1>2 DEF Exact
<1> QED BY <1>1, <1>3, <1>4, <1>5 DEF BufInv, Abandoned

\* reset(), from shutdown() and stop(): the buffer is abandoned, and the final
\* size is kept if all data up to it was sent.
LEMMA BufResetInv ==
  ASSUME BufInv, BufReset, shutdown' \in BOOLEAN, stopped' \in BOOLEAN,
         shutdown' \/ stopped'
  PROVE  BufInv' /\ Abandoned'
<1>1. /\ fin_off' = unsent_off /\ data_off' = unsent_off
      /\ write_off' = unsent_off
      /\ UNCHANGED <<unsent_off, unacked_len, max_data, retransmits>>
  BY DEF BufReset
<1>2. acked' = Bytes(0, unsent_off)
  BY DEF BufReset, BufInv
<1>3. Abandoned'
  BY <1>1, <1>2 DEF Abandoned, Bytes
<1>4. BufTypeOK' /\ (acked \cup retransmits \subseteq Bytes(0, unsent_off))'
  BY <1>1, <1>2 DEF BufInv, BufTypeOK, Bytes
<1> QED BY <1>1, <1>3, <1>4 DEF BufInv, BufTypeOK

\* Something is buffered, and something is deemed lost or was never sent.
HasPending ==
  /\ data_off < write_off
  /\ retransmits # {} \/ unsent_off < write_off

\* ready() says just that, without send_off().
LEMMA ReadyWhen == BufInv => (Ready <=> HasPending)
<1> SUFFICES ASSUME BufInv PROVE Ready <=> HasPending
  OBVIOUS
<1>1. /\ SendOff \in 0..unsent_off
      /\ IF retransmits = {} THEN SendOff = unsent_off ELSE SendOff \in retransmits
  BY SendOffBound DEF BufInv, BufTypeOK
<1>2. ASSUME retransmits # {} PROVE SendOff < unsent_off
  <2>1. SendOff \in Bytes(0, unsent_off)
    BY <1>1, <1>2 DEF BufInv
  <2> QED BY <2>1 DEF Bytes, BufInv, BufTypeOK
<1> QED BY <1>1, <1>2 DEF Ready, HasPending, BufInv, BufTypeOK

\* An empty chunk queue means that every byte sent is acknowledged, which is why
\* ack_and_drop() and retransmit() may return early.
LEMMA EmptyQueueIsAcked ==
  ASSUME BufInv, data_off = write_off
  PROVE  acked = Bytes(0, unsent_off) /\ unsent_off = write_off
<1>1. CASE shutdown \/ stopped
  BY <1>1 DEF BufInv, Abandoned
<1>2. CASE ~(shutdown \/ stopped)
  <2>1. unsent_off = write_off /\ Bytes(0, unsent_off) \subseteq acked
    BY <1>2 DEF BufInv, BufTypeOK, Exact
  <2> QED BY <2>1 DEF BufInv
<1> QED BY <1>1, <1>2

\* is_complete() leaves nothing in the chunk queue.
LEMMA CompleteIsEmpty ==
  ASSUME BufInv, IsComplete
  PROVE  data_off = write_off
<1> USE SendBufConstants
<1>1. CASE shutdown \/ stopped
  BY <1>1 DEF BufInv, Abandoned
<1>2. CASE ~(shutdown \/ stopped)
  <2>1. fin_off = write_off /\ write_off \in Nat /\ Exact /\ data_off \in Nat
    BY <1>2 DEF BufInv, BufTypeOK, IsComplete
  <2>2. CASE write_off = 0
    BY <2>1, <2>2 DEF Exact, BufInv, BufTypeOK
  <2>3. CASE write_off # 0
    <3>1. acked = Bytes(0, write_off)
      BY <2>1, <2>3 DEF IsComplete
    <3> QED BY <2>1, <3>1 DEF Exact, Bytes, BufInv, BufTypeOK
  <2> QED BY <2>2, <2>3
<1> QED BY <1>1, <1>2

-----------------------------------------------------------------------------
\* Every operation of send_buf.rs preserves the buffer's invariant.
LEMMA BufNextInv == BufInv /\ [BufNext]_bufVars => BufInv'
<1> SUFFICES ASSUME BufInv, [BufNext]_bufVars PROVE BufInv'
  OBVIOUS
<1> USE SendBufConstants
<1>1. CASE \E n \in 0..MaxOff, fin \in BOOLEAN : BufWrite(n, fin)
  BY <1>1, BufWriteInv
<1>2. CASE \E room \in 1..MaxOff : BufRead(room)
  BY <1>2, BufReadInv
<1>3. CASE \E off, end \in 0..unsent_off :
             off <= end /\ (AckAndDrop(off, end) \/ Retransmit(off, end))
  <2>1. PICK off \in 0..unsent_off, end \in 0..unsent_off :
             AckAndDrop(off, end) \/ Retransmit(off, end)
    BY <1>3
  <2>2. off \in Nat /\ end \in Nat /\ end <= unsent_off
    BY DEF BufInv, BufTypeOK
  <2> QED BY <2>1, <2>2, AckAndDropInv, RetransmitInv
<1>4. CASE \E limit \in 0..MaxOff : UpdateMaxData(limit)
  BY <1>4 DEF UpdateMaxData, BufInv, BufTypeOK, Exact, Abandoned
<1>5. CASE BufStop
  BY <1>5, BufResetInv DEF BufStop, BufInv, BufTypeOK
<1>6. CASE BufShutdown
  BY <1>6, BufResetInv DEF BufShutdown, BufInv, BufTypeOK
<1>7. CASE UNCHANGED bufVars
  BY <1>7 DEF bufVars, BufInv, BufTypeOK, Exact, Abandoned
<1> QED BY <1>1, <1>2, <1>3, <1>4, <1>5, <1>6, <1>7 DEF BufNext

\* SendBuf::new() establishes it.
LEMMA BufInitInv == BufInit => BufInv
<1> SUFFICES ASSUME BufInit PROVE BufInv
  OBVIOUS
<1>1. /\ write_off = 0 /\ unsent_off = 0 /\ data_off = 0 /\ unacked_len = 0
      /\ max_data \in Nat /\ fin_off = None
      /\ acked = {} /\ retransmits = {}
  BY SendBufConstants DEF BufInit
<1>2. shutdown \in BOOLEAN /\ stopped \in BOOLEAN /\ ~(shutdown \/ stopped)
  BY ZenonT(30) DEF BufInit
<1>3. BufTypeOK
  BY <1>1, <1>2 DEF BufTypeOK
<1>4. Exact
  BY <1>1 DEF Exact, Bytes
<1> QED BY <1>1, <1>2, <1>3, <1>4 DEF BufInv

\* The buffer keeps its invariant through any sequence of calls: SendBuf alone,
\* without what the stream map guarantees about the ranges it reports.
THEOREM BufCorrect == BufSpec => []BufInv
BY BufInitInv, BufNextInv, PTL DEF BufSpec

-----------------------------------------------------------------------------
(* Facts used by several actions.                                          *)

\* Handlers that leave the buffer alone leave what depends on it alone.
LEMMA SameBuffer ==
  ASSUME UNCHANGED bufVars
  PROVE  /\ BufInv' = BufInv /\ BufTypeOK' = BufTypeOK
         /\ Ready' = Ready /\ IsComplete' = IsComplete
BY DEF bufVars, BufInv, BufTypeOK, Exact, Abandoned, Ready, SendOff, IsComplete

\* A complete sending half stays complete as acknowledgements accumulate.
LEMMA CompleteStable ==
  ASSUME BufInv', IsComplete, fin_off' = fin_off, acked \subseteq acked'
  PROVE  IsComplete'
<1> USE SendBufConstants
<1>1. fin_off \in Nat \/ fin_off = None
  BY DEF BufInv, BufTypeOK
<1>2. fin_off # None /\ fin_off = write_off' /\ acked' \subseteq Bytes(0, fin_off)
  <2>1. fin_off # None
    BY DEF IsComplete
  <2>2. fin_off = write_off' /\ acked' \subseteq Bytes(0, unsent_off')
        /\ unsent_off' <= write_off' /\ unsent_off' \in Nat /\ write_off' \in Nat
    BY <2>1, ZenonT(30) DEF BufInv, BufTypeOK, Bytes
  <2>3. Bytes(0, unsent_off') \subseteq Bytes(0, write_off')
    BY <2>2, BytesMonotone
  <2> QED BY <2>1, <2>2, <2>3
<1>3. CASE fin_off = 0
  BY <1>3, <1>2 DEF IsComplete
<1>4. CASE fin_off # 0
  <2>1. acked = Bytes(0, fin_off)
    BY <1>4 DEF IsComplete
  <2>2. acked' = Bytes(0, fin_off)
    BY <2>1, <1>2
  <2> QED BY <1>2, <2>2 DEF IsComplete, Bytes
<1> QED BY <1>3, <1>4

\* An abandoned sending half is complete.
LEMMA AbandonedIsComplete ==
  ASSUME Abandoned', BufTypeOK'
  PROVE  IsComplete'
BY SendBufConstants DEF Abandoned, IsComplete, BufTypeOK, Bytes

\* The test before push_sendable() keeps the queue in step with ready().
LEMMA PushKeepsQueued ==
  ASSUME sendable \in Nat, ReadyIsQueued, NEW e \in BOOLEAN, PushSendable(e)
  PROVE  sendable' \in Nat /\ ReadyIsQueued'
BY DEF PushSendable, ReadyIsQueued

\* With an empty chunk queue no byte is outstanding.
LEMMA EmptyQueueLosesNothing ==
  ASSUME BufInv, data_off = write_off, acked' = acked, unsent_off' = unsent_off
  PROVE  NoLostByte'
<1>1. acked = Bytes(0, unsent_off)
  BY EmptyQueueIsAcked
<1> QED BY <1>1 DEF NoLostByte, Bytes

-----------------------------------------------------------------------------
(* Init and one lemma per action.                                          *)

\* A new stream satisfies the invariant (SendBuf::new, Stream::new).
LEMMA InitInv == Init => Inv
<1> SUFFICES ASSUME Init PROVE Inv
  OBVIOUS
<1>1. BufInv
  BY BufInitInv DEF Init
<1>2. TypeOK
  BY <1>1, StreamSendConstants DEF Init, TypeOK, BufInv
<1>3. ~Ready /\ unsent_off = 0
  BY DEF Init, BufInit, Ready
<1> QED BY <1>1, <1>2, <1>3 DEF Init, Inv, FramesSound, NoLostByte, ReadyIsQueued,
           FinalSizeAgrees, ClosedIsComplete

\* stream_write(): a write that makes the stream ready also queues it, and no
\* frame already sent is contradicted by the new final size.
LEMMA StreamWriteInv ==
  ASSUME Inv, NEW n \in Nat, NEW fin \in BOOLEAN, NEW capacity \in Nat,
         StreamWrite(n, fin, capacity)
  PROVE  Inv'
<1> USE SendBufConstants
<1>1. PICK m \in Nat, last \in BOOLEAN : BufWrite(m, last)
  BY ZenonT(30) DEF StreamWrite
<1>2. BufInv'
  BY <1>1, BufWriteInv DEF Inv
<1>3. /\ UNCHANGED <<unsent_off, acked, retransmits, shutdown, stopped>>
      /\ UNCHANGED <<reset, phase, recv_side, flight, next_pn>>
  BY <1>1 DEF BufWrite, StreamWrite, netVars
<1>4. fin_off # None => fin_off' = fin_off
  BY <1>1 DEF BufWrite, Inv, BufInv, BufTypeOK
<1>5. sendable' \in Nat /\ ReadyIsQueued'
  <2>1. PushSendable(n = 0 /\ fin) /\ (n = 0 /\ fin) \in BOOLEAN
    BY DEF StreamWrite
  <2> QED BY <2>1, PushKeepsQueued, ZenonT(30) DEF Inv, TypeOK
<1>6. TypeOK'
  BY <1>2, <1>3, <1>5 DEF Inv, TypeOK, BufInv
<1>7. FramesSound' /\ NoLostByte'
  BY <1>3 DEF Inv, FramesSound, NoLostByte
<1>8. FinalSizeAgrees'
  BY <1>3, <1>4 DEF Inv, FinalSizeAgrees, TypeOK, FrameType
<1>9. ClosedIsComplete'
  <2>1. IsComplete => IsComplete'
    BY <1>2, <1>3, <1>4, CompleteStable DEF IsComplete
  <2> QED BY <1>3, <2>1 DEF Inv, ClosedIsComplete
<1> QED BY <1>2, <1>5, <1>6, <1>7, <1>8, <1>9 DEF Inv

\* try_write_stream_frames: the bytes the frame takes out of `retransmits` or of
\* the unsent part are in flight afterwards.
LEMMA SendStreamFrameInv ==
  ASSUME Inv, NEW room \in Nat, SendStreamFrame(room)
  PROVE  Inv'
<1> USE SendBufConstants
<1> DEFINE end == ReadEnd(room)
           g   == [pn |-> next_pn, kind |-> "stream", off |-> SendOff,
                   end |-> end, fin |-> fin_off = end]
<1>1. BufInv /\ BufInv' /\ BufRead(room)
  BY BufReadInv DEF Inv, SendStreamFrame
<1>2. /\ end \in Nat /\ SendOff \in 0..unsent_off /\ SendOff <= end
      /\ unsent_off \in Nat
  BY <1>1, ReadEndTakesPending, SendOffBound DEF BufInv, BufTypeOK
<1>3. /\ retransmits' = retransmits \ Bytes(SendOff, end)
      /\ unsent_off' = IF end > unsent_off THEN end ELSE unsent_off
      /\ UNCHANGED <<fin_off, acked, shutdown, stopped>>
  BY <1>1 DEF BufRead
<1>4. /\ flight' = flight \cup {g} /\ next_pn' = next_pn + 1
      /\ UNCHANGED <<reset, phase, recv_side>>
  BY DEF SendStreamFrame, Sent
<1>5. g \in FrameType
  BY <1>2 DEF FrameType, Inv, TypeOK
<1> HIDE DEF end
<1>6. g.off = SendOff /\ g.end = end /\ g.kind = "stream"
      /\ (g.fin => fin_off = end)
  BY ZenonT(30)
<1> HIDE DEF g
<1>7. sendable' \in Nat /\ ReadyIsQueued'
  BY DEF SendStreamFrame, ReadyIsQueued, Inv, TypeOK
<1>8. TypeOK'
  BY <1>1, <1>4, <1>5, <1>7 DEF Inv, TypeOK, BufInv
<1>9. FramesSound'
  BY <1>2, <1>3, <1>4, <1>6 DEF Inv, FramesSound
<1>10. NoLostByte'
  <2> SUFFICES ASSUME NEW o \in 0..(unsent_off' - 1)
               PROVE  \/ o \in acked' \cup retransmits'
                      \/ \E f \in flight' : f.off <= o /\ o < f.end
    BY DEF NoLostByte
  <2>1. o \in Nat
    BY <1>1 DEF BufInv, BufTypeOK
  <2>2. CASE SendOff <= o /\ o < end
    BY <1>4, <1>6, <2>2
  <2>3. CASE ~(SendOff <= o /\ o < end)
    <3>1. o \in 0..(unsent_off - 1)
      BY <1>2, <1>3, <2>1, <2>3
    <3>2. o \notin Bytes(SendOff, end)
      BY <1>2, <2>1, <2>3 DEF Bytes
    <3> QED BY <1>3, <1>4, <3>1, <3>2 DEF Inv, NoLostByte
  <2> QED BY <2>2, <2>3
<1>11. FinalSizeAgrees'
  <2>1. ASSUME NEW f \in flight
        PROVE  /\ f.fin \/ f.kind = "reset" => fin_off' = f.end
               /\ f.end <= unsent_off'
    <3>1. f.end \in Nat /\ f.end <= unsent_off
          /\ (f.fin \/ f.kind = "reset" => fin_off = f.end)
      BY DEF Inv, FinalSizeAgrees, TypeOK, FrameType
    <3>2. unsent_off <= unsent_off' /\ unsent_off' \in Nat
      BY <1>2, <1>3
    <3> QED BY <1>2, <1>3, <3>1, <3>2
  <2>2. /\ g.fin \/ g.kind = "reset" => fin_off' = g.end
        /\ g.end <= unsent_off'
    BY <1>2, <1>3, <1>6
  <2> QED BY <1>3, <1>4, <2>1, <2>2 DEF Inv, FinalSizeAgrees
<1>12. ClosedIsComplete'
  BY <1>3, <1>4 DEF Inv, ClosedIsComplete, IsComplete
<1> QED BY <1>1, <1>7, <1>8, <1>9, <1>10, <1>11, <1>12 DEF Inv

\* The loop of try_write_stream_frames drops only streams that are not ready.
LEMMA SkipStreamFrameInv ==
  ASSUME Inv, SkipStreamFrame
  PROVE  Inv'
<1>1. /\ UNCHANGED bufVars
      /\ UNCHANGED <<reset, phase, recv_side, flight, next_pn>>
      /\ sendable > 0 /\ sendable' = sendable - 1
      /\ phase = "destroyed" \/ stopped
  BY DEF SkipStreamFrame, netVars
<1>2. data_off = write_off /\ write_off \in Nat
  <2>1. CASE stopped
    BY <2>1 DEF Inv, BufInv, Abandoned, BufTypeOK
  <2>2. CASE phase = "destroyed"
    BY <2>2, CompleteIsEmpty DEF Inv, ClosedIsComplete, BufInv, BufTypeOK
  <2> QED BY <1>1, <2>1, <2>2
<1>3. ~Ready'
  BY <1>1, <1>2, SameBuffer DEF Ready
<1>4. sendable' \in Nat
  BY <1>1 DEF Inv, TypeOK
<1> QED BY <1>1, <1>3, <1>4, SameBuffer DEF Inv, TypeOK, FramesSound, NoLostByte,
           ReadyIsQueued, FinalSizeAgrees, ClosedIsComplete, bufVars

\* try_write_stream_control_frames: RESET_STREAM carries the final size.
LEMMA SendResetFrameInv ==
  ASSUME Inv, SendResetFrame
  PROVE  Inv'
<1> USE SendBufConstants
<1> DEFINE g == [pn |-> next_pn, kind |-> "reset", off |-> reset, end |-> reset,
                 fin |-> FALSE]
<1>1. /\ UNCHANGED bufVars /\ UNCHANGED <<sendable, phase, recv_side>>
      /\ reset # None /\ reset' = None
      /\ flight' = flight \cup {g} /\ next_pn' = next_pn + 1
  BY DEF SendResetFrame, Sent
<1>2. reset \in Nat /\ (shutdown \/ stopped) /\ fin_off = reset
  BY <1>1 DEF Inv, TypeOK, FramesSound, FinalSizeAgrees
<1>3. reset <= unsent_off
  BY <1>2 DEF Inv, BufInv, BufTypeOK, Abandoned
<1>4. g \in FrameType
  BY <1>2 DEF FrameType, Inv, TypeOK
<1>5. g.off = reset /\ g.end = reset /\ g.kind = "reset" /\ g.fin = FALSE
  OBVIOUS
<1> HIDE DEF g
<1>6. BufInv' /\ TypeOK'
  BY <1>1, <1>4, SameBuffer DEF Inv, TypeOK
<1>7. FramesSound'
  BY <1>1, <1>2, <1>5 DEF Inv, FramesSound, bufVars
<1>8. NoLostByte' /\ ReadyIsQueued' /\ ClosedIsComplete'
  BY <1>1, SameBuffer DEF Inv, NoLostByte, ReadyIsQueued, ClosedIsComplete, bufVars
<1>9. FinalSizeAgrees'
  BY <1>1, <1>2, <1>3, <1>5 DEF Inv, FinalSizeAgrees, bufVars
<1> QED BY <1>6, <1>7, <1>8, <1>9 DEF Inv

\* on_stream_frame_acked: the bytes that leave the flight are acknowledged, and
\* the stream closes only when complete.
LEMMA StreamFrameAckedInv ==
  ASSUME Inv, NEW f \in flight, StreamFrameAcked(f)
  PROVE  Inv'
<1> USE SendBufConstants
<1>1. /\ flight' = flight \ {f}
      /\ UNCHANGED <<sendable, reset, recv_side, next_pn>>
  BY DEF StreamFrameAcked
<1>2. f.off \in Nat /\ f.end \in Nat /\ f.end <= unsent_off
  BY DEF Inv, TypeOK, FrameType, FinalSizeAgrees
<1>3. CASE phase = "destroyed"
  <2>1. UNCHANGED bufVars /\ UNCHANGED phase
    BY <1>3 DEF StreamFrameAcked
  <2>2. NoLostByte'
    BY <1>3, <2>1, CompleteIsEmpty, EmptyQueueLosesNothing
       DEF Inv, ClosedIsComplete, bufVars
  <2> QED BY <1>1, <2>1, <2>2, SameBuffer DEF Inv, TypeOK, FramesSound,
             ReadyIsQueued, FinalSizeAgrees, ClosedIsComplete, bufVars
<1>4. CASE phase # "destroyed"
  <2>1. AckAndDrop(f.off, f.end) /\ MarkClosed(IsComplete' /\ recv_side = "done")
    BY <1>4 DEF StreamFrameAcked
  <2>2. /\ BufInv' /\ acked \subseteq acked' /\ retransmits' \subseteq retransmits
        /\ data_off <= data_off'
    BY <1>2, <2>1, AckAndDropInv DEF Inv
  <2>3. UNCHANGED <<write_off, unsent_off, fin_off, shutdown, stopped>>
    BY <2>1 DEF AckAndDrop
  <2>4. TypeOK'
    BY <1>1, <2>1, <2>2 DEF Inv, TypeOK, BufInv, MarkClosed
  <2>5. FramesSound' /\ FinalSizeAgrees'
    BY <1>1, <2>3 DEF Inv, FramesSound, FinalSizeAgrees
  <2>6. ReadyIsQueued'
    <3>1. BufInv' => (Ready' <=> HasPending')
      BY ReadyWhen, PTL
    <3>2. HasPending' => HasPending
      <4>1. data_off \in Nat /\ data_off' \in Nat /\ write_off \in Nat
        BY <2>2 DEF Inv, BufInv, BufTypeOK
      <4>2. retransmits' # {} => retransmits # {}
        BY <2>2
      <4> QED BY <2>2, <2>3, <4>1, <4>2 DEF HasPending
    <3>3. Ready' => Ready
      BY <2>2, <3>1, <3>2, ReadyWhen DEF Inv
    <3> QED BY <1>1, <3>3 DEF Inv, ReadyIsQueued
  <2>7. NoLostByte'
    <3>1. CASE data_off = write_off
      BY <2>1, <2>3, <3>1, EmptyQueueLosesNothing DEF Inv, AckAndDrop
    <3>2. CASE data_off # write_off
      <4>1. /\ acked' = acked \cup Bytes(f.off, f.end)
            /\ retransmits' = retransmits \ Bytes(f.off, f.end)
        BY <2>1, <3>2 DEF AckAndDrop
      <4> SUFFICES ASSUME NEW o \in 0..(unsent_off - 1)
                   PROVE  \/ o \in acked' \cup retransmits'
                          \/ \E h \in flight' : h.off <= o /\ o < h.end
        BY <2>3 DEF NoLostByte
      <4>2. CASE f.off <= o /\ o < f.end
        BY <1>2, <4>1, <4>2 DEF Bytes, Inv, BufInv, BufTypeOK
      <4>3. CASE ~(f.off <= o /\ o < f.end)
        <5>1. o \notin Bytes(f.off, f.end)
          BY <1>2, <4>3 DEF Bytes
        <5> QED BY <1>1, <4>1, <4>3, <5>1 DEF Inv, NoLostByte
      <4> QED BY <4>2, <4>3
    <3> QED BY <3>1, <3>2
  <2>8. ClosedIsComplete'
    BY <2>1, <2>2, <2>3, CompleteStable DEF Inv, ClosedIsComplete, MarkClosed
  <2> QED BY <2>2, <2>4, <2>5, <2>6, <2>7, <2>8 DEF Inv
<1> QED BY <1>3, <1>4

\* on_reset_stream_frame_acked closes only a complete stream.
LEMMA ResetFrameAckedInv ==
  ASSUME Inv, NEW f \in flight, ResetFrameAcked(f)
  PROVE  Inv'
<1>1. /\ flight' = flight \ {f} /\ f.kind = "reset"
      /\ UNCHANGED bufVars /\ UNCHANGED <<sendable, reset, recv_side, next_pn>>
      /\ MarkClosed(IsComplete /\ recv_side = "done")
  BY DEF ResetFrameAcked
<1>2. f.off = f.end /\ f.off \in Nat
  BY <1>1 DEF Inv, FramesSound, TypeOK, FrameType
<1>3. TypeOK' /\ BufInv'
  BY <1>1, SameBuffer DEF Inv, TypeOK, MarkClosed
<1>4. FramesSound' /\ FinalSizeAgrees' /\ ReadyIsQueued'
  BY <1>1, SameBuffer DEF Inv, FramesSound, FinalSizeAgrees, ReadyIsQueued, bufVars
<1>5. NoLostByte'
  <2> SUFFICES ASSUME NEW o \in 0..(unsent_off - 1)
               PROVE  \/ o \in acked \cup retransmits
                      \/ \E h \in flight' : h.off <= o /\ o < h.end
    BY <1>1 DEF NoLostByte, bufVars
  <2>1. ~(f.off <= o /\ o < f.end)
    BY <1>2
  <2> QED BY <1>1, <2>1 DEF Inv, NoLostByte
<1>6. ClosedIsComplete'
  BY <1>1, SameBuffer DEF Inv, ClosedIsComplete, MarkClosed
<1> QED BY <1>3, <1>4, <1>5, <1>6 DEF Inv

\* on_stream_frame_lost: the bytes that leave the flight are acknowledged or
\* wait to be sent again, and the stream is queued for it.
LEMMA StreamFrameLostInv ==
  ASSUME Inv, NEW f \in flight, NEW pto \in BOOLEAN, StreamFrameLost(f, pto)
  PROVE  Inv'
<1> USE SendBufConstants
<1>1. /\ flight \ {f} \subseteq flight' /\ flight' \subseteq flight
      /\ UNCHANGED <<reset, phase, recv_side, next_pn>>
  BY DEF StreamFrameLost
<1>2. /\ f.off \in Nat /\ f.end \in Nat /\ f.end <= unsent_off
      /\ (f.off = f.end /\ f.fin) \in BOOLEAN
  BY DEF Inv, TypeOK, FrameType, FinalSizeAgrees
<1>3. CASE phase = "destroyed"
  <2>1. UNCHANGED bufVars /\ UNCHANGED sendable
    BY <1>3 DEF StreamFrameLost
  <2>2. NoLostByte'
    BY <1>3, <2>1, CompleteIsEmpty, EmptyQueueLosesNothing
       DEF Inv, ClosedIsComplete, bufVars
  <2> QED BY <1>1, <2>1, <2>2, SameBuffer DEF Inv, TypeOK, FramesSound,
             ReadyIsQueued, FinalSizeAgrees, ClosedIsComplete, bufVars
<1>4. CASE phase # "destroyed"
  <2>1. Retransmit(f.off, f.end) /\ PushSendable(f.off = f.end /\ f.fin)
    BY <1>4 DEF StreamFrameLost
  <2>2. BufInv' /\ sendable' \in Nat /\ ReadyIsQueued'
    BY <1>2, <2>1, RetransmitInv, PushKeepsQueued, ZenonT(30) DEF Inv, TypeOK
  <2>3. UNCHANGED <<write_off, unsent_off, fin_off, shutdown, stopped, acked>>
    BY <2>1 DEF Retransmit
  <2>4. TypeOK'
    BY <1>1, <2>2 DEF Inv, TypeOK, BufInv
  <2>5. FramesSound' /\ FinalSizeAgrees'
    BY <1>1, <2>3 DEF Inv, FramesSound, FinalSizeAgrees
  <2>6. NoLostByte'
    <3>1. CASE data_off = write_off
      BY <2>3, <3>1, EmptyQueueLosesNothing DEF Inv
    <3>2. CASE data_off # write_off
      <4>1. ~(shutdown \/ stopped) /\ Exact
        BY <3>2 DEF Inv, BufInv, Abandoned
      <4>2. Bytes(f.off, f.end) \subseteq acked \cup retransmits'
            /\ retransmits \subseteq retransmits'
        <5>1. CASE f.end <= AckOff(acked)
          <6>1. Bytes(0, AckOff(acked)) \subseteq acked
                /\ AckOff(acked) \in 0..unsent_off
            BY AckOffIsPrefixEnd, ZenonT(30) DEF Inv, BufInv, BufTypeOK
          <6>2. Bytes(f.off, f.end) \subseteq Bytes(0, AckOff(acked))
            BY <1>2, <5>1, <6>1 DEF Bytes, Inv, BufInv, BufTypeOK
          <6> QED BY <2>1, <5>1, <6>1, <6>2 DEF Retransmit
        <5>2. CASE ~(f.end <= AckOff(acked))
          BY <2>1, <3>2, <5>2 DEF Retransmit
        <5> QED BY <5>1, <5>2
      <4> SUFFICES ASSUME NEW o \in 0..(unsent_off - 1)
                   PROVE  \/ o \in acked' \cup retransmits'
                          \/ \E h \in flight' : h.off <= o /\ o < h.end
        BY <2>3 DEF NoLostByte
      <4>3. CASE f.off <= o /\ o < f.end
        <5>1. o \in Bytes(f.off, f.end)
          BY <1>2, <4>3 DEF Bytes, Inv, BufInv, BufTypeOK
        <5> QED BY <2>3, <4>2, <5>1
      <4>4. CASE ~(f.off <= o /\ o < f.end)
        BY <1>1, <2>3, <4>2, <4>4 DEF Inv, NoLostByte
      <4> QED BY <4>3, <4>4
    <3> QED BY <3>1, <3>2
  <2>7. ClosedIsComplete'
    BY <1>1, <2>3 DEF Inv, ClosedIsComplete, IsComplete
  <2> QED BY <2>2, <2>4, <2>5, <2>6, <2>7 DEF Inv
<1> QED BY <1>3, <1>4

\* on_reset_stream_frame_lost announces the same final size again.
LEMMA ResetFrameLostInv ==
  ASSUME Inv, NEW f \in flight, NEW pto \in BOOLEAN, ResetFrameLost(f, pto)
  PROVE  Inv'
<1> USE SendBufConstants
<1>1. /\ flight' \subseteq flight /\ flight \ {f} \subseteq flight' /\ f.kind = "reset"
      /\ UNCHANGED bufVars /\ UNCHANGED <<sendable, phase, recv_side, next_pn>>
      /\ reset' = reset \/ reset' = f.end
  BY DEF ResetFrameLost
<1>2. /\ f.off = f.end /\ f.end \in Nat /\ fin_off = f.end
      /\ (shutdown \/ stopped) /\ f.off \in Nat
  BY <1>1 DEF Inv, FramesSound, FinalSizeAgrees, TypeOK, FrameType
<1>3. TypeOK' /\ BufInv'
  BY <1>1, <1>2, SameBuffer DEF Inv, TypeOK
<1>4. FramesSound' /\ FinalSizeAgrees' /\ ReadyIsQueued' /\ ClosedIsComplete'
  BY <1>1, <1>2, SameBuffer DEF Inv, FramesSound, FinalSizeAgrees, ReadyIsQueued,
     ClosedIsComplete, bufVars
<1>5. NoLostByte'
  <2> SUFFICES ASSUME NEW o \in 0..(unsent_off - 1)
               PROVE  \/ o \in acked \cup retransmits
                      \/ \E h \in flight' : h.off <= o /\ o < h.end
    BY <1>1 DEF NoLostByte, bufVars
  <2>1. ~(f.off <= o /\ o < f.end)
    BY <1>2
  <2> QED BY <1>1, <2>1 DEF Inv, NoLostByte
<1> QED BY <1>3, <1>4, <1>5 DEF Inv

\* on_max_stream_data_frame_received only raises the limit.
LEMMA MaxStreamDataReceivedInv ==
  ASSUME Inv, NEW limit \in Nat, MaxStreamDataReceived(limit)
  PROVE  Inv'
<1>1. /\ UNCHANGED <<write_off, unsent_off, data_off, unacked_len, fin_off, shutdown,
                     stopped, acked, retransmits>>
      /\ max_data' = IF limit > max_data THEN limit ELSE max_data
      /\ UNCHANGED <<reset, phase, recv_side, flight, next_pn>>
      /\ PushSendable(FALSE)
  BY ZenonT(30) DEF MaxStreamDataReceived, UpdateMaxData, netVars
<1>2. max_data' \in Nat /\ max_data <= max_data'
  BY <1>1 DEF Inv, BufInv, BufTypeOK
<1>3. BufInv'
  <2>1. BufTypeOK' /\ write_off' <= max_data'
    BY <1>1, <1>2 DEF Inv, BufInv, BufTypeOK
  <2> QED BY <1>1, <2>1 DEF Inv, BufInv, Exact, Abandoned
<1>4. sendable' \in Nat /\ ReadyIsQueued'
  BY <1>1, PushKeepsQueued, ZenonT(30) DEF Inv, TypeOK
<1> QED BY <1>1, <1>3, <1>4 DEF Inv, TypeOK, BufInv, FramesSound, NoLostByte,
           FinalSizeAgrees, ClosedIsComplete, IsComplete

\* shutdown() and stop() differ only in the flag they set.
LEMMA AbandonInv ==
  ASSUME Inv, BufReset, shutdown' \in BOOLEAN, stopped' \in BOOLEAN,
         shutdown' \/ stopped', shutdown => shutdown', stopped => stopped',
         reset' = fin_off', UNCHANGED <<sendable, phase, recv_side, netVars>>
  PROVE  Inv'
<1> USE SendBufConstants
<1>1. BufInv' /\ Abandoned'
  BY BufResetInv DEF Inv
<1>2. /\ fin_off' = unsent_off /\ unsent_off' = unsent_off /\ unsent_off \in Nat
      /\ flight' = flight /\ next_pn' = next_pn /\ acked' = Bytes(0, unsent_off)
  BY <1>1 DEF BufReset, netVars, Inv, BufInv, BufTypeOK, Abandoned
<1>3. TypeOK'
  BY <1>1, <1>2 DEF Inv, TypeOK, BufInv
<1>4. FramesSound'
  BY <1>2 DEF Inv, FramesSound
<1>5. NoLostByte'
  BY <1>2 DEF NoLostByte, Bytes
<1>6. ReadyIsQueued'
  BY <1>1 DEF Abandoned, Ready, ReadyIsQueued, BufInv, BufTypeOK
<1>7. FinalSizeAgrees'
  <2>1. ASSUME NEW f \in flight
        PROVE  /\ f.fin \/ f.kind = "reset" => unsent_off = f.end
               /\ f.end <= unsent_off
    <3>1. /\ f.end \in Nat /\ f.end <= unsent_off
          /\ f.fin \/ f.kind = "reset" => fin_off = f.end
      BY DEF Inv, FinalSizeAgrees, TypeOK, FrameType
    <3>2. fin_off # None => fin_off = write_off /\ unsent_off <= write_off
          /\ write_off \in Nat
      BY DEF Inv, BufInv, BufTypeOK
    <3> QED BY <1>2, <3>1, <3>2
  <2> QED BY <1>2, <2>1 DEF FinalSizeAgrees
<1>8. ClosedIsComplete'
  BY <1>1, AbandonedIsComplete DEF ClosedIsComplete, BufInv
<1> QED BY <1>1, <1>3, <1>4, <1>5, <1>6, <1>7, <1>8 DEF Inv

\* The receiving half's progress and stream_destroy leave the buffer alone.
LEMMA OtherActionsInv ==
  ASSUME Inv,
         \/ \E side \in {"unread", "done"} : RecvHalfDone(side)
         \/ RecvHalfReset
         \/ StreamDestroy
         \/ UNCHANGED vars
  PROVE  Inv'
<1>1. UNCHANGED bufVars /\ UNCHANGED <<sendable, reset, flight, next_pn>>
  BY DEF RecvHalfDone, RecvHalfReset, StreamDestroy, vars, mapVars, netVars
<1>2. /\ phase' \in {"open", "closed", "destroyed"}
      /\ recv_side' \in {"open", "unread", "done"}
      /\ phase' # "open" => phase # "open" \/ IsComplete
  BY DEF RecvHalfDone, RecvHalfReset, StreamDestroy, MarkClosed, vars, mapVars,
         Inv, TypeOK
<1> QED BY <1>1, <1>2, SameBuffer DEF Inv, TypeOK, FramesSound, NoLostByte,
           ReadyIsQueued, FinalSizeAgrees, ClosedIsComplete, bufVars

-----------------------------------------------------------------------------
\* Every step of the sending half preserves the invariant.
LEMMA NextInv == Inv /\ [Next]_vars => Inv'
<1> SUFFICES ASSUME Inv, [Next]_vars PROVE Inv'
  OBVIOUS
<1> USE SendBufConstants
<1>1. CASE \E n \in 0..MaxOff, fin \in BOOLEAN, capacity \in 0..MaxOff :
             StreamWrite(n, fin, capacity)
  BY <1>1, StreamWriteInv
<1>2. CASE \E room \in 1..MaxOff : SendStreamFrame(room)
  BY <1>2, SendStreamFrameInv
<1>3. CASE SkipStreamFrame \/ SendResetFrame
  BY <1>3, SkipStreamFrameInv, SendResetFrameInv
<1>4. CASE \E f \in flight : FrameFate(f)
  BY <1>4, StreamFrameAckedInv, ResetFrameAckedInv, StreamFrameLostInv,
     ResetFrameLostInv DEF FrameFate
<1>5. CASE \E limit \in 0..MaxOff : MaxStreamDataReceived(limit)
  BY <1>5, MaxStreamDataReceivedInv
<1>6. CASE StopSendingReceived
  BY <1>6, AbandonInv DEF StopSendingReceived, BufStop, Inv, BufInv, BufTypeOK
<1>7. CASE ShutdownWrite
  BY <1>7, AbandonInv DEF ShutdownWrite, BufShutdown, Inv, BufInv, BufTypeOK
<1>8. CASE \/ \E side \in {"unread", "done"} : RecvHalfDone(side)
           \/ RecvHalfReset \/ StreamDestroy \/ UNCHANGED vars
  BY <1>8, OtherActionsInv
<1> QED BY <1>1, <1>2, <1>3, <1>4, <1>5, <1>6, <1>7, <1>8 DEF Next

\* The inductive invariant holds in every behaviour of the sending half.
THEOREM InvHolds == Spec => []Inv
BY InitInv, NextInv, PTL DEF Spec

\* The variables keep their types: no offset or length underflows.
THEOREM TypeCorrect == Spec => []TypeOK
BY InvHolds, PTL DEF Inv

\* No byte that was sent is forgotten, however acknowledgements, losses, probe
\* timeouts, writes and resets interleave.
THEOREM NoByteIsLost == Spec => []NoLostByte
BY InvHolds, PTL DEF Inv

\* A stream with data to send stays in the sendable queue.
THEOREM ReadyStaysQueued == Spec => []ReadyIsQueued
BY InvHolds, PTL DEF Inv

\* One final size per stream, and no data beyond it.
THEOREM OneFinalSize == Spec => []FinalSizeAgrees
BY InvHolds, PTL DEF Inv

\* Nothing is sent beyond the peer's flow-control limit.
THEOREM LimitRespected == Spec => []WithinMaxData
<1>1. Inv => WithinMaxData
  BY DEF Inv, BufInv, WithinMaxData
<1> QED BY <1>1, InvHolds, PTL

\* What is to be sent again is still buffered, so read() always advances.
THEOREM ResendIsBuffered == Spec => []ResendableIsBuffered
<1>1. Inv => ResendableIsBuffered
  <2> SUFFICES ASSUME Inv, data_off < write_off, NEW o \in retransmits
               PROVE  o \in data_off..(write_off - 1)
    BY DEF ResendableIsBuffered
  <2>1. ~(shutdown \/ stopped) /\ Exact
    BY DEF Inv, BufInv, BufTypeOK, Abandoned
  <2>2. o \in 0..(unsent_off - 1) /\ o \notin acked
    BY <2>1 DEF Exact, Inv, BufInv, Bytes
  <2>3. o \notin 0..(data_off - 1)
    BY <2>1, <2>2 DEF Exact, Bytes
  <2> QED BY <2>2, <2>3 DEF Inv, BufInv, BufTypeOK
<1> QED BY <1>1, InvHolds, PTL

\* The count of unacknowledged bytes is exact until the stream is reset.
THEOREM UnackedLenIsExact == Spec => []UnackedLenExact
<1>1. Inv => UnackedLenExact
  <2> SUFFICES ASSUME Inv, ~shutdown, ~stopped
               PROVE  data_off = AckOff(acked) /\ unacked_len = write_off - data_off
    BY DEF UnackedLenExact
  <2>1. Exact /\ data_off \in Nat /\ unsent_off \in Nat
    BY DEF Inv, BufInv, BufTypeOK
  <2>2. /\ AckOff(acked) \in 0..unsent_off /\ AckOff(acked) \notin acked
        /\ Bytes(0, AckOff(acked)) \subseteq acked
    BY <2>1, AckOffIsPrefixEnd DEF Inv, BufInv
  <2>3. data_off \notin Bytes(0, AckOff(acked))
    BY <2>1, <2>2 DEF Exact
  <2>4. AckOff(acked) \notin Bytes(0, data_off)
    BY <2>1, <2>2 DEF Exact
  <2>5. data_off = AckOff(acked)
    BY <2>1, <2>2, <2>3, <2>4 DEF Bytes
  <2> QED BY <2>1, <2>5 DEF Exact
<1> QED BY <1>1, InvHolds, PTL

\* A closed stream is complete, and stays complete.
THEOREM ClosedStaysComplete == Spec => []ClosedIsComplete
BY InvHolds, PTL DEF Inv
=============================================================================
