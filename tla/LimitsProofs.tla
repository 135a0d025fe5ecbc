----------------------------- MODULE LimitsProofs -----------------------------
(***************************************************************************)
(* The limits on a sender, for any number of streams, any limits and any   *)
(* calls: the send credit and the writable list (StreamCredit), and the    *)
(* bookkeeping of stream IDs for both roles and every set of types         *)
(* (StreamIds).                                                            *)
(***************************************************************************)
EXTENDS StreamCredit, StreamIds, FiniteSetTheorems, TLAPS

-----------------------------------------------------------------------------
(* The send credit.                                                        *)

\* What was sent was written, and what was written the stream's limit allows; a
\* final size is where the writing ends, and a stopped stream has one.
Ordered(r) ==
  /\ r.unsent <= r.write /\ r.write <= r.max
  /\ r.fin # None => r.fin = r.write
  /\ r.stopped => r.fin # None

OffsetsOrdered == \A s \in Streams : Ordered(stream[s])

\* The capacity is what the limit leaves.
CapacityExact == capacity = tx_max - tx_data

CreditInv ==
  /\ TypeOK
  /\ OffsetsOrdered
  /\ CapacityExact
  /\ WriterIsListed
  /\ StopIsReported
  /\ BlockedAtLimit

-----------------------------------------------------------------------------
\* A step that replaces the record of stream t keeps what the invariant says of
\* the streams, provided the new record has its type, its offsets are ordered, and
\* the new lists serve it.
LEMMA UpdateKeepsStreams ==
  ASSUME CreditInv, NEW t \in Streams, NEW r \in StreamType, Update(t, r),
         Ordered(r),
         writable' \in SUBSET Streams, told' \in SUBSET Streams,
         \A s \in Streams \ {t} : (s \in writable => s \in writable')
                                  /\ (s \in told => s \in told'),
         r.phase = "open" /\ IsWritable(r) => t \in writable',
         r.phase = "open" /\ r.stopped /\ ~r.shutdown => t \in writable' \cup told'
  PROVE  /\ stream' \in [Streams -> StreamType]
         /\ OffsetsOrdered' /\ WriterIsListed' /\ StopIsReported'
<1>1. stream \in [Streams -> StreamType]
  BY DEF CreditInv, TypeOK
<1>2. stream' = [stream EXCEPT ![t] = r]
  BY DEF Update
<1>3. stream' \in [Streams -> StreamType]
  BY <1>1, <1>2
<1>4. stream'[t] = r /\ \A s \in Streams \ {t} : stream'[s] = stream[s]
  BY <1>1, <1>2
<1>5. OffsetsOrdered'
  BY <1>4 DEF CreditInv, OffsetsOrdered, Ordered
<1>6. WriterIsListed'
  <2>1. SUFFICES ASSUME NEW s \in Streams, stream'[s].phase = "open", IsWritable(stream'[s])
                 PROVE  s \in writable'
    BY DEF WriterIsListed, IsWritable
  <2>2. CASE s = t
    BY <1>4, <2>1, <2>2
  <2>3. CASE s # t
    BY <1>4, <2>1, <2>3 DEF CreditInv, WriterIsListed
  <2> QED BY <2>2, <2>3
<1>7. StopIsReported'
  <2>1. SUFFICES ASSUME NEW s \in Streams, stream'[s].phase = "open",
                        stream'[s].stopped, ~stream'[s].shutdown
                 PROVE  s \in writable' \cup told'
    BY DEF StopIsReported
  <2>2. CASE s = t
    BY <1>4, <2>1, <2>2
  <2>3. CASE s # t
    BY <1>4, <2>1, <2>3 DEF CreditInv, StopIsReported
  <2> QED BY <2>2, <2>3
<1> QED BY <1>3, <1>5, <1>6, <1>7

\* Bytes are counted: what NoteBlocked sets is the limit in force.
LEMMA NoteBlockedAtLimit ==
  ASSUME CreditInv, NEW n, NoteBlocked(n), tx_max' = tx_max
  PROVE  BlockedAtLimit' /\ blocked_at' \in Nat \cup {None}
BY DEF NoteBlocked, CreditInv, BlockedAtLimit, TypeOK

\* A step that leaves the streams alone and takes nothing off a list that is still
\* owed a call keeps what the invariant says of the streams.
LEMMA ListsKeepStreams ==
  ASSUME CreditInv, UNCHANGED stream,
         writable' \in SUBSET Streams, told' \in SUBSET Streams,
         \A s \in Streams :
            /\ stream[s].phase = "open" /\ IsWritable(stream[s]) => s \in writable'
            /\ stream[s].phase = "open" /\ stream[s].stopped /\ ~stream[s].shutdown
                 => s \in writable' \cup told'
  PROVE  /\ stream' \in [Streams -> StreamType]
         /\ OffsetsOrdered' /\ WriterIsListed' /\ StopIsReported'
<1>1. stream' \in [Streams -> StreamType]
  BY DEF CreditInv, TypeOK
<1>2. OffsetsOrdered'
  BY DEF CreditInv, OffsetsOrdered, Ordered
<1>3. WriterIsListed'
  BY DEF WriterIsListed, IsWritable
<1>4. StopIsReported'
  BY DEF StopIsReported
<1> QED BY <1>1, <1>2, <1>3, <1>4

\* A stream_write that writes keeps the invariant.
LEMMA WriteStep ==
  ASSUME CreditInv, NEW s \in Streams, NEW n \in Nat, NEW fin \in BOOLEAN,
         Write(s, n, fin)
  PROVE  CreditInv'
<1> DEFINE r       == stream[s]
           cut     == n > capacity
           len     == Smaller(n, capacity)
           written == Smaller(len, r.max - r.write)
           after   == [r EXCEPT
                         !.write = r.write + written,
                         !.fin = IF fin /\ ~cut /\ written = len THEN r.write + len ELSE r.fin]
<1>1. /\ r \in StreamType /\ r.write \in Nat /\ r.unsent \in Nat /\ r.max \in Nat
      /\ r.unsent <= r.write /\ r.write <= r.max
  BY DEF CreditInv, TypeOK, StreamType, OffsetsOrdered, Ordered
<1>2. /\ tx_max \in Nat /\ tx_data \in Nat /\ capacity \in Nat
      /\ capacity = tx_max - tx_data
  BY DEF CreditInv, TypeOK, CapacityExact
<1>3. len \in Nat /\ len <= capacity
  BY <1>2 DEF Smaller
<1>4. written \in Nat /\ written <= capacity /\ r.write + written <= r.max
  BY <1>1, <1>2, <1>3 DEF Smaller
<1>5. /\ ~r.stopped /\ NoteBlocked(n) /\ Update(s, after)
      /\ writable' = ListAfterWrite(s, r, after, cut)
      /\ capacity' = capacity - written /\ tx_data' = tx_data + written
      /\ UNCHANGED <<tx_max, announced, told>>
  BY DEF Write, Refused
<1> HIDE DEF written, len
<1>6. /\ after \in StreamType
      /\ after.unsent = r.unsent /\ after.write = r.write + written /\ after.max = r.max
      /\ after.phase = r.phase /\ after.stopped = r.stopped /\ after.shutdown = r.shutdown
      /\ after.thresh = r.thresh /\ r.thresh \in Nat
      /\ after.fin = IF fin /\ ~cut /\ written = len THEN r.write + len ELSE r.fin
  <2> DEFINE w == r.write + written
             f == IF fin /\ ~cut /\ written = len THEN r.write + len ELSE r.fin
  <2>1. w \in Nat /\ f \in Nat \cup {None}
    BY <1>1, <1>3, <1>4 DEF StreamType
  <2>2. after = [r EXCEPT !.write = w, !.fin = f]
    OBVIOUS
  <2> HIDE DEF w, f, after
  <2>3. after \in StreamType
    BY <1>1, <2>1, <2>2, ZenonT(30) DEF StreamType
  <2>4. /\ after.unsent = r.unsent /\ after.write = w /\ after.max = r.max
        /\ after.phase = r.phase /\ after.stopped = r.stopped
        /\ after.shutdown = r.shutdown /\ after.thresh = r.thresh /\ after.fin = f
        /\ r.thresh \in Nat
    BY <1>1, <2>2 DEF StreamType
  <2> QED BY <2>3, <2>4 DEF w, f
<1>7. writable' \in SUBSET Streams /\ \A u \in Streams \ {s} : u \in writable => u \in writable'
  BY <1>5 DEF ListAfterWrite, CreditInv, TypeOK
<1>8. r.phase = "open" /\ IsWritable(after) => s \in writable'
  \* A stream that can be written to now could be before, and was listed.
  <2>1. SUFFICES ASSUME r.phase = "open", IsWritable(after) PROVE s \in writable'
    OBVIOUS
  <2>2. r.write + r.thresh <= r.max /\ ~r.shutdown
    BY <1>1, <1>4, <1>6, <2>1 DEF IsWritable
  <2>3. CASE r.fin = r.write
    <3>1. r.write + len <= r.write /\ (r.write + len = r.write => fin /\ ~cut /\ len <= r.max - r.write)
      BY <1>1, <1>3, <2>3, StreamCreditConstants DEF Write, Refused, len
    <3>2. len = 0 /\ written = 0 /\ fin /\ ~cut
      BY <1>1, <1>3, <1>4, <3>1 DEF written, Smaller
    <3>3. after.fin = after.write
      BY <1>1, <1>6, <3>2
    <3> QED BY <2>1, <3>3 DEF IsWritable
  <2>4. CASE r.fin # r.write
    <3>1. IsWritable(r)
      BY <2>2, <2>4 DEF IsWritable
    <3>2. s \in writable
      BY <2>1, <3>1 DEF CreditInv, WriterIsListed
    <3> QED BY <1>5, <2>1, <3>2 DEF ListAfterWrite
  <2> QED BY <2>3, <2>4
<1>9. /\ stream' \in [Streams -> StreamType]
      /\ OffsetsOrdered' /\ WriterIsListed' /\ StopIsReported'
  <2>1. told' \in SUBSET Streams /\ \A u \in Streams \ {s} : u \in told => u \in told'
    BY <1>5 DEF CreditInv, TypeOK
  <2>2. Ordered(after)
    <3>1. after.fin # None => after.fin = after.write
      <4>1. CASE r.fin = None
        BY <1>1, <1>6, <4>1
      <4>2. CASE r.fin # None
        <5>1. r.fin = r.write
          BY <4>2 DEF CreditInv, OffsetsOrdered, Ordered
        <5>2. r.write + len <= r.write
          BY <1>1, <1>3, <4>2, <5>1 DEF Write, Refused, len
        <5>3. len = 0 /\ written = 0
          BY <1>1, <1>3, <5>2 DEF written, Smaller
        <5> QED BY <1>1, <1>6, <5>1, <5>3
      <4> QED BY <4>1, <4>2
    <3>2. ~after.stopped
      BY <1>5, <1>6
    <3> QED BY <1>1, <1>4, <1>6, <3>1, <3>2 DEF Ordered
  <2> HIDE DEF after, r
  <2>3. after \in StreamType /\ Update(s, after)
    BY <1>5, <1>6
  <2> QED BY <1>5, <1>6, <1>7, <1>8, <2>1, <2>2, <2>3, UpdateKeepsStreams
<1>10. BlockedAtLimit' /\ blocked_at' \in Nat \cup {None}
  BY <1>5, NoteBlockedAtLimit
<1>11. capacity' \in Nat /\ tx_data' \in Nat /\ CapacityExact'
  BY <1>2, <1>4, <1>5 DEF CapacityExact
<1>12. TypeOK'
  BY <1>5, <1>7, <1>9, <1>10, <1>11 DEF CreditInv, TypeOK
<1> QED BY <1>9, <1>10, <1>11, <1>12 DEF CreditInv

\* stream_writable keeps the invariant, also when it lowers the threshold.
LEMMA StreamWritableStep ==
  ASSUME CreditInv, NEW s \in Streams, NEW n \in Nat, StreamWritable(s, n)
  PROVE  CreditInv'
<1> DEFINE r     == stream[s]
           after == [r EXCEPT !.thresh = Larger(1, n)]
<1>1. /\ r \in StreamType /\ r.write \in Nat /\ r.max \in Nat
      /\ r.unsent <= r.write /\ r.write <= r.max
  BY DEF CreditInv, TypeOK, StreamType, OffsetsOrdered, Ordered
<1>2. /\ ~r.stopped /\ NoteBlocked(n) /\ Update(s, after)
      /\ writable' = IF r.max - r.write >= n /\ IsWritable(after)
                     THEN writable \cup {s} ELSE writable
      /\ UNCHANGED <<tx_max, tx_data, capacity, announced, told>>
  BY DEF StreamWritable
<1>3. Larger(1, n) \in Nat /\ Larger(1, n) >= n
  BY DEF Larger
<1>4. after \in StreamType
  BY <1>1, <1>3 DEF StreamType
<1>5. /\ after.unsent = r.unsent /\ after.write = r.write /\ after.max = r.max
      /\ after.stopped = r.stopped /\ after.fin = r.fin /\ after.thresh = Larger(1, n)
  BY <1>1 DEF StreamType
<1> HIDE DEF after
<1>6. IsWritable(after) => s \in writable'
  BY <1>1, <1>2, <1>3, <1>5 DEF IsWritable
<1>7. /\ stream' \in [Streams -> StreamType]
      /\ OffsetsOrdered' /\ WriterIsListed' /\ StopIsReported'
  <2>1. /\ writable' \in SUBSET Streams /\ told' \in SUBSET Streams
        /\ \A u \in Streams \ {s} : (u \in writable => u \in writable')
                                    /\ (u \in told => u \in told')
    BY <1>2 DEF CreditInv, TypeOK
  <2>2. Ordered(after) /\ ~after.stopped
    BY <1>1, <1>2, <1>5 DEF CreditInv, OffsetsOrdered, Ordered
  <2> HIDE DEF r
  <2> QED BY <1>2, <1>4, <1>6, <2>1, <2>2, UpdateKeepsStreams
<1>8. BlockedAtLimit' /\ blocked_at' \in Nat \cup {None}
  BY <1>2, NoteBlockedAtLimit
<1>9. CapacityExact' /\ TypeOK'
  BY <1>2, <1>7, <1>8 DEF CreditInv, TypeOK, CapacityExact
<1> QED BY <1>7, <1>8, <1>9 DEF CreditInv

\* stream_write that returns an error keeps the invariant.
LEMMA WriteFailsStep ==
  ASSUME CreditInv, NEW s \in Streams, NEW n \in Nat, NEW fin \in BOOLEAN,
         WriteRefused(s, n, fin) \/ WriteNoCredit(s, n) \/ WriteGone(s, n)
  PROVE  CreditInv'
<1>1. NoteBlocked(n) /\ UNCHANGED <<tx_max, tx_data, capacity, announced, stream>>
  BY DEF WriteRefused, WriteNoCredit, WriteGone
<1>2. writable' \in SUBSET Streams /\ told' \in SUBSET Streams
  BY DEF WriteRefused, WriteNoCredit, WriteGone, CreditInv, TypeOK
<1>3. \A u \in Streams :
        /\ stream[u].phase = "open" /\ IsWritable(stream[u]) => u \in writable'
        /\ stream[u].phase = "open" /\ stream[u].stopped /\ ~stream[u].shutdown
             => u \in writable' \cup told'
  <2>1. CASE WriteNoCredit(s, n) \/ WriteGone(s, n)
    <3>1. writable \subseteq writable' /\ told' = told
      BY <2>1 DEF WriteNoCredit, WriteGone
    <3> QED BY <3>1 DEF CreditInv, WriterIsListed, StopIsReported
  <2>2. CASE WriteRefused(s, n, fin)
    \* A refused stream has a final size, so it is not writable.
    <3>1. /\ writable' = writable \ {s}
          /\ told \subseteq told' /\ (stream[s].stopped => s \in told')
      BY <2>2 DEF WriteRefused
    <3>2. stream[s].fin # None
      BY <2>2 DEF WriteRefused, Refused, CreditInv, OffsetsOrdered, Ordered
    <3>3. ~IsWritable(stream[s])
      BY <3>2 DEF IsWritable, CreditInv, OffsetsOrdered, Ordered
    <3> QED BY <3>1, <3>3 DEF CreditInv, WriterIsListed, StopIsReported
  <2> QED BY <2>1, <2>2
<1>4. /\ stream' \in [Streams -> StreamType]
      /\ OffsetsOrdered' /\ WriterIsListed' /\ StopIsReported'
  BY <1>1, <1>2, <1>3, ListsKeepStreams
<1>5. BlockedAtLimit' /\ blocked_at' \in Nat \cup {None}
  BY <1>1, NoteBlockedAtLimit
<1>6. CapacityExact' /\ TypeOK'
  BY <1>1, <1>2, <1>4, <1>5 DEF CreditInv, TypeOK, CapacityExact
<1> QED BY <1>4, <1>5, <1>6 DEF CreditInv

\* Giving back what was not sent leaves the credit exact.
LEMMA GiveBackExact ==
  ASSUME CreditInv, NEW s \in Streams, GiveBack(stream[s]), tx_max' = tx_max
  PROVE  tx_data' \in Nat /\ capacity' \in Nat /\ CapacityExact'
<1> DEFINE r == stream[s]
<1>1. r.write \in Nat /\ r.unsent \in Nat /\ r.unsent <= r.write
  BY DEF CreditInv, TypeOK, StreamType, OffsetsOrdered, Ordered
<1>2. tx_max \in Nat /\ tx_data \in Nat /\ capacity \in Nat /\ capacity = tx_max - tx_data
  BY DEF CreditInv, TypeOK, CapacityExact
<1>3. tx_data' = Larger(0, tx_data - (r.write - r.unsent)) /\ capacity' = tx_max - tx_data'
  BY DEF GiveBack
<1> HIDE DEF r
<1> QED BY <1>1, <1>2, <1>3 DEF Larger, CapacityExact

\* After SendBuf::reset() a stream ends where its sending ended.
LEMMA ResetRecord ==
  ASSUME NEW r \in StreamType, Ordered(r), NEW q \in StreamType,
         q.unsent = r.unsent, q.write = r.unsent, q.fin = r.unsent, q.max = r.max
  PROVE  Ordered(q) /\ ~IsWritable(q)
<1>1. r.unsent \in Nat /\ r.write \in Nat /\ r.max \in Nat
  BY DEF StreamType
<1> QED BY <1>1, StreamCreditConstants DEF Ordered, IsWritable

\* stream_shutdown(Write) keeps the invariant.
LEMMA ShutdownStep ==
  ASSUME CreditInv, NEW s \in Streams, ShutdownWrite(s)
  PROVE  CreditInv'
<1> DEFINE r == stream[s]
           q == [Reset(r) EXCEPT !.shutdown = TRUE]
<1>1. r \in StreamType /\ Ordered(r) 
  BY DEF CreditInv, TypeOK, StreamType, OffsetsOrdered
<1>2. /\ GiveBack(r) /\ Update(s, q) /\ writable' = writable \ {s}
      /\ UNCHANGED <<tx_max, blocked_at, announced, told>>
  BY DEF ShutdownWrite
<1>3. /\ q \in StreamType /\ q.shutdown
      /\ q.unsent = r.unsent /\ q.write = r.unsent /\ q.fin = r.unsent /\ q.max = r.max
  BY <1>1, ZenonT(30) DEF Reset, StreamType
<1> HIDE DEF q
<1>4. Ordered(q) /\ ~IsWritable(q)
  BY <1>1, <1>3, ResetRecord
<1>5. /\ writable' \in SUBSET Streams /\ told' \in SUBSET Streams
      /\ \A u \in Streams \ {s} : (u \in writable => u \in writable')
                                  /\ (u \in told => u \in told')
  BY <1>2 DEF CreditInv, TypeOK
<1>6. /\ stream' \in [Streams -> StreamType]
      /\ OffsetsOrdered' /\ WriterIsListed' /\ StopIsReported'
  BY <1>2, <1>3, <1>4, <1>5, UpdateKeepsStreams
<1>7. tx_data' \in Nat /\ capacity' \in Nat /\ CapacityExact'
  BY <1>2, GiveBackExact
<1>8. TypeOK' /\ BlockedAtLimit'
  BY <1>2, <1>5, <1>6, <1>7 DEF CreditInv, TypeOK, BlockedAtLimit
<1> QED BY <1>6, <1>7, <1>8 DEF CreditInv

\* STOP_SENDING keeps the invariant.
LEMMA StopStep ==
  ASSUME CreditInv, NEW s \in Streams, StopSendingReceived(s)
  PROVE  CreditInv'
<1> DEFINE r == stream[s]
           q == [Reset(r) EXCEPT !.stopped = TRUE]
<1>1. r \in StreamType /\ Ordered(r) 
  BY DEF CreditInv, TypeOK, StreamType, OffsetsOrdered
<1>2. /\ GiveBack(r) /\ Update(s, q)
      /\ writable' = IF IsWritable(r) THEN writable ELSE writable \cup {s}
      /\ UNCHANGED <<tx_max, blocked_at, announced, told>>
  BY DEF StopSendingReceived
<1>3. /\ q \in StreamType /\ q.phase = r.phase
      /\ q.unsent = r.unsent /\ q.write = r.unsent /\ q.fin = r.unsent /\ q.max = r.max
  BY <1>1, ZenonT(30) DEF Reset, StreamType
<1> HIDE DEF q
<1>4. Ordered(q) /\ ~IsWritable(q)
  BY <1>1, <1>3, ResetRecord
<1>5. /\ writable' \in SUBSET Streams /\ told' \in SUBSET Streams
      /\ \A u \in Streams \ {s} : (u \in writable => u \in writable')
                                  /\ (u \in told => u \in told')
  BY <1>2 DEF CreditInv, TypeOK
<1>6. r.phase = "open" => s \in writable'
  BY <1>2 DEF CreditInv, WriterIsListed
<1>7. /\ stream' \in [Streams -> StreamType]
      /\ OffsetsOrdered' /\ WriterIsListed' /\ StopIsReported'
  BY <1>2, <1>3, <1>4, <1>5, <1>6, UpdateKeepsStreams
<1>8. tx_data' \in Nat /\ capacity' \in Nat /\ CapacityExact'
  BY <1>2, GiveBackExact
<1>9. TypeOK' /\ BlockedAtLimit'
  BY <1>2, <1>5, <1>7, <1>8 DEF CreditInv, TypeOK, BlockedAtLimit
<1> QED BY <1>7, <1>8, <1>9 DEF CreditInv

\* MAX_STREAM_DATA keeps the invariant: a stream that becomes writable is listed.
LEMMA MaxStreamDataStep ==
  ASSUME CreditInv, NEW s \in Streams, NEW lim \in Nat, MaxStreamDataReceived(s, lim)
  PROVE  CreditInv'
<1> DEFINE r == stream[s]
           q == [r EXCEPT !.max = Larger(r.max, lim)]
<1>1. /\ r \in StreamType /\ Ordered(r)
      /\ r.unsent \in Nat /\ r.write \in Nat /\ r.max \in Nat
  BY DEF CreditInv, TypeOK, StreamType, OffsetsOrdered
<1>2. /\ Update(s, q)
      /\ writable' = IF IsWritable(q) THEN writable \cup {s} ELSE writable
      /\ UNCHANGED <<tx_max, tx_data, capacity, blocked_at, announced, told>>
  BY DEF MaxStreamDataReceived, creditVars
<1>3. Larger(r.max, lim) \in Nat /\ Larger(r.max, lim) >= r.max
  BY <1>1 DEF Larger
<1>4. q \in StreamType
  BY <1>1, <1>3 DEF StreamType
<1>5. /\ q.unsent = r.unsent /\ q.write = r.write /\ q.fin = r.fin
      /\ q.max = Larger(r.max, lim) /\ q.phase = r.phase
      /\ q.stopped = r.stopped /\ q.shutdown = r.shutdown
  BY <1>1 DEF StreamType
<1> HIDE DEF q
<1>6. Ordered(q)
  BY <1>1, <1>3, <1>5 DEF Ordered
<1>7. /\ writable' \in SUBSET Streams /\ told' \in SUBSET Streams
      /\ \A u \in Streams : (u \in writable => u \in writable') /\ (u \in told => u \in told')
  BY <1>2 DEF CreditInv, TypeOK
<1>8. q.phase = "open" /\ q.stopped /\ ~q.shutdown => s \in writable' \cup told'
  BY <1>5, <1>7, ZenonT(30) DEF CreditInv, StopIsReported
<1>9. /\ stream' \in [Streams -> StreamType]
      /\ OffsetsOrdered' /\ WriterIsListed' /\ StopIsReported'
  BY <1>2, <1>4, <1>6, <1>7, <1>8, UpdateKeepsStreams
<1>10. TypeOK' /\ BlockedAtLimit' /\ CapacityExact'
  BY <1>2, <1>7, <1>9 DEF CreditInv, TypeOK, BlockedAtLimit, CapacityExact
<1> QED BY <1>9, <1>10 DEF CreditInv

\* Sending, closing and destroying keep the invariant: they change no offset that
\* the lists depend on, and only a closed stream leaves the list.
LEMMA ProgressStep ==
  ASSUME CreditInv, NEW s \in Streams, NEW end \in Nat,
         SendData(s, end) \/ Close(s) \/ Destroy(s)
  PROVE  CreditInv'
<1> DEFINE r == stream[s]
<1>1. /\ r \in StreamType /\ Ordered(r)
      /\ r.unsent \in Nat /\ r.write \in Nat /\ r.max \in Nat
  BY DEF CreditInv, TypeOK, StreamType, OffsetsOrdered
<1>2. /\ UNCHANGED <<tx_max, tx_data, capacity, blocked_at, announced, told>>
      /\ writable' \in SUBSET Streams /\ told' \in SUBSET Streams
      /\ \A u \in Streams \ {s} : (u \in writable => u \in writable')
                                  /\ (u \in told => u \in told')
  BY DEF SendData, Close, Destroy, creditVars, CreditInv, TypeOK
<1>3. /\ stream' \in [Streams -> StreamType]
      /\ OffsetsOrdered' /\ WriterIsListed' /\ StopIsReported'
  <2>1. CASE SendData(s, end)
    <3> DEFINE q == [r EXCEPT !.unsent = end]
    <3>1. Update(s, q) /\ end <= r.write /\ writable' = writable
      BY <2>1 DEF SendData
    <3>2. /\ q \in StreamType
          /\ q.unsent = end /\ q.write = r.write /\ q.fin = r.fin /\ q.max = r.max
          /\ q.phase = r.phase /\ q.stopped = r.stopped /\ q.shutdown = r.shutdown
          /\ q.thresh = r.thresh
      BY <1>1 DEF StreamType
    <3> HIDE DEF q
    <3>3. Ordered(q) /\ IsWritable(q) = IsWritable(r)
      BY <1>1, <3>1, <3>2 DEF Ordered, IsWritable
    <3>4. /\ q.phase = "open" /\ IsWritable(q) => s \in writable'
          /\ q.phase = "open" /\ q.stopped /\ ~q.shutdown => s \in writable' \cup told'
      BY <1>2, <3>1, <3>2, <3>3 DEF CreditInv, WriterIsListed, StopIsReported
    <3> QED BY <1>2, <3>1, <3>2, <3>3, <3>4, UpdateKeepsStreams
  <2>2. ASSUME NEW p \in {"closed", "destroyed"}, Update(s, [r EXCEPT !.phase = p])
        PROVE  /\ stream' \in [Streams -> StreamType]
               /\ OffsetsOrdered' /\ WriterIsListed' /\ StopIsReported'
    <3> DEFINE q == [r EXCEPT !.phase = p]
    <3>1. /\ q \in StreamType
          /\ q.unsent = r.unsent /\ q.write = r.write /\ q.fin = r.fin /\ q.max = r.max
          /\ q.phase # "open" /\ q.stopped = r.stopped
      BY <1>1 DEF StreamType
    <3>2. Update(s, q)
      BY <2>2
    <3> HIDE DEF q
    <3>3. Ordered(q)
      BY <1>1, <3>1 DEF Ordered
    <3> QED BY <1>2, <3>1, <3>2, <3>3, UpdateKeepsStreams
  <2>3. CASE Close(s)
    BY <2>2, <2>3 DEF Close
  <2>4. CASE Destroy(s)
    BY <2>2, <2>4 DEF Destroy
  <2> QED BY <2>1, <2>3, <2>4
<1>4. TypeOK' /\ BlockedAtLimit' /\ CapacityExact'
  BY <1>2, <1>3 DEF CreditInv, TypeOK, BlockedAtLimit, CapacityExact
<1> QED BY <1>3, <1>4 DEF CreditInv

\* MAX_DATA, DATA_BLOCKED and its loss keep the invariant.
LEMMA ConnectionStep ==
  ASSUME CreditInv, NEW lim \in Nat,
         MaxDataReceived(lim) \/ SendDataBlocked \/ DataBlockedLost
  PROVE  CreditInv'
<1>1. UNCHANGED <<tx_data, stream, writable, told>>
  BY DEF MaxDataReceived, SendDataBlocked, DataBlockedLost
<1>2. /\ tx_max \in Nat /\ tx_data \in Nat /\ capacity \in Nat
      /\ blocked_at \in Nat \cup {None} /\ announced \in Nat \cup {None}
      /\ capacity = tx_max - tx_data
      /\ blocked_at # None => blocked_at = tx_max
  BY DEF CreditInv, TypeOK, CapacityExact, BlockedAtLimit
<1>3. /\ tx_max' \in Nat /\ capacity' \in Nat /\ CapacityExact' /\ BlockedAtLimit'
      /\ blocked_at' \in Nat \cup {None} /\ announced' \in Nat \cup {None}
  <2>1. CASE MaxDataReceived(lim)
    <3>1. /\ tx_max' = Larger(tx_max, lim) /\ capacity' = tx_max' - tx_data
          /\ blocked_at' = IF blocked_at # None /\ blocked_at >= tx_max' THEN blocked_at ELSE None
          /\ tx_data' = tx_data /\ announced' = announced
      BY <2>1 DEF MaxDataReceived
    <3>2. tx_max' \in Nat /\ tx_max' >= tx_max
      BY <1>2, <3>1 DEF Larger
    <3> QED BY <1>2, <3>1, <3>2 DEF CapacityExact, BlockedAtLimit
  <2>2. CASE SendDataBlocked
    BY <1>2, <2>2 DEF SendDataBlocked, CapacityExact, BlockedAtLimit
  <2>3. CASE DataBlockedLost
    BY <1>2, <2>3 DEF DataBlockedLost, CapacityExact, BlockedAtLimit
  <2> QED BY <2>1, <2>2, <2>3
<1>4. /\ stream' \in [Streams -> StreamType]
      /\ OffsetsOrdered' /\ WriterIsListed' /\ StopIsReported'
  BY <1>1, ListsKeepStreams DEF CreditInv, TypeOK, WriterIsListed, StopIsReported
<1>5. TypeOK'
  BY <1>1, <1>3, <1>4 DEF CreditInv, TypeOK
<1> QED BY <1>3, <1>4, <1>5 DEF CreditInv

-----------------------------------------------------------------------------
\* The initial state: the streams' initial credit decides who is listed.
LEMMA CreditInit == Init => CreditInv
<1> SUFFICES ASSUME Init PROVE CreditInv
  OBVIOUS
<1> DEFINE new == [write |-> 0, unsent |-> 0, max |-> InitMaxData, fin |-> None,
                   shutdown |-> FALSE, stopped |-> FALSE, phase |-> "open", thresh |-> 1]
<1>1. new \in StreamType /\ Ordered(new)
  BY StreamCreditConstants DEF StreamType, Ordered
<1>2. stream = [s \in Streams |-> new] /\ \A s \in Streams : stream[s] = new
  BY DEF Init
<1>3. IsWritable(new) => InitMaxData > 0
  BY StreamCreditConstants DEF IsWritable
<1>4. ~new.stopped
  OBVIOUS
<1> HIDE DEF new
<1>5. stream \in [Streams -> StreamType] /\ OffsetsOrdered
  BY <1>1, <1>2 DEF OffsetsOrdered
<1>6. WriterIsListed /\ StopIsReported
  <2>1. writable = {s \in Streams : InitMaxData > 0}
    BY DEF Init
  <2>2. \A s \in Streams : IsWritable(stream[s]) => s \in writable
    BY <1>2, <1>3, <2>1
  <2> QED BY <1>2, <1>4, <2>2 DEF WriterIsListed, StopIsReported
<1>7. TypeOK /\ CapacityExact /\ BlockedAtLimit
  <2>1. writable \in SUBSET Streams /\ told \in SUBSET Streams
    BY DEF Init
  <2>2. /\ tx_max = InitConnMax /\ tx_data = 0 /\ capacity = InitConnMax
        /\ blocked_at = None /\ announced = None
    BY DEF Init
  <2> QED BY <1>5, <2>1, <2>2, StreamCreditConstants DEF TypeOK, CapacityExact, BlockedAtLimit
<1> QED BY <1>5, <1>6, <1>7 DEF CreditInv

\* Every handler keeps the invariant.
LEMMA CreditStep == CreditInv /\ [Next]_vars => CreditInv'
<1> SUFFICES ASSUME CreditInv, [Next]_vars PROVE CreditInv'
  OBVIOUS
<1> USE StreamCreditConstants
<1>1. ASSUME NEW s \in Streams, NEW n \in 0..MaxWrite, NEW fin \in BOOLEAN,
             WriteRefused(s, n, fin) \/ Write(s, n, fin) \/ WriteNoCredit(s, n)
               \/ WriteGone(s, n) \/ StreamWritable(s, n)
      PROVE  CreditInv'
  <2>1. n \in Nat
    BY <1>1
  <2> QED BY <1>1, <2>1, WriteStep, WriteFailsStep, StreamWritableStep
<1>2. ASSUME NEW s \in Streams, NEW end \in 1..MaxOff, SendData(s, end)
      PROVE  CreditInv'
  <2>1. end \in Nat
    BY <1>2
  <2> QED BY <1>2, <2>1, ProgressStep
<1>3. ASSUME NEW s \in Streams,
             ShutdownWrite(s) \/ StopSendingReceived(s) \/ Close(s) \/ Destroy(s)
      PROVE  CreditInv'
  <2>1. 0 \in Nat
    OBVIOUS
  <2> QED BY <1>3, <2>1, ShutdownStep, StopStep, ProgressStep
<1>4. ASSUME NEW s \in Streams, NEW lim \in 0..MaxOff, MaxStreamDataReceived(s, lim)
      PROVE  CreditInv'
  <2>1. lim \in Nat
    BY <1>4
  <2> QED BY <1>4, <2>1, MaxStreamDataStep
<1>5. ASSUME NEW lim \in 0..MaxConn, MaxDataReceived(lim)
      PROVE  CreditInv'
  <2>1. lim \in Nat
    BY <1>5
  <2> QED BY <1>5, <2>1, ConnectionStep
<1>6. CASE SendDataBlocked \/ DataBlockedLost
  <2>1. 0 \in Nat
    OBVIOUS
  <2> QED BY <1>6, <2>1, ConnectionStep
<1>7. CASE UNCHANGED vars
  <2>1. UNCHANGED <<tx_max, tx_data, capacity, blocked_at, announced, stream, writable, told>>
    BY <1>7 DEF vars, creditVars
  <2>2. /\ stream' \in [Streams -> StreamType]
        /\ OffsetsOrdered' /\ WriterIsListed' /\ StopIsReported'
    BY <2>1, ListsKeepStreams DEF CreditInv, TypeOK, WriterIsListed, StopIsReported
  <2> QED BY <2>1, <2>2 DEF CreditInv, TypeOK, CapacityExact, BlockedAtLimit
<1> QED
  <2>1. CASE Next
    BY <1>1, <1>2, <1>3, <1>4, <1>5, <1>6, <2>1, TRUE \in BOOLEAN, ZenonT(30) DEF Next
  <2> QED BY <1>7, <2>1

\* The strengthened invariant holds in every state.
THEOREM CreditInvariant == Spec => []CreditInv
<1>1. Init => CreditInv
  BY CreditInit
<1>2. CreditInv /\ [Next]_vars => CreditInv'
  BY CreditStep
<1> QED BY <1>1, <1>2, PTL DEF Spec

\* Whatever the streams, the limits and the order of writes, resets and credit, a
\* stream that can be written to is on StreamMap::writable, where the endpoint
\* looks for the streams to report to the application.
THEOREM WriterIsAlwaysListed == Spec => []WriterIsListed
<1>1. CreditInv => WriterIsListed
  BY DEF CreditInv
<1> QED BY <1>1, CreditInvariant, PTL

\* A stream that STOP_SENDING has reset stays on StreamMap::writable until a write
\* has returned the error to the application.
THEOREM StopIsAlwaysReported == Spec => []StopIsReported
<1>1. CreditInv => StopIsReported
  BY DEF CreditInv
<1> QED BY <1>1, CreditInvariant, PTL

\* The credit never underflows: update_capacity()'s unsigned subtraction
\* max_data - tx_data and the subtraction in stream_write stay in Nat, and every
\* variable keeps its type.
THEOREM CreditTypeCorrect == Spec => [](TypeOK /\ capacity = tx_max - tx_data)
<1>1. CreditInv => TypeOK /\ capacity = tx_max - tx_data
  BY DEF CreditInv, CapacityExact
<1> QED BY <1>1, CreditInvariant, PTL

\* DATA_BLOCKED is only due for the limit that blocks now.
THEOREM BlockedAlwaysAtLimit == Spec => []BlockedAtLimit
<1>1. CreditInv => BlockedAtLimit
  BY DEF CreditInv
<1> QED BY <1>1, CreditInvariant, PTL

-----------------------------------------------------------------------------
(* Stream IDs.                                                             *)

\* The available IDs are those within the limit that were never used.
AvailExact ==
  \A id \in Ids : SeqOf(id) \in avail[TypeOf(id)]
                    <=> phase[id] = "idle" /\ SeqOf(id) + 1 <= limit[TypeOf(id)]

\* Every stream there was is within the limit.
UsedWithinLimit ==
  \A id \in Ids : phase[id] # "idle" => SeqOf(id) + 1 <= limit[TypeOf(id)]

\* The next ID has its direction and is above every stream of that direction.
NextAbove ==
  /\ \A bidi \in BOOLEAN : IsBidi(TypeOf(next_id[bidi])) = bidi
  /\ \A id \in Ids : phase[id] # "idle" => id < next_id[IsBidi(TypeOf(id))]

\* The limit to be sent next is no smaller than the one in force.
LimitBelowNext == \A t \in PeerTypes : limit[t] <= limit_next[t]

IdsInv ==
  /\ IdsTypeOK
  /\ AvailExact
  /\ UsedWithinLimit
  /\ NextAbove
  /\ LimitBelowNext
  /\ StreamsBlockedAtLimit

-----------------------------------------------------------------------------
\* An ID has a type in use and a sequence number, and is determined by them.
LEMMA IdHalves ==
  ASSUME NEW id \in Ids
  PROVE  /\ id \in Nat /\ TypeOf(id) \in Types /\ SeqOf(id) \in Nat
         /\ id = 4 * SeqOf(id) + TypeOf(id) /\ TypeOf(id) \in 0..3
BY StreamIdsConstants DEF Ids, TypeOf, SeqOf

\* No two IDs have both halves in common.
LEMMA IdUnique ==
  ASSUME NEW a \in Ids, NEW b \in Ids, TypeOf(a) = TypeOf(b), SeqOf(a) = SeqOf(b)
  PROVE  a = b
BY IdHalves

\* A local ID has a local type.
LEMMA LocalIdType ==
  ASSUME NEW id \in Ids
  PROVE  IsLocal(id) <=> TypeOf(id) \in LocalTypes
<1>1. id \in Nat /\ TypeOf(id) \in Types
  BY IdHalves
<1>2. (id % 4) % 2 = id % 2
  BY <1>1
<1> QED BY <1>1, <1>2 DEF IsLocal, LocalTypes, TypeOf

\* Moving an ID up by 4 keeps its direction.
LEMMA NextKeepsDirection ==
  ASSUME NEW id \in Nat
  PROVE  TypeOf(id + 4) = TypeOf(id)
BY DEF TypeOf

-----------------------------------------------------------------------------
\* Creating a stream within the limit keeps the invariant.
LEMMA CreatedStep ==
  ASSUME IdsInv, NEW id \in Ids, Missing(id), Count(id) <= limit[TypeOf(id)], Created(id)
  PROVE  IdsInv'
<1> DEFINE t == TypeOf(id)
<1>1. /\ id \in Nat /\ t \in Types /\ SeqOf(id) \in Nat
  BY IdHalves
<1>2. /\ opened' = [opened EXCEPT ![t] = Count(id)]
      /\ avail' = [avail EXCEPT ![t] = avail[t] \ {SeqOf(id)}]
      /\ next_id' = [next_id EXCEPT ![IsBidi(t)] = IdLarger(next_id[IsBidi(t)], id) + 4]
      /\ phase' = [phase EXCEPT ![id] = "open"]
      /\ UNCHANGED <<limit, limit_next, streams_blocked_at, blocked_sent>>
  BY DEF Created, blockedVars
<1>3. /\ limit \in [Types -> Nat] /\ opened \in [Types -> Nat]
      /\ avail \in [Types -> SUBSET Nat] /\ next_id \in [BOOLEAN -> Nat]
      /\ phase \in [Ids -> {"idle", "open", "closed", "gone"}]
  BY DEF IdsInv, IdsTypeOK
<1>4. IsBidi(t) \in BOOLEAN /\ Count(id) \in Nat /\ Count(id) >= SeqOf(id) + 1
  BY <1>1, <1>3 DEF IsBidi, Count, IdLarger
<1>5. IdsTypeOK'
  <2>1. IdLarger(next_id[IsBidi(t)], id) + 4 \in Nat
    BY <1>1, <1>3, <1>4 DEF IdLarger
  <2> QED BY <1>1, <1>2, <1>3, <1>4, <2>1 DEF IdsInv, IdsTypeOK
<1>6. /\ phase'[id] = "open" /\ \A u \in Ids \ {id} : phase'[u] = phase[u]
      /\ avail'[t] = avail[t] \ {SeqOf(id)}
      /\ \A v \in Types \ {t} : avail'[v] = avail[v]
  BY <1>1, <1>2, <1>3
<1>7. AvailExact'
  <2>1. SUFFICES ASSUME NEW u \in Ids
                 PROVE  SeqOf(u) \in avail'[TypeOf(u)]
                          <=> phase'[u] = "idle" /\ SeqOf(u) + 1 <= limit[TypeOf(u)]
    BY <1>2 DEF AvailExact
  <2>2. CASE u = id
    BY <1>6, <2>2
  <2>3. CASE u # id
    <3>1. SeqOf(u) \in avail'[TypeOf(u)] <=> SeqOf(u) \in avail[TypeOf(u)]
      <4>1. CASE TypeOf(u) = t
        BY <1>6, <2>3, <4>1, IdUnique
      <4>2. CASE TypeOf(u) # t
        BY <1>6, <4>2, IdHalves
      <4> QED BY <4>1, <4>2
    <3> QED BY <1>6, <2>3, <3>1 DEF IdsInv, AvailExact
  <2> QED BY <2>2, <2>3
<1>8. UsedWithinLimit'
  <2>1. SeqOf(id) + 1 <= limit[t]
    BY <1>1, <1>3, <1>4
  <2> QED BY <1>2, <1>6, <2>1 DEF IdsInv, UsedWithinLimit
<1>9. NextAbove'
  <2> DEFINE d == IsBidi(t)
             m == IdLarger(next_id[d], id)
  <2>1. /\ m \in Nat /\ m >= next_id[d] /\ m >= id /\ IsBidi(TypeOf(m)) = d
    BY <1>1, <1>3, <1>4 DEF IdLarger, IdsInv, NextAbove
  <2>2. next_id'[d] = m + 4 /\ \A b \in BOOLEAN \ {d} : next_id'[b] = next_id[b]
    BY <1>2, <1>3, <1>4
  <2> HIDE DEF m
  <2>3. \A b \in BOOLEAN : IsBidi(TypeOf(next_id'[b])) = b
    <3>1. IsBidi(TypeOf(next_id'[d])) = d
      BY <2>1, <2>2, NextKeepsDirection
    <3> QED BY <2>2, <3>1 DEF IdsInv, NextAbove
  <2>n. \A u \in Ids : phase[u] # "idle" => u < next_id[IsBidi(TypeOf(u))]
    BY ZenonT(30) DEF IdsInv, NextAbove
  <2>p. \A u \in Ids \ {id} : phase'[u] = phase[u]
    BY <1>6, ZenonT(30)
  <2>4. ASSUME NEW u \in Ids, phase'[u] # "idle"
        PROVE  u < next_id'[IsBidi(TypeOf(u))]
    <3>0. u \in Nat /\ IsBidi(TypeOf(u)) \in BOOLEAN
      BY IdHalves DEF IsBidi
    <3>1. CASE u = id
      BY <1>1, <2>1, <2>2, <3>1
    <3>2. CASE u # id /\ IsBidi(TypeOf(u)) = d
      <4>1. u < next_id[d]
        BY <2>n, <2>p, <2>4, <3>2, ZenonT(30)
      <4>2. next_id[d] \in Nat
        BY <1>3, <1>4
      <4> QED BY <2>1, <2>2, <3>0, <3>2, <4>1, <4>2
    <3>3. CASE u # id /\ IsBidi(TypeOf(u)) # d
      BY <2>n, <2>p, <2>2, <2>4, <3>0, <3>3, ZenonT(30)
    <3> QED BY <3>1, <3>2, <3>3
  <2> QED BY <2>3, <2>4 DEF NextAbove
<1>10. LimitBelowNext' /\ StreamsBlockedAtLimit'
  BY <1>2 DEF IdsInv, LimitBelowNext, StreamsBlockedAtLimit
<1> QED BY <1>5, <1>7, <1>8, <1>9, <1>10 DEF IdsInv

\* A step that raises limits, and makes the IDs in between available, keeps what
\* the invariant says of the IDs.
LEMMA RaiseStep ==
  ASSUME IdsInv, NEW t \in Types, NEW new \in Nat, limit[t] <= new,
         limit' = [limit EXCEPT ![t] = new],
         avail' = [avail EXCEPT ![t] = avail[t] \cup limit[t]..(new - 1)],
         UNCHANGED <<next_id, phase>>
  PROVE  /\ limit' \in [Types -> Nat] /\ avail' \in [Types -> SUBSET Nat]
         /\ AvailExact' /\ UsedWithinLimit' /\ NextAbove'
<1>1. /\ limit \in [Types -> Nat] /\ avail \in [Types -> SUBSET Nat]
  BY DEF IdsInv, IdsTypeOK
<1>2. /\ limit' \in [Types -> Nat] /\ avail' \in [Types -> SUBSET Nat]
      /\ limit'[t] = new /\ avail'[t] = avail[t] \cup limit[t]..(new - 1)
      /\ \A v \in Types \ {t} : limit'[v] = limit[v] /\ avail'[v] = avail[v]
  <2>1. limit[t] \in Nat /\ limit[t]..(new - 1) \subseteq Nat
    BY <1>1
  <2> QED BY <1>1, <2>1
<1>3. ASSUME NEW id \in Ids
      PROVE  /\ SeqOf(id) \in avail'[TypeOf(id)]
                  <=> phase[id] = "idle" /\ SeqOf(id) + 1 <= limit'[TypeOf(id)]
             /\ phase[id] # "idle" => SeqOf(id) + 1 <= limit'[TypeOf(id)]
  <2>1. TypeOf(id) \in Types /\ SeqOf(id) \in Nat
    BY IdHalves
  <2>2. /\ SeqOf(id) \in avail[TypeOf(id)]
             <=> phase[id] = "idle" /\ SeqOf(id) + 1 <= limit[TypeOf(id)]
        /\ phase[id] # "idle" => SeqOf(id) + 1 <= limit[TypeOf(id)]
    BY DEF IdsInv, AvailExact, UsedWithinLimit
  <2>3. CASE TypeOf(id) # t
    BY <1>2, <2>1, <2>2, <2>3
  <2>4. CASE TypeOf(id) = t
    <3> DEFINE q == SeqOf(id)
    <3>1. limit[t] \in Nat /\ q \in Nat
      BY <1>1, <2>1
    <3>2. q \in avail'[t] <=> q \in avail[t] \/ (limit[t] <= q /\ q <= new - 1)
      BY <1>2, <3>1
    <3> HIDE DEF q
    <3>3. /\ q \in avail[t] <=> phase[id] = "idle" /\ q + 1 <= limit[t]
          /\ phase[id] # "idle" => q + 1 <= limit[t]
      BY <2>2, <2>4 DEF q
    <3>4. /\ q \in avail'[t] <=> phase[id] = "idle" /\ q + 1 <= new
          /\ phase[id] # "idle" => q + 1 <= new
      BY <3>1, <3>2, <3>3
    <3> QED BY <1>2, <2>4, <3>4 DEF q
  <2> QED BY <2>3, <2>4
<1>4. AvailExact' /\ UsedWithinLimit'
  BY <1>3 DEF AvailExact, UsedWithinLimit
<1>5. NextAbove'
  BY DEF IdsInv, NextAbove
<1> QED BY <1>2, <1>4, <1>5

\* MAX_STREAMS sent keeps the invariant.
LEMMA SendMaxStreamsStep ==
  ASSUME IdsInv, NEW t \in PeerTypes, SendMaxStreams(t)
  PROVE  IdsInv'
<1>1. /\ t \in Types /\ limit[t] \in Nat /\ limit_next[t] \in Nat /\ limit[t] <= limit_next[t]
  BY DEF IdsInv, IdsTypeOK, LimitBelowNext, PeerTypes
<1>2. /\ limit' = [limit EXCEPT ![t] = limit_next[t]]
      /\ avail' = [avail EXCEPT ![t] = avail[t] \cup limit[t]..(limit_next[t] - 1)]
      /\ UNCHANGED <<limit_next, opened, streams_blocked_at, blocked_sent, next_id, phase>>
  BY DEF SendMaxStreams, blockedVars
<1>3. /\ limit' \in [Types -> Nat] /\ avail' \in [Types -> SUBSET Nat]
      /\ AvailExact' /\ UsedWithinLimit' /\ NextAbove'
  BY <1>1, <1>2, RaiseStep, ZenonT(30)
<1>4. IdsTypeOK'
  BY <1>2, <1>3 DEF IdsInv, IdsTypeOK
<1>5. \A v \in Types \ {t} : limit'[v] = limit[v]
  BY <1>2 DEF IdsInv, IdsTypeOK
<1>6. limit'[t] = limit_next[t]
  BY <1>1, <1>2 DEF IdsInv, IdsTypeOK
<1>7. LimitBelowNext'
  BY <1>1, <1>2, <1>5, <1>6 DEF IdsInv, LimitBelowNext, PeerTypes
<1>8. StreamsBlockedAtLimit'
  BY <1>2, <1>5 DEF IdsInv, StreamsBlockedAtLimit, LocalTypes, PeerTypes
<1> QED BY <1>3, <1>4, <1>7, <1>8 DEF IdsInv

\* MAX_STREAMS received keeps the invariant.
LEMMA MaxStreamsReceivedStep ==
  ASSUME IdsInv, NEW t \in LocalTypes, NEW max \in Nat, MaxStreamsReceived(t, max)
  PROVE  IdsInv'
<1> DEFINE new == IdLarger(limit[t], max)
<1>1. t \in Types /\ limit[t] \in Nat
  BY DEF IdsInv, IdsTypeOK, LocalTypes
<1>2. new \in Nat /\ limit[t] <= new
  BY <1>1 DEF IdLarger
<1>3. limit[t]..(max - 1) = limit[t]..(new - 1)
  BY <1>1 DEF IdLarger
<1>4. /\ limit' = [limit EXCEPT ![t] = new]
      /\ avail' = [avail EXCEPT ![t] = avail[t] \cup limit[t]..(max - 1)]
      /\ streams_blocked_at' = [streams_blocked_at EXCEPT ![t] =
            IF streams_blocked_at[t] # NoId /\ streams_blocked_at[t] >= limit'[t] THEN streams_blocked_at[t] ELSE NoId]
      /\ UNCHANGED <<limit_next, opened, blocked_sent, next_id, phase>>
  BY DEF MaxStreamsReceived
<1>5. avail' = [avail EXCEPT ![t] = avail[t] \cup limit[t]..(new - 1)]
  BY <1>3, <1>4, ZenonT(30)
<1> HIDE DEF new
<1>6. /\ limit' \in [Types -> Nat] /\ avail' \in [Types -> SUBSET Nat]
      /\ AvailExact' /\ UsedWithinLimit' /\ NextAbove'
  BY <1>1, <1>2, <1>4, <1>5, RaiseStep, ZenonT(30)
<1>7. IdsTypeOK'
  BY <1>4, <1>6 DEF IdsInv, IdsTypeOK
<1>8. limit'[t] = new /\ \A v \in Types \ {t} : limit'[v] = limit[v]
  BY <1>1, <1>4 DEF IdsInv, IdsTypeOK
<1>9. LimitBelowNext'
  BY <1>4, <1>8 DEF IdsInv, LimitBelowNext, PeerTypes
<1>10. StreamsBlockedAtLimit'
  <2>1. SUFFICES ASSUME NEW v \in LocalTypes, streams_blocked_at'[v] # NoId
                 PROVE  streams_blocked_at'[v] = limit'[v]
    BY DEF StreamsBlockedAtLimit
  <2>2. streams_blocked_at \in [LocalTypes -> Nat \cup {NoId}] /\ v \in Types
    BY DEF IdsInv, IdsTypeOK, LocalTypes
  <2>3. CASE v # t
    BY <1>4, <1>8, <2>1, <2>2, <2>3 DEF IdsInv, StreamsBlockedAtLimit
  <2>4. CASE v = t
    <3>1. streams_blocked_at[t] # NoId /\ streams_blocked_at[t] >= limit'[t] /\ streams_blocked_at'[t] = streams_blocked_at[t]
      BY <1>4, <2>1, <2>2, <2>4
    <3>2. streams_blocked_at[t] = limit[t]
      BY <3>1 DEF IdsInv, StreamsBlockedAtLimit
    <3> QED BY <1>1, <1>2, <1>8, <2>4, <3>1, <3>2
  <2> QED BY <2>3, <2>4
<1> QED BY <1>6, <1>7, <1>9, <1>10 DEF IdsInv

\* Closing and destroying a stream keep the invariant.
LEMMA CloseStep ==
  ASSUME IdsInv, NEW id \in Ids, MarkClosed(id) \/ StreamDestroy(id)
  PROVE  IdsInv'
<1>1. UNCHANGED <<limit, opened, avail, streams_blocked_at, blocked_sent, next_id>>
  BY DEF MarkClosed, StreamDestroy, blockedVars, limitVars
<1>2. phase \in [Ids -> {"idle", "open", "closed", "gone"}]
  BY DEF IdsInv, IdsTypeOK
<1>3. PICK p \in {"closed", "gone"} : phase' = [phase EXCEPT ![id] = p]
  BY DEF MarkClosed, StreamDestroy
<1>4. phase[id] # "idle"
  BY DEF MarkClosed, StreamDestroy, IdInMap
<1>5. /\ phase' \in [Ids -> {"idle", "open", "closed", "gone"}]
      /\ \A u \in Ids : phase'[u] = "idle" <=> phase[u] = "idle"
  BY <1>2, <1>3, <1>4
<1>6. AvailExact' /\ UsedWithinLimit' /\ NextAbove' /\ StreamsBlockedAtLimit'
  BY <1>1, <1>5 DEF IdsInv, AvailExact, UsedWithinLimit, NextAbove, StreamsBlockedAtLimit
<1>7. limit_next' \in [PeerTypes -> Nat] /\ LimitBelowNext'
  <2>1. limit_next \in [PeerTypes -> Nat] /\ limit \in [Types -> Nat]
    BY DEF IdsInv, IdsTypeOK
  <2>2. CASE UNCHANGED limit_next
    BY <1>1, <2>1, <2>2 DEF IdsInv, LimitBelowNext
  <2>3. CASE limit_next' = [limit_next EXCEPT ![TypeOf(id)] = limit_next[TypeOf(id)] + 1]
                /\ ~IsLocal(id)
    <3>1. TypeOf(id) \in PeerTypes
      BY <2>3, LocalIdType, IdHalves DEF PeerTypes
    <3>2. limit_next' \in [PeerTypes -> Nat]
      BY <2>1, <2>3, <3>1
    <3>3. \A t \in PeerTypes : limit_next'[t] >= limit_next[t]
      BY <2>1, <2>3, <3>1
    <3>4. \A t \in PeerTypes : limit[t] \in Nat /\ limit_next'[t] \in Nat /\ limit_next[t] \in Nat
      BY <2>1, <3>2 DEF PeerTypes
    <3> QED BY <1>1, <3>2, <3>3, <3>4 DEF IdsInv, LimitBelowNext
  <2> QED BY <2>2, <2>3 DEF MarkClosed, StreamDestroy, limitVars
<1>8. IdsTypeOK'
  BY <1>1, <1>5, <1>7 DEF IdsInv, IdsTypeOK
<1> QED BY <1>6, <1>7, <1>8 DEF IdsInv

\* STREAMS_BLOCKED becoming due, sent and lost keeps the invariant.
LEMMA BlockedStep ==
  ASSUME IdsInv, NEW t \in LocalTypes,
         UNCHANGED <<limit, limit_next, opened, avail, next_id, phase>>,
         blocked_sent' \in [LocalTypes -> Nat \cup {NoId}],
         NEW b \in {NoId, limit[t], streams_blocked_at[t]},
         streams_blocked_at' = [streams_blocked_at EXCEPT ![t] = b]
  PROVE  IdsInv'
<1>1. streams_blocked_at \in [LocalTypes -> Nat \cup {NoId}] /\ limit[t] \in Nat
  BY DEF IdsInv, IdsTypeOK, LocalTypes
<1>2. streams_blocked_at' \in [LocalTypes -> Nat \cup {NoId}]
  BY <1>1
<1>3. StreamsBlockedAtLimit'
  BY <1>1 DEF IdsInv, StreamsBlockedAtLimit
<1>4. IdsTypeOK'
  BY <1>2 DEF IdsInv, IdsTypeOK
<1>5. AvailExact' /\ UsedWithinLimit' /\ NextAbove' /\ LimitBelowNext'
  BY DEF IdsInv, AvailExact, UsedWithinLimit, NextAbove, LimitBelowNext
<1> QED BY <1>3, <1>4, <1>5 DEF IdsInv

\* The initial state.
LEMMA IdsStart == IdsInit => IdsInv
<1> SUFFICES ASSUME IdsInit PROVE IdsInv
  OBVIOUS
<1> USE StreamIdsConstants
<1>1. /\ limit \in [Types -> Nat] /\ avail \in [Types -> SUBSET Nat]
      /\ \A t \in Types, q \in Nat : q \in avail[t] <=> q + 1 <= limit[t]
  <2>1. ASSUME NEW t \in Types
        PROVE  /\ limit[t] \in Nat /\ avail[t] \in SUBSET Nat
               /\ \A q \in Nat : q \in avail[t] <=> q + 1 <= limit[t]
    <3>1. CASE t \in PeerTypes
      <4>1. limit[t] = InitLimit[t] /\ avail[t] = 0..(InitLimit[t] - 1) /\ InitLimit[t] \in Nat
        BY <3>1 DEF IdsInit
      <4> QED BY <4>1
    <3>2. CASE t \notin PeerTypes
      <4>1. limit[t] = 0 /\ avail[t] = {}
        BY <3>2 DEF IdsInit
      <4> QED BY <4>1
    <3> QED BY <3>1, <3>2
  <2>2. limit = [t \in Types |-> limit[t]] /\ avail = [t \in Types |-> avail[t]]
    BY DEF IdsInit
  <2> QED BY <2>1, <2>2
<1>2. phase = [id \in Ids |-> "idle"]
  BY DEF IdsInit
<1>3. AvailExact /\ UsedWithinLimit
  BY <1>1, <1>2, IdHalves DEF AvailExact, UsedWithinLimit
<1>4. next_id \in [BOOLEAN -> Nat] /\ next_id[TRUE] = Role /\ next_id[FALSE] = 2 + Role
  BY DEF IdsInit
<1>5. NextAbove
  <2>1. TypeOf(Role) = Role /\ TypeOf(2 + Role) = 2 + Role
    BY DEF TypeOf
  <2>2. IsBidi(TypeOf(next_id[TRUE])) = TRUE /\ IsBidi(TypeOf(next_id[FALSE])) = FALSE
    BY <1>4, <2>1 DEF IsBidi
  <2> QED BY <1>2, <2>2, ZenonT(30) DEF NextAbove
<1>6. IdsTypeOK
  BY <1>1, <1>2, <1>4 DEF IdsInit, IdsTypeOK
<1>7. LimitBelowNext
  BY DEF IdsInit, LimitBelowNext, PeerTypes
<1>8. StreamsBlockedAtLimit
  BY DEF IdsInit, StreamsBlockedAtLimit
<1> QED BY <1>3, <1>5, <1>6, <1>7, <1>8 DEF IdsInv

\* Every handler keeps the invariant.
LEMMA IdsStep == IdsInv /\ [IdsNext]_idsVars => IdsInv'
<1> SUFFICES ASSUME IdsInv, [IdsNext]_idsVars PROVE IdsInv'
  OBVIOUS
<1>1. ASSUME NEW id \in Ids, LocalOpen(id) \/ PeerOpen(id)
      PROVE  IdsInv'
  BY <1>1, CreatedStep DEF LocalOpen, PeerOpen
<1>2. ASSUME NEW id \in Ids, LocalLimited(id)
      PROVE  IdsInv'
  <2>1. TypeOf(id) \in LocalTypes
    BY <1>2, LocalIdType DEF LocalLimited
  <2>2. /\ UNCHANGED <<limit, limit_next, opened, avail, blocked_sent, next_id, phase>>
        /\ streams_blocked_at' = [streams_blocked_at EXCEPT ![TypeOf(id)] = limit[TypeOf(id)]]
    BY <1>2 DEF LocalLimited, limitVars
  <2>3. blocked_sent' \in [LocalTypes -> Nat \cup {NoId}]
    BY <2>2 DEF IdsInv, IdsTypeOK
  <2> QED BY <2>1, <2>2, <2>3, BlockedStep, ZenonT(30)
<1>3. ASSUME NEW id \in Ids, MarkClosed(id) \/ StreamDestroy(id)
      PROVE  IdsInv'
  BY <1>3, CloseStep
<1>4. ASSUME NEW bidi \in BOOLEAN, StreamNew(bidi)
      PROVE  IdsInv'
  BY <1>1, <1>2, <1>4 DEF StreamNew
<1>5. ASSUME NEW t \in PeerTypes, SendMaxStreams(t)
      PROVE  IdsInv'
  BY <1>5, SendMaxStreamsStep
<1>6. ASSUME NEW t \in LocalTypes, NEW max \in 0..(MaxSeq + 1), MaxStreamsReceived(t, max)
      PROVE  IdsInv'
  <2>1. max \in Nat
    BY <1>6
  <2> QED BY <1>6, <2>1, MaxStreamsReceivedStep
<1>7. ASSUME NEW t \in LocalTypes, SendStreamsBlocked(t) \/ StreamsBlockedLost(t)
      PROVE  IdsInv'
  <2>1. UNCHANGED <<limit, limit_next, opened, avail, next_id, phase>>
    BY <1>7 DEF SendStreamsBlocked, StreamsBlockedLost, limitVars
  <2>2. blocked_sent' \in [LocalTypes -> Nat \cup {NoId}]
    BY <1>7 DEF SendStreamsBlocked, StreamsBlockedLost, IdsInv, IdsTypeOK
  <2>3. PICK b \in {NoId, limit[t], streams_blocked_at[t]} : streams_blocked_at' = [streams_blocked_at EXCEPT ![t] = b]
    BY <1>7 DEF SendStreamsBlocked, StreamsBlockedLost
  <2> QED BY <2>1, <2>2, <2>3, BlockedStep, ZenonT(30)
<1>8. CASE UNCHANGED idsVars
  <2>1. UNCHANGED <<limit, limit_next, opened, avail, streams_blocked_at, blocked_sent, next_id, phase>>
    BY <1>8 DEF idsVars, limitVars, blockedVars
  <2> QED BY <2>1 DEF IdsInv, IdsTypeOK, AvailExact, UsedWithinLimit, NextAbove,
                      LimitBelowNext, StreamsBlockedAtLimit
<1> QED
  <2>1. CASE IdsNext
    BY <1>1, <1>2, <1>3, <1>4, <1>5, <1>6, <1>7, <2>1 DEF IdsNext
  <2> QED BY <1>8, <2>1

\* The strengthened invariant holds in every state.
THEOREM IdsInvariant == IdsSpec => []IdsInv
<1>1. IdsInit => IdsInv
  BY IdsStart
<1>2. IdsInv /\ [IdsNext]_idsVars => IdsInv'
  BY IdsStep
<1> QED BY <1>1, <1>2, PTL DEF IdsSpec

-----------------------------------------------------------------------------
\* is_closed() is true of exactly the streams that were closed.
LEMMA ClosedFromInv == IdsInv => ClosedIsKnown
<1> SUFFICES ASSUME IdsInv, NEW id \in Ids
             PROVE  IsClosed(id) <=> phase[id] \in {"closed", "gone"}
  BY DEF ClosedIsKnown
<1>1. phase[id] \in {"idle", "open", "closed", "gone"}
  BY DEF IdsInv, IdsTypeOK
<1>2. /\ SeqOf(id) \in avail[TypeOf(id)]
           <=> phase[id] = "idle" /\ SeqOf(id) + 1 <= limit[TypeOf(id)]
      /\ phase[id] # "idle" => SeqOf(id) + 1 <= limit[TypeOf(id)]
  BY DEF IdsInv, AvailExact, UsedWithinLimit
<1>3. limit[TypeOf(id)] \in Nat /\ SeqOf(id) \in Nat
  BY IdHalves DEF IdsInv, IdsTypeOK
<1>4. IsLimited(id) <=> ~(SeqOf(id) + 1 <= limit[TypeOf(id)])
  BY <1>3 DEF IsLimited
<1> QED BY <1>1, <1>2, <1>4, ZenonT(30) DEF IsClosed, IdInMap, IsAvailable

\* StreamMap::is_closed() never takes a stream that is still to come for a closed
\* one, nor a destroyed one for one to come, for any limits and any number of
\* streams.
THEOREM ClosedIsAlwaysKnown == IdsSpec => []ClosedIsKnown
BY IdsInvariant, ClosedFromInv, PTL

\* get_or_create() never makes a destroyed stream anew.
THEOREM DestroyedStaysGone == IdsSpec => NeverReopened
<1>1. ASSUME IdsInv, [IdsNext]_idsVars
      PROVE  [\A id \in Ids : phase[id] = "gone" => phase'[id] = "gone"]_idsVars
  <2>1. SUFFICES ASSUME NEW id \in Ids, phase[id] = "gone", IdsNext
                 PROVE  phase'[id] = "gone"
    BY <1>1
  <2>2. phase \in [Ids -> {"idle", "open", "closed", "gone"}]
    BY <1>1 DEF IdsInv, IdsTypeOK
  <2>3. ~Missing(id)
    BY <1>1, <2>1, ClosedFromInv DEF Missing, ClosedIsKnown
  <2>4. ASSUME NEW u \in Ids, LocalOpen(u) \/ PeerOpen(u)
        PROVE  phase'[id] = "gone"
    BY <2>1, <2>2, <2>3, <2>4 DEF LocalOpen, PeerOpen, Created
  <2>5. ASSUME NEW u \in Ids, LocalLimited(u)
        PROVE  phase'[id] = "gone"
    BY <2>1, <2>5 DEF LocalLimited
  <2>6. ASSUME NEW u \in Ids, MarkClosed(u) \/ StreamDestroy(u)
        PROVE  phase'[id] = "gone"
    BY <2>1, <2>2, <2>6 DEF MarkClosed, StreamDestroy, IdInMap
  <2>7. ASSUME NEW bidi \in BOOLEAN, StreamNew(bidi)
        PROVE  phase'[id] = "gone"
    BY <2>4, <2>5, <2>7 DEF StreamNew
  <2>8. ASSUME UNCHANGED phase
        PROVE  phase'[id] = "gone"
    BY <2>1, <2>8
  <2> QED BY <2>1, <2>4, <2>5, <2>6, <2>7, <2>8
          DEF IdsNext, SendMaxStreams, MaxStreamsReceived, SendStreamsBlocked, StreamsBlockedLost
<1> QED BY <1>1, IdsInvariant, PTL DEF IdsSpec, NeverReopened

\* stream_bidi_new and stream_uni_new never return a stream that exists or existed.
THEOREM NewStreamIsAlwaysFresh == IdsSpec => []NewStreamIsFresh
<1>1. IdsInv => NewStreamIsFresh
  <2>1. SUFFICES ASSUME IdsInv, NEW bidi \in BOOLEAN, next_id[bidi] \in Ids,
                        phase[next_id[bidi]] # "idle"
                 PROVE  FALSE
    BY DEF NewStreamIsFresh
  <2>2. next_id[bidi] < next_id[bidi]
    BY <2>1 DEF IdsInv, NextAbove
  <2>3. next_id[bidi] \in Nat
    BY <2>1 DEF IdsInv, IdsTypeOK
  <2> QED BY <2>2, <2>3
<1> QED BY <1>1, IdsInvariant, PTL

\* STREAMS_BLOCKED is only due for the limit that blocks now.
THEOREM StreamsBlockedAlwaysAtLimit == IdsSpec => []StreamsBlockedAtLimit
<1>1. IdsInv => StreamsBlockedAtLimit
  BY DEF IdsInv
<1> QED BY <1>1, IdsInvariant, PTL

-----------------------------------------------------------------------------
(* Counting the streams of the peer.                                       *)

\* The streams of a type that were closed, destroyed or not.
ClosedOf(t) == StreamsOf(t, {"closed", "gone"})

\* There are finitely many IDs, so the streams of a type can be counted.
LEMMA StreamsFinite ==
  ASSUME NEW S \in SUBSET Ids
  PROVE  IsFiniteSet(S) /\ Cardinality(S) \in Nat
<1>1. 0 \in Int /\ 4 * MaxSeq + 3 \in Int
  BY StreamIdsConstants
<1>2. IsFiniteSet(0..(4 * MaxSeq + 3))
  BY <1>1, FS_Interval
<1>3. S \in SUBSET (0..(4 * MaxSeq + 3))
  BY DEF Ids
<1>4. IsFiniteSet(S)
  BY <1>2, <1>3, FS_Subset, ZenonT(30)
<1> QED BY <1>4, FS_CardinalityType

\* Counting an interval, and the union of two sets that share nothing.
LEMMA CountBelow ==
  ASSUME NEW n \in Nat
  PROVE  IsFiniteSet(0..(n - 1)) /\ Cardinality(0..(n - 1)) = n
<1> DEFINE b == n - 1
<1>1. b \in Int /\ 0 \in Int
  OBVIOUS
<1>2. IsFiniteSet(0..b) /\ Cardinality(0..b) = IF 0 > b THEN 0 ELSE b - 0 + 1
  BY ONLY <1>1, FS_Interval, Zenon
<1>3. (IF 0 > b THEN 0 ELSE b - 0 + 1) = n
  OBVIOUS
<1> QED BY <1>2, <1>3

\* Two sets with nothing in common are counted one after the other.
LEMMA CountUnion ==
  ASSUME NEW S, NEW T, IsFiniteSet(S), IsFiniteSet(T), S \cap T = {},
         Cardinality(S) \in Nat, Cardinality(T) \in Nat
  PROVE  Cardinality(S \cup T) = Cardinality(S) + Cardinality(T)
<1>1. Cardinality(S \cup T) = Cardinality(S) + Cardinality(T) - Cardinality(S \cap T)
  BY FS_Union, Zenon
<1>2. Cardinality(S \cap T) = 0
  BY FS_EmptySet, Zenon
<1> QED BY <1>1, <1>2

\* A stream that was neither closed before nor after changes no count, and
\* neither does one that was closed both times.
LEMMA SameClosed ==
  ASSUME IdsInv, NEW id \in Ids, NEW p \in {"idle", "open", "closed", "gone"},
         phase' = [phase EXCEPT ![id] = p],
         phase[id] \in {"closed", "gone"} <=> p \in {"closed", "gone"},
         UNCHANGED limit_next, CreditOnce
  PROVE  CreditOnce'
<1>1. phase \in [Ids -> {"idle", "open", "closed", "gone"}]
  BY DEF IdsInv, IdsTypeOK
<1>2. \A u \in Ids : phase'[u] \in {"closed", "gone"} <=> phase[u] \in {"closed", "gone"}
  BY <1>1
<1>3. \A t : StreamsOf(t, {"closed", "gone"})' = StreamsOf(t, {"closed", "gone"})
  BY <1>2 DEF StreamsOf
<1> QED BY <1>3 DEF CreditOnce

\* mark_closed() gives one credit back for a stream of the peer's and none for
\* one of its own.
LEMMA MarkClosedCredit ==
  ASSUME IdsInv, CreditOnce, NEW id \in Ids, MarkClosed(id)
  PROVE  CreditOnce'
<1>1. /\ phase \in [Ids -> {"idle", "open", "closed", "gone"}]
      /\ limit_next \in [PeerTypes -> Nat]
  BY DEF IdsInv, IdsTypeOK
<1>2. phase[id] = "open" /\ phase' = [phase EXCEPT ![id] = "closed"]
  BY <1>1 DEF MarkClosed, IsClosed, IdInMap
<1>3. SUFFICES ASSUME NEW t \in PeerTypes
               PROVE  limit_next'[t] = InitLimit[t] + Cardinality(ClosedOf(t)')
  BY DEF CreditOnce, ClosedOf
<1>4. limit_next[t] = InitLimit[t] + Cardinality(ClosedOf(t))
  BY DEF CreditOnce, ClosedOf
<1>5. CASE TypeOf(id) # t
  <2>1. ClosedOf(t)' = ClosedOf(t)
    BY <1>1, <1>2, <1>5 DEF ClosedOf, StreamsOf
  <2>2. limit_next'[t] = limit_next[t]
    BY <1>1, <1>5 DEF MarkClosed
  <2> QED BY <1>4, <2>1, <2>2
<1>6. CASE TypeOf(id) = t
  <2>1. ~IsLocal(id)
    BY <1>6, LocalIdType DEF PeerTypes
  <2>2. limit_next'[t] = limit_next[t] + 1
    BY <1>1, <1>6, <2>1 DEF MarkClosed
  <2>3. ClosedOf(t)' = ClosedOf(t) \cup {id} /\ id \notin ClosedOf(t)
    BY <1>1, <1>2, <1>6 DEF ClosedOf, StreamsOf
  <2>4. ClosedOf(t) \in SUBSET Ids
    BY DEF ClosedOf, StreamsOf
  <2>5. IsFiniteSet(ClosedOf(t)) /\ Cardinality(ClosedOf(t)) \in Nat
    BY <2>4, StreamsFinite
  <2>6. Cardinality(ClosedOf(t) \cup {id}) = Cardinality(ClosedOf(t)) + 1
    BY <2>3, <2>5, FS_AddElement, ZenonT(30)
  <2>7. InitLimit[t] \in Nat
    BY StreamIdsConstants
  <2> QED BY <1>4, <2>2, <2>3, <2>5, <2>6, <2>7
<1> QED BY <1>5, <1>6

\* Every handler gives back a credit for each stream it closes, and for no other.
LEMMA CreditOnceStep ==
  ASSUME IdsInv, CreditOnce, [IdsNext]_idsVars
  PROVE  CreditOnce'
<1>1. ASSUME UNCHANGED <<limit_next, phase>> PROVE CreditOnce'
  BY <1>1 DEF CreditOnce, StreamsOf
<1>2. ASSUME NEW id \in Ids, LocalOpen(id) \/ PeerOpen(id) PROVE CreditOnce'
  <2>1. phase' = [phase EXCEPT ![id] = "open"] /\ UNCHANGED limit_next
    BY <1>2 DEF LocalOpen, PeerOpen, Created
  <2>2. phase[id] \notin {"closed", "gone"}
    BY <1>2, ClosedFromInv DEF LocalOpen, PeerOpen, Missing, ClosedIsKnown
  <2> QED BY <2>1, <2>2, SameClosed, ZenonT(30)
<1>3. ASSUME NEW id \in Ids, LocalLimited(id) PROVE CreditOnce'
  BY <1>1, <1>3 DEF LocalLimited, limitVars
<1>4. ASSUME NEW id \in Ids, StreamDestroy(id) PROVE CreditOnce'
  BY <1>4, SameClosed, ZenonT(30) DEF StreamDestroy, limitVars
<1>5. ASSUME NEW id \in Ids, MarkClosed(id) PROVE CreditOnce'
  BY <1>5, MarkClosedCredit
<1>6. ASSUME NEW bidi \in BOOLEAN, StreamNew(bidi) PROVE CreditOnce'
  BY <1>2, <1>3, <1>6 DEF StreamNew
<1>7. ASSUME NEW t, SendMaxStreams(t) PROVE CreditOnce'
  BY <1>1, <1>7 DEF SendMaxStreams
<1>8. ASSUME NEW t, NEW max, MaxStreamsReceived(t, max) PROVE CreditOnce'
  BY <1>1, <1>8 DEF MaxStreamsReceived
<1>9. ASSUME NEW t, SendStreamsBlocked(t) \/ StreamsBlockedLost(t) PROVE CreditOnce'
  BY <1>1, <1>9 DEF SendStreamsBlocked, StreamsBlockedLost, limitVars
<1>10. CASE UNCHANGED idsVars
  BY <1>1, <1>10 DEF idsVars, limitVars
<1> QED BY <1>2, <1>3, <1>4, <1>5, <1>6, <1>7, <1>8, <1>9, <1>10 DEF IdsNext

\* No stream is closed at the start.
LEMMA CreditOnceStart == IdsInit => CreditOnce
<1> SUFFICES ASSUME IdsInit, NEW t \in PeerTypes
             PROVE  limit_next[t] = InitLimit[t] + Cardinality(ClosedOf(t))
  BY DEF CreditOnce, ClosedOf
<1>1. ClosedOf(t) = {}
  BY DEF IdsInit, ClosedOf, StreamsOf
<1>2. limit_next[t] = InitLimit[t] /\ InitLimit[t] \in Nat
  BY StreamIdsConstants DEF IdsInit
<1> QED BY <1>1, <1>2, FS_EmptySet

\* The streams of one type are told apart by their sequence numbers, so that there
\* are no more of them than the limit.
LEMMA UsedCounted ==
  ASSUME IdsInv, NEW t \in PeerTypes, NEW S \in SUBSET Ids,
         \A id \in S : TypeOf(id) = t /\ phase[id] # "idle"
  PROVE  Cardinality(S) <= limit[t]
<1> DEFINE seqs == 0..(limit[t] - 1)
           f == [id \in S |-> SeqOf(id)]
<1>1. t \in Types /\ limit[t] \in Nat
  BY DEF IdsInv, IdsTypeOK, PeerTypes
<1>3. IsFiniteSet(seqs) /\ Cardinality(seqs) = limit[t]
  BY <1>1, CountBelow
<1>4. ASSUME NEW id \in S PROVE SeqOf(id) \in seqs
  <2>1. SeqOf(id) + 1 <= limit[t] /\ SeqOf(id) \in Nat
    BY IdHalves DEF IdsInv, UsedWithinLimit
  <2> QED BY <1>1, <2>1
<1> HIDE DEF seqs
<1>5. f \in [S -> seqs]
  BY <1>4
<1>6. \A a, b \in S : f[a] = f[b] => a = b
  BY IdUnique
<1>7. f \in Injection(S, seqs)
  BY <1>5, <1>6 DEF Injection, IsInjective
<1> HIDE DEF f
<1> QED BY <1>3, <1>7, FS_Injection

\* What counts the open streams: those that were used are within the limit, and the
\* limit in force is at most the initial one plus the closed streams.
LEMMA BoundedFromInv == IdsInv /\ CreditOnce => PeerConcurrencyBounded
<1> SUFFICES ASSUME IdsInv, CreditOnce, NEW t \in PeerTypes
             PROVE  Cardinality(StreamsOf(t, {"open"})) <= InitLimit[t]
  BY DEF PeerConcurrencyBounded
<1> DEFINE open == StreamsOf(t, {"open"})
           closed == ClosedOf(t)
<1>1. open \in SUBSET Ids /\ closed \in SUBSET Ids /\ open \cap closed = {}
  BY DEF StreamsOf, ClosedOf
<1>2. \A id \in open \cup closed : TypeOf(id) = t /\ phase[id] # "idle"
  BY DEF StreamsOf, ClosedOf
<1>3. limit_next[t] = InitLimit[t] + Cardinality(closed)
  BY DEF CreditOnce, ClosedOf
<1> HIDE DEF open, closed
<1>4. Cardinality(open \cup closed) <= limit[t]
  BY <1>1, <1>2, UsedCounted
<1>5. /\ IsFiniteSet(open) /\ Cardinality(open) \in Nat
      /\ IsFiniteSet(closed) /\ Cardinality(closed) \in Nat
  BY <1>1, StreamsFinite
<1>6. Cardinality(open \cup closed) = Cardinality(open) + Cardinality(closed)
  BY <1>1, <1>5, CountUnion
<1>7. /\ limit[t] \in Nat /\ limit_next[t] \in Nat /\ InitLimit[t] \in Nat
      /\ limit[t] <= limit_next[t]
  BY StreamIdsConstants DEF IdsInv, IdsTypeOK, LimitBelowNext, PeerTypes
<1>8. Cardinality(open) <= InitLimit[t]
  BY <1>3, <1>4, <1>5, <1>6, <1>7
<1> QED BY <1>8 DEF open

\* Every stream of the peer's that was closed gave back one credit, whichever
\* handler closed it and however often mark_closed() was called, and nothing else
\* did.
THEOREM CreditAlwaysOnce == IdsSpec => []CreditOnce
<1>1. IdsInit => CreditOnce
  BY CreditOnceStart
<1>2. IdsInv /\ CreditOnce /\ [IdsNext]_idsVars => CreditOnce'
  BY CreditOnceStep
<1> QED BY <1>1, <1>2, IdsInvariant, PTL DEF IdsSpec

\* The peer never has more streams of a type open than the configured number, for
\* any limit and any number of streams that come and go.
THEOREM PeerConcurrencyAlwaysBounded == IdsSpec => []PeerConcurrencyBounded
BY IdsInvariant, CreditAlwaysOnce, BoundedFromInv, PTL
=============================================================================
