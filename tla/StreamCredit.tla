----------------------------- MODULE StreamCredit -----------------------------
(***************************************************************************)
(* The send credit of a connection, shared by its streams: SendCapacity    *)
(* (connection/stream/concurrency.rs) and the StreamMap handlers that take *)
(* credit, give it back and list the streams the application can write to  *)
(* (connection/stream/mod.rs). A stream's send buffer is reduced to its    *)
(* offsets; StreamSend has the rest of it. Two outputs that no handler of  *)
(* the credit reads are left out: the STREAM_DATA_BLOCKED announcements,   *)
(* which the peer ignores, and the WantWrite flag, by which the            *)
(* application asks not to be called.                                      *)
(***************************************************************************)
EXTENDS Integers, FiniteSets, FiniteSetsExt, Functions

CONSTANTS Streams,      \* streams the endpoint can send on
          MaxOff,       \* bound: offsets and limits of a stream
          MaxConn,      \* bound: limits of the connection
          MaxWrite,     \* bound: bytes of one write
          InitMaxData,  \* the peer's initial limit of a stream
          InitConnMax,  \* the peer's initial_max_data
          None          \* Option::None

ASSUME StreamCreditConstants ==
  /\ MaxOff \in Nat /\ MaxConn \in Nat /\ MaxWrite \in Nat
  /\ InitMaxData \in Nat /\ InitConnMax \in Nat
  /\ None \notin Nat

VARIABLES
  tx_max,       \* send_capacity.max_data
  tx_data,      \* send_capacity.tx_data
  capacity,     \* send_capacity.capacity
  blocked_at,   \* send_capacity.blocked_at: DATA_BLOCKED is due
  announced,    \* the limit of the last DATA_BLOCKED sent
  stream,       \* the streams, see StreamType
  writable,     \* StreamMap::writable
  told          \* streams whose STOP_SENDING a write has reported

creditVars == <<tx_max, tx_data, capacity, blocked_at, announced>>
vars == <<creditVars, stream, writable, told>>

StreamType == [write : Nat, unsent : Nat, max : Nat, fin : Nat \cup {None},
               shutdown : BOOLEAN, stopped : BOOLEAN,
               phase : {"open", "closed", "destroyed"}, thresh : Nat]

Larger(a, b) == IF a > b THEN a ELSE b
Smaller(a, b) == IF a < b THEN a ELSE b

\* Stream::is_writable()
IsWritable(r) ==
  /\ r.fin # r.write
  /\ ~r.shutdown
  /\ r.write + r.thresh <= r.max

\* The stream is in StreamMap::streams, closed or not.
InMap(r) == r.phase # "destroyed"

Update(s, r) == stream' = [stream EXCEPT ![s] = r]

-----------------------------------------------------------------------------
Init ==
  /\ tx_max = InitConnMax /\ tx_data = 0 /\ capacity = InitConnMax
  /\ blocked_at = None /\ announced = None
  /\ stream = [s \in Streams |->
        [write |-> 0, unsent |-> 0, max |-> InitMaxData, fin |-> None,
         shutdown |-> FALSE, stopped |-> FALSE,
         phase |-> "open", thresh |-> 1]]
  /\ writable = {s \in Streams : InitMaxData > 0}
  /\ told = {}

\* The connection's credit does not cover n bytes: DATA_BLOCKED is due.
NoteBlocked(n) ==
  blocked_at' = IF tx_max - tx_data < n THEN tx_max ELSE blocked_at

\* stream_write(buf, fin) of n bytes with no credit left: the stream stays
\* writable, and the application is called again.
WriteNoCredit(s, n) ==
  LET r == stream[s]
  IN /\ InMap(r) /\ capacity = 0 /\ n > 0
     /\ NoteBlocked(n)
     /\ writable' = IF IsWritable(r) THEN writable \cup {s} ELSE writable
     /\ UNCHANGED <<tx_max, tx_data, capacity, announced, stream, told>>

\* stream_write to a stream that was destroyed.
WriteGone(s, n) ==
  /\ ~InMap(stream[s])
  /\ NoteBlocked(n)
  /\ UNCHANGED <<tx_max, tx_data, capacity, announced, stream, writable, told>>

\* The error of SendBuf::write() of len bytes.
Refused(r, len, fin) ==
  \/ r.stopped
  \/ /\ r.fin # None
     /\ \/ r.write + len > r.fin
        \/ r.write + len = r.fin /\ ~(fin /\ len <= r.max - r.write)

\* stream_write that the send buffer refuses.
WriteRefused(s, n, fin) ==
  LET r == stream[s]
  IN /\ InMap(r) /\ (capacity > 0 \/ n = 0)
     /\ Refused(r, Smaller(n, capacity), fin /\ n <= capacity)
     /\ NoteBlocked(n)
     /\ writable' = writable \ {s}
     /\ told' = IF r.stopped THEN told \cup {s} ELSE told
     /\ UNCHANGED <<tx_max, tx_data, capacity, announced, stream>>

\* Faulty variant of ListAfterWrite: a write the connection's credit has cut off
\* takes the stream off the list.
ListAfterWriteUncut(s, before, after, cut) ==
  IF ~IsWritable(after) \/ cut THEN writable \ {s} ELSE writable

\* The writable list after a write. The connection's credit running out must not
\* take the stream off.
ListAfterWrite(s, before, after, cut) ==
  IF ~IsWritable(after) THEN writable \ {s}
  ELSE IF IsWritable(before) /\ cut THEN writable \cup {s} ELSE writable

(***************************************************************************)
(* stream_write of n bytes, cut to the connection's credit and, by the     *)
(* send buffer, to the stream's; either takes the FIN off.                 *)
(***************************************************************************)
Write(s, n, fin) ==
  LET r       == stream[s]
      cut     == n > capacity
      len     == Smaller(n, capacity)
      written == Smaller(len, r.max - r.write)
      after   == [r EXCEPT
                    !.write = r.write + written,
                    !.fin = IF fin /\ ~cut /\ written = len THEN r.write + len ELSE r.fin]
  IN /\ InMap(r) /\ (capacity > 0 \/ n = 0)
     /\ ~Refused(r, len, fin /\ ~cut)
     /\ NoteBlocked(n)
     /\ Update(s, after)
     /\ writable' = ListAfterWrite(s, r, after, cut)
     /\ capacity' = capacity - written
     /\ tx_data' = tx_data + written
     /\ UNCHANGED <<tx_max, announced, told>>

\* stream_writable(len), which asks for a callback once len bytes can be written.
StreamWritable(s, len) ==
  LET r     == stream[s]
      after == [r EXCEPT !.thresh = Larger(1, len)]
  IN /\ InMap(r) /\ ~r.stopped
     /\ Smaller(capacity, r.max - r.write) < len
     /\ NoteBlocked(len)
     /\ Update(s, after)
     /\ writable' = IF r.max - r.write >= len /\ IsWritable(after)
                    THEN writable \cup {s} ELSE writable
     /\ UNCHANGED <<tx_max, tx_data, capacity, announced, told>>

-----------------------------------------------------------------------------
\* Faulty variant of GiveBack: all that was written is given back.
GiveBackAll(r) ==
  /\ tx_data' = Larger(0, tx_data - r.write)
  /\ capacity' = tx_max - tx_data'

\* SendBuf::reset() of a stream: what was not sent is given back.
GiveBack(r) ==
  /\ tx_data' = Larger(0, tx_data - (r.write - r.unsent))
  /\ capacity' = tx_max - tx_data'

Reset(r) == [r EXCEPT !.fin = r.unsent, !.write = r.unsent]

\* stream_shutdown(Shutdown::Write); a repeated one is refused.
ShutdownWrite(s) ==
  LET r == stream[s]
  IN /\ InMap(r) /\ ~r.shutdown
     /\ GiveBack(r)
     /\ Update(s, [Reset(r) EXCEPT !.shutdown = TRUE])
     /\ writable' = writable \ {s}
     /\ UNCHANGED <<tx_max, blocked_at, announced, told>>

\* on_stop_sending_frame_received: the application is to collect the error, so
\* the stream becomes writable if it was not.
StopSendingReceived(s) ==
  LET r == stream[s]
  IN /\ InMap(r) /\ ~r.stopped
     /\ GiveBack(r)
     /\ Update(s, [Reset(r) EXCEPT !.stopped = TRUE])
     /\ writable' = IF IsWritable(r) THEN writable ELSE writable \cup {s}
     /\ UNCHANGED <<tx_max, blocked_at, announced, told>>

\* on_max_data_frame_received
MaxDataReceived(limit) ==
  /\ tx_max' = Larger(tx_max, limit)
  /\ capacity' = tx_max' - tx_data
  /\ blocked_at' = IF blocked_at # None /\ blocked_at >= tx_max' THEN blocked_at ELSE None
  /\ UNCHANGED <<tx_data, announced, stream, writable, told>>

\* on_max_stream_data_frame_received
MaxStreamDataReceived(s, limit) ==
  LET r     == stream[s]
      after == [r EXCEPT !.max = Larger(@, limit)]
  IN /\ InMap(r)
     /\ Update(s, after)
     /\ writable' = IF IsWritable(after) THEN writable \cup {s} ELSE writable
     /\ UNCHANGED <<creditVars, told>>

\* try_write_stream_frames sends new data of the stream up to `end`.
SendData(s, end) ==
  LET r == stream[s]
  IN /\ InMap(r)
     /\ r.unsent < end /\ end <= r.write
     /\ Update(s, [r EXCEPT !.unsent = end])
     /\ UNCHANGED <<creditVars, writable, told>>

\* All of the stream was sent and acknowledged, or its reset was: mark_closed.
Close(s) ==
  LET r == stream[s]
  IN /\ r.phase = "open" /\ r.fin # None /\ r.unsent = r.fin
     /\ Update(s, [r EXCEPT !.phase = "closed"])
     /\ writable' = writable \ {s}
     /\ UNCHANGED <<creditVars, told>>

\* stream_destroy, called by the endpoint for the StreamClosed event.
Destroy(s) ==
  /\ stream[s].phase = "closed"
  /\ Update(s, [stream[s] EXCEPT !.phase = "destroyed"])
  /\ UNCHANGED <<creditVars, writable, told>>

-----------------------------------------------------------------------------
\* DATA_BLOCKED is written to a packet.
SendDataBlocked ==
  /\ blocked_at # None
  /\ announced' = blocked_at
  /\ blocked_at' = None
  /\ UNCHANGED <<tx_max, tx_data, capacity, stream, writable, told>>

\* on_data_blocked_frame_lost. The loss of an earlier frame than the last, which
\* announced a smaller limit, does nothing.
DataBlockedLost ==
  /\ announced # None
  /\ blocked_at' = IF announced = tx_max THEN announced ELSE blocked_at
  /\ announced' = None
  /\ UNCHANGED <<tx_max, tx_data, capacity, stream, writable, told>>

Next ==
  \/ \E s \in Streams, n \in 0..MaxWrite :
        \/ \E fin \in BOOLEAN : WriteRefused(s, n, fin) \/ Write(s, n, fin)
        \/ WriteNoCredit(s, n) \/ WriteGone(s, n) \/ StreamWritable(s, n)
  \/ \E s \in Streams, end \in 1..MaxOff : SendData(s, end)
  \/ \E s \in Streams :
        \/ ShutdownWrite(s) \/ StopSendingReceived(s) \/ Close(s) \/ Destroy(s)
  \/ \E s \in Streams, limit \in 0..MaxOff : MaxStreamDataReceived(s, limit)
  \/ \E limit \in 0..MaxConn : MaxDataReceived(limit)
  \/ SendDataBlocked \/ DataBlockedLost

Spec == Init /\ [][Next]_vars

-----------------------------------------------------------------------------
(* Properties.                                                             *)

TypeOK ==
  /\ tx_max \in Nat /\ tx_data \in Nat /\ capacity \in Nat
  /\ blocked_at \in Nat \cup {None} /\ announced \in Nat \cup {None}
  /\ stream \in [Streams -> StreamType]
  /\ writable \in SUBSET Streams
  /\ told \in SUBSET Streams

Written == [s \in Streams |-> stream[s].write]

\* No credit is lost or made up: what counts against the connection's limit is
\* what the streams have written, whatever was given back by shutdowns and
\* STOP_SENDING, and the rest is the capacity (stream_write, stream_shutdown,
\* on_stop_sending_frame_received, SendCapacity::update_capacity).
CreditConserved ==
  /\ tx_data = FoldFunction(+, 0, Written)
  /\ capacity = tx_max - tx_data

\* The comment on SendCapacity::max_data: "The sum of the final sizes on all
\* streams MUST NOT exceed this limit." A final size never shrinks below what was
\* sent, so the sum of what was sent is bounded too.
SentWithinLimit ==
  FoldFunction(+, 0, [s \in Streams |-> stream[s].unsent]) <= tx_max

\* A stream the application can write to is on the writable list, so that a writer
\* who was turned away is called back when credit of either kind arrives
\* (every mark_writable of mod.rs).
WriterIsListed == \A s \in Streams : stream[s].phase = "open" /\ IsWritable(stream[s]) => s \in writable

\* A stream stopped by the peer stays on the writable list until a write has
\* reported it, whatever credit there is (on_stop_sending_frame_received).
StopIsReported ==
  \A s \in Streams :
    stream[s].phase = "open" /\ stream[s].stopped /\ ~stream[s].shutdown => s \in writable \cup told

\* DATA_BLOCKED is only ever due for the limit that blocks now, whatever loss of
\* an older one is reported.
BlockedAtLimit == blocked_at # None => blocked_at = tx_max
===============================================================================
