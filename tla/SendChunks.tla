------------------------------ MODULE SendChunks ------------------------------
(***************************************************************************)
(* SendBuf with its chunk queue `data` (a sequence of chunks [off, end))   *)
(* and the cursor `pos` into it. read() asks for ranges that              *)
(* poll_transmit() chose and looks for their bytes from `pos` on, never    *)
(* before it; acknowledgements drop chunks from the front and losses move  *)
(* the cursor back. The queue implements the interval of SendBuf.          *)
(***************************************************************************)
EXTENDS Integers, FiniteSets, FiniteSetsExt, Sequences

CONSTANTS MaxOff, InitMaxData, None,
          ChunkSize     \* SEND_BUFFER_SIZE

VARIABLES data, pos, write_off, unsent_off, unacked_len, max_data, fin_off,
          shutdown, stopped, acked, retransmits,
          spinning      \* read() asked for a range that is not in the queue

flags == <<fin_off, shutdown, stopped>>
vars == <<data, pos, write_off, unsent_off, unacked_len, max_data, flags,
          acked, retransmits, spinning>>

Abstract == INSTANCE SendBuf
  WITH data_off <- IF data = << >> THEN write_off ELSE Head(data).off

Bytes(from, to) == from .. (to - 1)
Smaller(a, b) == IF a < b THEN a ELSE b

-----------------------------------------------------------------------------
\* write(): the data in chunks of at most SEND_BUFFER_SIZE.
RECURSIVE Split(_, _)
Split(from, to) ==
  IF from = to THEN << >>
  ELSE LET end == Smaller(to, from + ChunkSize)
       IN << [off |-> from, end |-> end] >> \o Split(end, to)

\* A reader carries what read() and the functions it calls change.
SendOffOf(r) == IF r.rtx = {} THEN r.unsent ELSE Min(r.rtx)

\* poll_transmit(): the first range deemed lost, else new data.
PollTransmit(r, cap) ==
  IF r.rtx # {}
  THEN LET end == Min({n \in Min(r.rtx)..(Min(r.rtx) + cap) :
                          n = Min(r.rtx) + cap \/ n \notin r.rtx})
       IN [range |-> [off |-> Min(r.rtx), end |-> end],
           reader |-> [r EXCEPT !.rtx = @ \ Bytes(Min(r.rtx), end)]]
  ELSE LET end == Smaller(write_off, r.unsent + cap)
       IN [range |-> [off |-> r.unsent, end |-> end],
           reader |-> [r EXCEPT !.unsent = end]]

\* read_range() until the range is copied: scan forward from r.pos. An empty
\* result makes the loop of read() spin.
RECURSIVE CopyRange(_, _, _)
CopyRange(r, from, to) ==
  IF from = to THEN r
  ELSE IF r.pos >= Len(data) THEN [r EXCEPT !.spin = TRUE]
  ELSE LET seg == data[r.pos + 1]
       IN IF from >= seg.off /\ from < seg.end
          THEN CopyRange([r EXCEPT !.pos = IF to >= seg.end THEN @ + 1 ELSE @],
                         Smaller(to, seg.end), to)
          ELSE CopyRange([r EXCEPT !.pos = @ + 1], from, to)

\* Faulty variant of ReadLoop: ranges that do not touch go into one frame.
RECURSIVE ReadLoopGaps(_, _, _)
ReadLoopGaps(r, next, cap) ==
  IF \/ cap = 0 \/ r.spin
     \/ data = << >> \/ SendOffOf(r) >= write_off \/ SendOffOf(r) >= max_data
  THEN r
  ELSE LET poll == PollTransmit(r, cap)
           len  == poll.range.end - poll.range.off
       IN ReadLoopGaps(CopyRange(poll.reader, poll.range.off, poll.range.end),
                       next + len, cap - len)

\* The loop of read(): contiguous ranges from `next` on.
RECURSIVE ReadLoop(_, _, _)
ReadLoop(r, next, cap) ==
  IF \/ cap = 0 \/ r.spin
     \/ data = << >> \/ SendOffOf(r) >= write_off
     \/ SendOffOf(r) # next \/ SendOffOf(r) >= max_data
  THEN r
  ELSE LET poll == PollTransmit(r, cap)
           len  == poll.range.end - poll.range.off
       IN ReadLoop(CopyRange(poll.reader, poll.range.off, poll.range.end),
                   next + len, cap - len)

\* The loop of ack_and_drop(): drop or advance chunks by `n` bytes.
RECURSIVE DropFront(_, _)
DropFront(queue, n) ==
  IF n = 0 THEN queue
  ELSE LET len == Head(queue).end - Head(queue).off
       IN IF len <= n THEN DropFront(Tail(queue), n - len)
          ELSE << [Head(queue) EXCEPT !.off = @ + n] >> \o Tail(queue)

\* send_off() after a step that changes only `retransmits`.
SendOff(rtx) == IF rtx = {} THEN unsent_off ELSE Min(rtx)

-----------------------------------------------------------------------------
Init ==
  /\ data = << >> /\ pos = 0
  /\ write_off = 0 /\ unsent_off = 0 /\ unacked_len = 0
  /\ max_data = InitMaxData
  /\ fin_off = None /\ shutdown = FALSE /\ stopped = FALSE
  /\ acked = {} /\ retransmits = {}
  /\ spinning = FALSE

Write(n, fin) ==
  LET room    == max_data - write_off
      written == Smaller(n, room)
      maxOff  == write_off + n
      fits    == fin /\ n <= room
  IN /\ ~stopped
     /\ fin_off # None => maxOff < fin_off \/ (maxOff = fin_off /\ fits)
     /\ maxOff <= MaxOff
     /\ fin_off' = IF fits THEN maxOff ELSE fin_off
     /\ data' = data \o Split(write_off, write_off + written)
     /\ write_off' = write_off + written
     /\ unacked_len' = unacked_len + written
     /\ UNCHANGED <<pos, unsent_off, max_data, shutdown, stopped, acked,
                    retransmits, spinning>>

Read(room) ==
  LET start == [rtx |-> retransmits, unsent |-> unsent_off, pos |-> pos,
                spin |-> FALSE]
      r     == ReadLoop(start, SendOff(retransmits), room)
  IN /\ retransmits' = r.rtx
     /\ unsent_off' = r.unsent
     /\ pos' = r.pos
     /\ spinning' = r.spin
     /\ UNCHANGED <<data, write_off, unacked_len, max_data, flags, acked>>

AckAndDrop(off, end) ==
  LET newAcked == acked \cup Bytes(off, end)
      ackOff   == Abstract!AckOff(newAcked)
      advance  == IF off > ackOff THEN 0 ELSE ackOff - (write_off - unacked_len)
      left     == DropFront(data, advance)
      dropped  == Len(data) - Len(left)
  IN /\ IF data = << >>
        THEN /\ retransmits' = {}
             /\ UNCHANGED <<data, pos, acked, unacked_len>>
        ELSE /\ acked' = newAcked
             /\ retransmits' = retransmits \ Bytes(off, end)
             /\ unacked_len' = unacked_len - advance
             /\ data' = left
             /\ pos' = IF pos > dropped THEN pos - dropped ELSE 0
     /\ UNCHANGED <<write_off, unsent_off, max_data, flags, spinning>>

Retransmit(off, end) ==
  /\ retransmits' = IF data = << >> \/ end <= Abstract!AckOff(acked)
                    THEN retransmits
                    ELSE retransmits \cup (Bytes(off, end) \ acked)
  /\ pos' = IF SendOff(retransmits') < SendOff(retransmits) THEN 0 ELSE pos
  /\ UNCHANGED <<data, write_off, unsent_off, unacked_len, max_data, flags,
                 acked, spinning>>

UpdateMaxData(limit) ==
  /\ max_data' = IF limit > max_data THEN limit ELSE max_data
  /\ UNCHANGED <<data, pos, write_off, unsent_off, unacked_len, flags, acked,
                 retransmits, spinning>>

Reset ==
  /\ fin_off' = unsent_off
  /\ data' = << >> /\ pos' = 0
  /\ acked' = acked \cup Bytes(0, unsent_off)
  /\ write_off' = unsent_off
  /\ UNCHANGED <<unsent_off, unacked_len, max_data, retransmits, spinning>>

Stop == ~stopped /\ stopped' = TRUE /\ Reset /\ UNCHANGED shutdown

Shutdown == ~shutdown /\ shutdown' = TRUE /\ Reset /\ UNCHANGED stopped

Next ==
  \/ \E n \in 0..MaxOff, fin \in BOOLEAN : Write(n, fin)
  \/ \E room \in 1..MaxOff : Read(room)
  \/ \E off, end \in 0..unsent_off :
        off <= end /\ (AckAndDrop(off, end) \/ Retransmit(off, end))
  \/ \E limit \in 0..MaxOff : UpdateMaxData(limit)
  \/ Stop
  \/ Shutdown

Spec == Init /\ [][Next]_vars

-----------------------------------------------------------------------------
(* Properties.                                                             *)

TypeOK ==
  /\ \A i \in 1..Len(data) : data[i] \in [off : 0..MaxOff, end : 0..MaxOff]
  /\ pos \in 0..Len(data)
  /\ write_off \in 0..MaxOff /\ unsent_off \in 0..MaxOff
  /\ unacked_len \in 0..MaxOff /\ max_data \in Nat
  /\ fin_off \in (0..MaxOff) \cup {None}
  /\ shutdown \in BOOLEAN /\ stopped \in BOOLEAN
  /\ acked \subseteq 0..MaxOff /\ retransmits \subseteq 0..MaxOff

\* The chunk queue implements SendBuf: a read() of several chunks and ranges
\* takes exactly the run of pending offsets. It always finds the bytes it asks
\* for: the cursor, which only moves forward in read_range(), is never past the
\* next byte to send, although acknowledgements shift the queue under it and
\* only a loss below the lowest pending offset moves it back. Otherwise read()
\* would loop forever.
ImplementsSendBuf == Abstract!BufSpec /\ [](~spinning)
=============================================================================
