------------------------------- MODULE SendBuf -------------------------------
(***************************************************************************)
(* The send buffer of a stream, connection/stream/send_buf.rs: what the    *)
(* application wrote and the peer has not acknowledged, and which part of  *)
(* it is to be sent, again or for the first time.                          *)
(*                                                                         *)
(* Data is abstracted to offsets: a RangeSet is the set of the offsets in  *)
(* its ranges, and the chunk queue is the interval [data_off, write_off).  *)
(* SendChunks gives the queue and the cursor into it and is checked to     *)
(* implement this module.                                                  *)
(***************************************************************************)
EXTENDS Integers, FiniteSets, FiniteSetsExt

CONSTANTS MaxOff,       \* bound: bytes the application writes, limits granted
          InitMaxData,  \* the peer's initial_max_stream_data
          None          \* Option::None

ASSUME SendBufConstants ==
  /\ MaxOff \in Nat
  /\ InitMaxData \in Nat
  /\ None \notin Nat

VARIABLES
  write_off,    \* offset after the last byte the application wrote
  unsent_off,   \* first offset never sent
  data_off,     \* first offset still in the chunk queue `data`
  unacked_len,  \* SendBuf::unacked_len
  max_data,     \* stream flow-control limit granted by the peer
  fin_off,      \* final size, or None
  shutdown,     \* the application shut the send side down
  stopped,      \* `error` is set: STOP_SENDING was received
  acked,        \* acknowledged offsets
  retransmits   \* offsets deemed lost and not yet sent again

bufVars == <<write_off, unsent_off, data_off, unacked_len, max_data, fin_off,
             shutdown, stopped, acked, retransmits>>

Bytes(from, to) == from .. (to - 1)

-----------------------------------------------------------------------------
\* send_off(): the lowest offset of data to be sent.
SendOff == IF retransmits = {} THEN unsent_off ELSE Min(retransmits)

\* ready(): there is buffered data to send.
Ready == data_off < write_off /\ SendOff < write_off

\* ack_off() over the range set A, whose offsets are all below unsent_off.
AckOff(A) == Min({n \in 0..unsent_off : n \notin A})

\* is_complete()
IsComplete ==
  /\ fin_off # None
  /\ fin_off = 0 \/ acked = Bytes(0, fin_off)

\* The offsets poll_transmit() may hand out: deemed lost, or never sent.
Pending == retransmits \cup Bytes(unsent_off, write_off)

\* read(): one frame takes the run of pending offsets that starts at send_off,
\* as far as the room in the packet allows.
ReadEnd(room) ==
  IF Ready THEN Min({n \in SendOff..(SendOff + room) :
                        n = SendOff + room \/ n \notin Pending})
           ELSE SendOff

-----------------------------------------------------------------------------
BufInit ==
  /\ write_off = 0 /\ unsent_off = 0 /\ data_off = 0 /\ unacked_len = 0
  /\ max_data = InitMaxData
  /\ fin_off = None
  /\ shutdown = FALSE /\ stopped = FALSE
  /\ acked = {} /\ retransmits = {}

\* Faulty variant of BufWrite: the data is not cut to the stream's credit.
BufWriteUncut(n, fin) ==
  /\ ~stopped
  /\ fin_off # None => write_off + n < fin_off \/ (write_off + n = fin_off /\ fin)
  /\ write_off + n <= MaxOff
  /\ fin_off' = IF fin THEN write_off + n ELSE fin_off
  /\ write_off' = write_off + n
  /\ unacked_len' = unacked_len + n
  /\ UNCHANGED <<unsent_off, data_off, max_data, shutdown, stopped, acked,
                 retransmits>>

\* write(data, fin) of n bytes. What exceeds the stream's credit is cut off and
\* the FIN with it; a stopped stream and data beyond the final size are refused.
BufWrite(n, fin) ==
  LET room    == max_data - write_off
      written == IF n > room THEN room ELSE n
      maxOff  == write_off + n
      fits    == fin /\ n <= room
  IN /\ ~stopped
     /\ fin_off # None => maxOff < fin_off \/ (maxOff = fin_off /\ fits)
     /\ maxOff <= MaxOff
     /\ fin_off' = IF fits THEN maxOff ELSE fin_off
     /\ write_off' = write_off + written
     /\ unacked_len' = unacked_len + written
     /\ UNCHANGED <<unsent_off, data_off, max_data, shutdown, stopped, acked,
                    retransmits>>

\* read(out) with room for `room` bytes.
BufRead(room) ==
  LET end == ReadEnd(room)
  IN /\ retransmits' = retransmits \ Bytes(SendOff, end)
     /\ unsent_off' = IF end > unsent_off THEN end ELSE unsent_off
     /\ UNCHANGED <<write_off, data_off, unacked_len, max_data, fin_off,
                    shutdown, stopped, acked>>

\* Faulty variant of AckAndDrop: the acknowledgement is taken as cumulative.
AckAndDropPrefix(off, end) ==
  /\ acked' = acked \cup Bytes(0, end)
  /\ retransmits' = retransmits \ Bytes(0, end)
  /\ data_off' = AckOff(acked')
  /\ unacked_len' = write_off - data_off'
  /\ UNCHANGED <<write_off, unsent_off, max_data, fin_off, shutdown, stopped>>

\* ack_and_drop(off, len), as [off, end).
AckAndDrop(off, end) ==
  LET newAcked == acked \cup Bytes(off, end)
      ackOff   == AckOff(newAcked)
      advance  == IF off > ackOff THEN 0 ELSE ackOff - (write_off - unacked_len)
  IN /\ IF data_off = write_off
        THEN /\ retransmits' = {}
             /\ UNCHANGED <<acked, unacked_len, data_off>>
        ELSE /\ acked' = newAcked
             /\ retransmits' = retransmits \ Bytes(off, end)
             /\ unacked_len' = unacked_len - advance
             /\ data_off' = data_off + advance
     /\ UNCHANGED <<write_off, unsent_off, max_data, fin_off, shutdown, stopped>>

\* Faulty variant of Retransmit: the early return compares the wrong end.
RetransmitByStart(off, end) ==
  /\ retransmits' = IF data_off = write_off \/ off <= AckOff(acked)
                    THEN retransmits
                    ELSE retransmits \cup (Bytes(off, end) \ acked)
  /\ UNCHANGED <<write_off, unsent_off, data_off, unacked_len, max_data, fin_off,
                 shutdown, stopped, acked>>

\* retransmit(off, len), as [off, end).
Retransmit(off, end) ==
  /\ retransmits' = IF data_off = write_off \/ end <= AckOff(acked)
                    THEN retransmits
                    ELSE retransmits \cup (Bytes(off, end) \ acked)
  /\ UNCHANGED <<write_off, unsent_off, data_off, unacked_len, max_data, fin_off,
                 shutdown, stopped, acked>>

\* update_max_data(limit)
UpdateMaxData(limit) ==
  /\ max_data' = IF limit > max_data THEN limit ELSE max_data
  /\ UNCHANGED <<write_off, unsent_off, data_off, unacked_len, fin_off, shutdown,
                 stopped, acked, retransmits>>

\* reset(): abandon what was not sent, forget what was.
BufReset ==
  /\ fin_off' = unsent_off
  /\ data_off' = unsent_off
  /\ write_off' = unsent_off
  /\ acked' = acked \cup Bytes(0, unsent_off)
  /\ UNCHANGED <<unsent_off, unacked_len, max_data, retransmits>>

\* stop(error_code), refused the second time.
BufStop == ~stopped /\ stopped' = TRUE /\ BufReset /\ UNCHANGED shutdown

\* shutdown(), refused the second time.
BufShutdown == ~shutdown /\ shutdown' = TRUE /\ BufReset /\ UNCHANGED stopped

BufNext ==
  \/ \E n \in 0..MaxOff, fin \in BOOLEAN : BufWrite(n, fin)
  \/ \E room \in 1..MaxOff : BufRead(room)
  \/ \E off, end \in 0..unsent_off :
        off <= end /\ (AckAndDrop(off, end) \/ Retransmit(off, end))
  \/ \E limit \in 0..MaxOff : UpdateMaxData(limit)
  \/ BufStop
  \/ BufShutdown

BufSpec == BufInit /\ [][BufNext]_bufVars

-----------------------------------------------------------------------------
BufTypeOK ==
  /\ write_off \in Nat /\ unsent_off \in Nat /\ data_off \in Nat
  /\ unacked_len \in Nat
  /\ max_data \in Nat
  /\ fin_off \in Nat \cup {None}
  /\ shutdown \in BOOLEAN /\ stopped \in BOOLEAN
  /\ acked \in SUBSET Nat /\ retransmits \in SUBSET Nat

\* While the stream lives, the chunk queue starts at the first offset that is not
\* acknowledged, `unacked_len` is its length, and no acknowledged offset waits to
\* be sent again.
Exact ==
  /\ data_off <= unsent_off /\ data_off \notin acked
  /\ Bytes(0, data_off) \subseteq acked
  /\ unacked_len = write_off - data_off
  /\ retransmits \cap acked = {}

\* Once it was reset, all that was sent counts as acknowledged and nothing more
\* can be written.
Abandoned ==
  /\ data_off = write_off /\ unsent_off = write_off /\ fin_off = write_off
  /\ acked = Bytes(0, unsent_off)

\* The inductive invariant of the buffer, whatever ranges below unsent_off are
\* acknowledged or lost in whatever order.
BufInv ==
  /\ BufTypeOK
  /\ unsent_off <= write_off /\ write_off <= max_data
  /\ acked \cup retransmits \subseteq Bytes(0, unsent_off)
  /\ fin_off # None => fin_off = write_off
  /\ IF shutdown \/ stopped THEN Abandoned ELSE Exact
=============================================================================
