------------------------------ MODULE StreamSend ------------------------------
(***************************************************************************)
(* The sending half of one QUIC stream: its SendBuf, the StreamMap         *)
(* handlers that drive it (connection/stream/mod.rs) and the frame writers *)
(* of connection/send.rs.                                                  *)
(*                                                                         *)
(* What happens to a sent packet is the environment's choice, restricted   *)
(* to what connection/recovery.rs can report about it: while it is         *)
(* outstanding, a PTO may re-queue its frames any number of times; it ends *)
(* either acknowledged or declared lost, never both.                       *)
(***************************************************************************)
EXTENDS SendBuf

CONSTANTS MaxFrames,    \* bound: STREAM and RESET_STREAM frames sent
          MaxQueued,    \* bound: entries of the stream in the sendable queue
          IsBidi        \* a bidirectional stream also waits for its recv side

ASSUME StreamSendConstants ==
  /\ MaxFrames \in Nat
  /\ MaxQueued \in Nat
  /\ IsBidi \in BOOLEAN

VARIABLES
  sendable,     \* how many times the stream is in the sendable queue
  reset,        \* entry of StreamMap::reset: the final size to announce, or None
  phase,        \* "open", "closed" (StreamClosed event queued), "destroyed"
  recv_side,    \* receiving half: "open", "unread" (complete, still readable), "done"
  flight,       \* frames of outstanding packets
  next_pn       \* next packet number

mapVars == <<sendable, reset, phase, recv_side>>
netVars == <<flight, next_pn>>
vars == <<bufVars, mapVars, netVars>>

FrameType == [pn : Nat, kind : {"stream", "reset"}, off : Nat, end : Nat,
              fin : BOOLEAN]

-----------------------------------------------------------------------------
Init ==
  /\ BufInit
  /\ sendable = 0
  /\ reset = None
  /\ phase = "open"
  /\ recv_side = IF IsBidi THEN "open" ELSE "done"
  /\ flight = {}
  /\ next_pn = 0

Sent(frame) ==
  /\ next_pn < MaxFrames
  /\ flight' = flight \cup {frame}
  /\ next_pn' = next_pn + 1

\* push_sendable(), when the stream became sendable in this handler or only an
\* empty FIN is to be sent. Primed state is that of the SendBuf.
PushSendable(emptyFin) ==
  /\ sendable' = IF (Ready' \/ emptyFin) /\ ~Ready THEN sendable + 1 ELSE sendable
  /\ sendable' <= MaxQueued

\* mark_closed(), from the handlers that call it once the stream is complete.
MarkClosed(complete) ==
  phase' = IF complete /\ phase = "open" THEN "closed" ELSE phase

(***************************************************************************)
(* stream_write(buf, fin) of n bytes when the connection has `capacity`    *)
(* bytes of send credit left; the lack of it also cuts off the FIN.        *)
(***************************************************************************)
StreamWrite(n, fin, capacity) ==
  /\ phase # "destroyed"
  /\ ~(capacity = 0 /\ n > 0)
  /\ IF n > capacity THEN BufWrite(capacity, FALSE) ELSE BufWrite(n, fin)
  /\ PushSendable(n = 0 /\ fin)
  /\ UNCHANGED <<reset, phase, recv_side, netVars>>

\* Faulty variant of SendStreamFrame: the stream leaves the queue although it has
\* more to send.
SendStreamFramePops(room) ==
  /\ sendable > 0 /\ phase # "destroyed" /\ ~stopped
  /\ Sent([pn |-> next_pn, kind |-> "stream", off |-> SendOff,
           end |-> ReadEnd(room), fin |-> fin_off = ReadEnd(room)])
  /\ BufRead(room)
  /\ sendable' = sendable - 1
  /\ UNCHANGED <<reset, phase, recv_side>>

(***************************************************************************)
(* One turn of the loop of try_write_stream_frames for this stream, with   *)
(* `room` bytes left for data in the packet. A frame goes out even when it *)
(* carries neither data nor FIN.                                           *)
(***************************************************************************)
SendStreamFrame(room) ==
  /\ sendable > 0 /\ phase # "destroyed" /\ ~stopped
  /\ Sent([pn |-> next_pn, kind |-> "stream", off |-> SendOff,
           end |-> ReadEnd(room), fin |-> fin_off = ReadEnd(room)])
  /\ BufRead(room)
  /\ sendable' = IF Ready' THEN sendable ELSE sendable - 1
  /\ UNCHANGED <<reset, phase, recv_side>>

\* The other turn of that loop: the stream is gone or was stopped by the peer.
SkipStreamFrame ==
  /\ sendable > 0 /\ (phase = "destroyed" \/ stopped)
  /\ sendable' = sendable - 1
  /\ UNCHANGED <<bufVars, reset, phase, recv_side, netVars>>

\* try_write_stream_control_frames: announce a reset.
SendResetFrame ==
  /\ reset # None
  /\ Sent([pn |-> next_pn, kind |-> "reset", off |-> reset, end |-> reset,
           fin |-> FALSE])
  /\ reset' = None
  /\ UNCHANGED <<bufVars, sendable, phase, recv_side>>

-----------------------------------------------------------------------------
\* on_stream_frame_acked
StreamFrameAcked(f) ==
  /\ f.kind = "stream"
  /\ flight' = flight \ {f}
  /\ IF phase = "destroyed" THEN UNCHANGED <<bufVars, phase>>
     ELSE AckAndDrop(f.off, f.end) /\ MarkClosed(IsComplete' /\ recv_side = "done")
  /\ UNCHANGED <<sendable, reset, recv_side, next_pn>>

\* on_reset_stream_frame_acked
ResetFrameAcked(f) ==
  /\ f.kind = "reset"
  /\ flight' = flight \ {f}
  /\ MarkClosed(IsComplete /\ recv_side = "done")
  /\ UNCHANGED <<bufVars, sendable, reset, recv_side, next_pn>>

\* on_stream_frame_lost, for a frame of a packet that stays outstanding (a PTO
\* re-queues it) or that was declared lost.
StreamFrameLost(f, pto) ==
  /\ f.kind = "stream"
  /\ flight' = IF pto THEN flight ELSE flight \ {f}
  /\ IF phase = "destroyed" THEN UNCHANGED <<bufVars, sendable>>
     ELSE Retransmit(f.off, f.end) /\ PushSendable(f.off = f.end /\ f.fin)
  /\ UNCHANGED <<reset, phase, recv_side, next_pn>>

\* on_reset_stream_frame_lost. A PTO re-queues it with the data it travelled with.
ResetFrameLost(f, pto) ==
  /\ f.kind = "reset"
  /\ flight' = IF pto THEN flight ELSE flight \ {f}
  /\ reset' = IF phase = "destroyed" THEN reset ELSE f.end
  /\ UNCHANGED <<bufVars, sendable, phase, recv_side, next_pn>>

-----------------------------------------------------------------------------
\* on_max_stream_data_frame_received. A new limit alone never makes the stream
\* sendable: what is buffered was within the old one.
MaxStreamDataReceived(limit) ==
  /\ phase # "destroyed"
  /\ UpdateMaxData(limit)
  /\ PushSendable(FALSE)
  /\ UNCHANGED <<reset, phase, recv_side, netVars>>

\* on_stop_sending_frame_received; a repeated one changes nothing.
StopSendingReceived ==
  /\ phase # "destroyed"
  /\ BufStop
  /\ reset' = fin_off'
  /\ UNCHANGED <<sendable, phase, recv_side, netVars>>

\* stream_shutdown(Shutdown::Write); a repeated one is refused.
ShutdownWrite ==
  /\ phase # "destroyed"
  /\ BufShutdown
  /\ reset' = fin_off'
  /\ UNCHANGED <<sendable, phase, recv_side, netVars>>

\* The receiving half of a bidirectional stream completes: stream_read reaches
\* its end (an empty chunk with FIN may stay behind, which keeps the stream
\* readable), or a RESET_STREAM finds nothing left to read.
RecvHalfDone(side) ==
  /\ recv_side # "done" /\ recv_side # side
  /\ recv_side' = side
  /\ MarkClosed(IsComplete)
  /\ UNCHANGED <<bufVars, sendable, reset, netVars>>

\* A RESET_STREAM completes the receiving half and leaves its error to be read.
RecvHalfReset ==
  /\ recv_side = "open"
  /\ recv_side' = "unread"
  /\ UNCHANGED <<bufVars, sendable, reset, phase, netVars>>

\* The endpoint handles the StreamClosed event: stream_destroy.
StreamDestroy ==
  /\ phase = "closed"
  /\ phase' = "destroyed"
  /\ UNCHANGED <<bufVars, sendable, reset, recv_side, netVars>>

FrameFate(f) ==
  \/ StreamFrameAcked(f)
  \/ ResetFrameAcked(f)
  \/ \E pto \in BOOLEAN : StreamFrameLost(f, pto) \/ ResetFrameLost(f, pto)

Next ==
  \/ \E n \in 0..MaxOff, fin \in BOOLEAN, capacity \in 0..MaxOff :
        StreamWrite(n, fin, capacity)
  \/ \E room \in 1..MaxOff : SendStreamFrame(room)
  \/ SkipStreamFrame
  \/ SendResetFrame
  \/ \E f \in flight : FrameFate(f)
  \/ \E limit \in 0..MaxOff : MaxStreamDataReceived(limit)
  \/ StopSendingReceived
  \/ ShutdownWrite
  \/ \E side \in {"unread", "done"} : RecvHalfDone(side)
  \/ RecvHalfReset
  \/ StreamDestroy

Spec == Init /\ [][Next]_vars

-----------------------------------------------------------------------------
(* Properties.                                                             *)

TypeOK ==
  /\ BufTypeOK
  /\ sendable \in Nat
  /\ reset \in Nat \cup {None}
  /\ phase \in {"open", "closed", "destroyed"}
  /\ recv_side \in {"open", "unread", "done"}
  /\ flight \in SUBSET FrameType
  /\ next_pn \in Nat

\* No byte that was sent is forgotten: it is acknowledged, waits in
\* `retransmits`, or is in a packet whose fate the loss recovery will still
\* report (send_buf.rs ack_and_drop, retransmit; mod.rs on_stream_frame_lost).
NoLostByte ==
  \A o \in 0..(unsent_off - 1) :
    \/ o \in acked \cup retransmits
    \/ \E f \in flight : f.off <= o /\ o < f.end

\* Whatever read() asks of the chunk queue is in it: an offset to send again is
\* still buffered. read() spins forever on an offset that is not.
ResendableIsBuffered ==
  data_off < write_off => retransmits \subseteq data_off..(write_off - 1)

\* A stream with data to send is in the sendable queue, so that the packet
\* writer comes back to it, whatever mix of writes, losses and acknowledgements
\* made it sendable (the `!was_sendable` tests of mod.rs).
ReadyIsQueued == Ready => sendable > 0

\* The stream never announces two final sizes: every FIN and RESET_STREAM that
\* is outstanding or due agrees with fin_off and covers all data sent, whatever
\* the order of finish, shutdown and STOP_SENDING (SendBuf::write, reset).
FinalSizeAgrees ==
  /\ \A f \in flight : /\ f.fin \/ f.kind = "reset" => fin_off = f.end
                       /\ f.end <= unsent_off
  /\ reset # None => fin_off = reset

\* Nothing beyond the peer's limit is buffered, so nothing beyond it is sent.
WithinMaxData == unsent_off <= write_off /\ write_off <= max_data

\* The comment on SendBuf::unacked_len, "unacked_len = self.write_off -
\* self.ack_off()", while the stream is not reset; and the chunk queue starts
\* at ack_off, which is what makes dropping chunks by count correct.
UnackedLenExact ==
  ~shutdown /\ ~stopped => /\ data_off = AckOff(acked)
                          /\ unacked_len = write_off - data_off

\* A stream is closed only once the peer has acknowledged every byte up to the
\* final size or the stream was reset, and it stays that way.
ClosedIsComplete == phase # "open" => IsComplete

\* What the frames of outstanding packets and a due reset are.
FramesSound ==
  /\ \A f \in flight : /\ f.off <= f.end
                       /\ f.kind = "reset" => f.off = f.end /\ (shutdown \/ stopped)
  /\ reset # None => shutdown \/ stopped

\* The inductive invariant: the buffer's, and what the stream map and the packets
\* in flight add to it. The other properties of this module follow from it.
Inv ==
  /\ TypeOK /\ BufInv /\ FramesSound
  /\ NoLostByte /\ ReadyIsQueued /\ FinalSizeAgrees /\ ClosedIsComplete
=============================================================================
