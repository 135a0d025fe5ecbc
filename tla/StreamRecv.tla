------------------------------ MODULE StreamRecv ------------------------------
(***************************************************************************)
(* The receiving half of one QUIC stream: its RecvBuf and the StreamMap    *)
(* handlers that drive it (connection/stream/mod.rs), with the FlowControl *)
(* of a connection that carries this stream only.                          *)
(***************************************************************************)
EXTENDS RecvBuf

CONSTANTS MaxConn,        \* bound: conn_recv
          ConnWindow,     \* initial receive window of the connection
          MaxConnWindow,  \* largest window autotuning gives the connection
          RecvBidi          \* a bidirectional stream also waits for its send side

ASSUME StreamRecvConstants ==
  /\ MaxConn \in Nat
  /\ ConnWindow \in Nat /\ MaxConnWindow \in Nat /\ ConnWindow <= MaxConnWindow
  /\ MaxWindow <= MaxConnWindow
  /\ RecvBidi \in BOOLEAN

VARIABLES
  conn_recv,      \* the connection's flow_control.recv_off
  conn_read,      \* its read_off
  conn_max,       \* its max_data: the limit promised to the peer
  conn_window,    \* its window
  rx_almost_full, \* MAX_DATA is due
  readable,       \* the stream is in StreamMap::readable
  almost_full,    \* the stream is in StreamMap::almost_full
  stop,           \* the stream is in StreamMap::stopped: STOP_SENDING is due
  ctl_sent,       \* kinds of control frames sent so far, which may be lost
  recv_phase,     \* "open", "closed" (StreamClosed event queued), "destroyed"
  send_done,      \* the sending half is complete
  told,           \* how the application saw the stream end: "", "fin", "reset"
  conn_error      \* the error that closes the connection, or ""

connVars == <<conn_recv, conn_read, conn_max, conn_window, rx_almost_full>>
ctlVars == <<almost_full, stop, ctl_sent>>
listVars == <<readable, recv_phase, send_done>>
recvVars == <<rbufVars, connVars, ctlVars, listVars, told, conn_error>>

Excess(a, b) == IF a > b THEN a - b ELSE 0     \* saturating_sub

\* Stream::is_complete()
RecvIsComplete == IsFin /\ send_done

Live == recv_phase # "destroyed" /\ conn_error = ""

\* The connection's should_send_max_data(). The u64 difference wraps to a value
\* above every window when more was counted as consumed than was allowed.
ConnShouldSend == conn_read <= conn_max /\ (conn_max - conn_read) * 2 < conn_window

\* increase_recv_off(), within the limit checked before it.
Receive(delta) ==
  /\ delta <= conn_max - conn_recv
  /\ conn_recv' = conn_recv + delta
  /\ conn_recv' <= MaxConn

\* Faulty variant of Consume: the limit is compared with the consumption before.
ConsumeChecksFirst(delta) ==
  /\ conn_read' = conn_read + delta
  /\ rx_almost_full' = (rx_almost_full \/ ConnShouldSend)
  /\ UNCHANGED <<conn_max, conn_window>>

\* increase_read_off() and the check that follows it everywhere.
Consume(delta) ==
  /\ conn_read' = conn_read + delta
  /\ UNCHANGED <<conn_max, conn_window>>
  /\ rx_almost_full' = (rx_almost_full \/ ConnShouldSend')

-----------------------------------------------------------------------------
RecvInit ==
  /\ RBufInit
  /\ conn_recv = 0 /\ conn_read = 0
  /\ conn_max = ConnWindow /\ conn_window = ConnWindow /\ rx_almost_full = FALSE
  /\ readable = FALSE /\ almost_full = FALSE /\ stop = FALSE
  /\ ctl_sent = {}
  /\ recv_phase = "open"
  /\ send_done = ~RecvBidi
  /\ told = "" /\ conn_error = ""

\* mark_closed(): also takes the stream off the readable list.
RecvMarkClosed(complete, stillReadable) ==
  LET closing == complete /\ recv_phase = "open"
  IN /\ recv_phase' = IF closing THEN "closed" ELSE recv_phase
     /\ readable' = (stillReadable /\ ~closing)

\* Faulty variant of StreamFrameReceived: only a frame that starts at the read
\* offset makes the stream readable.
StreamFrameReceivedInOrder(off, end, fin) ==
  /\ Live
  /\ RBufWrite(off, end, fin)
  /\ readable' = (readable \/ off = read_off)
  /\ Receive(Excess(end, recv_off))
  /\ IF recv_shutdown THEN Consume(Excess(end, recv_off))
     ELSE UNCHANGED <<conn_read, conn_max, conn_window, rx_almost_full>>
  /\ UNCHANGED <<ctlVars, recv_phase, send_done, told, conn_error>>

\* on_stream_frame_received. After a shutdown of the receive side the new bytes
\* count as consumed on the connection.
StreamFrameReceived(off, end, fin) ==
  /\ Live
  /\ RBufWrite(off, end, fin)
  /\ readable' = (readable \/ (~RBufReady /\ RBufReady'))
  /\ Receive(Excess(end, recv_off))
  /\ IF recv_shutdown THEN Consume(Excess(end, recv_off))
     ELSE UNCHANGED <<conn_read, conn_max, conn_window, rx_almost_full>>
  /\ UNCHANGED <<ctlVars, recv_phase, send_done, told, conn_error>>

\* A frame that breaks a limit closes the connection; the connection's limit is
\* checked first.
StreamFrameRejected(end, fin) ==
  LET error == IF Excess(end, recv_off) > conn_max - conn_recv
               THEN "FlowControlError" ELSE WriteError(end, fin)
  IN
  /\ Live
  /\ error # ""
  /\ conn_error' = error
  /\ UNCHANGED <<rbufVars, connVars, ctlVars, listVars, told>>

\* stream_read into a buffer of `cap` bytes.
StreamRead(cap) ==
  /\ Live
  /\ RBufRead(cap)
  /\ almost_full' = (almost_full \/ ShouldSendMaxData')
  /\ Consume(read_off' - read_off)
  /\ told' = IF IsFin' THEN "fin" ELSE told
  /\ RecvMarkClosed(IsFin' /\ send_done, readable /\ RBufReady')
  /\ UNCHANGED <<conn_recv, stop, ctl_sent, send_done, conn_error>>

\* stream_read of a stream the peer has reset.
StreamReadReset ==
  /\ Live
  /\ RBufReadReset
  /\ told' = "reset"
  /\ RecvMarkClosed(RecvIsComplete, FALSE)
  /\ UNCHANGED <<connVars, ctlVars, send_done, conn_error>>

\* on_reset_stream_frame_received: what was buffered counts as consumed.
ResetFrameReceived(final) ==
  /\ Live
  /\ RBufReset(final)
  /\ Receive(final - recv_off)
  /\ Consume(Excess(final, read_off))
  /\ RecvMarkClosed(IsFin' /\ send_done /\ ~RBufReady', readable \/ (~RBufReady /\ RBufReady'))
  /\ UNCHANGED <<ctlVars, send_done, told, conn_error>>

ResetFrameRejected(final) ==
  LET error == IF ResetError(final) = "" /\ final - recv_off > conn_max - conn_recv
               THEN "FlowControlError" ELSE ResetError(final)
  IN
  /\ Live
  /\ error # ""
  /\ conn_error' = error
  /\ UNCHANGED <<rbufVars, connVars, ctlVars, listVars, told>>

\* stream_shutdown(Shutdown::Read)
ShutdownRead ==
  /\ Live
  /\ RBufShutdown
  /\ stop' = (stop \/ ~IsFin')
  /\ readable' = FALSE
  /\ Consume(recv_off - read_off)
  /\ UNCHANGED <<conn_recv, almost_full, ctl_sent, recv_phase, send_done, told,
                 conn_error>>

-----------------------------------------------------------------------------
\* try_write_stream_control_frames: MAX_STREAM_DATA with recv_max'. The window
\* can only be tuned once an update has been sent. The connection's window is
\* kept at CONNECTION_WINDOW_FACTOR = 1.5 times the stream's at least.
SendMaxStreamData(tuned) ==
  /\ Live /\ almost_full
  /\ tuned # window => "max_stream_data" \in ctl_sent
  /\ RBufUpdateMaxData(tuned)
  /\ almost_full' = FALSE
  /\ ctl_sent' = ctl_sent \cup {"max_stream_data"}
  /\ conn_window' = Larger(conn_window, (tuned * 3) \div 2)
  /\ rx_almost_full' = TRUE
  /\ UNCHANGED <<conn_recv, conn_read, conn_max, stop, listVars, told, conn_error>>

TunedConnWindows == {conn_window, Min({conn_window * 2, MaxConnWindow})}

\* need_send_max_data(): the frame is due, and would raise the limit.
NeedSendMaxData == rx_almost_full /\ conn_max < conn_read + conn_window

\* The same function, next: MAX_DATA with conn_max'.
SendMaxData(tuned) ==
  /\ conn_error = "" /\ NeedSendMaxData
  /\ tuned \in TunedConnWindows
  /\ tuned # conn_window => "max_data" \in ctl_sent
  /\ conn_window' = tuned
  /\ conn_max' = conn_read + tuned
  /\ rx_almost_full' = FALSE
  /\ ctl_sent' = ctl_sent \cup {"max_data"}
  /\ UNCHANGED <<rbufVars, conn_recv, conn_read, almost_full, stop, listVars, told,
                 conn_error>>

\* It does not fit.
NoRoomForMaxData(tuned) ==
  /\ conn_error = "" /\ NeedSendMaxData
  /\ tuned \in TunedConnWindows
  /\ "max_data" \in ctl_sent
  /\ conn_window' = tuned
  /\ UNCHANGED <<rbufVars, conn_recv, conn_read, conn_max, rx_almost_full, ctlVars,
                 listVars, told, conn_error>>

\* on_max_data_frame_lost
MaxDataLost ==
  /\ conn_error = "" /\ "max_data" \in ctl_sent
  /\ rx_almost_full' = TRUE
  /\ UNCHANGED <<rbufVars, conn_recv, conn_read, conn_max, conn_window, ctlVars,
                 listVars, told, conn_error>>

\* The frame does not fit: the packet goes without it, the window is tuned.
NoRoomForMaxStreamData(tuned) ==
  /\ Live /\ almost_full
  /\ "max_stream_data" \in ctl_sent
  /\ RBufAutotune(tuned)
  /\ UNCHANGED <<connVars, ctlVars, listVars, told, conn_error>>

\* The same loop forgets a stream that was destroyed in the meantime.
SkipMaxStreamData ==
  /\ conn_error = "" /\ recv_phase = "destroyed" /\ almost_full
  /\ almost_full' = FALSE
  /\ UNCHANGED <<rbufVars, connVars, stop, ctl_sent, listVars, told, conn_error>>

\* Faulty variant of MaxStreamDataLost: the lost limit is not sent again.
MaxStreamDataLostIgnored ==
  /\ Live /\ "max_stream_data" \in ctl_sent
  /\ UNCHANGED recvVars

\* on_max_stream_data_frame_lost
MaxStreamDataLost ==
  /\ Live /\ "max_stream_data" \in ctl_sent
  /\ almost_full' = TRUE
  /\ UNCHANGED <<rbufVars, connVars, stop, ctl_sent, listVars, told, conn_error>>

\* try_write_stream_control_frames: STOP_SENDING.
SendStopSending ==
  /\ conn_error = "" /\ stop
  /\ stop' = FALSE
  /\ ctl_sent' = ctl_sent \cup {"stop_sending"}
  /\ UNCHANGED <<rbufVars, connVars, almost_full, listVars, told, conn_error>>

\* on_stop_sending_frame_lost
StopSendingLost ==
  /\ Live /\ "stop_sending" \in ctl_sent
  /\ stop' = (stop \/ ~IsFin)
  /\ UNCHANGED <<rbufVars, connVars, almost_full, ctl_sent, listVars, told,
                 conn_error>>

\* The sending half of a bidirectional stream completes (on_stream_frame_acked,
\* on_reset_stream_frame_acked).
SendHalfDone ==
  /\ Live /\ ~send_done
  /\ send_done' = TRUE
  /\ RecvMarkClosed(IsFin /\ ~RBufReady, readable)
  /\ UNCHANGED <<rbufVars, connVars, ctlVars, told, conn_error>>

\* The endpoint handles the StreamClosed event: stream_destroy.
RecvDestroy ==
  /\ recv_phase = "closed"
  /\ recv_phase' = "destroyed"
  /\ UNCHANGED <<rbufVars, connVars, ctlVars, readable, send_done, told,
                 conn_error>>

RecvNext ==
  \/ \E off, end \in 0..MaxRecv, fin \in BOOLEAN :
        off <= end /\ StreamFrameReceived(off, end, fin)
  \/ \E end \in 0..MaxRecv, fin \in BOOLEAN : StreamFrameRejected(end, fin)
  \/ \E cap \in 1..MaxRecv : StreamRead(cap)
  \/ StreamReadReset
  \/ \E final \in 0..MaxRecv : ResetFrameReceived(final)
  \/ \E final \in 0..MaxRecv : ResetFrameRejected(final)
  \/ ShutdownRead
  \/ \E tuned \in Window..MaxWindow :
        SendMaxStreamData(tuned) \/ NoRoomForMaxStreamData(tuned)
  \/ SkipMaxStreamData
  \/ MaxStreamDataLost
  \/ \E tuned \in 0..(MaxConnWindow + MaxWindow * 2) :
        SendMaxData(tuned) \/ NoRoomForMaxData(tuned)
  \/ MaxDataLost
  \/ SendStopSending
  \/ StopSendingLost
  \/ SendHalfDone
  \/ RecvDestroy

RecvSpec == RecvInit /\ [][RecvNext]_recvVars

-----------------------------------------------------------------------------
(* Properties.                                                             *)

ConnTypeOK ==
  /\ conn_recv \in Nat /\ conn_read \in Nat
  /\ conn_max \in Nat /\ conn_window \in Nat /\ rx_almost_full \in BOOLEAN

ListTypeOK ==
  /\ readable \in BOOLEAN /\ almost_full \in BOOLEAN /\ stop \in BOOLEAN
  /\ ctl_sent \in SUBSET {"max_stream_data", "max_data", "stop_sending"}
  /\ recv_phase \in {"open", "closed", "destroyed"}
  /\ send_done \in BOOLEAN
  /\ told \in {"", "fin", "reset"}
  /\ conn_error \in {"", "FlowControlError", "FinalSizeError"}

RecvTypeOK == RBufTypeOK /\ ConnTypeOK /\ ListTypeOK

\* What is buffered is unread, received, within the limit promised to the peer
\* and below the final size, and the empty FIN chunk sits behind all of it
\* (RecvBuf::write after any mix of duplicates, gaps, resets and shutdowns).
BufferSound ==
  /\ buffered \subseteq read_off..(recv_off - 1)
  /\ recv_off <= recv_max
  /\ recv_fin # NoOff => recv_off <= recv_fin
  /\ fin_chunk => recv_fin # NoOff /\ recv_fin - 1 \notin buffered

\* A stream with data, a FIN or an error to collect is in the `readable` list
\* until it closes, so the application is called for it (the `!was_readable`
\* tests of mod.rs).
ReadyIsListed == RBufReady /\ recv_phase = "open" => readable

\* A stream that closes has given back all the connection credit it took: no
\* sequence of reads, shutdown, late data and reset leaks connection-level
\* window.
CreditReturned == recv_phase # "open" => conn_read >= recv_off

\* Closing loses no data: a closed stream has reached its final size with
\* nothing unread, and stays there although frames still arrive for it until the
\* endpoint destroys it.
ClosedIsRead == recv_phase # "open" => RecvIsComplete /\ buffered = {}

\* A limit once promised to the peer is never taken back, although the windows
\* are retuned and MAX_STREAM_DATA and MAX_DATA are sent again after a loss.
LimitNeverShrinks == [][recv_max' >= recv_max /\ conn_max' >= conn_max]_recvVars

\* No window runs dry unnoticed: whenever less than half of the stream's or of the
\* connection's window is left, as should_send_max_data computes it (the difference
\* for the connection may wrap), the frame that extends it is due. The reads, the
\* shutdown, late frames and resets each have to notice it (mod.rs, every
\* should_send_max_data).
CreditIsDue ==
  /\ ShouldSendMaxData => almost_full
  /\ ConnShouldSend => rx_almost_full

\* What the offsets and windows owe each other: reading never passes what was
\* received, the connection counts at least what the stream has read as consumed,
\* and no limit was promised beyond the window.
OffsetsInOrder ==
  /\ read_off <= recv_off
  /\ read_off <= conn_read
  /\ window <= MaxWindow
  /\ recv_max <= consumed + window

\* The inductive invariant of the receiving half.
RecvInv ==
  /\ RecvTypeOK /\ OffsetsInOrder /\ BufferSound
  /\ ReadyIsListed /\ ClosedIsRead /\ CreditIsDue
=============================================================================
