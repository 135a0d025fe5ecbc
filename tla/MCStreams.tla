----------------------------- MODULE MCStreams ------------------------------
(* Small instances of the two halves of a stream (StreamSend, StreamRecv) and *)
(* of the chunk queues that implement the send and the receive buffer         *)
(* (SendChunks and RecvChunks). A behaviour is one of one of them; the others *)
(* rest in their initial state.                                               *)
EXTENDS StreamSend, StreamRecv

CONSTANTS Parts,
  RcMaxOff, RcWindow, RcMaxWindow, ScMaxOff, ScInitMaxData, ChunkSize
VARIABLES part,
  rc_data, rc_read_off, rc_recv_off, rc_fin, rc_error, rc_shutdown, rc_max, rc_consumed, rc_window,
  sc_data, sc_pos, sc_write_off, sc_unsent_off, sc_unacked_len, sc_max, sc_fin, sc_shutdown,
  sc_stopped, sc_acked, sc_rtx, sc_spinning

rcVars == <<rc_data, rc_read_off, rc_recv_off, rc_fin, rc_error, rc_shutdown, rc_max,
            rc_consumed, rc_window>>
scVars == <<sc_data, sc_pos, sc_write_off, sc_unsent_off, sc_unacked_len, sc_max, sc_fin,
            sc_shutdown, sc_stopped, sc_acked, sc_rtx, sc_spinning>>

RC == INSTANCE RecvChunks WITH
  MaxRecv <- RcMaxOff, Window <- RcWindow, MaxWindow <- RcMaxWindow,
  data <- rc_data, read_off <- rc_read_off, recv_off <- rc_recv_off, recv_fin <- rc_fin,
  recv_error <- rc_error, recv_shutdown <- rc_shutdown, recv_max <- rc_max,
  consumed <- rc_consumed, window <- rc_window
SC == INSTANCE SendChunks WITH
  MaxOff <- ScMaxOff, InitMaxData <- ScInitMaxData, data <- sc_data, pos <- sc_pos,
  write_off <- sc_write_off, unsent_off <- sc_unsent_off, unacked_len <- sc_unacked_len,
  max_data <- sc_max, fin_off <- sc_fin, shutdown <- sc_shutdown, stopped <- sc_stopped,
  acked <- sc_acked, retransmits <- sc_rtx, spinning <- sc_spinning

MCInit ==
  /\ part \in Parts
  /\ Init /\ RecvInit /\ RC!Init /\ SC!Init
MCNext ==
  /\ UNCHANGED part
  /\ \/ part = "send" /\ Next /\ UNCHANGED <<recvVars, rcVars, scVars>>
     \/ part = "recv" /\ RecvNext /\ UNCHANGED <<vars, rcVars, scVars>>
     \/ part = "recv_chunks" /\ RC!Next /\ UNCHANGED <<vars, recvVars, scVars>>
     \/ part = "send_chunks" /\ SC!Next /\ UNCHANGED <<vars, recvVars, rcVars>>
MCSpec == MCInit /\ [][MCNext]_<<part, vars, recvVars, rcVars, scVars>>

\* RecvBuf of recv_buf.rs: its map of chunks implements the set of buffered
\* offsets (RecvChunks).
ImplementsRecvBuf == RC!ImplementsRecvBuf

\* SendBuf of send_buf.rs: its queue of chunks implements the send buffer, and
\* read() never looks for a byte that its cursor has passed (SendChunks).
ImplementsSendBuf == SC!ImplementsSendBuf
=============================================================================
