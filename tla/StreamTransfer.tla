---------------------------- MODULE StreamTransfer ----------------------------
(***************************************************************************)
(* One unidirectional stream between two endpoints of this implementation: *)
(* the sending half at its initiator (StreamSend), the receiving half at   *)
(* the peer (StreamRecv), and packets that are delayed, reordered, dropped *)
(* or wrongly deemed lost. Each packet carries one frame. A packet arrives *)
(* at most once (duplicates are discarded by packet number), possibly long *)
(* after its sender gave it up.                                            *)
(***************************************************************************)
EXTENDS StreamSend, StreamRecv

CONSTANTS MaxCtl,       \* bound: packets of the receiver
          MaxLoss,      \* bound: drops, spurious losses and probes together
          MayReset,     \* the sender may abandon the stream
          MayStop       \* the receiver may shut its side down

\* The two halves are those of one stream, the only one of its connection: the
\* receiver's window is the sender's first limit. The connection may have one and a
\* half times the largest window of a stream, as in the default configuration;
\* otherwise autotuning would take back what ensure_window_lower_bound granted, and
\* MAX_DATA with it.
ASSUME TransferConstants ==
  /\ MaxCtl \in Nat /\ MaxLoss \in Nat
  /\ MayReset \in BOOLEAN /\ MayStop \in BOOLEAN
  /\ InitMaxData = Window /\ MaxRecv = MaxOff
  /\ (MaxWindow * 3) \div 2 <= MaxConnWindow
  /\ IsBidi = FALSE /\ RecvBidi = FALSE
  /\ NoOff = None

VARIABLES
  wire,         \* frames on their way to the receiver
  got,          \* packet numbers the receiver has, and acknowledges
  ctl_flight,   \* control frames of the receiver not declared lost
  ctl_wire,     \* control frames on their way to the sender
  ctl_next,     \* next packet number of the receiver
  tx_max,       \* the sender's send_capacity.max_data
  losses,       \* drops, spurious losses and probes so far
  finished      \* the sender's application has finished the stream

ctlNetVars == <<ctl_flight, ctl_wire, ctl_next>>
trVars == <<vars, recvVars, wire, got, ctlNetVars, tx_max, losses, finished>>

TrInit ==
  /\ Init /\ RecvInit
  /\ wire = {} /\ got = {}
  /\ ctl_flight = {} /\ ctl_wire = {} /\ ctl_next = 0
  /\ tx_max = ConnWindow
  /\ losses = 0 /\ finished = FALSE

\* A connection error ends the connection, and the stream with it.
Connected == conn_error = ""

Adverse == losses < MaxLoss /\ losses' = losses + 1

-----------------------------------------------------------------------------
(* The sender. Its application writes until it finishes or abandons. With  *)
(* one stream, send_capacity.tx_data is the stream's write_off.            *)

AppWrite(n, fin) ==
  /\ fin_off = None
  /\ StreamWrite(n, fin, tx_max - write_off)
  /\ finished' = (fin_off' # None)
  /\ UNCHANGED <<recvVars, wire, got, ctlNetVars, tx_max, losses>>

AppReset ==
  /\ MayReset
  /\ ShutdownWrite
  /\ UNCHANGED <<recvVars, wire, got, ctlNetVars, tx_max, losses, finished>>

Transmit ==
  /\ SendResetFrame \/ \E room \in 1..MaxOff : SendStreamFrame(room)
  /\ wire' = wire \cup (flight' \ flight)
  /\ UNCHANGED <<recvVars, got, ctlNetVars, tx_max, losses, finished>>

Skip == SkipStreamFrame /\ UNCHANGED <<recvVars, wire, got, ctlNetVars, tx_max, losses, finished>>

SenderDestroy == StreamDestroy /\ UNCHANGED <<recvVars, wire, got, ctlNetVars, tx_max, losses, finished>>

\* The receiver's acknowledgement of a packet arrives.
Acked(f) ==
  /\ f.pn \in got
  /\ StreamFrameAcked(f) \/ ResetFrameAcked(f)
  /\ UNCHANGED <<recvVars, wire, got, ctlNetVars, tx_max, losses, finished>>

\* A packet is declared lost, rightly, or while it or its acknowledgement is
\* merely late.
Lost(f) ==
  /\ IF f \in wire \/ f.pn \in got THEN Adverse ELSE UNCHANGED losses
  /\ StreamFrameLost(f, FALSE) \/ ResetFrameLost(f, FALSE)
  /\ UNCHANGED <<recvVars, wire, got, ctlNetVars, tx_max, finished>>

\* A probe timeout re-queues the frames of an outstanding packet.
Probe(f) ==
  /\ Adverse
  /\ StreamFrameLost(f, TRUE) \/ ResetFrameLost(f, TRUE)
  /\ UNCHANGED <<recvVars, wire, got, ctlNetVars, tx_max, finished>>

-----------------------------------------------------------------------------
(* The network, and the receiver.                                          *)

Deliver(f) ==
  /\ IF ~Live THEN UNCHANGED recvVars
     ELSE IF f.kind = "stream"
          THEN \/ StreamFrameReceived(f.off, f.end, f.fin)
               \/ StreamFrameRejected(f.end, f.fin)
          ELSE \/ ResetFrameReceived(f.end)
               \/ ResetFrameRejected(f.end)
  /\ wire' = wire \ {f}
  /\ got' = got \cup {f.pn}
  /\ UNCHANGED <<vars, ctlNetVars, tx_max, losses, finished>>

Drop(f) ==
  /\ Adverse
  /\ wire' = wire \ {f}
  /\ UNCHANGED <<vars, recvVars, got, ctlNetVars, tx_max, finished>>

AppRead ==
  /\ StreamReadReset \/ \E cap \in 1..MaxOff : StreamRead(cap)
  /\ UNCHANGED <<vars, wire, got, ctlNetVars, tx_max, losses, finished>>

AppStop ==
  /\ MayStop
  /\ ShutdownRead
  /\ UNCHANGED <<vars, wire, got, ctlNetVars, tx_max, losses, finished>>

ReceiverDestroy ==
  RecvDestroy /\ UNCHANGED <<vars, wire, got, ctlNetVars, tx_max, losses, finished>>

SendCtl(kind, value) ==
  LET c == [pn |-> ctl_next, kind |-> kind, value |-> value]
  IN /\ ctl_next < MaxCtl
     /\ ctl_flight' = ctl_flight \cup {c}
     /\ ctl_wire' = ctl_wire \cup {c}
     /\ ctl_next' = ctl_next + 1

\* try_write_stream_control_frames(): a window may be tuned before its limit is
\* sent, and stays tuned when the frame does not fit.
TransmitCtl ==
  /\ \/ \E tuned \in TunedWindows :
           \/ SendMaxStreamData(tuned) /\ SendCtl("max_stream_data", recv_max')
           \/ NoRoomForMaxStreamData(tuned) /\ UNCHANGED ctlNetVars
     \/ \E tuned \in TunedConnWindows :
           \/ SendMaxData(tuned) /\ SendCtl("max_data", conn_max')
           \/ NoRoomForMaxData(tuned) /\ UNCHANGED ctlNetVars
     \/ SendStopSending /\ SendCtl("stop_sending", 0)
     \/ SkipMaxStreamData /\ UNCHANGED ctlNetVars
  /\ UNCHANGED <<vars, wire, got, tx_max, losses, finished>>

\* on_max_data_frame_received; the stream's frames are handled by StreamSend.
MaxDataReceived(limit) ==
  /\ tx_max' = IF limit > tx_max THEN limit ELSE tx_max
  /\ UNCHANGED vars

DeliverCtl(c) ==
  /\ \/ c.kind = "max_data" /\ MaxDataReceived(c.value)
     \/ /\ \/ c.kind = "max_stream_data" /\ MaxStreamDataReceived(c.value)
           \/ c.kind = "stop_sending" /\ StopSendingReceived
           \/ /\ phase = "destroyed" \/ (c.kind = "stop_sending" /\ stopped)
              /\ c.kind # "max_data"
              /\ UNCHANGED vars
        /\ UNCHANGED tx_max
  /\ ctl_wire' = ctl_wire \ {c}
  /\ UNCHANGED <<recvVars, wire, got, ctl_flight, ctl_next, losses, finished>>

\* A control frame is dropped, or it or its acknowledgement is late, and it is
\* declared lost, once. (Its acknowledgement, which changes nothing else, is left
\* out: a frame that is never declared lost stands for one acknowledged.)
CtlLost(c, dropped) ==
  /\ Adverse
  /\ \/ c.kind = "max_stream_data" /\ MaxStreamDataLost
     \/ c.kind = "max_data" /\ MaxDataLost
     \/ c.kind = "stop_sending" /\ StopSendingLost
     \/ c.kind # "max_data" /\ ~Live /\ UNCHANGED recvVars
  /\ ctl_flight' = ctl_flight \ {c}
  /\ ctl_wire' = IF dropped THEN ctl_wire \ {c} ELSE ctl_wire
  /\ UNCHANGED <<vars, wire, got, ctl_next, tx_max, finished>>

-----------------------------------------------------------------------------
App ==
  \/ \E n \in 0..MaxOff, fin \in BOOLEAN : AppWrite(n, fin)
  \/ AppReset
  \/ AppStop

Steps ==
  \/ Transmit
  \/ Skip
  \/ SenderDestroy
  \/ \E f \in flight : Acked(f)
  \/ \E f \in flight : Lost(f)
  \/ \E f \in flight : Probe(f)
  \/ \E f \in wire : Deliver(f)
  \/ \E f \in wire : Drop(f)
  \/ AppRead
  \/ ReceiverDestroy
  \/ TransmitCtl
  \/ \E c \in ctl_wire : DeliverCtl(c)
  \/ \E c \in ctl_flight, dropped \in BOOLEAN : CtlLost(c, dropped)

TrNext == Connected /\ (App \/ Steps)

TrSpec == TrInit /\ [][TrNext]_trVars

(***************************************************************************)
(* The endpoint's event loop runs as long as there is something to send,   *)
(* to destroy or to tell the application, the peer acknowledges what       *)
(* arrives, and a timer declares lost what does not; the network delivers  *)
(* what it does not drop. Since MaxLoss bounds what goes wrong, weak       *)
(* fairness is enough. Nothing obliges the application to write, to reset  *)
(* or to stop; it reads when it is called.                                 *)
(***************************************************************************)
Fairness ==
  /\ WF_trVars(Transmit)
  /\ WF_trVars(Skip)
  /\ WF_trVars(SenderDestroy)
  /\ WF_trVars(\E f \in flight : Acked(f))
  /\ WF_trVars(\E f \in flight : f \notin wire /\ f.pn \notin got /\ Lost(f))
  /\ WF_trVars(\E f \in wire : Deliver(f))
  /\ WF_trVars(AppRead)
  /\ WF_trVars(ReceiverDestroy)
  /\ WF_trVars(TransmitCtl)
  /\ WF_trVars(\E c \in ctl_wire : DeliverCtl(c))

FairSpec == TrSpec /\ Fairness

-----------------------------------------------------------------------------
(* Properties.                                                             *)

TrTypeOK ==
  /\ TypeOK /\ RecvTypeOK
  /\ wire \subseteq FrameType
  /\ got \subseteq 0..(MaxFrames - 1)
  /\ ctl_wire \subseteq [pn : Nat, kind : {"max_stream_data", "max_data", "stop_sending"},
                   value : Nat]
  /\ losses \in 0..MaxLoss /\ finished \in BOOLEAN

\* What the sender drops from its buffer as acknowledged has reached the peer:
\* the byte is buffered there, was read, or was discarded on purpose.
AckedIsReceived ==
  ~shutdown /\ ~stopped =>
    \A o \in acked : o < read_off \/ o \in buffered \/ recv_shutdown

\* Over the one stream of their connection, two endpoints of this implementation
\* accuse each other of nothing they did not miscount themselves: no order of retransmissions, limit updates, FIN, reset and
\* STOP_SENDING makes the receiver report FINAL_SIZE_ERROR, or FLOW_CONTROL_ERROR
\* while the connection has counted as received what the stream has.
\* (on_stream_frame_received counts an empty frame beyond recv_off, which
\* RecvBuf::write does not take, and counts it again when its bytes arrive.)
ErrorIsMiscount ==
  Connected \/ (conn_error = "FlowControlError" /\ recv_off < conn_recv)

\* Everything written is read, unless one side abandons the stream: no loss of
\* data, however its retransmission is split, leaves a byte behind.
AllBytesRead ==
  \A n \in 1..MaxOff :
    write_off >= n ~> read_off >= n \/ shutdown \/ recv_shutdown

\* A writer that has used up the stream's credit gets more: sender and receiver
\* never wait for each other, although MAX_STREAM_DATA is sent once per half window
\* and may be lost (FlowControl::should_send_max_data,
\* on_max_stream_data_frame_lost).
WriterGetsCredit ==
  write_off = max_data /\ fin_off = None
    ~> write_off < max_data \/ fin_off # None \/ recv_shutdown

\* The same for the connection's credit. (mod.rs on on_max_data_frame_lost: "mark
\* the receive-side flow control of the connection is almost full to ensure a
\* MAX_DATA frame will be sent".)
ConnWriterGetsCredit ==
  write_off = tx_max /\ fin_off = None
    ~> write_off < tx_max \/ fin_off # None

\* The FIN of a finished stream arrives. (send.rs: "Application data sent in
\* STREAM frames is retransmitted in new STREAM frames unless the endpoint has
\* sent a RESET_STREAM for that stream"; stream/tests.rs: "Retransmit empty data
\* with fin".)
FinIsReceived == finished ~> recv_fin # None \/ shutdown \/ recv_shutdown

\* The application that reads is told of the end. (direct_stream.rs on read():
\* "or `Ok(None)` if the stream has been fully received (FIN)".)
EndIsReported ==
  recv_fin # None ~> told # "" \/ recv_shutdown

-----------------------------------------------------------------------------
(* The inductive invariant of the transfer.                                *)

\* A packet number stands for one packet, and a packet arrives at most once.
PacketsDistinct ==
  /\ got \in SUBSET Nat /\ \A n \in got : n < next_pn
  /\ \A f \in wire \cup flight : f.pn < next_pn
  /\ \A f, g \in wire \cup flight : f.pn = g.pn => f = g
  /\ \A f \in wire : f.pn \notin got

\* What is on its way was sent, and announces the one final size; also when the
\* sender has given the packet up.
WireSound ==
  /\ wire \in SUBSET FrameType
  /\ \A f \in wire : /\ f.off <= f.end /\ f.end <= unsent_off
                     /\ f.fin \/ f.kind = "reset" => f.end = fin_off

\* What was received was sent, the final size it ended with is the sender's, and
\* the connection has counted all of it.
ReceivedIsSent ==
  /\ recv_off <= unsent_off /\ recv_off <= conn_recv
  /\ recv_fin # None => recv_fin = fin_off /\ recv_fin = unsent_off
  /\ recv_error => recv_fin = read_off

\* No limit the sender has, or is about to get, is above what the receiver grants.
LimitsAgree ==
  /\ max_data <= recv_max
  /\ tx_max \in Nat /\ write_off <= tx_max /\ tx_max <= conn_max
  /\ \A c \in ctl_wire : /\ c.value \in Nat
                         /\ c.kind = "max_stream_data" => c.value <= recv_max
                         /\ c.kind = "max_data" => c.value <= conn_max

\* The byte at offset o is with the receiver, was read, or is not wanted any more.
Arrived(o) == o < read_off \/ o \in buffered \/ recv_shutdown

\* The bytes of a packet that the receiver has, and so acknowledges, have arrived.
GotIsReceived ==
  Connected =>
    \A f \in flight : f.kind = "stream" /\ f.pn \in got => \A o \in Bytes(f.off, f.end) : Arrived(o)

\* The connection's window never passes its largest, so that autotuning does not
\* take back what MAX_DATA promised.
ConnWindowBounded == conn_window <= MaxConnWindow

\* Each half keeps its own invariant; the rest says how they agree.
TrInv ==
  /\ Inv /\ RecvInv
  /\ PacketsDistinct /\ WireSound /\ ReceivedIsSent /\ LimitsAgree /\ GotIsReceived
  /\ AckedIsReceived /\ ErrorIsMiscount
=============================================================================
