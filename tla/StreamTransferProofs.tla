------------------------- MODULE StreamTransferProofs -------------------------
(***************************************************************************)
(* Proofs about the two halves of a stream joined by a network: TrInv is   *)
(* inductive, so that what is acknowledged has arrived and no endpoint     *)
(* accuses the other of more than it miscounted.                           *)
(***************************************************************************)
EXTENDS StreamTransfer, StreamSendProofs, StreamRecvProofs

-----------------------------------------------------------------------------
(* What follows from the invariant, with the numbers it is about.          *)

\* The order of the offsets of both halves.
LEMMA OffsetsOfBoth ==
  ASSUME TrInv
  PROVE  /\ write_off \in Nat /\ unsent_off \in Nat /\ max_data \in Nat /\ next_pn \in Nat
         /\ fin_off \in Nat \cup {None} /\ None \notin Nat /\ NoOff = None
         /\ unsent_off <= write_off /\ write_off <= max_data
         /\ fin_off # None => fin_off = write_off
         /\ acked \in SUBSET Nat /\ \A o \in acked : o < unsent_off
         /\ read_off \in Nat /\ recv_off \in Nat /\ recv_max \in Nat
         /\ conn_recv \in Nat /\ conn_max \in Nat
<1>1. BufInv /\ next_pn \in Nat /\ RecvTypeOK
  BY DEF TrInv, Inv, TypeOK, RecvInv
<1>2. /\ write_off \in Nat /\ unsent_off \in Nat /\ max_data \in Nat
      /\ fin_off \in Nat \cup {None}
      /\ unsent_off <= write_off /\ write_off <= max_data
      /\ fin_off # None => fin_off = write_off
      /\ acked \in SUBSET Nat /\ acked \subseteq Bytes(0, unsent_off)
  BY <1>1 DEF BufInv, BufTypeOK
<1>3. \A o \in acked : o < unsent_off
  BY <1>2 DEF Bytes
<1> QED BY <1>1, <1>2, <1>3, RecvNumbers, SendBufConstants, TransferConstants

\* A frame on its way or outstanding lies below what was sent; the one final size
\* that a FIN or a reset announces is all that was and will be sent.
LEMMA FramesOfBoth ==
  ASSUME TrInv, NEW f \in wire \cup flight
  PROVE  /\ f \in FrameType /\ f.pn \in Nat /\ f.off \in Nat /\ f.end \in Nat
         /\ f.kind \in {"stream", "reset"} /\ f.fin \in BOOLEAN
         /\ f.off <= f.end /\ f.end <= unsent_off
         /\ f.fin \/ f.kind = "reset" => f.end = fin_off /\ f.end = unsent_off
<1>1. f \in FrameType
  BY DEF TrInv, WireSound, Inv, TypeOK
<1>2. /\ f.off <= f.end /\ f.end <= unsent_off
      /\ f.fin \/ f.kind = "reset" => f.end = fin_off
  BY DEF TrInv, WireSound, Inv, FramesSound, FinalSizeAgrees
<1>3. /\ f.pn \in Nat /\ f.off \in Nat /\ f.end \in Nat
      /\ f.kind \in {"stream", "reset"} /\ f.fin \in BOOLEAN
  BY <1>1 DEF FrameType
<1>4. f.end = fin_off => f.end = unsent_off
  BY <1>2, <1>3, OffsetsOfBoth
<1> QED BY <1>1, <1>2, <1>3, <1>4

\* An offset between two equal ones equals them.
LEMMA Squeezed ==
  ASSUME NEW a \in Nat, NEW b \in Nat, NEW c \in Nat, a <= b, b <= c, c = a
  PROVE  b = a
OBVIOUS

\* An equal number is no smaller.
LEMMA SameNat ==
  ASSUME NEW a \in Nat, NEW b, b = a
  PROVE  a <= b /\ b <= a /\ b \in Nat
OBVIOUS

\* Below a larger bound.
LEMMA Below ==
  ASSUME NEW a \in Nat, NEW b \in Nat, NEW c \in Nat, a <= b, b <= c
  PROVE  a <= c
OBVIOUS

-----------------------------------------------------------------------------
(* Steps of the sender.                                                    *)

\* What a step of the sender keeps of what the receiver relies on: it sends on, it
\* keeps a final size it has announced, and it does not come back from a reset.
SenderKeeps ==
  /\ unsent_off <= unsent_off'
  /\ fin_off # None /\ fin_off = unsent_off => fin_off' = fin_off
  /\ shutdown \/ stopped => shutdown' \/ stopped'

\* A step of the sender that keeps this, with at most one fresh packet, preserves
\* the invariant of the transfer.
LEMMA SenderStepInv ==
  ASSUME TrInv, Inv', SenderKeeps, UNCHANGED recvVars, got' = got,
         ctl_wire' \subseteq ctl_wire,
         tx_max' \in Nat, write_off' <= tx_max', tx_max' <= conn_max, max_data' <= recv_max,
         NEW Fresh, \A f \in Fresh : f \in flight' /\ f.pn = next_pn /\ next_pn' = next_pn + 1,
         \A f, g \in Fresh : f = g,
         next_pn' = next_pn \/ next_pn' = next_pn + 1,
         flight' \subseteq flight \cup Fresh, wire' \subseteq wire \cup Fresh,
         \A o \in acked' : o \in acked \/ Arrived(o) \/ shutdown' \/ stopped'
  PROVE  TrInv'
<1>1. RecvInv'
  BY RecvNextInv DEF TrInv
<1>2. /\ UNCHANGED <<buffered, read_off, recv_off, recv_fin, recv_error, recv_shutdown, recv_max>>
      /\ UNCHANGED <<conn_recv, conn_max, conn_error>>
  BY DEF recvVars, rbufVars, dataVars, limitVars, connVars
<1>3. /\ PacketsDistinct /\ WireSound /\ ReceivedIsSent /\ LimitsAgree /\ GotIsReceived
      /\ AckedIsReceived /\ ErrorIsMiscount
  BY DEF TrInv
<1>4. /\ BufInv' /\ unsent_off' \in Nat /\ write_off' \in Nat /\ fin_off' \in Nat \cup {None}
      /\ unsent_off' <= write_off' /\ (fin_off' # None => fin_off' = write_off')
      /\ next_pn' \in Nat
  BY DEF Inv, BufInv, BufTypeOK, TypeOK
<1>5. ASSUME NEW f \in Fresh
      PROVE  /\ f \in FrameType /\ f.off <= f.end /\ f.end <= unsent_off'
             /\ f.fin \/ f.kind = "reset" => f.end = fin_off'
  BY <1>5 DEF Inv, FramesSound, FinalSizeAgrees, TypeOK
<1>6. fin_off # None /\ fin_off = unsent_off => fin_off' = fin_off /\ unsent_off' = unsent_off
  <2> SUFFICES ASSUME fin_off # None, fin_off = unsent_off
               PROVE  fin_off' = fin_off /\ unsent_off' = unsent_off
    OBVIOUS
  <2>1. fin_off' = fin_off /\ unsent_off <= unsent_off' /\ unsent_off \in Nat /\ fin_off # None
    BY OffsetsOfBoth DEF SenderKeeps
  <2>2. write_off' = unsent_off /\ unsent_off' <= write_off'
    BY <1>4, <2>1
  <2> QED BY <1>4, <2>1, <2>2, Squeezed
<1>7. PacketsDistinct'
  <2>1. /\ got \in SUBSET Nat /\ \A n \in got : n < next_pn
        /\ \A f \in wire \cup flight : f.pn < next_pn /\ f.pn \in Nat
        /\ \A f, g \in wire \cup flight : f.pn = g.pn => f = g
        /\ \A f \in wire : f.pn \notin got
        /\ next_pn \in Nat
    BY <1>3, OffsetsOfBoth, FramesOfBoth DEF PacketsDistinct
  <2>2. \A n \in got' : n < next_pn'
    BY <2>1
  <2>3. \A f \in wire' \cup flight' : f \in wire \cup flight \/ f \in Fresh
    OBVIOUS
  <2>4. \A f \in wire' \cup flight' : f.pn < next_pn'
    BY <2>1, <2>3
  <2>5. ASSUME NEW f \in wire' \cup flight', NEW g \in wire' \cup flight', f.pn = g.pn
        PROVE  f = g
    <3>1. CASE f \in wire \cup flight /\ g \in wire \cup flight
      BY <2>1, <2>5, <3>1
    <3>2. CASE f \in Fresh /\ g \in Fresh
      BY <3>2
    <3>3. CASE f \in Fresh /\ g \in wire \cup flight
      BY <2>1, <2>5, <3>3
    <3>4. CASE g \in Fresh /\ f \in wire \cup flight
      BY <2>1, <2>5, <3>4
    <3> QED BY <2>3, <3>1, <3>2, <3>3, <3>4
  <2>6. ASSUME NEW f \in wire' PROVE f.pn \notin got'
    <3>1. CASE f \in wire
      BY <2>1, <3>1
    <3>2. CASE f \in Fresh
      BY <2>1, <3>2
    <3> QED BY <3>1, <3>2
  <2> QED BY <2>1, <2>2, <2>4, <2>5, <2>6 DEF PacketsDistinct
<1>8. WireSound'
  <2>1. ASSUME NEW f \in wire
        PROVE  /\ f \in FrameType /\ f.off <= f.end /\ f.end <= unsent_off'
               /\ f.fin \/ f.kind = "reset" => f.end = fin_off'
    <3>1. /\ f \in FrameType /\ f.off <= f.end /\ f.end <= unsent_off /\ f.end \in Nat
          /\ f.fin \/ f.kind = "reset" => f.end = fin_off /\ f.end = unsent_off
      BY FramesOfBoth
    <3>2. f.end <= unsent_off'
      BY <1>4, <3>1, OffsetsOfBoth, Below DEF SenderKeeps
    <3>3. f.fin \/ f.kind = "reset" => f.end = fin_off'
      BY <1>6, <3>1, OffsetsOfBoth
    <3> QED BY <3>1, <3>2, <3>3
  <2> QED BY <1>5, <2>1 DEF WireSound
<1>9. ReceivedIsSent'
  <2>1. recv_off <= unsent_off'
    BY <1>3, <1>4, OffsetsOfBoth, Below DEF ReceivedIsSent, SenderKeeps
  <2>2. recv_fin # None => recv_fin = fin_off' /\ recv_fin = unsent_off'
    BY <1>3, <1>6 DEF ReceivedIsSent
  <2> QED BY <1>2, <1>3, <2>1, <2>2 DEF ReceivedIsSent
<1>10. LimitsAgree'
  BY <1>2, <1>3 DEF LimitsAgree
<1>11. GotIsReceived'
  <2> SUFFICES ASSUME Connected', NEW f \in flight', f.kind = "stream", f.pn \in got',
                      NEW o \in Bytes(f.off, f.end)
               PROVE  Arrived(o)'
    BY DEF GotIsReceived, Bytes
  <2>1. next_pn \in Nat /\ f.pn < next_pn
    BY <1>3, OffsetsOfBoth DEF PacketsDistinct
  <2>2. f.pn # next_pn
    BY <2>1
  <2>3. f \in flight
    BY <2>2
  <2>4. Connected
    BY <1>2, Zenon DEF Connected
  <2>5. Arrived(o)
    BY <1>3, <2>3, <2>4 DEF GotIsReceived
  <2> QED BY <1>2, <2>5 DEF Arrived
<1>12. AckedIsReceived'
  <2> SUFFICES ASSUME ~shutdown', ~stopped', NEW o \in acked'
               PROVE  o < read_off' \/ o \in buffered' \/ recv_shutdown'
    BY DEF AckedIsReceived
  <2>1. ~shutdown /\ ~stopped
    BY DEF SenderKeeps
  <2>2. Arrived(o)
    BY <1>3, <2>1 DEF AckedIsReceived, Arrived
  <2> QED BY <1>2, <2>2 DEF Arrived
<1>13. ErrorIsMiscount'
  BY <1>2, <1>3, Zenon DEF ErrorIsMiscount, Connected
<1> QED BY <1>1, <1>7, <1>8, <1>9, <1>10, <1>11, <1>12, <1>13 DEF TrInv

\* The same without a fresh packet.
LEMMA OldPacketsInv ==
  ASSUME TrInv, Inv', SenderKeeps, UNCHANGED recvVars, got' = got,
         ctl_wire' \subseteq ctl_wire,
         tx_max' \in Nat, write_off' <= tx_max', tx_max' <= conn_max, max_data' <= recv_max,
         next_pn' = next_pn, flight' \subseteq flight, wire' \subseteq wire,
         \A o \in acked' : o \in acked \/ Arrived(o) \/ shutdown' \/ stopped'
  PROVE  TrInv'
<1> DEFINE Fresh == {}
<1>1. /\ \A f \in Fresh : f \in flight' /\ f.pn = next_pn /\ next_pn' = next_pn + 1
      /\ \A f, g \in Fresh : f = g
      /\ flight' \subseteq flight \cup Fresh /\ wire' \subseteq wire \cup Fresh
  OBVIOUS
<1> HIDE DEF Fresh
<1> QED BY <1>1, SenderStepInv

\* A step of the sender without a new packet.
LEMMA QuietSenderInv ==
  ASSUME TrInv, Inv', SenderKeeps, UNCHANGED <<recvVars, wire, got, ctlNetVars, tx_max>>,
         write_off' <= tx_max, max_data' <= recv_max,
         next_pn' = next_pn, flight' \subseteq flight,
         \A o \in acked' : o \in acked \/ Arrived(o) \/ shutdown' \/ stopped'
  PROVE  TrInv'
<1>1. /\ UNCHANGED recvVars /\ got' = got /\ wire' = wire /\ tx_max' = tx_max /\ ctl_wire' = ctl_wire
  BY DEF ctlNetVars
<1>2. tx_max \in Nat /\ tx_max <= conn_max
  BY DEF TrInv, LimitsAgree
<1>3. wire' \subseteq wire /\ ctl_wire' \subseteq ctl_wire
  BY <1>1
<1> QED BY <1>1, <1>2, <1>3, OldPacketsInv

\* stream_write within the credit of the connection.
LEMMA AppWriteInv ==
  ASSUME TrInv, NEW n \in Nat, NEW fin \in BOOLEAN, AppWrite(n, fin)
  PROVE  TrInv'
<1> DEFINE capacity == tx_max - write_off
<1>1. capacity \in Nat /\ tx_max \in Nat /\ write_off \in Nat /\ max_data \in Nat /\ write_off <= max_data
  BY OffsetsOfBoth DEF TrInv, LimitsAgree
<1>2. StreamWrite(n, fin, capacity) /\ fin_off = None
      /\ UNCHANGED <<recvVars, wire, got, ctlNetVars, tx_max>>
  BY DEF AppWrite
<1> HIDE DEF capacity
<1>3. Inv'
  BY <1>1, <1>2, StreamWriteInv DEF TrInv
<1>4. PICK k \in Nat, b \in BOOLEAN : k <= capacity /\ BufWrite(k, b)
  <2>1. CASE n > capacity
    <3>1. BufWrite(capacity, FALSE)
      BY <1>2, <2>1, Zenon DEF StreamWrite
    <3>2. capacity <= capacity
      BY <1>1
    <3> QED BY <1>1, <3>1, <3>2, Zenon
  <2>2. CASE ~(n > capacity)
    <3>1. BufWrite(n, fin)
      BY <1>2, <2>2 DEF StreamWrite
    <3>2. n <= capacity
      BY <1>1, <2>2
    <3> QED BY <3>1, <3>2
  <2> QED BY <2>1, <2>2
<1>5. /\ write_off' = write_off + (IF k > max_data - write_off THEN max_data - write_off ELSE k)
      /\ UNCHANGED <<unsent_off, max_data, shutdown, stopped, acked>>
  BY <1>4 DEF BufWrite
<1>6. write_off' <= tx_max
  BY <1>1, <1>4, <1>5 DEF capacity
<1>7. SenderKeeps
  BY <1>2, <1>5, OffsetsOfBoth DEF SenderKeeps
<1>8. flight' = flight /\ next_pn' = next_pn
  BY <1>2 DEF StreamWrite, netVars
<1>9. max_data' <= recv_max
  BY <1>5 DEF TrInv, LimitsAgree
<1> QED BY <1>2, <1>3, <1>5, <1>6, <1>7, <1>8, <1>9, QuietSenderInv

\* A reset, by the application or on STOP_SENDING: the final size is what was sent.
LEMMA ResetKeeps ==
  ASSUME TrInv, BufReset, shutdown' \/ stopped'
  PROVE  /\ SenderKeeps /\ max_data' = max_data /\ write_off' <= tx_max
<1>1. /\ fin_off' = unsent_off /\ write_off' = unsent_off /\ unsent_off' = unsent_off /\ max_data' = max_data
  BY DEF BufReset
<1>2. unsent_off \in Nat /\ write_off \in Nat /\ tx_max \in Nat /\ unsent_off <= write_off /\ write_off <= tx_max
  BY OffsetsOfBoth DEF TrInv, LimitsAgree
<1> QED BY <1>1, <1>2 DEF SenderKeeps

\* stream_shutdown(Write)
LEMMA AppResetInv ==
  ASSUME TrInv, AppReset
  PROVE  TrInv'
<1>1. /\ ShutdownWrite /\ BufReset /\ shutdown' = TRUE
      /\ UNCHANGED <<recvVars, wire, got, ctlNetVars, tx_max>>
      /\ flight' = flight /\ next_pn' = next_pn
  BY DEF AppReset, ShutdownWrite, BufShutdown, netVars
<1>2. Inv'
  BY <1>1, NextInv DEF TrInv, Next
<1>3. SenderKeeps /\ max_data' <= recv_max /\ write_off' <= tx_max
  BY <1>1, ResetKeeps DEF TrInv, LimitsAgree
<1> QED BY <1>1, <1>2, <1>3, QuietSenderInv

\* The sender forgets a stale entry of its queue, or destroys the closed stream.
LEMMA QuietStepsInv ==
  ASSUME TrInv, Skip \/ SenderDestroy
  PROVE  TrInv'
<1>1. /\ SkipStreamFrame \/ StreamDestroy
      /\ UNCHANGED <<recvVars, wire, got, ctlNetVars, tx_max>>
  BY DEF Skip, SenderDestroy
<1>2. UNCHANGED bufVars /\ flight' = flight /\ next_pn' = next_pn
  BY <1>1 DEF SkipStreamFrame, StreamDestroy, netVars
<1>3. Inv'
  BY <1>1, NextInv DEF TrInv, Next
<1>4. UNCHANGED <<write_off, unsent_off, max_data, fin_off, shutdown, stopped, acked>>
  BY <1>2 DEF bufVars
<1>5. SenderKeeps /\ write_off' <= tx_max /\ max_data' <= recv_max
  BY <1>4, OffsetsOfBoth DEF SenderKeeps, TrInv, LimitsAgree
<1> QED BY <1>1, <1>2, <1>3, <1>4, <1>5, QuietSenderInv

\* The acknowledgement of a packet: its bytes have arrived.
LEMMA AckedInv ==
  ASSUME TrInv, Connected, NEW f \in flight, Acked(f)
  PROVE  TrInv'
<1>1. /\ f.pn \in got
      /\ StreamFrameAcked(f) \/ ResetFrameAcked(f)
      /\ UNCHANGED <<recvVars, wire, got, ctlNetVars, tx_max>>
  BY DEF Acked
<1>2. Inv'
  BY <1>1, NextInv DEF TrInv, Next, FrameFate
<1>3. /\ UNCHANGED <<write_off, unsent_off, max_data, fin_off, shutdown, stopped>>
      /\ flight' \subseteq flight /\ next_pn' = next_pn
      /\ acked' = acked \/ (f.kind = "stream" /\ acked' = acked \cup Bytes(f.off, f.end))
  BY <1>1, Zenon DEF StreamFrameAcked, ResetFrameAcked, AckAndDrop, bufVars
<1>4. f.kind = "stream" => \A o \in Bytes(f.off, f.end) : Arrived(o)
  BY <1>1 DEF TrInv, GotIsReceived
<1>5. SenderKeeps /\ write_off' <= tx_max /\ max_data' <= recv_max
  BY <1>3, OffsetsOfBoth DEF SenderKeeps, TrInv, LimitsAgree
<1>6. \A o \in acked' : o \in acked \/ Arrived(o) \/ shutdown' \/ stopped'
  BY <1>3, <1>4
<1> QED BY <1>1, <1>2, <1>3, <1>5, <1>6, QuietSenderInv

\* A packet is declared lost, or its frames are queued again by a probe timeout.
LEMMA LostInv ==
  ASSUME TrInv, NEW f \in flight, Lost(f) \/ Probe(f)
  PROVE  TrInv'
<1>1. PICK pto \in BOOLEAN : /\ StreamFrameLost(f, pto) \/ ResetFrameLost(f, pto)
                             /\ UNCHANGED <<recvVars, wire, got, ctlNetVars, tx_max>>
  BY Zenon DEF Lost, Probe
<1>2. Inv'
  BY <1>1, NextInv DEF TrInv, Next, FrameFate
<1>3. /\ UNCHANGED <<write_off, unsent_off, max_data, fin_off, shutdown, stopped, acked>>
      /\ flight' \subseteq flight /\ next_pn' = next_pn
  BY <1>1 DEF StreamFrameLost, ResetFrameLost, Retransmit, bufVars
<1>4. SenderKeeps /\ write_off' <= tx_max /\ max_data' <= recv_max
  BY <1>3, OffsetsOfBoth DEF SenderKeeps, TrInv, LimitsAgree
<1> QED BY <1>1, <1>2, <1>3, <1>4, QuietSenderInv

\* A new packet, with a STREAM or a RESET_STREAM frame.
LEMMA TransmitInv ==
  ASSUME TrInv, Transmit
  PROVE  TrInv'
<1>1. /\ SendResetFrame \/ \E room \in 1..MaxOff : SendStreamFrame(room)
      /\ wire' = wire \cup (flight' \ flight)
      /\ UNCHANGED recvVars /\ got' = got /\ ctl_wire' = ctl_wire /\ tx_max' = tx_max
  BY DEF Transmit, ctlNetVars
<1>2. Inv'
  BY <1>1, NextInv DEF TrInv, Next
<1>3. PICK g : flight' = flight \cup {g} /\ g.pn = next_pn /\ next_pn' = next_pn + 1
  <2>1. ASSUME NEW h, Sent(h), h.pn = next_pn
        PROVE  \E g : flight' = flight \cup {g} /\ g.pn = next_pn /\ next_pn' = next_pn + 1
    BY <2>1 DEF Sent
  <2>2. CASE SendResetFrame
    <3> DEFINE h == [pn |-> next_pn, kind |-> "reset", off |-> reset, end |-> reset, fin |-> FALSE]
    <3>1. Sent(h)
      BY <2>2 DEF SendResetFrame
    <3>2. h.pn = next_pn
      OBVIOUS
    <3> QED BY <2>1, <3>1, <3>2
  <2>3. CASE \E room \in 1..MaxOff : SendStreamFrame(room)
    <3>1. PICK room \in 1..MaxOff : SendStreamFrame(room)
      BY <2>3
    <3> DEFINE h == [pn |-> next_pn, kind |-> "stream", off |-> SendOff,
                     end |-> ReadEnd(room), fin |-> fin_off = ReadEnd(room)]
    <3>2. Sent(h)
      BY <3>1 DEF SendStreamFrame
    <3>3. h.pn = next_pn
      OBVIOUS
    <3> QED BY <2>1, <3>2, <3>3
  <2> QED BY <1>1, <2>2, <2>3
<1>4. /\ UNCHANGED <<write_off, max_data, fin_off, shutdown, stopped, acked>>
      /\ unsent_off <= unsent_off'
  <2>1. CASE SendResetFrame
    <3>1. UNCHANGED <<write_off, unsent_off, max_data, fin_off, shutdown, stopped, acked>>
      BY <2>1 DEF SendResetFrame, bufVars
    <3>2. unsent_off \in Nat
      BY OffsetsOfBoth
    <3> QED BY <3>1, <3>2
  <2>2. CASE \E room \in 1..MaxOff : SendStreamFrame(room)
    <3>1. PICK room \in 1..MaxOff : SendStreamFrame(room)
      BY <2>2
    <3>2. /\ UNCHANGED <<write_off, max_data, fin_off, shutdown, stopped, acked>>
          /\ unsent_off' = IF ReadEnd(room) > unsent_off THEN ReadEnd(room) ELSE unsent_off
      BY <3>1 DEF SendStreamFrame, BufRead
    <3>3. ReadEnd(room) \in Nat /\ unsent_off \in Nat
      <4>1. room \in Nat /\ BufInv
        BY SendBufConstants DEF TrInv, Inv
      <4> QED BY <4>1, ReadEndTakesPending, OffsetsOfBoth
    <3> QED BY <3>2, <3>3
  <2> QED BY <1>1, <2>1, <2>2
<1>5. SenderKeeps
  BY <1>4 DEF SenderKeeps
<1>6. /\ tx_max \in Nat /\ write_off' <= tx_max /\ tx_max <= conn_max /\ max_data' <= recv_max
  BY <1>4 DEF TrInv, LimitsAgree
<1> DEFINE Fresh == {g}
<1>7. /\ \A f \in Fresh : f \in flight' /\ f.pn = next_pn /\ next_pn' = next_pn + 1
      /\ \A f, h \in Fresh : f = h
      /\ flight' \subseteq flight \cup Fresh /\ wire' \subseteq wire \cup Fresh
  BY <1>1, <1>3
<1> HIDE DEF Fresh
<1> QED BY <1>1, <1>2, <1>3, <1>4, <1>5, <1>6, <1>7, SenderStepInv

\* A control frame arrives: MAX_DATA, MAX_STREAM_DATA, STOP_SENDING, or one that
\* finds the stream gone or stopped.
LEMMA DeliverCtlInv ==
  ASSUME TrInv, NEW c \in ctl_wire, DeliverCtl(c)
  PROVE  TrInv'
<1>1. /\ UNCHANGED recvVars /\ wire' = wire /\ got' = got /\ ctl_wire' \subseteq ctl_wire
  BY DEF DeliverCtl
<1>2. /\ c.value \in Nat /\ tx_max \in Nat /\ write_off <= tx_max /\ tx_max <= conn_max
      /\ c.kind = "max_stream_data" => c.value <= recv_max
      /\ c.kind = "max_data" => c.value <= conn_max
      /\ max_data <= recv_max
  BY DEF TrInv, LimitsAgree
<1>5. CASE c.kind = "max_data" /\ MaxDataReceived(c.value)
  <2>1. /\ UNCHANGED vars /\ tx_max' = IF c.value > tx_max THEN c.value ELSE tx_max
    BY <1>5 DEF MaxDataReceived
  <2>2. UNCHANGED <<write_off, unsent_off, max_data, fin_off, shutdown, stopped, acked, flight, next_pn>>
    BY <2>1 DEF vars, bufVars, netVars
  <2>3. Inv'
    BY <2>1, NextInv DEF TrInv
  <2>4. tx_max' \in Nat /\ write_off' <= tx_max' /\ tx_max' <= conn_max /\ max_data' <= recv_max
    BY <1>2, <1>5, <2>1, <2>2, OffsetsOfBoth
  <2>5. SenderKeeps
    BY <2>2, OffsetsOfBoth DEF SenderKeeps
  <2> QED BY <1>1, <2>2, <2>3, <2>4, <2>5, OldPacketsInv
<1>6. CASE c.kind = "max_stream_data" /\ MaxStreamDataReceived(c.value) /\ UNCHANGED tx_max
  <2>1. /\ UNCHANGED <<write_off, unsent_off, fin_off, shutdown, stopped, acked, flight, next_pn>>
        /\ max_data' = IF c.value > max_data THEN c.value ELSE max_data
    BY <1>6 DEF MaxStreamDataReceived, UpdateMaxData, netVars
  <2>2. Inv'
    BY <1>2, <1>6, MaxStreamDataReceivedInv DEF TrInv
  <2>3. max_data' <= recv_max /\ write_off' <= tx_max'
    BY <1>2, <1>6, <2>1
  <2>4. SenderKeeps
    BY <2>1, OffsetsOfBoth DEF SenderKeeps
  <2> QED BY <1>1, <1>2, <1>6, <2>1, <2>2, <2>3, <2>4, OldPacketsInv
<1>7. CASE StopSendingReceived /\ UNCHANGED tx_max
  <2>1. BufReset /\ stopped' = TRUE /\ flight' = flight /\ next_pn' = next_pn
    BY <1>7 DEF StopSendingReceived, BufStop, netVars
  <2>2. Inv'
    BY <1>7, NextInv DEF TrInv, Next
  <2>3. SenderKeeps /\ max_data' <= recv_max /\ write_off' <= tx_max'
    BY <1>2, <1>7, <2>1, ResetKeeps
  <2> QED BY <1>1, <1>2, <1>7, <2>1, <2>2, <2>3, OldPacketsInv
<1>8. CASE UNCHANGED vars /\ UNCHANGED tx_max
  <2>2. UNCHANGED <<write_off, unsent_off, max_data, fin_off, shutdown, stopped, acked, flight, next_pn>>
    BY <1>8 DEF vars, bufVars, netVars
  <2>3. Inv'
    BY <1>8, NextInv DEF TrInv
  <2>4. tx_max' \in Nat /\ write_off' <= tx_max' /\ tx_max' <= conn_max /\ max_data' <= recv_max
    BY <1>2, <1>8, <2>2
  <2>5. SenderKeeps
    BY <2>2, OffsetsOfBoth DEF SenderKeeps
  <2> QED BY <1>1, <2>2, <2>3, <2>4, <2>5, OldPacketsInv
<1> QED BY <1>5, <1>6, <1>7, <1>8 DEF DeliverCtl

-----------------------------------------------------------------------------
(* Steps of the receiver and of the network.                               *)

\* A step of the receiver, or of the network, that takes the packets numbered G:
\* it keeps what has arrived and takes back no limit.
LEMMA ReceiverStepInv ==
  ASSUME TrInv, Connected, RecvInv', UNCHANGED vars, tx_max' = tx_max,
         ReceivedIsSent', ErrorIsMiscount',
         recv_max <= recv_max', conn_max <= conn_max',
         \A c \in ctl_wire' : \/ c \in ctl_wire
                              \/ /\ c.value \in Nat
                                 /\ c.kind = "max_stream_data" => c.value <= recv_max'
                                 /\ c.kind = "max_data" => c.value <= conn_max',
         \A o \in Nat : o < unsent_off /\ Arrived(o) => Arrived(o)',
         wire' \subseteq wire,
         NEW G \in SUBSET Nat, got' = got \cup G,
         \A n \in G : n < next_pn,
         \A f \in wire' : f.pn \notin G,
         \A f \in flight : f.kind = "stream" /\ f.pn \in G /\ Connected'
                             => \A o \in Bytes(f.off, f.end) : Arrived(o)'
  PROVE  TrInv'
<1>1. Inv'
  BY NextInv DEF TrInv
<1>2. UNCHANGED <<write_off, unsent_off, max_data, fin_off, shutdown, stopped, acked, flight, next_pn>>
  BY DEF vars, bufVars, netVars
<1>3. /\ PacketsDistinct /\ WireSound /\ LimitsAgree /\ GotIsReceived /\ AckedIsReceived
  BY DEF TrInv
<1>4. recv_max \in Nat /\ conn_max \in Nat /\ max_data \in Nat /\ tx_max \in Nat
      /\ max_data <= recv_max /\ tx_max <= conn_max /\ write_off <= tx_max
  BY <1>3, OffsetsOfBoth DEF LimitsAgree
<1>5. recv_max' \in Nat /\ conn_max' \in Nat
  BY DEF RecvInv, RecvTypeOK, RBufTypeOK, ConnTypeOK
<1>6. PacketsDistinct'
  BY <1>2, <1>3 DEF PacketsDistinct
<1>7. WireSound'
  BY <1>2, <1>3 DEF WireSound
<1>8. LimitsAgree'
  <2>1. max_data' <= recv_max'
    BY <1>2, <1>4, <1>5, Below
  <2>2. tx_max' <= conn_max' /\ tx_max' \in Nat /\ write_off' <= tx_max'
    BY <1>2, <1>4, <1>5, Below
  <2>3. ASSUME NEW c \in ctl_wire'
        PROVE  /\ c.value \in Nat
               /\ c.kind = "max_stream_data" => c.value <= recv_max'
               /\ c.kind = "max_data" => c.value <= conn_max'
    <3>1. CASE c \in ctl_wire
      <4>1. /\ c.kind = "max_stream_data" => c.value <= recv_max
            /\ c.kind = "max_data" => c.value <= conn_max
            /\ c.value \in Nat
        BY <1>3, <3>1 DEF LimitsAgree
      <4> QED BY <1>4, <1>5, <4>1, Below
    <3> QED BY <3>1
  <2> QED BY <2>1, <2>2, <2>3 DEF LimitsAgree
<1>9. GotIsReceived'
  <2> SUFFICES ASSUME Connected', NEW f \in flight', f.kind = "stream", f.pn \in got',
                      NEW o \in Bytes(f.off, f.end)
               PROVE  Arrived(o)'
    BY DEF GotIsReceived, Bytes
  <2>1. f \in flight /\ f.off \in Nat /\ f.end \in Nat /\ f.end <= unsent_off /\ unsent_off \in Nat
    BY <1>2, OffsetsOfBoth, FramesOfBoth
  <2>2. o \in Nat /\ o < unsent_off
    BY <2>1 DEF Bytes
  <2>3. CASE f.pn \in got
    BY <1>3, <2>1, <2>2, <2>3 DEF GotIsReceived
  <2>4. CASE f.pn \in G
    BY <2>1, <2>4
  <2> QED BY <2>3, <2>4
<1>10. AckedIsReceived'
  <2> SUFFICES ASSUME ~shutdown', ~stopped', NEW o \in acked'
               PROVE  o < read_off' \/ o \in buffered' \/ recv_shutdown'
    BY DEF AckedIsReceived
  <2>1. o \in Nat /\ o < unsent_off
    BY <1>2, OffsetsOfBoth
  <2>2. Arrived(o)
    BY <1>2, <1>3 DEF AckedIsReceived, Arrived
  <2>3. Arrived(o)'
    BY <2>1, <2>2
  <2> QED BY <2>3 DEF Arrived
<1> QED BY <1>1, <1>6, <1>7, <1>8, <1>9, <1>10 DEF TrInv

\* The same without a packet.
LEMMA QuietReceiverInv ==
  ASSUME TrInv, Connected, RecvInv', UNCHANGED <<vars, wire, got, tx_max>>,
         ReceivedIsSent', ErrorIsMiscount',
         recv_max <= recv_max', conn_max <= conn_max',
         \A c \in ctl_wire' : \/ c \in ctl_wire
                              \/ /\ c.value \in Nat
                                 /\ c.kind = "max_stream_data" => c.value <= recv_max'
                                 /\ c.kind = "max_data" => c.value <= conn_max',
         \A o \in Nat : o < unsent_off /\ Arrived(o) => Arrived(o)'
  PROVE  TrInv'
<1>1. UNCHANGED vars /\ tx_max' = tx_max /\ wire' \subseteq wire /\ got' = got \cup {}
  OBVIOUS
<1>2. {} \in SUBSET Nat /\ \A n \in {} : n < next_pn
  OBVIOUS
<1>3. \A f \in wire' : f.pn \notin {}
  OBVIOUS
<1>4. \A f \in flight : f.kind = "stream" /\ f.pn \in {} /\ Connected'
                             => \A o \in Bytes(f.off, f.end) : Arrived(o)'
  OBVIOUS
<1> QED BY <1>1, <1>2, <1>3, <1>4, ReceiverStepInv, Zenon

\* A packet is dropped.
LEMMA DropInv ==
  ASSUME TrInv, Connected, NEW f \in wire, Drop(f)
  PROVE  TrInv'
<1>1. /\ wire' \subseteq wire /\ UNCHANGED vars /\ UNCHANGED recvVars /\ got' = got
      /\ ctl_wire' = ctl_wire /\ tx_max' = tx_max
  BY DEF Drop, ctlNetVars
<1>2. UNCHANGED <<write_off, unsent_off, max_data, fin_off, shutdown, stopped, acked, flight, next_pn>>
  BY <1>1 DEF vars, bufVars, netVars
<1>3. Inv'
  BY <1>1, NextInv DEF TrInv
<1>4. SenderKeeps
  BY <1>2, OffsetsOfBoth DEF SenderKeeps
<1>5. /\ tx_max \in Nat /\ write_off <= tx_max /\ tx_max <= conn_max /\ max_data <= recv_max
  BY DEF TrInv, LimitsAgree
<1>6. ctl_wire' \subseteq ctl_wire /\ write_off' <= tx_max' /\ tx_max' <= conn_max /\ max_data' <= recv_max
  BY <1>1, <1>2, <1>5
<1> QED BY <1>1, <1>2, <1>3, <1>4, <1>5, <1>6, OldPacketsInv

\* Without an error the connection goes on.
LEMMA StaysConnected ==
  ASSUME Connected, conn_error' = conn_error
  PROVE  Connected' /\ ErrorIsMiscount'
BY Zenon DEF Connected, ErrorIsMiscount

\* A step that leaves the buffer and the counts of the receiver alone: it sends,
\* loses or forgets a control frame, or destroys the stream.
LEMMA LimitStepInv ==
  ASSUME TrInv, Connected, RecvInv', UNCHANGED <<vars, wire, got, tx_max>>,
         UNCHANGED <<buffered, read_off, recv_off, recv_fin, recv_error, recv_shutdown, conn_recv, conn_error>>,
         recv_max <= recv_max', conn_max <= conn_max',
         \A c \in ctl_wire' : \/ c \in ctl_wire
                              \/ /\ c.value \in Nat
                                 /\ c.kind = "max_stream_data" => c.value <= recv_max'
                                 /\ c.kind = "max_data" => c.value <= conn_max'
  PROVE  TrInv'
<1>1. UNCHANGED <<unsent_off, fin_off>>
  BY DEF vars, bufVars
<1>2. ReceivedIsSent' /\ ErrorIsMiscount'
  BY <1>1, StaysConnected DEF TrInv, ReceivedIsSent
<1>3. \A o \in Nat : o < unsent_off /\ Arrived(o) => Arrived(o)'
  BY DEF Arrived
<1> QED BY <1>2, <1>3, QuietReceiverInv

\* stream_destroy at the receiver
LEMMA ReceiverDestroyInv ==
  ASSUME TrInv, Connected, ReceiverDestroy
  PROVE  TrInv'
<1>1. RecvDestroy /\ UNCHANGED <<vars, wire, got, tx_max>> /\ ctl_wire' = ctl_wire
  BY DEF ReceiverDestroy, ctlNetVars
<1>2. RecvInv'
  BY <1>1, RecvDestroyInv DEF TrInv
<1>3. UNCHANGED rbufVars /\ UNCHANGED <<conn_recv, conn_max, conn_error>>
  BY <1>1 DEF RecvDestroy, connVars
<1>4. UNCHANGED <<buffered, read_off, recv_off, recv_fin, recv_error, recv_shutdown, recv_max>>
  BY <1>3, SameRecvBuffer
<1>5. recv_max <= recv_max' /\ conn_max <= conn_max'
  BY <1>3, <1>4, OffsetsOfBoth
<1> QED BY <1>1, <1>2, <1>3, <1>4, <1>5, LimitStepInv

\* A control frame is declared lost.
LEMMA CtlLostInv ==
  ASSUME TrInv, Connected, NEW c \in ctl_flight, NEW dropped \in BOOLEAN, CtlLost(c, dropped)
  PROVE  TrInv'
<1>1. /\ MaxStreamDataLost \/ MaxDataLost \/ StopSendingLost \/ UNCHANGED recvVars
      /\ UNCHANGED <<vars, wire, got, tx_max>> /\ ctl_wire' \subseteq ctl_wire
  BY DEF CtlLost
<1>2. RecvInv'
  BY <1>1, DueFrameInv, RecvNextInv DEF TrInv
<1>3. UNCHANGED rbufVars /\ UNCHANGED <<conn_recv, conn_max, conn_error>>
  BY <1>1, Zenon DEF MaxStreamDataLost, MaxDataLost, StopSendingLost, connVars, recvVars
<1>4. UNCHANGED <<buffered, read_off, recv_off, recv_fin, recv_error, recv_shutdown, recv_max>>
  BY <1>3, SameRecvBuffer
<1>5. recv_max <= recv_max' /\ conn_max <= conn_max'
  BY <1>3, <1>4, OffsetsOfBoth
<1> QED BY <1>1, <1>2, <1>3, <1>4, <1>5, LimitStepInv

\* MAX_STREAM_DATA carries a limit that is not below the old one.
LEMMA SendStreamLimitInv ==
  ASSUME TrInv, Connected, UNCHANGED <<vars, wire, got, tx_max>>,
         NEW tuned, SendMaxStreamData(tuned), SendCtl("max_stream_data", recv_max')
  PROVE  TrInv'
<1>1. /\ recv_max \in Nat /\ conn_max \in Nat /\ consumed \in Nat /\ window \in Nat
      /\ recv_max <= consumed + window /\ window <= MaxWindow /\ RecvInv /\ RecvTypeOK
  BY RecvNumbers DEF TrInv, RecvInv, OffsetsInOrder
<1>2. /\ recv_max' = consumed + tuned /\ UNCHANGED <<conn_recv, conn_max, conn_error>>
      /\ UNCHANGED <<buffered, read_off, recv_off, recv_fin, recv_error, recv_shutdown>>
      /\ tuned \in TunedWindows
  BY DEF SendMaxStreamData, RBufUpdateMaxData, dataVars
<1>3. tuned \in Nat /\ window <= tuned
  BY <1>1, <1>2, TunedIsLarger
<1>4. RecvInv'
  BY <1>1, <1>3, SendMaxStreamDataInv
<1>5. recv_max <= recv_max' /\ recv_max' \in Nat /\ conn_max <= conn_max'
  BY <1>1, <1>2, <1>3
<1>6. ctl_wire' = ctl_wire \cup {[pn |-> ctl_next, kind |-> "max_stream_data", value |-> recv_max']}
  BY DEF SendCtl
<1>7. ASSUME NEW c \in ctl_wire'
      PROVE  \/ c \in ctl_wire
             \/ /\ c.value \in Nat
                /\ c.kind = "max_stream_data" => c.value <= recv_max'
                /\ c.kind = "max_data" => c.value <= conn_max'
  BY <1>5, <1>6
<1> QED BY <1>2, <1>4, <1>5, <1>7, LimitStepInv

\* So does MAX_DATA, while the connection's window is within its largest.
LEMMA SendConnLimitInv ==
  ASSUME TrInv, Connected, ConnWindowBounded, UNCHANGED <<vars, wire, got, tx_max>>,
         NEW tuned, SendMaxData(tuned), SendCtl("max_data", conn_max')
  PROVE  TrInv'
<1>1. RecvInv /\ recv_max \in Nat
  BY RecvNumbers DEF TrInv, RecvInv
<1>2. tuned \in Nat /\ conn_max' \in Nat /\ conn_max <= conn_max'
  <2>1. tuned \in Nat /\ conn_max' \in Nat /\ conn_max' >= conn_max
    BY <1>1, ConnUpdateGrows DEF ConnWindowBounded
  <2>2. conn_max \in Nat
    BY OffsetsOfBoth
  <2> QED BY <2>1, <2>2
<1>3. RecvInv'
  BY <1>1, <1>2, MaxDataInv
<1>4. UNCHANGED rbufVars /\ UNCHANGED <<conn_recv, conn_error>>
  BY Zenon DEF SendMaxData
<1>5. UNCHANGED <<buffered, read_off, recv_off, recv_fin, recv_error, recv_shutdown, recv_max>>
  BY <1>4, SameRecvBuffer
<1>6. recv_max <= recv_max'
  BY <1>1, <1>5
<1>7. ctl_wire' = ctl_wire \cup {[pn |-> ctl_next, kind |-> "max_data", value |-> conn_max']}
  BY DEF SendCtl
<1>8. ASSUME NEW c \in ctl_wire'
      PROVE  \/ c \in ctl_wire
             \/ /\ c.value \in Nat
                /\ c.kind = "max_stream_data" => c.value <= recv_max'
                /\ c.kind = "max_data" => c.value <= conn_max'
  BY <1>2, <1>7
<1> QED BY <1>2, <1>3, <1>4, <1>5, <1>6, <1>8, LimitStepInv

\* A frame that does not fit leaves the limits as they are.
LEMMA NoRoomInv ==
  ASSUME TrInv, Connected, ConnWindowBounded, UNCHANGED <<vars, wire, got, tx_max>>, UNCHANGED ctlNetVars,
         NEW tuned, NoRoomForMaxStreamData(tuned) \/ NoRoomForMaxData(tuned)
  PROVE  TrInv'
<1>1. RecvInv /\ RecvTypeOK /\ window <= MaxWindow /\ recv_max \in Nat /\ conn_max \in Nat
  BY RecvNumbers DEF TrInv, RecvInv, OffsetsInOrder
<1>2. RecvInv'
  <2>1. CASE NoRoomForMaxStreamData(tuned)
    <3>1. tuned \in TunedWindows
      BY <2>1 DEF NoRoomForMaxStreamData, RBufAutotune
    <3>2. tuned \in Nat
      BY <1>1, <3>1, TunedIsLarger
    <3> QED BY <1>1, <2>1, <3>2, NoRoomForMaxStreamDataInv
  <2>2. CASE NoRoomForMaxData(tuned)
    <3>1. tuned \in Nat
      BY <1>1, <2>2, ConnUpdateGrows DEF ConnWindowBounded
    <3> QED BY <1>1, <2>2, <3>1, MaxDataInv
  <2> QED BY <2>1, <2>2
<1>3. UNCHANGED <<buffered, read_off, recv_off, recv_fin, recv_error, recv_shutdown, recv_max>>
  BY Zenon DEF NoRoomForMaxStreamData, NoRoomForMaxData, RBufAutotune, rbufVars, dataVars, limitVars
<1>4. UNCHANGED <<conn_recv, conn_max, conn_error>>
  BY Zenon DEF NoRoomForMaxStreamData, NoRoomForMaxData, connVars
<1>5. ctl_wire' = ctl_wire
  BY DEF ctlNetVars
<1>6. recv_max <= recv_max' /\ conn_max <= conn_max'
  BY <1>1, <1>3, <1>4
<1> QED BY <1>2, <1>3, <1>4, <1>5, <1>6, LimitStepInv

\* The receiver sends a limit or STOP_SENDING: a new limit is not below the old
\* one, and the frame carries it.
LEMMA TransmitCtlInv ==
  ASSUME TrInv, Connected, ConnWindowBounded, TransmitCtl
  PROVE  TrInv'
<1>1. UNCHANGED <<vars, wire, got, tx_max>>
  BY DEF TransmitCtl
<1>2. recv_max \in Nat /\ conn_max \in Nat /\ RecvInv
  BY RecvNumbers DEF TrInv, RecvInv
<1>3. ASSUME NEW tuned, SendMaxStreamData(tuned), SendCtl("max_stream_data", recv_max')
      PROVE  TrInv'
  BY <1>1, <1>3, SendStreamLimitInv
<1>4. ASSUME NEW tuned, SendMaxData(tuned), SendCtl("max_data", conn_max')
      PROVE  TrInv'
  BY <1>1, <1>4, SendConnLimitInv
<1>6. ASSUME NEW tuned, NoRoomForMaxStreamData(tuned) \/ NoRoomForMaxData(tuned), UNCHANGED ctlNetVars
      PROVE  TrInv'
  BY <1>1, <1>6, NoRoomInv
<1>5. CASE \/ SendStopSending /\ SendCtl("stop_sending", 0)
           \/ SkipMaxStreamData /\ UNCHANGED ctlNetVars
  <2>1. RecvInv'
    BY <1>2, <1>5, DueFrameInv, SkipMaxStreamDataInv
  <2>2. UNCHANGED rbufVars /\ UNCHANGED <<conn_recv, conn_max, conn_error>>
    BY <1>5, Zenon DEF SendStopSending, SkipMaxStreamData, connVars
  <2>3. UNCHANGED <<buffered, read_off, recv_off, recv_fin, recv_error, recv_shutdown, recv_max>>
    BY <2>2, SameRecvBuffer
  <2>4. recv_max <= recv_max' /\ conn_max <= conn_max'
    BY <1>2, <2>2, <2>3
  <2>5. ctl_wire' \subseteq ctl_wire \cup {[pn |-> ctl_next, kind |-> "stop_sending", value |-> 0]}
    BY <1>5 DEF SendCtl, ctlNetVars
  <2>6. ASSUME NEW c \in ctl_wire'
        PROVE  \/ c \in ctl_wire
               \/ /\ c.value \in Nat
                  /\ c.kind = "max_stream_data" => c.value <= recv_max'
                  /\ c.kind = "max_data" => c.value <= conn_max'
    BY <2>5
  <2> QED BY <1>1, <2>1, <2>2, <2>3, <2>4, <2>6, LimitStepInv
<1> QED BY <1>3, <1>4, <1>5, <1>6, Zenon DEF TransmitCtl

\* stream_read: what was read has left the buffer.
LEMMA AppReadInv ==
  ASSUME TrInv, Connected, AppRead
  PROVE  TrInv'
<1>1. UNCHANGED <<vars, wire, got, tx_max>> /\ ctl_wire' = ctl_wire
  BY DEF AppRead, ctlNetVars
<1>2. UNCHANGED <<unsent_off, fin_off>>
  BY <1>1 DEF vars, bufVars
<1>3. /\ RecvInv /\ RecvTypeOK /\ ReceivedIsSent /\ ErrorIsMiscount /\ BufferSound
      /\ recv_max \in Nat /\ conn_max \in Nat /\ read_off \in Nat /\ recv_off \in Nat /\ NoOff = None
      /\ None \notin Nat
  BY OffsetsOfBoth DEF TrInv, RecvInv
<1>4. CASE StreamReadReset
  <2>1. RecvInv'
    BY <1>3, <1>4, ReadResetInv
  <2>2. /\ recv_error /\ buffered' = {}
        /\ UNCHANGED <<read_off, recv_off, recv_fin, recv_error, recv_shutdown, recv_max>>
        /\ UNCHANGED <<conn_recv, conn_max, conn_error>>
    BY <1>4 DEF StreamReadReset, RBufReadReset, limitVars, connVars
  <2>3. ReceivedIsSent' /\ ErrorIsMiscount'
    BY <1>2, <1>3, <2>2, StaysConnected DEF ReceivedIsSent
  <2>4. buffered = {}
    <3>1. recv_fin = read_off /\ recv_off <= recv_fin /\ buffered \subseteq read_off..(recv_off - 1)
      BY <1>3, <2>2 DEF ReceivedIsSent, BufferSound
    <3> QED BY <1>3, <3>1
  <2>5. \A o \in Nat : o < unsent_off /\ Arrived(o) => Arrived(o)'
    BY <2>2, <2>4 DEF Arrived
  <2>6. recv_max <= recv_max' /\ conn_max <= conn_max'
    BY <1>3, <2>2
  <2> QED BY <1>1, <2>1, <2>3, <2>5, <2>6, QuietReceiverInv
<1>5. CASE \E cap \in 1..MaxOff : StreamRead(cap)
  <2>1. PICK cap \in 1..MaxOff : StreamRead(cap)
    BY <1>5
  <2>2. cap \in Nat
    BY SendBufConstants
  <2>3. RecvInv'
    BY <1>3, <2>1, <2>2, ReadInv
  <2> DEFINE e == Min({n \in read_off..(read_off + cap) : n = read_off + cap \/ n \notin buffered})
  <2>4. /\ read_off' = e /\ buffered' = buffered \ Offs(read_off, e) /\ ~recv_error
        /\ UNCHANGED <<recv_off, recv_fin, recv_error, recv_shutdown, recv_max>>
        /\ UNCHANGED <<conn_recv, conn_max, conn_error>>
    BY <2>1 DEF StreamRead, RBufRead, Consume
  <2>5. e \in Nat /\ read_off <= e
    BY <1>3, <2>2, ReadTakesPrefix
  <2> HIDE DEF e
  <2>6. ReceivedIsSent' /\ ErrorIsMiscount'
    BY <1>2, <1>3, <2>4, StaysConnected DEF ReceivedIsSent
  <2>7. \A o \in Nat : o < unsent_off /\ Arrived(o) => Arrived(o)'
    BY <1>3, <2>4, <2>5 DEF Arrived, Offs
  <2>8. recv_max <= recv_max' /\ conn_max <= conn_max'
    BY <1>3, <2>4
  <2> QED BY <1>1, <2>3, <2>6, <2>7, <2>8, QuietReceiverInv
<1> QED BY <1>4, <1>5 DEF AppRead

\* stream_shutdown(Read)
LEMMA AppStopInv ==
  ASSUME TrInv, Connected, AppStop
  PROVE  TrInv'
<1>1. ShutdownRead /\ UNCHANGED <<vars, wire, got, tx_max>> /\ ctl_wire' = ctl_wire
  BY DEF AppStop, ctlNetVars
<1>2. UNCHANGED <<unsent_off, fin_off>>
  BY <1>1 DEF vars, bufVars
<1>3. /\ RecvInv /\ ReceivedIsSent /\ ErrorIsMiscount /\ BufferSound /\ OffsetsInOrder
      /\ recv_max \in Nat /\ conn_max \in Nat /\ read_off \in Nat /\ recv_off \in Nat /\ NoOff = None
      /\ None \notin Nat
  BY OffsetsOfBoth DEF TrInv, RecvInv
<1>4. RecvInv'
  BY <1>1, <1>3, ShutdownReadInv
<1>5. /\ recv_shutdown' = TRUE /\ read_off' = recv_off
      /\ UNCHANGED <<recv_off, recv_fin, recv_error, recv_max>>
      /\ UNCHANGED <<conn_recv, conn_max, conn_error>>
  BY <1>1 DEF ShutdownRead, RBufShutdown, limitVars, Consume
<1>6. recv_error => recv_fin = recv_off
  <2> SUFFICES ASSUME recv_error PROVE recv_fin = recv_off
    OBVIOUS
  <2>1. recv_fin = read_off /\ read_off <= recv_off /\ (recv_fin # NoOff => recv_off <= recv_fin)
    BY <1>3 DEF ReceivedIsSent, OffsetsInOrder, BufferSound
  <2>2. recv_off <= read_off
    BY <1>3, <2>1
  <2> QED BY <1>3, <2>1, <2>2
<1>7. ReceivedIsSent' /\ ErrorIsMiscount'
  BY <1>2, <1>3, <1>5, <1>6, StaysConnected DEF ReceivedIsSent
<1>8. \A o \in Nat : o < unsent_off /\ Arrived(o) => Arrived(o)'
  BY <1>5 DEF Arrived
<1>9. recv_max <= recv_max' /\ conn_max <= conn_max'
  BY <1>3, <1>5
<1> QED BY <1>1, <1>4, <1>7, <1>8, <1>9, QuietReceiverInv

\* Once everything up to the final size was read, every byte of every packet has
\* arrived.
LEMMA ArrivedAtEnd ==
  ASSUME TrInv, IsFin, NEW f \in wire \cup flight
  PROVE  /\ recv_fin # None /\ read_off = unsent_off
         /\ \A o \in Bytes(f.off, f.end) : o < read_off
<1>1. recv_fin = read_off /\ read_off \in Nat /\ None \notin Nat
  BY OffsetsOfBoth DEF IsFin
<1>2. recv_fin # None /\ read_off = unsent_off
  BY <1>1 DEF TrInv, ReceivedIsSent
<1>3. f.off \in Nat /\ f.end \in Nat /\ f.end <= unsent_off
  BY FramesOfBoth
<1> QED BY <1>1, <1>2, <1>3 DEF Bytes

\* A frame within the limits can break the connection's limit only on top of bytes
\* that were counted and not taken.
LEMMA OnlyAMiscount ==
  ASSUME NEW end \in Nat, NEW sent \in Nat, NEW limit \in Nat, NEW counted \in Nat, NEW taken \in Nat,
         end <= sent, taken <= sent, sent <= limit, taken <= counted,
         Excess(end, taken) > limit - counted
  PROVE  taken < counted
<1>1. CASE end <= taken
  BY <1>1 DEF Excess
<1>2. CASE ~(end <= taken)
  BY <1>2 DEF Excess
<1> QED BY <1>1, <1>2

\* What was sent is within every limit of the receiver.
LEMMA SentWithinLimits ==
  ASSUME TrInv
  PROVE  unsent_off <= recv_max /\ unsent_off <= conn_max
<1>1. /\ unsent_off \in Nat /\ write_off \in Nat /\ max_data \in Nat /\ recv_max \in Nat
      /\ tx_max \in Nat /\ conn_max \in Nat
      /\ unsent_off <= write_off /\ write_off <= max_data /\ max_data <= recv_max
      /\ write_off <= tx_max /\ tx_max <= conn_max
  BY OffsetsOfBoth DEF TrInv, LimitsAgree
<1> QED BY <1>1

\* write() and reset() refuse nothing that the sender can send.
LEMMA NothingRefused ==
  ASSUME TrInv, NEW f \in wire
  PROVE  /\ WriteError(f.end, f.fin) = ""
         /\ f.kind = "reset" => ResetError(f.end) = "" /\ recv_off <= f.end
<1>1. /\ f.end \in Nat /\ f.fin \in BOOLEAN /\ f.end <= unsent_off
      /\ f.fin \/ f.kind = "reset" => f.end = unsent_off
  BY FramesOfBoth
<1>2. /\ unsent_off \in Nat /\ recv_off \in Nat /\ recv_max \in Nat /\ NoOff = None
      /\ recv_off <= unsent_off /\ (recv_fin # None => recv_fin = unsent_off)
      /\ unsent_off <= recv_max
  BY OffsetsOfBoth, SentWithinLimits DEF TrInv, ReceivedIsSent
<1>3. f.end <= recv_max
  BY <1>1, <1>2
<1>4. WriteError(f.end, f.fin) = ""
  <2>1. ~(f.end > recv_max)
    BY <1>1, <1>2, <1>3
  <2>2. recv_fin # NoOff => ~(f.end > recv_fin \/ (f.fin /\ f.end # recv_fin))
    BY <1>1, <1>2
  <2>3. ~(f.fin /\ f.end < recv_off)
    BY <1>1, <1>2
  <2> QED BY <2>1, <2>2, <2>3 DEF WriteError
<1>5. ASSUME f.kind = "reset" PROVE ResetError(f.end) = "" /\ recv_off <= f.end
  <2>1. f.end = unsent_off
    BY <1>1, <1>5
  <2>2. ~((recv_fin # NoOff /\ recv_fin # f.end) \/ f.end < recv_off)
    BY <1>2, <2>1
  <2>3. ~(f.end > recv_max)
    BY <1>1, <1>2, <1>3
  <2> QED BY <1>2, <2>1, <2>2, <2>3 DEF ResetError
<1> QED BY <1>4, <1>5, Zenon

\* A STREAM frame is accepted: its bytes are buffered, were read, or are not wanted.
LEMMA FrameArrives ==
  ASSUME TrInv, NEW f \in wire, f.kind = "stream", StreamFrameReceived(f.off, f.end, f.fin)
  PROVE  /\ \A o \in Nat : Arrived(o) => Arrived(o)'
         /\ \A o \in Bytes(f.off, f.end) : Arrived(o)'
         /\ recv_off' <= unsent_off /\ recv_off' <= conn_recv'
         /\ recv_fin' # None => recv_fin' = fin_off /\ recv_fin' = unsent_off
         /\ recv_error' => recv_fin' = read_off'
<1>1. /\ f.off \in Nat /\ f.end \in Nat /\ f.fin \in BOOLEAN /\ f.off <= f.end /\ f.end <= unsent_off
      /\ f.fin => f.end = fin_off /\ f.end = unsent_off
  BY FramesOfBoth
<1>2. /\ unsent_off \in Nat /\ recv_off \in Nat /\ read_off \in Nat /\ conn_recv \in Nat /\ NoOff = None
      /\ recv_off <= unsent_off /\ recv_off <= conn_recv
      /\ recv_fin # None => recv_fin = fin_off /\ recv_fin = unsent_off
      /\ recv_error => recv_fin = read_off
  BY OffsetsOfBoth DEF TrInv, ReceivedIsSent
<1> DEFINE fresh == Offs(Larger(f.off, read_off), f.end) \ buffered
<1>3. /\ UNCHANGED <<read_off, recv_error, recv_shutdown>>
      /\ IsFin => UNCHANGED <<buffered, recv_off, recv_fin>>
      /\ ~IsFin => /\ recv_fin' = IF f.fin THEN f.end ELSE recv_fin
                   /\ recv_off' = recv_off \/ recv_off' = Larger(recv_off, f.end)
                   /\ recv_shutdown \/ buffered' = buffered \cup fresh
  BY Zenon DEF StreamFrameReceived, RBufWrite
<1>4. conn_recv' = conn_recv + Excess(f.end, recv_off)
  BY DEF StreamFrameReceived, Receive
<1>5. \A o \in Nat : Arrived(o) => Arrived(o)'
  BY <1>3, Zenon DEF Arrived
<1>6. ASSUME NEW o \in Bytes(f.off, f.end) PROVE Arrived(o)'
  <2>1. CASE IsFin
    BY <1>3, <2>1, ArrivedAtEnd, Zenon DEF Arrived
  <2>2. CASE ~IsFin
    <3>1. o \in Nat /\ f.off <= o /\ o <= f.end - 1
      BY <1>1 DEF Bytes
    <3>2. o < read_off \/ o \in Offs(Larger(f.off, read_off), f.end)
      BY <1>1, <1>2, <3>1 DEF Offs, Larger
    <3> QED BY <1>3, <2>2, <3>2, ZenonT(30) DEF Arrived
  <2> QED BY <2>1, <2>2
<1> HIDE DEF fresh
<1>7. recv_off' <= unsent_off /\ recv_off' <= conn_recv'
  <2>1. Excess(f.end, recv_off) \in Nat /\ (f.end > recv_off => Excess(f.end, recv_off) = f.end - recv_off)
    BY <1>1, <1>2, ExcessNat DEF Excess
  <2>2. CASE recv_off' = recv_off
    BY <1>2, <1>4, <2>1, <2>2
  <2>3. CASE recv_off' = Larger(recv_off, f.end)
    BY <1>1, <1>2, <1>4, <2>1, <2>3 DEF Larger
  <2> QED BY <1>3, <2>2, <2>3
<1>8. recv_fin' # None => recv_fin' = fin_off /\ recv_fin' = unsent_off
  BY <1>1, <1>2, <1>3
<1>9. recv_error' => recv_fin' = read_off'
  BY <1>2, <1>3 DEF IsFin
<1> QED BY <1>5, <1>6, <1>7, <1>8, <1>9

\* A RESET_STREAM frame is accepted: nothing below the final size is wanted any
\* more.
LEMMA ResetArrives ==
  ASSUME TrInv, NEW f \in wire, f.kind = "reset", ResetFrameReceived(f.end)
  PROVE  /\ \A o \in Nat : o < unsent_off /\ Arrived(o) => Arrived(o)'
         /\ recv_off' <= unsent_off /\ recv_off' <= conn_recv'
         /\ recv_fin' # None => recv_fin' = fin_off /\ recv_fin' = unsent_off
         /\ recv_error' => recv_fin' = read_off'
<1>1. /\ f.end \in Nat /\ f.end = unsent_off /\ f.end = fin_off /\ recv_off <= f.end
  BY FramesOfBoth, NothingRefused, Zenon
<1>2. /\ unsent_off \in Nat /\ recv_off \in Nat /\ conn_recv \in Nat
      /\ recv_off <= unsent_off /\ recv_off <= conn_recv
      /\ recv_fin # None => recv_fin = fin_off /\ recv_fin = unsent_off
      /\ recv_error => recv_fin = read_off
  BY OffsetsOfBoth DEF TrInv, ReceivedIsSent
<1>3. /\ recv_error => UNCHANGED <<buffered, read_off, recv_off, recv_fin, recv_error, recv_shutdown>>
      /\ ~recv_error => recv_fin' = f.end /\ recv_off' = f.end /\ read_off' = f.end
  BY Zenon DEF ResetFrameReceived, RBufReset, dataVars
<1>4. conn_recv' = conn_recv + (f.end - recv_off)
  BY DEF ResetFrameReceived, Receive
<1>5. CASE recv_error
  <2>1. recv_off <= conn_recv'
    BY <1>1, <1>2, <1>4
  <2> QED BY <1>2, <1>3, <1>5, <2>1 DEF Arrived
<1>6. CASE ~recv_error
  <2>1. f.end <= conn_recv'
    BY <1>1, <1>2, <1>4
  <2> QED BY <1>1, <1>2, <1>3, <1>6, <2>1 DEF Arrived
<1> QED BY <1>5, <1>6

\* The frame is refused, for one reason.
LEMMA OnlyMiscountRefused ==
  ASSUME TrInv, NEW f \in wire,
         \/ StreamFrameRejected(f.end, f.fin)
         \/ f.kind = "reset" /\ ResetFrameRejected(f.end)
  PROVE  conn_error' = "FlowControlError" /\ recv_off < conn_recv
<1>1. /\ f.end \in Nat /\ f.end <= unsent_off
  BY FramesOfBoth
<1>2. /\ unsent_off \in Nat /\ recv_off \in Nat /\ conn_recv \in Nat /\ conn_max \in Nat
      /\ recv_off <= unsent_off /\ recv_off <= conn_recv /\ unsent_off <= conn_max
  BY OffsetsOfBoth, SentWithinLimits DEF TrInv, ReceivedIsSent
<1>3. CASE StreamFrameRejected(f.end, f.fin)
  <2>1. conn_error' = "FlowControlError" /\ Excess(f.end, recv_off) > conn_max - conn_recv
    BY <1>3, NothingRefused, Zenon DEF StreamFrameRejected
  <2> QED BY <1>1, <1>2, <2>1, OnlyAMiscount, Zenon
<1>4. CASE f.kind = "reset" /\ ResetFrameRejected(f.end)
  <2>1. conn_error' = "FlowControlError" /\ f.end - recv_off > conn_max - conn_recv
    BY <1>4, NothingRefused, Zenon DEF ResetFrameRejected
  <2>2. Excess(f.end, recv_off) = f.end - recv_off
    BY <1>1, <1>2, <1>4, NothingRefused, ExcessNat, Zenon
  <2> QED BY <1>1, <1>2, <2>1, <2>2, OnlyAMiscount
<1> QED BY <1>3, <1>4

\* A packet arrives.
LEMMA DeliverInv ==
  ASSUME TrInv, Connected, NEW f \in wire, Deliver(f)
  PROVE  TrInv'
<1> DEFINE G == {f.pn}
<1>1. /\ UNCHANGED vars /\ tx_max' = tx_max /\ ctl_wire' = ctl_wire
      /\ wire' = wire \ {f} /\ got' = got \cup G
  BY DEF Deliver, ctlNetVars
<1>2. /\ G \in SUBSET Nat /\ \A n \in G : n < next_pn
      /\ wire' \subseteq wire /\ \A g \in wire' : g.pn \notin G
      /\ \A g \in flight : g.pn \in G => g = f
  BY <1>1, FramesOfBoth DEF TrInv, PacketsDistinct
<1> HIDE DEF G
<1>3. UNCHANGED <<unsent_off, fin_off>>
  BY <1>1 DEF vars, bufVars
<1>4. /\ RecvInv /\ ReceivedIsSent /\ ErrorIsMiscount /\ recv_max \in Nat /\ conn_max \in Nat
  BY OffsetsOfBoth DEF TrInv
<1>5. /\ f.kind \in {"stream", "reset"} /\ f.off \in Nat /\ f.end \in Nat /\ f.fin \in BOOLEAN
      /\ f.off <= f.end
  BY FramesOfBoth
<1>6. SUFFICES /\ RecvInv' /\ ReceivedIsSent' /\ ErrorIsMiscount'
               /\ recv_max' = recv_max /\ conn_max' = conn_max
               /\ \A o \in Nat : o < unsent_off /\ Arrived(o) => Arrived(o)'
               /\ f.kind = "stream" /\ Connected' => \A o \in Bytes(f.off, f.end) : Arrived(o)'
  <2>1. recv_max <= recv_max' /\ conn_max <= conn_max'
    BY <1>4, <1>6
  <2>2. \A g \in flight : g.kind = "stream" /\ g.pn \in G /\ Connected'
                             => \A o \in Bytes(g.off, g.end) : Arrived(o)'
    BY <1>2, <1>6
  <2> QED BY <1>1, <1>2, <1>6, <2>1, <2>2, ReceiverStepInv, ZenonT(30)
<1>7. CASE ~Live /\ UNCHANGED recvVars
  <2>1. /\ UNCHANGED <<buffered, read_off, recv_off, recv_fin, recv_error, recv_shutdown, recv_max>>
        /\ UNCHANGED <<conn_recv, conn_max, conn_error>>
    BY <1>7 DEF recvVars, rbufVars, dataVars, limitVars, connVars
  <2>2. RecvInv'
    BY <1>4, <1>7, RecvNextInv
  <2>3. IsFin
    BY <1>4, <1>7, Zenon DEF Connected, Live, RecvInv, ClosedIsRead, RecvIsComplete
  <2>4. \A o \in Bytes(f.off, f.end) : Arrived(o)'
    BY <2>1, <2>3, ArrivedAtEnd DEF Arrived
  <2>5. ReceivedIsSent' /\ ErrorIsMiscount'
    BY <1>3, <1>4, <2>1, StaysConnected DEF ReceivedIsSent
  <2>6. \A o \in Nat : o < unsent_off /\ Arrived(o) => Arrived(o)'
    BY <2>1 DEF Arrived
  <2> QED BY <2>1, <2>2, <2>4, <2>5, <2>6
<1>8. CASE f.kind = "stream" /\ StreamFrameReceived(f.off, f.end, f.fin)
  <2>1. RecvInv'
    BY <1>4, <1>5, <1>8, FrameInv
  <2>2. recv_max' = recv_max /\ conn_max' = conn_max /\ conn_error' = conn_error
    BY <1>8, Zenon DEF StreamFrameReceived, RBufWrite, limitVars, Consume
  <2>3. ReceivedIsSent' /\ ErrorIsMiscount'
    BY <1>3, <1>8, <2>2, FrameArrives, StaysConnected DEF ReceivedIsSent
  <2> QED BY <1>8, <2>1, <2>2, <2>3, FrameArrives
<1>9. CASE f.kind = "reset" /\ ResetFrameReceived(f.end)
  <2>1. RecvInv'
    BY <1>4, <1>5, <1>9, ResetInv
  <2>2. recv_max' = recv_max /\ conn_max' = conn_max /\ conn_error' = conn_error
    BY <1>9, Zenon DEF ResetFrameReceived, RBufReset, limitVars, Consume
  <2>3. ReceivedIsSent' /\ ErrorIsMiscount'
    BY <1>3, <1>9, <2>2, ResetArrives, StaysConnected DEF ReceivedIsSent
  <2> QED BY <1>9, <2>1, <2>2, <2>3, ResetArrives
<1>10. CASE \/ f.kind = "stream" /\ StreamFrameRejected(f.end, f.fin)
            \/ f.kind = "reset" /\ ResetFrameRejected(f.end)
  <2>1. UNCHANGED <<rbufVars, connVars, ctlVars, listVars, told>>
    BY <1>10, Zenon DEF StreamFrameRejected, ResetFrameRejected
  <2>2. conn_error' = "FlowControlError" /\ recv_off < conn_recv
    BY <1>10, OnlyMiscountRefused
  <2>3. RecvInv'
    BY <1>4, <2>1, <2>2, RejectedInv
  <2>4. /\ UNCHANGED <<buffered, read_off, recv_off, recv_fin, recv_error, recv_shutdown, recv_max>>
        /\ UNCHANGED <<conn_recv, conn_max>>
    BY <2>1 DEF rbufVars, dataVars, limitVars, connVars
  <2>5. ReceivedIsSent' /\ ErrorIsMiscount'
    BY <1>3, <1>4, <2>2, <2>4 DEF ReceivedIsSent, ErrorIsMiscount
  <2>6. ~Connected'
    BY <2>2, Zenon DEF Connected
  <2>7. \A o \in Nat : o < unsent_off /\ Arrived(o) => Arrived(o)'
    BY <2>4 DEF Arrived
  <2> QED BY <2>3, <2>4, <2>5, <2>6, <2>7
<1> QED BY <1>5, <1>7, <1>8, <1>9, <1>10, Zenon DEF Deliver

-----------------------------------------------------------------------------
(* The invariant of the transfer, and what it says.                        *)

\* Two new endpoints and an empty network satisfy the invariant.
LEMMA TrInitInv == TrInit => TrInv
<1> SUFFICES ASSUME TrInit PROVE TrInv
  OBVIOUS
<1>1. Inv /\ RecvInv
  BY InitInv, RecvInitInv DEF TrInit
<1>2. /\ wire = {} /\ got = {} /\ flight = {} /\ ctl_wire = {} /\ acked = {} /\ tx_max = ConnWindow
      /\ write_off = 0 /\ unsent_off = 0 /\ max_data = InitMaxData
  BY DEF TrInit, Init, BufInit
<1>3. /\ recv_off = 0 /\ conn_recv = 0 /\ recv_fin = NoOff /\ recv_error = FALSE
      /\ recv_max = Window /\ conn_max = ConnWindow
  BY Zenon DEF TrInit, RecvInit, RBufInit
<1>a. Connected
  BY Zenon DEF TrInit, RecvInit, Connected
<1>4. InitMaxData = Window /\ NoOff = None /\ Window \in Nat /\ ConnWindow \in Nat
  BY TransferConstants, RecvBufConstants, StreamRecvConstants
<1>5. PacketsDistinct
  BY <1>2 DEF PacketsDistinct
<1>6. WireSound
  BY <1>2 DEF WireSound
<1>7. ReceivedIsSent
  BY <1>2, <1>3, <1>4 DEF ReceivedIsSent
<1>8. LimitsAgree
  BY <1>2, <1>3, <1>4 DEF LimitsAgree
<1>9. GotIsReceived /\ AckedIsReceived /\ ErrorIsMiscount
  BY <1>2, <1>a DEF GotIsReceived, AckedIsReceived, ErrorIsMiscount
<1> QED BY <1>1, <1>5, <1>6, <1>7, <1>8, <1>9 DEF TrInv

\* A step that changes nothing.
LEMMA StutterInv ==
  ASSUME TrInv, UNCHANGED trVars
  PROVE  TrInv'
<1>1. UNCHANGED vars /\ UNCHANGED <<recvVars, wire, got, ctlNetVars, tx_max>>
  BY DEF trVars
<1>2. UNCHANGED <<write_off, unsent_off, max_data, fin_off, shutdown, stopped, acked, flight, next_pn>>
  BY <1>1 DEF vars, bufVars, netVars
<1>3. Inv'
  BY <1>1, NextInv DEF TrInv
<1>4. SenderKeeps /\ write_off' <= tx_max /\ max_data' <= recv_max
  BY <1>2, OffsetsOfBoth DEF SenderKeeps, TrInv, LimitsAgree
<1> QED BY <1>1, <1>2, <1>3, <1>4, QuietSenderInv

\* Only the frames that extend a limit touch the window of the connection.
LEMMA ConnWindowStays ==
  ASSUME TrInv, ConnWindowBounded, [TrNext]_trVars
  PROVE  ConnWindowBounded'
<1>1. RecvInv /\ conn_window \in Nat
  BY RecvNumbers DEF TrInv, RecvInv
<1>2. CASE \E tuned : SendMaxStreamData(tuned)
  BY <1>1, <1>2, StreamUpdateBounded, TransferConstants DEF ConnWindowBounded
<1>3. CASE \E tuned : SendMaxData(tuned) \/ NoRoomForMaxData(tuned)
  BY <1>1, <1>3, ConnUpdateGrows DEF ConnWindowBounded
<1>4. CASE ~ \E tuned : SendMaxStreamData(tuned) \/ SendMaxData(tuned) \/ NoRoomForMaxData(tuned)
  <2>1. UNCHANGED recvVars => conn_window' = conn_window
    BY DEF recvVars, connVars
  <2>2. App => conn_window' = conn_window
    BY <2>1, Zenon DEF App, AppWrite, AppReset, AppStop, ShutdownRead, Consume
  <2>3. ASSUME NEW f, Deliver(f) PROVE conn_window' = conn_window
    BY <2>1, <2>3, Zenon DEF Deliver, StreamFrameReceived, StreamFrameRejected, ResetFrameReceived,
       ResetFrameRejected, Consume, connVars
  <2>4. AppRead \/ ReceiverDestroy => conn_window' = conn_window
    BY Zenon DEF AppRead, ReceiverDestroy, StreamRead, StreamReadReset, RecvDestroy, Consume, connVars
  <2>5. TransmitCtl => conn_window' = conn_window
    BY <1>4, Zenon DEF TransmitCtl, NoRoomForMaxStreamData, SendStopSending, SkipMaxStreamData, connVars
  <2>6. ASSUME NEW c, NEW d, CtlLost(c, d) PROVE conn_window' = conn_window
    BY <2>1, <2>6, Zenon DEF CtlLost, MaxStreamDataLost, MaxDataLost, StopSendingLost, connVars
  <2>7. ASSUME NEW f, Acked(f) \/ Lost(f) \/ Probe(f) \/ Drop(f) PROVE conn_window' = conn_window
    BY <2>1, <2>7, Zenon DEF Acked, Lost, Probe, Drop
  <2>8. ASSUME NEW c, DeliverCtl(c) PROVE conn_window' = conn_window
    BY <2>1, <2>8, Zenon DEF DeliverCtl
  <2>9. Transmit \/ Skip \/ SenderDestroy \/ UNCHANGED trVars => conn_window' = conn_window
    BY <2>1, Zenon DEF Transmit, Skip, SenderDestroy, trVars
  <2>10. conn_window' = conn_window
    BY <2>2, <2>3, <2>4, <2>5, <2>6, <2>7, <2>8, <2>9, Zenon DEF TrNext, Steps
  <2> QED BY <2>10 DEF ConnWindowBounded
<1> QED BY <1>2, <1>3, <1>4

\* Every step of either side, and of the network, preserves the invariant.
LEMMA TrNextInv == TrInv /\ ConnWindowBounded /\ [TrNext]_trVars => TrInv'
<1> SUFFICES ASSUME TrInv, ConnWindowBounded, [TrNext]_trVars PROVE TrInv'
  OBVIOUS
<1>1. CASE UNCHANGED trVars
  BY <1>1, StutterInv
<1> SUFFICES ASSUME TrNext PROVE TrInv'
  BY <1>1
<1>2. Connected /\ (App \/ Steps)
  BY DEF TrNext
<1>3. CASE App
  <2>1. ASSUME NEW n \in 0..MaxOff, NEW fin \in BOOLEAN, AppWrite(n, fin) PROVE TrInv'
    <3>1. n \in Nat
      BY SendBufConstants
    <3> QED BY <2>1, <3>1, AppWriteInv
  <2> QED BY <1>2, <1>3, <2>1, AppResetInv, AppStopInv DEF App
<1>4. CASE Transmit \/ Skip \/ SenderDestroy
  BY <1>4, TransmitInv, QuietStepsInv
<1>5. CASE \E f \in flight : Acked(f) \/ Lost(f) \/ Probe(f)
  BY <1>2, <1>5, AckedInv, LostInv
<1>6. CASE \E f \in wire : Deliver(f) \/ Drop(f)
  BY <1>2, <1>6, DeliverInv, DropInv
<1>7. CASE AppRead \/ ReceiverDestroy \/ TransmitCtl
  BY <1>2, <1>7, AppReadInv, ReceiverDestroyInv, TransmitCtlInv
<1>8. CASE \E c \in ctl_wire : DeliverCtl(c)
  BY <1>8, DeliverCtlInv
<1>9. CASE \E c \in ctl_flight, dropped \in BOOLEAN : CtlLost(c, dropped)
  BY <1>2, <1>9, CtlLostInv
<1> QED BY <1>2, <1>3, <1>4, <1>5, <1>6, <1>7, <1>8, <1>9 DEF Steps

\* The two halves and the packets between them stay consistent, for every window,
\* every number of losses and every order of delivery.
THEOREM TrInvHolds == TrSpec => []TrInv
<1>1. TrInit => ConnWindowBounded
  BY StreamRecvConstants, Zenon DEF TrInit, RecvInit, ConnWindowBounded
<1>2. TrInv /\ ConnWindowBounded /\ [TrNext]_trVars => ConnWindowBounded'
  BY ConnWindowStays
<1> QED BY <1>1, <1>2, TrInitInv, TrNextInv, PTL DEF TrSpec

\* What the sender drops from its buffer as acknowledged has reached the peer
\* (SendBuf::ack_and_drop, RecvBuf::write).
THEOREM AckedAlwaysReceived == TrSpec => []AckedIsReceived
<1>1. TrInv => AckedIsReceived
  BY DEF TrInv
<1> QED BY <1>1, TrInvHolds, PTL

\* The receiver of the only stream of a connection never reports FINAL_SIZE_ERROR to
\* a sender of this implementation, and FLOW_CONTROL_ERROR only when the connection
\* counted more than the stream took (on_stream_frame_received,
\* on_reset_stream_frame_received), however the windows are tuned within
\* TransferConstants.
THEOREM ErrorsAreMiscounts == TrSpec => []ErrorIsMiscount
<1>1. TrInv => ErrorIsMiscount
  BY DEF TrInv
<1> QED BY <1>1, TrInvHolds, PTL
=============================================================================
