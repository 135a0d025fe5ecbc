--------------------------- MODULE StreamRecvProofs ---------------------------
(***************************************************************************)
(* Proofs about the receiving half of a stream: RecvInv is inductive, and  *)
(* what the runs check of StreamRecv follows from it for all constants.    *)
(***************************************************************************)
EXTENDS StreamRecv, NaturalsInduction, WellFoundedInduction, TLAPS

-----------------------------------------------------------------------------
(* Facts about the operators.                                              *)

\* A non-empty set of offsets has a least element, and Min is that element (the
\* first chunk of the BTreeMap; u64::min in autotune_window).
LEMMA LeastOffset ==
  ASSUME NEW S \in SUBSET Nat, S # {}
  PROVE  Min(S) \in S /\ \A y \in S : Min(S) <= y
<1> DEFINE R == {ss \in Nat \X Nat : ss[1] < ss[2]}
<1>1. IsWellFoundedOn(R, Nat)
  BY NatLessThanWellFounded DEF OpToRel
<1>2. PICK x \in S : \A y \in S : ~(<<y, x>> \in R)
  BY <1>1, WFMin, ZenonT(30)
<1>3. \A y \in S : x <= y
  <2> TAKE y \in S
  <2>1. <<y, x>> \in Nat \X Nat /\ <<y, x>>[1] = y /\ <<y, x>>[2] = x
    OBVIOUS
  <2>2. ~(y < x)
    BY <1>2, <2>1
  <2> QED BY <2>2
<1> QED BY <1>3, ZenonT(30) DEF Min

\* The smaller of two numbers, as autotune_window takes it.
LEMMA SmallerOfTwo ==
  ASSUME NEW a \in Nat, NEW b \in Nat
  PROVE  Min({a, b}) = IF a <= b THEN a ELSE b
<1>1. {a, b} \in SUBSET Nat /\ {a, b} # {}
  OBVIOUS
<1>2. Min({a, b}) \in {a, b} /\ \A y \in {a, b} : Min({a, b}) <= y
  BY <1>1, LeastOffset
<1> QED BY <1>2

\* A longer interval of offsets contains a shorter one.
LEMMA WiderOffsets ==
  ASSUME NEW a \in Nat, NEW b \in Nat, NEW c \in Nat, b <= c
  PROVE  a..(b - 1) \subseteq a..(c - 1)
OBVIOUS

\* The types of the numbers and of the flags.
LEMMA RecvNumbers ==
  ASSUME RecvTypeOK
  PROVE  /\ buffered \in SUBSET Nat /\ read_off \in Nat /\ recv_off \in Nat
         /\ recv_max \in Nat /\ consumed \in Nat /\ window \in Nat
         /\ conn_recv \in Nat /\ conn_read \in Nat /\ conn_max \in Nat /\ conn_window \in Nat
BY DEF RecvTypeOK, RBufTypeOK, ConnTypeOK, ListTypeOK

\* saturating_sub stays a number.
LEMMA ExcessNat ==
  ASSUME NEW a \in Nat, NEW b \in Nat
  PROVE  Excess(a, b) \in Nat /\ (a <= b => Excess(a, b) = 0) /\ (b <= a => Excess(a, b) = a - b)
BY DEF Excess

\* Autotuning never lowers a window that is below its largest (RecvBuf).
LEMMA TunedIsLarger ==
  ASSUME RecvTypeOK, window <= MaxWindow, NEW tuned \in TunedWindows
  PROVE  tuned \in Nat /\ window <= tuned /\ tuned <= MaxWindow
<1>a. window \in Nat
  BY DEF RecvTypeOK, RBufTypeOK, ConnTypeOK, ListTypeOK
<1>1. window \in Nat /\ window * 2 \in Nat /\ MaxWindow \in Nat
  BY <1>a, RecvBufConstants
<1>2. Min({window * 2, MaxWindow}) = IF window * 2 <= MaxWindow THEN window * 2 ELSE MaxWindow
  BY <1>1, SmallerOfTwo
<1> QED BY <1>1, <1>2 DEF TunedWindows

\* read() takes a prefix of what is buffered from read_off on: it ends where a
\* byte is missing or the caller's buffer is full.
LEMMA ReadTakesPrefix ==
  ASSUME RecvTypeOK, NEW cap \in Nat, NEW end,
         end = Min({n \in read_off..(read_off + cap) :
                      n = read_off + cap \/ n \notin buffered})
  PROVE  /\ end \in Nat /\ read_off <= end /\ end <= read_off + cap
         /\ Offs(read_off, end) \subseteq buffered
         /\ end = read_off + cap \/ end \notin buffered
<1> DEFINE S == {n \in read_off..(read_off + cap) : n = read_off + cap \/ n \notin buffered}
<1>1. read_off \in Nat
  BY DEF RecvTypeOK, RBufTypeOK, ConnTypeOK, ListTypeOK
<1>2. S \in SUBSET Nat /\ read_off + cap \in S
  BY <1>1
<1>3. Min(S) \in S /\ \A y \in S : Min(S) <= y
  BY <1>2, LeastOffset
<1>4. end = Min(S)
  OBVIOUS
<1> HIDE DEF S
<1>5. end \in S /\ \A y \in S : end <= y
  BY <1>3, <1>4, ZenonT(30)
<1> USE DEF S
<1>6. end \in Nat /\ read_off <= end /\ end <= read_off + cap
  BY <1>1, <1>5
<1>7. ASSUME NEW o \in Offs(read_off, end) PROVE o \in buffered
  BY <1>1, <1>5, <1>6, <1>7 DEF Offs
<1> QED BY <1>5, <1>6, <1>7

-----------------------------------------------------------------------------
(* The initial state.                                                      *)

\* A new stream satisfies the invariant (RecvBuf::new, FlowControl::new).
LEMMA RecvInitInv == RecvInit => RecvInv
<1> SUFFICES ASSUME RecvInit PROVE RecvInv
  OBVIOUS
<1>1. RecvTypeOK
  BY RecvBufConstants, StreamRecvConstants DEF RecvInit, RBufInit, RecvTypeOK, RBufTypeOK, ConnTypeOK, ListTypeOK
<1>a. /\ buffered = {} /\ read_off = 0 /\ recv_off = 0 /\ conn_read = 0 /\ consumed = 0
      /\ recv_max = Window /\ window = Window /\ conn_max = ConnWindow /\ conn_window = ConnWindow
      /\ recv_fin = NoOff /\ recv_phase = "open"
  BY DEF RecvInit, RBufInit
<1>b. ~fin_chunk
  BY DEF RecvInit, RBufInit
<1>c. Window \in Nat /\ MaxWindow \in Nat /\ Window <= MaxWindow /\ ConnWindow \in Nat
  BY RecvBufConstants, StreamRecvConstants
<1>2. OffsetsInOrder
  BY <1>a, <1>c DEF OffsetsInOrder
<1>5. BufferSound
  BY <1>a, <1>b, <1>c DEF BufferSound
<1>3. ReadyIsListed /\ ClosedIsRead
  BY <1>a, <1>b DEF ReadyIsListed, ClosedIsRead, RBufReady
<1>4. CreditIsDue
  <2>1. ~((recv_max - consumed) * 2 < window) /\ ~((conn_max - conn_read) * 2 < conn_window)
    BY <1>a, <1>c
  <2> QED BY <2>1 DEF CreditIsDue, ShouldSendMaxData, ConnShouldSend
<1> QED BY <1>1, <1>2, <1>3, <1>4, <1>5 DEF RecvInv

-----------------------------------------------------------------------------
(* One lemma per handler: the invariant is preserved.                      *)

\* What the connection counts as consumed keeps its half of CreditIsDue: the check
\* that follows increase_read_off() everywhere.
LEMMA ConsumeKeepsCredit ==
  ASSUME RecvTypeOK, CreditIsDue, NEW delta \in Nat, Consume(delta)
  PROVE  /\ conn_read' \in Nat /\ conn_read <= conn_read' /\ conn_read' = conn_read + delta
         /\ rx_almost_full' \in BOOLEAN
         /\ conn_max' = conn_max /\ conn_window' = conn_window
         /\ ConnShouldSend' => rx_almost_full'
<1>1. conn_read \in Nat /\ rx_almost_full \in BOOLEAN
  BY DEF RecvTypeOK, RBufTypeOK, ConnTypeOK, ListTypeOK
<1>2. conn_read' = conn_read + delta /\ conn_max' = conn_max /\ conn_window' = conn_window
  BY DEF Consume
<1>3. rx_almost_full' = (rx_almost_full \/ ConnShouldSend')
  BY DEF Consume
<1>4. rx_almost_full' \in BOOLEAN /\ (ConnShouldSend' => rx_almost_full')
  BY <1>3, Zenon
<1> QED BY <1>1, <1>2, <1>4

\* on_stream_frame_received stores only what is new, below the final size and within
\* the limit; a frame for a stream that has reached its end changes nothing.
LEMMA FrameKeepsBuffer ==
  ASSUME RecvInv, NEW off \in Nat, NEW end \in Nat, NEW fin \in BOOLEAN, off <= end,
         RBufWrite(off, end, fin)
  PROVE  /\ buffered' \in SUBSET Nat /\ fin_chunk' \in BOOLEAN
         /\ recv_off' \in Nat /\ recv_off <= recv_off'
         /\ recv_fin' \in Nat \cup {NoOff}
         /\ BufferSound'
         /\ recv_fin # NoOff => recv_fin' = recv_fin
         /\ IsFin => UNCHANGED <<buffered, fin_chunk, recv_off, recv_fin>>
         /\ UNCHANGED <<read_off, recv_error, recv_shutdown, limitVars>>
<1> DEFINE fresh == Offs(Larger(off, read_off), end) \ buffered
<1>1. UNCHANGED <<read_off, recv_error, recv_shutdown, limitVars>>
  BY DEF RBufWrite
<1>2. /\ recv_max \in Nat /\ recv_off \in Nat /\ read_off \in Nat /\ recv_fin \in Nat \cup {NoOff}
      /\ buffered \in SUBSET Nat /\ fin_chunk \in BOOLEAN /\ recv_shutdown \in BOOLEAN
  BY DEF RecvInv, RecvTypeOK, RBufTypeOK, ConnTypeOK, ListTypeOK
<1>3. CASE IsFin
  <2>1. UNCHANGED <<buffered, fin_chunk, recv_off, recv_fin>>
    BY <1>3 DEF RBufWrite
  <2>2. BufferSound' = BufferSound
    BY <1>1, <2>1 DEF BufferSound, limitVars
  <2> QED BY <1>1, <1>2, <2>1, <2>2 DEF RecvInv
<1>4. CASE ~IsFin
  <2>1. /\ end <= recv_max
        /\ recv_fin # NoOff => end <= recv_fin /\ (fin => end = recv_fin)
        /\ fin => end >= recv_off
    BY <1>2 DEF RBufWrite, WriteError
  <2>2. /\ recv_fin' = IF fin THEN end ELSE recv_fin
        /\ recv_off' = IF fresh # {} \/ (off = end /\ fin) THEN Larger(recv_off, end) ELSE recv_off
        /\ buffered' = IF recv_shutdown THEN {} ELSE buffered \cup fresh
        /\ fin_chunk' = IF off = end /\ fin
                           THEN (fin_chunk \/ ~(end - 1 \in buffered)) /\ ~recv_shutdown
                           ELSE fin_chunk /\ ~(end = recv_fin /\ end - 1 \in fresh)
    BY <1>4 DEF RBufWrite
  <2>3. \A o \in fresh : o \in Nat /\ off <= o /\ read_off <= o /\ o < end
    BY <1>2 DEF Offs, Larger
  <2> HIDE DEF fresh
  <2>4. /\ recv_off' \in Nat /\ recv_off <= recv_off' /\ recv_off' <= recv_max
        /\ fresh # {} => end <= recv_off'
        /\ recv_fin' # NoOff => recv_off' <= recv_fin'
    <3>1. recv_off <= recv_max /\ (recv_fin # NoOff => recv_off <= recv_fin)
      BY DEF RecvInv, BufferSound
    <3> QED BY <1>2, <2>1, <2>2, <3>1, RecvBufConstants DEF Larger
  <2>5. buffered' \subseteq read_off..(recv_off' - 1)
    <3>1. buffered \subseteq read_off..(recv_off - 1)
      BY DEF RecvInv, BufferSound
    <3> SUFFICES ASSUME NEW o \in buffered' PROVE o \in read_off..(recv_off' - 1)
      OBVIOUS
    <3>2. o \in buffered \/ (o \in fresh /\ fresh # {})
      BY <2>2
    <3>3. CASE o \in buffered
      <4>1. o \in read_off..(recv_off - 1)
        BY <3>1, <3>3
      <4>2. read_off \in Nat /\ recv_off \in Nat /\ recv_off' \in Nat /\ recv_off <= recv_off'
        BY <1>2, <2>4
      <4> QED BY <4>1, <4>2, WiderOffsets, ZenonT(30)
    <3>4. CASE o \in fresh /\ fresh # {}
      BY <1>2, <2>3, <2>4, <3>4
    <3> QED BY <3>2, <3>3, <3>4
  <2>6. fin_chunk' => recv_fin' # NoOff /\ recv_fin' - 1 \notin buffered'
    <3>1. fin_chunk => recv_fin # NoOff /\ recv_fin - 1 \notin buffered
      BY DEF RecvInv, BufferSound
    <3>2. CASE off = end /\ fin
      <4>1. fresh = {}
        BY <3>2, <2>3
      <4>2. recv_fin' = end /\ end # NoOff
        BY <3>2, <2>2, RecvBufConstants
      <4> QED BY <2>1, <2>2, <3>1, <3>2, <4>1, <4>2, ZenonT(30)
    <3>3. CASE ~(off = end /\ fin)
      <4> SUFFICES ASSUME fin_chunk' PROVE recv_fin' # NoOff /\ recv_fin' - 1 \notin buffered'
        OBVIOUS
      <4>1. fin_chunk /\ ~(end = recv_fin /\ end - 1 \in fresh)
        BY <2>2, <3>3, ZenonT(30)
      <4>2. recv_fin' = recv_fin /\ recv_fin \in Nat /\ end <= recv_fin
        BY <1>2, <2>1, <2>2, <3>1, <4>1
      <4>3. recv_fin - 1 \notin fresh
        BY <2>3, <4>1, <4>2
      <4> QED BY <2>2, <3>1, <4>1, <4>2, <4>3
    <3> QED BY <3>2, <3>3
  <2>7. buffered' \in SUBSET Nat /\ fin_chunk' \in BOOLEAN /\ recv_fin' \in Nat \cup {NoOff}
    BY <1>2, <2>2, <2>3, ZenonT(30)
  <2>8. recv_fin # NoOff => recv_fin' = recv_fin
    BY <2>1, <2>2
  <2> QED BY <1>1, <1>4, <2>4, <2>5, <2>6, <2>7, <2>8, ZenonT(30) DEF BufferSound, limitVars
<1> QED BY <1>3, <1>4

\* Handlers that leave the buffer alone leave what depends on it alone.
LEMMA SameRecvBuffer ==
  ASSUME UNCHANGED rbufVars
  PROVE  /\ BufferSound' = BufferSound /\ RBufReady' = RBufReady /\ IsFin' = IsFin
         /\ ShouldSendMaxData' = ShouldSendMaxData
         /\ UNCHANGED <<buffered, fin_chunk, read_off, recv_off, recv_fin, recv_error, recv_shutdown,
                        recv_max, consumed, window>>
BY DEF rbufVars, dataVars, limitVars, BufferSound, RBufReady, IsFin, ShouldSendMaxData

\* on_stream_frame_received
LEMMA FrameInv ==
  ASSUME RecvInv, NEW off \in Nat, NEW end \in Nat, NEW fin \in BOOLEAN, off <= end,
         StreamFrameReceived(off, end, fin)
  PROVE  RecvInv'
<1>1. /\ buffered' \in SUBSET Nat /\ fin_chunk' \in BOOLEAN
      /\ recv_off' \in Nat /\ recv_off <= recv_off'
      /\ recv_fin' \in Nat \cup {NoOff}
      /\ BufferSound'
      /\ recv_fin # NoOff => recv_fin' = recv_fin
      /\ IsFin => UNCHANGED <<buffered, fin_chunk, recv_off, recv_fin>>
      /\ UNCHANGED <<read_off, recv_error, recv_shutdown, recv_max, consumed, window>>
  BY FrameKeepsBuffer DEF StreamFrameReceived, limitVars
<1>2. RecvTypeOK /\ CreditIsDue /\ OffsetsInOrder /\ ReadyIsListed /\ ClosedIsRead
  BY DEF RecvInv
<1>3. UNCHANGED <<almost_full, stop, ctl_sent, recv_phase, send_done, told, conn_error>>
  BY DEF StreamFrameReceived, ctlVars
<1>4. Excess(end, recv_off) \in Nat
  BY <1>2, RecvNumbers, ExcessNat
<1>5. /\ conn_read' \in Nat /\ conn_read <= conn_read' /\ rx_almost_full' \in BOOLEAN
      /\ conn_max' = conn_max /\ conn_window' = conn_window
      /\ ConnShouldSend' => rx_almost_full'
  <2>1. CASE recv_shutdown
    <3>1. Consume(Excess(end, recv_off))
      BY <2>1 DEF StreamFrameReceived
    <3> QED BY <1>2, <1>4, <3>1, ConsumeKeepsCredit
  <2>2. CASE ~recv_shutdown
    <3>1. UNCHANGED <<conn_read, conn_max, conn_window, rx_almost_full>>
      BY <2>2 DEF StreamFrameReceived
    <3>2. ConnShouldSend' = ConnShouldSend
      BY <3>1 DEF ConnShouldSend
    <3>3. conn_read \in Nat /\ rx_almost_full \in BOOLEAN
      BY <1>2 DEF RecvTypeOK, RBufTypeOK, ConnTypeOK, ListTypeOK
    <3>4. ConnShouldSend => rx_almost_full
      BY <1>2 DEF CreditIsDue
    <3> QED BY <3>1, <3>2, <3>3, <3>4
  <2> QED BY <2>1, <2>2
<1>6. conn_recv' \in Nat
  <2>1. conn_recv' = conn_recv + Excess(end, recv_off)
    BY DEF StreamFrameReceived, Receive
  <2> QED BY <1>2, <1>4, <2>1, RecvNumbers
<1>7. readable' = (readable \/ (~RBufReady /\ RBufReady'))
  BY DEF StreamFrameReceived
<1>8. RecvTypeOK'
  <2>1. readable' \in BOOLEAN
    BY <1>7, Zenon
  <2> QED BY <1>1, <1>2, <1>3, <1>5, <1>6, <2>1, ZenonT(30) DEF RecvTypeOK, RBufTypeOK, ConnTypeOK, ListTypeOK
<1>9. OffsetsInOrder'
  <2>1. /\ read_off \in Nat /\ recv_off \in Nat /\ conn_read \in Nat
        /\ read_off <= recv_off /\ read_off <= conn_read
    BY <1>2 DEF OffsetsInOrder, RecvTypeOK, RBufTypeOK, ConnTypeOK, ListTypeOK
  <2>2. read_off <= recv_off' /\ read_off <= conn_read'
    BY <1>1, <1>5, <2>1
  <2> QED BY <1>1, <1>2, <2>2 DEF OffsetsInOrder
<1>10. ReadyIsListed'
  BY <1>2, <1>3, <1>7, Zenon DEF ReadyIsListed
<1>11. ClosedIsRead'
  BY <1>1, <1>2, <1>3 DEF ClosedIsRead, RecvIsComplete, IsFin
<1>12. CreditIsDue'
  <2>1. ShouldSendMaxData' => ShouldSendMaxData
    BY <1>1 DEF ShouldSendMaxData
  <2> QED BY <1>2, <1>3, <1>5, <2>1 DEF CreditIsDue
<1> QED BY <1>1, <1>8, <1>9, <1>10, <1>11, <1>12 DEF RecvInv

\* A frame or a reset that breaks a limit only closes the connection.
LEMMA RejectedInv ==
  ASSUME RecvInv, conn_error' \in {"FlowControlError", "FinalSizeError"},
         UNCHANGED <<rbufVars, connVars, ctlVars, listVars, told>>
  PROVE  RecvInv'
<1>1. /\ BufferSound' = BufferSound /\ RBufReady' = RBufReady /\ IsFin' = IsFin
      /\ ShouldSendMaxData' = ShouldSendMaxData
      /\ UNCHANGED <<buffered, fin_chunk, read_off, recv_off, recv_fin, recv_error, recv_shutdown,
                     recv_max, consumed, window>>
  BY SameRecvBuffer
<1>2. UNCHANGED <<conn_recv, conn_read, conn_max, conn_window, rx_almost_full, almost_full, stop,
                  ctl_sent, readable, recv_phase, send_done, told>>
  BY DEF connVars, ctlVars, listVars
<1>3. ConnShouldSend' = ConnShouldSend
  BY <1>2 DEF ConnShouldSend
<1>a. RecvTypeOK
  BY DEF RecvInv
<1>4. RecvTypeOK'
  <2>1. RBufTypeOK' = RBufTypeOK
    BY <1>1 DEF RBufTypeOK
  <2>2. ConnTypeOK' = ConnTypeOK
    BY <1>2 DEF ConnTypeOK
  <2>3. ListTypeOK'
    BY <1>2, <1>a DEF RecvTypeOK, ListTypeOK
  <2> QED BY <1>a, <2>1, <2>2, <2>3 DEF RecvTypeOK
<1>5. OffsetsInOrder' /\ ReadyIsListed' /\ ClosedIsRead' /\ CreditIsDue' /\ BufferSound'
  BY <1>1, <1>2, <1>3
     DEF RecvInv, OffsetsInOrder, ReadyIsListed, ClosedIsRead, RecvIsComplete, CreditIsDue
<1> QED BY <1>4, <1>5 DEF RecvInv

\* mark_closed() keeps the list and the phase typed, and a stream that is not
\* closed by it keeps its place.
LEMMA MarkClosedKeeps ==
  ASSUME RecvTypeOK, NEW c \in BOOLEAN, NEW r \in BOOLEAN, RecvMarkClosed(c, r)
  PROVE  /\ recv_phase' \in {"open", "closed", "destroyed"} /\ readable' \in BOOLEAN
         /\ recv_phase' = "open" => recv_phase = "open" /\ readable' = r
         /\ recv_phase' # "open" => recv_phase # "open" \/ c
<1>1. recv_phase \in {"open", "closed", "destroyed"}
  BY DEF RecvTypeOK, ListTypeOK
<1>2. CASE c /\ recv_phase = "open"
  BY <1>2 DEF RecvMarkClosed
<1>3. CASE ~(c /\ recv_phase = "open")
  BY <1>1, <1>3 DEF RecvMarkClosed
<1> QED BY <1>2, <1>3

\* stream_read
LEMMA ReadInv ==
  ASSUME RecvInv, NEW cap \in Nat, StreamRead(cap)
  PROVE  RecvInv'
<1> DEFINE e == Min({n \in read_off..(read_off + cap) : n = read_off + cap \/ n \notin buffered})
<1>1. RecvTypeOK /\ CreditIsDue /\ OffsetsInOrder /\ ReadyIsListed /\ ClosedIsRead /\ BufferSound
  BY DEF RecvInv
<1>2. /\ read_off' = e /\ buffered' = buffered \ Offs(read_off, e)
      /\ consumed' = consumed + (e - read_off)
      /\ UNCHANGED <<recv_off, recv_fin, recv_error, recv_shutdown, recv_max, window>>
  BY DEF StreamRead, RBufRead
<1>3. fin_chunk' = (fin_chunk /\ ~(e < read_off + cap /\ e = recv_fin))
  BY DEF StreamRead, RBufRead
<1>4. /\ e \in Nat /\ read_off <= e /\ e <= read_off + cap
      /\ Offs(read_off, e) \subseteq buffered
  BY <1>1, ReadTakesPrefix
<1> HIDE DEF e
<1>5. /\ RBufReady
      /\ almost_full' = (almost_full \/ ShouldSendMaxData')
      /\ Consume(e - read_off)
      /\ RecvMarkClosed(IsFin' /\ send_done, readable /\ RBufReady')
      /\ UNCHANGED <<conn_recv, stop, ctl_sent, send_done, conn_error>>
  BY <1>2 DEF StreamRead, RBufRead
<1>6. told' \in {"", "fin", "reset"}
  BY <1>1 DEF StreamRead, RecvTypeOK, ListTypeOK
<1>7. /\ read_off \in Nat /\ recv_off \in Nat /\ recv_max \in Nat /\ consumed \in Nat /\ window \in Nat
      /\ conn_read \in Nat /\ conn_recv \in Nat /\ buffered \in SUBSET Nat
      /\ buffered \subseteq read_off..(recv_off - 1)
      /\ read_off <= recv_off /\ read_off <= conn_read /\ recv_max <= consumed + window
  BY <1>1, RecvNumbers DEF OffsetsInOrder, BufferSound
<1>8. e - read_off \in Nat
  BY <1>4, <1>7
<1>9. /\ conn_read' \in Nat /\ conn_read' = conn_read + (e - read_off)
      /\ rx_almost_full' \in BOOLEAN /\ conn_max' = conn_max /\ conn_window' = conn_window
      /\ ConnShouldSend' => rx_almost_full'
  BY <1>1, <1>5, <1>8, ConsumeKeepsCredit
<1>10. e <= recv_off /\ buffered' \subseteq e..(recv_off - 1)
  <2>1. CASE e = read_off
    BY <1>2, <1>7, <2>1 DEF Offs
  <2>2. CASE read_off < e
    <3>1. e - 1 \in Offs(read_off, e)
      BY <1>4, <1>7, <2>2 DEF Offs
    <3>2. e - 1 \in read_off..(recv_off - 1)
      BY <1>4, <1>7, <3>1
    <3>3. ASSUME NEW o \in buffered' PROVE o \in e..(recv_off - 1)
      <4>1. o \in buffered /\ o \notin Offs(read_off, e)
        BY <1>2
      <4>2. o \in read_off..(recv_off - 1)
        BY <1>7, <4>1
      <4> QED BY <1>4, <1>7, <4>1, <4>2 DEF Offs
    <3> QED BY <1>4, <1>7, <3>2, <3>3
  <2> QED BY <1>4, <1>7, <2>1, <2>2
<1>11. (IsFin' /\ send_done) \in BOOLEAN /\ (readable /\ RBufReady') \in BOOLEAN
  OBVIOUS
<1>12. /\ recv_phase' \in {"open", "closed", "destroyed"} /\ readable' \in BOOLEAN
       /\ recv_phase' = "open" => recv_phase = "open" /\ readable' = (readable /\ RBufReady')
       /\ recv_phase' # "open" => recv_phase # "open" \/ (IsFin' /\ send_done)
  BY <1>1, <1>5, <1>11, MarkClosedKeeps, ZenonT(30)
<1>13. RecvTypeOK'
  <2>1. fin_chunk' \in BOOLEAN /\ almost_full' \in BOOLEAN
    BY <1>3, <1>5, Zenon
  <2>2. consumed' \in Nat
    BY <1>2, <1>7, <1>8
  <2>3. RBufTypeOK'
    BY <1>1, <1>2, <1>4, <2>1, <2>2, ZenonT(30) DEF RecvTypeOK, RBufTypeOK
  <2>4. ConnTypeOK'
    BY <1>1, <1>5, <1>9 DEF RecvTypeOK, ConnTypeOK
  <2>5. ListTypeOK'
    BY <1>1, <1>5, <1>6, <1>12, <2>1 DEF RecvTypeOK, ListTypeOK
  <2> QED BY <2>3, <2>4, <2>5 DEF RecvTypeOK
<1>14. OffsetsInOrder'
  <2>1. e <= recv_off /\ e <= conn_read + (e - read_off) /\ recv_max <= (consumed + (e - read_off)) + window
    BY <1>4, <1>7, <1>10
  <2>2. window <= MaxWindow
    BY <1>1 DEF OffsetsInOrder
  <2> QED BY <1>2, <1>9, <2>1, <2>2 DEF OffsetsInOrder
<1>15. BufferSound'
  <2>1. fin_chunk' => fin_chunk
    BY <1>3, Zenon
  <2>2. buffered' \subseteq buffered
    BY <1>2
  <2>3. /\ recv_off <= recv_max /\ (recv_fin # NoOff => recv_off <= recv_fin)
        /\ (fin_chunk => recv_fin # NoOff /\ recv_fin - 1 \notin buffered)
    BY <1>1 DEF BufferSound
  <2> QED BY <1>2, <1>10, <2>1, <2>2, <2>3 DEF BufferSound
<1>16. ReadyIsListed'
  BY <1>1, <1>5, <1>12, Zenon DEF ReadyIsListed
<1>17. ClosedIsRead'
  <2> SUFFICES ASSUME recv_phase' # "open" PROVE recv_fin' = read_off' /\ send_done' /\ buffered' = {}
    BY DEF ClosedIsRead, RecvIsComplete, IsFin
  <2>1. CASE recv_phase # "open"
    <3>1. recv_fin = read_off /\ send_done /\ buffered = {}
      BY <1>1, <2>1 DEF ClosedIsRead, RecvIsComplete, IsFin
    <3>2. e = read_off
      BY <1>4, <1>7, <3>1 DEF Offs
    <3> QED BY <1>2, <1>5, <3>1, <3>2
  <2>2. CASE IsFin' /\ send_done
    <3>1. recv_fin = e
      BY <1>2, <2>2 DEF IsFin
    <3>2. recv_off <= e
      BY <1>1, <1>4, <3>1, RecvBufConstants DEF BufferSound
    <3>3. buffered' = {}
      BY <1>4, <1>7, <1>10, <3>2
    <3> QED BY <1>2, <1>5, <2>2, <3>1, <3>3
  <2> QED BY <1>12, <2>1, <2>2
<1>18. CreditIsDue'
  BY <1>5, <1>9, Zenon DEF CreditIsDue
<1> QED BY <1>13, <1>14, <1>15, <1>16, <1>17, <1>18 DEF RecvInv

\* stream_read of a stream that was reset: nothing is left to read.
LEMMA ReadResetInv ==
  ASSUME RecvInv, StreamReadReset
  PROVE  RecvInv'
<1>1. RecvTypeOK /\ CreditIsDue /\ OffsetsInOrder /\ ReadyIsListed /\ ClosedIsRead /\ BufferSound
  BY DEF RecvInv
<1>2. /\ buffered' = {} /\ fin_chunk' = FALSE
      /\ UNCHANGED <<read_off, recv_off, recv_fin, recv_error, recv_shutdown, recv_max, consumed, window>>
  BY DEF StreamReadReset, RBufReadReset, limitVars
<1>3. /\ told' = "reset" /\ RecvMarkClosed(RecvIsComplete, FALSE)
      /\ UNCHANGED <<conn_recv, conn_read, conn_max, conn_window, rx_almost_full, almost_full, stop,
                     ctl_sent, send_done, conn_error>>
  BY DEF StreamReadReset, connVars, ctlVars
<1>4. /\ recv_phase' \in {"open", "closed", "destroyed"} /\ readable' \in BOOLEAN
      /\ recv_phase' # "open" => recv_phase # "open" \/ RecvIsComplete
  <2>1. RecvIsComplete \in BOOLEAN
    BY DEF RecvIsComplete
  <2> QED BY <1>1, <1>3, <2>1, MarkClosedKeeps, ZenonT(30)
<1>5. RecvTypeOK'
  <2>1. RBufTypeOK'
    BY <1>1, <1>2, ZenonT(30) DEF RecvTypeOK, RBufTypeOK
  <2>2. ConnTypeOK'
    BY <1>1, <1>3 DEF RecvTypeOK, ConnTypeOK
  <2>3. ListTypeOK'
    BY <1>1, <1>3, <1>4 DEF RecvTypeOK, ListTypeOK
  <2> QED BY <2>1, <2>2, <2>3 DEF RecvTypeOK
<1>6. OffsetsInOrder'
  BY <1>1, <1>2, <1>3 DEF OffsetsInOrder
<1>7. BufferSound' /\ ~RBufReady'
  <2>1. ~fin_chunk'
    BY <1>2
  <2> QED BY <1>1, <1>2, <2>1 DEF BufferSound, RBufReady
<1>8. ReadyIsListed'
  BY <1>7 DEF ReadyIsListed
<1>9. ClosedIsRead'
  BY <1>1, <1>2, <1>3, <1>4 DEF ClosedIsRead, RecvIsComplete, IsFin
<1>10. CreditIsDue'
  <2>1. ShouldSendMaxData' = ShouldSendMaxData /\ ConnShouldSend' = ConnShouldSend
    BY <1>2, <1>3 DEF ShouldSendMaxData, ConnShouldSend
  <2> QED BY <1>1, <1>3, <2>1 DEF CreditIsDue
<1> QED BY <1>5, <1>6, <1>7, <1>8, <1>9, <1>10 DEF RecvInv

\* on_reset_stream_frame_received
LEMMA ResetInv ==
  ASSUME RecvInv, NEW final \in Nat, ResetFrameReceived(final)
  PROVE  RecvInv'
<1>1. RecvTypeOK /\ CreditIsDue /\ OffsetsInOrder /\ ReadyIsListed /\ ClosedIsRead /\ BufferSound
  BY DEF RecvInv
<1>2. /\ RBufReset(final) /\ Receive(final - recv_off) /\ Consume(Excess(final, read_off))
      /\ RecvMarkClosed(IsFin' /\ send_done /\ ~RBufReady', readable \/ (~RBufReady /\ RBufReady'))
      /\ UNCHANGED <<almost_full, stop, ctl_sent, send_done, told, conn_error>>
  BY DEF ResetFrameReceived, ctlVars
<1>3. /\ read_off \in Nat /\ recv_off \in Nat /\ recv_max \in Nat /\ consumed \in Nat /\ window \in Nat
      /\ conn_read \in Nat /\ conn_recv \in Nat /\ buffered \in SUBSET Nat
      /\ read_off <= recv_off /\ read_off <= conn_read /\ recv_off <= recv_max
      /\ buffered \subseteq read_off..(recv_off - 1)
      /\ (recv_fin # NoOff => recv_off <= recv_fin)
  BY <1>1, RecvNumbers DEF OffsetsInOrder, BufferSound
<1>4. /\ recv_off <= final /\ (recv_fin # NoOff => recv_fin = final)
      /\ (~recv_error => final <= recv_max)
  <2>1. ResetError(final) = ""
    BY <1>2 DEF RBufReset
  <2> QED BY <1>3, <2>1 DEF ResetError
<1>5. conn_recv' \in Nat
  BY <1>2, <1>3, <1>4 DEF Receive
<1>6. Excess(final, read_off) = final - read_off /\ final - read_off \in Nat
  BY <1>3, <1>4, ExcessNat
<1>7. /\ conn_read' \in Nat /\ conn_read' = conn_read + (final - read_off)
      /\ rx_almost_full' \in BOOLEAN /\ conn_max' = conn_max /\ conn_window' = conn_window
      /\ ConnShouldSend' => rx_almost_full'
  BY <1>1, <1>2, <1>6, ConsumeKeepsCredit
<1>8. UNCHANGED <<recv_max, consumed, window>>
  BY <1>2 DEF RBufReset, limitVars
<1>9. \/ /\ recv_error /\ UNCHANGED <<buffered, fin_chunk, read_off, recv_off, recv_fin, recv_error, recv_shutdown>>
      \/ /\ ~recv_error /\ recv_error' = TRUE /\ buffered' = {} /\ fin_chunk' \in BOOLEAN
         /\ recv_fin' = final /\ recv_off' = final /\ read_off' = final /\ recv_shutdown' = recv_shutdown
  <2>1. CASE recv_error
    BY <1>2, <2>1 DEF RBufReset, dataVars
  <2>2. CASE ~recv_error
    <3>1. fin_chunk' = (~IsFin /\ ~recv_shutdown)
      BY <1>2, <2>2 DEF RBufReset
    <3>2. fin_chunk' \in BOOLEAN
      BY <3>1, Zenon
    <3> QED BY <1>2, <2>2, <3>2 DEF RBufReset
  <2> QED BY <2>1, <2>2, ZenonT(30)
<1>10. RBufTypeOK'
  BY <1>1, <1>8, <1>9, ZenonT(30) DEF RecvTypeOK, RBufTypeOK
<1>11. BufferSound'
  <2>1. CASE recv_error /\ UNCHANGED <<buffered, fin_chunk, read_off, recv_off, recv_fin, recv_error, recv_shutdown>>
    BY <1>1, <1>8, <2>1 DEF BufferSound
  <2>2. CASE ~recv_error /\ buffered' = {} /\ recv_fin' = final /\ recv_off' = final /\ read_off' = final
    <3>1. final # NoOff /\ final <= recv_max
      BY <1>4, <2>2, RecvBufConstants
    <3> QED BY <1>8, <2>2, <3>1 DEF BufferSound
  <2> QED BY <1>9, <2>1, <2>2
<1>12. OffsetsInOrder'
  <2>1. read_off <= conn_read + (final - read_off) /\ final <= conn_read + (final - read_off)
    BY <1>3, <1>4
  <2>2. read_off' <= recv_off' /\ read_off' <= conn_read'
    BY <1>3, <1>7, <1>9, <2>1
  <2> QED BY <1>1, <1>8, <2>2 DEF OffsetsInOrder
<1>13. (IsFin' /\ send_done /\ ~RBufReady') \in BOOLEAN /\ (readable \/ (~RBufReady /\ RBufReady')) \in BOOLEAN
  OBVIOUS
<1>14. /\ recv_phase' \in {"open", "closed", "destroyed"} /\ readable' \in BOOLEAN
       /\ recv_phase' = "open" => recv_phase = "open" /\ readable' = (readable \/ (~RBufReady /\ RBufReady'))
       /\ recv_phase' # "open" => recv_phase # "open" \/ (IsFin' /\ send_done /\ ~RBufReady')
  BY <1>1, <1>2, <1>13, MarkClosedKeeps, ZenonT(30)
<1>15. RecvTypeOK'
  <2>1. ConnTypeOK'
    BY <1>1, <1>5, <1>7 DEF RecvTypeOK, ConnTypeOK
  <2>2. ListTypeOK'
    BY <1>1, <1>2, <1>14 DEF RecvTypeOK, ListTypeOK
  <2> QED BY <1>10, <2>1, <2>2 DEF RecvTypeOK
<1>16. ReadyIsListed'
  BY <1>1, <1>14, Zenon DEF ReadyIsListed
<1>17. ClosedIsRead'
  <2> SUFFICES ASSUME recv_phase' # "open" PROVE recv_fin' = read_off' /\ send_done' /\ buffered' = {}
    BY DEF ClosedIsRead, RecvIsComplete, IsFin
  <2>1. send_done' = send_done
    BY <1>2
  <2>2. CASE recv_phase # "open"
    <3>1. recv_fin = read_off /\ send_done /\ buffered = {}
      BY <1>1, <2>2 DEF ClosedIsRead, RecvIsComplete, IsFin
    <3> QED BY <1>9, <2>1, <3>1
  <2>3. CASE IsFin' /\ send_done
    <3>1. recv_fin' = read_off'
      BY <2>3 DEF IsFin
    <3>2. recv_error /\ UNCHANGED <<buffered, read_off, recv_fin>> => buffered = {}
      BY <1>3, <3>1, RecvBufConstants
    <3> QED BY <1>9, <2>1, <2>3, <3>1, <3>2
  <2> QED BY <1>14, <2>2, <2>3
<1>18. CreditIsDue'
  <2>1. ShouldSendMaxData' => ShouldSendMaxData
    BY <1>8, <1>9, RecvBufConstants DEF ShouldSendMaxData
  <2> QED BY <1>1, <1>2, <1>7, <2>1 DEF CreditIsDue
<1> QED BY <1>11, <1>12, <1>15, <1>16, <1>17, <1>18 DEF RecvInv

\* stream_shutdown(Shutdown::Read)
LEMMA ShutdownReadInv ==
  ASSUME RecvInv, ShutdownRead
  PROVE  RecvInv'
<1>1. RecvTypeOK /\ CreditIsDue /\ OffsetsInOrder /\ ReadyIsListed /\ ClosedIsRead /\ BufferSound
  BY DEF RecvInv
<1>2. /\ recv_shutdown' = TRUE /\ buffered' = {} /\ fin_chunk' = FALSE /\ read_off' = recv_off
      /\ UNCHANGED <<recv_off, recv_fin, recv_error, recv_max, consumed, window>>
  BY DEF ShutdownRead, RBufShutdown, limitVars
<1>3. /\ stop' = (stop \/ ~IsFin') /\ readable' = FALSE /\ Consume(recv_off - read_off)
      /\ UNCHANGED <<conn_recv, almost_full, ctl_sent, recv_phase, send_done, told, conn_error>>
  BY DEF ShutdownRead
<1>4. /\ read_off \in Nat /\ recv_off \in Nat /\ conn_read \in Nat /\ recv_max \in Nat
      /\ read_off <= recv_off /\ read_off <= conn_read /\ recv_off <= recv_max
      /\ (recv_fin # NoOff => recv_off <= recv_fin)
  BY <1>1, RecvNumbers DEF OffsetsInOrder, BufferSound
<1>5. recv_off - read_off \in Nat /\ recv_off <= conn_read + (recv_off - read_off)
  BY <1>4
<1>6. /\ conn_read' \in Nat /\ conn_read' = conn_read + (recv_off - read_off)
      /\ rx_almost_full' \in BOOLEAN /\ conn_max' = conn_max /\ conn_window' = conn_window
      /\ ConnShouldSend' => rx_almost_full'
  BY <1>1, <1>3, <1>5, ConsumeKeepsCredit
<1>7. RecvTypeOK'
  <2>1. RBufTypeOK'
    BY <1>1, <1>2, ZenonT(30) DEF RecvTypeOK, RBufTypeOK
  <2>2. ConnTypeOK'
    BY <1>1, <1>3, <1>6 DEF RecvTypeOK, ConnTypeOK
  <2>3. stop' \in BOOLEAN
    BY <1>3, Zenon
  <2>4. ListTypeOK'
    BY <1>1, <1>3, <2>3 DEF RecvTypeOK, ListTypeOK
  <2> QED BY <2>1, <2>2, <2>4 DEF RecvTypeOK
<1>8. OffsetsInOrder'
  BY <1>1, <1>2, <1>4, <1>5, <1>6 DEF OffsetsInOrder
<1>9. BufferSound' /\ ~RBufReady'
  <2>1. ~fin_chunk'
    BY <1>2
  <2> QED BY <1>2, <1>4, <2>1 DEF BufferSound, RBufReady
<1>10. ReadyIsListed'
  BY <1>9 DEF ReadyIsListed
<1>11. ClosedIsRead'
  <2> SUFFICES ASSUME recv_phase' # "open" PROVE recv_fin' = read_off' /\ send_done' /\ buffered' = {}
    BY DEF ClosedIsRead, RecvIsComplete, IsFin
  <2>1. recv_fin = read_off /\ send_done
    BY <1>1, <1>3 DEF ClosedIsRead, RecvIsComplete, IsFin
  <2>2. recv_fin = recv_off
    BY <1>4, <2>1, RecvBufConstants
  <2> QED BY <1>2, <1>3, <2>1, <2>2
<1>12. CreditIsDue'
  <2>1. ShouldSendMaxData' = ShouldSendMaxData
    BY <1>2 DEF ShouldSendMaxData
  <2> QED BY <1>1, <1>3, <1>6, <2>1 DEF CreditIsDue
<1> QED BY <1>7, <1>8, <1>9, <1>10, <1>11, <1>12 DEF RecvInv

\* The handlers of control frames leave the buffer alone, and mostly the list and
\* the phase of the stream too.
LEMMA ControlInv ==
  ASSUME RecvInv, UNCHANGED rbufVars, conn_read' = conn_read,
         UNCHANGED <<readable, recv_phase, send_done>>,
         ConnTypeOK', ListTypeOK', CreditIsDue'
  PROVE  RecvInv'
<1>1. /\ BufferSound' = BufferSound /\ RBufReady' = RBufReady /\ IsFin' = IsFin
      /\ UNCHANGED <<buffered, fin_chunk, read_off, recv_off, recv_fin, recv_error, recv_shutdown,
                     recv_max, consumed, window>>
  BY SameRecvBuffer
<1>2. RecvTypeOK /\ OffsetsInOrder /\ ReadyIsListed /\ ClosedIsRead /\ BufferSound
  BY DEF RecvInv
<1>3. RBufTypeOK' = RBufTypeOK
  BY <1>1 DEF RBufTypeOK
<1>4. OffsetsInOrder' = OffsetsInOrder
  BY <1>1 DEF OffsetsInOrder
<1>5. ReadyIsListed' /\ ClosedIsRead'
  BY <1>1, <1>2 DEF ReadyIsListed, ClosedIsRead, RecvIsComplete
<1> QED BY <1>1, <1>2, <1>3, <1>4, <1>5 DEF RecvInv, RecvTypeOK

\* A window is at least one, so a limit that was just extended is not due again.
LEMMA FreshLimitNotDue ==
  ASSUME NEW used \in Nat, NEW w \in Nat
  PROVE  ~(((used + w) - used) * 2 < w)
OBVIOUS

\* Sending MAX_STREAM_DATA.
LEMMA SendMaxStreamDataInv ==
  ASSUME RecvInv, NEW tuned \in Nat, SendMaxStreamData(tuned)
  PROVE  RecvInv'
<1>1. RecvTypeOK /\ CreditIsDue /\ OffsetsInOrder /\ ReadyIsListed /\ ClosedIsRead /\ BufferSound
  BY DEF RecvInv
<1>2. /\ tuned \in TunedWindows /\ window' = tuned /\ recv_max' = consumed + tuned /\ consumed' = consumed
      /\ UNCHANGED <<buffered, fin_chunk, read_off, recv_off, recv_fin, recv_error, recv_shutdown>>
  BY DEF SendMaxStreamData, RBufUpdateMaxData, dataVars
<1>3. /\ almost_full' = FALSE /\ ctl_sent' = ctl_sent \cup {"max_stream_data"}
      /\ conn_window' = Larger(conn_window, (tuned * 3) \div 2) /\ rx_almost_full' = TRUE
      /\ UNCHANGED <<conn_recv, conn_read, conn_max, stop, readable, recv_phase, send_done, told, conn_error>>
  BY DEF SendMaxStreamData, listVars
<1>4. window <= tuned /\ tuned <= MaxWindow
  BY <1>1, <1>2, TunedIsLarger DEF OffsetsInOrder
<1>5. /\ recv_max \in Nat /\ consumed \in Nat /\ window \in Nat /\ recv_off \in Nat /\ conn_window \in Nat
      /\ recv_max <= consumed + window /\ recv_off <= recv_max
  BY <1>1, RecvNumbers DEF OffsetsInOrder, BufferSound
<1>6. recv_off <= consumed + tuned /\ consumed + tuned \in Nat
  BY <1>4, <1>5
<1>7. conn_window' \in Nat
  BY <1>3, <1>5 DEF Larger
<1>8. RecvTypeOK'
  <2>1. RBufTypeOK'
    BY <1>1, <1>2, <1>6 DEF RecvTypeOK, RBufTypeOK
  <2>2. ConnTypeOK'
    BY <1>1, <1>3, <1>7 DEF RecvTypeOK, ConnTypeOK
  <2>3. ListTypeOK'
    BY <1>1, <1>3 DEF RecvTypeOK, ListTypeOK
  <2> QED BY <2>1, <2>2, <2>3 DEF RecvTypeOK
<1>9. OffsetsInOrder'
  BY <1>1, <1>2, <1>3, <1>4, <1>5, <1>6 DEF OffsetsInOrder
<1>10. BufferSound'
  <2>1. recv_off' <= recv_max'
    BY <1>2, <1>6
  <2> QED BY <1>1, <1>2, <2>1 DEF BufferSound
<1>11. ReadyIsListed' /\ ClosedIsRead'
  <2>1. RBufReady' = RBufReady /\ IsFin' = IsFin
    BY <1>2 DEF RBufReady, IsFin
  <2> QED BY <1>1, <1>2, <1>3, <2>1 DEF ReadyIsListed, ClosedIsRead, RecvIsComplete
<1>12. CreditIsDue'
  <2>1. ~((recv_max' - consumed') * 2 < window')
    BY <1>2, <1>5, FreshLimitNotDue
  <2> QED BY <1>3, <2>1 DEF CreditIsDue, ShouldSendMaxData
<1> QED BY <1>8, <1>9, <1>10, <1>11, <1>12 DEF RecvInv

\* autotune_window() when the frame does not fit.
LEMMA NoRoomForMaxStreamDataInv ==
  ASSUME RecvInv, NEW tuned \in Nat, NoRoomForMaxStreamData(tuned)
  PROVE  RecvInv'
<1>1. RecvTypeOK /\ CreditIsDue /\ OffsetsInOrder /\ ReadyIsListed /\ ClosedIsRead /\ BufferSound
  BY DEF RecvInv
<1>2. /\ tuned \in TunedWindows /\ window' = tuned
      /\ UNCHANGED <<recv_max, consumed, buffered, fin_chunk, read_off, recv_off, recv_fin, recv_error, recv_shutdown>>
  BY DEF NoRoomForMaxStreamData, RBufAutotune, dataVars
<1>3. UNCHANGED <<conn_recv, conn_read, conn_max, conn_window, rx_almost_full, almost_full, stop, ctl_sent,
                  readable, recv_phase, send_done, told, conn_error>>
  BY DEF NoRoomForMaxStreamData, connVars, ctlVars, listVars
<1>4. window <= tuned /\ tuned <= MaxWindow
  BY <1>1, <1>2, TunedIsLarger DEF OffsetsInOrder
<1>5. recv_max <= consumed + tuned
  <2>1. recv_max \in Nat /\ consumed \in Nat /\ window \in Nat /\ recv_max <= consumed + window
    BY <1>1, RecvNumbers DEF OffsetsInOrder
  <2> QED BY <1>4, <2>1
<1>6. RecvTypeOK'
  <2>1. RBufTypeOK'
    BY <1>1, <1>2 DEF RecvTypeOK, RBufTypeOK
  <2>2. ConnTypeOK' = ConnTypeOK /\ ListTypeOK' = ListTypeOK
    BY <1>3 DEF ConnTypeOK, ListTypeOK
  <2> QED BY <1>1, <2>1, <2>2 DEF RecvTypeOK
<1>7. OffsetsInOrder' /\ BufferSound'
  BY <1>1, <1>2, <1>3, <1>4, <1>5 DEF OffsetsInOrder, BufferSound
<1>8. ReadyIsListed' /\ ClosedIsRead'
  <2>1. RBufReady' = RBufReady /\ IsFin' = IsFin
    BY <1>2 DEF RBufReady, IsFin
  <2> QED BY <1>1, <1>2, <1>3, <2>1 DEF ReadyIsListed, ClosedIsRead, RecvIsComplete
<1>9. CreditIsDue'
  <2>1. almost_full' /\ ConnShouldSend' = ConnShouldSend
    BY <1>3 DEF NoRoomForMaxStreamData, ConnShouldSend
  <2> QED BY <1>1, <1>3, <2>1 DEF CreditIsDue
<1> QED BY <1>6, <1>7, <1>8, <1>9 DEF RecvInv

\* Sending MAX_DATA, or tuning the connection's window when it does not fit.
LEMMA MaxDataInv ==
  ASSUME RecvInv, NEW tuned \in Nat, SendMaxData(tuned) \/ NoRoomForMaxData(tuned)
  PROVE  RecvInv'
<1>1. RecvTypeOK /\ CreditIsDue
  BY DEF RecvInv
<1>2. /\ UNCHANGED rbufVars /\ conn_read' = conn_read
      /\ UNCHANGED <<conn_recv, almost_full, stop, readable, recv_phase, send_done, told, conn_error>>
      /\ conn_window' = tuned
  BY DEF SendMaxData, NoRoomForMaxData, ctlVars, listVars
<1>3. ShouldSendMaxData' = ShouldSendMaxData
  BY <1>2, SameRecvBuffer
<1>4. conn_read \in Nat /\ conn_max \in Nat
  BY <1>1, RecvNumbers
<1>5. CASE SendMaxData(tuned)
  <2>1. conn_max' = conn_read + tuned /\ rx_almost_full' = FALSE /\ ctl_sent' = ctl_sent \cup {"max_data"}
    BY <1>5 DEF SendMaxData
  <2>5. conn_read + tuned \in Nat
    BY <1>4
  <2>6. ConnTypeOK'
    BY <1>1, <1>2, <2>1, <2>5, ZenonT(30) DEF RecvTypeOK, ConnTypeOK
  <2>7. ListTypeOK'
    BY <1>1, <1>2, <2>1 DEF RecvTypeOK, ListTypeOK
  <2>3. ~((conn_max' - conn_read') * 2 < conn_window')
    BY <1>2, <1>4, <2>1, FreshLimitNotDue
  <2>4. CreditIsDue'
    BY <1>1, <1>2, <1>3, <2>3 DEF CreditIsDue, ConnShouldSend
  <2> QED BY <1>2, <2>4, <2>6, <2>7, ControlInv
<1>6. CASE NoRoomForMaxData(tuned)
  <2>1. conn_max' = conn_max /\ rx_almost_full' = rx_almost_full /\ ctl_sent' = ctl_sent /\ rx_almost_full
    BY <1>6 DEF NoRoomForMaxData, NeedSendMaxData, ctlVars
  <2>2. ConnTypeOK' /\ ListTypeOK'
    BY <1>1, <1>2, <2>1 DEF RecvTypeOK, ConnTypeOK, ListTypeOK
  <2>4. CreditIsDue'
    BY <1>1, <1>2, <1>3, <2>1 DEF CreditIsDue
  <2> QED BY <1>2, <2>2, <2>4, ControlInv
<1> QED BY <1>5, <1>6

\* The due marks and the lost control frames: they can only ask for more frames.
LEMMA DueFrameInv ==
  ASSUME RecvInv,
         MaxDataLost \/ MaxStreamDataLost \/ SendStopSending \/ StopSendingLost
  PROVE  RecvInv'
<1>1. RecvTypeOK /\ CreditIsDue
  BY DEF RecvInv
<1>2. /\ UNCHANGED rbufVars
      /\ UNCHANGED <<conn_recv, conn_read, conn_max, conn_window, readable, recv_phase, send_done, told, conn_error>>
  BY DEF MaxDataLost, MaxStreamDataLost, SendStopSending, StopSendingLost, connVars, listVars
<1>3. /\ rx_almost_full' = rx_almost_full \/ rx_almost_full' = TRUE
      /\ almost_full' = almost_full \/ almost_full' = TRUE
      /\ stop' \in BOOLEAN
      /\ ctl_sent' = ctl_sent \/ ctl_sent' = ctl_sent \cup {"stop_sending"}
  <2>1. stop \in BOOLEAN
    BY <1>1 DEF RecvTypeOK, ListTypeOK
  <2>2. CASE StopSendingLost
    BY <2>1, <2>2, Zenon DEF StopSendingLost, connVars
  <2> QED BY <2>1, <2>2 DEF MaxDataLost, MaxStreamDataLost, SendStopSending, connVars, ctlVars
<1>4. ConnTypeOK'
  BY <1>1, <1>2, <1>3, ZenonT(30) DEF RecvTypeOK, ConnTypeOK
<1>5. ListTypeOK'
  BY <1>1, <1>2, <1>3 DEF RecvTypeOK, ListTypeOK
<1>6. ShouldSendMaxData' = ShouldSendMaxData /\ ConnShouldSend' = ConnShouldSend
  BY <1>2, SameRecvBuffer DEF ConnShouldSend
<1>7. CreditIsDue'
  BY <1>1, <1>3, <1>6 DEF CreditIsDue
<1> QED BY <1>2, <1>4, <1>5, <1>7, ControlInv

\* Forgetting a destroyed stream loses no credit: its final size is known.
LEMMA SkipMaxStreamDataInv ==
  ASSUME RecvInv, SkipMaxStreamData
  PROVE  RecvInv'
<1>1. RecvTypeOK /\ CreditIsDue /\ ClosedIsRead
  BY DEF RecvInv
<1>2. /\ UNCHANGED rbufVars /\ almost_full' = FALSE
      /\ UNCHANGED <<conn_recv, conn_read, conn_max, conn_window, rx_almost_full, stop, ctl_sent,
                     readable, recv_phase, send_done, told, conn_error>>
      /\ recv_phase = "destroyed"
  BY DEF SkipMaxStreamData, connVars, listVars
<1>3. ConnTypeOK' /\ ListTypeOK'
  BY <1>1, <1>2 DEF RecvTypeOK, ConnTypeOK, ListTypeOK
<1>4. recv_fin = read_off
  BY <1>1, <1>2 DEF ClosedIsRead, RecvIsComplete, IsFin
<1>5. ~ShouldSendMaxData
  BY <1>1, <1>4, RecvNumbers, RecvBufConstants DEF ShouldSendMaxData
<1>6. ShouldSendMaxData' = ShouldSendMaxData /\ ConnShouldSend' = ConnShouldSend
  BY <1>2, SameRecvBuffer DEF ConnShouldSend
<1>7. CreditIsDue'
  BY <1>1, <1>2, <1>5, <1>6 DEF CreditIsDue
<1> QED BY <1>2, <1>3, <1>7, ControlInv

\* Handlers of the phase of the stream: buffer and credit stay as they are.
LEMMA PhaseInv ==
  ASSUME RecvInv, UNCHANGED <<rbufVars, connVars, ctlVars>>,
         ListTypeOK', ReadyIsListed', ClosedIsRead'
  PROVE  RecvInv'
<1>0. UNCHANGED rbufVars /\ UNCHANGED <<conn_recv, conn_read, conn_max, conn_window, rx_almost_full, almost_full>>
  BY DEF connVars, ctlVars
<1>1. /\ BufferSound' = BufferSound /\ ShouldSendMaxData' = ShouldSendMaxData
      /\ UNCHANGED <<buffered, fin_chunk, read_off, recv_off, recv_fin, recv_error, recv_shutdown,
                     recv_max, consumed, window>>
  BY <1>0, SameRecvBuffer
<1>2. RBufTypeOK' = RBufTypeOK /\ ConnTypeOK' = ConnTypeOK /\ OffsetsInOrder' = OffsetsInOrder
  BY <1>0, <1>1 DEF RBufTypeOK, ConnTypeOK, OffsetsInOrder
<1>3. CreditIsDue' = CreditIsDue
  <2>1. ConnShouldSend' = ConnShouldSend
    BY <1>0 DEF ConnShouldSend
  <2> QED BY <1>0, <1>1, <2>1 DEF CreditIsDue
<1> QED BY <1>1, <1>2, <1>3 DEF RecvInv, RecvTypeOK

\* The sending half completes: the stream closes if everything was read.
LEMMA SendHalfDoneInv ==
  ASSUME RecvInv, SendHalfDone
  PROVE  RecvInv'
<1>1. RecvTypeOK /\ BufferSound /\ ReadyIsListed /\ ClosedIsRead /\ OffsetsInOrder
  BY DEF RecvInv
<1>2. /\ UNCHANGED <<rbufVars, connVars, ctlVars>> /\ UNCHANGED <<rbufVars>> /\ UNCHANGED rbufVars
      /\ send_done' = TRUE
      /\ UNCHANGED <<almost_full, stop, ctl_sent, told, conn_error>>
  BY DEF SendHalfDone, ctlVars
<1>3. /\ BufferSound' = BufferSound /\ RBufReady' = RBufReady /\ IsFin' = IsFin
      /\ UNCHANGED <<buffered, fin_chunk, read_off, recv_off, recv_fin>>
  BY <1>2, SameRecvBuffer
<1> DEFINE closing == IsFin /\ ~RBufReady /\ recv_phase = "open"
<1>4. /\ recv_phase' = IF closing THEN "closed" ELSE recv_phase
      /\ readable' = (readable /\ ~closing)
  BY DEF SendHalfDone, RecvMarkClosed
<1>5. ~send_done
  BY DEF SendHalfDone
<1>6. recv_phase = "open"
  BY <1>1, <1>5 DEF ClosedIsRead, RecvIsComplete
<1>7. IsFin => buffered = {}
  <2> SUFFICES ASSUME IsFin PROVE buffered = {}
    OBVIOUS
  <2>1. recv_fin = read_off /\ read_off \in Nat /\ recv_off \in Nat
    BY <1>1, RecvNumbers DEF IsFin
  <2>2. recv_off <= read_off /\ buffered \subseteq read_off..(recv_off - 1)
    BY <1>1, <2>1, RecvBufConstants DEF BufferSound
  <2> QED BY <2>1, <2>2
<1>8. closing \in BOOLEAN /\ readable \in BOOLEAN
  BY <1>1 DEF RecvTypeOK, ListTypeOK
<1> HIDE DEF closing
<1>9. readable' \in BOOLEAN
  BY <1>4, <1>8, Zenon
<1>10. ListTypeOK'
  BY <1>1, <1>2, <1>4, <1>9 DEF RecvTypeOK, ListTypeOK
<1>11. ReadyIsListed'
  BY <1>1, <1>3, <1>4, <1>6 DEF ReadyIsListed, closing
<1>12. ClosedIsRead'
  BY <1>2, <1>3, <1>4, <1>6, <1>7 DEF ClosedIsRead, RecvIsComplete, closing
<1> QED BY <1>2, <1>10, <1>11, <1>12, PhaseInv

\* stream_destroy after the StreamClosed event.
LEMMA RecvDestroyInv ==
  ASSUME RecvInv, RecvDestroy
  PROVE  RecvInv'
<1>1. RecvTypeOK /\ ReadyIsListed /\ ClosedIsRead
  BY DEF RecvInv
<1>2. /\ UNCHANGED <<rbufVars, connVars, ctlVars>> /\ UNCHANGED rbufVars
      /\ UNCHANGED <<almost_full, stop, ctl_sent, readable, send_done, told, conn_error>>
      /\ recv_phase = "closed" /\ recv_phase' = "destroyed"
  BY DEF RecvDestroy, ctlVars
<1>3. RBufReady' = RBufReady /\ IsFin' = IsFin /\ buffered' = buffered
  BY <1>2, SameRecvBuffer
<1>4. ListTypeOK'
  BY <1>1, <1>2 DEF RecvTypeOK, ListTypeOK
<1>5. ReadyIsListed' /\ ClosedIsRead'
  BY <1>1, <1>2, <1>3 DEF ReadyIsListed, ClosedIsRead, RecvIsComplete
<1> QED BY <1>2, <1>4, <1>5, PhaseInv

-----------------------------------------------------------------------------
(* The invariant holds, and what follows from it.                          *)

\* A refused frame closes the connection with one of two errors.
LEMMA RejectionErrors ==
  ASSUME NEW end, NEW fin
  PROVE  /\ WriteError(end, fin) \in {"", "FlowControlError", "FinalSizeError"}
         /\ ResetError(end) \in {"", "FlowControlError", "FinalSizeError"}
<1>1. WriteError(end, fin) \in {"", "FlowControlError", "FinalSizeError"}
  BY DEF WriteError
<1>2. ResetError(end) \in {"", "FlowControlError", "FinalSizeError"}
  BY DEF ResetError
<1> QED BY <1>1, <1>2

\* Every handler of the receiving half preserves the invariant.
LEMMA RecvNextInv == RecvInv /\ [RecvNext]_recvVars => RecvInv'
<1> SUFFICES ASSUME RecvInv, [RecvNext]_recvVars PROVE RecvInv'
  OBVIOUS
<1>0. /\ MaxRecv \in Nat /\ Window \in Nat /\ MaxWindow \in Nat /\ MaxConnWindow \in Nat
  BY RecvBufConstants, StreamRecvConstants
<1>1. CASE \E off, end \in 0..MaxRecv, fin \in BOOLEAN : off <= end /\ StreamFrameReceived(off, end, fin)
  <2>1. PICK off \in 0..MaxRecv, end \in 0..MaxRecv, fin \in BOOLEAN :
          off <= end /\ StreamFrameReceived(off, end, fin)
    BY <1>1
  <2>2. off \in Nat /\ end \in Nat
    BY <1>0
  <2> QED BY <2>1, <2>2, FrameInv
<1>2. CASE \E end \in 0..MaxRecv, fin \in BOOLEAN : StreamFrameRejected(end, fin)
  <2>1. PICK end \in 0..MaxRecv, fin \in BOOLEAN : StreamFrameRejected(end, fin)
    BY <1>2
  <2>2. conn_error' \in {"FlowControlError", "FinalSizeError"}
    BY <2>1, RejectionErrors DEF StreamFrameRejected
  <2>3. UNCHANGED <<rbufVars, connVars, ctlVars, listVars, told>>
    BY <2>1 DEF StreamFrameRejected
  <2> QED BY <2>2, <2>3, RejectedInv
<1>3. CASE \E cap \in 1..MaxRecv : StreamRead(cap)
  <2>1. PICK cap \in 1..MaxRecv : StreamRead(cap)
    BY <1>3
  <2>2. cap \in Nat
    BY <1>0
  <2> QED BY <2>1, <2>2, ReadInv
<1>4. CASE StreamReadReset
  BY <1>4, ReadResetInv
<1>5. CASE \E final \in 0..MaxRecv : ResetFrameReceived(final)
  <2>1. PICK final \in 0..MaxRecv : ResetFrameReceived(final)
    BY <1>5
  <2>2. final \in Nat
    BY <1>0
  <2> QED BY <2>1, <2>2, ResetInv
<1>6. CASE \E final \in 0..MaxRecv : ResetFrameRejected(final)
  <2>1. PICK final \in 0..MaxRecv : ResetFrameRejected(final)
    BY <1>6
  <2>2. conn_error' \in {"FlowControlError", "FinalSizeError"}
    BY <2>1, RejectionErrors DEF ResetFrameRejected
  <2>3. UNCHANGED <<rbufVars, connVars, ctlVars, listVars, told>>
    BY <2>1 DEF ResetFrameRejected
  <2> QED BY <2>2, <2>3, RejectedInv
<1>7. CASE ShutdownRead
  BY <1>7, ShutdownReadInv
<1>8. CASE \E tuned \in Window..MaxWindow : SendMaxStreamData(tuned) \/ NoRoomForMaxStreamData(tuned)
  <2>1. PICK tuned \in Window..MaxWindow : SendMaxStreamData(tuned) \/ NoRoomForMaxStreamData(tuned)
    BY <1>8
  <2>2. tuned \in Nat
    BY <1>0
  <2> QED BY <2>1, <2>2, SendMaxStreamDataInv, NoRoomForMaxStreamDataInv
<1>9. CASE SkipMaxStreamData
  BY <1>9, SkipMaxStreamDataInv
<1>10. CASE \E tuned \in 0..(MaxConnWindow + MaxWindow * 2) : SendMaxData(tuned) \/ NoRoomForMaxData(tuned)
  <2>1. PICK tuned \in 0..(MaxConnWindow + MaxWindow * 2) : SendMaxData(tuned) \/ NoRoomForMaxData(tuned)
    BY <1>10
  <2>2. tuned \in Nat
    BY <1>0
  <2> QED BY <2>1, <2>2, MaxDataInv
<1>11. CASE MaxDataLost \/ MaxStreamDataLost \/ SendStopSending \/ StopSendingLost
  BY <1>11, DueFrameInv
<1>12. CASE SendHalfDone
  BY <1>12, SendHalfDoneInv
<1>13. CASE RecvDestroy
  BY <1>13, RecvDestroyInv
<1>14. CASE UNCHANGED recvVars
  <2>1. /\ UNCHANGED <<rbufVars, connVars, ctlVars>> /\ UNCHANGED rbufVars
        /\ UNCHANGED <<almost_full, stop, ctl_sent, readable, recv_phase, send_done, told, conn_error>>
    BY <1>14 DEF recvVars, ctlVars, listVars
  <2>2. RBufReady' = RBufReady /\ IsFin' = IsFin /\ buffered' = buffered
    BY <2>1, SameRecvBuffer
  <2>3. ListTypeOK' = ListTypeOK /\ ReadyIsListed' = ReadyIsListed /\ ClosedIsRead' = ClosedIsRead
    BY <2>1, <2>2 DEF ListTypeOK, ReadyIsListed, ClosedIsRead, RecvIsComplete
  <2> QED BY <2>1, <2>3, PhaseInv DEF RecvInv, RecvTypeOK
<1> QED
  BY <1>1, <1>2, <1>3, <1>4, <1>5, <1>6, <1>7, <1>8, <1>9, <1>10, <1>11, <1>12, <1>13, <1>14 DEF RecvNext

\* The inductive invariant holds in every state of the receiving half, whatever
\* frames arrive and however the application reads, shuts down and tunes.
THEOREM RecvInvHolds == RecvSpec => []RecvInv
<1> QED BY RecvInitInv, RecvNextInv, PTL DEF RecvSpec

\* The buffer is sound for every window and every offset (RecvBuf::write).
THEOREM BufferAlwaysSound == RecvSpec => []BufferSound
<1>1. RecvInv => BufferSound
  BY DEF RecvInv
<1> QED BY <1>1, RecvInvHolds, PTL

\* A stream with something to collect is on the readable list until it closes.
THEOREM ReadyAlwaysListed == RecvSpec => []ReadyIsListed
<1>1. RecvInv => ReadyIsListed
  BY DEF RecvInv
<1> QED BY <1>1, RecvInvHolds, PTL

\* No window, of the stream or of the connection, runs dry unnoticed.
THEOREM CreditAlwaysDue == RecvSpec => []CreditIsDue
<1>1. RecvInv => CreditIsDue
  BY DEF RecvInv
<1> QED BY <1>1, RecvInvHolds, PTL

\* A closed stream was read to its end.
THEOREM ClosedAlwaysRead == RecvSpec => []ClosedIsRead
<1>1. RecvInv => ClosedIsRead
  BY DEF RecvInv
<1> QED BY <1>1, RecvInvHolds, PTL

\* A closed stream has returned all the connection credit it took.
THEOREM CreditAlwaysReturned == RecvSpec => []CreditReturned
<1>1. RecvInv => CreditReturned
  <2> SUFFICES ASSUME RecvInv, recv_phase # "open" PROVE conn_read >= recv_off
    BY DEF CreditReturned
  <2>1. RecvTypeOK /\ OffsetsInOrder /\ BufferSound /\ ClosedIsRead
    BY DEF RecvInv
  <2>2. recv_fin = read_off /\ read_off \in Nat /\ recv_off \in Nat /\ conn_read \in Nat
    BY <2>1, RecvNumbers DEF ClosedIsRead, RecvIsComplete, IsFin
  <2>3. recv_off <= read_off /\ read_off <= conn_read
    BY <2>1, <2>2, RecvBufConstants DEF BufferSound, OffsetsInOrder
  <2> QED BY <2>2, <2>3
<1> QED BY <1>1, RecvInvHolds, PTL

-----------------------------------------------------------------------------
(* The limits only grow.                                                   *)

\* The stream's limit: whatever the step, it is not lowered.
LEMMA StreamLimitGrows ==
  ASSUME RecvInv, [RecvNext]_recvVars
  PROVE  recv_max' >= recv_max
<1>1. RecvTypeOK /\ OffsetsInOrder
  BY DEF RecvInv
<1>2. recv_max \in Nat /\ consumed \in Nat /\ window \in Nat
  BY <1>1, RecvNumbers
<1>3. ASSUME NEW tuned, SendMaxStreamData(tuned) PROVE recv_max' >= recv_max
  <2>1. tuned \in TunedWindows /\ recv_max' = consumed + tuned
    BY <1>3 DEF SendMaxStreamData, RBufUpdateMaxData
  <2>2. tuned \in Nat /\ window <= tuned
    BY <1>1, <2>1, TunedIsLarger DEF OffsetsInOrder
  <2> QED BY <1>1, <1>2, <2>1, <2>2 DEF OffsetsInOrder
<1>4. CASE \E tuned \in Window..MaxWindow : SendMaxStreamData(tuned)
  BY <1>3, <1>4
<1>5. CASE ~ \E tuned \in Window..MaxWindow : SendMaxStreamData(tuned)
  <2>1. recv_max' = recv_max
    BY <1>5, ZenonT(30) DEF RecvNext, StreamFrameReceived, StreamFrameRejected, StreamRead, StreamReadReset,
       ResetFrameReceived, ResetFrameRejected, ShutdownRead, NoRoomForMaxStreamData,
       SkipMaxStreamData, MaxStreamDataLost, SendMaxData, NoRoomForMaxData, MaxDataLost,
       SendStopSending, StopSendingLost, SendHalfDone, RecvDestroy, recvVars, rbufVars, limitVars,
       RBufWrite, RBufRead, RBufReadReset, RBufReset, RBufShutdown, RBufAutotune
  <2> QED BY <1>2, <2>1
<1> QED BY <1>4, <1>5

\* Autotuning the connection's window does not lower it while it is below its
\* largest, and MAX_DATA is only sent when it raises the limit.
LEMMA ConnTunedIsLarger ==
  ASSUME NEW w \in Nat, w <= MaxConnWindow, NEW tuned \in {w, Min({w * 2, MaxConnWindow})}
  PROVE  tuned \in Nat /\ w <= tuned /\ tuned <= MaxConnWindow
<1>1. w * 2 \in Nat /\ MaxConnWindow \in Nat
  BY StreamRecvConstants
<1>2. Min({w * 2, MaxConnWindow}) = IF w * 2 <= MaxConnWindow THEN w * 2 ELSE MaxConnWindow
  BY <1>1, SmallerOfTwo
<1> QED BY <1>1, <1>2

\* One and a half times a stream's window is within the connection's largest one.
LEMMA FactorInBounds ==
  ASSUME NEW t \in Nat, NEW m \in Nat, NEW c \in Nat, t <= m, (m * 3) \div 2 <= c
  PROVE  (t * 3) \div 2 \in Nat /\ (t * 3) \div 2 <= c
OBVIOUS

\* MAX_STREAM_DATA keeps the window of the connection within its largest one.
LEMMA StreamUpdateBounded ==
  ASSUME RecvInv, conn_window <= MaxConnWindow, (MaxWindow * 3) \div 2 <= MaxConnWindow,
         NEW tuned, SendMaxStreamData(tuned)
  PROVE  conn_max' = conn_max /\ conn_window' <= MaxConnWindow
<1>1. RecvTypeOK /\ OffsetsInOrder
  BY DEF RecvInv
<1>2. conn_window \in Nat /\ MaxConnWindow \in Nat /\ MaxWindow \in Nat
  BY <1>1, RecvNumbers, StreamRecvConstants, RecvBufConstants
<1>3. /\ tuned \in TunedWindows /\ conn_max' = conn_max
      /\ conn_window' = Larger(conn_window, (tuned * 3) \div 2)
  BY DEF SendMaxStreamData, RBufUpdateMaxData
<1>4. tuned \in Nat /\ tuned <= MaxWindow
  BY <1>1, <1>3, TunedIsLarger DEF OffsetsInOrder
<1>5. (tuned * 3) \div 2 <= MaxConnWindow
  BY <1>2, <1>4, FactorInBounds
<1> QED BY <1>2, <1>3, <1>5 DEF Larger

\* MAX_DATA, or tuning without it, lowers neither the limit nor the window.
LEMMA ConnUpdateGrows ==
  ASSUME RecvInv, conn_window <= MaxConnWindow, NEW tuned, SendMaxData(tuned) \/ NoRoomForMaxData(tuned)
  PROVE  /\ tuned \in Nat /\ conn_max' \in Nat
         /\ conn_max' >= conn_max /\ conn_window' <= MaxConnWindow
<1>1. RecvTypeOK
  BY DEF RecvInv
<1>2. conn_max \in Nat /\ conn_read \in Nat /\ conn_window \in Nat /\ MaxConnWindow \in Nat
  BY <1>1, RecvNumbers, StreamRecvConstants
<1>3. /\ tuned \in {conn_window, Min({conn_window * 2, MaxConnWindow})} /\ conn_window' = tuned
      /\ conn_max < conn_read + conn_window
      /\ conn_max' = conn_read + tuned \/ conn_max' = conn_max
  BY DEF SendMaxData, NoRoomForMaxData, TunedConnWindows, NeedSendMaxData
<1>4. tuned \in Nat /\ conn_window <= tuned /\ tuned <= MaxConnWindow
  BY <1>2, <1>3, ConnTunedIsLarger, ZenonT(30)
<1> QED BY <1>2, <1>3, <1>4

\* The connection's window and limit: neither is lowered, when one and a half times
\* the largest stream window is a window the connection may have.
LEMMA ConnLimitGrows ==
  ASSUME RecvInv, [RecvNext]_recvVars, conn_window <= MaxConnWindow,
         (MaxWindow * 3) \div 2 <= MaxConnWindow
  PROVE  conn_max' >= conn_max /\ conn_window' <= MaxConnWindow
<1>2. conn_max \in Nat
  BY RecvNumbers DEF RecvInv
<1>3. ASSUME NEW tuned, SendMaxStreamData(tuned)
      PROVE  conn_max' >= conn_max /\ conn_window' <= MaxConnWindow
  BY <1>2, <1>3, StreamUpdateBounded
<1>4. ASSUME NEW tuned, SendMaxData(tuned) \/ NoRoomForMaxData(tuned)
      PROVE  conn_max' >= conn_max /\ conn_window' <= MaxConnWindow
  BY <1>4, ConnUpdateGrows
<1>5. CASE \E tuned \in Window..MaxWindow : SendMaxStreamData(tuned)
  BY <1>3, <1>5
<1>6. CASE \E tuned \in 0..(MaxConnWindow + MaxWindow * 2) : SendMaxData(tuned) \/ NoRoomForMaxData(tuned)
  BY <1>4, <1>6
<1>7. CASE /\ ~ \E tuned \in Window..MaxWindow : SendMaxStreamData(tuned)
           /\ ~ \E tuned \in 0..(MaxConnWindow + MaxWindow * 2) : SendMaxData(tuned) \/ NoRoomForMaxData(tuned)
  <2>1. conn_max' = conn_max /\ conn_window' = conn_window
    BY <1>7, ZenonT(30) DEF RecvNext, StreamFrameReceived, StreamFrameRejected, StreamRead, StreamReadReset,
       ResetFrameReceived, ResetFrameRejected, ShutdownRead, NoRoomForMaxStreamData,
       SkipMaxStreamData, MaxStreamDataLost, MaxDataLost,
       SendStopSending, StopSendingLost, SendHalfDone, RecvDestroy, recvVars, connVars, Consume
  <2> QED BY <1>2, <2>1
<1> QED BY <1>5, <1>6, <1>7

\* A limit once promised is never taken back. The hypothesis is about the
\* configuration: the window of the connection is raised to one and a half times the
\* stream's (ensure_window_lower_bound), which must not pass its own largest value. The
\* defaults, 6 MB and 15 MB, satisfy it.
THEOREM LimitsNeverShrink ==
  ASSUME (MaxWindow * 3) \div 2 <= MaxConnWindow
  PROVE  RecvSpec => LimitNeverShrinks
<1> DEFINE Bounded == RecvInv /\ conn_window <= MaxConnWindow
           Grows == recv_max' >= recv_max /\ conn_max' >= conn_max
<1>1. RecvInit => Bounded
  <2>1. RecvInit => conn_window <= MaxConnWindow
    BY StreamRecvConstants DEF RecvInit
  <2> QED BY <2>1, RecvInitInv
<1>2. Bounded /\ [RecvNext]_recvVars => Bounded' /\ [Grows]_recvVars
  BY RecvNextInv, StreamLimitGrows, ConnLimitGrows
<1> QED BY <1>1, <1>2, PTL DEF RecvSpec, LimitNeverShrinks
=============================================================================
