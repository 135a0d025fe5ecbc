----------------------------- MODULE WireProofs -----------------------------
(***************************************************************************)
(* Proofs about packet numbers, key updates and datagram sizes.            *)
(*                                                                         *)
(* Packet numbers are exact for every window size, every run of losses and *)
(* every order of arrival: the lengths packet_num_len chooses are enough   *)
(* for decode_packet_num, and SeqNumWindow takes no number twice.          *)
(*                                                                         *)
(* Two endpoints that update their keys stay in step. The invariant speaks *)
(* of an endpoint k, its peer q, the packets of k on their way (`mine`)    *)
(* and those of q (`theirs`), and holds with the two exchanged.            *)
(*                                                                         *)
(* Path MTU discovery ends at a size that passes. Every size in play lies  *)
(* below what the peer and the configuration allow, or below the base size *)
(* (SizesSound); a probe that is due was sent or the search is over        *)
(* (Probing); a failed size that fits the path was lost three times        *)
(* (Failures).                                                             *)
(***************************************************************************)
EXTENDS KeyUpdate, Pmtud, TLAPS

-----------------------------------------------------------------------------
(* Packet numbers.                                                         *)


PnMsg == [pn : Nat, len : 1..4, trunc : Nat]

\* The bits of the window lie within it.
Windows == [lower : Nat, bits : SUBSET (0..(WindowSize - 1))]

PnTypeOK ==
    pns \in [next : Nat, acked : Nat \cup {Absent}, sends : Nat, flight : SUBSET PnMsg,
             largest : Nat, win : Windows, got : SUBSET Nat, seen : SUBSET Nat]

\* What the receiver has taken is what was sent and lies up to `largest`;
\* the sender knows a number as acknowledged only if the receiver took it.
GotSound ==
    /\ \A pn \in pns.got : pn <= pns.largest
    /\ pns.acked # Absent => pns.acked \in pns.got

\* The length of every packet in flight leaves its number less than half a
\* window above the largest one received: packet_num_len counts from a number
\* the receiver has, and the receiver only advances.
FlightSound ==
    \A m \in pns.flight :
        /\ m.pn < MaxPktNum
        /\ m.trunc = EncodePacketNum(m.pn, m.len)
        /\ m.pn < pns.largest + PnWin(m.len) \div 2

PnInv == PnTypeOK /\ GotSound /\ FlightSound /\ NumberIsTakenOnce

-----------------------------------------------------------------------------
\* The windows of the four lengths as numbers.
LEMMA WinValues ==
    /\ PnWin(1) = 256 /\ PnWin(2) = 65536 /\ PnWin(3) = 16777216 /\ PnWin(4) = 4294967296
    /\ \A len \in 1..4 : PnWin(len) \in Nat \ {0} /\ 2 * (PnWin(len) \div 2) = PnWin(len)
<1>1. PnWin(1) = 256 /\ PnWin(2) = 65536 /\ PnWin(3) = 16777216 /\ PnWin(4) = 4294967296
  BY DEF PnWin
<1>2. ASSUME NEW len \in 1..4
      PROVE  PnWin(len) \in Nat \ {0} /\ 2 * (PnWin(len) \div 2) = PnWin(len)
  <2>1. len = 1 \/ len = 2 \/ len = 3 \/ len = 4
    BY <1>2
  <2>. QED  BY <2>1, <1>1
<1>. QED  BY <1>1, <1>2

\* Division with remainder, the two facts the provers need of % and \div.
LEMMA Remainder ==
    ASSUME NEW x \in Nat, NEW w \in Nat \ {0}
    PROVE  /\ x \div w \in Nat /\ x % w \in 0..(w - 1)
           /\ x = w * (x \div w) + (x % w)
OBVIOUS

\* decode_packet_num: a number less than half a window away from the expected
\* one is recovered from its residue, also next to 0 and to the end of the
\* number space.
LEMMA DecodeExact ==
    ASSUME NEW largest \in Nat, NEW pn \in Nat, NEW len \in 1..4, MaxPktNum \in Nat,
           pn < MaxPktNum,
           pn < largest + PnWin(len) \div 2,
           largest + 1 < pn + PnWin(len) \div 2
    PROVE  DecodePacketNum(largest, EncodePacketNum(pn, len), len) = pn
<1> DEFINE w == PnWin(len)
           h == w \div 2
           e == largest + 1
           q == e \div w
           p == pn \div w
<1>1. w \in Nat \ {0} /\ 2 * h = w /\ h \in Nat
  BY WinValues
<1>e. e \in Nat
  OBVIOUS
<1> HIDE DEF w, h, e
<1>2. q \in Nat /\ e % w \in 0..(w - 1) /\ e = w * q + (e % w)
  BY <1>1, <1>e, Remainder, ZenonT(30)
<1>3. p \in Nat /\ pn % w \in 0..(w - 1) /\ pn = w * p + (pn % w)
  BY <1>1, Remainder, ZenonT(30)
<1> HIDE DEF q, p
<1>6. pn < e - 1 + h /\ e < pn + h
  BY DEF w, h, e
<1>4. p = q \/ p = q + 1 \/ q = p + 1
  <2>1. ~(p >= q + 2)
    <3>1. p >= q + 2 => w * p >= w * q + 2 * w
      BY <1>1, <1>2, <1>3
    <3>. QED  BY <3>1, <1>1, <1>2, <1>3, <1>6, <1>e
  <2>2. ~(q >= p + 2)
    <3>1. q >= p + 2 => w * q >= w * p + 2 * w
      BY <1>1, <1>2, <1>3
    <3>. QED  BY <3>1, <1>1, <1>2, <1>3, <1>6, <1>e
  <2>. QED  BY <2>1, <2>2, <1>2, <1>3
<1> DEFINE c == e - (e % w) + (pn % w)
           r == pn % w
           qw == w * q
           pw == w * p
<1>5. /\ qw \in Nat /\ pw \in Nat /\ r \in Nat
      /\ c = qw + r /\ pn = pw + r
      /\ p = q + 1 => pw = qw + w
      /\ q = p + 1 => qw = pw + w
  <2>1. qw \in Nat /\ pw \in Nat /\ r \in Nat
    BY <1>1, <1>2, <1>3
  <2>2. c = qw + r /\ pn = pw + r
    BY <1>1, <1>2, <1>3, <1>e
  <2>3. p = q + 1 => pw = qw + w
    BY <1>1, <1>2
  <2>4. q = p + 1 => qw = pw + w
    BY <1>1, <1>3
  <2>. QED  BY <2>1, <2>2, <2>3, <2>4
<1>7. DecodePacketNum(largest, EncodePacketNum(pn, len), len) =
        IF c + h <= e /\ c < MaxPktNum - w THEN c + w
        ELSE IF c > e + h /\ c >= w THEN c - w ELSE c
  BY DEF DecodePacketNum, EncodePacketNum, w, h, e
<1> HIDE DEF c, r, qw, pw
<1>8. CASE p = q
  <2>1. c = pn
    BY <1>5, <1>8 DEF qw, pw
  <2>. QED  BY <2>1, <1>6, <1>7, <1>1, <1>e
<1>9. CASE p = q + 1
  <2>1. c = pn - w
    BY <1>5, <1>9, <1>1
  <2>. QED  BY <2>1, <1>6, <1>7, <1>1, <1>e
<1>10. CASE q = p + 1
  <2>1. c = pn + w
    BY <1>5, <1>10, <1>1
  <2>. QED  BY <2>1, <1>6, <1>7, <1>1, <1>e
<1>. QED  BY <1>4, <1>8, <1>9, <1>10

-----------------------------------------------------------------------------
\* Setting a bit and shifting give windows again.
LEMMA WinSetSound ==
    ASSUME NEW w \in Windows, NEW seq \in Nat, WinUpper(w) - seq \in 0..(WindowSize - 1)
    PROVE  /\ WinSet(w, seq) \in Windows
           /\ WinSet(w, seq).lower = w.lower
           /\ WinSet(w, seq).bits = w.bits \cup {WinUpper(w) - seq}
BY DEF Windows, WinSet

\* SeqNumWindow: moving the window up forgets the numbers below it and no other.
LEMMA WinShiftSound ==
    ASSUME NEW w \in Windows, NEW d \in Nat
    PROVE  /\ WinShift(w, d) \in Windows
           /\ WinShift(w, d).lower = w.lower + d
           /\ WinShift(w, d).bits = {b \in 0..(WindowSize - 1) : b - d \in w.bits}
BY DEF Windows, WinShift

\* WinInsert keeps the window a window, forgets nothing it contained, adds the
\* number, and its bits stand for numbers whose bit was set before, or for it.
LEMMA WinInsertSound ==
    ASSUME NEW w \in Windows, NEW seq \in Nat, ~WinContains(w, seq),
           NEW v, v = WinInsert(w, seq)
    PROVE  /\ v \in Windows
           /\ WinContains(v, seq)
           /\ \A x \in Nat : WinContains(w, x) => WinContains(v, x)
           /\ \A b \in v.bits : \/ WinUpper(v) - b = seq
                                 \/ \E c \in w.bits : WinUpper(v) - b = WinUpper(w) - c
<1> DEFINE d == seq - WinUpper(w)
<1> USE PktNumConstants
<1>1. WinUpper(w) \in Nat /\ seq >= w.lower
  BY DEF Windows, WinUpper, WinContains
<1>2. CASE seq > WinUpper(w)
  <2>1. d \in Nat \ {0}
    BY <1>1, <1>2
  <2>2. /\ v \in Windows
        /\ v.lower = w.lower + d
        /\ v.bits = {b \in 0..(WindowSize - 1) : b - d \in w.bits} \cup {0}
    <3> DEFINE u == WinShift(w, d)
    <3>1. /\ u \in Windows /\ u.lower = w.lower + d
          /\ u.bits = {b \in 0..(WindowSize - 1) : b - d \in w.bits}
      BY <2>1, WinShiftSound
    <3>2. v = WinSet(u, seq)
      BY <1>2, <1>1 DEF WinInsert, Windows
    <3> HIDE DEF u
    <3>3. WinUpper(u) - seq = 0
      BY <3>1, <2>1, <1>1 DEF WinUpper, Windows
    <3>. QED  BY <3>1, <3>2, <3>3, WinSetSound
  <2>3. v \in Windows
    BY <2>2
  <2>4. WinUpper(v) = seq
    BY <2>1, <2>2, <1>1 DEF WinUpper, Windows
  <2>5. WinContains(v, seq)
    BY <2>2, <2>3, <2>4 DEF WinContains, Windows
  <2>6. ASSUME NEW x \in Nat, WinContains(w, x) PROVE WinContains(v, x)
    <3>1. x <= WinUpper(w) /\ x <= seq
      BY <2>6, <1>1, <1>2 DEF WinContains
    <3>2. CASE x < w.lower + d
      BY <3>1, <3>2, <2>2, <2>4 DEF WinContains
    <3>3. CASE x >= w.lower + d
      <4>1. WinUpper(w) - x \in w.bits
        BY <2>6, <3>1, <3>3, <2>1 DEF WinContains, Windows
      <4>2. seq - x \in 0..(WindowSize - 1) /\ (seq - x) - d \in w.bits
        BY <4>1, <3>1, <3>3, <2>1, <1>1 DEF WinUpper, Windows
      <4>. QED  BY <4>2, <3>1, <3>3, <2>2, <2>4 DEF WinContains
    <3>. QED  BY <3>2, <3>3, <2>1 DEF Windows
  <2>7. ASSUME NEW b \in v.bits, WinUpper(v) - b # seq
        PROVE  \E c \in w.bits : WinUpper(v) - b = WinUpper(w) - c
    <3>1. b \in 0..(WindowSize - 1) /\ b # 0 /\ b - d \in w.bits
      BY <2>7, <2>2, <2>3, <2>4 DEF Windows
    <3>2. WinUpper(v) - b = WinUpper(w) - (b - d)
      BY <3>1, <2>4, <1>1
    <3>. QED  BY <3>1, <3>2, <2>4, <1>1
  <2>. QED  BY <2>3, <2>5, <2>6, <2>7
<1>3. CASE seq <= WinUpper(w)
  <2>2. WinUpper(w) - seq \in 0..(WindowSize - 1)
    BY <1>1, <1>3 DEF WinUpper, Windows
  <2>1. v \in Windows /\ v.lower = w.lower /\ v.bits = w.bits \cup {WinUpper(w) - seq}
    <3>1. v = WinSet(w, seq)
      BY <1>1, <1>3 DEF WinInsert, Windows
    <3>. QED  BY <3>1, <2>2, WinSetSound
  <2>3. v \in Windows /\ WinUpper(v) = WinUpper(w)
    BY <2>1 DEF WinUpper
  <2>4. WinContains(v, seq)
    BY <2>1, <2>3, <1>1, <1>3 DEF WinContains
  <2>5. \A x \in Nat : WinContains(w, x) => WinContains(v, x)
    BY <2>1, <2>3 DEF WinContains
  <2>6. ASSUME NEW b \in v.bits, WinUpper(v) - b # seq
        PROVE  \E c \in w.bits : WinUpper(v) - b = WinUpper(w) - c
    <3>1. b \in 0..(WindowSize - 1) /\ (b \in w.bits \/ b = WinUpper(w) - seq)
      BY <2>1, <2>3 DEF Windows
    <3>. QED  BY <3>1, <2>3, <2>6, <1>1
  <2>. QED  BY <2>3, <2>4, <2>5, <2>6
<1>. QED  BY <1>1, <1>2, <1>3

-----------------------------------------------------------------------------
\* packet_num_len: the number sent is less than half its window above what the
\* receiver has.
LEMMA LenSuffices ==
    ASSUME NEW pn \in Nat, NEW acked \in Nat \cup {Absent}, NEW largest \in Nat,
           acked # Absent => acked <= largest,
           PacketNumLen(pn, acked) <= 4
    PROVE  /\ PacketNumLen(pn, acked) \in 1..4
           /\ pn < largest + PnWin(PacketNumLen(pn, acked)) \div 2
<1> DEFINE unacked == IF acked = Absent THEN pn + 1 ELSE SatSub(pn, acked)
           len == PacketNumLen(pn, acked)
<1>1. unacked \in Nat /\ pn <= largest + unacked
  BY DEF SatSub, Absent
<1>2. /\ len \in 1..4
      /\ len = 1 => unacked < 128
      /\ len = 2 => unacked < 32768
      /\ len = 3 => unacked < 8388608
      /\ len = 4 => unacked < 2147483648
  BY <1>1 DEF PacketNumLen
<1> HIDE DEF len, unacked
<1>3. unacked < PnWin(len) \div 2
  BY <1>1, <1>2, WinValues
<1>4. PnWin(len) \div 2 \in Nat
  BY <1>2, WinValues
<1>. QED  BY <1>1, <1>2, <1>3, <1>4 DEF len

\* A truncated packet number is a number.
LEMMA EncodeNat ==
    ASSUME NEW pn \in Nat, NEW len \in 1..4
    PROVE  EncodePacketNum(pn, len) \in Nat
<1> DEFINE w == PnWin(len)
<1>1. w \in Nat \ {0}
  BY WinValues
<1> HIDE DEF w
<1>2. pn % w \in Nat
  BY <1>1
<1>. QED  BY <1>2 DEF EncodePacketNum, w

\* packet_num_len() answers between one byte and one more than fit.
LEMMA LenRange ==
    ASSUME NEW pn \in Nat, NEW acked \in Nat \cup {Absent}
    PROVE  PacketNumLen(pn, acked) \in 1..5
BY DEF PacketNumLen, SatSub, Absent

\* A new packet number space satisfies the invariant.
LEMMA PnInitInv == PnInit => PnInv
<1> SUFFICES ASSUME PnInit PROVE PnInv
  OBVIOUS
<1>1. WinNew \in Windows /\ WinNew.bits = {}
  BY DEF WinNew, Windows
<1>2. PnTypeOK
  BY <1>1 DEF PnInit, PnTypeOK
<1>3. GotSound /\ FlightSound
  BY DEF PnInit, GotSound, FlightSound
<1>4. NumberIsTakenOnce
  BY <1>1 DEF PnInit, NumberIsTakenOnce
<1>. QED  BY <1>2, <1>3, <1>4 DEF PnInv

\* Sending keeps the invariant: the length chosen leaves the number decodable.
LEMMA PnSendInv ==
    ASSUME PnInv, NEW run \in PnRuns, PnSend(run)
    PROVE  PnInv'
<1> DEFINE pn == pns.next + run - 1
           len == PacketNumLen(pn, pns.acked)
           m == [pn |-> pn, len |-> len, trunc |-> EncodePacketNum(pn, len)]
<1> USE PktNumConstants
<1>2. pn \in Nat /\ len \in 1..5
  <2>1. pn \in Nat /\ pns.acked \in Nat \cup {Absent}
    BY DEF PnInv, PnTypeOK
  <2> HIDE DEF pn
  <2>. QED  BY <2>1, LenRange, ZenonT(30)
<1>1. /\ pns' = [pns EXCEPT !.next = pn + 1, !.sends = pns.sends + 1, !.flight = pns.flight \cup {m}]
      /\ len <= 4 /\ pn < MaxPktNum
  <2>1. /\ pns' = [pns EXCEPT !.next = pn + 1, !.sends = pns.sends + 1, !.flight = pns.flight \cup {m}]
        /\ len <= PnMaxLen /\ pn < MaxPktNum
    BY DEF PnSend
  <2>. HIDE DEF len
  <2>. QED  BY <2>1, <1>2
<1>3. len \in 1..4 /\ pn < pns.largest + PnWin(len) \div 2
  BY <1>1, <1>2, LenSuffices DEF PnInv, PnTypeOK, GotSound
<1>4. m \in PnMsg
  <2> HIDE DEF pn, len
  <2>1. EncodePacketNum(pn, len) \in Nat
    BY <1>2, <1>3, EncodeNat
  <2>. QED  BY <2>1, <1>2, <1>3 DEF PnMsg
<1>5. m.pn = pn /\ m.len = len /\ m.trunc = EncodePacketNum(m.pn, m.len)
  OBVIOUS
<1> HIDE DEF m, len, pn
<1>6. /\ pns'.flight = pns.flight \cup {m} /\ pns'.largest = pns.largest /\ pns'.got = pns.got
      /\ pns'.acked = pns.acked /\ pns'.win = pns.win /\ pns'.seen = pns.seen
  BY <1>1 DEF PnInv, PnTypeOK
<1>7. PnTypeOK'
  <2> DEFINE n == pn + 1
             s == pns.sends + 1
             fl == pns.flight \cup {m}
  <2>1. n \in Nat /\ s \in Nat /\ fl \in SUBSET PnMsg
    BY <1>2, <1>4 DEF PnInv, PnTypeOK
  <2>2. pns' = [pns EXCEPT !.next = n, !.sends = s, !.flight = fl]
    BY <1>1
  <2> HIDE DEF n, s, fl
  <2>. QED  BY <2>1, <2>2, ZenonT(30) DEF PnInv, PnTypeOK
<1>8. GotSound'
  BY <1>6 DEF PnInv, GotSound
<1>9. FlightSound'
  BY <1>1, <1>3, <1>5, <1>6 DEF PnInv, FlightSound
<1>10. NumberIsTakenOnce'
  BY <1>6 DEF PnInv, NumberIsTakenOnce
<1>. QED  BY <1>7, <1>8, <1>9, <1>10 DEF PnInv

\* Receiving, a duplicate too, keeps the invariant.
LEMMA PnRecvInv ==
    ASSUME PnInv, NEW m \in pns.flight, NEW dup \in BOOLEAN, PnRecv(m, dup)
    PROVE  PnInv'
<1> DEFINE pn == DecodePacketNum(pns.largest, m.trunc, m.len)
           rest == IF dup THEN pns.flight ELSE pns.flight \ {m}
<1>1. rest \in SUBSET PnMsg /\ rest \subseteq pns.flight
  BY DEF PnInv, PnTypeOK
<1>2. CASE WinContains(pns.win, pn) \/ pn # m.pn
  <2>1. pns' = [pns EXCEPT !.flight = rest]
    BY <1>2 DEF PnRecv
  <2> HIDE DEF rest, pn
  <2>2. /\ pns'.flight = rest /\ pns'.largest = pns.largest /\ pns'.got = pns.got
        /\ pns'.acked = pns.acked /\ pns'.win = pns.win /\ pns'.seen = pns.seen
    BY <2>1 DEF PnInv, PnTypeOK
  <2>3. PnTypeOK'
    BY <1>1, <2>1 DEF PnInv, PnTypeOK
  <2>. QED  BY <1>1, <2>2, <2>3 DEF PnInv, GotSound, FlightSound, NumberIsTakenOnce
<1>3. CASE ~WinContains(pns.win, pn) /\ pn = m.pn
  <2> DEFINE w == WinInsert(pns.win, pn)
             l == AtLeast(pns.largest, pn)
             sn == IF pn \in pns.got THEN pns.seen \cup {pn} ELSE pns.seen
             g == pns.got \cup {pn}
  <2>1. pns' = [pns EXCEPT !.flight = rest, !.win = w, !.largest = l, !.seen = sn, !.got = g]
    BY <1>3 DEF PnRecv
  <2>2. pn \in Nat /\ m.pn = pn
    BY <1>3 DEF PnInv, PnTypeOK, PnMsg
  <2> HIDE DEF rest, pn
  <2>3. /\ w \in Windows
        /\ WinContains(w, pn)
        /\ \A x \in Nat : WinContains(pns.win, x) => WinContains(w, x)
        /\ \A b \in w.bits : \/ WinUpper(w) - b = pn
                              \/ \E c \in pns.win.bits : WinUpper(w) - b = WinUpper(pns.win) - c
    BY <1>3, <2>2, WinInsertSound DEF PnInv, PnTypeOK
  <2>4. pn \notin pns.got
    BY <1>3 DEF PnInv, NumberIsTakenOnce
  <2>5. l \in Nat /\ pns.largest <= l /\ pn <= l
    BY <2>2 DEF AtLeast, PnInv, PnTypeOK
  <2>6. sn = pns.seen /\ g \in SUBSET Nat
    BY <2>2, <2>4 DEF PnInv, PnTypeOK
  <2> HIDE DEF w, l, sn
  <2>7. /\ pns'.flight = rest /\ pns'.largest = l /\ pns'.got = g
        /\ pns'.acked = pns.acked /\ pns'.win = w /\ pns'.seen = sn
    BY <2>1 DEF PnInv, PnTypeOK
  <2>8. PnTypeOK'
    <3> HIDE DEF g
    <3>1. sn \in SUBSET Nat
      BY <2>6 DEF PnInv, PnTypeOK
    <3>. QED  BY <1>1, <2>1, <2>3, <2>5, <2>6, <3>1, ZenonT(30) DEF PnInv, PnTypeOK
  <2>9. GotSound'
    BY <2>2, <2>5, <2>7 DEF PnInv, PnTypeOK, GotSound
  <2>10. FlightSound'
    <3> SUFFICES ASSUME NEW f \in rest PROVE f.pn < l + PnWin(f.len) \div 2
      BY <1>1, <2>7 DEF PnInv, FlightSound
    <3>1. f \in PnMsg /\ f.pn < pns.largest + PnWin(f.len) \div 2 /\ pns.largest \in Nat
      BY <1>1 DEF PnInv, FlightSound, PnTypeOK
    <3>2. PnWin(f.len) \div 2 \in Nat /\ f.pn \in Nat
      BY <3>1, WinValues DEF PnMsg
    <3>. QED  BY <2>5, <3>1, <3>2
  <2>11. NumberIsTakenOnce'
    <3>1. pns'.seen = {}
      BY <2>6, <2>7 DEF PnInv, NumberIsTakenOnce
    <3>2. \A x \in pns'.got : WinContains(pns'.win, x)
      BY <2>3, <2>7 DEF PnInv, PnTypeOK, NumberIsTakenOnce
    <3>3. \A b \in pns'.win.bits : WinUpper(pns'.win) - b \in pns'.got
      BY <2>3, <2>7 DEF PnInv, NumberIsTakenOnce
    <3>. QED  BY <3>1, <3>2, <3>3 DEF NumberIsTakenOnce
  <2>. QED  BY <2>8, <2>9, <2>10, <2>11 DEF PnInv
<1>. QED  BY <1>2, <1>3

\* Losing a packet, and an acknowledgement of what the receiver has.
LEMMA PnLoseInv ==
    ASSUME PnInv, NEW m \in pns.flight, PnLose(m)
    PROVE  PnInv'
<1> DEFINE rest == pns.flight \ {m}
<1>1. pns' = [pns EXCEPT !.flight = rest] /\ rest \in SUBSET PnMsg /\ rest \subseteq pns.flight
  BY DEF PnLose, PnInv, PnTypeOK
<1> HIDE DEF rest
<1>2. /\ pns'.flight = rest /\ pns'.largest = pns.largest /\ pns'.got = pns.got
      /\ pns'.acked = pns.acked /\ pns'.win = pns.win /\ pns'.seen = pns.seen
  BY <1>1 DEF PnInv, PnTypeOK
<1>3. PnTypeOK'
  BY <1>1 DEF PnInv, PnTypeOK
<1>. QED  BY <1>1, <1>2, <1>3 DEF PnInv, GotSound, FlightSound, NumberIsTakenOnce

\* An acknowledgement raises what packet_num_len() counts from, to a number the
\* receiver has.
LEMMA PnAckInv ==
    ASSUME PnInv, NEW pn \in pns.got, PnAck(pn)
    PROVE  PnInv'
<1>1. pns' = [pns EXCEPT !.acked = pn] /\ pn \in Nat
  BY DEF PnAck, PnInv, PnTypeOK
<1>2. /\ pns'.flight = pns.flight /\ pns'.largest = pns.largest /\ pns'.got = pns.got
      /\ pns'.acked = pn /\ pns'.win = pns.win /\ pns'.seen = pns.seen
  BY <1>1 DEF PnInv, PnTypeOK
<1>3. PnTypeOK'
  BY <1>1 DEF PnInv, PnTypeOK
<1>. QED  BY <1>2, <1>3 DEF PnInv, GotSound, FlightSound, NumberIsTakenOnce

\* Every step keeps the invariant.
LEMMA PnNextInv == PnInv /\ [PnNext]_pnVars => PnInv'
<1> SUFFICES ASSUME PnInv, [PnNext]_pnVars PROVE PnInv'
  OBVIOUS
<1>1. CASE UNCHANGED pns
  BY <1>1 DEF PnInv, PnTypeOK, GotSound, FlightSound, NumberIsTakenOnce
<1>. QED  BY <1>1, PnSendInv, PnRecvInv, PnLoseInv, PnAckInv DEF PnNext, PnDone, pnVars

\* The invariant makes every number within half a window decode to itself.
LEMMA PnInvExact == PnInv => NumbersAreExact
<1> SUFFICES ASSUME PnInv, NEW m \in pns.flight,
                    pns.largest + 1 < m.pn + PnWin(m.len) \div 2
             PROVE  DecodePacketNum(pns.largest, m.trunc, m.len) = m.pn
  BY DEF NumbersAreExact, NumberIsRecovered, PnInv
<1>1. m.pn \in Nat /\ m.len \in 1..4 /\ pns.largest \in Nat
  BY DEF PnInv, PnTypeOK, PnMsg
<1>. QED  BY <1>1, DecodeExact, PktNumConstants DEF PnInv, FlightSound

\* The inductive invariant of a packet number space.
THEOREM PnInvHolds == PnSpec => []PnInv
BY PnInitInv, PnNextInv, PTL DEF PnSpec

\* For every window size and every order of loss, delay and duplication, the
\* receiver completes each packet number to the one it was sent with as long as
\* less than half a window of later numbers has arrived, takes none twice and
\* refuses none it has not taken or left behind (packet_num_len,
\* decode_packet_num, SeqNumWindow).
THEOREM NumbersAreAlwaysExact == PnSpec => []NumbersAreExact
BY PnInvHolds, PnInvExact, PTL

-----------------------------------------------------------------------------
(* Key updates.                                                            *)

KuOpt == Nat \cup {Absent}
KuEnds ==
    [gen : Nat, prev : BOOLEAN, timer : BOOLEAN, pn : Nat, sent : Nat,
     first_recv : KuOpt, first_sent : KuOpt, largest : KuOpt, acked : KuOpt]
KuPkts == [from : KuSides, pn : Nat, trunc : Nat, len : 1..4, gen : Nat, ack : KuOpt]

\* Numbers: the peer has received, and acknowledged, only what was sent; a
\* packet has enough bytes of its number for the peer to complete it.
NumbersInStep(k, q, mine) ==
    /\ q.largest < k.pn /\ k.acked <= q.largest /\ k.first_sent < k.pn
    /\ \A x \in mine :
          /\ x.pn < k.pn /\ x.pn < MaxPktNum /\ x.ack <= k.largest
          /\ x.trunc = EncodePacketNum(x.pn, x.len)
          /\ x.pn < AtLeast(q.largest, 0) + PnWin(x.len) \div 2

\* Packets carry the phase of their sender when it sent them: phases grow with
\* the numbers, and from first_sent on they are the present one.
PhasesGrow(k, mine) ==
    \A x \in mine :
        /\ x.gen <= k.gen
        /\ k.first_sent # Absent /\ x.pn >= k.first_sent => x.gen = k.gen
        /\ \A y \in mine : x.pn <= y.pn => x.gen <= y.gen

\* Once a packet of the phase of k has arrived, the peer is in that phase; an
\* acknowledgement of one comes in packets of that phase.
AckedPhase(k, q, theirs) ==
    k.first_sent # Absent =>
        /\ q.largest >= k.first_sent => q.gen >= k.gen
        /\ \A x \in theirs : x.ack >= k.first_sent => x.gen >= k.gen
        /\ k.acked >= k.first_sent => \A x \in theirs : x.pn >= k.largest => x.gen >= k.gen

\* What arrives in order is at most one phase behind, and not behind at all once
\* a packet of the present phase has arrived; before that the peer is not ahead.
PhasesInStep(k, q, theirs) ==
    /\ k.gen <= q.gen + 1
    /\ \A x \in theirs : x.pn >= k.largest => x.gen + 1 >= k.gen
    /\ k.first_recv # Absent =>
          /\ q.gen >= k.gen
          /\ \A x \in theirs : x.pn >= k.largest => x.gen >= k.gen
    /\ k.first_recv = Absent =>
          /\ q.gen <= k.gen
          /\ q.first_sent # Absent /\ k.largest >= q.first_sent => q.gen < k.gen

InStep(k, q, mine, theirs) ==
    /\ NumbersInStep(k, q, mine) /\ PhasesGrow(k, mine)
    /\ AckedPhase(k, q, theirs) /\ PhasesInStep(k, q, theirs)

KuRefusals == [pkt : KuPkts, phase : Nat, first : KuOpt, prev : BOOLEAN]

KuTypeOK ==
    ku \in [end : [KuSides -> KuEnds], net : SUBSET KuPkts, early : BOOLEAN,
            refused : SUBSET KuRefusals]

KuFrom(net, s) == {x \in net : x.from = s}

BothInStep(end, net) ==
    \A s \in KuSides :
        InStep(end[s], end[KuPeer(s)], KuFrom(net, s), KuFrom(net, KuPeer(s)))

Excused(r) ==
    \/ r.pkt.gen = r.phase + 1 /\ r.first # Absent /\ r.pkt.trunc <= r.first
    \/ r.pkt.gen = r.phase - 1 /\ ~r.prev

KuInv ==
    /\ KuTypeOK
    /\ ~ku.early => BothInStep(ku.end, ku.net) /\ \A r \in ku.refused : Excused(r)

-----------------------------------------------------------------------------
\* Half a window is a number.
LEMMA WinHalf ==
    \A len \in 1..4 : PnWin(len) \div 2 \in Nat /\ PnWin(len) \div 2 >= 128
<1> SUFFICES ASSUME NEW len \in 1..4 PROVE PnWin(len) \div 2 \in Nat /\ PnWin(len) \div 2 >= 128
  OBVIOUS
<1>1. PnWin(len) = 256 \/ PnWin(len) = 65536 \/ PnWin(len) = 16777216 \/ PnWin(len) = 65536 * 65536
  BY DEF PnWin
<1>. QED  BY <1>1

\* initiate_key_update after an acknowledgement of the present phase, and a key
\* update in general: the endpoint moves one phase on and forgets the first
\* packets of the old one.
LEMMA UpdateInStep ==
    ASSUME NEW k \in KuEnds, NEW q \in KuEnds, NEW mine \in SUBSET KuPkts,
           NEW theirs \in SUBSET KuPkts, NEW u \in KuEnds,
           InStep(k, q, mine, theirs), InStep(q, k, theirs, mine),
           k.first_sent # Absent, k.first_sent <= k.acked,
           u.gen = k.gen + 1, u.first_recv = Absent, u.first_sent = Absent,
           u.pn = k.pn, u.largest = k.largest, u.acked = k.acked
    PROVE  InStep(u, q, mine, theirs) /\ InStep(q, u, theirs, mine)
<1>1. q.largest >= k.first_sent /\ q.gen >= k.gen
      /\ \A x \in theirs : x.pn >= k.largest => x.gen >= k.gen
  BY DEF InStep, NumbersInStep, AckedPhase, KuEnds, KuOpt, Absent
<1>2. NumbersInStep(u, q, mine) /\ NumbersInStep(q, u, theirs)
  BY DEF InStep, NumbersInStep, KuEnds, KuOpt, Absent
<1>3. PhasesGrow(u, mine) /\ PhasesGrow(q, theirs)
  BY DEF InStep, PhasesGrow, KuEnds, KuPkts
<1>4. AckedPhase(u, q, theirs)
  BY DEF AckedPhase
<1>5. AckedPhase(q, u, mine)
  BY DEF InStep, AckedPhase, KuEnds
<1>6. PhasesInStep(u, q, theirs)
  <2>1. u.gen <= q.gen + 1 /\ q.gen <= u.gen
    BY <1>1 DEF InStep, PhasesInStep, KuEnds
  <2>2. \A x \in theirs : x.pn >= u.largest => x.gen + 1 >= u.gen
    BY <1>1 DEF KuEnds, KuPkts
  <2>3. q.first_sent # Absent /\ u.largest >= q.first_sent => q.gen < u.gen
    BY DEF InStep, AckedPhase, KuEnds
  <2>. QED  BY <2>1, <2>2, <2>3 DEF PhasesInStep
<1>7. PhasesInStep(q, u, mine)
  <2>1. q.gen <= u.gen + 1
    BY DEF InStep, PhasesInStep, KuEnds
  <2>2. (q.first_recv = Absent => u.gen <= q.gen) /\ (q.first_recv # Absent => u.gen >= q.gen)
    BY <1>1 DEF InStep, PhasesInStep, KuEnds
  <2>. QED  BY <2>1, <2>2 DEF InStep, PhasesInStep
<1>. QED  BY <1>2, <1>3, <1>4, <1>5, <1>6, <1>7 DEF InStep

\* A packet sent: the next number, the present phase, the largest number
\* received as its acknowledgement.
LEMMA SendInStep ==
    ASSUME NEW k \in KuEnds, NEW q \in KuEnds, NEW mine \in SUBSET KuPkts,
           NEW theirs \in SUBSET KuPkts, NEW n \in KuEnds, NEW x \in KuPkts,
           InStep(k, q, mine, theirs), InStep(q, k, theirs, mine),
           x.pn = k.pn, x.gen = k.gen, x.ack = k.largest,
           x.pn < MaxPktNum, x.trunc = EncodePacketNum(x.pn, x.len),
           x.pn < AtLeast(q.largest, 0) + PnWin(x.len) \div 2,
           n.pn = k.pn + 1, n.gen = k.gen, n.first_recv = k.first_recv,
           n.first_sent = IF k.first_sent = Absent THEN k.pn ELSE k.first_sent,
           n.largest = k.largest, n.acked = k.acked
    PROVE  InStep(n, q, mine \cup {x}, theirs) /\ InStep(q, n, theirs, mine \cup {x})
<1>1. NumbersInStep(n, q, mine \cup {x})
  <2>1. q.largest < n.pn /\ n.acked <= q.largest /\ n.first_sent < n.pn
    BY DEF InStep, NumbersInStep, KuEnds, KuOpt, Absent
  <2>2. ASSUME NEW y \in mine \cup {x}
        PROVE  /\ y.pn < n.pn /\ y.pn < MaxPktNum /\ y.ack <= n.largest
               /\ y.trunc = EncodePacketNum(y.pn, y.len)
               /\ y.pn < AtLeast(q.largest, 0) + PnWin(y.len) \div 2
    <3>1. CASE y = x
      BY <3>1 DEF KuEnds, KuOpt, Absent
    <3>2. CASE y \in mine
      BY <3>2 DEF InStep, NumbersInStep, KuEnds, KuPkts, KuOpt, Absent
    <3>. QED  BY <3>1, <3>2
  <2>. QED  BY <2>1, <2>2 DEF NumbersInStep
<1>2. NumbersInStep(q, n, theirs)
  BY DEF InStep, NumbersInStep
<1>3. PhasesGrow(n, mine \cup {x})
  <2>1. \A y \in mine : y.pn < k.pn /\ y.gen <= k.gen
    BY DEF InStep, NumbersInStep, PhasesGrow
  <2>. QED  BY <2>1 DEF InStep, PhasesGrow, KuEnds, KuPkts, KuOpt, Absent
<1>4. AckedPhase(n, q, theirs)
  <2>1. CASE k.first_sent = Absent
    <3>1. q.largest < n.first_sent /\ n.acked < n.first_sent
      BY <2>1 DEF InStep, NumbersInStep, KuEnds, KuOpt, Absent
    <3>2. \A y \in theirs : y.ack < n.first_sent
      BY <2>1 DEF InStep, NumbersInStep, KuEnds, KuPkts, KuOpt, Absent
    <3>. QED  BY <3>1, <3>2 DEF AckedPhase, KuEnds, KuPkts, KuOpt, Absent
  <2>2. CASE k.first_sent # Absent
    BY <2>2 DEF InStep, AckedPhase
  <2>. QED  BY <2>1, <2>2
<1>5. AckedPhase(q, n, mine \cup {x})
  <2>1. CASE q.first_sent # Absent
    <3>1. k.largest >= q.first_sent => k.gen >= q.gen
      BY <2>1 DEF InStep, AckedPhase
    <3>2. q.acked <= k.largest
      BY DEF InStep, NumbersInStep
    <3>3. q.acked >= q.first_sent => k.gen >= q.gen
      BY <2>1, <3>1, <3>2 DEF KuEnds, KuOpt, Absent
    <3>. QED  BY <2>1, <3>1, <3>3 DEF InStep, AckedPhase
  <2>. QED  BY <2>1 DEF AckedPhase
<1>6. PhasesInStep(n, q, theirs)
  BY DEF InStep, PhasesInStep
<1>7. PhasesInStep(q, n, mine \cup {x})
  <2>1. q.gen <= k.gen + 1
    BY DEF InStep, PhasesInStep
  <2>2. q.first_recv # Absent /\ x.pn >= q.largest => x.gen >= q.gen
    BY DEF InStep, PhasesInStep, KuEnds, KuPkts
  <2>3. q.first_recv = Absent /\ n.first_sent # Absent /\ q.largest >= n.first_sent => n.gen < q.gen
    <3>1. k.first_sent = Absent => q.largest < n.first_sent
      BY DEF InStep, NumbersInStep
    <3>. QED  BY <3>1 DEF InStep, PhasesInStep, KuEnds, KuOpt, Absent
  <2>. QED  BY <2>1, <2>2, <2>3 DEF InStep, PhasesInStep
<1>. QED  BY <1>1, <1>2, <1>3, <1>4, <1>5, <1>6, <1>7 DEF InStep

\* A packet x of q that k has opened: with the next key (then k follows the
\* update), with its own, or with the previous one.
LEMMA RecvInStep ==
    ASSUME NEW k \in KuEnds, NEW q \in KuEnds, NEW mine \in SUBSET KuPkts,
           NEW theirs \in SUBSET KuPkts, NEW n \in KuEnds, NEW x \in theirs,
           InStep(k, q, mine, theirs), InStep(q, k, theirs, mine),
           n.pn = k.pn,
           n.largest = IF k.largest > x.pn THEN k.largest ELSE x.pn,
           n.acked = IF k.acked > x.ack THEN k.acked ELSE x.ack,
           \/ /\ x.gen = k.gen + 1 /\ n.gen = k.gen + 1
              /\ n.first_sent = Absent /\ n.first_recv # Absent
           \/ /\ x.gen = k.gen /\ n.gen = k.gen
              /\ n.first_sent = k.first_sent /\ n.first_recv # Absent
           \/ /\ x.gen = k.gen - 1 /\ n.gen = k.gen
              /\ n.first_sent = k.first_sent /\ n.first_recv = k.first_recv
    PROVE  InStep(n, q, mine, theirs \ {x}) /\ InStep(q, n, theirs \ {x}, mine)
<1> DEFINE rest == theirs \ {x}
<1>0. /\ x \in KuPkts /\ x.gen <= q.gen /\ x.pn < q.pn /\ x.ack <= q.largest
      /\ \A y \in theirs : x.pn <= y.pn => x.gen <= y.gen
      /\ q.first_sent # Absent /\ x.pn >= q.first_sent => x.gen = q.gen
  BY DEF InStep, NumbersInStep, PhasesGrow
<1>1. n.largest >= k.largest /\ n.largest >= x.pn /\ n.acked >= k.acked /\ n.acked >= x.ack
      /\ n.largest \in Nat
  BY <1>0 DEF KuEnds, KuPkts, KuOpt, Absent
<1>2. NumbersInStep(n, q, mine)
  <2>1. n.acked <= q.largest /\ n.first_sent < n.pn
    BY <1>0 DEF InStep, NumbersInStep, KuEnds, KuPkts, KuOpt, Absent
  <2>2. \A y \in mine : y.ack <= n.largest
    BY <1>1 DEF InStep, NumbersInStep, KuEnds, KuPkts, KuOpt, Absent
  <2>. QED  BY <2>1, <2>2 DEF InStep, NumbersInStep
<1>3. NumbersInStep(q, n, rest)
  <2>1. n.largest < q.pn /\ q.acked <= n.largest
    BY <1>0, <1>1 DEF InStep, NumbersInStep, KuEnds, KuPkts, KuOpt, Absent
  <2>2. ASSUME NEW y \in rest
        PROVE  y.pn < AtLeast(n.largest, 0) + PnWin(y.len) \div 2
    <3>1. y.pn < AtLeast(k.largest, 0) + PnWin(y.len) \div 2
      BY DEF InStep, NumbersInStep
    <3>2. PnWin(y.len) \div 2 \in Int
      BY WinHalf DEF KuPkts
    <3> DEFINE h == PnWin(y.len) \div 2
    <3> HIDE DEF h
    <3>3. y.pn < AtLeast(k.largest, 0) + h /\ h \in Int
      BY <3>1, <3>2 DEF h
    <3>4. y.pn < AtLeast(n.largest, 0) + h
      BY <3>3, <1>1 DEF KuEnds, KuPkts, KuOpt, Absent, AtLeast
    <3>. QED  BY <3>4 DEF h
  <2>. QED  BY <2>1, <2>2 DEF InStep, NumbersInStep
<1>4. PhasesGrow(n, mine) /\ PhasesGrow(q, rest)
  BY DEF InStep, PhasesGrow, KuEnds, KuPkts
<1>5. AckedPhase(n, q, rest)
  <2> SUFFICES ASSUME n.first_sent # Absent PROVE AckedPhase(n, q, rest)
    BY DEF AckedPhase
  <2>1. n.first_sent = k.first_sent /\ n.gen = k.gen /\ k.first_sent # Absent
    OBVIOUS
  <2>2. q.largest >= k.first_sent => q.gen >= k.gen
    BY <2>1 DEF InStep, AckedPhase
  <2>3. \A y \in theirs : y.ack >= k.first_sent => y.gen >= k.gen
    BY <2>1 DEF InStep, AckedPhase
  <2>4. ASSUME n.acked >= k.first_sent, NEW y \in theirs, y.pn >= n.largest
        PROVE  y.gen >= k.gen
    <3>1. CASE n.acked = k.acked
      BY <2>1, <2>4, <3>1, <1>1 DEF InStep, AckedPhase, KuEnds, KuPkts, KuOpt, Absent
    <3>2. CASE n.acked = x.ack
      BY <2>3, <2>4, <3>2, <1>0, <1>1 DEF KuEnds, KuPkts, KuOpt, Absent
    <3>. QED  BY <3>1, <3>2
  <2>. QED  BY <2>1, <2>2, <2>3, <2>4 DEF AckedPhase
<1>6. AckedPhase(q, n, mine)
  <2> SUFFICES ASSUME q.first_sent # Absent PROVE AckedPhase(q, n, mine)
    BY DEF AckedPhase
  <2>1. n.largest >= q.first_sent => n.gen >= q.gen
    BY <1>0 DEF InStep, AckedPhase, KuEnds, KuPkts, KuOpt, Absent
  <2>. QED  BY <2>1 DEF InStep, AckedPhase
<1>7. PhasesInStep(n, q, rest)
  <2>1. n.gen <= q.gen + 1
    BY <1>0 DEF InStep, PhasesInStep, KuEnds, KuPkts
  <2>2. ASSUME NEW y \in theirs, y.pn >= n.largest
        PROVE  y.gen >= x.gen /\ y.gen + 1 >= k.gen
               /\ (k.first_recv # Absent => y.gen >= k.gen)
    BY <2>2, <1>0, <1>1 DEF InStep, PhasesInStep, KuEnds, KuPkts, KuOpt, Absent
  <2>3. \A y \in theirs : y.pn >= n.largest => y.gen + 1 >= n.gen
    BY <2>2, <1>0 DEF KuEnds, KuPkts
  <2>4. n.first_recv # Absent => q.gen >= n.gen
    BY <1>0 DEF InStep, PhasesInStep, KuEnds, KuPkts
  <2>5. n.first_recv # Absent => \A y \in theirs : y.pn >= n.largest => y.gen >= n.gen
    BY <2>2, <1>0 DEF KuEnds, KuPkts
  <2>6. ASSUME n.first_recv = Absent
        PROVE  /\ q.gen <= n.gen
               /\ q.first_sent # Absent /\ n.largest >= q.first_sent => q.gen < n.gen
    <3>1. n.gen = k.gen /\ k.first_recv = Absent /\ x.gen = k.gen - 1
      BY <2>6
    <3>. QED  BY <3>1, <1>0 DEF InStep, PhasesInStep, KuEnds, KuPkts, KuOpt, Absent
  <2>. QED  BY <2>1, <2>3, <2>4, <2>5, <2>6 DEF PhasesInStep
<1>8. PhasesInStep(q, n, mine)
  <2>1. q.gen <= n.gen + 1 /\ (q.first_recv = Absent => n.gen <= q.gen)
        /\ (q.first_recv # Absent => n.gen >= q.gen)
    BY <1>0 DEF InStep, PhasesInStep, KuEnds, KuPkts
  <2>2. q.first_recv = Absent /\ n.first_sent # Absent /\ q.largest >= n.first_sent => n.gen < q.gen
    BY DEF InStep, PhasesInStep
  <2>. QED  BY <2>1, <2>2 DEF InStep, PhasesInStep
<1>. QED  BY <1>2, <1>3, <1>4, <1>5, <1>6, <1>7, <1>8 DEF InStep

\* The fields after update_key.
LEMMA UpdateKeyFields ==
    ASSUME NEW k \in KuEnds
    PROVE  /\ UpdateKey(k) \in KuEnds
           /\ UpdateKey(k).gen = k.gen + 1 /\ UpdateKey(k).pn = k.pn
           /\ UpdateKey(k).largest = k.largest /\ UpdateKey(k).acked = k.acked
           /\ UpdateKey(k).first_sent = Absent /\ UpdateKey(k).first_recv = Absent
           /\ UpdateKey(k).prev = TRUE /\ UpdateKey(k).timer = k.timer
<1>1. k.gen + 1 \in Nat /\ Absent \in KuOpt
  BY DEF KuEnds, KuOpt
<1>2. UpdateKey(k) \in KuEnds
  BY <1>1, ZenonT(30) DEF UpdateKey, KuEnds
<1>3. /\ UpdateKey(k).gen = k.gen + 1 /\ UpdateKey(k).pn = k.pn
      /\ UpdateKey(k).largest = k.largest /\ UpdateKey(k).acked = k.acked
  BY DEF UpdateKey, KuEnds
<1>4. UpdateKey(k).first_sent = Absent /\ UpdateKey(k).first_recv = Absent
  BY DEF UpdateKey, KuEnds
<1>5. UpdateKey(k).prev = TRUE /\ UpdateKey(k).timer = k.timer
  BY DEF UpdateKey, KuEnds
<1>. QED  BY <1>2, <1>3, <1>4, <1>5

\* The key a header selects opens the packet: what the receiver makes of it.
LEMMA OpenedSound ==
    ASSUME NEW k \in KuEnds, NEW x \in KuPkts, NEW u,
           SelectKey(k, x) = x.gen,
           u = TryUpdateKey(k, x, SelectKey(k, x) = k.gen + 1)
    PROVE  /\ u \in KuEnds /\ u.pn = k.pn /\ u.largest = k.largest /\ u.acked = k.acked
           /\ \/ /\ x.gen = k.gen + 1 /\ u.gen = k.gen + 1
                 /\ u.first_sent = Absent /\ u.first_recv # Absent
              \/ /\ x.gen = k.gen /\ u.gen = k.gen
                 /\ u.first_sent = k.first_sent /\ u.first_recv # Absent
              \/ /\ x.gen = k.gen - 1 /\ u.gen = k.gen
                 /\ u.first_sent = k.first_sent /\ u.first_recv = k.first_recv
<1>0. /\ k.gen \in Nat /\ x.gen \in Nat /\ x.trunc \in Nat /\ x.trunc # Absent
      /\ k.prev \in BOOLEAN /\ k.timer \in BOOLEAN
  BY DEF KuEnds, KuPkts, Absent
<1> DEFINE v == UpdateKey(k)
<1>1. CASE k.gen % 2 = x.gen % 2
  <2>1. x.gen = k.gen /\ SelectKey(k, x) # k.gen + 1
    BY <1>1, <1>0 DEF SelectKey
  <2>2. u = IF k.first_recv = Absent THEN [k EXCEPT !.first_recv = x.trunc, !.timer = @ \/ k.prev]
            ELSE k
    BY <1>1, <2>1 DEF TryUpdateKey
  <2>3. (k.timer \/ k.prev) \in BOOLEAN
    BY <1>0
  <2>. QED  BY <2>1, <2>2, <2>3, <1>0, ZenonT(30) DEF KuEnds, KuOpt
<1>2. CASE k.gen % 2 # x.gen % 2 /\ SelectKey(k, x) = k.gen + 1
  <2>1. x.gen = k.gen + 1
    BY <1>2
  <2>2. /\ v \in KuEnds /\ v.gen = k.gen + 1 /\ v.pn = k.pn /\ v.largest = k.largest
        /\ v.acked = k.acked /\ v.first_sent = Absent /\ v.first_recv = Absent
        /\ v.prev = TRUE /\ v.timer = k.timer
    BY UpdateKeyFields, ZenonT(30)
  <2>3. u = [v EXCEPT !.first_recv = x.trunc, !.timer = @ \/ v.prev]
    BY <1>2, <2>1, <2>2, ZenonT(30) DEF TryUpdateKey
  <2> HIDE DEF v
  <2>4. (v.timer \/ v.prev) \in BOOLEAN
    BY <1>0, <2>2
  <2>. QED  BY <2>1, <2>2, <2>3, <2>4, <1>0, ZenonT(30) DEF KuEnds, KuOpt
<1>3. CASE k.gen % 2 # x.gen % 2 /\ SelectKey(k, x) # k.gen + 1
  <2>1. x.gen = k.gen - 1
    BY <1>3, <1>0 DEF SelectKey, Absent
  <2>2. u = k
    BY <1>3 DEF TryUpdateKey
  <2>. QED  BY <2>1, <2>2
<1>. QED  BY <1>1, <1>2, <1>3

\* Why a packet that arrives in order may not be opened.
LEMMA RefusedWhy ==
    ASSUME NEW k \in KuEnds, NEW q \in KuEnds, NEW mine \in SUBSET KuPkts,
           NEW theirs \in SUBSET KuPkts, NEW x \in theirs,
           InStep(k, q, mine, theirs), InStep(q, k, theirs, mine),
           x.pn >= AtLeast(k.largest, 0),
           ~(/\ SelectKey(k, x) = x.gen
             /\ DecodePacketNum(AtLeast(k.largest, 0), x.trunc, x.len) = x.pn)
    PROVE  \/ x.gen = k.gen + 1 /\ k.first_recv # Absent /\ x.trunc <= k.first_recv
           \/ x.gen = k.gen - 1 /\ ~k.prev
<1>0. /\ x \in KuPkts /\ k.gen \in Nat /\ x.gen \in Nat /\ x.pn \in Nat /\ x.len \in 1..4
      /\ x.trunc \in Nat /\ k.first_recv \in KuOpt
      /\ k.largest \in KuOpt /\ q.gen \in Nat /\ k.prev \in BOOLEAN
  BY DEF KuEnds, KuPkts
<1>1. DecodePacketNum(AtLeast(k.largest, 0), x.trunc, x.len) = x.pn
  <2> DEFINE l == AtLeast(k.largest, 0)
             h == PnWin(x.len) \div 2
  <2>1. l \in Nat /\ x.pn >= l
    BY <1>0 DEF AtLeast, KuOpt, Absent
  <2>2. x.pn < l + h /\ x.pn < MaxPktNum /\ x.trunc = EncodePacketNum(x.pn, x.len)
    BY DEF InStep, NumbersInStep
  <2>3. h \in Nat /\ h >= 128
    BY <1>0, WinHalf
  <2> HIDE DEF l, h
  <2>4. l + 1 < x.pn + h
    BY <1>0, <2>1, <2>3
  <2>5. DecodePacketNum(l, EncodePacketNum(x.pn, x.len), x.len) = x.pn
    BY <1>0, <2>1, <2>2, <2>4, DecodeExact, PktNumConstants DEF h
  <2>. QED  BY <2>2, <2>5 DEF l
<1>2. SelectKey(k, x) # x.gen
  BY <1>1
<1>3. x.pn >= k.largest
  BY <1>0 DEF AtLeast, KuOpt, Absent
<1>4. x.gen <= k.gen + 1 /\ x.gen + 1 >= k.gen
      /\ (k.first_recv # Absent => x.gen >= k.gen) /\ (k.first_recv = Absent => x.gen <= k.gen)
  <2>1. x.gen <= q.gen
    BY DEF InStep, PhasesGrow
  <2>. QED  BY <1>0, <1>3, <2>1 DEF InStep, PhasesInStep
<1>5. CASE x.gen = k.gen
  BY <1>2, <1>5 DEF SelectKey
<1>6. CASE x.gen = k.gen + 1
  <2>1. k.gen % 2 # x.gen % 2 /\ k.first_recv # Absent
    BY <1>0, <1>4, <1>6
  <2>2. ~(x.trunc > k.first_recv)
    BY <1>2, <1>6, <2>1 DEF SelectKey
  <2>. QED  BY <1>0, <1>6, <2>1, <2>2 DEF KuOpt, Absent
<1>7. CASE x.gen = k.gen - 1
  <2>1. k.gen % 2 # x.gen % 2 /\ k.first_recv = Absent
    BY <1>0, <1>4, <1>7
  <2>. QED  BY <1>0, <1>2, <1>7, <2>1 DEF SelectKey
<1>. QED  BY <1>0, <1>4, <1>5, <1>6, <1>7

-----------------------------------------------------------------------------
\* The two sides, and the packets of each among those on their way.
LEMMA Sides2 ==
    \A s \in KuSides : KuPeer(s) \in KuSides /\ KuPeer(s) # s /\ KuPeer(KuPeer(s)) = s
                     /\ KuSides = {s, KuPeer(s)}
BY DEF KuSides, KuPeer

\* A step of one side: both views of the pair are enough.
LEMMA BothFromPair ==
    ASSUME NEW s \in KuSides, NEW end, NEW net,
           InStep(end[s], end[KuPeer(s)], KuFrom(net, s), KuFrom(net, KuPeer(s))),
           InStep(end[KuPeer(s)], end[s], KuFrom(net, KuPeer(s)), KuFrom(net, s))
    PROVE  BothInStep(end, net)
BY Sides2 DEF BothInStep

\* The same the other way round.
LEMMA PairFromBoth ==
    ASSUME NEW s \in KuSides, NEW end, NEW net, BothInStep(end, net)
    PROVE  /\ InStep(end[s], end[KuPeer(s)], KuFrom(net, s), KuFrom(net, KuPeer(s)))
           /\ InStep(end[KuPeer(s)], end[s], KuFrom(net, KuPeer(s)), KuFrom(net, s))
BY Sides2 DEF BothInStep

\* Two endpoints that have exchanged `start` packets, or none.
LEMMA KuInitInv ==
    KuInit => KuInv
<1> SUFFICES ASSUME NEW start \in KuStarts,
                    ku = [end |-> [s \in KuSides |-> KuEndpoint(start)], net |-> {},
                          early |-> FALSE, refused |-> {}]
             PROVE  KuInv
  BY ZenonT(30) DEF KuInit
<1>1. start \in Nat
  BY KeyUpdateConstants
<1> DEFINE k == KuEndpoint(start)
<1>2. /\ k \in KuEnds /\ k.gen = 0 /\ k.pn = start
      /\ k.first_recv = (IF start = 0 THEN Absent ELSE 0)
      /\ k.first_sent = (IF start = 0 THEN Absent ELSE 0)
      /\ k.largest = (IF start = 0 THEN Absent ELSE start - 1)
      /\ k.acked = (IF start = 0 THEN Absent ELSE start - 1)
  BY <1>1 DEF KuEndpoint, KuEnds, KuOpt
<1> HIDE DEF k
<1>3. InStep(k, k, {}, {})
  BY <1>1, <1>2 DEF InStep, NumbersInStep, PhasesGrow, AckedPhase, PhasesInStep, Absent
<1>4. KuTypeOK
  BY <1>2 DEF KuTypeOK, k
<1>5. ASSUME NEW s \in KuSides
      PROVE  /\ ku.end[s] = k /\ ku.end[KuPeer(s)] = k
             /\ KuFrom(ku.net, s) = {} /\ KuFrom(ku.net, KuPeer(s)) = {}
  BY Sides2 DEF k, KuFrom
<1>6. BothInStep(ku.end, ku.net)
  BY <1>3, <1>5 DEF BothInStep
<1>. QED  BY <1>4, <1>6 DEF KuInv

\* An update that an endpoint starts.
LEMMA InitiateInv ==
    ASSUME KuInv, NEW s \in KuSides, InitiateKeyUpdate(s)
    PROVE  KuInv'
<1> DEFINE k == ku.end[s]
           p == KuPeer(s)
           u == UpdateKey(k)
<1>1. /\ UpdateAllowed(k)
      /\ ku' = [ku EXCEPT !.end[s] = u, !.early = @ \/ k.acked = Absent]
  BY DEF InitiateKeyUpdate
<1>2. k \in KuEnds /\ ku.end[p] \in KuEnds /\ KuTypeOK /\ p \in KuSides /\ p # s
  BY Sides2 DEF KuInv, KuTypeOK
<1>3. /\ u \in KuEnds /\ u.gen = k.gen + 1 /\ u.pn = k.pn
      /\ u.largest = k.largest /\ u.acked = k.acked
      /\ u.first_sent = Absent /\ u.first_recv = Absent
  BY <1>2, UpdateKeyFields, ZenonT(30)
<1> HIDE DEF u
<1>4. /\ ku'.end = [ku.end EXCEPT ![s] = u] /\ ku'.net = ku.net /\ ku'.refused = ku.refused
      /\ ku'.early = (ku.early \/ k.acked = Absent)
  BY <1>1, <1>2 DEF KuTypeOK
<1>5. KuTypeOK'
  <2>1. [ku.end EXCEPT ![s] = u] \in [KuSides -> KuEnds]
    BY <1>2, <1>3 DEF KuTypeOK
  <2>2. (ku.early \/ k.acked = Absent) \in BOOLEAN
    BY <1>2 DEF KuTypeOK
  <2>. QED  BY <1>1, <1>2, <2>1, <2>2, ZenonT(30) DEF KuTypeOK
<1>6. ASSUME ~ku'.early
      PROVE  BothInStep(ku'.end, ku'.net) /\ \A r \in ku'.refused : Excused(r)
  <2>1. ~ku.early /\ k.acked # Absent
    BY <1>4, <1>6, ZenonT(30)
  <2>2. k.first_sent # Absent /\ k.first_sent <= k.acked
    BY <1>1, <2>1 DEF UpdateAllowed
  <2> DEFINE mine == KuFrom(ku.net, s)
             theirs == KuFrom(ku.net, p)
  <2>3. InStep(k, ku.end[p], mine, theirs) /\ InStep(ku.end[p], k, theirs, mine)
    BY <2>1, PairFromBoth DEF KuInv
  <2>4. mine \in SUBSET KuPkts /\ theirs \in SUBSET KuPkts
    BY <1>2 DEF KuTypeOK, KuFrom
  <2> HIDE DEF k, mine, theirs
  <2>5. InStep(u, ku.end[p], mine, theirs) /\ InStep(ku.end[p], u, theirs, mine)
    BY <1>2, <1>3, <2>2, <2>3, <2>4, UpdateInStep
  <2>6. ku'.end[s] = u /\ ku'.end[p] = ku.end[p]
    BY <1>2, <1>4 DEF KuTypeOK
  <2>7. BothInStep(ku'.end, ku'.net)
    BY <1>4, <2>5, <2>6, BothFromPair, ZenonT(30) DEF mine, theirs
  <2>. QED  BY <1>4, <2>1, <2>7 DEF KuInv
<1>. QED  BY <1>5, <1>6 DEF KuInv

\* The key of the phase before is discarded: nothing the invariant speaks of.
LEMMA DiscardInv ==
    ASSUME KuInv, NEW s \in KuSides, DiscardPrevKey(s)
    PROVE  KuInv'
<1> DEFINE k == ku.end[s]
           p == KuPeer(s)
           n == [k EXCEPT !.timer = FALSE, !.prev = FALSE]
<1>1. k \in KuEnds /\ ku.end[p] \in KuEnds /\ KuTypeOK /\ p \in KuSides /\ p # s
  BY Sides2 DEF KuInv, KuTypeOK
<1>2. ku' = [ku EXCEPT !.end = [@ EXCEPT ![s] = n]]
  BY <1>1, ZenonT(30) DEF DiscardPrevKey, KuTypeOK
<1>3. /\ n \in KuEnds /\ n.gen = k.gen /\ n.pn = k.pn /\ n.first_recv = k.first_recv
      /\ n.first_sent = k.first_sent /\ n.largest = k.largest /\ n.acked = k.acked
  BY <1>1, ZenonT(30) DEF KuEnds
<1> HIDE DEF n
<1>4. /\ ku'.end = [ku.end EXCEPT ![s] = n] /\ ku'.net = ku.net /\ ku'.refused = ku.refused
      /\ ku'.early = ku.early
  BY <1>1, <1>2 DEF KuTypeOK
<1>5. KuTypeOK'
  <2>1. [ku.end EXCEPT ![s] = n] \in [KuSides -> KuEnds]
    BY <1>1, <1>3 DEF KuTypeOK
  <2>. QED  BY <1>1, <1>2, <2>1 DEF KuTypeOK
<1>6. ASSUME ~ku'.early
      PROVE  BothInStep(ku'.end, ku'.net) /\ \A r \in ku'.refused : Excused(r)
  <2> DEFINE mine == KuFrom(ku.net, s)
             theirs == KuFrom(ku.net, p)
  <2>3. InStep(k, ku.end[p], mine, theirs) /\ InStep(ku.end[p], k, theirs, mine)
    BY <1>4, <1>6, PairFromBoth DEF KuInv
  <2> HIDE DEF k, mine, theirs
  <2>5. InStep(n, ku.end[p], mine, theirs) /\ InStep(ku.end[p], n, theirs, mine)
    BY <1>3, <2>3, ZenonT(30) DEF InStep, NumbersInStep, PhasesGrow, AckedPhase, PhasesInStep
  <2>6. ku'.end[s] = n /\ ku'.end[p] = ku.end[p]
    BY <1>1, <1>4 DEF KuTypeOK
  <2>7. BothInStep(ku'.end, ku'.net)
    BY <1>4, <2>5, <2>6, BothFromPair, ZenonT(30) DEF mine, theirs
  <2>. QED  BY <1>4, <1>6, <2>7 DEF KuInv
<1>. QED  BY <1>5, <1>6 DEF KuInv

\* A packet sent.
LEMMA KuSendInv ==
    ASSUME KuInv, NEW s \in KuSides, KuSend(s)
    PROVE  KuInv'
<1> DEFINE k == ku.end[s]
           p == KuPeer(s)
           len == PacketNumLen(k.pn, k.acked)
           x == [from |-> s, pn |-> k.pn, trunc |-> EncodePacketNum(k.pn, len), len |-> len,
                 gen |-> k.gen, ack |-> k.largest]
           fs == IF k.first_sent = Absent THEN k.pn ELSE k.first_sent
           n == [k EXCEPT !.pn = @ + 1, !.sent = @ + 1, !.first_sent = fs]
<1>1. k \in KuEnds /\ ku.end[p] \in KuEnds /\ KuTypeOK /\ p \in KuSides /\ p # s
  BY Sides2 DEF KuInv, KuTypeOK
<1>2. /\ len <= PnMaxLen /\ k.pn < MaxPktNum
      /\ ku' = [ku EXCEPT !.net = @ \cup {x}, !.end[s] = n]
  BY DEF KuSend
<1>3. k.pn \in Nat /\ k.acked \in Nat \cup {Absent} /\ k.largest \in KuOpt /\ k.gen \in Nat
      /\ k.sent \in Nat /\ k.first_sent \in KuOpt
  BY <1>1 DEF KuEnds, KuOpt
<1> HIDE DEF k
<1>4. len \in 1..4
  <2>1. len \in 1..5
    BY <1>3, LenRange
  <2> HIDE DEF len
  <2>. QED  BY <1>2, <2>1, PktNumConstants
<1> HIDE DEF len
<1>5. EncodePacketNum(k.pn, len) \in Nat
  BY <1>3, <1>4, EncodeNat
<1>6. /\ x \in KuPkts /\ x.pn = k.pn /\ x.gen = k.gen /\ x.ack = k.largest /\ x.from = s
      /\ x.len = len /\ x.trunc = EncodePacketNum(x.pn, x.len)
  BY <1>3, <1>4, <1>5 DEF KuPkts
<1>7. fs \in KuOpt /\ k.pn + 1 \in Nat /\ k.sent + 1 \in Nat
  BY <1>3 DEF KuOpt
<1> HIDE DEF x, fs
<1>8. /\ n \in KuEnds /\ n.pn = k.pn + 1 /\ n.gen = k.gen /\ n.first_recv = k.first_recv
      /\ n.first_sent = fs /\ n.largest = k.largest /\ n.acked = k.acked
  BY <1>1, <1>7, ZenonT(30) DEF KuEnds
<1> HIDE DEF n
<1>9. /\ ku'.end = [ku.end EXCEPT ![s] = n] /\ ku'.net = ku.net \cup {x}
      /\ ku'.refused = ku.refused /\ ku'.early = ku.early
  BY <1>1, <1>2 DEF KuTypeOK
<1>10. KuTypeOK'
  <2>1. [ku.end EXCEPT ![s] = n] \in [KuSides -> KuEnds]
    BY <1>1, <1>8 DEF KuTypeOK
  <2>2. ku.net \cup {x} \in SUBSET KuPkts
    BY <1>1, <1>6 DEF KuTypeOK
  <2>3. ku' = [ku EXCEPT !.net = ku.net \cup {x}, !.end = [ku.end EXCEPT ![s] = n]]
    BY <1>1, <1>2 DEF KuTypeOK
  <2>. QED  BY <1>1, <2>1, <2>2, <2>3, ZenonT(30) DEF KuTypeOK
<1>11. ASSUME ~ku'.early
       PROVE  BothInStep(ku'.end, ku'.net) /\ \A r \in ku'.refused : Excused(r)
  <2> DEFINE mine == KuFrom(ku.net, s)
             theirs == KuFrom(ku.net, p)
             q == ku.end[p]
  <2>1. InStep(k, q, mine, theirs) /\ InStep(q, k, theirs, mine)
    BY <1>9, <1>11, PairFromBoth DEF KuInv, k
  <2>2. mine \in SUBSET KuPkts /\ theirs \in SUBSET KuPkts
    BY <1>1 DEF KuTypeOK, KuFrom
  <2>3. KuFrom(ku'.net, s) = mine \cup {x} /\ KuFrom(ku'.net, p) = theirs
    BY <1>1, <1>6, <1>9 DEF KuFrom
  <2> HIDE DEF mine, theirs
  <2>4. x.pn < AtLeast(q.largest, 0) + PnWin(x.len) \div 2
    <3>1. q.largest \in KuOpt /\ k.acked <= q.largest
      BY <1>1, <2>1 DEF InStep, NumbersInStep, KuEnds
    <3>2. AtLeast(q.largest, 0) \in Nat /\ (k.acked # Absent => k.acked <= AtLeast(q.largest, 0))
      BY <1>3, <3>1 DEF KuOpt, Absent, AtLeast
    <3> DEFINE l == AtLeast(q.largest, 0)
    <3> HIDE DEF l
    <3>3. PacketNumLen(k.pn, k.acked) <= 4
      BY <1>4 DEF len
    <3>4. k.pn < l + PnWin(PacketNumLen(k.pn, k.acked)) \div 2
      BY <1>3, <3>2, <3>3, LenSuffices DEF l
    <3>. QED  BY <1>6, <3>4 DEF len, l
  <2> HIDE DEF q
  <2>5. InStep(n, q, mine \cup {x}, theirs) /\ InStep(q, n, theirs, mine \cup {x})
    <3>1. n.first_sent = IF k.first_sent = Absent THEN k.pn ELSE k.first_sent
      BY <1>8 DEF fs
    <3>2. q \in KuEnds
      BY <1>1 DEF q
    <3>. QED  BY <1>1, <1>2, <1>6, <1>8, <2>1, <2>2, <2>4, <3>1, <3>2, SendInStep
  <2>6. ku'.end[s] = n /\ ku'.end[p] = q
    BY <1>1, <1>9 DEF KuTypeOK, q
  <2>7. BothInStep(ku'.end, ku'.net)
    BY <2>3, <2>5, <2>6, BothFromPair
  <2>. QED  BY <1>9, <1>11, <2>7 DEF KuInv
<1>. QED  BY <1>10, <1>11 DEF KuInv

\* A packet that arrives, opened or not.
LEMMA KuRecvInv ==
    ASSUME KuInv, NEW x \in ku.net, KuRecv(x)
    PROVE  KuInv'
<1> DEFINE p == x.from
           s == KuPeer(p)
           k == ku.end[s]
           l == IF k.largest = Absent THEN 0 ELSE k.largest
           key == SelectKey(k, x)
           opened == key = x.gen /\ DecodePacketNum(l, x.trunc, x.len) = x.pn
           u == TryUpdateKey(k, x, key = k.gen + 1)
           acked == IF x.ack = Absent THEN u.acked
                    ELSE IF u.acked = Absent THEN x.ack ELSE AtLeast(u.acked, x.ack)
           got == [u EXCEPT !.largest = AtLeast(l, x.pn), !.acked = acked]
           n == IF opened THEN got ELSE k
           r == [pkt |-> x, phase |-> k.gen, first |-> k.first_recv, prev |-> k.prev]
           refused == IF opened \/ x.pn < l THEN ku.refused ELSE ku.refused \cup {r}
<1>1. ku' = [ku EXCEPT !.net = @ \ {x}, !.end[s] = n, !.refused = refused]
  BY DEF KuRecv
<1>2. /\ KuTypeOK /\ x \in KuPkts /\ p \in KuSides /\ s \in KuSides /\ p # s /\ KuPeer(s) = p
      /\ k \in KuEnds /\ ku.end[p] \in KuEnds
  <2>1. KuTypeOK /\ x \in KuPkts
    BY DEF KuInv, KuTypeOK
  <2>2. p \in KuSides
    BY <2>1 DEF KuPkts
  <2>. QED  BY <2>1, <2>2, Sides2 DEF KuTypeOK
<1>3. l = AtLeast(k.largest, 0) /\ l \in Nat
  BY <1>2 DEF KuEnds, KuOpt, Absent, AtLeast
<1> HIDE DEF l, k
<1>4. ASSUME opened
      PROVE  /\ got \in KuEnds /\ got.pn = k.pn
             /\ got.largest = IF k.largest > x.pn THEN k.largest ELSE x.pn
             /\ got.acked = IF k.acked > x.ack THEN k.acked ELSE x.ack
             /\ \/ /\ x.gen = k.gen + 1 /\ got.gen = k.gen + 1
                   /\ got.first_sent = Absent /\ got.first_recv # Absent
                \/ /\ x.gen = k.gen /\ got.gen = k.gen
                   /\ got.first_sent = k.first_sent /\ got.first_recv # Absent
                \/ /\ x.gen = k.gen - 1 /\ got.gen = k.gen
                   /\ got.first_sent = k.first_sent /\ got.first_recv = k.first_recv
  <2>1. /\ u \in KuEnds /\ u.pn = k.pn /\ u.largest = k.largest /\ u.acked = k.acked
        /\ \/ /\ x.gen = k.gen + 1 /\ u.gen = k.gen + 1
              /\ u.first_sent = Absent /\ u.first_recv # Absent
           \/ /\ x.gen = k.gen /\ u.gen = k.gen
              /\ u.first_sent = k.first_sent /\ u.first_recv # Absent
           \/ /\ x.gen = k.gen - 1 /\ u.gen = k.gen
              /\ u.first_sent = k.first_sent /\ u.first_recv = k.first_recv
    <3>1. SelectKey(k, x) = x.gen
      BY <1>4
    <3>2. u = TryUpdateKey(k, x, SelectKey(k, x) = k.gen + 1)
      OBVIOUS
    <3> HIDE DEF u, key
    <3>. QED  BY <1>2, <3>1, <3>2, OpenedSound
  <2> HIDE DEF u
  <2>2. AtLeast(l, x.pn) \in KuOpt
        /\ AtLeast(l, x.pn) = IF k.largest > x.pn THEN k.largest ELSE x.pn
    BY <1>2, <1>3 DEF KuEnds, KuPkts, KuOpt, Absent, AtLeast
  <2>3. acked \in KuOpt /\ acked = IF k.acked > x.ack THEN k.acked ELSE x.ack
    BY <1>2, <2>1 DEF KuEnds, KuPkts, KuOpt, Absent, AtLeast
  <2> DEFINE m == AtLeast(l, x.pn)
  <2> HIDE DEF acked, m
  <2>4. got = [u EXCEPT !.largest = m, !.acked = acked]
    BY DEF m
  <2>5. m \in KuOpt /\ acked \in KuOpt
    BY <2>2, <2>3 DEF m
  <2>6. /\ got \in KuEnds /\ got.pn = u.pn /\ got.largest = m /\ got.acked = acked
        /\ got.gen = u.gen /\ got.first_sent = u.first_sent /\ got.first_recv = u.first_recv
    BY <2>1, <2>4, <2>5, ZenonT(30) DEF KuEnds
  <2> HIDE DEF got
  <2>. QED  BY <2>1, <2>2, <2>3, <2>6 DEF m
<1>5. n \in KuEnds
  BY <1>2, <1>4
<1>6. refused \in SUBSET KuRefusals
  BY <1>2 DEF KuTypeOK, KuRefusals, KuEnds
<1> HIDE DEF n, refused
<1>7. /\ ku'.end = [ku.end EXCEPT ![s] = n] /\ ku'.net = ku.net \ {x}
      /\ ku'.refused = refused /\ ku'.early = ku.early
  BY <1>1, <1>2 DEF KuTypeOK
<1>8. KuTypeOK'
  <2>1. [ku.end EXCEPT ![s] = n] \in [KuSides -> KuEnds]
    BY <1>2, <1>5 DEF KuTypeOK
  <2>2. ku' = [ku EXCEPT !.net = @ \ {x}, !.end = [ku.end EXCEPT ![s] = n], !.refused = refused]
    BY <1>1, <1>2 DEF KuTypeOK
  <2>. QED  BY <1>2, <1>6, <2>1, <2>2, ZenonT(30) DEF KuTypeOK
<1>9. ASSUME ~ku'.early
      PROVE  BothInStep(ku'.end, ku'.net) /\ \A e \in ku'.refused : Excused(e)
  <2> DEFINE mine == KuFrom(ku.net, s)
             theirs == KuFrom(ku.net, p)
             q == ku.end[p]
  <2>0. ~ku.early
    BY <1>7, <1>9
  <2>1. InStep(k, q, mine, theirs) /\ InStep(q, k, theirs, mine)
    BY <1>2, <2>0, PairFromBoth DEF KuInv, k
  <2>2. mine \in SUBSET KuPkts /\ theirs \in SUBSET KuPkts /\ x \in theirs /\ q \in KuEnds
    BY <1>2 DEF KuTypeOK, KuFrom
  <2>3. KuFrom(ku'.net, s) = mine /\ KuFrom(ku'.net, p) = theirs \ {x}
    BY <1>2, <1>7 DEF KuFrom
  <2> HIDE DEF mine, theirs, q
  <2>4. InStep(n, q, mine, theirs \ {x}) /\ InStep(q, n, theirs \ {x}, mine)
    <3>1. CASE opened
      <4>1. n = got
        BY <3>1 DEF n
      <4> HIDE DEF got
      <4>. QED  BY <1>2, <1>4, <2>1, <2>2, <3>1, <4>1, RecvInStep, ZenonT(30)
    <3>2. CASE ~opened
      <4>1. n = k
        BY <3>2 DEF n
      <4>2. \A y \in theirs \ {x} : y \in theirs
        OBVIOUS
      <4>. QED  BY <2>1, <4>1, <4>2, ZenonT(30) DEF InStep, NumbersInStep, PhasesGrow, AckedPhase, PhasesInStep
    <3>. QED  BY <3>1, <3>2
  <2>5. ku'.end[s] = n /\ ku'.end[p] = q
    BY <1>2, <1>7 DEF KuTypeOK, q
  <2>6. BothInStep(ku'.end, ku'.net)
    BY <1>2, <2>3, <2>4, <2>5, BothFromPair
  <2>7. \A e \in ku.refused : Excused(e)
    BY <2>0 DEF KuInv
  <2>8. ASSUME ~opened, x.pn >= l
        PROVE  Excused(r)
    <3>1. \/ x.gen = k.gen + 1 /\ k.first_recv # Absent /\ x.trunc <= k.first_recv
          \/ x.gen = k.gen - 1 /\ ~k.prev
      BY <1>2, <1>3, <2>1, <2>2, <2>8, RefusedWhy
    <3>. QED  BY <3>1 DEF Excused
  <2>9. x.pn < l \/ x.pn >= l
    BY <1>2, <1>3 DEF KuPkts
  <2>10. \A e \in refused : Excused(e)
    BY <2>7, <2>8, <2>9 DEF refused
  <2>. QED  BY <1>7, <2>6, <2>10
<1>. QED  BY <1>8, <1>9 DEF KuInv

\* Every step keeps the invariant.
LEMMA KuNextInv ==
    KuInv /\ [KuNext]_kuVars => KuInv'
<1> SUFFICES ASSUME KuInv, [KuNext]_kuVars PROVE KuInv'
  OBVIOUS
<1>1. CASE UNCHANGED ku
  BY <1>1 DEF KuInv, KuTypeOK
<1>. QED  BY <1>1, InitiateInv, KuSendInv, DiscardInv, KuRecvInv DEF KuNext, KuDone, kuVars

\* The property follows from the phases being in step on both sides.
LEMMA KuInvInStep ==
    KuInv => KeysStayInStep
<1> SUFFICES ASSUME KuInv, ~ku.early
             PROVE  /\ ku.end["a"].gen - ku.end["b"].gen \in {-1, 0, 1}
                    /\ \A r \in ku.refused : Excused(r)
  BY DEF KeysStayInStep, Excused
<1>1. ku.end["a"].gen \in Nat /\ ku.end["b"].gen \in Nat
  BY DEF KuInv, KuTypeOK, KuEnds, KuSides
<1>2. ku.end["a"].gen <= ku.end["b"].gen + 1 /\ ku.end["b"].gen <= ku.end["a"].gen + 1
  BY DEF KuInv, BothInStep, InStep, PhasesInStep, KuSides, KuPeer
<1>. QED  BY <1>1, <1>2 DEF KuInv

\* The inductive invariant of two endpoints that update their keys.
THEOREM KuInvHolds ==
    KuSpec => []KuInv
BY KuInitInv, KuNextInv, PTL DEF KuSpec

\* However packets are delayed and reordered and whoever starts updates: the
\* endpoints are never more than a generation apart, and a packet that arrives
\* in order is opened but for the two cases KeysStayInStep names (tls.rs).
THEOREM KeysAlwaysInStep ==
    KuSpec => []KeysStayInStep
BY KuInvHolds, KuInvInStep, PTL

-----------------------------------------------------------------------------
(* Path MTU discovery.                                                     *)

PmBound == AtLeast(BasePmtu, AtMost(pm.peer, pm.d.max))

Dplpmtud ==
    [should_probe : BOOLEAN, current : Nat, probe : Nat \cup {Absent}, count : Nat, failed : Nat,
     max : Nat]

PmTypeOK ==
    pm \in [d : Dplpmtud, enable : BOOLEAN, path : Nat, peer : Nat, flight : SUBSET Nat,
            losses : Nat]

SizesSound ==
    /\ pm.d.current <= AtLeast(BasePmtu, AtMost(pm.path, AtMost(pm.peer, pm.d.max)))
    /\ pm.d.failed <= PmBound
    /\ pm.d.probe <= PmBound
    /\ \A f \in pm.flight : f <= PmBound

Probing ==
    pm.enable =>
        pm.d.should_probe \/ CheckFinish(pm.d, pm.peer) \/ \E f \in pm.flight : f = pm.d.probe

Failures ==
    /\ pm.d.probe = Absent => pm.d.count = 0
    /\ pm.d.probe <= pm.path => pm.d.count <= pm.losses
    /\ pm.d.failed > 0 /\ pm.d.failed <= pm.path => pm.losses >= MaxProbeCount

PmInv == PmTypeOK /\ SizesSound /\ Probing /\ Failures

\* ProbeSize stays between the bounds it is given.
LEMMA ProbeSizeBound ==
    ASSUME NEW d \in Dplpmtud, NEW peer \in Nat, NEW b \in Nat,
           d.current <= b, d.failed <= b, AtMost(peer, d.max) <= b
    PROVE  ProbeSize(d, peer) \in Nat /\ ProbeSize(d, peer) <= b
<1>1. MtuCeiling(d, peer) \in Nat /\ MtuCeiling(d, peer) <= b
  BY DEF Dplpmtud, MtuCeiling, AtMost
<1>. QED  BY <1>1 DEF Dplpmtud, ProbeSize

\* What a step of the search leaves: a fresh probe size with no losses counted,
\* and a probe due unless the search is over.
LEMMA SearchedSound ==
    ASSUME NEW d \in Dplpmtud, NEW peer \in Nat, NEW b \in Nat, NEW e,
           e = Searched(d, peer),
           d.current <= b, d.failed <= b, AtMost(peer, d.max) <= b
    PROVE  /\ e \in Dplpmtud
           /\ e.current = d.current /\ e.failed = d.failed /\ e.max = d.max
           /\ e.count = 0 /\ e.probe \in Nat /\ e.probe <= b
           /\ e.should_probe \/ CheckFinish(e, peer)
<1> DEFINE f == [d EXCEPT !.probe = ProbeSize(d, peer), !.count = 0]
<1>1. ProbeSize(d, peer) \in Nat /\ ProbeSize(d, peer) <= b
  BY ProbeSizeBound
<1>2. f \in Dplpmtud /\ f.current = d.current /\ f.failed = d.failed /\ f.max = d.max
      /\ f.count = 0 /\ f.probe = ProbeSize(d, peer)
  BY <1>1, ZenonT(30) DEF Dplpmtud
<1>3. e = [f EXCEPT !.should_probe = ~CheckFinish(f, peer)]
  BY DEF Searched
<1> HIDE DEF f
<1>4. CheckFinish(f, peer) \in BOOLEAN
  BY <1>2 DEF CheckFinish
<1>5. /\ e \in Dplpmtud /\ e.current = f.current /\ e.failed = f.failed /\ e.max = f.max
      /\ e.count = f.count /\ e.probe = f.probe /\ e.should_probe = ~CheckFinish(f, peer)
  BY <1>2, <1>3, <1>4, ZenonT(30) DEF Dplpmtud
<1>6. CheckFinish(e, peer) <=> CheckFinish(f, peer)
  BY <1>5 DEF CheckFinish, MtuCeiling
<1>. QED  BY <1>1, <1>2, <1>5, <1>6, ZenonT(30)

\* At the start only the base size is in use.
LEMMA PmInitInv ==
    PmInit => PmInv
<1> SUFFICES ASSUME NEW p \in PmPaths, NEW q \in PmPeers, NEW max \in PmMax,
                    NEW enable \in BOOLEAN, NEW ipv6 \in BOOLEAN,
                    pm = [d |-> DplpmtudNew(enable, max, ipv6), enable |-> enable, path |-> p,
                          peer |-> q, flight |-> {}, losses |-> 0]
             PROVE  PmInv
  BY DEF PmInit
<1>1. p \in Nat /\ q \in Nat /\ max \in Nat
  BY PmtudConstants
<1>2. /\ DplpmtudNew(enable, max, ipv6) \in Dplpmtud
      /\ DplpmtudNew(enable, max, ipv6).should_probe = enable /\ DplpmtudNew(enable, max, ipv6).current = BasePmtu
      /\ DplpmtudNew(enable, max, ipv6).probe = Absent /\ DplpmtudNew(enable, max, ipv6).count = 0
      /\ DplpmtudNew(enable, max, ipv6).failed = 0
  BY <1>1 DEF DplpmtudNew, Dplpmtud, BasePmtu, MaxPacketSize, Absent
<1>3. PmTypeOK
  BY <1>1, <1>2 DEF PmTypeOK
<1>4. SizesSound
  BY <1>1, <1>2 DEF SizesSound, PmBound, AtLeast, AtMost, BasePmtu, Absent, Dplpmtud
<1>5. Probing /\ Failures
  BY <1>1, <1>2 DEF Probing, Failures, Absent
<1>. QED  BY <1>3, <1>4, <1>5 DEF PmInv

\* The bounds of the sizes in use.
LEMMA PmBounds ==
    ASSUME PmTypeOK, SizesSound
    PROVE  /\ PmBound \in Nat /\ pm.d \in Dplpmtud /\ pm.peer \in Nat /\ pm.path \in Nat
           /\ pm.d.current \in Nat /\ pm.d.failed \in Nat /\ pm.d.count \in Nat
           /\ pm.d.max \in Nat /\ pm.losses \in Nat
           /\ pm.d.current <= PmBound /\ pm.d.failed <= PmBound
           /\ AtMost(pm.peer, pm.d.max) <= PmBound /\ BasePmtu <= PmBound
<1>1. /\ pm.d \in Dplpmtud /\ pm.peer \in Nat /\ pm.path \in Nat
      /\ pm.d.current \in Nat /\ pm.d.failed \in Nat /\ pm.d.count \in Nat
      /\ pm.d.max \in Nat /\ pm.losses \in Nat
  BY DEF PmTypeOK, Dplpmtud
<1>. QED  BY <1>1 DEF SizesSound, PmBound, AtLeast, AtMost, BasePmtu

\* Sending a probe: it is of the size that is due.
LEMMA PmProbeInv ==
    ASSUME PmInv, PmProbe
    PROVE  PmInv'
<1> DEFINE size == GetProbeSize(pm.d, pm.peer)
           d == [pm.d EXCEPT !.probe = size, !.should_probe = FALSE]
<1>0. PmTypeOK /\ SizesSound /\ Failures
  BY DEF PmInv
<1>1. ProbeSize(pm.d, pm.peer) \in Nat /\ ProbeSize(pm.d, pm.peer) <= PmBound
  BY <1>0, PmBounds, ProbeSizeBound
<1>2. size \in Nat /\ size <= PmBound /\ (size <= pm.path => pm.d.count <= pm.losses)
  <2>1. CASE pm.d.probe = Absent
    BY <2>1, <1>0, <1>1, PmBounds DEF GetProbeSize, Failures
  <2>2. CASE pm.d.probe # Absent
    BY <2>2, <1>0, PmBounds DEF GetProbeSize, Failures, SizesSound, Dplpmtud
  <2>. QED  BY <2>1, <2>2
<1>3. pm' = [pm EXCEPT !.d = d, !.flight = @ \cup {size}]
  BY <1>0, ZenonT(30) DEF PmProbe, PmTypeOK, Dplpmtud
<1> HIDE DEF size
<1>4. /\ d \in Dplpmtud /\ d.probe = size /\ d.current = pm.d.current /\ d.count = pm.d.count
      /\ d.failed = pm.d.failed /\ d.max = pm.d.max
  BY <1>0, <1>2, ZenonT(30) DEF PmTypeOK, Dplpmtud
<1> HIDE DEF d
<1>6. /\ pm'.d = d /\ pm'.flight = pm.flight \cup {size} /\ pm'.enable = pm.enable
      /\ pm'.path = pm.path /\ pm'.peer = pm.peer /\ pm'.losses = pm.losses
  BY <1>0, <1>3 DEF PmTypeOK
<1>7. PmTypeOK'
  BY <1>0, <1>2, <1>3, <1>4, ZenonT(30) DEF PmTypeOK
<1>8. PmBound' = PmBound
  BY <1>4, <1>6 DEF PmBound
<1>9. SizesSound'
  BY <1>0, <1>2, <1>4, <1>6, <1>8 DEF SizesSound
<1>10. Probing'
  BY <1>4, <1>6 DEF Probing
<1>11. Failures'
  BY <1>0, <1>2, <1>4, <1>6 DEF Failures, Absent
<1>. QED  BY <1>7, <1>9, <1>10, <1>11 DEF PmInv

\* A probe acknowledged: it fits the path, and its size becomes
\* the current one if it is larger.
LEMMA PmAckedInv ==
    ASSUME PmInv, PmAcked
    PROVE  PmInv'
<1>0. PmTypeOK /\ SizesSound /\ Failures
  BY DEF PmInv
<1>1. PICK f \in pm.flight :
        /\ f <= pm.path
        /\ pm' = [pm EXCEPT !.d = OnProbeAcked(@, f, pm.peer), !.flight = @ \ {f}]
  BY ZenonT(30) DEF PmAcked
<1> DEFINE c == [pm.d EXCEPT !.current = AtLeast(@, f)]
           d == Searched(c, pm.peer)
<1>2. f \in Nat /\ f <= PmBound
  BY <1>0 DEF PmTypeOK, SizesSound
<1>3. /\ c \in Dplpmtud /\ c.current = AtLeast(pm.d.current, f)
      /\ c.failed = pm.d.failed /\ c.max = pm.d.max
  BY <1>0, <1>2, PmBounds DEF Dplpmtud, AtLeast
<1>4. pm' = [pm EXCEPT !.d = d, !.flight = @ \ {f}]
  BY <1>0, <1>1 DEF PmTypeOK, OnProbeAcked
<1> HIDE DEF c
<1>5. c.current <= PmBound /\ c.failed <= PmBound /\ AtMost(pm.peer, c.max) <= PmBound
  BY <1>0, <1>2, <1>3, PmBounds DEF AtLeast
<1> HIDE DEF d
<1>6. /\ d \in Dplpmtud /\ d.current = c.current /\ d.failed = c.failed /\ d.max = c.max
      /\ d.count = 0 /\ d.probe \in Nat /\ d.probe <= PmBound
      /\ d.should_probe \/ CheckFinish(d, pm.peer)
  BY <1>0, <1>3, <1>5, PmBounds, SearchedSound DEF d
<1>7. /\ pm'.d = d /\ pm'.flight = pm.flight \ {f} /\ pm'.enable = pm.enable
      /\ pm'.path = pm.path /\ pm'.peer = pm.peer /\ pm'.losses = pm.losses
  BY <1>0, <1>4 DEF PmTypeOK
<1>8. PmTypeOK'
  BY <1>0, <1>4, <1>6, ZenonT(30) DEF PmTypeOK
<1>9. PmBound' = PmBound
  BY <1>3, <1>6, <1>7 DEF PmBound
<1>10. d.current <= AtLeast(BasePmtu, AtMost(pm.path, AtMost(pm.peer, d.max)))
  BY <1>0, <1>1, <1>2, <1>3, <1>6, PmBounds
     DEF SizesSound, PmBound, AtLeast, AtMost, BasePmtu
<1>11. SizesSound'
  BY <1>0, <1>3, <1>6, <1>7, <1>9, <1>10 DEF SizesSound
<1>12. Probing'
  BY <1>6, <1>7 DEF Probing
<1>13. Failures'
  BY <1>0, <1>3, <1>6, <1>7, PmBounds DEF Failures, Absent
<1>. QED  BY <1>8, <1>11, <1>12, <1>13 DEF PmInv

\* A probe declared lost.  One of another size than the one searched with
\* changes nothing; the third of that size makes it the failed size.
LEMMA PmLostInv ==
    ASSUME PmInv, PmLost
    PROVE  PmInv'
<1>0. PmTypeOK /\ SizesSound /\ Failures /\ Probing
  BY DEF PmInv
<1>1. PICK f \in pm.flight :
        pm' = [pm EXCEPT !.d = OnProbeLost(@, f, pm.peer), !.flight = @ \ {f},
                         !.losses = @ + (IF f <= pm.path THEN 1 ELSE 0)]
  BY ZenonT(30) DEF PmLost
<1> DEFINE d == OnProbeLost(pm.d, f, pm.peer)
           lost == pm.losses + (IF f <= pm.path THEN 1 ELSE 0)
<1>2. f \in Nat /\ f <= PmBound
  BY <1>0 DEF PmTypeOK, SizesSound
<1>3. /\ lost \in Nat /\ lost >= pm.losses /\ (f <= pm.path => lost = pm.losses + 1)
  BY <1>0, <1>2 DEF PmTypeOK
<1>4. pm' = [pm EXCEPT !.d = d, !.flight = @ \ {f}, !.losses = lost]
  BY <1>0, <1>1 DEF PmTypeOK
<1> HIDE DEF lost
<1>5. /\ d \in Dplpmtud /\ d.current = pm.d.current /\ d.max = pm.d.max
      /\ d.failed <= PmBound /\ d.probe <= PmBound
      /\ pm.enable => \/ d.should_probe \/ CheckFinish(d, pm.peer)
                      \/ \E g \in pm.flight \ {f} : g = d.probe
      /\ d.probe = Absent => d.count = 0
      /\ d.probe <= pm.path => d.count <= lost
      /\ d.failed > 0 /\ d.failed <= pm.path => lost >= MaxProbeCount
  <2>1. CASE f # pm.d.probe
    <3>1. d = pm.d
      BY <2>1 DEF OnProbeLost
    <3> HIDE DEF d
    <3>2. /\ d \in Dplpmtud /\ d.current = pm.d.current /\ d.max = pm.d.max
          /\ d.failed <= PmBound /\ d.probe <= PmBound
      BY <3>1, <1>0, PmBounds, ZenonT(30) DEF SizesSound
    <3>3. pm.enable => \/ d.should_probe \/ CheckFinish(d, pm.peer)
                       \/ \E g \in pm.flight \ {f} : g = d.probe
      BY <2>1, <3>1, <1>0, ZenonT(30) DEF Probing
    <3>4. pm.d.count <= pm.losses => pm.d.count <= lost
      BY <1>0, <1>3, PmBounds
    <3>5. pm.losses >= MaxProbeCount => lost >= MaxProbeCount
      BY <1>0, <1>3, PmBounds DEF MaxProbeCount
    <3>. QED  BY <3>1, <3>2, <3>3, <3>4, <3>5, <1>0, ZenonT(30) DEF Failures
  <2>2. CASE f = pm.d.probe /\ pm.d.count + 1 < MaxProbeCount
    <3>1. d = [pm.d EXCEPT !.count = @ + 1, !.should_probe = TRUE]
      BY <2>2 DEF OnProbeLost
    <3> HIDE DEF d
    <3>2. /\ d \in Dplpmtud /\ d.current = pm.d.current /\ d.max = pm.d.max
          /\ d.failed = pm.d.failed /\ d.probe = pm.d.probe /\ d.should_probe = TRUE
          /\ d.count = pm.d.count + 1
      <4>1. pm.d \in Dplpmtud /\ pm.d.count + 1 \in Nat
        BY <1>0, PmBounds
      <4>. QED  BY <3>1, <4>1, ZenonT(30) DEF Dplpmtud
    <3>3. d.failed <= PmBound /\ d.probe <= PmBound
      BY <3>2, <1>0, PmBounds, ZenonT(30) DEF SizesSound
    <3>4. pm.losses >= MaxProbeCount => lost >= MaxProbeCount
      BY <1>0, <1>3, PmBounds DEF MaxProbeCount
    <3>5. d.probe = Absent => d.count = 0
      BY <2>2, <3>2, <1>0, <1>2 DEF Absent
    <3>6. d.probe <= pm.path => d.count <= lost
      <4>1. f <= pm.path => pm.d.count <= pm.losses
        BY <2>2, <1>0, ZenonT(30) DEF Failures
      <4>. QED  BY <4>1, <2>2, <3>2, <1>0, <1>3, PmBounds
    <3>7. d.failed > 0 /\ d.failed <= pm.path => lost >= MaxProbeCount
      BY <3>2, <3>4, <1>0, ZenonT(30) DEF Failures
    <3>. QED  BY <3>2, <3>3, <3>5, <3>6, <3>7, ZenonT(30)
  <2>3. CASE f = pm.d.probe /\ ~(pm.d.count + 1 < MaxProbeCount)
    <3> DEFINE c == [pm.d EXCEPT !.failed = f]
    <3>1. d = Searched(c, pm.peer)
      BY <2>3 DEF OnProbeLost
    <3>2. c \in Dplpmtud /\ c.current = pm.d.current /\ c.max = pm.d.max /\ c.failed = f
      BY <1>0, <1>2, PmBounds DEF Dplpmtud
    <3> HIDE DEF c, d
    <3>3. /\ d \in Dplpmtud /\ d.current = c.current /\ d.failed = c.failed /\ d.max = c.max
          /\ d.count = 0 /\ d.probe \in Nat /\ d.probe <= PmBound
          /\ d.should_probe \/ CheckFinish(d, pm.peer)
      BY <1>0, <1>2, <3>1, <3>2, PmBounds, SearchedSound
    <3>4. f <= pm.path => lost >= MaxProbeCount
      BY <2>3, <1>0, <1>3, PmBounds DEF Failures, MaxProbeCount
    <3>. QED  BY <3>2, <3>3, <3>4, <1>2, <1>3, PmBounds DEF Absent
  <2>. QED  BY <2>1, <2>2, <2>3, ZenonT(30)
<1> HIDE DEF d
<1>6. /\ pm'.d = d /\ pm'.flight = pm.flight \ {f} /\ pm'.enable = pm.enable
      /\ pm'.path = pm.path /\ pm'.peer = pm.peer /\ pm'.losses = lost
  BY <1>0, <1>4 DEF PmTypeOK
<1>7. PmTypeOK'
  BY <1>0, <1>3, <1>4, <1>5, ZenonT(30) DEF PmTypeOK
<1>8. PmBound' = PmBound
  BY <1>5, <1>6 DEF PmBound
<1>9. SizesSound'
  BY <1>0, <1>2, <1>3, <1>5, <1>6, <1>8 DEF SizesSound
<1>10. Probing'
  BY <1>5, <1>6 DEF Probing
<1>11. Failures'
  BY <1>5, <1>6 DEF Failures
<1>. QED  BY <1>7, <1>9, <1>10, <1>11 DEF PmInv

\* Every step of path MTU discovery keeps the invariant.
LEMMA PmNextInv ==
    PmInv /\ [PmNext]_pmVars => PmInv'
<1>1. ASSUME PmInv, UNCHANGED pm
      PROVE  PmInv'
  BY <1>1 DEF PmInv, PmTypeOK, SizesSound, Probing, Failures, PmBound
<1>. QED  BY <1>1, PmProbeInv, PmAckedInv, PmLostInv DEF PmNext, PmDone, pmVars

\* The invariant gives the property: at rest the search is over, so the current
\* size is within a percent of the ceiling, and the ceiling is below the best
\* size only after three losses of a size that fits.
LEMMA PmInvConverges ==
    PmInv => PmtuConverges
<1> SUFFICES ASSUME PmInv PROVE PmtuConverges
  OBVIOUS
<1> DEFINE best == AtMost(pm.path, AtMost(pm.peer, pm.d.max))
<1>0. PmTypeOK /\ SizesSound /\ Failures /\ Probing
  BY DEF PmInv
<1>1. ASSUME PmRest, pm.enable, pm.losses < MaxProbeCount
      PROVE  100 * pm.d.current >= 99 * best
  <2>1. CheckFinish(pm.d, pm.peer)
    BY <1>0, <1>1 DEF Probing, PmRest
  <2>2. ~(pm.d.failed > 0 /\ pm.d.failed <= pm.path)
    BY <1>0, <1>1, PmBounds DEF Failures, MaxProbeCount
  <2>3. best \in Nat /\ MtuCeiling(pm.d, pm.peer) \in Nat /\ best <= MtuCeiling(pm.d, pm.peer)
    BY <1>0, <2>2, PmBounds DEF MtuCeiling, AtMost
  <2> HIDE DEF best
  <2>. QED  BY <1>0, <2>1, <2>3, PmBounds DEF CheckFinish
<1>2. pm.d.current <= AtLeast(BasePmtu, best)
  BY <1>0 DEF SizesSound
<1>. QED  BY <1>0, <1>1, <1>2, PmBounds DEF PmtuConverges, MaxProbeCount

\* The inductive invariant of path MTU discovery.
THEOREM PmInvHolds ==
    PmSpec => []PmInv
BY PmInitInv, PmNextInv, PTL DEF PmSpec

\* For every size of the path, of the peer and of the configuration, and however
\* many probes the network loses: no size is adopted that the path does not carry,
\* and an enabled search ends within one percent of the best size unless three probes
\* that fit were lost (pmtu.rs).
THEOREM PmtuAlwaysConverges ==
    PmSpec => []PmtuConverges
BY PmInvHolds, PmInvConverges, PTL

=============================================================================
