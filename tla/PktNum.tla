------------------------------- MODULE PktNum -------------------------------
(***************************************************************************)
(* Packet numbers: how many bytes of one are sent (packet_num_len), how    *)
(* the receiver completes what it gets (decode_packet_num) and the sliding *)
(* window that refuses a number twice (SeqNumWindow, window.rs).           *)
(*                                                                         *)
(* One sender and one receiver of a packet number space.  The sender may   *)
(* lose any run of packets, packets are delayed, duplicated and            *)
(* reordered, and acknowledgements arrive late.                            *)
(***************************************************************************)
EXTENDS Integers, FiniteSets, Util

CONSTANTS
    MaxPktNum,     \* 2^62 in the code: the end of the packet number space
    WindowSize,    \* SEQ_NUM_WINDOW_SIZE, 128 in the code
    PnMaxLen,      \* bytes of a packet number at most, 4 in the code
    PnRuns,        \* how many packets in a row the sender sends at once
    PnSends,       \* bound: how often it sends
    PnFlight       \* bound: packets in flight

ASSUME PktNumConstants ==
    /\ MaxPktNum \in Nat /\ WindowSize \in Nat \ {0} /\ PnMaxLen \in 1..4
    /\ PnRuns \subseteq Nat \ {0}

VARIABLE pns

pnVars == <<pns>>

(***************************************************************************)
(* packet.rs                                                               *)
(***************************************************************************)
PnWin(len) ==
    CASE len = 1 -> 256 [] len = 2 -> 65536 [] len = 3 -> 16777216
      [] OTHER -> 65536 * 65536

\* The bytes that leave one bit more than the unacknowledged numbers need;
\* five stands for every length that encode_packet_num refuses.
MPacketNumLen(pn, acked) ==
    LET unacked == IF acked = Absent THEN pn + 1 ELSE SatSub(pn, acked)
    IN  IF unacked < 256 THEN 1
        ELSE IF unacked < 65536 THEN 2
        ELSE IF unacked < 16777216 THEN 3 ELSE 4

PacketNumLen(pn, acked) ==
    LET unacked == IF acked = Absent THEN pn + 1 ELSE SatSub(pn, acked)
    IN  IF unacked < 128 THEN 1
        ELSE IF unacked < 32768 THEN 2
        ELSE IF unacked < 8388608 THEN 3
        ELSE IF unacked < 32768 * 65536 THEN 4 ELSE 5

EncodePacketNum(pn, len) == pn % PnWin(len)

\* Masking the low bits of the expected number away and OR-ing the truncated
\* one in replaces its residue modulo the window.
DecodePacketNum(largest, trunc, len) ==
    LET win == PnWin(len)
        half == win \div 2
        expected == largest + 1
        candidate == expected - (expected % win) + trunc
    IN  IF candidate + half <= expected /\ candidate < MaxPktNum - win
        THEN candidate + win
        ELSE IF candidate > expected + half /\ candidate >= win
        THEN candidate - win
        ELSE candidate

(***************************************************************************)
(* window.rs: `bits` holds the positions of the set bits, bit 0 being the  *)
(* largest number of the window.  (The shift is by `diff as u32`; a jump   *)
(* of 2^32 numbers is beyond what decode_packet_num can return.)           *)
(***************************************************************************)
WinNew == [lower |-> 0, bits |-> {}]

WinUpper(w) == w.lower + WindowSize - 1

WinShift(w, diff) ==
    [lower |-> w.lower + diff,
     bits |-> {b \in 0..(WindowSize - 1) : b - diff \in w.bits}]

WinSet(w, seq) == [w EXCEPT !.bits = @ \cup {WinUpper(w) - seq}]

WinInsert(w, seq) ==
    IF seq < w.lower THEN w
    ELSE IF seq > WinUpper(w) THEN WinSet(WinShift(w, seq - WinUpper(w)), seq)
    ELSE WinSet(w, seq)

WinContains(w, seq) ==
    IF seq > WinUpper(w) THEN FALSE
    ELSE IF seq < w.lower THEN TRUE
    ELSE WinUpper(w) - seq \in w.bits

(***************************************************************************)
(* The space: next_pkt_num and largest_acked_pkt of the sender,            *)
(* largest_rx_pkt_num and recv_pkt_num_win of the receiver; ghosts: the    *)
(* true numbers taken (`got`), and the last packet handled with what the   *)
(* receiver made of it.                                                    *)
(***************************************************************************)
PnInit ==
    pns = [next |-> 0, acked |-> Absent, sends |-> 0, flight |-> {},
           largest |-> 0, win |-> WinNew, got |-> {}, seen |-> {}]

\* send_packet numbers `run` packets, all lost but the last.
PnSend(run) ==
    LET pn == pns.next + run - 1
        len == PacketNumLen(pn, pns.acked)
    IN  /\ pns.sends < PnSends
        /\ Cardinality(pns.flight) < PnFlight
        /\ len <= PnMaxLen /\ pn < MaxPktNum
        /\ pns' = [pns EXCEPT !.next = pn + 1, !.sends = @ + 1,
                     !.flight = @ \cup {[pn |-> pn, len |-> len,
                                         trunc |-> EncodePacketNum(pn, len)]}]

\* recv_packet: complete the number, refuse it when the window has it, note
\* it.  A packet whose number comes out wrong is not authentic: its payload
\* does not decrypt and nothing is noted.
PnRecv(m, dup) ==
    LET pn == DecodePacketNum(pns.largest, m.trunc, m.len)
        rest == IF dup THEN pns.flight ELSE pns.flight \ {m}
    IN  pns' = IF WinContains(pns.win, pn) \/ pn # m.pn
               THEN [pns EXCEPT !.flight = rest]
               ELSE [pns EXCEPT !.flight = rest,
                       !.win = WinInsert(@, pn),
                       !.largest = AtLeast(@, pn),
                       !.seen = IF pn \in pns.got THEN @ \cup {pn} ELSE @,
                       !.got = @ \cup {pn}]

PnLose(m) == pns' = [pns EXCEPT !.flight = @ \ {m}]

\* An ACK for a number the receiver has, late or not.
PnAck(pn) ==
    /\ pns.acked < pn
    /\ pns' = [pns EXCEPT !.acked = pn]

PnDone == pns.sends = PnSends /\ pns.flight = {} /\ UNCHANGED pns

PnNext ==
    \/ \E run \in PnRuns : PnSend(run)
    \/ \E m \in pns.flight, dup \in BOOLEAN : PnRecv(m, dup)
    \/ \E m \in pns.flight : PnLose(m)
    \/ \E pn \in pns.got : PnAck(pn)
    \/ PnDone

PnSpec == PnInit /\ [][PnNext]_pnVars

(***************************************************************************)
(* Properties                                                              *)
(***************************************************************************)
\* The receiver completes the number of every packet in flight to the number
\* it was sent with, as long as fewer than half a window of later numbers
\* have overtaken it (decode_packet_num against packet_num_len).
NumberIsRecovered ==
    \A m \in pns.flight :
        pns.largest + 1 < m.pn + PnWin(m.len) \div 2
            => DecodePacketNum(pns.largest, m.trunc, m.len) = m.pn

\* No packet number is processed twice, however late its duplicate comes and
\* however far the window has moved, and the window refuses only numbers it
\* has processed or that lie below it (SeqNumWindow).
NumberIsTakenOnce ==
    /\ pns.seen = {}
    /\ \A pn \in pns.got : WinContains(pns.win, pn)
    /\ \A b \in pns.win.bits : WinUpper(pns.win) - b \in pns.got

\* Both: what the receiver makes of a packet number is exact.
NumbersAreExact == NumberIsRecovered /\ NumberIsTakenOnce
=============================================================================
