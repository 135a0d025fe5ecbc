----------------------------- MODULE KeyUpdate ------------------------------
(***************************************************************************)
(* Key updates of 1-RTT packets (tls.rs).  Two endpoints after the         *)
(* handshake is confirmed; each may start an update, packets arrive late   *)
(* and in any order, and every packet acknowledges the largest number its  *)
(* sender has received.  Keys are their generation; the key phase bit of a *)
(* packet is the generation modulo two.                                    *)
(***************************************************************************)
EXTENDS PktNum

CONSTANTS
    KuStarts,      \* packets each endpoint had exchanged before
    KuSends        \* bound: packets each endpoint sends

ASSUME KeyUpdateConstants == KuStarts \subseteq Nat

VARIABLE ku

kuVars == <<ku>>

KuSides == {"a", "b"}
KuPeer(s) == IF s = "a" THEN "b" ELSE "a"

\* The fields of TlsSession and of the 1-RTT packet number space.  An endpoint
\* that exchanged packets took its first number 0 for the first of the phase.
KuEndpoint(start) ==
    [gen |-> 0, prev |-> FALSE, timer |-> FALSE, pn |-> start, sent |-> 0,
     first_recv |-> IF start = 0 THEN Absent ELSE 0,
     first_sent |-> IF start = 0 THEN Absent ELSE 0,
     largest |-> IF start = 0 THEN Absent ELSE start - 1,
     acked |-> IF start = 0 THEN Absent ELSE start - 1]

KuInit ==
    \E start \in KuStarts :
        ku = [end |-> [s \in KuSides |-> KuEndpoint(start)], net |-> {},
              early |-> FALSE, refused |-> {}]

\* largest_acked_pkt is u64::MAX before the first acknowledgement.
MUpdateAllowed(k) == k.first_sent # Absent

UpdateAllowed(k) ==
    k.first_sent # Absent /\ (k.acked = Absent \/ k.first_sent <= k.acked)

UpdateKey(k) ==
    [k EXCEPT !.gen = @ + 1, !.prev = TRUE, !.first_recv = Absent, !.first_sent = Absent]

InitiateKeyUpdate(s) ==
    LET k == ku.end[s]
    IN  /\ k.sent < KuSends[s]
        /\ UpdateAllowed(k)
        /\ ku' = [ku EXCEPT !.end[s] = UpdateKey(k), !.early = @ \/ k.acked = Absent]

KuSend(s) ==
    LET k == ku.end[s]
        len == PacketNumLen(k.pn, k.acked)
        pkt == [from |-> s, pn |-> k.pn, trunc |-> EncodePacketNum(k.pn, len), len |-> len,
                gen |-> k.gen, ack |-> k.largest]
    IN  /\ k.sent < KuSends[s]
        /\ len <= PnMaxLen /\ k.pn < MaxPktNum
        /\ ku' = [ku EXCEPT
                    !.net = @ \cup {pkt},
                    !.end[s] = [k EXCEPT !.pn = @ + 1, !.sent = @ + 1,
                                         !.first_sent = IF @ = Absent THEN k.pn ELSE @]]

\* The key a header selects: its generation, Absent when there is none.  The
\* header holds the truncated packet number.
SelectKey(k, pkt) ==
    IF k.gen % 2 = pkt.gen % 2 THEN k.gen
    ELSE IF k.first_recv # Absent /\ pkt.trunc > k.first_recv THEN k.gen + 1
    ELSE IF k.prev THEN k.gen - 1 ELSE Absent

TryUpdateKey(k, pkt, attempt) ==
    LET u == IF attempt THEN UpdateKey(k) ELSE k
    IN  IF u.first_recv = Absent /\ u.gen % 2 = pkt.gen % 2
        THEN [u EXCEPT !.first_recv = pkt.trunc, !.timer = @ \/ u.prev]
        ELSE u

\* Opening with another key than the packet was sealed with fails, and the
\* packet is dropped.
KuRecv(pkt) ==
    LET s == KuPeer(pkt.from)
        k == ku.end[s]
        largest == IF k.largest = Absent THEN 0 ELSE k.largest
        key == SelectKey(k, pkt)
        opened == key = pkt.gen /\ DecodePacketNum(largest, pkt.trunc, pkt.len) = pkt.pn
        u == TryUpdateKey(k, pkt, key = k.gen + 1)
        got == [u EXCEPT !.largest = AtLeast(largest, pkt.pn),
                         !.acked = IF pkt.ack = Absent THEN @
                                   ELSE IF @ = Absent THEN pkt.ack ELSE AtLeast(@, pkt.ack)]
    IN  /\ pkt \in ku.net
        /\ ku' = [ku EXCEPT
                    !.net = @ \ {pkt},
                    !.end[s] = IF opened THEN got ELSE k,
                    !.refused = IF opened \/ pkt.pn < largest THEN @
                                ELSE @ \cup {[pkt |-> pkt, phase |-> k.gen,
                                              first |-> k.first_recv, prev |-> k.prev]}]

DiscardPrevKey(s) ==
    /\ ku.end[s].timer
    /\ ku' = [ku EXCEPT !.end[s].timer = FALSE, !.end[s].prev = FALSE]

KuDone ==
    /\ \A s \in KuSides : ku.end[s].sent = KuSends[s] /\ ~ku.end[s].timer
    /\ ku.net = {}
    /\ UNCHANGED ku

KuNext ==
    \/ \E s \in KuSides : InitiateKeyUpdate(s) \/ KuSend(s) \/ DiscardPrevKey(s)
    \/ \E pkt \in ku.net : KuRecv(pkt)
    \/ KuDone

KuSpec == KuInit /\ [][KuNext]_kuVars

(***************************************************************************)
(* An endpoint starts a key update only once a packet of its phase was     *)
(* acknowledged, so the two are never more than one generation apart; and  *)
(* a packet that arrives in order is opened, with two exceptions: its      *)
(* truncated number is not above that of the first packet of the phase     *)
(* before, or it is of the phase before and the timer of an earlier update *)
(* has discarded that key.  Not stated for a connection where an update    *)
(* started before any acknowledgement: the sentinel of largest_acked_pkt   *)
(* allows that.                                                            *)
(***************************************************************************)
KeysStayInStep ==
    ~ku.early =>
        /\ ku.end["a"].gen - ku.end["b"].gen \in {-1, 0, 1}
        /\ \A r \in ku.refused :
              \/ r.pkt.gen = r.phase + 1 /\ r.first # Absent /\ r.pkt.trunc <= r.first
              \/ r.pkt.gen = r.phase - 1 /\ ~r.prev

=============================================================================
