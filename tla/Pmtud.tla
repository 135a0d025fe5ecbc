------------------------------- MODULE Pmtud --------------------------------
(***************************************************************************)
(* Path MTU discovery (pmtu.rs): a search between the size that works and  *)
(* the smallest that failed.  The path carries datagrams up to a size of   *)
(* its own; it may also lose a probe that fits.  A late acknowledgement of *)
(* a probe declared lost changes nothing: its frames left the packet when  *)
(* it was declared lost (recovery.rs, detect_lost_packets).                *)
(***************************************************************************)
EXTENDS Integers, FiniteSets, Util

CONSTANTS
    PmPaths,       \* sizes the path carries
    PmPeers,       \* max_udp_payload_size of the peer
    PmMax,         \* send_udp_payload_size of the configuration
    PmLosses       \* bound: probes lost that fit the path

ASSUME PmtudConstants == PmPaths \subseteq Nat /\ PmPeers \subseteq Nat /\ PmMax \subseteq Nat

VARIABLE pm

pmVars == <<pm>>

BasePmtu == 1200           \* DEFAULT_SEND_UDP_PAYLOAD_SIZE
MaxProbeCount == 3         \* MAX_PROBE_COUNT

\* MAX_PACKET_SIZE_IPV6, MAX_PACKET_SIZE_IPV4
MaxPacketSize(ipv6) == IF ipv6 THEN 1452 ELSE 1472

DplpmtudNew(enable, max, ipv6) ==
    [should_probe |-> enable, current |-> BasePmtu, probe |-> Absent, count |-> 0, failed |-> 0,
     max |-> IF max = BasePmtu THEN MaxPacketSize(ipv6) ELSE max]

MtuCeiling(d, peer) == AtMost(IF d.failed > 0 THEN d.failed ELSE d.max, peer)

ProbeSize(d, peer) ==
    IF d.failed = 0 /\ MtuCeiling(d, peer) < 1500 THEN MtuCeiling(d, peer)
    ELSE (d.current + MtuCeiling(d, peer)) \div 2

GetProbeSize(d, peer) == IF d.probe # Absent THEN d.probe ELSE ProbeSize(d, peer)

CheckFinish(d, peer) ==
    d.current >= MtuCeiling(d, peer) \/ 100 * d.current >= 99 * MtuCeiling(d, peer)

Searched(d, peer) ==
    LET e == [d EXCEPT !.probe = ProbeSize(d, peer), !.count = 0]
    IN  [e EXCEPT !.should_probe = ~CheckFinish(e, peer)]

OnProbeAcked(d, size, peer) == Searched([d EXCEPT !.current = AtLeast(@, size)], peer)

MOnProbeLost(d, size, peer) ==
    IF size # d.probe THEN d
    ELSE IF d.count + 1 <= MaxProbeCount THEN [d EXCEPT !.count = @ + 1]
    ELSE Searched([d EXCEPT !.failed = size], peer)

OnProbeLost(d, size, peer) ==
    IF size # d.probe THEN d
    ELSE IF d.count + 1 < MaxProbeCount THEN [d EXCEPT !.count = @ + 1, !.should_probe = TRUE]
    ELSE Searched([d EXCEPT !.failed = size], peer)

PmInit ==
    \E p \in PmPaths, q \in PmPeers, max \in PmMax, enable, ipv6 \in BOOLEAN :
        pm = [d |-> DplpmtudNew(enable, max, ipv6), enable |-> enable, path |-> p, peer |-> q,
              flight |-> {}, losses |-> 0]

\* A probe needs room in the buffer and in the congestion window; it is then
\* sent the next time the path sends.
PmProbe ==
    LET size == GetProbeSize(pm.d, pm.peer)
    IN  /\ pm.d.should_probe
        /\ pm' = [pm EXCEPT !.d.probe = size, !.d.should_probe = FALSE,
                            !.flight = @ \cup {size}]

PmAcked ==
    \E f \in pm.flight :
        /\ f <= pm.path
        /\ pm' = [pm EXCEPT !.d = OnProbeAcked(@, f, pm.peer), !.flight = @ \ {f}]

PmLost ==
    \E f \in pm.flight :
        /\ f <= pm.path => pm.losses < PmLosses
        /\ pm' = [pm EXCEPT !.d = OnProbeLost(@, f, pm.peer), !.flight = @ \ {f},
                            !.losses = @ + (IF f <= pm.path THEN 1 ELSE 0)]

PmRest == ~pm.d.should_probe /\ pm.flight = {}
PmDone == PmRest /\ UNCHANGED pm

PmNext == PmProbe \/ PmAcked \/ PmLost \/ PmDone

PmSpec == PmInit /\ [][PmNext]_pmVars

(***************************************************************************)
(* Path MTU discovery never adopts a size the path does not carry, and     *)
(* when it is enabled and rests it has found the size of the path to one   *)
(* percent, or lost as many probes that fit as it tries of a size.         *)
(***************************************************************************)
PmtuConverges ==
    LET best == AtMost(pm.path, AtMost(pm.peer, pm.d.max))
    IN  /\ pm.d.current <= AtLeast(BasePmtu, best)
        /\ PmRest /\ pm.enable => 100 * pm.d.current >= 99 * best \/ pm.losses >= MaxProbeCount
=============================================================================
