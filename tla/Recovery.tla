------------------------------ MODULE Recovery ------------------------------
(***************************************************************************)
(* Loss detection on one path: Recovery (connection/recovery.rs) with the  *)
(* packet number spaces it works on (connection/space.rs), as the          *)
(* connection drives it: send_packet(), the ACK frame of recv_frame(), the *)
(* LossDetection timer of on_timeout() and drop_space_state(). A method of *)
(* Recovery is an operator from the state c = [r, sp] (the Recovery and    *)
(* its spaces) to the state it leaves.                                     *)
(*                                                                         *)
(* A packet carries at most one frame of data, a member of DataFrames.     *)
(* A behaviour starts with the handshake (mode "fresh") or when it is done *)
(* ("calm", "rough"). A calm network loses up to MaxLoss packets, keeps    *)
(* the order and is faster than the timers; otherwise any sent packet may  *)
(* be acknowledged at any time, also after it was declared lost.           *)
(***************************************************************************)
EXTENDS Estimators, FiniteSetsExt

CONSTANTS DataFrames,     \* the frames with data of each space
          PktThresh,      \* INITIAL_PACKET_THRESHOLD
          MaxProbes,      \* MAX_PTO_PROBES_COUNT
          MaxNonEliciting,\* MAX_NON_ACK_ELICITING
          PtoLinear,      \* pto_linear_factor
          MaxPto,         \* max_pto
          MaxAckDelay,    \* max_ack_delay
          AckDelays,      \* the delays an ACK frame may report
          InitRtt,        \* initial_rtt
          Cwnd,           \* congestion_window()
          MaxPkts,        \* bound: packets, for each mode
          MaxNow,         \* bound: the clock, for each mode
          MaxLoss         \* bound: packets the network loses

SpaceOrder == <<"Initial", "Handshake", "Data">>
SpaceIds == Ran(SpaceOrder)
NoPkt == 1000   \* u64::MAX as largest_acked_pkt

VARIABLES
  core,      \* [r |-> Recovery, sp |-> PacketNumSpaceMap]
  hs,        \* HandshakeStatus
  started,   \* of each space: the frames that were sent at least once
  resend,    \* of each space: the frames the streams hold for retransmission
  acked,     \* of each space: the frames that were acknowledged
  dropped,   \* the spaces whose keys were discarded
  clock,
  flying,    \* calm: the packet numbers in the network
  arrived,   \* calm: the packet numbers the peer received
  losses,    \* calm: how many packets were lost
  mode       \* "fresh", "calm" or "rough"

netVars == <<flying, arrived, losses, mode>>
recVars == <<core, hs, started, resend, acked, dropped, clock, netVars>>

calm == mode = "calm"

Outstanding(p) == ~p.acked /\ ~Present(p.lost)
Sizes(P) == MapThenSumSet(LAMBDA p : p.size, P)

\* PacketNumSpace::new() and Recovery::new()
NewSpace ==
  [next |-> 0, nonae |-> 0, sent |-> <<>>, lost |-> {}, last_ae |-> Absent,
   loss_time |-> Absent, largest_acked |-> NoPkt, probes |-> 0, bif |-> 0, aeif |-> 0]

NewRecovery ==
  [pto_count |-> 0, timer |-> Absent, pkt_thresh |-> PktThresh, bif |-> 0, aeif |-> 0,
   rtt |-> RttNew(InitRtt)]

-----------------------------------------------------------------------------
\* get_loss_time_and_space(): the first space with the least time; the last
\* space when no time is set.
LossTime(c) == MinPresent({c.sp[i].loss_time : i \in SpaceIds})
LossSpace(c) ==
  IF Present(LossTime(c))
  THEN SpaceOrder[Min({k \in 1..3 : c.sp[SpaceOrder[k]].loss_time = LossTime(c)})]
  ELSE SpaceOrder[3]

Backoff(r) == 2 ^ SatSub(r.pto_count, PtoLinear)
CalculatePto(r) == AtMost(PtoBase(r.rtt) * Backoff(r), MaxPto)
PtoWithAckDelay(r) == AtMost(CalculatePto(r) + MaxAckDelay * Backoff(r), MaxPto)

\* get_pto_time_and_space(): no timeout for Data until the handshake completes.
PtoTimeAndSpace(c, h, t) ==
  LET due(i) ==
        IF c.sp[i].aeif = 0 \/ (i = "Data" /\ ~h.completed) THEN Absent
        ELSE c.sp[i].last_ae + (IF i = "Data" THEN PtoWithAckDelay(c.r) ELSE CalculatePto(c.r))
      least == MinPresent({due(i) : i \in SpaceIds})
  IN  IF c.r.aeif = 0
      THEN <<t + CalculatePto(c.r), IF h.derived THEN "Handshake" ELSE "Initial">>
      ELSE IF Present(least)
           THEN <<least, SpaceOrder[Min({k \in 1..3 : due(SpaceOrder[k]) = least})]>>
           ELSE <<Absent, "Initial">>

\* set_loss_detection_timer()
SetTimer(c, h, t) ==
  LET none == (h.is_server /\ h.limited) \/ (c.r.aeif = 0 /\ h.verified)
  IN  [c EXCEPT !.r.timer = IF Present(LossTime(c)) THEN LossTime(c)
                            ELSE IF none THEN Absent
                            ELSE PtoTimeAndSpace(c, h, t)[1]]

\* Taking the packets P out of what is in flight, saturating, in the path
\* and in the space.
Landed(c, i, P) ==
  LET F == {p \in P : p.in_flight}
      ae == Cardinality({p \in F : p.ae})
  IN  [c EXCEPT !.r = [c.r EXCEPT !.bif = SatSub(@, Sizes(F)), !.aeif = SatSub(@, ae)],
                !.sp[i] = [c.sp[i] EXCEPT !.bif = SatSub(@, Sizes(F)), !.aeif = SatSub(@, ae)]]

\* Mutant: the timer is not set when a packet is sent.
MOnPacketSent(c, i, p, h, t) ==
  LET n == IF p.ae THEN 1 ELSE 0
      b == IF p.in_flight THEN p.size ELSE 0
  IN  [c EXCEPT !.sp[i] = [c.sp[i] EXCEPT !.sent = Append(@, p),
                                          !.nonae = IF p.ae THEN 0 ELSE @ + 1,
                                          !.last_ae = IF p.ae THEN t ELSE @,
                                          !.probes = SatSub(@, n), !.aeif = @ + n, !.bif = @ + b],
                !.r = [c.r EXCEPT !.aeif = @ + n, !.bif = @ + b]]

\* on_packet_sent()
OnPacketSent(c, i, p, h, t) ==
  LET base == [c EXCEPT !.sp[i] = [c.sp[i] EXCEPT !.sent = Append(@, p),
                                                  !.nonae = IF p.ae THEN 0 ELSE @ + 1]]
      elicit == [base EXCEPT !.sp[i] = [base.sp[i] EXCEPT !.last_ae = t, !.probes = SatSub(@, 1),
                                                          !.aeif = @ + 1],
                             !.r.aeif = @ + 1]
      counted == IF p.ae THEN elicit ELSE base
  IN  IF p.in_flight
      THEN SetTimer([counted EXCEPT !.sp[i].bif = @ + p.size, !.r.bif = @ + p.size], h, t)
      ELSE base

\* detect_lost_packets(): by time or by packet number; the least time at which
\* one of the others will be lost becomes the loss_time of the space.
LossDelay(r) == AtLeast((9 * AtLeast(r.rtt.latest, SmoothedRtt(r.rtt))) \div 8, Granularity)

DetectLost(c, i, t) ==
  LET q == c.sp[i].sent
      d == LossDelay(c.r)
      top == c.sp[i].largest_acked
      behind == {k \in DOMAIN q : q[k].pn <= top /\ Outstanding(q[k])}
      gone == {k \in behind : q[k].time + d <= t \/ q[k].pn + c.r.pkt_thresh <= top}
      marked == [k \in DOMAIN q |-> IF k \in gone THEN [q[k] EXCEPT !.lost = t, !.frames = {}]
                                    ELSE q[k]]
      next == MinPresent({q[k].time + d : k \in behind \ gone})
  IN  Landed([c EXCEPT !.sp[i] = [c.sp[i] EXCEPT !.sent = marked, !.loss_time = next,
                                                 !.lost = @ \cup UNION {q[k].frames : k \in gone}]],
             i, {q[k] : k \in gone})

\* Mutant: packets are dropped from the front though they are outstanding.
MDrainSent(c, i, t) ==
  LET q == c.sp[i].sent
      stop == {k \in DOMAIN q : Present(q[k].lost) /\ q[k].lost + SmoothedRtt(c.r.rtt) > t}
      first == IF stop = {} THEN Len(q) + 1 ELSE Min(stop)
  IN  [c EXCEPT !.sp[i].sent = SubSeq(q, first, Len(q))]

\* drain_sent_packets(): a lost packet stays for one more RTT.
DrainSent(c, i, t) ==
  LET q == c.sp[i].sent
      stop == {k \in DOMAIN q : \/ Outstanding(q[k])
                                \/ Present(q[k].lost) /\ q[k].lost + SmoothedRtt(c.r.rtt) > t}
      first == IF stop = {} THEN Len(q) + 1 ELSE Min(stop)
  IN  [c EXCEPT !.sp[i].sent = SubSeq(q, first, Len(q))]

\* detect_acked_packets(): a packet that was declared lost counts once more.
NewlyAcked(c, i, S) == {k \in DOMAIN c.sp[i].sent : /\ c.sp[i].sent[k].pn \in S
                                                    /\ ~c.sp[i].sent[k].acked}
DetectAcked(c, i, S) ==
  LET q == c.sp[i].sent
      new == NewlyAcked(c, i, S)
      marked == [k \in DOMAIN q |-> IF k \in new THEN [q[k] EXCEPT !.acked = TRUE, !.frames = {}]
                                    ELSE q[k]]
      spurious == Cardinality({k \in new : Present(q[k].lost)})
  IN  Landed([c EXCEPT !.sp[i].sent = marked, !.r.pkt_thresh = @ + spurious],
             i, {q[k] : k \in new})

\* on_ack_received(): nothing more happens when no packet is newly acknowledged.
\* An RTT sample needs the largest acknowledged packet to be among the new ones.
OnAckReceived(c, i, S, delay, h, t) ==
  LET top == c.sp[i].largest_acked
      seen == [c EXCEPT !.sp[i].largest_acked = IF top = NoPkt THEN Max(S)
                                                ELSE AtLeast(top, Max(S))]
      new == NewlyAcked(c, i, S)
      last == c.sp[i].sent[Max(new)]
      rtt == t - last.time
      sampled == /\ last.pn = seen.sp[i].largest_acked
                 /\ \E k \in new : c.sp[i].sent[k].ae
                 /\ rtt > 0
      ack_delay == IF h.completed THEN AtMost(delay, MaxAckDelay) ELSE delay
      got == DetectAcked(seen, i, S)
      measured == IF sampled THEN [got EXCEPT !.r.rtt = RttUpdate(@, ack_delay, rtt)] ELSE got
      drained == DrainSent(DetectLost(measured, i, t), i, t)
  IN  IF new = {} THEN seen ELSE SetTimer([drained EXCEPT !.r.pto_count = 0], h, t)

\* on_loss_detection_timeout(): loss timer first; otherwise a probe timeout,
\* which queues the oldest data again and leaves the packets outstanding.
OnTimeout(c, h, t) ==
  LET i == LossSpace(c)
      j == IF c.r.aeif > 0 THEN PtoTimeAndSpace(c, h, t)[2]
           ELSE IF h.derived THEN "Handshake" ELSE "Initial"
      probes == IF j = "Data" THEN AtMost(c.r.pto_count + 1, MaxProbes) ELSE 1
      q == SelectSeq(c.sp[j].sent, LAMBDA p : p.has_data /\ Outstanding(p))
      oldest == {q[k] : k \in 1..AtMost(probes, Len(q))}
      again == c.sp[j].lost \cup UNION {p.frames : p \in oldest}
  IN  IF Present(LossTime(c))
      THEN SetTimer(DrainSent(DetectLost(c, i, t), i, t), h, t)
      ELSE SetTimer([c EXCEPT !.r.pto_count = @ + 1,
                              !.sp[j] = [c.sp[j] EXCEPT !.probes = probes, !.lost = again]], h, t)

\* Mutant: the packets of the discarded space stay counted as in flight.
MOnDiscarded(c, i, h, t) ==
  SetTimer([c EXCEPT !.sp[i] = [c.sp[i] EXCEPT !.sent = <<>>, !.lost = {}, !.last_ae = Absent,
                                               !.loss_time = Absent, !.probes = 0, !.bif = 0,
                                               !.aeif = 0]], h, t)

\* on_pkt_num_space_discarded(): next_pkt_num and the like stay.
OnDiscarded(c, i, h, t) ==
  LET P == {p \in Ran(c.sp[i].sent) : p.in_flight /\ Outstanding(p)}
      out == [c EXCEPT !.r = [c.r EXCEPT !.bif = SatSub(@, Sizes(P)),
                                         !.aeif = SatSub(@, Cardinality({p \in P : p.ae}))],
                       !.sp[i] = [c.sp[i] EXCEPT !.sent = <<>>, !.lost = {}, !.last_ae = Absent,
                                                 !.loss_time = Absent, !.probes = 0, !.bif = 0,
                                                 !.aeif = 0]]
  IN  SetTimer(out, h, t)

-----------------------------------------------------------------------------
RecInit ==
  /\ core = [r |-> NewRecovery, sp |-> [i \in SpaceIds |-> NewSpace]]
  /\ mode \in {"fresh", "calm", "rough"}
  /\ \E server \in BOOLEAN, done \in {mode # "fresh"} :
       /\ server => mode = "fresh"
       /\ hs = [derived |-> done, verified |-> done, completed |-> done,
                is_server |-> server, limited |-> FALSE, lowest_1rtt |-> NoPkt]
       /\ dropped = IF done THEN {"Initial", "Handshake"} ELSE {}
  /\ started = [i \in SpaceIds |-> {}]
  /\ resend = [i \in SpaceIds |-> {}]
  /\ acked = [i \in SpaceIds |-> {}]
  /\ clock = 0
  /\ flying = {}
  /\ arrived = {}
  /\ losses = 0

HasKeys(i) == /\ i \notin dropped
              /\ i = "Handshake" => hs.derived
              /\ i = "Data" => hs.derived

\* can_send(), with the exemption of probes in send_frames()
CanSend(i) == core.sp[i].probes > 0 \/ core.r.bif < Cwnd

\* process_all_lost_frames(): all spaces, at the start of send().
Held == [i \in SpaceIds |-> (resend[i] \cup core.sp[i].lost) \ acked[i]]
NoneLost == [core EXCEPT !.sp = [i \in SpaceIds |-> [core.sp[i] EXCEPT !.lost = {}]]]

\* The end of send_packet(): the packet number is used, and a client drops the
\* Initial space with its first Handshake packet.
Transmit(i, ae, in_flight, frames) ==
  LET p == [pn |-> core.sp[i].next, time |-> clock, acked |-> FALSE, lost |-> Absent, size |-> 1,
            ae |-> ae, in_flight |-> in_flight, frames |-> frames, has_data |-> frames # {}]
      out == [OnPacketSent(NoneLost, i, p, hs, clock) EXCEPT !.sp[i].next = @ + 1]
      drop == ~hs.is_server /\ i = "Handshake" /\ "Initial" \notin dropped
  IN  /\ HasKeys(i)
      /\ MapThenSumSet(LAMBDA j : core.sp[j].next, SpaceIds) < MaxPkts[mode]
      /\ hs' = [hs EXCEPT !.lowest_1rtt = IF i = "Data" /\ hs.completed THEN AtMost(@, p.pn)
                                          ELSE @]
      /\ core' = IF drop THEN OnDiscarded(out, "Initial", hs, clock) ELSE out
      /\ dropped' = IF drop THEN dropped \cup {"Initial"} ELSE dropped
      /\ flying' = IF calm THEN flying \cup {p.pn} ELSE flying
      /\ UNCHANGED <<acked, clock, arrived, losses, mode>>

\* A packet with new data or with data that was lost.
SendData(i) ==
  /\ CanSend(i)
  /\ \E f \in Held[i] \cup (DataFrames[i] \ started[i]) :
       /\ f \notin started[i] => f = Min(DataFrames[i] \ started[i])
       /\ started' = [started EXCEPT ![i] = @ \cup {f}]
       /\ Transmit(i, TRUE, TRUE, {f})
       /\ resend' = [Held EXCEPT ![i] = @ \ {f}]

\* A PING, when an acknowledgment is needed and there is no data to retransmit.
SendPing(i) ==
  /\ core.sp[i].probes > 0 \/ core.sp[i].nonae >= MaxNonEliciting
  /\ CanSend(i)
  /\ Held[i] = {}
  /\ Transmit(i, TRUE, TRUE, {})
  /\ resend' = Held
  /\ UNCHANGED started

\* An ACK frame alone, or padded with the rest of its datagram.
SendAck(i) ==
  /\ mode = "rough"   \* elsewhere left out to bound the run
  /\ core.sp[i].probes = 0
  /\ core.sp[i].nonae < MaxNonEliciting \/ ~CanSend(i)
  /\ \E padded \in BOOLEAN :
       /\ padded => CanSend(i)
       /\ Transmit(i, FALSE, padded, {})
  /\ resend' = Held
  /\ UNCHANGED started

\* Frame::Ack in recv_frame() and try_process_acked_frames(). The frames of a
\* packet that was declared lost are gone from it. A client takes the handshake
\* for confirmed when a 1-RTT packet after its first is acknowledged.
AckFrame(i) ==
  \E S \in (IF calm THEN {arrived} ELSE SUBSET (0..(core.sp[i].next - 1))) \ {{}}, delay \in AckDelays :
    LET h == [hs EXCEPT !.verified = @ \/ i = "Handshake" \/ (i = "Data" /\ hs.completed)]
        done == /\ i = "Data" /\ hs.completed /\ ~hs.is_server /\ Max(S) > hs.lowest_1rtt
                /\ "Handshake" \notin dropped
        got == OnAckReceived(core, i, S, delay, h, clock)
    IN  /\ i \notin dropped
        /\ core' = IF done THEN OnDiscarded(got, "Handshake", h, clock) ELSE got
        /\ core' # core
        /\ dropped' = IF done THEN dropped \cup {"Handshake"} ELSE dropped
        /\ hs' = h
        /\ acked' = [acked EXCEPT ![i] = @ \cup UNION {core.sp[i].sent[k].frames :
                                                         k \in NewlyAcked(core, i, S)}]
        /\ resend' = [resend EXCEPT !["Handshake"] = IF done THEN {} ELSE @]
        /\ UNCHANGED <<started, clock, netVars>>

\* Timer::LossDetection of on_timeout()
LossTimeout ==
  /\ Present(core.r.timer) /\ core.r.timer <= clock
  /\ core' = OnTimeout(core, hs, clock)
  /\ UNCHANGED <<hs, started, resend, acked, dropped, clock, netVars>>

\* drop_space_state(): Initial when a server processed a Handshake packet,
\* Handshake when a client received HANDSHAKE_DONE.
DropSpace(i) ==
  /\ i \notin dropped
  /\ \/ i = "Initial" /\ hs.derived /\ hs.is_server
     \/ i = "Handshake" /\ hs.completed /\ ~hs.is_server
  /\ hs' = [hs EXCEPT !.verified = @ \/ i = "Handshake"]
  /\ core' = OnDiscarded(core, i, hs', clock)
  /\ dropped' = dropped \cup {i}
  /\ resend' = [resend EXCEPT ![i] = {}]
  /\ UNCHANGED <<started, acked, clock, netVars>>

\* A server confirms the handshake when it completes. (process_tls_session)
ServerCompletes ==
  LET h == [hs EXCEPT !.completed = TRUE]
  IN  /\ hs.derived /\ ~hs.completed /\ hs.is_server
      /\ hs' = h
      /\ core' = OnDiscarded(core, "Handshake", h, clock)
      /\ dropped' = dropped \cup {"Handshake"}
      /\ resend' = [resend EXCEPT !["Handshake"] = {}]
      /\ UNCHANGED <<started, acked, clock, netVars>>

\* The TLS session makes progress; the server meets its sending limit, and
\* inc_anti_ampl_limit() lifts it.
HandshakeStep ==
  /\ ~calm
  /\ \/ ~hs.derived /\ hs' = [hs EXCEPT !.derived = TRUE]
     \/ /\ hs.derived /\ ~hs.completed
        /\ ~hs.is_server
        /\ hs' = [hs EXCEPT !.completed = TRUE]
     \/ hs.is_server /\ ~hs.completed /\ hs' = [hs EXCEPT !.limited = ~@]
  /\ UNCHANGED <<core, started, resend, acked, dropped, clock, netVars>>

\* The calm network, which keeps the order.
Deliver ==
  /\ flying # {}
  /\ flying' = flying \ {Min(flying)}
  /\ arrived' = arrived \cup {Min(flying)}
  /\ UNCHANGED <<core, hs, started, resend, acked, dropped, clock, losses, mode>>

Lose ==
  /\ flying # {} /\ losses < MaxLoss
  /\ losses' = losses + 1
  /\ flying' = flying \ {Min(flying)}
  /\ UNCHANGED <<core, hs, started, resend, acked, dropped, clock, arrived, mode>>

\* Time passes; on a calm network not before what is due has happened, and only
\* while the connection waits for its timer.
Settled ==
  /\ flying = {}
  /\ \A i \in SpaceIds \ dropped :
       /\ \A p \in Ran(core.sp[i].sent) : p.pn \in arrived => p.acked
       /\ core.sp[i].probes = 0
       /\ Held[i] = {} \/ core.r.bif >= Cwnd
  /\ Present(core.r.timer) => core.r.timer > clock

Tick ==
  /\ clock < MaxNow[mode]
  /\ calm => Settled /\ Present(core.r.timer)
  /\ clock' = clock + 1
  /\ UNCHANGED <<core, hs, started, resend, acked, dropped, netVars>>

RecNext ==
  \/ \E i \in SpaceIds :
       SendData(i) \/ SendPing(i) \/ SendAck(i) \/ AckFrame(i)
  \/ \E i \in {"Initial", "Handshake"} : DropSpace(i)
  \/ LossTimeout
  \/ Deliver \/ Lose
  \/ ServerCompletes
  \/ HandshakeStep
  \/ Tick

RecSpec == RecInit /\ [][RecNext]_recVars

\* Weak fairness of the steps on a calm network: the connection sends what it
\* may, packets and acknowledgments arrive, its endpoint serves its timer and
\* time passes. Ready says when one of these steps can be taken; they all go
\* forward, so one fairness condition stands for that of each.
Ready ==
  /\ calm
  /\ \/ ~Settled
     \/ clock < MaxNow[mode] /\ Present(core.r.timer)

RecFairness == []<>~Ready \/ []<><<TRUE>>_recVars

RecFairSpec == RecSpec /\ RecFairness

-----------------------------------------------------------------------------
\* Data that was sent and not acknowledged is in a packet still tracked as
\* outstanding, or waits to be sent again: marking packets lost or acknowledged,
\* draining the queue and probing never make the sender forget a frame.
\* (detect_lost_packets, drain_sent_packets, on_loss_detection_timeout)
Tracked(i) == (UNION {p.frames : p \in {x \in Ran(core.sp[i].sent) : Outstanding(x)}})
                \cup resend[i] \cup core.sp[i].lost

NothingForgotten ==
  \A i \in SpaceIds \ dropped : started[i] \subseteq acked[i] \cup Tracked(i)

\* bytes_in_flight and ack_eliciting_in_flight never exceed what is outstanding,
\* so a path is never blocked by packets that were acknowledged, lost or
\* discarded with their space. (remove_from_bytes_in_flight and the counters in
\* detect_acked_packets and detect_lost_packets)
InFlight == UNION {{<<i, p>> : p \in {x \in Ran(core.sp[i].sent) : Outstanding(x) /\ x.in_flight}} :
                     i \in SpaceIds}
InFlightNotOvercounted ==
  /\ core.r.bif <= MapThenSumSet(LAMBDA x : x[2].size, InFlight)
  /\ core.r.aeif <= Cardinality({x \in InFlight : x[2].ae})

\* On a network that only loses packets, every frame sent after the handshake
\* is acknowledged in the end: the loss timer, the probes that may exceed the
\* congestion window and the back-off leave no state in which the sender waits
\* for nothing. (set_loss_detection_timer, on_loss_detection_timeout)
Delivered ==
  \A f \in DataFrames["Data"] :
    (calm /\ f \in started["Data"]) ~> (f \in acked["Data"])

=============================================================================
