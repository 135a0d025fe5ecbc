------------------------------ MODULE Congestion ------------------------------
(* The congestion controllers at work on one path: what Recovery           *)
(* (connection/recovery.rs) tells the controller of packets sent,          *)
(* acknowledged and lost, the Pacer (congestion_control/pacing.rs) and the *)
(* Dummy controller. The link is the environment: a bottleneck that        *)
(* delivers one packet every `gap` milliseconds, drops what its buffer     *)
(* cannot hold, and is disturbed at most CcFaults times. The peer          *)
(* acknowledges every second packet.                                       *)
EXTENDS Estimators, Sequences, FiniteSets

CONSTANTS Mds, MinCwnd, InitialCwnd, InitialRtt, Infinite,
          BtlBwFilterLen, FullBwCountThreshold, RtpropFilterLen, ProbeRttDuration,
          FullLossCount, ExtraAckedFilterLen, MinRttFilterLen, ProbeRttInterval,
          NRttSample, CssRounds, SlowStartDelta, SteadyDelta, UseStandingRtt,
          MinBurst,      \* MIN_BURST_PACKET_NUM
          CcModes,       \* records: algo, gap, buffer, pacing
          CcPackets,     \* packets the application has data for
          CcFaults,      \* disturbances of a behaviour
          LinkRtt, LinkDelay,   \* of the link, in milliseconds
          IdleTimes, Waits                  \* pauses of the sender; draws of BBRv3

VARIABLES ccMode, ctl, path, pacer, clock, link, ccHist
ccVars == <<ccMode, ctl, path, pacer, clock, link, ccHist>>

B == INSTANCE Bbr
B3 == INSTANCE Bbr3
C == INSTANCE Cubic
P == INSTANCE Copa

PktThresh == 3
PacingGranularity == 10

--------------------------------------------------------------------------
\* CongestionController: build_congestion_controller() and the methods
CtlNew(a) ==
  CASE a = "bbr" -> B!New(0) [] a = "bbr3" -> B3!New(0) [] a = "cubic" -> C!New(0)
    [] a = "copa" -> P!New(0) [] a = "dummy" -> [cwnd |-> InitialCwnd, in_flight |-> 0]
CtlWindow(a, c) ==
  CASE a = "bbr" -> B!Window(c) [] a = "bbr3" -> B3!Window(c) [] a = "cubic" -> C!Window(c)
    [] a = "copa" -> P!Window(c) [] a = "dummy" -> c.cwnd
CtlRate(a, c) ==
  CASE a \in {"bbr", "bbr3", "cubic"} -> c.pacing_rate
    [] a = "copa" -> P!PacingRate(c) [] a = "dummy" -> Absent
CtlAppLimited(a, c, limited) ==
  IF a \in {"bbr", "bbr3"} THEN [c EXCEPT !.est = B!SetAppLimited(@, limited)] ELSE c
CtlOnSent(a, c, p, in_flight) ==
  CASE a = "bbr" -> B!OnSent(c, p)
    [] a = "bbr3" -> B3!OnSent(c, p, [phase |-> 0, rounds |-> 0, wait |-> 2000])
    [] a = "cubic" -> C!OnSent(c, p, in_flight) [] a = "copa" -> P!OnSent(c, p, in_flight)
    [] a = "dummy" -> [c EXCEPT !.in_flight = in_flight]
CtlStamp(a, c, p) ==
  CASE a = "bbr" -> B!SentState(c, p) [] a = "bbr3" -> B3!SentState(c, p) [] OTHER -> p
CtlBeginAck(a, c, now) ==
  CASE a = "bbr" -> B!BeginAck(c, now) [] a = "bbr3" -> B3!BeginAck(c, now)
    [] a = "copa" -> P!BeginAck(c) [] OTHER -> c
CtlOnAck(a, c, p, now, rtt, in_flight) ==
  CASE a = "bbr" -> B!OnAck(c, p, now) [] a = "bbr3" -> B3!OnAck(c, p, now)
    [] a = "cubic" -> C!OnAck(c, p, now, rtt) [] a = "copa" -> P!OnAck(c, p, rtt)
    [] a = "dummy" -> [c EXCEPT !.in_flight = in_flight]
CtlEndAck(a, c, now, draw) ==
  CASE a = "bbr" -> B!EndAck(c, now, draw.phase) [] a = "bbr3" -> B3!EndAck(c, now, draw)
    [] a = "cubic" -> C!EndAck(c) [] a = "copa" -> P!EndAck(c, now) [] a = "dummy" -> c
CtlLost(a, c, p, lost, now, in_flight, draw) ==
  CASE a = "bbr" -> B!OnCongestionEvent(c, p, lost, now)
    [] a = "bbr3" -> B3!OnCongestionEvent(c, p, lost, now, draw)
    [] a = "cubic" -> C!OnCongestionEvent(c, p, now)
    [] a = "copa" -> P!OnCongestionEvent(c, lost, in_flight)
    [] a = "dummy" -> [c EXCEPT !.in_flight = in_flight]

--------------------------------------------------------------------------
\* Pacer: update_capacity(), new(), on_sent() and schedule()
Capacity(cwnd, srtt) ==
  AtLeast(MinBurst * Mds, AtMost((cwnd * PacingGranularity) \div AtLeast(srtt, 1), 128 * Mds))
PacerNew ==
  [capacity |-> Capacity(InitialCwnd, InitialRtt), tokens |-> Capacity(InitialCwnd, InitialRtt),
   last_cwnd |-> InitialCwnd, last |-> 0, timer |-> Absent]
PacerOnSent(q, bytes) == [q EXCEPT !.tokens = SatSub(@, bytes)]
Fitted(q, cwnd, srtt) ==
  IF cwnd = q.last_cwnd THEN q
  ELSE [q EXCEPT !.capacity = Capacity(cwnd, srtt), !.last_cwnd = cwnd,
                 !.tokens = AtMost(Capacity(cwnd, srtt), @)]
Refilled(q, rate, now) ==
  [q EXCEPT !.tokens = AtMost(@ + (rate * SatSub(now, q.last)) \div 1000, q.capacity), !.last = now]
Timed(q, bytes, rate) ==
  [q EXCEPT !.timer = IF bytes <= q.tokens THEN Absent
                      ELSE q.last + ((bytes - q.tokens) * 1000) \div rate + 1]
Schedule(q, bytes, rate, srtt, cwnd, now) ==
  IF srtt = 0 \/ cwnd = 0 \/ rate = 0 THEN [q EXCEPT !.timer = Absent]
  ELSE IF Fitted(q, cwnd, srtt).tokens >= bytes
  THEN [Fitted(q, cwnd, srtt) EXCEPT !.timer = Absent]
  ELSE Timed(Refilled(Fitted(q, cwnd, srtt), rate, now), bytes, rate)

--------------------------------------------------------------------------
\* What a call works on: controller, path, pacer and link
Work == [ctl |-> ctl, path |-> path, pacer |-> pacer, link |-> link]

\* The link takes a packet: when it arrives, or that it has no room
Arrival(l, now) == AtLeast(now + LinkRtt, l.last + ccMode.gap)
Taken(l, now) ==
  IF Arrival(l, now) > now + LinkRtt + ccMode.buffer THEN l
  ELSE [l EXCEPT !.last = Arrival(l, now)]
Packet(w, size, in_flight, now) ==
  [pn |-> w.path.next, sent |-> now, size |-> size, in_flight |-> in_flight,
   due |-> Arrival(w.link, now), missing |-> Arrival(w.link, now) > now + LinkRtt + ccMode.buffer,
   acked |-> FALSE, lostAt |-> Absent, first_sent_time |-> Absent, delivered_time |-> Absent,
   delivered |-> 0, app_limited |-> FALSE, tx_in_flight |-> 0, lost |-> 0]

\* on_packet_sent(), after send() has cleared the application limit
Pushed(w, p, now) ==
  [w EXCEPT !.path.sent = Append(@, p), !.path.next = @ + 1, !.link = Taken(@, now),
            !.path.in_flight = IF p.in_flight THEN @ + p.size ELSE @,
            !.path.size = IF p.in_flight THEN p.size ELSE @]
Told(w, p) ==
  Pushed([w EXCEPT !.ctl = CtlOnSent(ccMode.algo, @, p, w.path.in_flight),
                   !.pacer = PacerOnSent(@, p.size)],
         CtlStamp(ccMode.algo, w.ctl, p), p.sent)
OnPacketSent(w, p) ==
  IF p.in_flight THEN Told([w EXCEPT !.ctl = CtlAppLimited(ccMode.algo, @, FALSE)], p)
  ELSE Pushed(w, p, p.sent)

\* can_send() with can_pacing()
CwndBlocks(w) == w.path.in_flight >= CtlWindow(ccMode.algo, w.ctl)
Asked(w, now) ==
  IF ~ccMode.pacing \/ ~Present(CtlRate(ccMode.algo, w.ctl)) THEN w
  ELSE [w EXCEPT !.pacer = Schedule(@, w.path.size, CtlRate(ccMode.algo, w.ctl),
                                    SmoothedRtt(w.path.rtt), CtlWindow(ccMode.algo, w.ctl), now)]

\* send(), again and again until the window, the pacer or the data says no
RECURSIVE Burst(_, _)
Paced(w, now) ==
  IF Present(w.pacer.timer) THEN w
  ELSE IF w.path.next >= CcPackets \/ w.link.paused
  THEN [w EXCEPT !.ctl = CtlAppLimited(ccMode.algo, @, TRUE)]
  ELSE Burst(OnPacketSent(w, Packet(w, Mds, TRUE, now)), now)
Burst(w, now) == IF CwndBlocks(w) THEN w ELSE Paced(Asked(w, now), now)

\* detect_acked_packets(): every packet newly acknowledged, in order
AckOne(w, i, now) ==
  LET p == w.path.sent[i]
      in_flight == IF p.in_flight THEN SatSub(w.path.in_flight, p.size) ELSE w.path.in_flight
  IN  [w EXCEPT !.path.sent[i].acked = TRUE, !.path.in_flight = in_flight,
                !.path.thresh = IF Present(p.lostAt) THEN @ + 1 ELSE @,
                !.ctl = CtlOnAck(ccMode.algo, @, p, now, w.path.rtt, in_flight)]
RECURSIVE AckAll(_, _, _, _)
AckAll(w, i, S, now) ==
  IF i > Len(w.path.sent) THEN w
  ELSE IF w.path.sent[i].pn \in S THEN AckAll(AckOne(w, i, now), i + 1, S, now)
  ELSE AckAll(w, i + 1, S, now)

\* on_ack_received(): the RTT sample, if the largest number is new
Elicits(w, S) == \E i \in DOMAIN w.path.sent : w.path.sent[i].pn \in S /\ w.path.sent[i].in_flight
SentAt(w, pn) == w.path.sent[CHOOSE i \in DOMAIN w.path.sent : w.path.sent[i].pn = pn].sent
RttSampled(w, S, now) ==
  IF w.path.largest \in S /\ Elicits(w, S) /\ now > SentAt(w, w.path.largest)
  THEN [w EXCEPT !.path.rtt = RttUpdate(@, 0, now - SentAt(w, w.path.largest))] ELSE w

\* detect_lost_packets()
LossDelay(w) ==
  AtLeast((9 * AtLeast(w.path.rtt.latest, SmoothedRtt(w.path.rtt))) \div 8, Granularity)
Unacked(w) ==
  {i \in DOMAIN w.path.sent : /\ w.path.sent[i].pn <= w.path.largest
                              /\ ~w.path.sent[i].acked /\ ~Present(w.path.sent[i].lostAt)}
IsLost(w, i, now) ==
  \/ w.path.sent[i].sent <= now - LossDelay(w)
  \/ w.path.sent[i].pn + w.path.thresh <= w.path.largest
LostBytes(w, L) == Mds * Cardinality({i \in L : w.path.sent[i].in_flight})
Marked(w, L, now) ==
  [w EXCEPT !.path.sent = [i \in DOMAIN @ |-> IF i \in L THEN [@[i] EXCEPT !.lostAt = now] ELSE @[i]],
            !.path.in_flight = SatSub(@, LostBytes(w, L)),
            !.path.loss_time =
              LET T == {w.path.sent[i].sent + LossDelay(w) : i \in Unacked(w) \ L}
              IN  IF T = {} THEN Absent ELSE CHOOSE t \in T : \A u \in T : t <= u]
Blamed(w, L, now, draw) ==
  IF L = {} THEN w
  ELSE [w EXCEPT !.ctl = CtlLost(ccMode.algo, @,
                           w.path.sent[CHOOSE i \in L : \A j \in L : j <= i],
                           LostBytes(w, L), now, w.path.in_flight, draw)]
DetectLost(w, now, draw) ==
  LET L == {i \in Unacked(w) : IsLost(w, i, now)}
  IN  Blamed(Marked(w, L, now), L, now, draw)

\* drain_sent_packets()
Kept(w, p, now) ==
  \/ ~p.acked /\ ~Present(p.lostAt)
  \/ Present(p.lostAt) /\ p.lostAt + SmoothedRtt(w.path.rtt) > now
Drained(w, now) ==
  LET K == {i \in DOMAIN w.path.sent : Kept(w, w.path.sent[i], now)}
      first == IF K = {} THEN Len(w.path.sent) + 1 ELSE CHOOSE i \in K : \A j \in K : i <= j
  IN  [w EXCEPT !.path.sent = SubSeq(@, first, Len(@))]

EndAck(w, now, draw) == [w EXCEPT !.ctl = CtlEndAck(ccMode.algo, @, now, draw)]
OnAckReceived(w, S, now, draw) ==
  EndAck(Drained(DetectLost(RttSampled(
    AckAll([w EXCEPT !.ctl = CtlBeginAck(ccMode.algo, @, now),
                     !.path.largest = AtLeast(@, CHOOSE n \in S : \A m \in S : m <= n)],
           1, S, now), S, now), now, draw), now), now, draw)

--------------------------------------------------------------------------
\* History: the time of the last cut of the window, of the last round, the
\* newest packet acknowledged by a step, the rates given to BBR's filter,
\* the RTTs measured.
Counts == ccMode.algo \in {"bbr", "bbr3"}
RoundBegan(w) == Counts /\ w.ctl.round_count > ctl.round_count
Fed(w) ==
  LET r == w.ctl.round_count
  IN  {x \in ccHist.rates : x.round >= r - BtlBwFilterLen} \cup {[round |-> r, rate |-> w.ctl.est.rate]}
Recorded(w, S, now) ==
  ccHist' = [ccHist EXCEPT
    !.newest = IF S = {} THEN @ ELSE SentAt(Work, CHOOSE n \in S : \A m \in S : m <= n),
    !.roundAt = IF RoundBegan(w) /\ w.ctl.est.delivered > 0 THEN now ELSE @,
    !.cutAt = IF ccMode.algo = "cubic" /\ w.ctl.cwnd < ctl.cwnd THEN now ELSE @,
    !.lost = @ \/ \E i \in DOMAIN w.path.sent : Present(w.path.sent[i].lostAt),
    !.minRtt = AtMost(@, w.path.rtt.latest), !.maxRtt = AtLeast(@, w.path.rtt.latest),
    !.rates = IF ccMode.algo = "bbr" /\ S # {} /\ w.ctl.filter # ctl.filter THEN Fed(w) ELSE @]

Put(w, now) ==
  /\ ctl' = w.ctl /\ path' = w.path /\ pacer' = w.pacer /\ link' = w.link /\ clock' = now
  /\ UNCHANGED ccMode

--------------------------------------------------------------------------
CcInit ==
  /\ ccMode \in CcModes
  /\ ctl = CtlNew(ccMode.algo) /\ pacer = PacerNew /\ clock = 0
  /\ path = [sent |-> <<>>, next |-> 1, in_flight |-> 0, largest |-> 0, thresh |-> PktThresh,
             rtt |-> RttNew(InitialRtt), loss_time |-> Absent, size |-> 0]
  /\ link = [last |-> 0, faults |-> CcFaults, paused |-> FALSE, started |-> FALSE]
  /\ ccHist = [newest |-> Absent, roundAt |-> Absent, cutAt |-> Absent, lost |-> FALSE,
               minRtt |-> InitialRtt, maxRtt |-> 0, rates |-> {}]

\* The packets on the link, and the next acknowledgment: of two packets, of
\* four when one is lost, of one when it is the last.
Travelling == {i \in DOMAIN path.sent : ~path.sent[i].missing /\ ~path.sent[i].acked}
Oldest(n) == {i \in Travelling : Cardinality({j \in Travelling : j < i}) < n}
Numbers(I) == {path.sent[i].pn : i \in I}
AckTime(n) ==
  LET I == Oldest(n) IN AtLeast(clock, path.sent[CHOOSE i \in I : \A j \in I : j <= i].due)
Spent(k) == [Work EXCEPT !.link.faults = @ - k]

\* No timer is due before the acknowledgment arrives.
TimerTimes == {t \in {path.loss_time, pacer.timer} : Present(t)}
NotBefore(t) == \A u \in TimerTimes : t <= u

\* The application's data, or the end of a pause, lets the connection send.
CcStart ==
  /\ ~link.started
  /\ Put(Burst([Work EXCEPT !.link.started = TRUE], clock), clock)
  /\ UNCHANGED ccHist

\* process_frames() of an ACK; the endpoint then lets the connection send.
Acked(w, S, now, draw) ==
  \E r \in {OnAckReceived(w, S, now, draw)} : Put(Burst(r, now), now) /\ Recorded(r, S, now)
CcAck ==
  \E n \in {2, 4}, late \in SUBSET {i \in DOMAIN path.sent : path.sent[i].missing /\ ~path.sent[i].acked},
     draw \in Waits :
    LET cost == (IF n = 4 THEN 1 ELSE 0) + Cardinality(late)
    IN  /\ Travelling # {} /\ link.started
        /\ cost <= link.faults /\ Cardinality(late) <= 1
        /\ n = 4 => Cardinality(Travelling) > 2
        /\ NotBefore(AckTime(n))
        /\ Acked(Spent(cost), Numbers(Oldest(n) \cup late), AckTime(n), draw)

\* on_loss_detection_timeout(): the loss time has come.
CcLossTimer ==
  /\ Present(path.loss_time) /\ NotBefore(path.loss_time)
  /\ Travelling # {} => path.loss_time <= AckTime(2)
  /\ \E draw \in Waits :
       LET now == AtLeast(clock, path.loss_time)
       IN  \E r \in {Drained(DetectLost(Work, now, draw), now)} :
             Put(Burst(r, now), now) /\ Recorded(r, {}, now)

\* The pacing timer expires.
CcPacerTimer ==
  /\ Present(pacer.timer) /\ NotBefore(pacer.timer)
  /\ Travelling # {} => pacer.timer <= AckTime(2)
  /\ LET now == AtLeast(clock, pacer.timer)
     IN  Put(Burst([Work EXCEPT !.pacer.timer = Absent], now), now)
  /\ UNCHANGED ccHist

\* A probe timeout: everything in flight is missing.
CcProbe ==
  /\ link.started /\ ~link.paused /\ Travelling = {} /\ TimerTimes = {} /\ path.in_flight > 0
  /\ path.next < CcPackets + 2
  /\ LET now == clock + PtoBase(path.rtt)
     IN  Put(OnPacketSent(Work, Packet(Work, Mds, TRUE, now)), now)
  /\ UNCHANGED ccHist

\* Disturbances: the oldest packet on the link is lost or late, everything
\* on it is delayed, the application pauses, a packet without data is sent.
Disturbs == link.started /\ link.faults > 0
CcDrop ==
  /\ Disturbs /\ Travelling # {}
  /\ \E i \in Oldest(1) : path' = [path EXCEPT !.sent[i].missing = TRUE]
  /\ link' = [link EXCEPT !.faults = @ - 1]
  /\ UNCHANGED <<ccMode, ctl, pacer, clock, ccHist>>
CcDelay ==
  /\ Disturbs /\ Travelling # {}
  /\ path' = [path EXCEPT !.sent =
                [i \in DOMAIN @ |-> IF i \in Travelling THEN [@[i] EXCEPT !.due = @ + LinkDelay] ELSE @[i]]]
  /\ link' = [link EXCEPT !.faults = @ - 1, !.last = @ + LinkDelay]
  /\ UNCHANGED <<ccMode, ctl, pacer, clock, ccHist>>
CcPause ==
  /\ Disturbs /\ ~link.paused /\ path.next < CcPackets
  /\ Put(Burst([Spent(1) EXCEPT !.link.paused = TRUE], clock), clock)
  /\ UNCHANGED ccHist
CcResume ==
  /\ link.paused /\ Travelling = {} /\ ~Present(path.loss_time)
  /\ \E d \in IdleTimes :
       Put(Burst([Work EXCEPT !.link.paused = FALSE, !.pacer.timer = Absent], clock + d), clock + d)
  /\ UNCHANGED ccHist
CcAckOnly ==
  /\ Disturbs
  /\ Put(OnPacketSent(Spent(1), Packet(Work, Mds, FALSE, clock)), clock)
  /\ UNCHANGED ccHist

\* The data is sent and the path is quiet.
CcDone ==
  /\ link.started /\ ~link.paused /\ Travelling = {} /\ TimerTimes = {}
  /\ path.in_flight = 0 \/ path.next >= CcPackets + 2
  /\ UNCHANGED ccVars

CcNext ==
  \/ CcStart \/ CcAck \/ CcLossTimer \/ CcPacerTimer \/ CcProbe
  \/ CcDrop \/ CcDelay \/ CcPause \/ CcResume \/ CcAckOnly \/ CcDone
CcSpec == CcInit /\ [][CcNext]_ccVars

--------------------------------------------------------------------------
\* Cubic reduces its window at most once for the packets of one flight: the
\* packet whose loss reduces it was sent after the last reduction
\* (cubic.rs, on_congestion_event() with in_recovery()).
NewlyLost == {p \in {path'.sent[i] : i \in DOMAIN path'.sent} : p.lostAt = clock'}
OneCutPerFlight ==
  [][ccMode.algo = "cubic" /\ ctl'.cwnd < ctl.cwnd
       => \E p \in NewlyLost : p.sent > ccHist.cutAt]_ccVars

\* BBR's bandwidth was measured: it is a rate sampled within the filter's
\* window of rounds, and none of that window was greater since it was taken
\* (update_btlbw() over MinMax).
BwIsMeasured ==
  ccMode.algo = "bbr" /\ ccHist.rates # {}
    => /\ \E x \in ccHist.rates : x.rate = ctl.btlbw
       /\ \A x \in ccHist.rates : x.round = ctl.round_count => x.rate <= ctl.btlbw

=============================================================================
