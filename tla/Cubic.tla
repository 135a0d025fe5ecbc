-------------------------------- MODULE Cubic --------------------------------
(* Cubic (congestion_control/cubic.rs) and the slow start it runs,         *)
(* HystartPlusPlus (congestion_control/hystart_plus_plus.rs). The curve is *)
(* computed in whole bytes, K in hundredths of a second and W_est in       *)
(* hundredths of a byte where the code uses floating-point numbers.        *)
EXTENDS Estimators

CONSTANTS Mds, MinCwnd, InitialCwnd, InitialRtt,   \* RecoveryConfig
          NRttSample, CssRounds,                   \* N_RTT_SAMPLE, CSS_ROUNDS
          Infinite                                 \* u64::MAX and Duration::MAX

MinRttThresh == 4
MaxRttThresh == 16
HystartL == 64
Beta(x) == (7 * x) \div 10
Reno == 9                                          \* ALPHA = 9/17

\* HystartPlusPlus::new()
HystartNew ==
  [phase |-> "Standard", last_min |-> Infinite, current_min |-> Infinite, samples |-> 0,
   last_sent |-> 0, max_acked |-> 0, window_end |-> 0, css_rounds |-> 0, baseline |-> Infinite]

\* cwnd_increment()
CwndIncrement(h, bytes) ==
  CASE h.phase = "Standard" -> AtMost(bytes, HystartL * Mds)
    [] h.phase = "Conservative" -> AtMost(bytes \div 4, HystartL * Mds)
    [] h.phase = "Exited" -> 0

\* on_ack(): enough samples of a larger RTT begin the conservative phase,
\* enough of a smaller one end it.
Counted(h, pn, rtt) ==
  [h EXCEPT !.max_acked = AtLeast(pn, @), !.current_min = AtMost(@, rtt), !.samples = @ + 1]
RttThresh(h) == AtLeast(MinRttThresh, AtMost(h.last_min \div 8, MaxRttThresh))
Judged(h) ==
  IF h.samples < NRttSample THEN h
  ELSE IF /\ h.phase = "Standard"
          /\ h.current_min # Infinite /\ h.last_min # Infinite
          /\ h.current_min >= h.last_min + RttThresh(h)
  THEN [h EXCEPT !.phase = "Conservative", !.baseline = h.current_min]
  ELSE IF h.phase = "Conservative" /\ h.current_min < h.baseline
  THEN [h EXCEPT !.phase = "Standard", !.baseline = Infinite, !.css_rounds = 0]
  ELSE h
HystartOnAck(h, pn, rtt) == Judged(Counted(h, pn, rtt))

\* end_ack(): a round ends with a packet sent after it began.
CssRound(h) ==
  IF h.phase # "Conservative" THEN h
  ELSE IF h.css_rounds + 1 >= CssRounds THEN [h EXCEPT !.css_rounds = 0, !.phase = "Exited"]
  ELSE [h EXCEPT !.css_rounds = @ + 1]
HystartEndAck(h) ==
  IF h.max_acked > h.window_end
  THEN CssRound([h EXCEPT !.window_end = h.last_sent, !.last_min = h.current_min,
                          !.current_min = Infinite, !.samples = 0])
  ELSE h

\* Cubic::new()
New(now) ==
  [cwnd |-> InitialCwnd, ssthresh |-> Infinite, w_max |-> 0, k |-> 0, alpha |-> Reno,
   w_est |-> 0, cwnd_inc |-> 0, epoch |-> Absent, last_sent_time |-> Absent,
   pacing_rate |-> (InitialCwnd * 1000) \div AtLeast(InitialRtt, 1), hystart |-> HystartNew]

Window(c) == AtLeast(c.cwnd, MinCwnd)
InRecovery(c, sent) == Present(c.epoch) /\ sent <= c.epoch
InSlowStart(c) == c.cwnd < c.ssthresh

\* cubic_k(): the cube root of (W_max - cwnd) / 0.4, in hundredths of a second
CubicK(w_max, cwnd) ==
  IF w_max <= cwnd THEN 0
  ELSE CHOOSE k \in 0..1000 :
         LET x == ((w_max - cwnd) * 2500000) \div Mds
         IN  k * k * k <= x /\ (k + 1) * (k + 1) * (k + 1) > x

\* w_cubic()
WCubic(c, t) ==
  LET x == (t \div 10) - c.k
  IN  c.w_max + (((x * x * x) \div 10000) * 4 * Mds) \div 1000

\* on_sent(): the epoch moves by the time since the last packet was sent.
OnSent(c, p, bytes_in_flight) ==
  [c EXCEPT !.epoch = IF bytes_in_flight = 0 /\ Present(c.last_sent_time) /\ Present(@)
                      THEN @ + SatSub(p.sent, c.last_sent_time) ELSE @,
            !.last_sent_time = p.sent, !.hystart.last_sent = p.pn]

\* on_ack() in congestion avoidance
Anchored(c, now) ==
  IF Present(c.epoch) THEN c
  ELSE [c EXCEPT !.epoch = now, !.w_max = c.cwnd, !.k = 0, !.w_est = 100 * c.cwnd, !.alpha = Reno]
Estimated(c, bytes) ==
  [c EXCEPT !.w_est = @ + (c.alpha * bytes * Mds * 100) \div (17 * c.cwnd)]
Reached(c) == IF c.w_est >= 100 * c.w_max THEN [c EXCEPT !.alpha = 17] ELSE c
NextCwnd(c, t, srtt) ==
  LET target == AtLeast(c.cwnd, AtMost(WCubic(c, t + srtt), (3 * c.cwnd) \div 2))
  IN  IF 100 * WCubic(c, t) < c.w_est THEN AtLeast(c.cwnd, c.w_est \div 100)
      ELSE c.cwnd + ((target - c.cwnd) * Mds) \div c.cwnd
Stepped(c, next) ==
  [c EXCEPT !.cwnd = @ + ((c.cwnd_inc + next - c.cwnd) \div Mds) * Mds,
            !.cwnd_inc = (@ + next - c.cwnd) % Mds]
Avoided(c, now, srtt) == Stepped(c, NextCwnd(c, SatSub(now, c.epoch), srtt))
Avoid(c, p, now, srtt) == Avoided(Reached(Estimated(Anchored(c, now), p.size)), now, srtt)

\* on_ack() in slow start
SlowStart(c, p, latest_rtt) ==
  [c EXCEPT !.cwnd = @ + CwndIncrement(c.hystart, p.size),
            !.hystart = HystartOnAck(@, p.pn, latest_rtt)]

Paced(c, srtt) == [c EXCEPT !.pacing_rate = (c.cwnd * 1000) \div srtt]
OnAck(c, p, now, rtt) ==
  IF InRecovery(c, p.sent) \/ SmoothedRtt(rtt) = 0 THEN c
  ELSE IF InSlowStart(c) THEN Paced(SlowStart(c, p, rtt.latest), SmoothedRtt(rtt))
  ELSE Paced(Avoid(c, p, now, SmoothedRtt(rtt)), SmoothedRtt(rtt))

\* end_ack()
Leave(c) == IF c.hystart.phase = "Exited" THEN [c EXCEPT !.ssthresh = c.cwnd] ELSE c
EndAck(c) ==
  IF c.hystart.phase = "Exited" THEN c ELSE Leave([c EXCEPT !.hystart = HystartEndAck(@)])

\* on_congestion_event(), with fast convergence; the caller never reports
\* persistent congestion.
Reduced(c, now) ==
  LET w_max == IF c.cwnd < c.w_max THEN (c.cwnd * 17) \div 20 ELSE c.cwnd
      cwnd == AtLeast(Beta(c.cwnd), 2 * Mds)
  IN  [c EXCEPT !.epoch = now, !.w_max = w_max, !.ssthresh = cwnd, !.cwnd = cwnd,
                !.k = CubicK(w_max, cwnd), !.cwnd_inc = Beta(@), !.w_est = 100 * cwnd,
                !.alpha = Reno, !.hystart.window_end = 0, !.hystart.phase = "Exited"]
MOnCongestionEvent(c, p, now) == Reduced(c, now)
OnCongestionEvent(c, p, now) == IF InRecovery(c, p.sent) THEN c ELSE Reduced(c, now)
=============================================================================
