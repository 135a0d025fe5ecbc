------------------------------ MODULE Estimators ------------------------------
(***************************************************************************)
(* The estimators that loss recovery and the congestion controllers share: *)
(* the round-trip time, a windowed extremum and the delivery rate. Each is *)
(* a record, and each of its methods an operator.                          *)
(***************************************************************************)
EXTENDS Util

-----------------------------------------------------------------------------
(* RttEstimator (connection/rtt.rs): an RTT estimate is a record, each     *)
(* method an operator. Durations are whole ticks; the divisions truncate   *)
(* as those of Duration do.                                                *)

Granularity == 1   \* TIMER_GRANULARITY

RttNew(rtt) ==
  [latest |-> rtt, smoothed |-> Absent, var |-> rtt \div 2, min |-> rtt, max |-> rtt]

SmoothedRtt(e) == IF Present(e.smoothed) THEN e.smoothed ELSE e.latest

PtoBase(e) == SmoothedRtt(e) + AtLeast(4 * e.var, Granularity)

\* update(): the acknowledgment delay is always subtracted; the test against
\* the least RTT is disabled in the code.
RttUpdate(e, ack_delay, rtt) ==
  LET adjusted == SatSub(rtt, ack_delay)
      sample == IF e.smoothed > adjusted THEN e.smoothed - adjusted
                ELSE adjusted - e.smoothed
  IN  IF Present(e.smoothed)
      THEN [latest |-> rtt,
            smoothed |-> (7 * e.smoothed + adjusted) \div 8,
            var |-> (3 * e.var + sample) \div 4,
            min |-> AtMost(e.min, rtt),
            max |-> AtLeast(e.max, rtt)]
      ELSE [latest |-> rtt, smoothed |-> rtt, var |-> rtt \div 2, min |-> rtt, max |-> rtt]

-----------------------------------------------------------------------------
(* MinMax (congestion_control/minmax.rs): the windowed extremum of a       *)
(* stream of samples, kept in three choices. BBR takes the largest         *)
(* delivery rate of the last ten rounds from it, BBRv3 the ack             *)
(* aggregation, Copa the least RTT of two windows.                         *)

Sample(t, v) == [time |-> t, value |-> v]

\* new() and reset()
MinMaxNew(window) == [window |-> window, s |-> [i \in 1..3 |-> Sample(0, 0)]]
MinMaxReset(f, x) == [f EXCEPT !.s = <<x, x, x>>]

\* set_window(), get()
SetWindow(f, w) == [f EXCEPT !.window = w]
Get(f) == f.s[1].value

\* Choices and the sample that arrives: the best one is too old and the
\* others move up.
MoveUp(s, x) == <<s[2], s[3], x>>
Outlived(f, s, x) == SatSub(x.time, s[1].time) > f.window
Slide(f, s, x) == IF Outlived(f, MoveUp(s, x), x) THEN MoveUp(MoveUp(s, x), x) ELSE MoveUp(s, x)

\* subwin_update(): a choice is taken from the second quarter and one from
\* the last half of the window when no better sample came.
MSubwinUpdate(f, s, x) ==
  LET dt == SatSub(x.time, s[1].time)
  IN  IF s[2].time = s[1].time /\ dt > f.window \div 4 THEN <<s[1], x, x>>
      ELSE IF s[3].time = s[2].time /\ dt > f.window \div 2 THEN <<s[1], s[2], x>>
      ELSE s
SubwinUpdate(f, s, x) ==
  LET dt == SatSub(x.time, s[1].time)
  IN  IF dt > f.window THEN Slide(f, s, x)
      ELSE IF s[2].time = s[1].time /\ dt > f.window \div 4 THEN <<s[1], x, x>>
      ELSE IF s[3].time = s[2].time /\ dt > f.window \div 2 THEN <<s[1], s[2], x>>
      ELSE s

\* The sample takes the place of the choices it is at least as good as.
AsGood(max, a, b) == IF max THEN a >= b ELSE a <= b
Replace(s, x, max) ==
  IF AsGood(max, x.value, s[2].value) THEN <<s[1], x, x>>
  ELSE IF AsGood(max, x.value, s[3].value) THEN <<s[1], s[2], x>>
  ELSE s

\* update_max() and update_min() differ in the comparison alone.
MinMaxUpdate(f, t, v, max) ==
  IF t < f.s[3].time THEN f
  ELSE IF \/ f.s[1].value = 0
          \/ AsGood(max, v, f.s[1].value)
          \/ SatSub(t, f.s[3].time) > f.window
       THEN MinMaxReset(f, Sample(t, v))
       ELSE [f EXCEPT !.s = SubwinUpdate(f, Replace(f.s, Sample(t, v), max), Sample(t, v))]
UpdateMax(f, t, v) == MinMaxUpdate(f, t, v, TRUE)
UpdateMin(f, t, v) == MinMaxUpdate(f, t, v, FALSE)

-----------------------------------------------------------------------------
(* DeliveryRateEstimator (congestion_control/delivery_rate.rs): the rate   *)
(* at which data is delivered, sampled with every acknowledgment. An       *)
(* estimator is a record, a packet carries the state it was sent with.     *)

Second == 1000     \* time is in milliseconds

\* default()
RateNew(now) ==
  [delivered |-> 0, delivered_time |-> now, first_sent_time |-> now,
   last_app_limited |-> 0, largest_acked |-> 0, last_sent |-> 0,
   rate |-> 0, sample_app_limited |-> FALSE, sample_delivered |-> 0,
   prior_delivered |-> 0, prior_time |-> Absent,
   send_elapsed |-> 0, ack_elapsed |-> 0, rtt |-> 0]

IsAppLimited(e) == e.last_app_limited # 0

\* set_app_limited()
SetAppLimited(e, limited) ==
  [e EXCEPT !.last_app_limited = IF limited THEN AtLeast(e.last_sent, 1) ELSE 0]

\* on_packet_sent(): what the estimator keeps, and what the packet does
Started(e, p, in_flight) ==
  IF in_flight = 0 THEN [e EXCEPT !.first_sent_time = p.sent, !.delivered_time = p.sent] ELSE e
RateOnSent(e, p, in_flight) == [Started(e, p, in_flight) EXCEPT !.last_sent = p.pn]
Stamped(e, p, in_flight, lost) ==
  [p EXCEPT !.first_sent_time = Started(e, p, in_flight).first_sent_time,
            !.delivered_time = Started(e, p, in_flight).delivered_time,
            !.delivered = e.delivered, !.app_limited = IsAppLimited(e),
            !.tx_in_flight = in_flight, !.lost = lost]

\* update_rate_sample(): the newest packet delivered gives the base of the
\* sample. A packet the controller was never told of has no state.
Newest(e, p) ==
  IF ~Present(e.prior_time) \/ p.delivered > e.prior_delivered
  THEN [e EXCEPT !.prior_delivered = p.delivered, !.prior_time = p.delivered_time,
                 !.sample_app_limited = p.app_limited, !.first_sent_time = p.sent]
  ELSE e
Sampled(e, p, now) ==
  [e EXCEPT !.send_elapsed = SatSub(p.sent, p.first_sent_time),
            !.ack_elapsed = SatSub(now, p.delivered_time),
            !.rtt = SatSub(now, p.sent),
            !.sample_delivered = SatSub(e.delivered, e.prior_delivered),
            !.largest_acked = AtLeast(p.pn, e.largest_acked)]
UpdateRateSample(e, p, now) ==
  IF ~Present(p.delivered_time) THEN e
  ELSE Sampled(Newest([e EXCEPT !.delivered = @ + p.size, !.delivered_time = now], p), p, now)

\* generate_rate_sample()
Cleared(e) ==
  IF IsAppLimited(e) /\ e.largest_acked > e.last_app_limited THEN SetAppLimited(e, FALSE) ELSE e
Interval(e) == AtLeast(e.send_elapsed, e.ack_elapsed)
Rated(e) ==
  IF ~Present(e.prior_time) THEN e
  ELSE [e EXCEPT !.sample_delivered = SatSub(e.delivered, e.prior_delivered),
                 !.rate = IF Interval(e) = 0 THEN @
                          ELSE (SatSub(e.delivered, e.prior_delivered) * Second) \div Interval(e)]
GenerateRateSample(e) == Rated(Cleared(e))
=============================================================================
