--------------------------------- MODULE Copa ---------------------------------
(* Copa (congestion_control/copa.rs): the window follows the queueing      *)
(* delay, and a loss changes only the weight of the delay. Delta is in     *)
(* hundredths; the loss rate is kept as its comparison with the threshold. *)
EXTENDS Estimators

CONSTANTS Mds, MinCwnd, InitialCwnd, InitialRtt,   \* RecoveryConfig
          SlowStartDelta, SteadyDelta,             \* copa_*_delta, in hundredths
          UseStandingRtt                           \* copa_use_standing_rtt

SpeedUpThreshold == 3
StandingRttWindow == 100
MinRttWindow == 10000

\* new()
New(now) ==
  [init |-> now, lossy |-> FALSE, slow_start |-> TRUE, cwnd |-> InitialCwnd,
   direction |-> "Up", velocity |-> 1, last_cwnd |-> 0, same_direction |-> 0,
   delta |-> SlowStartDelta, standing |-> MinMaxNew(StandingRttWindow),
   min_filter |-> MinMaxNew(MinRttWindow), increase |-> FALSE, target_rate |-> 0,
   last_sent |-> 0, round_count |-> 0, round_start |-> FALSE, round_end |-> 0,
   round_acked |-> 0, round_lost |-> 0, acked_total |-> 0, lost_total |-> 0, in_flight |-> 0,
   acked |-> 0, largest |-> 0, min_rtt |-> 0, srtt |-> 0]

Window(c) == AtLeast(c.cwnd, MinCwnd)

\* get_standing_rtt() and pacing_rate()
StandingRtt(c) == IF Get(c.standing) = 0 THEN AtLeast(InitialRtt, 1) ELSE Get(c.standing)
CurrentRate(c) == (c.cwnd * Second) \div StandingRtt(c)
PacingRate(c) == 2 * CurrentRate(c)

\* on_sent(), begin_ack(), on_ack()
OnSent(c, p, bytes_in_flight) == [c EXCEPT !.in_flight = bytes_in_flight, !.last_sent = p.pn]
BeginAck(c) == [c EXCEPT !.acked = 0, !.min_rtt = 0, !.srtt = 0, !.largest = 0]
OnAck(c, p, rtt) ==
  [c EXCEPT !.in_flight = SatSub(@, p.size), !.acked_total = @ + p.size, !.acked = @ + p.size,
            !.largest = AtLeast(@, p.pn), !.srtt = SmoothedRtt(rtt),
            !.min_rtt = IF @ = 0 \/ @ >= rtt.latest THEN rtt.latest ELSE @]

\* update_round(): the loss rate of the round that ends
UpdateRound(c) ==
  LET lost == c.lost_total - c.round_lost
      acked == c.acked_total - c.round_acked
  IN  IF c.largest >= c.round_end
      THEN [c EXCEPT !.lossy = lost + acked > 0 /\ 10 * lost >= lost + acked,
                     !.round_acked = c.acked_total, !.round_lost = c.lost_total,
                     !.round_count = @ + 1, !.round_end = c.last_sent, !.round_start = TRUE]
      ELSE [c EXCEPT !.round_start = FALSE]

\* update_model(): the two filters
Windowed(c) ==
  [c EXCEPT !.standing = SetWindow(@, IF UseStandingRtt THEN c.srtt ELSE c.srtt \div 2),
            !.min_rtt = IF @ = 0 THEN (IF c.srtt = 0 THEN InitialRtt ELSE c.srtt) ELSE @]
Filtered(c, now) ==
  [c EXCEPT !.min_filter = UpdateMin(@, now - c.init, c.min_rtt),
            !.standing = UpdateMin(@, now - c.init, c.min_rtt)]

\* update_mode()
UpdateMode(c) ==
  [c EXCEPT !.delta = IF c.lossy THEN AtMost(2 * @, 50)
                      ELSE IF c.slow_start THEN SlowStartDelta ELSE SteadyDelta]

\* update_model(): the rate the delay allows
Aim(c) ==
  LET delay == SatSub(StandingRtt(c), Get(c.min_filter))
      target == (Mds * 100 * Second) \div (c.delta * AtLeast(delay, 1))
  IN  IF delay = 0 THEN [c EXCEPT !.increase = TRUE, !.target_rate = CurrentRate(c)]
      ELSE [c EXCEPT !.target_rate = target, !.increase = target >= CurrentRate(c)]

\* update_velocity()
Direction(c) == IF c.cwnd > c.last_cwnd THEN "Up" ELSE "Down"
Quicken(c) ==
  IF Direction(c) # c.direction THEN [c EXCEPT !.velocity = 1, !.same_direction = 0]
  ELSE [c EXCEPT !.same_direction = @ + 1,
                 !.velocity = IF c.same_direction + 1 >= SpeedUpThreshold THEN 2 * @ ELSE @]
Turn(c) ==
  IF c.velocity > 1 /\ (IF c.increase THEN c.direction # "Up" ELSE c.direction # "Down")
  THEN [c EXCEPT !.velocity = 1] ELSE c
UpdateVelocity(c) ==
  IF c.slow_start /\ c.increase THEN c
  ELSE IF c.last_cwnd = 0
  THEN [c EXCEPT !.last_cwnd = AtLeast(c.cwnd, MinCwnd), !.velocity = 1, !.same_direction = 0]
  ELSE IF ~c.round_start THEN c
  ELSE [Turn(Quicken(c)) EXCEPT !.direction = Direction(c), !.last_cwnd = c.cwnd]

\* update_cwnd()
Moved(c) ==
  LET step == (c.velocity * c.acked * Mds * 100) \div (c.delta * c.cwnd)
      cwnd == IF c.increase THEN c.cwnd + step ELSE SatSub(c.cwnd, step)
  IN  IF cwnd = 0 THEN [c EXCEPT !.cwnd = MinCwnd, !.velocity = 1] ELSE [c EXCEPT !.cwnd = cwnd]
UpdateCwnd(c) ==
  IF c.slow_start /\ c.increase THEN [c EXCEPT !.cwnd = @ + c.acked]
  ELSE Moved([c EXCEPT !.slow_start = FALSE])

\* end_ack()
EndAck(c, now) ==
  UpdateCwnd(UpdateVelocity(Aim(UpdateMode(Filtered(Windowed(UpdateRound(c)), now)))))

\* on_congestion_event(): a loss is only counted.
OnCongestionEvent(c, lost_bytes, bytes_in_flight) ==
  [c EXCEPT !.lost_total = @ + lost_bytes, !.in_flight = bytes_in_flight]
=============================================================================
