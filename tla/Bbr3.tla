--------------------------------- MODULE Bbr3 ---------------------------------
(* Bbr3 (congestion_control/bbr3.rs): a controller is a record, each       *)
(* method an operator from it to the next one, in the order the code calls *)
(* them. The gains are those of the state update_gains() last saw. draw is *)
(* what pick_probe_wait() takes from the random generator.                 *)
EXTENDS Estimators

CONSTANTS Mds, MinCwnd, InitialCwnd, InitialRtt,   \* RecoveryConfig
          FullBwCountThreshold, FullLossCount,     \* FULL_BW_COUNT_THRESHOLD, FULL_LOSS_COUNT
          ExtraAckedFilterLen,                     \* EXTRA_ACKED_FILTER_LEN, in rounds
          MinRttFilterLen, ProbeRttInterval, ProbeRttDuration,   \* in milliseconds
          Infinite                                 \* u64::MAX and Duration::MAX

ProbeBwMaxRounds == 63
LossEventsMax == 15
SendQuantumThreshold == 150000
ProbeBwStates == {"Down", "Cruise", "Refill", "Up"}

PacingGain(b) ==
  CASE b.gains = "Startup" -> <<277, 100>>
    [] b.gains = "Drain" -> <<1, 2>>
    [] b.gains = "Down" -> <<9, 10>>
    [] b.gains = "Up" -> <<5, 4>>
    [] b.gains \in {"Cruise", "Refill", "ProbeRTT"} -> <<1, 1>>
CwndGain(b) ==
  CASE b.gains = "Up" -> <<9, 4>>
    [] b.gains = "ProbeRTT" -> <<1, 2>>
    [] OTHER -> <<2, 1>>
UpdateGains(b) == [b EXCEPT !.gains = b.state]

Gain(g, x) == (g[1] * x) \div g[2]
Beta(x) == (7 * x) \div 10

\* new() and init()
New(now) ==
  [state |-> "Startup", gains |-> "Startup", cwnd |-> InitialCwnd, send_quantum |-> 0,
   pacing_rate |-> (277 * InitialCwnd * Second) \div (100 * InitialRtt),
   conservation |-> FALSE, round_count |-> 0, round_start |-> FALSE, next_round |-> 0,
   idle_restart |-> FALSE, max_bw |-> 0, bw_hi |-> Infinite, bw_lo |-> Infinite, bw |-> 0,
   min_rtt |-> AtLeast(InitialRtt, 1), bdp |-> 0, max_inflight |-> 0,
   inflight_hi |-> Infinite, inflight_lo |-> Infinite, bw_latest |-> 0, inflight_latest |-> 0,
   bw_prev |-> 0, bw_now |-> 0, cycle_stamp |-> now, ack_phase |-> "Init",
   extra_start |-> now, extra_delivered |-> 0, extra_filter |-> MinMaxNew(ExtraAckedFilterLen),
   filled |-> FALSE, full_bw |-> 0, full_bw_count |-> 0, min_rtt_stamp |-> now,
   probe_min |-> Infinite, probe_stamp |-> now, probe_expired |-> FALSE,
   done_stamp |-> Absent, round_done |-> FALSE, est |-> RateNew(now),
   rounds_since_probe |-> 0, probe_wait |-> Infinite, up_cnt |-> 0, up_acks |-> 0,
   up_rounds |-> 0, probe_samples |-> FALSE, loss_round_start |-> FALSE,
   loss_in_round |-> FALSE, prior_cwnd |-> 0, in_recovery |-> FALSE,
   loss_round |-> 0, loss_events |-> 0, epoch |-> now, in_flight |-> 0, lost_total |-> 0,
   acked |-> 0, newly_lost |-> 0, pkt_delivered |-> 0, ack_sent |-> now,
   tx_in_flight |-> 0, lost |-> 0]

Window(b) == AtLeast(b.cwnd, MinCwnd)
InRecovery(b, sent) == Present(b.epoch) /\ sent <= b.epoch
StartRound(b) == [b EXCEPT !.next_round = b.est.delivered]

SaveCwnd(b) ==
  [b EXCEPT !.prior_cwnd = IF ~b.in_recovery /\ b.state # "ProbeRTT" THEN b.cwnd
                           ELSE AtLeast(b.cwnd, @)]
RestoreCwnd(b) == [b EXCEPT !.cwnd = AtLeast(@, b.prior_cwnd)]

\* bdp_multiple(), which also keeps the product; quantization_budget(); inflight()
Bdp(b, bw) == (bw * b.min_rtt) \div Second
BdpMultiple(b, bw, g) == (g[1] * bw * b.min_rtt) \div (g[2] * Second)
Quantized(b, x) ==
  AtLeast(x, AtLeast(3 * b.send_quantum, MinCwnd)) + (IF b.state = "Up" THEN 2 * Mds ELSE 0)
Inflight(b, g) == Quantized(b, BdpMultiple(b, b.max_bw, g))
KeepBdp(b) == [b EXCEPT !.bdp = Bdp(b, b.max_bw)]

\* inflight_with_headroom(), target_inflight(), probe_rtt_cwnd()
InflightWithHeadroom(b) ==
  IF b.inflight_hi = Infinite THEN Infinite
  ELSE AtLeast(SatSub(b.inflight_hi, AtLeast((85 * b.inflight_hi) \div 100, 1)), MinCwnd)
TargetInflight(b) == AtMost(b.bdp, b.cwnd)
ProbeRttCwnd(b) == AtLeast(BdpMultiple(b, b.bw, CwndGain(b)), MinCwnd)
KeepProbeBdp(b) == [b EXCEPT !.bdp = Bdp(b, b.bw)]

\* reset_congestion_signals() and reset_lower_bounds()
ResetSignals(b) == [b EXCEPT !.loss_in_round = FALSE, !.bw_latest = 0, !.inflight_latest = 0]
ResetLowerBounds(b) == [b EXCEPT !.bw_lo = Infinite, !.inflight_lo = Infinite]

\* raise_inflight_hi_slope()
RaiseSlope(b) ==
  [b EXCEPT !.up_cnt = AtLeast(b.cwnd \div 2 ^ b.up_rounds, 1), !.up_rounds = AtMost(@ + 1, 30)]

\* enter_startup(), enter_drain(), start_probe_bw_*() and enter_probe_rtt()
EnterStartup(b) == UpdateGains([b EXCEPT !.state = "Startup"])
EnterDrain(b) == UpdateGains([b EXCEPT !.state = "Drain"])
StartDown(b, now, draw) ==
  StartRound([ResetSignals(b) EXCEPT !.state = "Down", !.up_cnt = Infinite,
                !.rounds_since_probe = draw.rounds, !.probe_wait = draw.wait,
                !.cycle_stamp = now, !.ack_phase = "Stopping"])
StartCruise(b) == [b EXCEPT !.state = "Cruise"]
StartRefill(b) ==
  StartRound([ResetLowerBounds(b) EXCEPT !.state = "Refill", !.up_rounds = 0, !.up_acks = 0,
                                         !.ack_phase = "Refilling"])
StartUp(b, now) ==
  RaiseSlope(StartRound([b EXCEPT !.state = "Up", !.ack_phase = "Starting", !.cycle_stamp = now,
                                  !.full_bw = b.est.rate]))
EnterProbeRtt(b) == UpdateGains([b EXCEPT !.state = "ProbeRTT"])

\* update_latest_delivery_signals() and advance_latest_delivery_signals()
UpdateLatestSignals(b) ==
  LET new == b.est.prior_delivered >= b.loss_round
  IN  [b EXCEPT !.bw_latest = AtLeast(@, b.est.rate),
                !.inflight_latest = AtLeast(@, b.est.sample_delivered),
                !.loss_round = IF new THEN b.est.delivered ELSE @, !.loss_round_start = new]
AdvanceLatestSignals(b) ==
  IF b.loss_round_start
  THEN [b EXCEPT !.bw_latest = b.est.rate, !.inflight_latest = b.est.sample_delivered] ELSE b

\* update_max_bw() with update_round()
UpdateRound(b) ==
  IF b.pkt_delivered >= b.next_round
  THEN [StartRound(b) EXCEPT !.round_count = @ + 1, !.rounds_since_probe = @ + 1,
                             !.round_start = TRUE, !.conservation = FALSE]
  ELSE [b EXCEPT !.round_start = FALSE]
FilterBw(b) ==
  IF b.est.rate >= b.max_bw \/ ~IsAppLimited(b.est)
  THEN [b EXCEPT !.bw_now = AtLeast(b.est.rate, @),
                 !.max_bw = AtLeast(b.bw_prev, AtLeast(b.est.rate, b.bw_now))]
  ELSE b

\* update_congestion_signals() with adapt_lower_bounds_from_congestion()
LossLowerBounds(b) ==
  LET bw_lo == IF b.bw_lo = Infinite THEN b.max_bw ELSE b.bw_lo
      inflight_lo == IF b.inflight_lo = Infinite THEN b.cwnd ELSE b.inflight_lo
  IN  [b EXCEPT !.bw_lo = AtLeast(b.bw_latest, Beta(bw_lo)),
                !.inflight_lo = AtLeast(b.inflight_latest, Beta(inflight_lo))]
AdaptLowerBounds(b) ==
  IF b.state \notin {"Startup", "Refill", "Up"} /\ b.loss_in_round THEN LossLowerBounds(b) ELSE b
EndLossRound(b) ==
  IF b.loss_round_start THEN [AdaptLowerBounds(b) EXCEPT !.loss_in_round = TRUE] ELSE b
UpdateCongestionSignals(b) ==
  EndLossRound([FilterBw(UpdateRound(b)) EXCEPT !.loss_in_round = @ \/ b.lost > 0])

\* update_ack_aggregation()
Aggregated(b, extra_start, extra, expected) ==
  [b EXCEPT !.extra_start = extra_start, !.extra_delivered = extra,
            !.extra_filter = UpdateMax(@, b.round_count, AtMost(SatSub(extra, expected), b.cwnd))]
UpdateAckAggregation(b, now) ==
  LET expected == (b.bw * SatSub(now, b.extra_start)) \div Second
  IN  IF b.extra_delivered <= expected THEN Aggregated(b, now, b.acked, 0)
      ELSE Aggregated(b, b.extra_start, b.extra_delivered + b.acked, expected)

\* check_startup_full_bandwidth()
CheckFullBandwidth(b) ==
  IF b.filled \/ ~b.round_start \/ b.est.sample_app_limited THEN b
  ELSE IF b.max_bw >= Gain(<<5, 4>>, b.full_bw)
  THEN [b EXCEPT !.full_bw = b.max_bw, !.full_bw_count = 0]
  ELSE [b EXCEPT !.full_bw_count = @ + 1,
                 !.filled = b.full_bw_count + 1 >= FullBwCountThreshold]

\* is_inflight_too_high(), check_startup_high_loss()
InflightTooHigh(b) == b.lost > (2 * b.tx_in_flight) \div 100
CountLossEvent(b) ==
  IF b.lost > 0 /\ b.loss_events < LossEventsMax THEN [b EXCEPT !.loss_events = @ + 1] ELSE b
QueueTooHigh(b) ==
  IF /\ b.loss_round_start /\ b.in_recovery
     /\ b.loss_events >= FullLossCount /\ InflightTooHigh(b)
  THEN [KeepBdp(b) EXCEPT !.filled = TRUE,
                          !.inflight_hi = AtLeast(Inflight(b, <<1, 1>>), b.inflight_latest)]
  ELSE b
CheckHighLoss(b) ==
  [QueueTooHigh(CountLossEvent(b)) EXCEPT !.loss_events = IF b.loss_round_start THEN 0 ELSE @]
TryDrain(b) == IF b.state = "Startup" /\ b.filled THEN EnterDrain(b) ELSE b
CheckStartupDone(b) == TryDrain(CheckHighLoss(CheckFullBandwidth(b)))

\* check_drain()
CheckDrain(b, now, draw) ==
  IF b.state # "Drain" THEN b
  ELSE IF b.in_flight <= Inflight(b, <<1, 1>>) THEN StartDown(KeepBdp(b), now, draw)
  ELSE KeepBdp(b)

\* handle_inflight_too_high()
HandleTooHigh(b, now, draw) ==
  LET c == [b EXCEPT !.probe_samples = FALSE,
                     !.inflight_hi = IF IsAppLimited(b.est) THEN @
                                     ELSE AtLeast(Beta(TargetInflight(b)), b.tx_in_flight)]
  IN  IF b.state = "Up" THEN StartDown(c, now, draw) ELSE c

\* adapt_upper_bounds() with probe_inflight_hi_upward() and advance_max_bw_filter()
AdvanceFilter(b) ==
  IF b.state \in ProbeBwStates /\ ~IsAppLimited(b.est) /\ b.bw_now # 0
  THEN [b EXCEPT !.bw_prev = b.bw_now, !.bw_now = 0] ELSE b
AdvanceAckPhase(b) ==
  IF ~b.round_start THEN b
  ELSE IF b.ack_phase = "Starting" THEN [b EXCEPT !.ack_phase = "Feedback"]
  ELSE IF b.ack_phase = "Stopping"
  THEN AdvanceFilter([b EXCEPT !.probe_samples = FALSE, !.ack_phase = "Init"])
  ELSE b
RaiseHi(b) ==
  IF b.up_acks < b.up_cnt THEN b
  ELSE [b EXCEPT !.up_acks = @ % b.up_cnt,
                 !.inflight_hi = AtMost(@ + (b.up_acks \div b.up_cnt) * Mds, Infinite)]
ProbeUpward(b) ==
  LET c == RaiseHi([b EXCEPT !.up_acks = @ + b.acked])
  IN  IF b.state # "Up" \/ b.cwnd < b.inflight_hi THEN b
      ELSE IF b.round_start THEN RaiseSlope(c) ELSE c
RaiseBounds(b) ==
  IF b.inflight_hi = Infinite THEN b
  ELSE ProbeUpward([b EXCEPT !.inflight_hi = AtLeast(@, b.tx_in_flight),
                             !.bw_hi = AtLeast(@, b.est.rate)])
JudgeInflight(b, now, draw) ==
  IF ~InflightTooHigh(b) THEN RaiseBounds(b)
  ELSE IF b.probe_samples THEN HandleTooHigh(b, now, draw) ELSE b
AdaptUpperBounds(b, now, draw) == JudgeInflight(AdvanceAckPhase(b), now, draw)

\* update_probe_bw_cycle_phase()
ElapsedInPhase(b, now, interval) == now > b.cycle_stamp + interval
TimeToProbe(b, now) ==
  \/ ElapsedInPhase(b, now, b.probe_wait)
  \/ b.rounds_since_probe >= AtMost(TargetInflight(b), ProbeBwMaxRounds)
TryCruise(b) ==
  IF b.in_flight > InflightWithHeadroom(b) THEN b
  ELSE IF b.in_flight <= Inflight(b, <<1, 1>>) THEN StartCruise(KeepBdp(b))
  ELSE KeepBdp(b)
Cycle(b, now, draw) ==
  CASE b.state = "Down" -> IF TimeToProbe(b, now) THEN StartRefill(b) ELSE TryCruise(b)
    [] b.state = "Cruise" -> IF TimeToProbe(b, now) THEN StartRefill(b) ELSE b
    [] b.state = "Refill" ->
         IF b.round_start THEN StartUp([b EXCEPT !.probe_samples = TRUE], now) ELSE b
    [] b.state = "Up" ->
         IF ~ElapsedInPhase(b, now, b.min_rtt) THEN b
         ELSE IF b.in_flight > Inflight(b, PacingGain(b)) THEN StartDown(KeepBdp(b), now, draw)
         ELSE KeepBdp(b)
    [] b.state \notin ProbeBwStates -> b
UpdateCyclePhase(b, now, draw) ==
  IF b.filled THEN Cycle(AdaptUpperBounds(b, now, draw), now, draw) ELSE b

\* update_min_rtt()
ExpireProbe(b, now) ==
  [b EXCEPT !.probe_expired = SatSub(now, b.probe_stamp) > ProbeRttInterval]
TakeRtt(b, now) ==
  IF b.est.rtt # 0 /\ (b.est.rtt <= b.probe_min \/ b.probe_expired)
  THEN [b EXCEPT !.probe_min = b.est.rtt, !.probe_stamp = now] ELSE b
TakeMinRtt(b, now) ==
  IF b.probe_min < b.min_rtt \/ SatSub(now, b.min_rtt_stamp) > MinRttFilterLen
  THEN [b EXCEPT !.min_rtt = b.probe_min, !.min_rtt_stamp = b.probe_stamp] ELSE b
UpdateMinRtt(b, now) == TakeMinRtt(TakeRtt(ExpireProbe(b, now), now), now)

\* check_probe_rtt() with handle_probe_rtt() and exit_probe_rtt()
ExitProbeRtt(b, now, draw) ==
  IF b.filled THEN StartCruise(StartDown(ResetLowerBounds(b), now, draw))
  ELSE EnterStartup(ResetLowerBounds(b))
ProbeRttDone(b, now, draw) ==
  IF Present(b.done_stamp) /\ now > b.done_stamp
  THEN ExitProbeRtt(RestoreCwnd([b EXCEPT !.probe_stamp = now]), now, draw) ELSE b
TryProbeRtt(b) ==
  IF b.state # "ProbeRTT" /\ b.probe_expired /\ ~b.idle_restart
  THEN StartRound([SaveCwnd(EnterProbeRtt(b)) EXCEPT !.done_stamp = Absent, !.ack_phase = "Stopping"])
  ELSE b
RoundDone(b, now, draw) == IF b.round_done THEN ProbeRttDone(b, now, draw) ELSE b
HandleProbeRtt(b, now, draw) ==
  IF b.state # "ProbeRTT" THEN b
  ELSE LET c == [b EXCEPT !.est = SetAppLimited(@, TRUE)]
       IN  IF Present(c.done_stamp)
           THEN RoundDone([c EXCEPT !.round_done = @ \/ c.round_start], now, draw)
           ELSE IF c.in_flight <= ProbeRttCwnd(c)
           THEN StartRound([KeepProbeBdp(c) EXCEPT !.done_stamp = now + ProbeRttDuration,
                                                   !.round_done = FALSE])
           ELSE KeepProbeBdp(c)
CheckProbeRtt(b, now, draw) ==
  [HandleProbeRtt(TryProbeRtt(b), now, draw)
     EXCEPT !.idle_restart = @ /\ b.est.delivered = 0]

\* update_model_and_state(); bound_bw_for_model() ends it.
Modelled(b, now) == UpdateAckAggregation(UpdateCongestionSignals(UpdateLatestSignals(b)), now)
Phased(b, now, draw) == UpdateCyclePhase(CheckDrain(CheckStartupDone(b), now, draw), now, draw)
Timed(b, now, draw) == AdvanceLatestSignals(CheckProbeRtt(UpdateMinRtt(b, now), now, draw))
BoundBw(b) == [b EXCEPT !.bw = AtMost(b.max_bw, AtMost(b.bw_lo, b.bw_hi))]
UpdateModelAndState(b, now, draw) ==
  BoundBw(Timed(Phased(Modelled(b, now), now, draw), now, draw))

\* set_pacing_rate_with_gain(), which leaves a margin of one percent
SetPacingRate(b, g) ==
  LET rate == (99 * g[1] * b.bw) \div (100 * g[2])
  IN  [b EXCEPT !.pacing_rate = IF b.filled \/ rate > @ THEN rate ELSE @]
SetSendQuantum(b) ==
  [b EXCEPT !.send_quantum =
     AtLeast(AtMost(b.pacing_rate \div 1000, 65536),
             IF b.pacing_rate < SendQuantumThreshold THEN Mds ELSE 2 * Mds)]

\* set_cwnd() and the bounds it applies
MaxInflight(b) == Quantized(b, BdpMultiple(b, b.max_bw, CwndGain(b)) + Get(b.extra_filter))
ModulateForRecovery(b) ==
  LET cut == IF b.newly_lost > 0 THEN AtLeast(SatSub(b.cwnd, b.newly_lost), MinCwnd) ELSE b.cwnd
  IN  [KeepBdp(b) EXCEPT !.max_inflight = MaxInflight(b),
         !.cwnd = IF b.conservation THEN AtLeast(cut, b.in_flight + b.acked) ELSE cut]
Grown(b) ==
  IF b.filled THEN AtMost(b.max_inflight, b.cwnd + b.acked)
  ELSE IF b.cwnd < b.max_inflight \/ b.est.delivered < InitialCwnd THEN b.cwnd + b.acked
  ELSE b.cwnd
Grow(b) == IF b.conservation THEN b ELSE [b EXCEPT !.cwnd = AtLeast(Grown(b), MinCwnd)]
BoundForProbeRtt(b) ==
  IF b.state = "ProbeRTT" THEN [KeepProbeBdp(b) EXCEPT !.cwnd = AtMost(@, ProbeRttCwnd(b))] ELSE b
ModelCap(b) ==
  IF b.state \in ProbeBwStates \ {"Cruise"} THEN b.inflight_hi
  ELSE IF b.state \in {"ProbeRTT", "Cruise"} THEN InflightWithHeadroom(b)
  ELSE Infinite
BoundForModel(b) ==
  [b EXCEPT !.cwnd = AtMost(@, AtLeast(AtMost(ModelCap(b), b.inflight_lo), MinCwnd))]
SetCwnd(b) == BoundForModel(BoundForProbeRtt(Grow(ModulateForRecovery(b))))
UpdateControlParameters(b) == SetCwnd(SetSendQuantum(SetPacingRate(b, PacingGain(b))))

\* enter_recovery() and exit_recovery()
EnterRecovery(b, now) ==
  StartRound([SaveCwnd(b) EXCEPT !.epoch = now, !.cwnd = b.in_flight + AtLeast(b.acked, Mds),
                                 !.conservation = TRUE, !.in_recovery = TRUE])
TryExitRecovery(b) ==
  IF b.in_recovery /\ ~InRecovery(b, b.ack_sent)
  THEN RestoreCwnd([b EXCEPT !.epoch = Absent, !.conservation = FALSE, !.in_recovery = FALSE])
  ELSE b

\* on_sent() with handle_restart_from_idle(), and the state the packet keeps
RestartFromIdle(b, now, draw) ==
  IF b.in_flight = 0 /\ IsAppLimited(b.est)
  THEN LET c == [b EXCEPT !.idle_restart = TRUE, !.extra_start = now]
       IN  IF c.state \in ProbeBwStates THEN SetPacingRate(c, <<1, 1>>)
           ELSE IF c.state = "ProbeRTT" THEN ProbeRttDone(c, now, draw)
           ELSE c
  ELSE b
OnSent(b, p, draw) ==
  [RestartFromIdle([b EXCEPT !.est = RateOnSent(@, p, b.in_flight)], p.sent, draw)
     EXCEPT !.in_flight = @ + p.size]
SentState(b, p) == Stamped(b.est, p, b.in_flight, b.lost_total)

\* begin_ack(), on_ack(), end_ack()
BeginAck(b, now) ==
  [b EXCEPT !.acked = 0, !.newly_lost = 0, !.pkt_delivered = 0, !.ack_sent = now,
            !.tx_in_flight = 0, !.lost = 0]
OnAck(b, p, now) ==
  [b EXCEPT !.est = UpdateRateSample(@, p, now), !.in_flight = SatSub(@, p.size),
            !.acked = @ + p.size, !.ack_sent = p.sent,
            !.pkt_delivered = AtLeast(@, p.delivered)]
EndAck(b, now, draw) ==
  UpdateControlParameters(UpdateGains(
    UpdateModelAndState(TryExitRecovery([b EXCEPT !.est = GenerateRateSample(@)]), now, draw)))

\* handle_lost_packet() with inflight_hi_from_lost_packet()
InflightFromLost(b, p) ==
  LET inflight_prev == SatSub(p.tx_in_flight, p.size)
      lost_prev == SatSub(b.lost, p.size)
  IN  inflight_prev + AtLeast(0, (2 * inflight_prev - 100 * lost_prev) \div 98)
HandleLostPacket(b, p, now, draw) ==
  LET c == [b EXCEPT !.tx_in_flight = p.tx_in_flight, !.lost = b.lost_total - p.lost,
                     !.est = SetAppLimited(@, p.app_limited)]
  IN  IF ~b.probe_samples /\ b.state # "Startup" THEN b
      ELSE IF ~InflightTooHigh(c) THEN c
      ELSE HandleTooHigh([c EXCEPT !.tx_in_flight = InflightFromLost(c, p)], now, draw)

\* on_congestion_event(); the caller never reports persistent congestion.
TryRecover(b, p, now) ==
  IF ~b.in_recovery /\ ~InRecovery(b, p.sent) THEN EnterRecovery(b, now) ELSE b
OnCongestionEvent(b, p, lost_bytes, now, draw) ==
  TryRecover(HandleLostPacket([b EXCEPT !.in_flight = SatSub(@, lost_bytes),
                                        !.lost_total = @ + lost_bytes,
                                        !.newly_lost = @ + lost_bytes], p, now, draw), p, now)
=============================================================================
