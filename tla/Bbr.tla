--------------------------------- MODULE Bbr ---------------------------------
(* Bbr (congestion_control/bbr.rs): a controller is a record, each method  *)
(* an operator from it to the next one, in the order the code calls them.  *)
(* Gains are fractions, since the code's are floating-point constants.     *)
(* Only the statistics nothing reads back are left out.                    *)
EXTENDS Estimators

CONSTANTS Mds, MinCwnd, InitialCwnd, InitialRtt,   \* RecoveryConfig
          BtlBwFilterLen,                          \* BTLBW_FILTER_LEN, in rounds
          FullBwCountThreshold,                    \* FULL_BW_COUNT_THRESHOLD
          RtpropFilterLen, ProbeRttDuration        \* in milliseconds

HighGain == <<289, 100>>
ProbeBwCwndGain == <<2, 1>>
GainCycle == <<<<5, 4>>, <<3, 4>>, <<1, 1>>, <<1, 1>>, <<1, 1>>, <<1, 1>>, <<1, 1>>, <<1, 1>>>>
GainCycleLen == 8
SendQuantumThreshold == 150000

Gain(g, x) == (g[1] * x) \div g[2]

\* new() and init()
New(now) ==
  [state |-> "Startup", cwnd |-> InitialCwnd, send_quantum |-> 0,
   pacing_rate |-> Gain(HighGain, (InitialCwnd * Second) \div InitialRtt),
   btlbw |-> 0, filter |-> MinMaxNew(BtlBwFilterLen), est |-> RateNew(now),
   rtprop |-> InitialRtt, rtprop_stamp |-> now, rtprop_expired |-> FALSE,
   pacing_gain |-> HighGain, cwnd_gain |-> HighGain,
   round_count |-> 0, round_start |-> FALSE, next_round |-> 0,
   filled |-> FALSE, full_bw |-> 0, full_bw_count |-> 0,
   done_stamp |-> Absent, round_done |-> FALSE, conservation |-> FALSE,
   prior_cwnd |-> 0, idle_restart |-> FALSE, cycle_stamp |-> now, cycle_index |-> 0,
   target_cwnd |-> 0, in_recovery |-> FALSE, epoch |-> Absent,
   in_flight |-> 0, lost_total |-> 0,
   acked |-> 0, newly_lost |-> 0, pkt_delivered |-> 0, ack_sent |-> now, prior_in_flight |-> 0]

Window(b) == AtLeast(b.cwnd, MinCwnd)
InRecovery(b, sent) == Present(b.epoch) /\ sent <= b.epoch

\* inflight(): the pipe, scaled, and three quanta
Inflight(b, g) == (g[1] * b.btlbw * b.rtprop) \div (g[2] * Second) + 3 * b.send_quantum

\* set_pacing_rate_with_gain()
SetPacingRate(b, g) ==
  [b EXCEPT !.pacing_rate = IF b.filled \/ Gain(g, b.btlbw) > @ THEN Gain(g, b.btlbw) ELSE @]

\* save_cwnd() and restore_cwnd()
SaveCwnd(b) ==
  [b EXCEPT !.prior_cwnd = IF ~b.in_recovery /\ b.state # "ProbeRTT" THEN b.cwnd
                           ELSE AtLeast(b.cwnd, @)]
RestoreCwnd(b) == [b EXCEPT !.cwnd = AtLeast(@, b.prior_cwnd)]

UpdateRound(b) ==
  IF b.pkt_delivered >= b.next_round
  THEN [b EXCEPT !.next_round = b.est.delivered, !.round_count = @ + 1,
                 !.round_start = TRUE, !.conservation = FALSE]
  ELSE [b EXCEPT !.round_start = FALSE]

\* update_btlbw()
FilterBw(b) ==
  IF b.est.rate >= b.btlbw \/ ~b.est.sample_app_limited
  THEN [b EXCEPT !.filter = UpdateMax(@, b.round_count, b.est.rate),
                 !.btlbw = Get(UpdateMax(b.filter, b.round_count, b.est.rate))]
  ELSE b
UpdateBtlBw(b) == FilterBw(UpdateRound(b))

\* advance_cycle_phase(), check_cycle_phase() with is_next_cycle_phase()
AdvanceCyclePhase(b, i, now) ==
  [b EXCEPT !.cycle_stamp = now, !.cycle_index = (i + 1) % GainCycleLen,
            !.pacing_gain = GainCycle[((i + 1) % GainCycleLen) + 1]]
IsNextCyclePhase(b, now) ==
  LET full_length == SatSub(now, b.cycle_stamp) > b.rtprop
  IN  IF b.pacing_gain[1] > b.pacing_gain[2]
      THEN full_length /\ \/ b.newly_lost > 0
                          \/ b.prior_in_flight >= Inflight(b, b.pacing_gain)
      ELSE IF b.pacing_gain[1] < b.pacing_gain[2]
      THEN full_length \/ b.prior_in_flight <= Inflight(b, <<1, 1>>)
      ELSE full_length
CheckCyclePhase(b, now) ==
  IF b.state = "ProbeBW" /\ IsNextCyclePhase(b, now)
  THEN AdvanceCyclePhase(b, b.cycle_index, now) ELSE b

\* check_full_pipe(): three rounds without a quarter more bandwidth
CheckFullPipe(b) ==
  IF b.filled \/ ~b.round_start \/ b.est.sample_app_limited THEN b
  ELSE IF b.btlbw >= Gain(<<5, 4>>, b.full_bw)
  THEN [b EXCEPT !.full_bw = b.btlbw, !.full_bw_count = 0]
  ELSE [b EXCEPT !.full_bw_count = @ + 1,
                 !.filled = b.full_bw_count + 1 >= FullBwCountThreshold]

\* enter_startup(), enter_drain(), enter_probe_bw(), enter_probe_rtt(); the
\* first phase of the gain cycle is drawn at random.
EnterStartup(b) == [b EXCEPT !.state = "Startup", !.pacing_gain = HighGain, !.cwnd_gain = HighGain]
EnterDrain(b) ==
  [b EXCEPT !.state = "Drain", !.pacing_gain = <<HighGain[2], HighGain[1]>>, !.cwnd_gain = HighGain]
EnterProbeBw(b, now, draw) ==
  AdvanceCyclePhase([b EXCEPT !.state = "ProbeBW", !.cwnd_gain = ProbeBwCwndGain],
                    GainCycleLen - 1 - draw, now)
EnterProbeRtt(b) ==
  [b EXCEPT !.state = "ProbeRTT", !.pacing_gain = <<1, 1>>, !.cwnd_gain = <<1, 1>>]

\* check_drain()
TryDrain(b) == IF b.state = "Startup" /\ b.filled THEN EnterDrain(b) ELSE b
TryProbeBw(b, now, draw) ==
  IF b.state = "Drain" /\ b.in_flight <= Inflight(b, <<1, 1>>) THEN EnterProbeBw(b, now, draw) ELSE b
CheckDrain(b, now, draw) == TryProbeBw(TryDrain(b), now, draw)

\* update_rtprop()
ExpireRtprop(b, now) ==
  [b EXCEPT !.rtprop_expired = SatSub(now, b.rtprop_stamp) > RtpropFilterLen]
TakeRtt(b, now) ==
  IF b.est.rtt # 0 /\ (b.est.rtt <= b.rtprop \/ b.rtprop_expired)
  THEN [b EXCEPT !.rtprop = b.est.rtt, !.rtprop_stamp = now] ELSE b
UpdateRtprop(b, now) == TakeRtt(ExpireRtprop(b, now), now)

\* check_probe_rtt() with handle_probe_rtt() and exit_probe_rtt()
TryProbeRtt(b) ==
  IF b.state # "ProbeRTT" /\ b.rtprop_expired /\ ~b.idle_restart
  THEN [SaveCwnd(EnterProbeRtt(b)) EXCEPT !.done_stamp = Absent] ELSE b
ExitProbeRtt(b, now, draw) == IF b.filled THEN EnterProbeBw(b, now, draw) ELSE EnterStartup(b)
TryExit(b, now, draw) ==
  IF b.round_done /\ now >= b.done_stamp
  THEN ExitProbeRtt(RestoreCwnd([b EXCEPT !.rtprop_stamp = now]), now, draw) ELSE b
HandleProbeRtt(b, now, draw) ==
  IF Present(b.done_stamp)
  THEN TryExit([b EXCEPT !.round_done = @ \/ b.round_start], now, draw)
  ELSE IF b.in_flight <= MinCwnd
  THEN [b EXCEPT !.done_stamp = now + ProbeRttDuration, !.round_done = FALSE,
                 !.next_round = b.est.delivered]
  ELSE b
MarkLimited(b) == [b EXCEPT !.est = SetAppLimited(@, TRUE)]
Probing(b, now, draw) ==
  IF b.state = "ProbeRTT" THEN HandleProbeRtt(MarkLimited(b), now, draw) ELSE b
CheckProbeRtt(b, now, draw) == [Probing(TryProbeRtt(b), now, draw) EXCEPT !.idle_restart = FALSE]

\* update_model_and_state()
UpdateModelAndState(b, now, draw) ==
  CheckProbeRtt(UpdateRtprop(CheckDrain(CheckFullPipe(CheckCyclePhase(UpdateBtlBw(b), now)),
                                        now, draw), now), now, draw)

\* set_send_quantum()
SetSendQuantum(b) ==
  [b EXCEPT !.send_quantum =
     AtLeast(AtMost(b.pacing_rate \div 1000, 65536),
             IF b.pacing_rate < SendQuantumThreshold THEN Mds ELSE 2 * Mds)]

\* set_cwnd() with modulate_cwnd_for_recovery() and _for_probe_rtt()
ModulateForRecovery(b) ==
  LET cut == IF b.newly_lost > 0 THEN AtLeast(SatSub(b.cwnd, b.newly_lost), MinCwnd) ELSE b.cwnd
  IN  [b EXCEPT !.target_cwnd = Inflight(b, b.cwnd_gain),
                !.cwnd = IF b.conservation THEN AtLeast(cut, b.in_flight + b.acked) ELSE cut]
Grown(b) ==
  IF b.filled THEN AtMost(b.target_cwnd, b.cwnd + b.acked)
  ELSE IF b.cwnd < b.target_cwnd \/ b.est.delivered < InitialCwnd THEN b.cwnd + b.acked
  ELSE b.cwnd
Grow(b) == IF b.conservation THEN b ELSE [b EXCEPT !.cwnd = AtLeast(Grown(b), MinCwnd)]
SetCwnd(b) ==
  LET g == Grow(ModulateForRecovery(b))
  IN  IF b.state = "ProbeRTT" THEN [g EXCEPT !.cwnd = MinCwnd] ELSE g

\* update_control_parameters()
UpdateControlParameters(b) == SetCwnd(SetSendQuantum(SetPacingRate(b, b.pacing_gain)))

\* enter_recovery() and exit_recovery()
EnterRecovery(b, now) ==
  [SaveCwnd(b) EXCEPT !.epoch = now, !.cwnd = b.in_flight + AtLeast(b.acked, Mds),
                      !.conservation = TRUE, !.in_recovery = TRUE, !.next_round = b.est.delivered]
ExitRecovery(b) ==
  RestoreCwnd([b EXCEPT !.epoch = Absent, !.conservation = FALSE, !.in_recovery = FALSE])
TryExitRecovery(b) ==
  IF b.in_recovery /\ ~InRecovery(b, b.ack_sent) THEN ExitRecovery(b) ELSE b

\* on_sent() with handle_restart_from_idle(), and the state the packet keeps
RestartFromIdle(b) ==
  IF b.in_flight = 0 /\ IsAppLimited(b.est)
  THEN [(IF b.state = "ProbeBW" THEN SetPacingRate(b, <<1, 1>>) ELSE b) EXCEPT !.idle_restart = TRUE]
  ELSE b
OnSent(b, p) ==
  [RestartFromIdle([b EXCEPT !.est = RateOnSent(@, p, b.in_flight)])
     EXCEPT !.in_flight = @ + p.size]
SentState(b, p) == Stamped(b.est, p, b.in_flight, b.lost_total)

\* begin_ack(), on_ack(), end_ack()
BeginAck(b, now) ==
  [b EXCEPT !.acked = 0, !.newly_lost = 0, !.pkt_delivered = 0, !.ack_sent = now,
            !.prior_in_flight = b.in_flight]
OnAck(b, p, now) ==
  [b EXCEPT !.est = UpdateRateSample(@, p, now), !.in_flight = SatSub(@, p.size),
            !.acked = @ + p.size, !.ack_sent = p.sent,
            !.pkt_delivered = AtLeast(@, p.delivered)]
EndAck(b, now, draw) ==
  UpdateControlParameters(
    UpdateModelAndState(TryExitRecovery([b EXCEPT !.est = GenerateRateSample(@)]), now, draw))

\* on_congestion_event(); the caller never reports persistent congestion.
OnCongestionEvent(b, p, lost_bytes, now) ==
  LET c == [b EXCEPT !.in_flight = SatSub(@, lost_bytes), !.lost_total = @ + lost_bytes,
                     !.newly_lost = @ + lost_bytes]
  IN  IF ~c.in_recovery /\ ~InRecovery(c, p.sent) THEN EnterRecovery(c, now) ELSE c
=============================================================================
