------------------------------ MODULE MCLimits ------------------------------
(* Small instances of what limits a sender: the flow control of its streams   *)
(* (StreamCredit), the number of its streams (StreamIds) and the congestion   *)
(* controllers (Congestion). A behaviour is one of one of them; the others    *)
(* rest in an initial state.                                                  *)
EXTENDS StreamCredit, StreamIds, Congestion, TLC

CONSTANT Parts
VARIABLE part

StreamSymmetry == Permutations(Streams)
MCInitLimit == [t \in PeerTypes |-> 1]
Mode(a, g, b, p) == [algo |-> a, gap |-> g, buffer |-> b, pacing |-> p]
MCModes ==
  {Mode("bbr", 4, 24, TRUE), Mode("bbr", 0, 24, FALSE), Mode("bbr3", 4, 24, FALSE),
   Mode("bbr3", 0, 24, TRUE), Mode("copa", 4, 24, TRUE), Mode("cubic", 4, 12, FALSE),
   Mode("cubic", 4, 99, FALSE), Mode("cubic", 0, 24, TRUE), Mode("dummy", 4, 24, TRUE)}
MCIdle == {60, 400}
MCWaits == {[phase |-> 0, rounds |-> 0, wait |-> 30], [phase |-> 4, rounds |-> 1, wait |-> 60]}

Resting == Mode("dummy", 4, 24, TRUE)
MCInit ==
  /\ part \in Parts
  /\ ccMode \in IF part = "congestion" THEN CcModes ELSE {Resting}
  /\ Init /\ IdsInit /\ CcInit
MCNext ==
  /\ UNCHANGED part
  /\ \/ part = "credit" /\ Next /\ UNCHANGED <<idsVars, ccVars>>
     \/ part = "ids" /\ IdsNext /\ UNCHANGED <<vars, ccVars>>
     \/ part = "congestion" /\ CcNext /\ UNCHANGED <<vars, idsVars>>
MCSpec == MCInit /\ [][MCNext]_<<part, vars, idsVars, ccVars>>
=============================================================================
