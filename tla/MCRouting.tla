----------------------------- MODULE MCRouting ------------------------------
(* Small instances of the connection ids and paths of one connection          *)
(* (PathCids) and of the endpoint that routes datagrams to its connections    *)
(* (Endpoint). A behaviour is one of either; the other rests in its initial   *)
(* state.                                                                     *)
EXTENDS PathCids, Endpoint

CONSTANT Parts
VARIABLE part

MCScenarios ==
  [server : BOOLEAN, multi : BOOLEAN, scid : {2}, dcid : {0}, recv : {0}, late : {0}, again : {FALSE}]
    \cup [server : {FALSE}, multi : {TRUE}, scid : {0}, dcid : {2}, recv : {0}, late : {0}, again : {FALSE}]
    \cup [server : BOOLEAN, multi : {TRUE}, scid : {0}, dcid : {1}, recv : {1}, late : {1}, again : {FALSE}]
    \cup [server : BOOLEAN, multi : {FALSE}, scid : {0}, dcid : {1}, recv : {0}, late : {0}, again : {FALSE}]
    \cup [server : {FALSE}, multi : {FALSE}, scid : {0}, dcid : {1}, recv : {0}, late : {0}, again : {TRUE}]
Mode(server, zero, retry, conns, recv, faults) ==
  [server |-> server, zero |-> zero, retry |-> retry, conns |-> conns, recv |-> recv,
   max |-> IF retry THEN 1 ELSE 2, faults |-> faults]
MCModes == {Mode(FALSE, FALSE, FALSE, 2, 1, {}), Mode(FALSE, FALSE, FALSE, 1, 3, {}),
            Mode(TRUE, FALSE, FALSE, 2, 2, {}), Mode(TRUE, FALSE, TRUE, 1, 3, {}),
            Mode(TRUE, TRUE, FALSE, 1, 2, {}), Mode(FALSE, FALSE, FALSE, 1, 1, {"session"}),
            Mode(TRUE, FALSE, FALSE, 1, 2, {"corrupt", "reprocess"}),
            Mode(TRUE, FALSE, FALSE, 1, 2, {"senderr"}), Mode(FALSE, FALSE, FALSE, 2, 0, {"senderr"}),
            Mode(FALSE, FALSE, FALSE, 1, 2, {"rotate"}), Mode(FALSE, FALSE, FALSE, 1, 3, {"noreset"})}

One(S) == {CHOOSE m \in S : TRUE}
MCInit ==
  /\ part \in Parts
  /\ role \in IF part = "paths" THEN Scenarios ELSE One({s \in Scenarios : ~s.server})
  /\ mode \in IF part = "endpoint" THEN Modes ELSE One(Modes)
  /\ PathInit /\ EpInit
MCNext ==
  /\ UNCHANGED part
  /\ \/ part = "paths" /\ PathNext /\ UNCHANGED epVars
     \/ part = "endpoint" /\ EpNext /\ UNCHANGED pathVars
MCSpec == MCInit /\ [][MCNext]_<<part, pathVars, epVars>>
=============================================================================
