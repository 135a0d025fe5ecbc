---------------------------- MODULE MCConnection ----------------------------
(* Small instances of a connection's life and of its loss recovery. A         *)
(* behaviour is one of two connected endpoints (ConnState) or one of the      *)
(* recovery of one endpoint (Recovery); the other part rests: the connections *)
(* closed, the recovery before its first packet.                              *)
EXTENDS ConnState, Recovery

CONSTANT Parts
VARIABLE part

CnPlain ==
  [early |-> FALSE, answer |-> "none", loss |-> 0, dup |-> 0, pto |-> 0, closers |-> {}, writers |-> {},
   dgrams |-> 0, fits |-> {1, 3}, rooms |-> {TRUE}, hs |-> TRUE, idle |-> TRUE, age |-> FALSE,
   reject |-> {}, dgfit |-> 2, reset |-> FALSE, turn |-> "server"]
CnAgeModes == {[CnPlain EXCEPT !.age = TRUE, !.writers = {"client"}, !.fits = {3}]}
MCCnModes ==
  { [CnPlain EXCEPT !.loss = 1, !.pto = 1, !.fits = {3}],
    [CnPlain EXCEPT !.loss = 3, !.fits = {3}],
    [CnPlain EXCEPT !.early = TRUE, !.writers = {"client"}, !.loss = 1],
    [CnPlain EXCEPT !.closers = Sides, !.loss = 1],
    [CnPlain EXCEPT !.answer = "R", !.dup = 1, !.loss = 1, !.fits = {3}],
    [CnPlain EXCEPT !.answer = "V", !.dup = 1, !.loss = 1, !.fits = {3}],
    [CnPlain EXCEPT !.dgrams = 2, !.dgfit = 1, !.fits = {3}],
    [CnPlain EXCEPT !.dgrams = 1, !.dgfit = 0, !.fits = {3}],
    [CnPlain EXCEPT !.dgrams = 1, !.dup = 1, !.fits = {3}],
    [CnPlain EXCEPT !.reject = [t : {"I", "H", "D"}, n : {0, 1, 4}], !.reset = TRUE, !.fits = {3}],
    [CnPlain EXCEPT !.rooms = {FALSE, TRUE}, !.writers = {"server"}, !.loss = 1, !.fits = {3}] }
             \cup CnAgeModes

MCDataFrames == [i \in SpaceIds |-> IF i = "Data" THEN {1, 2} ELSE {1}]
MCMaxPkts == [fresh |-> 3, rough |-> 4, calm |-> 9]
MCMaxNow == [fresh |-> 2, rough |-> 2, calm |-> 24]

Closed(e) == [NewCn(e) EXCEPT !.flags = {"closed"}]
MCInit ==
  /\ part \in Parts
  /\ IF part = "conn"
     THEN CnInit
     ELSE /\ cmode = CnPlain /\ cn = [e \in Sides |-> Closed(e)]
          /\ cnet = {}
  /\ mode \in IF part = "recovery" THEN {"fresh", "calm", "rough"} ELSE {"rough"}
  /\ RecInit
MCNext ==
  /\ UNCHANGED part
  /\ \/ part = "conn" /\ CnNext /\ UNCHANGED <<recVars, mode>>
     \/ part = "recovery" /\ RecNext /\ UNCHANGED cnVars
MCVars == <<part, cnVars, recVars, mode>>

\* The fairness of the part that runs: a step is taken while one is due
MCReady == IF part = "conn" THEN CnReady ELSE Ready
MCSpec == MCInit /\ [][MCNext]_MCVars /\ ([]<>~MCReady \/ []<><<TRUE>>_MCVars)
=============================================================================
