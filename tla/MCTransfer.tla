----------------------------- MODULE MCTransfer -----------------------------
(* Small instances of a transfer between two endpoints. One has room for      *)
(* every retransmission and fair steps, for what must happen. Two have tight  *)
(* limits, for what is always true: in one the sender sends more, in the      *)
(* other both sides may abandon the stream.                                   *)
EXTENDS StreamTransfer

CONSTANTS Parts, SafeMaxFrames, SafeMaxCtl, ResetMaxFrames, ResetMaxCtl,
  SafeMaxQueued, SafeWindow, SafeMaxWindow, SafeConn, SafeMaxConn
VARIABLE part

S == INSTANCE StreamTransfer WITH
  MaxFrames <- SafeMaxFrames, MaxCtl <- SafeMaxCtl, MaxQueued <- SafeMaxQueued,
  InitMaxData <- SafeWindow, Window <- SafeWindow, MaxWindow <- SafeMaxWindow,
  ConnWindow <- SafeConn, MaxConnWindow <- SafeMaxConn, MaxConn <- SafeMaxConn,
  MayStop <- TRUE
R == INSTANCE StreamTransfer WITH
  MaxFrames <- ResetMaxFrames, MaxCtl <- ResetMaxCtl, MaxQueued <- SafeMaxQueued,
  InitMaxData <- SafeWindow, Window <- SafeWindow, MaxWindow <- SafeMaxWindow,
  ConnWindow <- SafeConn, MaxConnWindow <- SafeMaxConn, MaxConn <- SafeMaxConn,
  MayReset <- TRUE, MayStop <- TRUE

MCInit ==
  /\ part \in Parts
  /\ IF part = "live" THEN TrInit ELSE S!TrInit
MCNext ==
  /\ UNCHANGED part
  /\ \/ part = "live" /\ TrNext
     \/ part = "safe" /\ S!TrNext
     \/ part = "reset" /\ R!TrNext

\* Fairness of StreamTransfer, for the instance that needs it.
MCFairness ==
  /\ WF_trVars(part = "live" /\ Transmit)
  /\ WF_trVars(part = "live" /\ Skip)
  /\ WF_trVars(part = "live" /\ SenderDestroy)
  /\ WF_trVars(part = "live" /\ \E f \in flight : Acked(f))
  /\ WF_trVars(part = "live" /\ \E f \in flight : f \notin wire /\ f.pn \notin got /\ Lost(f))
  /\ WF_trVars(part = "live" /\ \E f \in wire : Deliver(f))
  /\ WF_trVars(part = "live" /\ AppRead)
  /\ WF_trVars(part = "live" /\ ReceiverDestroy)
  /\ WF_trVars(part = "live" /\ TransmitCtl)
  /\ WF_trVars(part = "live" /\ \E c \in ctl_wire : DeliverCtl(c))
MCSpec == MCInit /\ [][MCNext]_<<part, trVars>> /\ MCFairness

\* Everything written is read, however its retransmission is split (AllBytesRead).
DataArrives == part = "live" => AllBytesRead

\* A writer that has used up the stream's credit gets more (WriterGetsCredit).
CreditArrives == part = "live" => WriterGetsCredit
=============================================================================
