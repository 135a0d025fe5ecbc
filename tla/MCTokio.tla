------------------------------ MODULE MCTokio -------------------------------
(* Small instances of the two builds of the Tokio layer. A behaviour is one   *)
(* of the reactor or one of the mutex adapter; the other build rests in its   *)
(* initial state.                                                             *)
EXTENDS Reactor, Adapter

CONSTANT Builds
VARIABLE build

Kinds == {"est", "data", "fin", "latefin", "reset", "stop", "credit", "dgram", "stream", "close"}
Net(n) == [k \in Kinds |-> IF k \in DOMAIN n THEN n[k] ELSE IF k = "est" THEN 1 ELSE 0]
Mode(drop, close, shut, waiters, n) ==
  [drop |-> drop, close |-> close, shutdown |-> shut, waiters |-> waiters, net |-> Net(n)]

\* A stream read and written to its end, reset and stopped, or ended by a late
\* FIN; datagrams and incoming streams; the connection closed by the peer, by
\* the application; halves dropped; the reactor shut down.
DgramModes == {Mode(FALSE, FALSE, FALSE, Dgrams, [dgram |-> 1])}
MCModes ==
  { Mode(FALSE, FALSE, FALSE, {}, [data |-> 2, fin |-> 1, credit |-> 1]),
    Mode(FALSE, FALSE, FALSE, {}, [data |-> 1, reset |-> 1, credit |-> 1, stop |-> 1]),
    Mode(FALSE, FALSE, FALSE, {}, [data |-> 1, latefin |-> 1, close |-> 1]),
    Mode(FALSE, FALSE, FALSE, {"est"}, [stream |-> 2, close |-> 1]),
    Mode(FALSE, FALSE, FALSE, Dgrams, [dgram |-> 2, close |-> 1]),
    Mode(FALSE, FALSE, FALSE, {"closed"}, [data |-> 1, credit |-> 1, close |-> 1]),
    Mode(FALSE, TRUE, FALSE, {"closed"}, [data |-> 1, credit |-> 1]),
    Mode(TRUE, FALSE, FALSE, {}, [data |-> 1, credit |-> 1]),
    Mode(FALSE, FALSE, TRUE, {"closed"} \cup Dgrams, [dgram |-> 1]) }

AMode(tasks, close, shut, forget, arrive) ==
  [tasks |-> tasks, close |-> close, shutdown |-> shut, forget |-> forget, arrive |-> arrive]
ForgetModes == {AMode({}, FALSE, 0, TRUE, <<"est", "stream">>)}
MCAModes ==
  { AMode({"est"}, FALSE, 0, FALSE, <<"est", "data", "fin", "credit", "credit">>),
    AMode({}, FALSE, 0, FALSE, <<"est", "data", "latefin", "stop">>),
    AMode({}, FALSE, 0, FALSE, <<"est", "data", "credit", "reset">>),
    AMode({"est", "dgram"}, FALSE, 0, FALSE, <<"est", "dgram", "close">>),
    AMode({"closed", "dgram"}, TRUE, 0, FALSE, <<"est", "data">>),
    AMode({"closed"}, FALSE, 0, TRUE, <<"est", "stream", "stream">>),
    AMode({"est"}, FALSE, 1, FALSE, <<"est", "data">>),
    AMode({"closed", "dgram"}, FALSE, 1, FALSE, <<>>) }

One(S) == {CHOOSE m \in S : TRUE}
MCInit ==
  /\ build \in Builds
  /\ mode \in IF build = "reactor" THEN Modes ELSE One(Modes)
  /\ amode \in IF build = "mutex" THEN AModes ELSE One(AModes)
  /\ ReactInit /\ AdInit
MCNext ==
  /\ UNCHANGED build
  /\ \/ build = "reactor" /\ ReactNext /\ UNCHANGED adVars
     \/ build = "mutex" /\ AdNext /\ UNCHANGED reactVars

\* Tokio runs the tasks that were woken: when the loop, the driver or a task can
\* take a step, some step is taken. Every step goes forward (what the network
\* brings is finite), so this stands for the fairness of each of them.
Runtime ==
  \/ build = "reactor" /\ UNCHANGED adVars
       /\ (Loop \/ PollRead \/ PollWrite \/ Established \/ ClosedWait)
  \/ build = "mutex" /\ UNCHANGED reactVars
       /\ (LockStep \/ DriverStep \/ ReaderStep \/ WriterStep \/ EstStep \/ ClosedStep \/ DgramStep)
MCFairness == WF_<<reactVars, adVars>>(Runtime)
MCSpec == MCInit /\ [][MCNext]_<<build, reactVars, adVars>> /\ MCFairness
=============================================================================
