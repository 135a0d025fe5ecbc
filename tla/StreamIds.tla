------------------------------ MODULE StreamIds ------------------------------
(***************************************************************************)
(* Which streams of a connection may be created, and which are known to    *)
(* have been closed: ConcurrencyControl (connection/stream/concurrency.rs) *)
(* and StreamMap::get_or_create, mark_closed and is_closed                 *)
(* (connection/stream/mod.rs). A stream that was destroyed leaves no       *)
(* record: the map tells it from one still to come by the stream limit and *)
(* by the set of IDs that have not been used.                              *)
(*                                                                         *)
(* A stream ID has its type, the initiator and the direction, in its two   *)
(* low bits. The fields of ConcurrencyControl that come in four variants   *)
(* are functions of the type here. An API call or a frame that get_or_     *)
(* create refuses without a change is not an action.                       *)
(***************************************************************************)
EXTENDS Integers, FiniteSets

CONSTANTS Role,       \* is_server as u64
          Types,      \* the stream types in use
          MaxSeq,     \* bound: sequence numbers of streams
          InitLimit,  \* local_max_streams at the start, per type of the peer's
          NoId        \* Option::None

LocalTypes == {t \in Types : t % 2 = Role}
PeerTypes == Types \ LocalTypes

ASSUME StreamIdsConstants ==
  /\ Role \in {0, 1}
  /\ Types \subseteq 0..3
  /\ MaxSeq \in Nat
  /\ InitLimit \in [PeerTypes -> Nat]
  /\ NoId \notin Nat

\* is_local(), is_bidi(), and the halves of an ID.
TypeOf(id) == id % 4
SeqOf(id) == id \div 4
IsLocal(id) == id % 2 = Role
IsBidi(t) == t < 2
Ids == {id \in 0..(4 * MaxSeq + 3) : TypeOf(id) \in Types}

VARIABLES
  limit,       \* peer_max_streams of local types, local_max_streams of the others
  limit_next,  \* local_max_streams_next
  opened,      \* local_opened_streams, peer_opened_streams
  avail,       \* the avail_ids: sequence numbers within the limit, not used
  streams_blocked_at,  \* streams_blocked_at: STREAMS_BLOCKED is due
  blocked_sent,   \* the limit of the last STREAMS_BLOCKED sent
  next_id,     \* next_stream_id_bidi (TRUE) and next_stream_id_uni (FALSE)
  phase        \* of each ID; "open" and "closed" are the streams in the map

limitVars == <<limit, limit_next, opened, avail>>
blockedVars == <<streams_blocked_at, blocked_sent>>
idsVars == <<limitVars, blockedVars, next_id, phase>>

IdLarger(a, b) == IF a > b THEN a ELSE b

IdInMap(id) == phase[id] \in {"open", "closed"}

\* ConcurrencyControl::is_available() and is_limited()
IsAvailable(id) == SeqOf(id) \in avail[TypeOf(id)]
IsLimited(id) == SeqOf(id) + 1 > limit[TypeOf(id)]

\* StreamMap::is_closed()
IsClosed(id) ==
  IF IdInMap(id) THEN phase[id] = "closed" ELSE ~IsAvailable(id) /\ ~IsLimited(id)

\* StreamMap::new(); the peer's limits are 0 until its parameters are known.
IdsInit ==
  /\ limit = [t \in Types |-> IF t \in PeerTypes THEN InitLimit[t] ELSE 0]
  /\ limit_next = InitLimit
  /\ opened = [t \in Types |-> 0]
  /\ avail = [t \in Types |-> IF t \in PeerTypes THEN 0..(InitLimit[t] - 1) ELSE {}]
  /\ streams_blocked_at = [t \in LocalTypes |-> NoId]
  /\ blocked_sent = [t \in LocalTypes |-> NoId]
  /\ next_id = [bidi \in BOOLEAN |-> IF bidi THEN Role ELSE 2 + Role]
  /\ phase = [id \in Ids |-> "idle"]

-----------------------------------------------------------------------------
\* check_concurrency_limits()
Count(id) == IdLarger(opened[TypeOf(id)], SeqOf(id) + 1)

\* get_or_create() of an ID that is neither in the map nor known as closed.
Missing(id) == ~IdInMap(id) /\ ~IsClosed(id)

\* The stream is created, and the next ID of the direction moved past it,
\* whichever side opened it.
Created(id) ==
  LET t == TypeOf(id)
  IN /\ opened' = [opened EXCEPT ![t] = Count(id)]
     /\ avail' = [avail EXCEPT ![t] = @ \ {SeqOf(id)}]
     /\ next_id' = [next_id EXCEPT ![IsBidi(t)] = IdLarger(@, id) + 4]
     /\ phase' = [phase EXCEPT ![id] = "open"]
     /\ UNCHANGED <<limit, limit_next, blockedVars>>

\* stream_write, stream_set_priority or stream_set_context with an ID of the
\* application's choice. At the peer's limit STREAMS_BLOCKED becomes due.
LocalOpen(id) ==
  /\ IsLocal(id) /\ Missing(id)
  /\ Count(id) <= limit[TypeOf(id)]
  /\ Created(id)

LocalLimited(id) ==
  /\ IsLocal(id) /\ Missing(id)
  /\ Count(id) > limit[TypeOf(id)]
  /\ streams_blocked_at' = [streams_blocked_at EXCEPT ![TypeOf(id)] = limit[TypeOf(id)]]
  /\ UNCHANGED <<limitVars, blocked_sent, next_id, phase>>

\* stream_bidi_new and stream_uni_new. An ID of the peer's is refused with
\* StreamStateError and stays the next one.
StreamNew(bidi) ==
  /\ next_id[bidi] \in Ids
  /\ LocalOpen(next_id[bidi]) \/ LocalLimited(next_id[bidi])

\* A frame of the peer for a stream of its own that is not in the map. Beyond the
\* limit the connection is closed.
PeerOpen(id) ==
  /\ ~IsLocal(id) /\ Missing(id)
  /\ Count(id) <= limit[TypeOf(id)]
  /\ Created(id)

-----------------------------------------------------------------------------
\* Faulty variant of MarkClosed: a repeated call gives the credit back again.
MarkClosedAgain(id) ==
  /\ IdInMap(id)
  /\ limit_next' = IF IsLocal(id) THEN limit_next
                   ELSE [limit_next EXCEPT ![TypeOf(id)] = @ + 1]
  /\ \A t \in PeerTypes : limit_next'[t] <= MaxSeq + 1
  /\ phase' = [phase EXCEPT ![id] = "closed"]
  /\ UNCHANGED <<limit, opened, avail, blockedVars, next_id>>

\* Faulty variant of MarkClosed: a stream that is no longer readable is taken
\* as closed without its credit.
MarkClosedNoCredit(id) ==
  /\ IdInMap(id) /\ ~IsClosed(id)
  /\ phase' = [phase EXCEPT ![id] = "closed"]
  /\ UNCHANGED <<limitVars, blockedVars, next_id>>

\* mark_closed(), called whenever a handler finds both sides complete; once the
\* stream is closed it does nothing.
MarkClosed(id) ==
  /\ IdInMap(id) /\ ~IsClosed(id)
  /\ limit_next' = IF IsLocal(id) THEN limit_next
                   ELSE [limit_next EXCEPT ![TypeOf(id)] = @ + 1]
  /\ phase' = [phase EXCEPT ![id] = "closed"]
  /\ UNCHANGED <<limit, opened, avail, blockedVars, next_id>>

\* stream_destroy(), by the endpoint on the StreamClosed event.
StreamDestroy(id) ==
  /\ phase[id] = "closed"
  /\ phase' = [phase EXCEPT ![id] = "gone"]
  /\ UNCHANGED <<limitVars, blockedVars, next_id>>

\* The credit given back exceeds what is left.
ShouldUpdateLocalMaxStreams(t) ==
  /\ limit_next[t] # limit[t]
  /\ limit_next[t] - limit[t] > limit[t] - opened[t]

\* MAX_STREAMS is sent, and the new limit applied (update_local_max_streams).
SendMaxStreams(t) ==
  /\ ShouldUpdateLocalMaxStreams(t)
  /\ limit' = [limit EXCEPT ![t] = limit_next[t]]
  /\ avail' = [avail EXCEPT ![t] = @ \cup limit[t]..(limit_next[t] - 1)]
  /\ UNCHANGED <<limit_next, opened, blockedVars, next_id, phase>>

\* The peer's transport parameters or a MAX_STREAMS frame (update_peer_max_streams).
MaxStreamsReceived(t, max) ==
  /\ limit' = [limit EXCEPT ![t] = IdLarger(@, max)]
  /\ avail' = [avail EXCEPT ![t] = @ \cup limit[t]..(max - 1)]
  /\ streams_blocked_at' = [streams_blocked_at EXCEPT ![t] =
                      IF @ # NoId /\ @ >= limit'[t] THEN @ ELSE NoId]
  /\ UNCHANGED <<limit_next, opened, blocked_sent, next_id, phase>>

\* STREAMS_BLOCKED is written to a packet.
SendStreamsBlocked(t) ==
  /\ streams_blocked_at[t] # NoId
  /\ blocked_sent' = [blocked_sent EXCEPT ![t] = streams_blocked_at[t]]
  /\ streams_blocked_at' = [streams_blocked_at EXCEPT ![t] = NoId]
  /\ UNCHANGED <<limitVars, next_id, phase>>

\* on_streams_blocked_frame_lost(). The loss of an earlier frame, which blocked_sent
\* a smaller limit, does nothing.
StreamsBlockedLost(t) ==
  /\ blocked_sent[t] # NoId
  /\ streams_blocked_at' = [streams_blocked_at EXCEPT ![t] = IF blocked_sent[t] = limit[t] THEN limit[t] ELSE @]
  /\ blocked_sent' = [blocked_sent EXCEPT ![t] = NoId]
  /\ UNCHANGED <<limitVars, next_id, phase>>

IdsNext ==
  \/ \E id \in Ids :
        \/ LocalOpen(id) \/ LocalLimited(id) \/ PeerOpen(id)
        \/ MarkClosed(id) \/ StreamDestroy(id)
  \/ \E bidi \in BOOLEAN : StreamNew(bidi)
  \/ \E t \in PeerTypes : SendMaxStreams(t)
  \/ \E t \in LocalTypes :
        \/ \E max \in 0..(MaxSeq + 1) : MaxStreamsReceived(t, max)
        \/ SendStreamsBlocked(t) \/ StreamsBlockedLost(t)

IdsSpec == IdsInit /\ [][IdsNext]_idsVars

-----------------------------------------------------------------------------
(* Properties.                                                             *)

IdsTypeOK ==
  /\ limit \in [Types -> Nat] /\ limit_next \in [PeerTypes -> Nat]
  /\ opened \in [Types -> Nat] /\ avail \in [Types -> SUBSET Nat]
  /\ streams_blocked_at \in [LocalTypes -> Nat \cup {NoId}]
  /\ blocked_sent \in [LocalTypes -> Nat \cup {NoId}]
  /\ next_id \in [BOOLEAN -> Nat]
  /\ phase \in [Ids -> {"idle", "open", "closed", "gone"}]

\* The map knows the streams that were closed, also those it has no record of any
\* more: is_closed() is true of exactly these, so that a late frame of a closed
\* stream is ignored and the first frame of a new one is not.
ClosedIsKnown == \A id \in Ids : IsClosed(id) <=> phase[id] \in {"closed", "gone"}

\* get_or_create() never makes a destroyed stream anew, whatever limits and frames
\* arrive after it.
NeverReopened == [][\A id \in Ids : phase[id] = "gone" => phase'[id] = "gone"]_idsVars

StreamsOf(t, phases) == {id \in Ids : TypeOf(id) = t /\ phase[id] \in phases}

\* Every stream of the peer's that was closed gave back one credit, and nothing
\* else did (mark_closed and its several callers).
CreditOnce ==
  \A t \in PeerTypes :
    limit_next[t] = InitLimit[t] + Cardinality(StreamsOf(t, {"closed", "gone"}))

\* However streams come and go, the peer never has more of them open than the
\* configured number (check_concurrency_limits, increase_max_streams_credits,
\* update_local_max_streams).
PeerConcurrencyBounded ==
  \A t \in PeerTypes : Cardinality(StreamsOf(t, {"open"})) <= InitLimit[t]

\* stream_bidi_new and stream_uni_new never hand out a stream that exists or has
\* existed, although the application may also open streams by ID.
NewStreamIsFresh ==
  \A bidi \in BOOLEAN : next_id[bidi] \in Ids => phase[next_id[bidi]] = "idle"

\* STREAMS_BLOCKED is only due for the limit that blocks now.
StreamsBlockedAtLimit ==
  \A t \in LocalTypes : streams_blocked_at[t] # NoId => streams_blocked_at[t] = limit[t]
===============================================================================
