------------------------------ MODULE PathCids ------------------------------
(***************************************************************************)
(* The connection IDs and the network paths of an established connection:  *)
(* ConnectionIdMgr (connection/cid.rs), Path and PathMap (path.rs), the    *)
(* frames that carry them in send.rs and recv.rs, and add_path(),          *)
(* migrate_path() and abandon_path() of query.rs. The peer keeps to the    *)
(* protocol. Its NEW_CONNECTION_ID frames arrive in any order; the frames  *)
(* sent here are lost or delivered. With role.again, a frame that arrived  *)
(* may be sent again by either side, as after a spurious loss.             *)
(*                                                                         *)
(* An address pair stands for a FourTuple, a sequence number for a         *)
(* connection ID. Timeouts of challenges come at any time.                 *)
(***************************************************************************)
EXTENDS Util, SequencesExt

CONSTANTS Addrs,          \* the address pairs, the first path's among them
          FirstAddr,
          MaxPaths,       \* max_paths
          DcidLimit,      \* dcid_limit, our active_connection_id_limit
          ScidLimit,      \* scid_limit, the peer's
          MaxProbing,     \* MAX_PROBING_TIMEOUTS
          AmplFactor,     \* anti_ampl_factor, packets a packet entitles to
          Scenarios,      \* what to start with: is_server, is_multipath, and the
                          \* bounds of the behaviour: sequence numbers of source
                          \* and destination CIDs, challenges received and not
                          \* answered, challenges in flight when one is added; and
                          \* whether frames that arrived may be taken for lost
          MaxAmpl         \* bound: anti_ampl_limit, in packets

VARIABLES
  cids,     \* ConnectionIdMgr
  paths,    \* PathMap: path id -> Path, or NoPath
  role,     \* [server, multi, scid, dcid, recv, late, again], a member of Scenarios
  sentCid,  \* sequence numbers in NEW_CONNECTION_ID frames not yet acknowledged
  sentRet,  \* sequence numbers in RETIRE_CONNECTION_ID frames not yet acknowledged
  peer,     \* [next, rpt, pending]: CIDs issued, their Retire Prior To, and the
            \* NEW_CONNECTION_ID frames that may still arrive
  told,     \* source CIDs the peer has been told of
  fault     \* the error that ended the connection, or "none"

pathVars == <<cids, paths, role, sentCid, sentRet, peer, told, fault>>

NoPath == [addr |-> "none"]
Pids == 0..(MaxPaths - 1)
LivePaths == {p \in Pids : paths[p] # NoPath}

\* PathState, in its order
Failed == 0
Unknown == 1
Validating == 2
ValidatingMTU == 3
Validated == 4

Small == 1   \* a datagram below MIN_CLIENT_INITIAL_LEN
Full == 2    \* a datagram that validates the MTU

-----------------------------------------------------------------------------
\* ConnectionIdDeque: items in the order of their insertion.
Item(seq, pid) == [seq |-> seq, pid |-> pid]
Seqs(q) == {q[k].seq : k \in DOMAIN q}
MarkUsed(q, seq, pid) == [k \in DOMAIN q |-> IF q[k].seq = seq THEN Item(seq, pid) ELSE q[k]]
UnusedDcids(c) == {c.dcids[k].seq : k \in {j \in DOMAIN c.dcids : c.dcids[j].pid = Absent}}
LowestUnused(c) == IF UnusedDcids(c) = {} THEN Absent ELSE Min(UnusedDcids(c))
ActiveScids(c) == {s \in Seqs(c.scids) : s >= c.rpt}

\* Mutant: the paths whose CID goes are not reported.
MAddDcid(c, seq, rpt) ==
  LET lower == SelectSeq(c.dcids, LAMBDA d : d.seq < rpt)
      kept == SelectSeq(c.dcids, LAMBDA d : d.seq >= rpt)
      queued == c.ret \o [k \in DOMAIN lower |-> lower[k].seq]
      swept == IF rpt > c.lrpt THEN [c EXCEPT !.dcids = kept, !.ret = queued, !.lrpt = rpt] ELSE c
  IN  [err |-> "none", retired |-> <<>>,
       cids |-> IF seq \in Seqs(c.dcids) THEN c
                ELSE [swept EXCEPT !.dcids = Append(@, Item(seq, Absent))]]

\* add_dcid(): [err, cids, retired]; retired lists the paths that lose their CID.
AddDcid(c, seq, rpt) ==
  LET lower == SelectSeq(c.dcids, LAMBDA d : d.seq < rpt)
      kept == SelectSeq(c.dcids, LAMBDA d : d.seq >= rpt)
      raised == rpt > c.lrpt
      queued == c.ret \o [k \in DOMAIN lower |-> lower[k].seq]
      tooMany(q) == Len(q) > DcidLimit * 4
      swept == IF raised THEN [c EXCEPT !.dcids = kept, !.ret = queued, !.lrpt = rpt] ELSE c
      affected == IF raised THEN SelectSeq(lower, LAMBDA d : d.pid # Absent) ELSE <<>>
  IN  CASE seq \in Seqs(c.dcids) -> [err |-> "none", cids |-> c, retired |-> <<>>]
        [] seq \notin Seqs(c.dcids) /\ seq < c.lrpt /\ seq \notin Ran(c.ret) ->
             [err |-> IF tooMany(Append(c.ret, seq)) THEN "retire" ELSE "none",
              cids |-> [c EXCEPT !.ret = Append(@, seq)], retired |-> <<>>]
        [] OTHER ->
             [err |-> IF raised /\ tooMany(queued) THEN "retire"
                      ELSE IF Len(swept.dcids) = 2 * DcidLimit - 1 THEN "limit" ELSE "none",
              cids |-> [swept EXCEPT !.dcids = Append(@, Item(seq, Absent))],
              retired |-> affected]

\* The NewConnectionId arm of recv_frame(): an affected path takes an unused CID
\* or waits for one.
Reassign(c, ps, retired) ==
  LET step(st, d) ==
        LET new == LowestUnused(st.cids)
        IN  IF st.paths[d.pid].dcid # d.seq THEN st
            ELSE [cids |-> [st.cids EXCEPT !.dcids = MarkUsed(@, new, d.pid)],
                  paths |-> [st.paths EXCEPT ![d.pid].dcid = new]]
  IN  FoldLeft(step, [cids |-> c, paths |-> ps], retired)

\* Mutant: the CID given to a path is not marked as used.
MAllocate(st) ==
  LET step(acc, p) ==
        IF acc.paths[p] = NoPath \/ acc.paths[p].dcid # Absent \/ ~Present(LowestUnused(acc.cids))
        THEN acc ELSE [acc EXCEPT !.paths[p].dcid = LowestUnused(acc.cids)]
  IN  FoldLeft(step, st, [k \in 1..MaxPaths |-> k - 1])

\* try_allocate_cids_from_peer(), at the end of recv_packet()
Allocate(st) ==
  LET step(acc, p) ==
        LET new == LowestUnused(acc.cids)
        IN  IF acc.paths[p] = NoPath \/ acc.paths[p].dcid # Absent \/ ~Present(new) THEN acc
            ELSE [cids |-> [acc.cids EXCEPT !.dcids = MarkUsed(@, new, p)],
                  paths |-> [acc.paths EXCEPT ![p].dcid = new]]
  IN  FoldLeft(step, st, [k \in 1..MaxPaths |-> k - 1])

-----------------------------------------------------------------------------
\* Path::new()
NewPath(addr, initial) ==
  [addr |-> addr, scid |-> IF initial THEN 0 ELSE Absent, dcid |-> IF initial THEN 0 ELSE Absent,
   active |-> initial, state |-> IF initial THEN Validated ELSE Unknown,
   chal |-> FALSE, chals |-> <<>>, recv |-> 0, lost |-> 0, max |-> 0,
   verified |-> initial, ampl |-> 0, abandon |-> FALSE]

Promote(p, state) == [p EXCEPT !.state = AtLeast(@, state)]
Active(p) == p.active /\ p.dcid # Absent
ActivePids == {p \in LivePaths : paths[p].active}

\* insert_path(): at the limit an abandoned path makes room, else an unused or
\* failed one; its slot is the one that is taken.
Unused(p) == ~p.active /\ p.dcid = Absent
Slots ==
  LET free == Pids \ LivePaths
      given == {p \in LivePaths : paths[p].abandon}
      idle == {p \in LivePaths : Unused(paths[p]) \/ paths[p].state = Failed}
  IN  IF free # {} THEN {Min(free)}
      ELSE IF given # {} THEN {Min(given)}
      ELSE IF idle # {} THEN {Min(idle)} ELSE {}

PathAt(addr) == {p \in LivePaths : paths[p].addr = addr}

\* need_send_validation_frames()
NeedValidation(p) == (role.server => p.ampl >= Small) /\ (p.chal \/ p.recv > 0)

PathInit ==
  /\ cids = [scids |-> <<Item(0, 0)>>, dcids |-> <<Item(0, 0)>>, next |-> 1, rpt |-> 0,
             adv |-> <<>>, lrpt |-> 0, ret |-> <<>>]
  /\ role \in Scenarios
  /\ \E left \in IF role.server THEN {0, MaxAmpl} ELSE {0} :
       paths = [p \in Pids |-> IF p = 0 THEN [NewPath(FirstAddr, TRUE) EXCEPT !.ampl = left]
                               ELSE NoPath]
  /\ sentCid = {} /\ sentRet = {}
  /\ peer = [next |-> 1, rpt |-> [s \in 0..role.dcid |-> 0], pending |-> {}]
  /\ told = {0}
  /\ fault = "none"

Open == fault = "none"

-----------------------------------------------------------------------------

\* Connection::add_scid(), from the ScidToAdvertise event.  At the limit of the
\* peer the oldest id is to be retired first; when the queue itself is full the
\* call fails, and retire_prior_to stays raised.
AddScid ==
  \E retire_if_needed \in BOOLEAN :
    LET full == Len(cids.scids) >= ScidLimit
        noRoom == Len(cids.scids) = 2 * ScidLimit - 1
        raised == [cids EXCEPT !.rpt = IF full THEN Min(ActiveScids(cids)) + 1 ELSE @]
    IN  /\ Open /\ (cids.next <= role.scid \/ noRoom)
        /\ full => retire_if_needed /\ ActiveScids(cids) # {}
        /\ cids' = IF noRoom THEN raised
                   ELSE [raised EXCEPT !.next = @ + 1, !.adv = Append(@, cids.next),
                                       !.scids = Append(@, Item(cids.next, Absent))]
        /\ UNCHANGED <<paths, role, sentCid, sentRet, peer, told, fault>>

\* The end of recv_packet(), for a packet that changed st = [cids, paths].
Received(st) ==
  LET done == Allocate(st)
  IN  cids' = done.cids /\ paths' = done.paths

\* A NEW_CONNECTION_ID frame
RecvNewCid ==
  \E seq \in peer.pending :
    LET r == AddDcid(cids, seq, peer.rpt[seq])
    IN  /\ Open
        /\ IF r.err = "none" THEN Received(Reassign(r.cids, paths, r.retired))
           ELSE UNCHANGED <<cids, paths>>
        /\ fault' = r.err
        /\ \/ peer' = [peer EXCEPT !.pending = @ \ {seq}]
           \/ role.again /\ peer' = peer
        /\ UNCHANGED <<role, sentCid, sentRet, told>>

\* A RETIRE_CONNECTION_ID frame for a CID the peer knows, in a packet sent to
\* another one that is not itself to be retired.
RecvRetireCid ==
  \E seq \in told :
    LET k == CHOOSE j \in DOMAIN cids.scids : cids.scids[j].seq = seq
        left == SelectSeq(cids.scids, LAMBDA i : i.seq # seq)
        live == {s \in Seqs(left) : s >= cids.rpt}
        pid == cids.scids[k].pid
    IN  /\ Open
        /\ seq \in Seqs(cids.scids)
        /\ (told \cap ActiveScids(cids)) \ {seq} # {}
        /\ Received([cids |-> [cids EXCEPT !.scids = left,
                                           !.rpt = IF live = {} THEN @ ELSE Min(live)],
                     paths |-> IF Present(pid) /\ paths[pid].scid = seq
                               THEN [paths EXCEPT ![pid].scid = Absent] ELSE paths])
        /\ fault' = IF live = {} THEN "internal" ELSE "none"
        /\ UNCHANGED <<role, sentCid, sentRet, peer, told>>

\* get_or_create_path(), for a packet sent to one of our CIDs. A client drops a
\* packet from an unknown address; so does a server without a free slot.
OnExisting(p, seq) ==
  LET old == paths[p]
      same == old.scid = seq
      grown == IF role.server /\ ~old.verified THEN AtMost(old.ampl + AmplFactor, MaxAmpl)
               ELSE old.ampl
  IN  Received([cids |-> IF same THEN cids ELSE [cids EXCEPT !.scids = MarkUsed(@, seq, p)],
                paths |-> [paths EXCEPT ![p] = [old EXCEPT !.scid = seq, !.ampl = grown]]])

OnNew(p, addr, seq) ==
  LET owner == CHOOSE j \in DOMAIN cids.scids : cids.scids[j].seq = seq
      new == [NewPath(addr, FALSE) EXCEPT !.scid = seq, !.chal = TRUE,
                                          !.ampl = AtMost(AmplFactor, MaxAmpl)]
  IN  Received([cids |-> IF cids.scids[owner].pid = Absent
                         THEN [cids EXCEPT !.scids = MarkUsed(@, seq, p)] ELSE cids,
                paths |-> [paths EXCEPT ![p] = new]])

RecvPacket ==
  \E addr \in Addrs, seq \in told \cap Seqs(cids.scids) :
    /\ Open
    /\ \/ \E p \in PathAt(addr) : OnExisting(p, seq)
       \/ PathAt(addr) = {} /\ role.server /\ \E p \in Slots : OnNew(p, addr, seq)
    /\ UNCHANGED <<role, sentCid, sentRet, peer, told, fault>>

\* The peer issues a CID, within our active_connection_id_limit.
PeerIssues ==
  LET seq == peer.next
  IN  \E rpt \in peer.rpt[seq - 1]..seq :
        /\ Open /\ seq <= role.dcid
        /\ seq - rpt + 1 <= DcidLimit
        /\ peer' = [next |-> seq + 1, rpt |-> [peer.rpt EXCEPT ![seq] = rpt],
                    pending |-> peer.pending \cup {seq}]
        /\ UNCHANGED <<cids, paths, role, sentCid, sentRet, told, fault>>

-----------------------------------------------------------------------------
\* select_send_path(): a path that needs validation, a path of the scheduler, or
\* the active path. No path at all is an InternalError of send().
SendPaths ==
  LET probing == {p \in LivePaths : paths[p].dcid # Absent /\ NeedValidation(paths[p])}
      fallback == IF ActivePids = {} THEN {} ELSE {Min(ActivePids)}
  IN  IF probing # {} THEN {Min(probing)}
      ELSE IF role.multi THEN {p \in LivePaths : Active(paths[p]) /\ ~paths[p].abandon} \cup fallback
      ELSE fallback

\* The CIDs that send_packet() puts into the header exist.
HasCids(p) == /\ p.dcid \in Seqs(cids.dcids)
              /\ p.scid = Absent \/ p.scid \in Seqs(cids.scids)

\* send() of a 1-RTT packet on path p: PATH_RESPONSE, PATH_CHALLENGE,
\* NEW_CONNECTION_ID and RETIRE_CONNECTION_ID frames. All that waits is written.
SendPacket ==
  \E p \in SendPaths :
    LET old == paths[p]
        credit == IF role.server /\ ~old.verified THEN old.ampl ELSE Full
        size == IF old.state # Validated /\ (role.server => old.ampl > Full) THEN Full ELSE Small
        answered == [old EXCEPT !.recv = 0,
                                !.ampl = IF role.server /\ ~old.verified THEN SatSub(@, size) ELSE @]
        challenged == Promote([answered EXCEPT !.chal = FALSE, !.chals = Append(@, size)], Validating)
    IN  /\ Open /\ HasCids(old) /\ credit > 0
        /\ Ran(cids.adv) \subseteq Seqs(cids.scids)
        /\ NeedValidation(old) \/ cids.adv # <<>> \/ cids.ret # <<>>
        /\ Active(old) => old.dcid \notin Ran(cids.ret)
        /\ paths' = [paths EXCEPT ![p] = IF old.chal THEN challenged ELSE answered]
        /\ cids' = [cids EXCEPT !.adv = <<>>, !.ret = IF Active(old) THEN <<>> ELSE @]
        /\ sentCid' = sentCid \cup Ran(cids.adv)
        /\ sentRet' = IF Active(old) THEN sentRet \cup Ran(cids.ret) ELSE sentRet
        /\ UNCHANGED <<role, peer, told, fault>>

\* What becomes of the frames: they arrive, and are acknowledged or lost.
CidArrives ==
  \E seq \in sentCid \ told :
    /\ told' = told \cup {seq}
    /\ UNCHANGED <<cids, paths, role, sentCid, sentRet, peer, fault>>

CidSettled ==
  \E seq \in sentCid :
    /\ Open
    /\ sentCid' = sentCid \ {seq}
    /\ \/ seq \in told /\ cids' = cids
       \/ (seq \in told => role.again) /\ cids' = [cids EXCEPT !.adv = Append(@, seq)]
    /\ UNCHANGED <<paths, role, sentRet, peer, told, fault>>

RetireSettled ==
  \E seq \in sentRet :
    /\ Open
    /\ sentRet' = sentRet \ {seq}
    /\ \/ cids' = cids
       \/ cids' = [cids EXCEPT !.ret = Append(@, seq)]
    /\ UNCHANGED <<paths, role, sentCid, peer, told, fault>>

-----------------------------------------------------------------------------
\* Path validation. An answer belongs to the k-th open challenge, or (k = 0) to
\* one that was given up.
RecvPathChallenge ==
  \E p \in LivePaths :
    /\ Open /\ paths[p].recv < role.recv
    /\ paths' = [paths EXCEPT ![p].recv = @ + 1]
    /\ UNCHANGED <<cids, role, sentCid, sentRet, peer, told, fault>>

OnPathResp(p, k) ==
  LET size == IF k = 0 THEN 0 ELSE p.chals[k]
      seen == Promote([p EXCEPT !.verified = TRUE, !.lost = 0, !.max = AtLeast(@, size),
                                !.chals = [j \in 1..(Len(@) - (IF k = 0 THEN 0 ELSE 1)) |->
                                             IF k # 0 /\ j >= k THEN @[j + 1] ELSE @[j]]],
                      ValidatingMTU)
  IN  IF p.state = Validated THEN p
      ELSE IF seen.max >= Full
           THEN [Promote(seen, Validated) EXCEPT !.active = role.multi, !.chals = <<>>]
           ELSE [seen EXCEPT !.chal = TRUE]

RecvPathResponse ==
  \E p \in LivePaths : \E k \in 0..Len(paths[p].chals) :
    /\ Open
    /\ k = 0 => paths[p].lost > 0 /\ Len(paths[p].chals) <= role.late
    /\ paths' = [paths EXCEPT ![p] = OnPathResp(@, k)]
    /\ paths' # paths
    /\ UNCHANGED <<cids, role, sentCid, sentRet, peer, told, fault>>

\* on_path_chal_timeout(): n challenges have expired.
OnChalTimeout(p, n) ==
  LET gone == AtMost(n, MaxProbing - p.lost)
      out == [p EXCEPT !.lost = @ + gone, !.chals = SubSeq(@, gone + 1, Len(@)), !.chal = TRUE]
  IN  IF out.lost < MaxProbing THEN out
      ELSE [out EXCEPT !.state = Failed, !.active = FALSE, !.chals = <<>>, !.chal = p.chal \/ gone > 1]

PathChallengeTimeout ==
  \E p \in LivePaths : \E n \in 1..Len(paths[p].chals) :
    /\ Open
    /\ paths[p].state \in {Validating, ValidatingMTU}
    /\ paths' = [paths EXCEPT ![p] = OnChalTimeout(@, n)]
    /\ UNCHANGED <<cids, role, sentCid, sentRet, peer, told, fault>>

-----------------------------------------------------------------------------
\* add_path(), of a client
AddPath ==
  \E addr \in Addrs, p \in Slots :
    LET seq == LowestUnused(cids)
    IN  /\ Open /\ ~role.server /\ PathAt(addr) = {}
        /\ paths' = [paths EXCEPT ![p] = [NewPath(addr, FALSE) EXCEPT !.dcid = seq, !.chal = TRUE]]
        /\ cids' = [cids EXCEPT !.dcids = MarkUsed(@, seq, p)]
        /\ UNCHANGED <<role, sentCid, sentRet, peer, told, fault>>

\* migrate_path(), to a path that is neither failed nor active
MigratePath ==
  \E p \in LivePaths :
    LET seq == IF paths[p].dcid # Absent THEN paths[p].dcid ELSE LowestUnused(cids)
        old == IF ~role.multi /\ ActivePids # {} THEN {Min(ActivePids)} ELSE {}
    IN  /\ Open /\ paths[p].state # Failed /\ ~Active(paths[p]) /\ Present(seq)
        /\ Len(paths[p].chals) <= role.late
        /\ cids' = IF paths[p].dcid # Absent THEN cids
                   ELSE [cids EXCEPT !.dcids = MarkUsed(@, seq, p)]
        /\ paths' = [q \in Pids |->
                       IF q = p THEN [paths[q] EXCEPT !.dcid = seq, !.active = TRUE,
                                                      !.chal = @ \/ paths[q].state # Validated]
                       ELSE IF q \in old THEN [paths[q] EXCEPT !.active = FALSE] ELSE paths[q]]
        /\ UNCHANGED <<role, sentCid, sentRet, peer, told, fault>>

\* abandon_path(), and abandon_stale_paths() from the KeepAlive timer
AbandonPath ==
  \E p \in LivePaths :
    /\ Open /\ ~paths[p].abandon
    /\ \/ /\ role.multi
          /\ Active(paths[p]) => Cardinality({q \in LivePaths : Active(paths[q])}) > 1
       \/ ~paths[p].active
    /\ paths' = [paths EXCEPT ![p].abandon = TRUE]
    /\ UNCHANGED <<cids, role, sentCid, sentRet, peer, told, fault>>

PathNext ==
  \/ AddScid \/ RecvNewCid \/ RecvRetireCid \/ RecvPacket \/ PeerIssues
  \/ SendPacket \/ CidArrives \/ CidSettled \/ RetireSettled
  \/ RecvPathChallenge \/ RecvPathResponse \/ PathChallengeTimeout
  \/ AddPath \/ MigratePath \/ AbandonPath

PathSpec == PathInit /\ [][PathNext]_pathVars

-----------------------------------------------------------------------------
\* No CID that waits to be retired is the CID of a path: the loop that writes the
\* RETIRE_CONNECTION_ID frames skips such a CID and would meet it again. A
\* NEW_CONNECTION_ID frame that arrives a second time can undo that.
\* (add_dcid, try_write_cid_control_frame)
RetiredIsNotUsed == ~role.again => \A p \in LivePaths : paths[p].dcid \notin Ran(cids.ret)

\* A path sends with a CID that the manager still holds and that no other path
\* uses. (send_packet, add_dcid, try_allocate_cids_from_peer)
PathDcidIsOwn ==
  \A p \in LivePaths : Present(paths[p].dcid) =>
    /\ Item(paths[p].dcid, p) \in Ran(cids.dcids)
    /\ \A q \in LivePaths \ {p} : paths[q].dcid # paths[p].dcid

=============================================================================
