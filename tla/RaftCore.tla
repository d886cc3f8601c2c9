------------------------------ MODULE RaftCore ------------------------------
(***************************************************************************)
(* Leader election and log replication of xio::raft::raft_server, with a   *)
(* fixed set of voting members of equal priority and the default options:  *)
(* no learner, no custom quorum size, no stream mode, no parallel append.  *)
(*                                                                         *)
(* Every handler runs under raft_server::lock_ (the client's append under  *)
(* cli_lock_, which every change of role or term also takes), so a handler *)
(* is one action.  The RPC layer (peer.cc) interleaves with them.          *)
(***************************************************************************)
EXTENDS Integers, Sequences, FiniteSets

CONSTANTS
    Server,         \* the voting members
    Command,        \* payloads of client requests
    MaxAppendSize,  \* raft_params::max_append_size_
    Nil,            \* voted_for_ = -1
    Conf,           \* payload of a configuration entry (log_val_type::conf)
    MaxElections,   \* bound: calls of initiate_vote
    MaxRequests,    \* bound: client requests
    MaxHeartbeats,  \* bound: append requests not sent by another handler
    MaxFaults       \* bound: crashes, resignations, RPC failures, reconnections

ASSUME ServerAssumption == IsFiniteSet(Server) /\ Cardinality(Server) >= 2
ASSUME AppendAssumption == MaxAppendSize \in Nat \ {0}
ASSUME NilAssumption == Nil \notin Server
ASSUME BoundAssumption == {MaxElections, MaxRequests, MaxHeartbeats, MaxFaults} \subseteq Nat

VARIABLES
    role,               \* role_
    term,               \* state_->term_
    voted_for,          \* state_->voted_for_
    saved,              \* what the last save_state() made durable
    votes_granted,      \* votes_granted_
    votes_responded,    \* votes_responded_
    election_completed, \* election_completed_
    log,                \* log_store_: log[i][k] is the entry at index k
    precommit_index,    \* precommit_index_
    quick_commit_index, \* quick_commit_index_
    next_log_idx,       \* peer::next_log_idx_, per server and peer
    matched_idx,        \* peer::matched_idx_
    pending_commit,     \* peers whose pending_commit_flag_ is set
    rpc,                \* peers whose rpc_ is not null
    net,                \* requests and responses in flight
    used,               \* history: how much of each bound is used up
    ballots,            \* history: <<term, voter, candidate>> for every vote
    elected,            \* history: <<term, server>> for every become_leader
    committed           \* history: <<index, entry>> for every commit

stateVars == <<role, term, voted_for, saved>>
voteVars == <<votes_granted, votes_responded, election_completed>>
logVars == <<log, precommit_index, quick_commit_index>>
peerVars == <<next_log_idx, matched_idx, pending_commit, rpc>>
history == <<used, ballots, elected, committed>>
vars == <<stateVars, voteVars, logVars, peerVars, net, history>>

-----------------------------------------------------------------------------
Min2(a, b) == IF a <= b THEN a ELSE b
Max2(a, b) == IF a >= b THEN a ELSE b

Peers(i) == Server \ {i}

\* raft_server::get_quorum_for_election and get_quorum_for_commit: the leader
\* itself is not counted.
QuorumSize == Cardinality(Server) \div 2

Entry == [term : Nat \ {0}, cmd : Command \cup {Conf}]

\* raft_server::term_for_log over a log that was never compacted.
TermForLog(lg, k) == IF k \in 1..Len(lg) THEN lg[k].term ELSE 0

LastTerm(lg) == TermForLog(lg, Len(lg))

(***************************************************************************)
(* A message belongs to the RPC that server `cli` runs against server      *)
(* `srv`.  Its `conn` says what the client side will do with it:           *)
(*   "busy"      the RPC holds peer::busy_flag_; its response frees it     *)
(*   "detached"  the busy flag was freed or the RPC client replaced, and   *)
(*               the response is still handed to handle_peer_resp          *)
(*   "orphan"    the RPC client failed or is gone: no response             *)
(***************************************************************************)
Conn == {"busy", "detached", "orphan"}

VoteReq(i, j, t, lg) ==
    [type |-> "vote_req", cli |-> i, srv |-> j, conn |-> "busy", term |-> t,
     last_log_term |-> LastTerm(lg), last_log_idx |-> Len(lg)]

VoteResp(m, t, ok) ==
    [type |-> "vote_resp", cli |-> m.cli, srv |-> m.srv, conn |-> m.conn,
     term |-> t, accepted |-> ok]

\* raft_server::create_append_entries_req for a peer whose next_log_idx_ is n.
AppendReq(i, j, t, lg, n, ci) ==
    [type |-> "append_req", cli |-> i, srv |-> j, conn |-> "busy", term |-> t,
     last_log_term |-> TermForLog(lg, n - 1), last_log_idx |-> n - 1,
     entries |-> SubSeq(lg, n, Min2(Len(lg), n - 1 + MaxAppendSize)),
     commit_idx |-> ci]

\* Mutant of AppendResp: resp->accept with the index after the next one.
AppendRespAhead(m, t, ok, n) ==
    [type |-> "append_resp", cli |-> m.cli, srv |-> m.srv, conn |-> m.conn,
     term |-> t, accepted |-> ok, next_idx |-> n + 1]

AppendResp(m, t, ok, n) ==
    [type |-> "append_resp", cli |-> m.cli, srv |-> m.srv, conn |-> m.conn,
     term |-> t, accepted |-> ok, next_idx |-> n]

Req == {"vote_req", "append_req"}
Resp == {"vote_resp", "append_resp"}

\* The messages n after the request m was answered by r: an orphan has no reader.
Reply(n, m, r) == (n \ {m}) \cup (IF m.conn = "orphan" THEN {} ELSE {r})

\* peer::busy_flag_ of server i, for the messages n.
Busy(n, i) == {m.srv : m \in {x \in n : x.cli = i /\ x.conn = "busy"}}

\* peer::recreate_rpc of server i towards the peers J: the flag is freed, the
\* outstanding RPC goes on.
Recreate(n, i, J) ==
    {IF m.cli = i /\ m.srv \in J /\ m.conn = "busy"
       THEN [m EXCEPT !.conn = "detached"] ELSE m : m \in n}

-----------------------------------------------------------------------------
\* The servers when they start, with empty logs and stores.
Start ==
    /\ role = [i \in Server |-> "follower"]
    /\ term = [i \in Server |-> 0]
    /\ voted_for = [i \in Server |-> Nil]
    /\ saved = [i \in Server |-> [term |-> 0, voted_for |-> Nil]]
    /\ votes_granted = [i \in Server |-> 0]
    /\ votes_responded = [i \in Server |-> 0]
    /\ election_completed = [i \in Server |-> TRUE]
    /\ log = [i \in Server |-> <<>>]
    /\ precommit_index = [i \in Server |-> 0]
    /\ quick_commit_index = [i \in Server |-> 0]
    /\ next_log_idx = [i \in Server |-> [j \in Server |-> 0]]
    /\ matched_idx = [i \in Server |-> [j \in Server |-> 0]]
    /\ pending_commit = [i \in Server |-> {}]
    /\ rpc = [i \in Server |-> Peers(i)]
    /\ net = {}
    /\ ballots = {}
    /\ elected = {}
    /\ committed = {}

Init ==
    /\ Start
    /\ used = [elections |-> 0, requests |-> 0, heartbeats |-> 0, faults |-> 0]

-----------------------------------------------------------------------------
(* Steps the handlers share.                                               *)

\* raft_server::update_term: the new term and the erased vote are saved
\* before the handler goes on.  Role, term, vote and counters only.
UpdateTerm(i, t) ==
    IF t > term[i]
      THEN /\ term' = [term EXCEPT ![i] = t]
           /\ role' = [role EXCEPT ![i] = "follower"]
           /\ election_completed' = [election_completed EXCEPT ![i] = FALSE]
           /\ votes_granted' = [votes_granted EXCEPT ![i] = 0]
           /\ votes_responded' = [votes_responded EXCEPT ![i] = 0]
      ELSE UNCHANGED <<term, role, voteVars>>

\* A fault: something the code's scheduling does not bound.
Fault ==
    /\ used.faults < MaxFaults
    /\ used' = [used EXCEPT !.faults = @ + 1]

\* Mutant of VoteAfter: update_term also forgets the vote of its own term.
VoteAfterSameTerm(i, t) == IF t >= term[i] THEN Nil ELSE voted_for[i]

\* voted_for_ after update_term(t).
VoteAfter(i, t) == IF t > term[i] THEN Nil ELSE voted_for[i]

(***************************************************************************)
(* raft_server::request_append_entries(p) of leader i for each p in J,     *)
(* where lg, ci, nx, mt and n are i's log, commit index, next and matched  *)
(* indexes and the messages at that point.  A peer without RPC client is   *)
(* reconnected first, which forgets what is known of its log; a busy peer  *)
(* is skipped.                                                             *)
(***************************************************************************)
Reached(i, n, J) == {j \in J : j \notin rpc[i] \/ j \notin Busy(n, i)}

RequestAppendEntries(i, t, lg, ci, nx, mt, n, J) ==
    LET lost == J \ rpc[i]
        to == Reached(i, n, J)
        nx2 == [j \in Server |->
                  IF j \in lost \/ (j \in to /\ nx[j] = 0)
                    THEN Len(lg) + 1 ELSE nx[j]]
    IN  /\ next_log_idx' = [next_log_idx EXCEPT ![i] = nx2]
        /\ matched_idx' = [matched_idx EXCEPT ![i] =
               [j \in Server |-> IF j \in lost /\ nx[j] # 0 THEN 0 ELSE mt[j]]]
        /\ rpc' = [rpc EXCEPT ![i] = @ \cup lost]
        /\ net' = n \cup {AppendReq(i, j, t, lg, nx2[j], ci) : j \in to}

\* The entries that become committed history when i commits up to ci.
CommittedBy(lg, ci) == {<<k, lg[k]>> : k \in 1..Min2(ci, Len(lg))}

-----------------------------------------------------------------------------
(* Elections.                                                              *)

\* raft_server::request_prevote: the RPC clients of the peers J are recreated
\* (of all peers if heartbeats were alive until now, else of the lost ones) and
\* the server becomes a candidate of its current term.  The answers are
\* abstracted: InitiateVote does not wait for them.
RequestPrevote(i, J) ==
    /\ role[i] # "leader"
    /\ role' = [role EXCEPT ![i] = "candidate"]
    /\ rpc' = [rpc EXCEPT ![i] = @ \cup J]
    /\ net' = Recreate(net, i, J)
    /\ Fault
    /\ UNCHANGED <<term, voted_for, saved, voteVars, logVars, next_log_idx,
                   matched_idx, pending_commit, ballots, elected, committed>>

\* raft_server::initiate_vote and request_vote: a new term, a saved vote for
\* itself, and a request to every peer that is not busy.
InitiateVote(i) ==
    /\ role[i] # "leader"
    /\ used.elections < MaxElections
    /\ used' = [used EXCEPT !.elections = @ + 1]
    /\ term' = [term EXCEPT ![i] = @ + 1]
    /\ role' = [role EXCEPT ![i] = "candidate"]
    /\ voted_for' = [voted_for EXCEPT ![i] = i]
    /\ saved' = [saved EXCEPT ![i] = [term |-> term[i] + 1, voted_for |-> i]]
    /\ ballots' = ballots \cup {<<term[i] + 1, i, i>>}
    /\ votes_granted' = [votes_granted EXCEPT ![i] = 1]
    /\ votes_responded' = [votes_responded EXCEPT ![i] = 1]
    /\ election_completed' = [election_completed EXCEPT ![i] = FALSE]
    /\ net' = net \cup {VoteReq(i, j, term[i] + 1, log[i]) :
                          j \in rpc[i] \ Busy(net, i)}
    /\ UNCHANGED <<logVars, peerVars, elected, committed>>

\* Mutant of LogOkay: only the lengths of the logs are compared.
LogOkayByLength(m, lg) == Len(lg) <= m.last_log_idx

\* Mutant of LogOkay: the two logs are swapped.
LogOkaySwapped(m, lg) ==
    \/ m.last_log_term < LastTerm(lg)
    \/ m.last_log_term = LastTerm(lg) /\ Len(lg) >= m.last_log_idx

\* log_okay of handle_vote_req.
LogOkay(m, lg) ==
    \/ m.last_log_term > LastTerm(lg)
    \/ m.last_log_term = LastTerm(lg) /\ Len(lg) <= m.last_log_idx

\* Mutant of Grant: an earlier vote of the term is not looked at.
GrantAgain(m, i, t, v) == m.term = t /\ LogOkay(m, log[i])

\* grant of handle_vote_req, for the vote v that i has in term t.
Grant(m, i, t, v) == m.term = t /\ LogOkay(m, log[i]) /\ v \in {m.cli, Nil}

\* process_req and handle_vote_req.
HandleVoteReq(m) ==
    LET i == m.srv
        t == Max2(term[i], m.term)
        v == VoteAfter(i, m.term)
        ok == Grant(m, i, t, v)
        v2 == IF ok THEN m.cli ELSE v
    IN  /\ m.type = "vote_req"
        /\ UpdateTerm(i, m.term)
        /\ voted_for' = [voted_for EXCEPT ![i] = v2]
        /\ saved' = [saved EXCEPT ![i] = IF ok \/ m.term > term[i]
                                           THEN [term |-> t, voted_for |-> v2]
                                           ELSE @]
        /\ ballots' = ballots \cup (IF ok THEN {<<t, i, m.cli>>} ELSE {})
        /\ net' = Reply(net, m, VoteResp(m, t, ok))
        /\ UNCHANGED <<logVars, peerVars, used, elected, committed>>

\* raft_server::become_leader: a configuration entry of the new term goes
\* into the log and to the peers.  matched_idx_ is not reset.
BecomeLeader(i, n) ==
    LET lg == Append(log[i], [term |-> term[i], cmd |-> Conf])
        nx == [j \in Server |-> IF j = i THEN 0 ELSE Len(log[i]) + 1]
    IN  /\ role' = [role EXCEPT ![i] = "leader"]
        /\ log' = [log EXCEPT ![i] = lg]
        /\ precommit_index' = [precommit_index EXCEPT ![i] = Len(lg)]
        /\ elected' = elected \cup {<<term[i], i>>}
        /\ RequestAppendEntries(i, term[i], lg, quick_commit_index[i], nx,
                                matched_idx[i], n, Peers(i))
        /\ UNCHANGED <<quick_commit_index, pending_commit, used, ballots, committed>>

\* A response with a higher term: handle_peer_resp updates the term, saves it
\* and returns.
RespUpdatesTerm(m) ==
    LET i == m.cli
    IN  /\ m.type \in Resp
        /\ m.term > term[i]
        /\ UpdateTerm(i, m.term)
        /\ voted_for' = [voted_for EXCEPT ![i] = Nil]
        /\ saved' = [saved EXCEPT ![i] = [term |-> m.term, voted_for |-> Nil]]
        /\ net' = net \ {m}
        /\ UNCHANGED <<logVars, peerVars, history>>

\* handle_vote_resp of an election that is over, or of another term.
IgnoreVoteResp(m) ==
    /\ m.type = "vote_resp"
    /\ m.term < term[m.cli] \/ (m.term = term[m.cli] /\ election_completed[m.cli])
    /\ net' = net \ {m}
    /\ UNCHANGED <<stateVars, voteVars, logVars, peerVars, history>>

\* handle_vote_resp of the running election.
HandleVoteResp(m) ==
    LET i == m.cli
        granted == votes_granted[i] + (IF m.accepted THEN 1 ELSE 0)
        responded == votes_responded[i] + 1
        won == granted >= QuorumSize + 1
    IN  /\ m.type = "vote_resp"
        /\ m.term = term[i]
        /\ ~election_completed[i]
        /\ votes_responded' = [votes_responded EXCEPT ![i] = responded]
        /\ votes_granted' = [votes_granted EXCEPT ![i] = granted]
        /\ election_completed' = [election_completed EXCEPT ![i] =
               won \/ responded >= Cardinality(Server)]
        /\ IF won THEN BecomeLeader(i, net \ {m})
                  ELSE /\ net' = net \ {m}
                       /\ UNCHANGED <<role, logVars, peerVars, history>>
        /\ UNCHANGED <<term, voted_for, saved>>

\* The leader resigns in its term: yield_leadership(true), the leadership
\* expiration of check_leadership_validity, or a re-election timeout.
ResignLeadership(i) ==
    /\ role[i] = "leader"
    /\ role' = [role EXCEPT ![i] = "follower"]
    /\ Fault
    /\ UNCHANGED <<term, voted_for, saved, voteVars, logVars, peerVars, net, ballots,
                   elected, committed>>

-----------------------------------------------------------------------------
(* Replication.                                                            *)

\* handle_cli_req: the leader stores the request; a background thread sends it.
ClientRequest(i, c) ==
    /\ role[i] = "leader"
    /\ used.requests < MaxRequests
    /\ used' = [used EXCEPT !.requests = @ + 1]
    /\ log' = [log EXCEPT ![i] = Append(@, [term |-> term[i], cmd |-> c])]
    /\ precommit_index' = [precommit_index EXCEPT ![i] = Len(log[i]) + 1]
    /\ UNCHANGED <<quick_commit_index, stateVars, voteVars, peerVars, net, ballots,
                   elected, committed>>

\* handle_hb_timeout, and append_entries_in_bg for one peer.
Heartbeat(i, j) ==
    /\ role[i] = "leader"
    /\ j \in Reached(i, net, Peers(i))
    /\ used.heartbeats < MaxHeartbeats
    /\ used' = [used EXCEPT !.heartbeats = @ + 1]
    /\ RequestAppendEntries(i, term[i], log[i], quick_commit_index[i],
                            next_log_idx[i], matched_idx[i], net, {j})
    /\ UNCHANGED <<stateVars, voteVars, logVars, pending_commit, ballots, elected, committed>>

\* request_append_entries for a peer that was inactive for too long: the RPC
\* client is replaced although a request is outstanding.
ForceReconnect(i, j) ==
    LET nx == [next_log_idx[i] EXCEPT ![j] = Len(log[i]) + 1]
    IN  /\ role[i] = "leader"
        /\ j \in rpc[i] \cap Busy(net, i)
        /\ next_log_idx' = [next_log_idx EXCEPT ![i] = nx]
        /\ matched_idx' = [matched_idx EXCEPT ![i][j] = 0]
        /\ net' = Recreate(net, i, {j}) \cup
                  {AppendReq(i, j, term[i], log[i], nx[j], quick_commit_index[i])}
        /\ Fault
        /\ UNCHANGED <<stateVars, voteVars, logVars, rpc, pending_commit,
                       ballots, elected, committed>>

\* Mutant of PrevOkay: the previous entry must exist, of whatever term.
PrevOkayAnyTerm(m, lg) == m.last_log_idx <= Len(lg)

\* log_okay of handle_append_entries.
PrevOkay(m, lg) ==
    \/ m.last_log_idx = 0
    \/ /\ TermForLog(lg, m.last_log_idx) # 0
       /\ TermForLog(lg, m.last_log_idx) = m.last_log_term

\* The number of entries of m that lg already holds with the same term.
SameTerms(m, lg, n) ==
    \A x \in 1..n : TermForLog(lg, m.last_log_idx + x) = m.entries[x].term

Skipped(m, lg) ==
    CHOOSE n \in 0..Len(m.entries) :
        SameTerms(m, lg, n) /\ \A k \in 0..Len(m.entries) : SameTerms(m, lg, k) => k <= n

\* The log after the skip, overwrite and append loops of handle_append_entries.
Stored(m, lg) ==
    LET k == Skipped(m, lg)
    IN  IF k = Len(m.entries) THEN lg
        ELSE SubSeq(lg, 1, m.last_log_idx + k) \o SubSeq(m.entries, k + 1, Len(m.entries))

\* quick_commit_index_ after the rollback: lowered to the rollback point.
RolledBack(m, lg, ci) ==
    LET k == Skipped(m, lg)
        at == m.last_log_idx + k + 1
    IN  IF k < Len(m.entries) /\ Len(lg) >= at /\ ci >= at THEN at - 1 ELSE ci

\* Mutant of CommitTarget: the leader's commit index is taken as it is.
CommitTargetUnbounded(m) == m.commit_idx

\* What handle_append_entries passes to commit(): not beyond the entries that
\* this request has checked.
CommitTarget(m) == Min2(m.commit_idx, m.last_log_idx + Len(m.entries))

\* process_req and handle_append_entries.  A leader that hears of another
\* leader of its own term drops the request.
HandleAppendReq(m) ==
    LET i == m.srv
        t == Max2(term[i], m.term)
        twin == m.term = term[i] /\ role[i] = "leader"
        ok == m.term = t /\ PrevOkay(m, log[i])
        target == m.last_log_idx + Len(m.entries)
        lg == Stored(m, log[i])
        ci == Max2(RolledBack(m, log[i], quick_commit_index[i]), CommitTarget(m))
    IN  /\ m.type = "append_req"
        /\ IF m.term > term[i]
             THEN UpdateTerm(i, m.term)
             ELSE /\ role' = [role EXCEPT ![i] =
                         IF m.term = term[i] /\ @ = "candidate" THEN "follower" ELSE @]
                  /\ UNCHANGED <<term, voteVars>>
        /\ voted_for' = [voted_for EXCEPT ![i] = VoteAfter(i, m.term)]
        /\ saved' = [saved EXCEPT ![i] = IF m.term > term[i]
                                           THEN [term |-> t, voted_for |-> Nil] ELSE @]
        /\ IF twin \/ ~ok
             THEN UNCHANGED <<logVars, committed>>
             ELSE /\ log' = [log EXCEPT ![i] = lg]
                  /\ precommit_index' = [precommit_index EXCEPT ![i] = Max2(@, target)]
                  /\ quick_commit_index' = [quick_commit_index EXCEPT ![i] = ci]
                  /\ committed' = committed \cup CommittedBy(lg, ci)
        /\ net' = IF twin THEN net \ {m}
                  ELSE Reply(net, m, AppendResp(m, t, ok,
                                IF ok THEN target + 1 ELSE Len(log[i]) + 1))
        /\ UNCHANGED <<peerVars, used, ballots, elected>>

\* get_expected_committed_log_idx: the indexes that the members, the server
\* itself included, have reached, and the largest one that a quorum has.
\* Terms do not matter.
MemberIdx(i, mt, j) == IF j = i THEN precommit_index[i] ELSE mt[j]

QuorumHas(i, mt, v) ==
    Cardinality({j \in Server : MemberIdx(i, mt, j) >= v}) >= QuorumSize + 1

ExpectedCommitted(i, mt) ==
    LET indexes == {MemberIdx(i, mt, j) : j \in Server}
    IN  CHOOSE v \in indexes :
          QuorumHas(i, mt, v) /\ \A w \in indexes : QuorumHas(i, mt, w) => w <= v

\* handle_append_entries_resp, accepted, and commit().  The server need not
\* be a leader any more, nor the response of its term.
HandleAccepted(m) ==
    LET i == m.cli
        p == m.srv
        n == net \ {m}
        nx == [next_log_idx[i] EXCEPT ![p] = m.next_idx]
        mt == [matched_idx[i] EXCEPT ![p] = m.next_idx - 1]
        target == ExpectedCommitted(i, mt)
        advance == target > quick_commit_index[i]
        ci == Max2(target, quick_commit_index[i])
        lead == role[i] = "leader"
        notified == IF advance /\ lead THEN Peers(i) ELSE {}
        pend == pending_commit[i] \cup (notified \ Reached(i, n, notified))
        catchup == p \in pend \/ m.next_idx < Len(log[i]) + 1
        J == notified \cup (IF catchup /\ lead THEN {p} ELSE {})
    IN  /\ m.type = "append_resp"
        /\ m.accepted
        /\ m.term <= term[i]
        /\ quick_commit_index' = [quick_commit_index EXCEPT ![i] = ci]
        /\ committed' = committed \cup (IF advance THEN CommittedBy(log[i], ci) ELSE {})
        /\ pending_commit' = [pending_commit EXCEPT ![i] = pend \ {p}]
        /\ RequestAppendEntries(i, term[i], log[i], ci, nx, mt, n, J)
        /\ UNCHANGED <<stateVars, voteVars, log, precommit_index, used, ballots,
                       elected>>

\* handle_append_entries_resp, rejected: jump back to the peer's last entry,
\* or one entry back, and try again.
HandleRejected(m) ==
    LET i == m.cli
        p == m.srv
        prev == next_log_idx[i][p]
        nx == [next_log_idx[i] EXCEPT ![p] =
                 IF m.next_idx > 0 /\ prev > m.next_idx THEN m.next_idx
                 ELSE IF prev > 0 THEN prev - 1 ELSE prev]
    IN  /\ m.type = "append_resp"
        /\ ~m.accepted
        /\ m.term <= term[i]
        /\ RequestAppendEntries(i, term[i], log[i], quick_commit_index[i], nx,
               matched_idx[i], net \ {m}, IF role[i] = "leader" THEN {p} ELSE {})
        /\ UNCHANGED <<stateVars, voteVars, logVars, pending_commit, history>>

-----------------------------------------------------------------------------
(* The RPC layer and crashes.                                              *)

\* peer::handle_rpc_result frees the peer without raft_server::lock_: other
\* handlers may run before the response is handled.
FreeBeforeHandler(m) ==
    /\ m.type \in Resp
    /\ m.conn = "busy"
    /\ net' = (net \ {m}) \cup {[m EXCEPT !.conn = "detached"]}
    /\ Fault
    /\ UNCHANGED <<stateVars, voteVars, logVars, peerVars, ballots, elected, committed>>

\* peer::handle_rpc_result with an error: the RPC client is dropped.  A
\* request may have reached its destination all the same.
RpcFails(m) ==
    /\ m.conn = "busy"
    /\ rpc' = [rpc EXCEPT ![m.cli] = @ \ {m.srv}]
    /\ \/ net' = net \ {m}
       \/ /\ m.type \in Req
          /\ net' = (net \ {m}) \cup {[m EXCEPT !.conn = "orphan"]}
    /\ Fault
    /\ UNCHANGED <<stateVars, voteVars, logVars, next_log_idx, matched_idx,
                   pending_commit, ballots, elected, committed>>

\* The messages that outlive a crash of i: its requests, now orphans, and its
\* responses.
Survivors(i) ==
    {IF m.cli = i THEN [m EXCEPT !.conn = "orphan"] ELSE m :
       m \in {x \in net : /\ x.cli = i => x.type \in Req
                          /\ x.srv = i => x.type \in Resp}}

\* A crash and the constructor of raft_server after it: log and saved state
\* are durable, the commit index restarts from what the state machine k holds.
Restart(i, k) ==
    /\ k \in 0..quick_commit_index[i]
    /\ role' = [role EXCEPT ![i] = "follower"]
    /\ term' = [term EXCEPT ![i] = saved[i].term]
    /\ voted_for' = [voted_for EXCEPT ![i] = saved[i].voted_for]
    /\ votes_granted' = [votes_granted EXCEPT ![i] = 0]
    /\ votes_responded' = [votes_responded EXCEPT ![i] = 0]
    /\ election_completed' = [election_completed EXCEPT ![i] = TRUE]
    /\ precommit_index' = [precommit_index EXCEPT ![i] = Len(log[i])]
    /\ quick_commit_index' = [quick_commit_index EXCEPT ![i] = k]
    /\ next_log_idx' = [next_log_idx EXCEPT ![i] = [j \in Server |-> 0]]
    /\ matched_idx' = [matched_idx EXCEPT ![i] = [j \in Server |-> 0]]
    /\ pending_commit' = [pending_commit EXCEPT ![i] = {}]
    /\ rpc' = [j \in Server |->
                 IF j = i THEN Peers(i)
                 ELSE IF i \in Busy(net, j) /\ i \notin Busy(Survivors(i), j)
                   THEN rpc[j] \ {i} ELSE rpc[j]]
    /\ net' = Survivors(i)
    /\ Fault
    /\ UNCHANGED <<saved, log, ballots, elected, committed>>

-----------------------------------------------------------------------------
Receive(m) ==
    \/ HandleVoteReq(m)
    \/ RespUpdatesTerm(m)
    \/ IgnoreVoteResp(m)
    \/ HandleVoteResp(m)
    \/ HandleAppendReq(m)
    \/ HandleAccepted(m)
    \/ HandleRejected(m)

Next ==
    \/ \E i \in Server :
         \/ \E J \in {Peers(i), Peers(i) \ rpc[i]} : RequestPrevote(i, J)
         \/ InitiateVote(i)
         \/ ResignLeadership(i)
         \/ \E c \in Command : ClientRequest(i, c)
         \/ \E j \in Peers(i) : Heartbeat(i, j) \/ ForceReconnect(i, j)
         \/ \E k \in 0..quick_commit_index[i] : Restart(i, k)
    \/ \E m \in net : Receive(m) \/ FreeBeforeHandler(m) \/ RpcFails(m)

Spec == Init /\ [][Next]_vars

-----------------------------------------------------------------------------
(* Properties.                                                             *)

Message ==
         [type : {"vote_req"}, cli : Server, srv : Server, conn : Conn,
          term : Nat \ {0}, last_log_term : Nat, last_log_idx : Nat]
    \cup [type : {"vote_resp"}, cli : Server, srv : Server, conn : Conn,
          term : Nat \ {0}, accepted : BOOLEAN]
    \cup [type : {"append_req"}, cli : Server, srv : Server, conn : Conn, term : Nat,
          last_log_term : Nat, last_log_idx : Nat, entries : Seq(Entry),
          commit_idx : Nat]
    \cup [type : {"append_resp"}, cli : Server, srv : Server, conn : Conn, term : Nat,
          accepted : BOOLEAN, next_idx : Nat \ {0}]

Usage == [elections : Nat, requests : Nat, heartbeats : Nat, faults : Nat]

\* Type invariant of the members of raft_server, srv_state and peer.
TypeOK ==
    /\ role \in [Server -> {"follower", "candidate", "leader"}]
    /\ term \in [Server -> Nat]
    /\ voted_for \in [Server -> Server \cup {Nil}]
    /\ saved \in [Server -> [term : Nat, voted_for : Server \cup {Nil}]]
    /\ votes_granted \in [Server -> Nat]
    /\ votes_responded \in [Server -> Nat]
    /\ election_completed \in [Server -> BOOLEAN]
    /\ log \in [Server -> Seq(Entry)]
    /\ precommit_index \in [Server -> Nat]
    /\ quick_commit_index \in [Server -> Nat]
    /\ next_log_idx \in [Server -> [Server -> Nat]]
    /\ matched_idx \in [Server -> [Server -> Nat]]
    /\ pending_commit \in [Server -> SUBSET Server]
    /\ rpc \in [Server -> SUBSET Server]
    /\ net \subseteq Message
    /\ used \in Usage
    /\ ballots \subseteq Nat \X Server \X Server
    /\ elected \subseteq Nat \X Server
    /\ committed \subseteq Nat \X Entry

\* A server votes for one candidate in a term, whatever crashes lie between
\* two requests: set_voted_for is saved before the response leaves, and so is
\* the vote for itself before the requests leave.
VoteOnce ==
    \A a, b \in ballots : a[1] = b[1] /\ a[2] = b[2] => a[3] = b[3]

\* At most one server becomes leader in a term (become_leader, over the whole
\* history and not only at one moment), although votes are only counted and
\* responses may be late, of another connection, or sent before a crash.
ElectionSafety ==
    \A a, b \in elected : a[1] = b[1] => a[2] = b[2]

\* Two logs that agree on the term of an entry agree on everything up to it:
\* what handle_append_entries relies on when it skips entries of equal term.
LogMatching ==
    \A i, j \in Server : \A k \in 1..Min2(Len(log[i]), Len(log[j])) :
        log[i][k].term = log[j][k].term => SubSeq(log[i], 1, k) = SubSeq(log[j], 1, k)

\* No two servers ever commit different entries at an index (commit()), and
\* no server does so at two times.
StateMachineSafety ==
    \A a, b \in committed : a[1] = b[1] => a[2] = b[2]

\* The leader of the newest term holds every entry that was ever committed:
\* what the comparison of logs in handle_vote_req is for.
LeaderCompleteness ==
    \A i \in Server :
        (role[i] = "leader" /\ \A j \in Server : term[j] <= term[i])
            => \A c \in committed : c[1] <= Len(log[i]) /\ log[i][c[1]] = c[2]

\* An index is committed only after it was pre-committed and stored: otherwise
\* the commit thread stops the process (commit_app_log, N23).
CommitAfterPrecommit ==
    \A i \in Server :
        /\ quick_commit_index[i] <= precommit_index[i]
        /\ quick_commit_index[i] <= Len(log[i])

\* A leader never believes that a peer is ahead of the leader's own log:
\* otherwise create_append_entries_req stops the process (N8).
PeerNotAhead ==
    \A i \in Server : role[i] = "leader" =>
        \A j \in Peers(i) : next_log_idx[i][j] <= Len(log[i]) + 1

\* "... from another leader ({}) with same term, there must be a bug"
\* (handle_append_entries): a leader meets no append request of its own term,
\* however late requests arrive and however leaders resign, restart and return.
NoSecondLeader ==
    \A m \in net : m.type = "append_req" /\ m.term = term[m.srv] => role[m.srv] # "leader"

\* The last entry of a log has the largest term in it, and no later term than its
\* server: why handle_vote_req looks at the last entries only.
LogTermsOrdered ==
    \A i \in Server : \A k \in 1..Len(log[i]) :
        /\ log[i][k].term <= term[i]
        /\ \A j \in 1..k : log[i][j].term <= log[i][k].term

\* As long as a server leads, its log only grows, and its term stays; no server
\* goes back to an earlier term, not even in a restart.
LeaderAppends ==
    \A i \in Server :
        /\ term[i] <= term'[i]
        /\ role[i] = "leader" /\ role'[i] = "leader" =>
             /\ term'[i] = term[i]
             /\ Len(log[i]) <= Len(log'[i])
             /\ \A k \in 1..Len(log[i]) : log'[i][k] = log[i][k]

\* handle_append_entries overwrites entries and the constructor reads back a saved
\* term, but no step takes an entry from a leader or an earlier term.
LeaderAppendOnly == [][LeaderAppends]_vars

\* "Committed log index should never go back" (handle_append_entries): no
\* step rewrites or removes an entry below the commit index of its server.
CommittedStays ==
    [][\A i \in Server : \A k \in 1..quick_commit_index[i] :
         k <= Len(log'[i]) /\ log'[i][k] = log[i][k]]_vars

-----------------------------------------------------------------------------
(* The inductive invariant behind TypeOK, VoteOnce and ElectionSafety.     *)

\* A server is no peer of itself, and a leader has a term.
PeersOK ==
    /\ \A i \in Server : i \notin rpc[i]
    /\ \A m \in net : m.cli # m.srv
    /\ \A i \in Server : role[i] = "leader" => term[i] # 0

\* Term and vote are durable whenever no handler runs.
SavedCurrent ==
    \A i \in Server : saved[i] = [term |-> term[i], voted_for |-> voted_for[i]]

\* A vote is of a term the voter has reached, and the voter still knows the
\* vote it gave in its own term.
BallotsKept ==
    \A b \in ballots :
        /\ b[1] <= term[b[2]]
        /\ b[1] = term[b[2]] => voted_for[b[2]] = b[3]

\* The messages that may still add one to votes_granted_.
Counts(m) == m.type = "vote_req" \/ (m.type = "vote_resp" /\ m.accepted)

\* A vote message is not ahead of its candidate, a granted one is a ballot,
\* and there is only one per candidate, voter and term.
VoteMessagesOK ==
    /\ \A m \in net : Counts(m) =>
         /\ m.term <= term[m.cli]
         /\ m.type = "vote_resp" => <<m.term, m.srv, m.cli>> \in ballots
    /\ \A m, n \in net :
         Counts(m) /\ Counts(n) /\ m.cli = n.cli /\ m.srv = n.srv /\ m.term = n.term
             => m = n

\* The voters of i in its term whose answer is no longer under way.
Counted(i) ==
    {j \in Server : /\ <<term[i], j, i>> \in ballots
                    /\ \A m \in net : m.cli = i /\ m.srv = j /\ m.term = term[i] => ~Counts(m)}

\* votes_granted_ is a count of distinct voters, although handle_vote_resp
\* keeps no set of them.
VotesAreVoters == \A i \in Server : votes_granted[i] <= Cardinality(Counted(i))

Voters(t, i) == {j \in Server : <<t, j, i>> \in ballots}

\* A leader was voted for by a majority.
ElectedByMajority ==
    \A e \in elected : Cardinality(Voters(e[1], e[2])) >= QuorumSize + 1

\* Ballots, saved votes, vote messages and counters agree after every handler, crash
\* and failed RPC; together they are inductive.
ElectionInv ==
    /\ TypeOK
    /\ PeersOK
    /\ SavedCurrent
    /\ BallotsKept
    /\ VoteOnce
    /\ VoteMessagesOK
    /\ VotesAreVoters
    /\ ElectedByMajority

-----------------------------------------------------------------------------
(* The inductive invariant behind LogMatching.                             *)

\* The entries es from index lo + 1 on, each with its index and the term of
\* the entry before it; the entry at lo has term lt.
Links(lo, lt, es) ==
    {<<lo + x, es[x], IF x = 1 THEN lt ELSE es[x - 1].term>> : x \in 1..Len(es)}

LogLinks(i) == Links(0, 0, log[i])

ReqLinks(m) == Links(m.last_log_idx, m.last_log_term, m.entries)

AppendReqs == {m \in net : m.type = "append_req"}

\* Every place an entry can be read from: the logs, and the append requests
\* that are still under way, however late.
AllLinks == (UNION {LogLinks(i) : i \in Server}) \cup (UNION {ReqLinks(m) : m \in AppendReqs})

\* Index and term name one entry, and the term of the one before it.
LinksAgree == \A a, b \in AllLinks : a[1] = b[1] /\ a[2].term = b[2].term => a = b

\* Entries are only made by leaders.
TermsElected == \A a \in AllLinks : \E e \in elected : e[1] = a[2].term

\* No entry of a leader's term lies beyond its log: what it appends is new.
LeaderIsAhead ==
    \A i \in Server : role[i] = "leader" =>
        \A a \in AllLinks : a[2].term = term[i] => a[1] <= Len(log[i])

\* A server becomes leader once in a term, also when it resigns or restarts.
ElectedOnce ==
    /\ \A i \in Server : role[i] = "leader" => <<term[i], i>> \in elected
    /\ \A e \in elected : /\ e[1] <= term[e[2]]
                          /\ e[1] = term[e[2]] => election_completed[e[2]]

\* Before the first entry there is none, so its term is 0.
FirstHasNone == \A m \in AppendReqs : m.last_log_idx = 0 => m.last_log_term = 0

\* An append request was sent by the leader of its term, and carries no entry of a
\* later term.
RequestsLed ==
    \A m \in AppendReqs :
        /\ <<m.term, m.cli>> \in elected
        /\ \A a \in ReqLinks(m) : a[2].term <= m.term

\* No log is ahead of the term of its server.
TermsReached == \A i \in Server : \A a \in LogLinks(i) : a[2].term <= term[i]

\* No entry follows one of a later term.
TermsAscend == \A a \in AllLinks : a[3] <= a[2].term

LogInv ==
    /\ LinksAgree
    /\ TermsElected
    /\ LeaderIsAhead
    /\ ElectedOnce
    /\ FirstHasNone
    /\ RequestsLed
    /\ TermsReached
    /\ TermsAscend

\* Votes, logs and the requests under way agree after every handler, crash and
\* failed RPC: the election invariant, and on top of it that an index and a term
\* determine an entry wherever it is stored or still to be delivered.
RaftInv == ElectionInv /\ LogInv

=============================================================================
