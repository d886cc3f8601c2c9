-------------------------- MODULE SnapshotTransfer --------------------------
(***************************************************************************)
(* The transfer of a snapshot from a leader to one follower, object by     *)
(* object, between the append requests that come before and after it:      *)
(* create_sync_snapshot_req, the install_snapshot handlers, the I/O thread *)
(* of snapshot_io_mgr, timeouts, failed RPCs, and leaders that follow each *)
(* other.                                                                  *)
(*                                                                         *)
(* A handler runs under lock_ and is one step.  Every entry is committed   *)
(* and the log of the follower is a prefix of the leader's, so a log is    *)
(* its first and last index and a snapshot is the last index it contains.  *)
(* One append request carries all the rest.  The last object is saved in   *)
(* one step and installed in another, since lock_ is released in between;  *)
(* CommitThread opens the installation.                                    *)
(***************************************************************************)
EXTENDS Naturals, FiniteSetsExt

CONSTANTS
    Objects,    \* the number of objects of a snapshot
    MaxIndex,   \* bound: the last log index
    MaxTerm,    \* bound: leaders that follow each other
    MaxFaults,  \* bound: faults of one behaviour
    MaxInstalls,\* bound: installations that wait for lock_ at a time
    Faults,     \* the kinds of faults
    Late,       \* the requests that may outlive their connection or be answered late
    None

ASSUME BoundAssumption ==
    /\ Objects \in Nat \ {0} /\ {MaxIndex, MaxTerm, MaxFaults, MaxInstalls} \subseteq Nat
    /\ Faults \subseteq {"timeout", "read", "lost", "orphan", "late", "crash", "decline", "behind"}
    /\ Late \subseteq {"append", "snapshot"}

VARIABLES
    bg,         \* use_bg_thread_for_snapshot_io_
    term,       \* the term of the leader
    log,        \* its log: [start, last]
    snp,        \* the index of its last_snapshot_, 0 for none
    peer,       \* its peer object for the follower
    queue,      \* snapshot_io_mgr: the element for this peer, or None
    io,         \* the I/O thread: [pc, obj]
    exited,     \* the leader called system_exit
    net,        \* requests and answers under way
    fol,        \* the follower
    faults,     \* faults so far
    strayed     \* history: the snapshots of which an object or an answer strayed

leaderVars == <<bg, term, log, snp, exited>>
ioVars == <<queue, io>>
vars == <<leaderVars, peer, ioVars, net, fol, faults, strayed>>

Fault(k) == k \in Faults /\ faults < MaxFaults /\ faults' = faults + 1
NoFault == UNCHANGED faults

Idle == [pc |-> "idle", obj |-> 0]

\* A peer as become_leader leaves it: sync is its snapshot_sync_ctx, down says that
\* its connection is gone, silent that its activity timer has run out.
NewPeer(l) ==
    [next |-> l.last + 1, needed |-> FALSE, busy |-> FALSE,
     conn |-> 0, down |-> FALSE, silent |-> FALSE, sync |-> None]

\* set_snapshot_in_sync: a context at the first object.
NewSync == [snp |-> snp, offset |-> 0, expired |-> FALSE]

\* The leader has a snapshot and the follower has less, or just as much.
Init ==
    /\ bg \in BOOLEAN
    /\ term = 1
    /\ log = [start |-> 2, last |-> 2]
    /\ snp = 1
    /\ peer = NewPeer(log)
    /\ queue = None
    /\ io = Idle
    /\ exited = FALSE
    /\ net = {}
    /\ fol \in {[term |-> 1, start |-> 1, last |-> i, commit |-> i, snp |-> 0,
                receiving |-> FALSE, saved |-> {}] : i \in {0, 1}}
    /\ faults = 0
    /\ strayed = {}

-----------------------------------------------------------------------------
(* The leader: request_append_entries, for a peer p and messages n as its  *)
(* caller leaves them.                                                     *)

SnapshotReq(p, s, k) ==
    [type |-> "snapshot", dir |-> "req", term |-> term, conn |-> p.conn, reader |-> TRUE,
     snp |-> s, obj |-> k, next |-> 0]

\* term_for_log knows the term of the entry before the log only from the snapshot.
AppendReq(p) ==
    [type |-> "append", dir |-> "req", term |-> term, conn |-> p.conn, reader |-> TRUE,
     prev |-> p.next - 1, upto |-> log.last,
     known |-> p.next > log.start \/ p.next - 1 = snp]

Leaves(p, n) == peer' = p /\ net' = n /\ NoFault /\ UNCHANGED <<queue, exited>>
Exits(p, n) == peer' = p /\ net' = n /\ exited' = TRUE /\ NoFault /\ UNCHANGED queue
Sends(p, n, m) ==
    /\ peer' = [p EXCEPT !.busy = TRUE]
    /\ net' = n \cup {m}
    /\ NoFault /\ UNCHANGED <<queue, exited>>

\* create_sync_snapshot_req keeps a context that has passed the first object, even
\* when there is a newer snapshot, until it times out.
Fresh(p) == IF p.sync = None THEN TRUE ELSE p.sync.expired \/ p.sync.offset = 0

\* mutant: a newer snapshot goes on at the old offset.
SyncForOldOffset(p) ==
    IF p.sync = None THEN [p EXCEPT !.sync = NewSync]
    ELSE [p EXCEPT !.sync = [NewSync EXCEPT !.offset = p.sync.offset]]
SyncFor(p) == IF Fresh(p) THEN [p EXCEPT !.sync = NewSync] ELSE p

\* The object is read here, or by the I/O thread.
CreateSyncSnapshotReq(p, n) ==
    LET q == SyncFor(p) IN
    IF Fresh(p) /\ p.next - 1 > snp THEN Exits(p, n)
    ELSE \/ bg /\ peer' = q /\ queue' = q.sync /\ net' = n /\ NoFault /\ UNCHANGED exited
         \/ ~bg /\ Sends(q, n, SnapshotReq(q, q.sync.snp, q.sync.offset))
         \/ /\ ~bg /\ Fault("read")
            /\ peer' = [q EXCEPT !.sync = None]
            /\ net' = n /\ UNCHANGED <<queue, exited>>

\* create_append_entries_req.
CreateAppendEntriesReq(q, n) ==
    LET p == [q EXCEPT !.next = IF @ = 0 THEN log.last + 1 ELSE @]
        bySnapshot == snp > 0 /\ (p.needed \/ (p.next - 1 < log.start /\ p.next - 1 < snp))
    IN IF p.next > log.last + 1 THEN Exits(p, n)
       ELSE IF p.next >= log.start /\ ~p.needed THEN Sends(p, n, AppendReq(p))
       ELSE IF bySnapshot THEN CreateSyncSnapshotReq(p, n)
       ELSE Leaves(p, n)

\* A new connection: what was known of the follower's log is forgotten.
Connected(p) ==
    IF p.down \/ p.silent
    THEN [p EXCEPT !.down = FALSE, !.silent = FALSE, !.busy = FALSE, !.conn = @ + 1,
                   !.next = 0]
    ELSE p

\* check_snapshot_timeout.
CheckSnapshotTimeout(p) ==
    IF p.sync = None THEN p
    ELSE IF p.sync.expired THEN [p EXCEPT !.sync = None] ELSE p

RequestAppendEntries(q, n) ==
    LET p == Connected(q) IN
    \/ queue # None /\ Leaves(p, n)
    \/ queue = None /\ p.busy /\ Leaves(CheckSnapshotTimeout(p), n)
    \/ queue = None /\ ~p.busy /\ CreateAppendEntriesReq(p, n)

\* handle_hb_timeout.
Heartbeat ==
    /\ ~exited
    /\ RequestAppendEntries(peer, net)
    /\ UNCHANGED <<bg, term, log, snp, io, fol, strayed>>

-----------------------------------------------------------------------------
(* The I/O thread: async_io_loop.                                          *)

\* The offset is read under the lock of the peer.
IoBegin ==
    /\ ~exited /\ io.pc = "idle" /\ queue # None
    /\ io' = [pc |-> "read", obj |-> queue.offset]
    /\ UNCHANGED <<leaderVars, queue, peer, net, fol, faults, strayed>>

\* The object is read without a lock, then sent under lock_.  With the peer busy the
\* element stays in the queue, with the connection gone it is lost.
IoSend ==
    /\ ~exited /\ io.pc = "read"
    /\ \/ /\ Fault("read")
          /\ peer' = [peer EXCEPT !.sync = None]
          /\ io' = [io EXCEPT !.pc = "remove"]
          /\ UNCHANGED <<net, queue, exited>>
       \/ /\ ~peer.busy
          /\ IF peer.down THEN Leaves(peer, net)
             ELSE Sends(peer, net, SnapshotReq(peer, queue.snp, io.obj))
          /\ io' = [io EXCEPT !.pc = "remove"]
       \/ /\ peer.busy
          /\ Leaves(peer, net)
          /\ io' = Idle
    /\ UNCHANGED <<bg, term, log, snp, fol, strayed>>

IoRemove ==
    /\ ~exited /\ io.pc = "remove"
    /\ queue' = None
    /\ io' = Idle
    /\ UNCHANGED <<leaderVars, peer, net, fol, faults, strayed>>

-----------------------------------------------------------------------------
(* The follower.                                                           *)

Answers(m, ok, k, done, order) ==
    net' = (net \ {m}) \cup (IF ~m.reader THEN {} ELSE
      {[type |-> m.type, dir |-> "resp", conn |-> m.conn, reader |-> TRUE,
        ok |-> ok, next |-> k, done |-> done, order |-> order]})

Declines(m, order) == Answers(m, FALSE, fol.last + 1, FALSE, order)

IsRequest(m, type) == m \in net /\ m.dir = "req" /\ m.type = type
Updated(m) == [fol EXCEPT !.term = Max({@, m.term})]
IsLast(m) == m.obj = Objects - 1
Installing == {m \in net : m.dir = "installing"}

\* The message was sent on a connection the leader has given up, or in an earlier
\* reign of another leader; or it is handled after another one was sent.
Strays(m) == ~m.reader \/ m.conn # peer.conn \/ m.dir = "arrived"

\* save_logical_snp_obj; the first object of a snapshot starts it over.
Saved(m) ==
    {o \in fol.saved : m.obj # 0 \/ o[1] # m.snp} \cup {<<m.snp, m.obj>>}

\* handle_snapshot_sync_req up to the release of lock_.
Received(m) == [Updated(m) EXCEPT !.receiving = TRUE, !.saved = Saved(m)]

\* handle_install_snapshot_req.  The last object is not answered yet; the answer has
\* the next_slot of now if it is a refusal.
HandleInstallSnapshotReq(m) ==
    /\ IsRequest(m, "snapshot")
    /\ \/ /\ m.term < fol.term \/ m.snp <= fol.commit
          /\ fol' = Updated(m)
          /\ Declines(m, FALSE)
          /\ NoFault /\ UNCHANGED strayed
       \/ /\ m.term >= fol.term /\ m.snp > fol.commit
          /\ fol' = Received(m)
          /\ IF IsLast(m)
               THEN net' = (net \ {m}) \cup {[m EXCEPT !.dir = "installing", !.next = fol.last + 1]}
               ELSE Answers(m, TRUE, m.obj + 1, FALSE, FALSE)
          /\ IsLast(m) => Cardinality(Installing) < MaxInstalls
          /\ strayed' = strayed \cup {x \in {m.snp} : Strays(m)}
          /\ NoFault
       \/ /\ m.term >= fol.term /\ m.snp > fol.commit
          /\ Fault("decline")
          /\ fol' = Updated(m)
          /\ Declines(m, FALSE)
          /\ UNCHANGED strayed
    /\ UNCHANGED <<leaderVars, peer, ioVars>>

\* The objects that an installation can still need.
Unused(m) ==
    IF Installing = {m} THEN {o \in fol.saved : o[1] > m.snp} ELSE fol.saved

\* mutant: the flag is not cleared.
InstalledKeepsFlag(m) ==
    [fol EXCEPT !.snp = m.snp, !.saved = Unused(m), !.start = Max({@, m.snp + 1}),
                !.last = Max({@, m.snp}), !.commit = m.snp]

\* The rest of handle_snapshot_sync_req: the log is compacted, the snapshot applied, the
\* indexes set.
Installed(m) ==
    [fol EXCEPT !.receiving = FALSE, !.snp = m.snp, !.saved = Unused(m),
                !.start = Max({@, m.snp + 1}), !.last = Max({@, m.snp}), !.commit = m.snp]

\* lock_ is taken again after other requests.  The log may refuse to be compacted.
Install(m) ==
    /\ m \in Installing
    /\ \/ /\ fol' = Installed(m)
          /\ Answers(m, TRUE, m.obj + 1, TRUE, FALSE)
          /\ strayed' = IF Installing = {m} THEN strayed \ {m.snp} ELSE strayed
          /\ NoFault
       \/ /\ Fault("decline")
          /\ fol' = [fol EXCEPT !.receiving = FALSE]
          /\ Answers(m, FALSE, m.next, FALSE, FALSE)
          /\ UNCHANGED strayed
    /\ UNCHANGED <<leaderVars, peer, ioVars>>

\* log_okay of handle_append_entries.
LogOkay(m) ==
    m.prev = 0 \/ (m.known /\ m.prev <= fol.last /\ (m.prev >= fol.start \/ m.prev = fol.snp))

HandleAppendEntries(m) ==
    /\ IsRequest(m, "append")
    /\ IF m.term < fol.term \/ ~LogOkay(m) \/ fol.receiving
         THEN fol' = Updated(m) /\ Declines(m, fol.receiving)
         ELSE /\ fol' = [Updated(m) EXCEPT !.last = Max({@, m.upto}), !.commit = Max({@, m.upto})]
              /\ Answers(m, TRUE, m.upto + 1, FALSE, FALSE)
    /\ UNCHANGED <<leaderVars, peer, ioVars, faults, strayed>>

\* A restart, maybe before an installation: the log, the objects and the receiving flag are durable; the state
\* machine has some of the committed entries.
Restart ==
    /\ Fault("crash")
    /\ \E c \in fol.snp .. fol.commit : fol' = [fol EXCEPT !.commit = c]
    /\ net' = {m \in net : m.dir = "arrived"}
    /\ UNCHANGED <<leaderVars, peer, ioVars, strayed>>

-----------------------------------------------------------------------------
(* The leader: answers.                                                    *)

\* handle_rpc_result: an answer on the present connection frees the peer ...
Freed(m) == [peer EXCEPT !.busy = @ /\ m.conn # peer.conn, !.silent = FALSE]

\* ... before the handler has lock_: another request may come first.
Arrive(m) ==
    /\ m \in net /\ m.dir = "resp" /\ m.type \in Late
    /\ Fault("late")
    /\ peer' = Freed(m)
    /\ net' = (net \ {m}) \cup {[m EXCEPT !.dir = "arrived"]}
    /\ UNCHANGED <<leaderVars, ioVars, fol, strayed>>

IsAnswer(m, type) == ~exited /\ m \in net /\ m.type = type /\ m.dir \in {"resp", "arrived"}
PeerAfter(m) == IF m.dir = "resp" THEN Freed(m) ELSE peer

\* The end of a handler: more is need_to_catchup.
CatchUp(p, m, more) ==
    IF more THEN RequestAppendEntries(p, net \ {m}) ELSE Leaves(p, net \ {m})

\* The transfer is done: next_log_idx_, and matched_idx_ below it, come from the
\* snapshot of the context, not from the answer.
SyncDone(p) == [p EXCEPT !.next = p.sync.snp + 1, !.sync = None, !.needed = FALSE]

\* set_offset, which resets the timer; an element in the queue shares the context.
SetOffset(c, k) == [c EXCEPT !.offset = k, !.expired = @ /\ c.offset = k]
NextObject(p, m) ==
    LET q == [p EXCEPT !.sync = SetOffset(@, m.next)] IN
    IF queue = None THEN CatchUp(q, m, TRUE)
    ELSE /\ peer' = Connected(q) /\ net' = net \ {m}
         /\ queue' = SetOffset(queue, m.next)
         /\ NoFault /\ UNCHANGED exited

SyncDeclined(p, k) == [p EXCEPT !.next = k, !.sync = None]

\* handle_install_snapshot_resp.
HandleInstallSnapshotResp(m) ==
    LET p == PeerAfter(m) IN
    /\ IsAnswer(m, "snapshot")
    /\ strayed' = IF m.ok /\ p.sync # None /\ Strays(m) THEN strayed \cup {p.sync.snp} ELSE strayed
    /\ IF ~m.ok THEN CatchUp(SyncDeclined(p, m.next), m, m.next <= log.last)
       ELSE IF p.sync = None THEN CatchUp(p, m, FALSE)
       ELSE IF m.done THEN CatchUp(SyncDone(p), m, p.sync.snp < log.last)
       ELSE NextObject(p, m)
    /\ UNCHANGED <<bg, term, log, snp, io, fol>>

\* handle_append_entries_resp.
Rejected(p, m) ==
    IF p.next > m.next THEN [p EXCEPT !.next = m.next]
    ELSE [p EXCEPT !.needed = @ \/ m.order, !.next = IF @ = 0 THEN 0 ELSE @ - 1]

HandleAppendEntriesResp(m) ==
    LET p == PeerAfter(m) IN
    /\ IsAnswer(m, "append")
    /\ IF m.ok
         THEN CatchUp([p EXCEPT !.next = m.next], m, m.next <= log.last)
         ELSE CatchUp(Rejected(p, m), m, TRUE)
    /\ UNCHANGED <<bg, term, log, snp, io, fol, strayed>>

\* The requests of M that go on when nobody waits for their answer.
Orphans(M, late) ==
    {[m EXCEPT !.reader = FALSE, !.conn = 0] :
       m \in {x \in M : x.dir = "installing" \/ (late /\ x.dir = "req" /\ x.type \in Late)}}

\* The request fails: the message is lost, or only its answer is.
RpcFails ==
    LET mine == {m \in net : m.conn = peer.conn /\ m.reader /\ m.dir # "arrived"}
        p == CheckSnapshotTimeout(peer)
    IN
    /\ ~exited /\ peer.busy
    /\ IF mine = {} THEN NoFault ELSE Fault("lost")
    /\ \E late \in {FALSE, "orphan" \in Faults} : net' = (net \ mine) \cup Orphans(mine, late)
    /\ peer' = [p EXCEPT !.busy = FALSE, !.down = TRUE, !.silent = FALSE,
                        !.needed = FALSE]
    /\ UNCHANGED <<leaderVars, ioVars, fol, strayed>>

\* Time passes: the context times out; the connection is silent for too long.
Expire ==
    /\ peer.sync # None
    /\ ~peer.sync.expired
    /\ Fault("timeout")
    /\ peer' = [peer EXCEPT !.sync.expired = TRUE]
    /\ UNCHANGED <<leaderVars, ioVars, net, fol, strayed>>

Silence ==
    /\ peer.busy /\ ~peer.silent
    /\ \A m \in net : m.conn = peer.conn /\ m.reader => m.type \in Late
    /\ Fault("late")
    /\ peer' = [peer EXCEPT !.silent = TRUE]
    /\ UNCHANGED <<leaderVars, ioVars, net, fol, strayed>>

-----------------------------------------------------------------------------
(* The leader: entries, snapshots, elections.                              *)

Commit ==
    /\ ~exited /\ log.last < MaxIndex
    /\ log' = [log EXCEPT !.last = @ + 1]
    /\ UNCHANGED <<bg, term, snp, exited, peer, ioVars, net, fol, faults, strayed>>

\* snapshot_and_compact and on_snapshot_completed; reserved_log_items_ decides how
\* much of the log is kept.
CreateSnapshot ==
    /\ ~exited /\ snp < log.last
    /\ snp' = log.last
    /\ \E s \in {log.start, log.last + 1} : log' = [log EXCEPT !.start = s]
    /\ UNCHANGED <<bg, term, exited, peer, ioVars, net, fol, faults, strayed>>

\* become_leader of the same server, or of another one, with its own snapshot.  The
\* requests of the old one may still arrive.
LeaderAgain ==
    /\ ~exited
    /\ peer' = [peer EXCEPT !.next = log.last + 1, !.needed = FALSE, !.sync = None]
    /\ UNCHANGED <<log, snp, ioVars, net>>

LeaderElse ==
    /\ \E s \in 0 .. log.last : \E t \in {1, s + 1} :
          /\ "behind" \notin Faults => s >= snp /\ t = s + 1
          /\ snp' = s
          /\ log' = [log EXCEPT !.start = t]
    /\ peer' = NewPeer(log)
    /\ queue' = None /\ io' = Idle
    /\ net' = Orphans(net, TRUE)

BecomeLeader ==
    /\ term < MaxTerm
    /\ term' = term + 1
    /\ exited' = FALSE
    /\ LeaderAgain \/ LeaderElse
    /\ \E t \in {fol.term, term'} : fol' = [fol EXCEPT !.term = t]
    /\ UNCHANGED <<bg, faults, strayed>>

Deliver ==
    \E m \in net :
      \/ HandleInstallSnapshotReq(m) \/ HandleAppendEntries(m)
      \/ HandleInstallSnapshotResp(m) \/ HandleAppendEntriesResp(m)

Next ==
    \/ Heartbeat \/ IoBegin \/ IoSend \/ IoRemove \/ Deliver
    \/ \E m \in net : Install(m)
    \/ RpcFails \/ Expire \/ Silence \/ Restart
    \/ \E m \in net : Arrive(m)
    \/ Commit \/ CreateSnapshot \/ BecomeLeader

Spec == Init /\ [][Next]_vars

\* Heartbeats go on, the I/O thread runs, messages that are not lost are handled,
\* and a request whose message or answer is lost fails in the end.
NoMessage == \A m \in net : m.conn # peer.conn \/ ~m.reader
FairSpec ==
    /\ Spec
    /\ WF_vars(Heartbeat) /\ WF_vars(IoBegin) /\ WF_vars(IoSend) /\ WF_vars(IoRemove)
    /\ WF_vars(Deliver) /\ WF_vars(\E m \in net : Install(m))
    /\ WF_vars(NoMessage /\ RpcFails)

-----------------------------------------------------------------------------
(* Properties.                                                             *)

Complete(m) == {m.snp} \X (0 .. Objects - 1) \subseteq fol.saved

\* "TODO: check if there is missing object." (handle_install_snapshot_req): the
\* follower installs whatever carries the mark of the last object, and releases
\* lock_ before it does.  Although contexts time out, are cleared and replaced by
\* newer snapshots, the follower restarts and leaders change in the middle of a
\* transfer, all objects of a snapshot that is about to be applied were saved since
\* its first one, with one exception: the last object or another request for it
\* outlived its connection, or an answer was handled after another request was sent.
AppliedComplete == \A m \in Installing : Complete(m) \/ m.snp \in strayed \/ Strays(m)

\* The same without the exception: it fails, see the README.
AlwaysComplete == \A m \in Installing : Complete(m)

\* matched_idx_, which counts for the commit index: the context that the answer to the
\* last object meets is of a snapshot that the follower holds.  It fails when the
\* answer strays, see the README.
MatchedIsStored ==
    \A m \in net :
      IsAnswer(m, "snapshot") /\ m.ok /\ m.done /\ peer.sync # None => peer.sync.snp <= fol.last

CaughtUp == fol.last = log.last /\ ~fol.receiving

\* The leader sends again and again a snapshot that the follower has: its answer
\* does not reset snapshot_sync_is_needed.
SentInVain == peer.needed /\ ~fol.receiving /\ snp <= fol.commit

\* Once faults and elections end, a follower that lost part of a transfer, restarted
\* with the receiving flag set or meets another leader gets the rest and follows
\* the log again.  There are two exceptions, SyncEnds and LeaderSurvives are about
\* them: the leader sends in vain, or has exited.
CatchesUp == <>[]CaughtUp \/ <>[]SentInVain \/ <>[]exited

\* "Put dummy CTX to end the snapshot sync." (handle_install_snapshot_req): the
\* refusal of a snapshot that is not needed ends the transfer.
SyncEnds == <>[](CaughtUp \/ exited)

\* "Cannot recover using snapshot. Return here to protect the leader."
\* (create_append_entries_req): no follower makes the leader exit.
LeaderSurvives == ~exited

\* The I/O thread reads an object with the user context of the transfer, which
\* clear_snapshot_sync_ctx frees: it does not do so meanwhile.
ContextInUse == io.pc = "read" => peer.sync # None

=============================================================================
