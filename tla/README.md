# Verification of xio

xio is a networking library: an asynchronous I/O core (`src/xio/`, derived from
Asio) and a Raft consensus library on top of it (`src/xio/raft/`, derived from
NuRaft). This directory holds TLA+ specifications of the parts of both
where concurrency, failures and ordering decide correctness, the TLC
instances that check them, and TLAPS proofs of the results that matter most.

All of it is translated from the code. File and line of every definition are in
`PROJECT.json` under `map`.

## 1. The system

### Raft (`src/xio/raft`)

One `raft_server` has these threads of control:

* **RPC threads** of the I/O service. They run `process_req` and
  `handle_peer_resp` under the recursive mutex `lock_`. Timers (`handle_hb_timeout`,
  `handle_election_timeout`) run there too.
* **Client threads** in `append_entries`. They take `cli_lock_`, store their
  entries and pre-commit them, insert a result element into `commit_ret_elems_`
  and wait, or return an asynchronous result.
* **The commit thread** (`commit_in_bg`). It holds neither lock. It compares
  `sm_commit_index_` with `quick_commit_index_`, executes entries and answers.
* **The append thread** (`append_entries_in_bg`). It sleeps on an `EventAwaiter`
  and sends append requests for all peers.
* **Global workers** (`global_mgr.cc`), instead of the two threads above, when a
  process has many Raft servers.
* **The snapshot I/O thread** (`snapshot_sync_ctx.cc`), which reads and sends the
  objects of a snapshot if `use_bg_thread_for_snapshot_io_` is set.
* **User threads** that pause and resume the state machine, wait for an index of
  it, yield leadership, add and remove servers, or shut down.

| Part | Source | State | Operations | What makes it hard | What must hold |
|---|---|---|---|---|---|
| Election | `handle_vote.cc`, `raft_server.cc` | role, term, vote, vote counters | `initiate_vote`, vote request and response, `update_term`, `become_leader`, `become_follower` | votes are counted, not collected; late and repeated answers; crash around `save_state` | one vote per server and term, one leader per term |
| Replication | `handle_append_entries.cc` | log, `next_log_idx_`, `matched_idx_`, pre-commit and commit index | append request and response, overwrite, commit index | responses of an earlier term are handled; `matched_idx_` survives a reign; entries of old terms are committed by count | logs match, committed entries stay, no index beyond what was checked |
| RPC clients | `peer.cc`, `peer.h` | busy flag, RPC client | send, result, failure, reconnection | the peer is free before its response is handled; an RPC fails after it was delivered | the two rows above, in spite of it |
| Client requests | `handle_client_request.cc`, `handle_commit.cc`, `async.h` | `commit_ret_elems_`, results | store, pre-commit, insert, wait, take, answer, cancel | commit thread ahead of the client; timeouts; loss of the lead; an index used again | OK only for executed entries, everybody answered, pre-commit before commit |
| Commit thread | `handle_commit.cc` | indexes, pause flags, condition variable | check, wait, execute, advance, notify | two flags without a lock; notification before the sleep | every entry once and in order, nothing lost, stops when told |
| Snapshot installation | `handle_snapshot_sync.cc` | log range, state machine, indexes | pause, compact, apply, set indexes, resume | `lock_` released in the middle | exclusive with the commit thread, never backwards |
| `EventAwaiter` | `event_awaiter.h` | atomic status, mutex, condition variable | `reset`, `wait`, `invoke` | a fast path outside the mutex | no lost wake-up |
| Pre-vote, priorities | `handle_vote.cc`, `handle_priority.cc` | live, dead and abandoned counters, target priority | pre-vote round, priority decay | counters of an old round meet answers of a new one | a partitioned server does not disturb, a leader is elected eventually |
| Snapshot transfer | `handle_snapshot_sync.cc`, `snapshot_sync_ctx.cc` | transfer context per peer | create, send object, answer, time out | timeouts against late answers; newer snapshots and other leaders during a transfer | no object missing, the follower catches up |
| Membership | `handle_join_leave.cc`, `handle_commit.cc` | configurations, joining and leaving server | invite, catch up, add, leave, reconfigure | uncommitted configurations are used and rolled back | quorums of neighbouring configurations meet |
| Leadership transfer | `raft_server.cc`, `handle_custom_notification.cc` | write pause, candidate for the lead | yield, request, time out | an election or a second call comes first | writes resume |
| Global workers | `global_mgr.cc` | two queues, worker status | request, work, close | dedupe against a worker that is just done | no request dropped |
| Request forwarding | `handle_user_cmd.cc` | idle RPC clients per leader, waiting requests | forward, answer, release | limits and errors of the pool | every request answered |
| Transport, timers, serialisation, statistics | `xio_service.cc`, `launcher.cc`, `buffer*.cc`, `stat_mgr.cc` | sessions, buffers | | bytes and sockets | left to tests |

### I/O core (`src/xio`)

* **The scheduler** of `io_context` (`detail/impl/scheduler.cc`): a queue of
  operations shared by the threads in `run`, one of which is in the reactor. It
  counts outstanding work, wakes as few threads as possible, and keeps private
  queues per thread. Hard: the signal comes after the unlock; the reactor is
  itself an operation in the queue; descriptor operations are work only for a
  moment. What must hold: no wake-up is lost, no operation is lost or run twice,
  `run` returns only without work.
* **Strands** (`detail/impl/strand_executor_service.cc`): handlers one at a time, in
  order, on any threads. Hard: the queue of ready handlers is used without the
  mutex; handlers throw; the last handler leaves while another comes.
* Reactors and timer queues, signal sets, the resolver pool, channels and parallel
  groups (`experimental/`), cancellation slots, and the large header-only surface
  of executors, buffers, sockets and TLS: compile-time plumbing or layers over the
  operating system, apart from the part of `epoll_reactor` that the scheduler
  relies on.

`src/tests`, `src/examples`, `src/benchmark` and `src/refs` hold no logic of
their own. They are used as documentation of what the code is meant to do.

## 2. The modules

| Module | Models | Extends |
|---|---|---|
| `RaftCore` | election, replication, commit index, RPC clients, crashes, for a fixed cluster | |
| `MCRaftCore` | its instances | `RaftCore` |
| `RaftCoreProofs` | proofs about it: elections and logs | `RaftCore` |
| `ClientCommit` | client requests of one server against its commit thread | |
| `MCClientCommit` | its instances | `ClientCommit` |
| `ClientCommitProofs` | proofs about it | `ClientCommit` |
| `CommitThread` | commit thread, pause, snapshot installation, watchers, shutdown | |
| `MCCommitThread` | its instances | `CommitThread` |
| `CommitThreadProofs` | proofs about it | `CommitThread` |
| `EventAwaiter` | the awaiter, as operators on a set of threads | |
| `BackgroundAppend` | awaiter + append thread + clients + shutdown | `EventAwaiter` |
| `BackgroundAppendProofs` | proofs about it | `BackgroundAppend` |
| `PauseWait` | awaiter + commit thread + threads that wait for a pause | `EventAwaiter` |
| `GlobalMgr` | the queues and workers shared by Raft servers, with `commit_in_bg_exec` | |
| `MCGlobalMgr` | its instances | `GlobalMgr` |
| `GlobalMgrProofs` | proofs about it | `GlobalMgr` |
| `SnapshotTransfer` | leader, I/O thread and follower while a snapshot is sent | |
| `SerialExecutor` | abstract: what a strand promises | |
| `Strand` | `strand_executor_service`, a refinement of `SerialExecutor` | |
| `StrandProofs` | the invariant and the refinement, proved | `Strand` |
| `Scheduler` | scheduler, event, reactor task and one descriptor of `epoll_reactor` | |
| `SchedulerProofs` | proofs about it: wake-ups, places of operations | `Scheduler` |
| `SchedulerWorkProofs` | proofs about it: the count of work | `SchedulerProofs` |

**RaftCore.** Variables keep the names of the members. Every handler runs under
`lock_`, so each is one action with all that it calls (`become_leader` includes
the configuration entry and the append requests it sends). A message belongs to
an RPC of a client server. Its `conn` says whether the response still frees the
peer (`busy`), is only handled (`detached`, after `peer.cc` freed the peer early
or the RPC client was replaced), or has no reader (`orphan`). Messages of
different RPCs are delivered in any order. `saved` is what `save_state` made
durable; `Restart` starts from it, from the log, and from any state machine
index up to the commit index. `ballots`, `elected` and `committed` are history
variables that only the properties read. The cluster has voting members of equal
priority, no learner and default options. The pre-vote round is its effect: the
role becomes candidate, RPC clients are replaced. The election itself does not
wait for the answers, so RaftCore allows more elections than the code.

**ClientCommit.** One server. A section under `cli_lock_` holds the variable
`cli_lock`; a section under `commit_ret_elems_lock_` is one step; the commit
thread is interleaved between its own steps. The rest of the cluster is what it
can do to this log: commit a prefix, and overwrite the uncommitted rest while
this server does not lead. Payloads are the identity of the client.

**CommitThread.** Accesses to `sm_commit_paused_` and
`sm_commit_exec_in_progress_` are separate steps, `commit_cv_` is modelled with
its mutex, and a sleeper is only woken by a notification (the code also wakes it
by a timeout only when global workers are used). The log is its range of indexes,
the state machine the index that its contents reflect. `receiving` is the flag that
makes `handle_append_entries` refuse, from the last object of a snapshot until `lock_`
is taken again. Installations and users repeat as often as they like; `held` are the
users whose pause nobody has resumed. A request counts as handled before a shutdown if it
passed the check of `stopping_` in `process_req` before it. A watcher may register at any
time, also after shutdown has dropped the others.

**EventAwaiter, BackgroundAppend, PauseWait.** One atomic access or one critical
section per step, because the awaiter's purpose is to be right between those.
Spurious wake-ups are included. The time-outs of `wait_us` are not: both users
modelled here wait without limit, so a lost wake-up shows. (`handle_snapshot_sync_req`
waits in steps of 500 ms and looks again; a lost wake-up costs it one of them.)

**GlobalMgr.** A section under a queue lock is one step; the walk over the workers
that looks for a sleeping one is a step per worker. The awaiter of a worker is its
flag, since `EventAwaiter` has its inside; the time limit of `wait_ms(1000)` is a
wake-up that may come at any time. `commit_in_bg_exec` is opened into its checks,
`try_lock`, its loop with the time slice, and the unlock. `Config` lists what one
behaviour may have of commits, appends, pauses and shutdowns.

**SnapshotTransfer.** One leader at a time and one follower. All entries are committed
and the follower's log is a prefix, so logs are ranges and a snapshot is an index; what
is left is who believes what of whom. `peer` has the fields of the `peer` object that
the handlers use (`next_log_idx_`, `snapshot_sync_is_needed_`, the busy
flag, the RPC client and the `snapshot_sync_ctx`), `queue` and `io` the element and the
place of the I/O thread, `fol.saved` the objects in the state machine of the follower.
The last object is saved in one step and installed in another (`Install`), because
`handle_snapshot_sync_req` releases `lock_` in between; other requests may come first.
`request_append_entries` is an operator on the peer and the messages, because the
handlers call it at their end. Faults are named by `Faults`: the context times out, an
object cannot be read, a request is lost before or after it is handled (`lost`,
`orphan`), an answer is handled late (`late`, for the types in `Late`), the follower
crashes or refuses an object, a new leader has an older snapshot (`behind`).
`BecomeLeader` is the same server again, whose peer object survives, or another one,
which starts without any; requests of the old one may still arrive. The answers of the
state machine are external.

**SerialExecutor, Strand.** The abstract executor has the pending handlers in their
order and the running one. In `Strand` a thread has a place in a call and a place in
an invoker, since handlers call `post` and `dispatch` too. The refinement mapping is
the operation between its enqueue and its push, then `ready_queue_`, then
`waiting_queue_`.

**Scheduler.** What is done under `mutex_` is one step; the signal after the unlock,
each access to `outstanding_work_`, the blocking of the reactor, the handler, and
each of the two cleanups are steps of their own. The reactor is `epoll_reactor` with
one descriptor: it may return the descriptor operation, whose `perform_io` completes
operations and compensates the count of work. Handlers may give operations, throw, or
never return.

## 3. The runs

Passing runs:

| Run | Instance | States | Shows |
|---|---|---|---|
| `RaftElections` | 3 servers, 3 elections, no fault | 80,549 | one leader per term, matching logs, nothing committed is lost or contradicted, no peer is believed ahead |
| `RaftFaults` | 3 servers, 2 elections, one entry per append; a request and a heartbeat, or 1 fault anywhere | 153,348 | the inductive invariant of the proofs, one entry per index, commit behind pre-commit; over crash, failed RPC, reconnection, resignation |
| `ClientResults` | 2 clients, blocking with timeouts or asynchronous, 2 role changes, 1 overwrite, 1 configuration | 535,573 | OK means executed, pre-commit first, a waiter stays reachable |
| `ClientAnswers` | 2 clients, blocking or asynchronous, a lead gained and lost | 63,758 | an executed request is answered |
| `Commit` | a thread that installs snapshots one after another, a user that pauses and resumes again and again, 1 watcher; shutdown at any time; 3 indexes | 66,019 | the inductive invariant of the proofs, exclusive, in order, no old snapshot is applied, a confirmed pause holds, no notification is lost, the watcher is told, shutdown ends |
| `BackgroundAppend` | 2 clients, shutdown | 3,045 | no lost wake-up, work is sent, the thread stops |
| `GlobalWorkers` | 1 server, up to 2 commit workers and 1 append worker, 2 commits or appends, a pause, a shutdown | 88,350 | queues and sets agree, index after index is executed, requests are taken, committed entries executed, stored ones sent |
| `SnapshotTransfer` | 2 objects, 3 indexes, 2 reigns, 1 fault, with and without the I/O thread, requests between the last object and its installation | 583,153 | only complete snapshots are applied unless a message strays, and the follower catches up |
| `Strand` | 3 threads, 4 handlers, shutdown | 3,865 | the strand implements the serial executor, and every handler runs |
| `Scheduler` | 2 threads in `run`, `poll` or `wait_one`, 1 that posts and stops, 2 operations, with exceptions | 291,561 | the inductive invariant of the proofs, the count of work is zero only without work, an operation is in one place, no wake-up is lost, an operation is taken although other handlers never return |

Two runs show a disagreement between the code and what the repository says of it. Each
checks one sentence of a comment, quoted in `PROJECT.json` under `findings`:

| Run | What happens |
|---|---|
| `RaftOneEntryAppends` | `get_expected_committed_log_idx` ignores terms. With `max_append_size_` = 1 a leader commits an entry of an earlier term that a later leader overwrites. With batches large enough to carry the leader's own entry as well (`RaftElections`) it does not happen within the bounds. The search is led to the place by `ThirdReignCommits`, which only leaves behaviours out. |
| `PauseWaitTwo` | Two threads pause the state machine and wait for it. The second one's `reset()` in `wait_for_state_machine_pause` makes the awaiter idle while the first is asleep on it, the `invoke()` of the commit thread takes it that nobody waits, and the first is never woken. With one thread (`Pauser = {p1}`, `Thread = {p1, Committer}`) the property holds. |

More properties that comments of the code claim fail on other instances. They are
not kept as runs; to see them, change the configuration as given (TLC answers within
seconds, at most a few minutes):

| Property | Configuration | What happens |
|---|---|---|
| `CommittedIsAnswered` | `ClientAnswers`, `ReturnMethod = {"async_handler"}`, `MaxRoleChanges = 1`, `MaxOther = 1`, `MaxConf = 0` | the commit thread reads the role once per execution (`handle_commit.cc:223`); a request of a reign that begins meanwhile is executed and not answered |
| `OkHasValue` | `ClientResults` | value and result code are read in two sections (`handle_client_request.cc:249`); a timed-out request returns OK with a null value |
| `ResultStays` | `ClientAnswers` | a delivered asynchronous OK is turned into CANCELLED by the next loss of the lead (`handle_client_request.cc:311`) |
| `BatchIsWhatWasWritten` | `ClientResults`, `BatchSize = 2` | a configuration entry inside a batch shifts the range passed to `end_of_append_batch` (`handle_client_request.cc:137`) |
| `WaiterReachable` | `ClientResults`, `MaxRoleChanges = 3` | a late client erases the element of another client at the same index (`handle_client_request.cc:224`) |
| `InstallExclusive`, `SnapshotIsNewer`, `InOrder` | `Commit`, `Overlap = TRUE`, `Installer = {i1, i2}`, `User = {}`, `Watcher = {}`, `MayStop = FALSE` | two snapshots wait for `lock_` at a time, since the receiving flag refuses appends and not snapshots: the end of one installation resumes the commit thread during the other (`handle_snapshot_sync.cc:540`), and the older snapshot may be applied last |
| `InstallExclusive`, `InOrder` | `Commit`, `Overlap = TRUE`, `Watcher = {}`, `MayStop = FALSE` | one pause flag: a user resumes the commit thread during an installation (`handle_commit.cc:1193`) |
| `EveryWatcherIsTold` | `Commit`, `User = {}`, `MayStop = FALSE` | a watcher of an index that a snapshot covers is not told (`handle_snapshot_sync.cc:595`) |
| `NoWatcherLeft` | `Commit` | a watcher that registers after `shutdown` has dropped the others (`raft_server.cc:520`) is never told: `wait_for_state_machine_commit` does not look at `stopping_` |
| `CommitExecuted` | `GlobalWorkers`, `SPECIFICATION Spec` (no heartbeats) | a commit request finds `commit_lock_` taken and is dropped, but its owner has left the loop (`handle_commit.cc:184`, "we can just ignore it"); the entry waits for the next `commit()` |
| `SyncEnds` | `SnapshotTransfer`, `Faults = {"timeout"}` | the context times out while the follower installs the last object, so the answer "done" finds none; `snapshot_sync_is_needed_` stays set, the refusals of the follower do not reset it, and the snapshot is sent again and again until the connection fails or the leader changes |
| `LeaderSurvives` | `SnapshotTransfer`; or with `Faults = {"behind"}`, `MaxFaults = 0` | a follower that is receiving a snapshot demands one (`snapshot_sync_is_needed_`) of a leader that takes it to be beyond its own snapshot, because rejections rewound `next_log_idx_` to 0 or the leader is new and has an older snapshot; `create_sync_snapshot_req` exits with N16 (`handle_snapshot_sync.cc:114`) |
| `MatchedIsStored` | `SnapshotTransfer`, `Faults = {"late"}`, `MaxTerm = 1` | the "done" of an old transfer is handled late and credited to the context of a newer snapshot (`handle_snapshot_sync.cc:357`); `peer.cc:124` logs "will ignore this response" of an answer on an old connection, and it is handled all the same |
| `AlwaysComplete` | `SnapshotTransfer`, `Faults = {"lost", "orphan"}`, `MaxTerm = 1` | a request with the first object arrives after its connection has failed and the last object was saved, but not installed; it starts the snapshot over in the state machine, and the snapshot is applied without the rest (`handle_snapshot_sync.cc:525`, `308`) |
| `AlwaysComplete` | `SnapshotTransfer`, `Faults = {}`, `MaxFaults = 0` | no fault is needed if another leader begins to send the same snapshot while the follower waits to install it |
| `AlwaysComplete` | `SnapshotTransfer`, `Faults = {"late"}`, `MaxTerm = 1` | the same with a connection given up for its silence |
| `CatchesUp` | `SnapshotTransfer`, `MaxInstalls = 2`, `Faults = {"lost", "orphan"}`, `Late = {"append", "snapshot"}` | an older snapshot is installed after a newer one; the log then begins after the snapshot the follower believes to have, and it refuses every append |
| `ContextInUse` | `SnapshotTransfer` | `become_leader` frees the user context of a transfer while the I/O thread reads an object with it |

So the passing runs state the conditions under which the properties hold: installations
that do not overlap and are not resumed by a user, watchers of entries that are executed
here, no index used twice within two changes of role, and heartbeats that repeat
`commit()`. `AppliedComplete` names its exception: a message of the transfer that outlives
its connection or its leader, or an answer that is overtaken. `CatchesUp` names the two
ways in which a follower may not catch up, `SyncEnds` and `LeaderSurvives` are about them.

### Bounds, and why they are enough

Three servers are the smallest cluster with a majority that is not everybody.
Three elections are needed for a leader of term 1 to be overwritten in term 2 and
return in term 3, four for the commit of an old entry. `MaxInFlight` bounds the
messages at a time as a state constraint; three let a request, a late response
and a vote coexist. With it the search leaves states with more messages
unexplored, which is why what can be proved of elections and logs is. One fault at every
possible place covers each crash and failure against each step of two elections and
their replication; `RaftFaults` explores a fault or a request and a heartbeat, not
both in one behaviour: its two initial states (`FaultsOrRequests`) have the bound of
the one or of the others used up. Combinations are covered by the proofs only. `used`
counts the bounded actions. Two clients are enough for one to disturb the other;
three indexes leave room for an
execution before, at and after a snapshot; `Overlap = FALSE` keeps a second installation,
and the resume of a user, away from an installation, because there the properties fail
(table above). One thread that installs and one user repeat what they do, so
that a second pause or snapshot meets what the first has left; more of each are covered by
the proofs. `GlobalWorkers` has the fewest workers for two to meet at one server; more
servers only make the queues longer, which the proofs cover. In `SnapshotTransfer` two
objects are the fewest with one that is first and not last, three indexes let a newer
snapshot appear during a transfer, and two reigns let one begin in the middle. Larger
instances agree: `AppliedComplete` holds of three objects with `Late = {"append",
"snapshot"}` (2.0 million states), `CatchesUp` of two objects with that `Late` (1.1 million),
and both with `MaxInstalls = 2` (0.9 million); only the last two together fail (table
above). It begins
where a transfer becomes possible: snapshot 1, log 2..2, a follower with no entry or
one. One fault at any place. `Late = {"snapshot"}` lets requests and answers of the
transfer be late, which is where they meet another context, and `MaxInstalls = 1` lets one
snapshot wait for `lock_` at a time. Two threads and two
operations are the fewest for a wake-up to miss somebody in `Scheduler`; three
threads and four handlers let a strand be given handlers while one runs and others
wait. Both are proved for any number. Servers and clients are symmetric in
the runs of invariants (nothing in the modules tells them apart); runs of
temporal properties in `ClientCommit` and `CommitThread` use no symmetry.
`RaftElections` and `RaftOneEntryAppends` use it with `CommittedStays`, a property
of single steps, for which it is sound. Deadlock is not checked: all systems stop
when their bounds are used up or their threads have ended.

### Fairness

Only the progress of threads that can run is assumed, as weak fairness: the commit
thread, a handler that has begun and must still notify, an installation that has
begun, the rest of a resume, and the loop of shutdown, which notifies until the
thread is gone. In `ClientCommit` it is the commit thread and the clients. In
`BackgroundAppend` and `PauseWait` it is the threads inside a call. In `GlobalMgr` it is
the workers, requests that have begun, a shutdown that has begun, and, in
`SpecHeartbeats`, a leader whose heartbeats lead to `commit()` again and again. In
`Strand` handlers end and the inner executor runs what it is given. In `Scheduler`
a thread goes on, whether its next step is one of the code's, the return of an
interrupted reactor or another call of `run`; a handler may never return. In `SnapshotTransfer` heartbeats go on
(`handle_hb_timeout` schedules itself), the I/O thread runs, a message that is not lost
is handled, a snapshot that was received is installed, and a request without an answer
fails in the end (the RPC has a time limit). Otherwise no fairness is
assumed of the network, of new requests, commits, snapshots, or of a user who has
paused the state machine.

## 4. The proofs

**RaftCoreProofs** holds for any finite set of at least two servers, any
commands, any positive batch size and any bounds (`ServerAssumption`,
`AppendAssumption`, `NilAssumption`, `BoundAssumption`), and without the bound on
messages in flight.

`TypeCorrect`, `VotesOnce` and `OneLeaderPerTerm` follow from `ElectionInvariant`,
which shows that `ElectionInv` is inductive. Election safety alone is not: the code
counts votes and keeps no set of voters, so the proof has to know that no voter is
counted twice. `ElectionInv` conjoins

* `TypeOK` and `PeersOK` (a server is no peer of itself, a leader has a term);
* `SavedCurrent`: term and vote are durable between handlers, so a restart forgets
  nothing;
* `BallotsKept`: a server knows the vote it gave in its current term, which makes a
  second vote in the term one for the same candidate;
* `VoteMessagesOK`: for a candidate, voter and term there is at most one message
  that may still add to `votes_granted_`, and a granted answer is a ballot;
* `VotesAreVoters`: `votes_granted_` is at most the number of distinct voters whose
  answer is no longer under way;
* `ElectedByMajority`: whoever became leader has ballots of a majority; and `VoteOnce`
  itself.

Two majorities intersect, and the common voter voted once. Most actions neither cast
nor count a vote: `QuietStep` shows once that such a step keeps the vote conjuncts, and
the lemma of each such action shows that it is one. `InitiateVote`, `HandleVoteReq` and
`HandleVoteResp` have proofs of their own, conjunct by conjunct.

`RaftInvariant` adds the logs. Log matching compares two logs and is not inductive, since
what a follower will store is still in a request, which may be as late as it likes. So
`LogInv` looks at *links*, an entry with its index and the term of the entry before it,
in every log and in every append request under way, and conjoins

* `LinksAgree`: index and term determine the link, wherever it is;
* `TermsElected`, `ElectedOnce`: entries are made by leaders, and a server becomes leader
  at most once in a term, although it may resign, crash and come back in it;
* `LeaderIsAhead`: no entry of a leader's term is beyond its log, so that what it appends
  has an index and a term nobody else has;
* `FirstHasNone`: before the first entry is term 0;
* `RequestsLed`: a request was sent by the elected leader of its term and carries no later
  term; `TermsReached`: no log is ahead of the term of its server; `TermsAscend`: no entry
  follows one of a later term.

From it, and from `OneLeaderPerTerm`:

* `LogsMatch` (`LogMatching`): the entries up to a common one agree, by induction on the
  distance from it;
* `OnlyOneLeads` (`NoSecondLeader`): the branch of `handle_append_entries` that finds
  another leader in its own term, and calls it a bug, is never taken;
* `LogsOrdered` (`LogTermsOrdered`): terms ascend in every log and are not ahead of the
  server, which is why `handle_vote_req` may compare last entries only;
* `LeadersAppend` (`LeaderAppendOnly`): no step removes or rewrites an entry of a leader
  that stays leader, or takes a server to an earlier term, restarts included.

What the step lemmas use of finite sets and of induction is a hypothesis of theirs
(`ServerSets`, `SkipDefined`, `ExpectedDefined`, `NatInduces`), proved at the end of the
module from the library.

**ClientCommitProofs** holds for any finite set of clients, any batch size, both return
methods and any bounds (`ClientAssumption`, `LockAssumption`, `BatchAssumption`,
`OptionAssumption`, `BoundAssumption`). The commit thread and a client meet by index alone, and an index may be used
again after a loss of the lead. `ClientInv` therefore says who owns what:

* `LockInv`: who writes a request, or the configuration of a new leader, holds
  `cli_lock_`, and the role does not change meanwhile;
* `PreCommitInv`: what is stored is pre-committed, but for the entry a client has just
  stored; that one is above `precommit_index_` and hence not committed;
* `AnswerInv`: an element of `commit_ret_elems_` belongs to the client whose entry is at
  its index and is answered only after that entry was executed. It leaves the table
  before its entry can be overwritten, because `become_follower` drops the elements
  before the log changes.

`OkIsExecuted`, `PreCommittedFirst` and `ClientTypes` follow.

**BackgroundAppendProofs** proves `AppendInvariant` and from it `NoWakeUpIsLost`, for
any number of clients. The strengthening says which status the awaiter can have at
each place of each thread (`StatusOK`), that a thread asleep with the status done has
somebody about to notify it (`Signalled`), and that work which is in the log while the
append thread sleeps still has its `invoke()` ahead (`WorkSignalled`).

**CommitThreadProofs** is about any number of indexes, installations and users
(`ThreadAssumption`, `BoundAssumption`). It has two layers.

`PauseIsKept` needs no condition. `PausedMeansStill` alone says nothing of a commit thread
that is about to read the flag; `PauseInv` adds that `in_progress` is set exactly from
`EnterExec` to `ExitExec`, and that `paused` is set while a user holds a pause nobody has
resumed. So the commit thread, which sets its flag before it reads the other, and a user,
who sets theirs before they read that one, cannot both go on.

The rest is proved under `OneAtATime` (`~Overlap`: installations do not overlap, and no user
resumes the state machine during one), which the failing instances of section 3 show to be
needed: the code has one pause flag for everybody who pauses. `CommitInvariant` shows that
`CommitInv` is inductive. `FlagsHold` says which of the flags and `lock_` an installation has
at each place: `paused` until it resumes, `receiving` until it has `lock_` again, and `lock_`
from then on. `IndexesAgree` relates `sm_commit_index_`, the contents of the state machine,
the commit index, the start of the log and the start that the commit thread has read,
between any two of the steps that change them. In particular a snapshot stays beyond the
commit index while it waits, because nobody can commit. `InstallationExcludes`,
`NeverSetBack` and `ExecutesInOrder` follow: across any number of snapshots the entry that
is executed is the next one, the log holds it, and the state machine is never set back, so
that no entry is executed twice.

**GlobalMgrProofs** proves `PoolInv` inductive for any servers, users and numbers of
workers, and from it that a server is queued at most once, that two workers are never
inside `commit_in_bg_exec` of one server, and that every index is executed once, in
order, and after its commit. What the plain statement lacks is that the owner of
`commit_lock_` is the worker inside (`LockOwned`), that a thread keeps its server while
it works (`TargetKnown`), and the place between the execution of an entry and the advance
of `sm_commit_index_` (`Advancing`).

**StrandProofs** proves `StrandInv` inductive and, from it, `StrandIsSerial`: every
behaviour of `Strand` is one of `SerialExecutor`. `OneOwner` is the heart: the lock
of the strand is a token that is in one call, in one invoker, or in the inner executor.
So `ready_queue_` has one user outside the mutex, and the first operation, pushed after
the unlock, is still in front. Each action has a lemma that it maps to a step of the
abstract executor or to a stutter.

**SchedulerProofs** proves `SchedulerInv` inductive for any threads and operations and
all five functions that run operations. `WorkIsSeen` alone is not inductive: it takes
that the task is in the queue once and behind the descriptor operation, or with one
thread (`TaskPlaced`), what a thread keeps by its place (`PrivatePlaced`), that a
blocked reactor that counts as interrupted really is (`InterruptKnown`), and that the
event is set while there is work for those who wait (`EventSet`). `StopReachesAll` and
`ReactorFindsNone` follow too.

`OnceInvariant` and `EachOpOnce` are about the operations themselves: the queue, the
descriptor, the private queues, the calls under way and the threads are the places an
operation can be in. Every step keeps all places as they are, moves operations from one
place to another, brings a new operation to one, or completes one; a lemma for each of
these shows that nothing is twice or lost afterwards, and each action is shown to be of
such a kind. What `OpOnce` needs besides is that a call that is over keeps no operation
(`ArgTaken`) and that only what was given is completed.

**SchedulerWorkProofs** proves the count, `WorkInvariant`, and that it is not zero too
early, `NoneForgotten`, for any finite sets of threads and operations
(`FiniteAssumption`). `WorkCounted` says that `outstanding_work_`, together with what
threads count for themselves, is the number of operations not completed and of cleanups
to come. A sum over threads is the size of the set of pairs of a thread and one of its
units (`Units`), so that no recursion is needed. Every step counts in one of five ways
(`NextCounted`): not at all, `perform_io` that makes up for the cleanup to come, the end
of a handler, `work_cleanup`, and a new operation. `WorkCounted` does not say that
the private part is small enough. For that `Counts` bounds what a thread counts by its
private queue, or by the one unit that `perform_io` adds. Each private unit thus stands
for an operation of a private queue or for a cleanup, no two for the same; if
`outstanding_work_` is zero, there are as many units as operations and cleanups, so each
of those has its unit. That is impossible while an operation is left: its thread
either runs a handler, whose operation is in no private queue and has no unit, or is at its
cleanup, whose unit requires an empty private queue.

Only model-checked, on the instances above:

* `StateMachineSafety`, `CommittedStays` and leader completeness: they are false in
  general, as `RaftOneEntryAppends` shows, and what keeps them true with larger batches
  is a matter of the requests a new leader happens to send.
* `PeerNotAhead` and `CommitAfterPrecommit`: `handle_peer_resp` does not drop responses
  of an earlier term, so that `matched_idx_` may come from an earlier reign. With three
  servers it does no harm within the bounds; for five or more a proof would need a
  condition on late responses that the code does not establish.
* `WaiterReachable`: it depends on the number of role changes (table in section 3).
* `AppliedComplete`: it relates messages, contexts and saved objects of a module that has
  no proofs; it depends on the faults in the same way.
* All liveness properties (`CommittedIsAnswered`,
`CommitProgress`, `WatcherIsTold`, `StopsForGood`, `WorkIsSent`, `BgStops`, `RequestTaken`, `CommitExecuted`, `AppendSent`, `HandlerRuns`, `OpRuns`,
`CatchesUp`): liveness under fairness is outside what the prover supports.

The provers cannot instantiate a theorem with an operator, so that the induction theorems
of the library are out of reach; where a proof needs induction (the distance between two
entries, the skip loop) it uses that a set of numbers has a smallest element.

## 5. Not modelled

`PROJECT.json` lists every part under `components`, with what is left out of it. The
larger ones:

* **Membership** (`handle_join_leave.cc`, `reconfigure`): the set of servers is a
  constant of `RaftCore`. Quorums that change need four servers and two changes on
  top of elections and rollbacks, which is beyond an exhaustive run. The transfer of a
  snapshot to a joining server (`handle_install_snapshot_resp_new_member`) belongs to it.
* **Compacted logs in RaftCore**: `SnapshotTransfer` has compaction and no votes,
  `RaftCore` votes and no compaction; together they are too large.
* **Pre-vote counters, target priority, leadership transfer, leader leases**: decided
  by measured times of several servers. RaftCore has their effects (an election may
  begin at any time, a leader may resign), which is more than the code allows.
* **Request forwarding** (`handle_user_cmd.cc`), streaming mode, full consensus mode.
* **Transport, timers, serialisation, statistics**: bytes, sockets and clocks.
* **Of the I/O core**: the older `io_context::strand` (same protocol), other reactors,
  timer queues, signal sets, the resolver pool, io_uring and IOCP, channels and parallel
  groups, and the header-only surface, which is most of the source and has no state
  machine of its own. That is why the map covers a small share of all lines: nearly all
  of them are templates, wrappers and platform variants.

Worth doing next: an abstract replicated log and `RaftCore`, with a condition on the size
of append requests, as its refinement.
