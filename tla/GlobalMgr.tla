------------------------------ MODULE GlobalMgr ------------------------------
(***************************************************************************)
(* xraft_global_mgr: the two queues of Raft servers that wait for a commit *)
(* or an append worker, the workers, and what the threads of the Raft      *)
(* servers do with them: commit(), request_append_entries_for_all(), pause *)
(* and resume, shutdown.                                                   *)
(*                                                                         *)
(* A section under a queue lock is one step.  The awaiter of a worker is   *)
(* the flag "invoked since the last reset" (its own steps are in           *)
(* EventAwaiter); wait_ms(1000) also ends without it.  Every committed     *)
(* entry is in the log.                                                    *)
(***************************************************************************)
EXTENDS Integers, Sequences, FiniteSets

CONSTANTS
    RaftServer,     \* the servers that share the workers
    User,           \* threads that pause, resume and shut down servers
    None,
    NumCommit,      \* the most num_commit_threads_
    NumAppend,      \* the most num_append_threads_
    Config          \* what a behaviour may be: the numbers of commit and append
                    \* threads, and how many commits, appends, pauses and
                    \* shutdowns there are

Worker == 1 .. NumCommit + NumAppend

ASSUME PoolAssumption ==
    /\ NumCommit \in Nat /\ NumAppend \in Nat
    /\ RaftServer \cap User = {}
    /\ Worker \cap (RaftServer \cup User) = {}
    /\ None \notin Worker \cup RaftServer
    /\ Config \subseteq [commit_threads : 0 .. NumCommit, append_threads : 0 .. NumAppend,
                        commits : Nat, appends : Nat, pauses : Nat, closes : Nat]

Kind == {"commit", "append"}
Thread == Worker \cup RaftServer \cup User

VARIABLES
    queue,              \* commit_queue_, append_queue_
    server_set,         \* commit_server_set_, append_server_set_
    pc,                 \* per thread: its next step
    target,             \* per thread: the server it works for
    kind,               \* per thread: the queue of the request it makes
    scan,               \* per thread: the worker it looks at next
    status,             \* worker_handle::status_
    invoked,            \* worker_handle::ea_ has been invoked since its reset
    stopping,           \* workers whose stopping_ is set
    quick_commit_index, \* per server
    sm_commit_index,    \* per server
    commit_lock,        \* per server: the owner of commit_lock_
    sm_commit_paused,   \* per server
    executed,           \* history: the indexes each state machine executed
    unsent,             \* servers with entries not sent to their peers
    closed,             \* servers that were shut down
    budget              \* the commits, appends, pauses and shutdowns still to come

poolVars == <<queue, server_set>>
callVars == <<target, kind, scan>>
workerVars == <<status, invoked, stopping>>
serverVars == <<quick_commit_index, sm_commit_index, commit_lock, sm_commit_paused,
                executed, unsent, closed, budget>>
vars == <<poolVars, pc, callVars, workerVars, serverVars>>

\* init_thread_pool starts the workers of the configuration.  One that was not
\* started is never found sleeping.
Started(c, w) ==
    \/ w <= c.commit_threads
    \/ w > NumCommit /\ w <= NumCommit + c.append_threads

Init ==
    /\ queue = [k \in Kind |-> <<>>]
    /\ server_set = [k \in Kind |-> {}]
    /\ \E c \in Config :
          /\ pc = [t \in Thread |-> IF t \notin Worker THEN "idle"
                                  ELSE IF Started(c, t) THEN "top" ELSE "stopped"]
          /\ status = [w \in Worker |-> IF Started(c, w) THEN "SLEEPING" ELSE "WORKING"]
          /\ budget = [commits |-> c.commits, appends |-> c.appends,
                       pauses |-> c.pauses, closes |-> c.closes]
    /\ target = [t \in Thread |-> None]
    /\ kind = [t \in Thread |-> "commit"]
    /\ scan = [t \in Thread |-> 1]
    /\ invoked = [w \in Worker |-> FALSE]
    /\ stopping = {}
    /\ quick_commit_index = [s \in RaftServer |-> 0]
    /\ sm_commit_index = [s \in RaftServer |-> 0]
    /\ commit_lock = [s \in RaftServer |-> None]
    /\ sm_commit_paused = [s \in RaftServer |-> FALSE]
    /\ executed = [s \in RaftServer |-> <<>>]
    /\ unsent = {}
    /\ closed = {}

PcBecomes(t, p) == pc' = [pc EXCEPT ![t] = p]

\* The workers of a queue, in the order of commit_workers_ and append_workers_.
FirstOf(k) == IF k = "commit" THEN 1 ELSE NumCommit + 1
LastOf(k) == IF k = "commit" THEN NumCommit ELSE NumCommit + NumAppend
KindOf(w) == IF w <= NumCommit THEN "commit" ELSE "append"

\* A thread is done with its server.  A worker that has found a request skips
\* sleeping, so it looks at the queue again.
Done(t) ==
    /\ PcBecomes(t, IF t \notin Worker THEN "idle"
                    ELSE IF t \in stopping THEN "stopped" ELSE "pop")
    /\ target' = [target EXCEPT ![t] = None]
    /\ kind' = [kind EXCEPT ![t] = "commit"]
    /\ scan' = [scan EXCEPT ![t] = 1]

-----------------------------------------------------------------------------
(* request_commit and request_append.                                      *)

\* Thread t is about to call request_commit or request_append for server s.
CallRequest(t, k, s) ==
    /\ PcBecomes(t, "push")
    /\ target' = [target EXCEPT ![t] = s]
    /\ kind' = [kind EXCEPT ![t] = k]
    /\ scan' = [scan EXCEPT ![t] = FirstOf(k)]

\* Under the queue lock.  A server that is queued already is ignored.
Push(t) ==
    LET k == kind[t] s == target[t] IN
    /\ pc[t] = "push"
    /\ IF s \in server_set[k]
         THEN Done(t) /\ UNCHANGED poolVars
         ELSE /\ queue' = [queue EXCEPT ![k] = Append(@, s)]
              /\ server_set' = [server_set EXCEPT ![k] = @ \cup {s}]
              /\ PcBecomes(t, "scan")
              /\ UNCHANGED callVars
    /\ UNCHANGED <<workerVars, serverVars>>

\* The search for a sleeping worker, one worker per step.
Scan(t) ==
    /\ pc[t] = "scan"
    /\ \/ /\ scan[t] > LastOf(kind[t])
          /\ Done(t)
          /\ UNCHANGED invoked
       \/ /\ scan[t] <= LastOf(kind[t])
          /\ status[scan[t]] = "SLEEPING"
          /\ invoked' = [invoked EXCEPT ![scan[t]] = TRUE]
          /\ Done(t)
       \/ /\ scan[t] <= LastOf(kind[t])
          /\ status[scan[t]] = "WORKING"
          /\ scan' = [scan EXCEPT ![t] = @ + 1]
          /\ UNCHANGED <<invoked, pc, target, kind>>
    /\ UNCHANGED <<poolVars, status, stopping, serverVars>>

Request(t) == Push(t) \/ Scan(t)

-----------------------------------------------------------------------------
(* The threads of the Raft servers.  Thread s holds lock_ of server s.     *)

\* commit(target_idx) with a new index.
Commit(s) ==
    /\ pc[s] = "idle" /\ s \notin closed
    /\ budget.commits > 0
    /\ budget' = [budget EXCEPT !.commits = @ - 1]
    /\ quick_commit_index' = [quick_commit_index EXCEPT ![s] = @ + 1]
    /\ CallRequest(s, "commit", s)
    /\ UNCHANGED <<poolVars, workerVars, sm_commit_index, commit_lock, sm_commit_paused,
                   executed, unsent, closed>>

\* commit(target_idx) with the index known already, as every append message
\* and every append response does.
CommitAgain(s) ==
    /\ pc[s] = "idle" /\ s \notin closed
    /\ quick_commit_index[s] > sm_commit_index[s]
    /\ CallRequest(s, "commit", s)
    /\ UNCHANGED <<poolVars, workerVars, serverVars>>

\* request_append_entries_for_all, after an entry was stored.
AppendForAll(s) ==
    /\ pc[s] = "idle" /\ s \notin closed
    /\ budget.appends > 0
    /\ budget' = [budget EXCEPT !.appends = @ - 1]
    /\ unsent' = unsent \cup {s}
    /\ CallRequest(s, "append", s)
    /\ UNCHANGED <<poolVars, workerVars, quick_commit_index, sm_commit_index, commit_lock,
                   sm_commit_paused, executed, closed>>

\* pause_state_machine_execution without a wait.
Pause(u, s) ==
    /\ pc[u] = "idle" /\ s \notin closed
    /\ budget.pauses > 0
    /\ budget' = [budget EXCEPT !.pauses = @ - 1]
    /\ sm_commit_paused' = [sm_commit_paused EXCEPT ![s] = TRUE]
    /\ UNCHANGED <<poolVars, pc, callVars, workerVars, quick_commit_index, sm_commit_index,
                   commit_lock, executed, unsent, closed>>

\* resume_state_machine_execution.
Resume(u, s) ==
    /\ pc[u] = "idle" /\ s \notin closed
    /\ sm_commit_paused[s]
    /\ sm_commit_paused' = [sm_commit_paused EXCEPT ![s] = FALSE]
    /\ CallRequest(u, "commit", s)
    /\ UNCHANGED <<poolVars, workerVars, quick_commit_index, sm_commit_index, commit_lock,
                   executed, unsent, closed, budget>>

\* close_raft_server takes a server off a queue: the first match, then break.
Erase(q, s) ==
    IF \E k \in DOMAIN q : q[k] = s
      THEN LET p == CHOOSE k \in DOMAIN q : q[k] = s /\ \A j \in 1 .. k - 1 : q[j] # s
           IN  [k \in 1 .. Len(q) - 1 |-> IF k < p THEN q[k] ELSE q[k + 1]]
      ELSE q

TakeOff(k, s) ==
    /\ queue' = [queue EXCEPT ![k] = Erase(@, s)]
    /\ server_set' = [server_set EXCEPT ![k] = @ \ {s}]

\* shutdown of a server begins with close_raft_server: the append queue...
CloseAppend(u, s) ==
    /\ pc[u] = "idle" /\ s \notin closed
    /\ budget.closes > 0
    /\ budget' = [budget EXCEPT !.closes = @ - 1]
    /\ closed' = closed \cup {s}
    /\ TakeOff("append", s)
    /\ target' = [target EXCEPT ![u] = s]
    /\ PcBecomes(u, "close")
    /\ UNCHANGED <<kind, scan, workerVars, quick_commit_index, sm_commit_index, commit_lock,
                   sm_commit_paused, executed, unsent>>

\* ... and then the commit queue.
CloseCommit(u) ==
    /\ pc[u] = "close"
    /\ TakeOff("commit", target[u])
    /\ Done(u)
    /\ UNCHANGED <<workerVars, serverVars>>

-----------------------------------------------------------------------------
(* commit_worker_loop and append_worker_loop.                              *)

\* The head of the loop after a round that found no request.  Between that
\* round and this step status_ still says that the worker is working.
Top(w) ==
    /\ pc[w] = "top"
    /\ IF w \in stopping
         THEN PcBecomes(w, "stopped") /\ UNCHANGED status
         ELSE PcBecomes(w, "wait") /\ status' = [status EXCEPT ![w] = "SLEEPING"]
    /\ UNCHANGED <<poolVars, callVars, invoked, stopping, serverVars>>

\* Mutant of Wake: the worker waits without a time limit.
WakeInvoked(w) ==
    /\ pc[w] = "wait"
    /\ invoked[w]
    /\ invoked' = [invoked EXCEPT ![w] = FALSE]
    /\ PcBecomes(w, "woken")
    /\ UNCHANGED <<poolVars, callVars, status, stopping, serverVars>>

\* ea_.wait_ms(1000) returns, invoked or after a second, and ea_ is reset.
Wake(w) ==
    /\ pc[w] = "wait"
    /\ invoked' = [invoked EXCEPT ![w] = FALSE]
    /\ PcBecomes(w, "woken")
    /\ UNCHANGED <<poolVars, callVars, status, stopping, serverVars>>

Working(w) ==
    /\ pc[w] = "woken"
    /\ status' = [status EXCEPT ![w] = "WORKING"]
    /\ PcBecomes(w, IF w \in stopping THEN "stopped" ELSE "pop")
    /\ UNCHANGED <<poolVars, callVars, invoked, stopping, serverVars>>

\* Mutant of Pop: the popped server is left in the set.
PopKeepsSet(w) ==
    LET k == KindOf(w) IN
    /\ pc[w] = "pop"
    /\ IF queue[k] = <<>>
         THEN PcBecomes(w, "top") /\ UNCHANGED <<poolVars, target>>
         ELSE /\ queue' = [queue EXCEPT ![k] = Tail(@)]
              /\ target' = [target EXCEPT ![w] = Head(queue[k])]
              /\ PcBecomes(w, IF k = "commit" THEN "check" ELSE "send")
              /\ UNCHANGED server_set
    /\ UNCHANGED <<kind, scan, workerVars, serverVars>>

\* Under the queue lock: the first server of the queue, if there is one.
Pop(w) ==
    LET k == KindOf(w) IN
    /\ pc[w] = "pop"
    /\ IF queue[k] = <<>>
         THEN PcBecomes(w, "top") /\ UNCHANGED <<poolVars, target>>
         ELSE /\ queue' = [queue EXCEPT ![k] = Tail(@)]
              /\ server_set' = [server_set EXCEPT ![k] = @ \ {Head(queue[k])}]
              /\ target' = [target EXCEPT ![w] = Head(queue[k])]
              /\ PcBecomes(w, IF k = "commit" THEN "check" ELSE "send")
    /\ UNCHANGED <<kind, scan, workerVars, serverVars>>

\* append_entries_in_bg_exec: what is in the log is sent.
Send(w) ==
    /\ pc[w] = "send"
    /\ unsent' = unsent \ {target[w]}
    /\ Done(w)
    /\ UNCHANGED <<poolVars, workerVars, quick_commit_index, sm_commit_index,
                   commit_lock, sm_commit_paused, executed, closed, budget>>

\* The request of a server that is paused, or has nothing to execute, is dropped.
Check(w) ==
    LET s == target[w] IN
    /\ pc[w] = "check"
    /\ IF sm_commit_paused[s] \/ quick_commit_index[s] <= sm_commit_index[s]
         THEN Done(w)
         ELSE PcBecomes(w, "try_lock") /\ UNCHANGED callVars
    /\ UNCHANGED <<poolVars, workerVars, serverVars>>

-----------------------------------------------------------------------------
(* commit_in_bg_exec.                                                      *)

\* Mutant of TryLock: the lock is not asked for.
TryLockAlways(w) ==
    /\ pc[w] = "try_lock"
    /\ commit_lock' = [commit_lock EXCEPT ![target[w]] = w]
    /\ PcBecomes(w, "first_loop")
    /\ UNCHANGED <<poolVars, callVars, workerVars, quick_commit_index, sm_commit_index,
                   sm_commit_paused, executed, unsent, closed, budget>>

\* try_to_lock: a server that another worker commits is left alone.
TryLock(w) ==
    LET s == target[w] IN
    /\ pc[w] = "try_lock"
    /\ IF commit_lock[s] = None
         THEN /\ commit_lock' = [commit_lock EXCEPT ![s] = w]
              /\ PcBecomes(w, "first_loop")
              /\ UNCHANGED callVars
         ELSE Done(w) /\ UNCHANGED commit_lock
    /\ UNCHANGED <<poolVars, workerVars, quick_commit_index, sm_commit_index,
                   sm_commit_paused, executed, unsent, closed, budget>>

\* The conditions of the loop; from the second round on it may be out of time.
Loop(w) ==
    LET s == target[w] IN
    /\ \/ /\ pc[w] \in {"first_loop", "loop"}
          /\ PcBecomes(w, IF sm_commit_index[s] >= quick_commit_index[s] \/ sm_commit_paused[s]
                            THEN "unlock" ELSE "exec")
       \/ /\ pc[w] = "loop"
          /\ sm_commit_index[s] < quick_commit_index[s]
          /\ PcBecomes(w, "unlock_late")
    /\ UNCHANGED <<poolVars, callVars, workerVars, serverVars>>

\* commit_app_log of the next index.
Exec(w) ==
    LET s == target[w] IN
    /\ pc[w] = "exec"
    /\ executed' = [executed EXCEPT ![s] = Append(@, sm_commit_index[s] + 1)]
    /\ PcBecomes(w, "advance")
    /\ UNCHANGED <<poolVars, callVars, workerVars, quick_commit_index, sm_commit_index,
                   commit_lock, sm_commit_paused, unsent, closed, budget>>

Advance(w) ==
    LET s == target[w] IN
    /\ pc[w] = "advance"
    /\ sm_commit_index' = [sm_commit_index EXCEPT ![s] = @ + 1]
    /\ PcBecomes(w, "loop")
    /\ UNCHANGED <<poolVars, callVars, workerVars, quick_commit_index, commit_lock,
                   sm_commit_paused, executed, unsent, closed, budget>>

\* The end of commit_in_bg_exec; a server whose time was up is queued again.
Unlock(w) ==
    LET s == target[w] IN
    /\ pc[w] \in {"unlock", "unlock_late"}
    /\ commit_lock' = [commit_lock EXCEPT ![s] = None]
    /\ IF pc[w] = "unlock" THEN Done(w) ELSE CallRequest(w, "commit", s)
    /\ UNCHANGED <<poolVars, workerVars, quick_commit_index, sm_commit_index,
                   sm_commit_paused, executed, unsent, closed, budget>>

\* The destructor of the manager stops and joins the append workers, then the
\* commit workers, after all servers were shut down.
StopWorker(w) ==
    /\ closed = RaftServer
    /\ \A t \in RaftServer \cup User : pc[t] = "idle"
    /\ w \notin stopping
    /\ \A v \in Worker : KindOf(v) = "append" /\ KindOf(w) = "commit" => pc[v] = "stopped"
    /\ \A v \in Worker : KindOf(v) = KindOf(w) /\ v < w => pc[v] = "stopped"
    /\ stopping' = stopping \cup {w}
    /\ invoked' = [invoked EXCEPT ![w] = TRUE]
    /\ UNCHANGED <<poolVars, pc, callVars, status, serverVars>>

-----------------------------------------------------------------------------
WorkerStep(w) ==
    \/ Top(w) \/ Wake(w) \/ Working(w) \/ Pop(w)
    \/ Send(w) \/ Check(w)
    \/ TryLock(w) \/ Loop(w) \/ Exec(w) \/ Advance(w) \/ Unlock(w)
    \/ Request(w)

Next ==
    \/ \E w \in Worker : WorkerStep(w) \/ StopWorker(w)
    \/ \E s \in RaftServer : Commit(s) \/ CommitAgain(s) \/ AppendForAll(s) \/ Request(s)
    \/ \E u \in User, s \in RaftServer : Pause(u, s) \/ Resume(u, s) \/ CloseAppend(u, s)
    \/ \E u \in User : CloseCommit(u) \/ Request(u)

\* Workers run; whoever has begun a request finishes it; a destructor that has
\* begun goes on.
Spec ==
    /\ Init
    /\ [][Next]_vars
    /\ \A w \in Worker : WF_vars(WorkerStep(w))
    /\ \A t \in RaftServer \cup User : WF_vars(Request(t))
    /\ \A u \in User : WF_vars(CloseCommit(u))
    /\ \A w \in Worker : WF_vars(stopping # {} /\ StopWorker(w))

\* With a leader that sends heartbeats, commit() is called again and again.
SpecHeartbeats == Spec /\ \A s \in RaftServer : WF_vars(CommitAgain(s))
-----------------------------------------------------------------------------
(* Properties.                                                             *)

\* Where a worker holds commit_lock_.
Section == {"first_loop", "loop", "exec", "advance", "unlock", "unlock_late"}

PcValue ==
    {"idle", "push", "scan", "close", "top", "wait", "woken", "pop", "send", "check",
     "try_lock", "stopped"} \cup Section

\* A worker inside commit_in_bg_exec of server s.
Inside(w, s) == pc[w] \in Section /\ target[w] = s

\* A worker has executed an entry of s and not yet advanced sm_commit_index_.
Advancing(s) == \E w \in Worker : pc[w] = "advance" /\ target[w] = s

\* Type invariant of the manager, its workers and the servers.
TypeOK ==
    /\ queue \in [Kind -> Seq(RaftServer)]
    /\ server_set \in [Kind -> SUBSET RaftServer]
    /\ pc \in [Thread -> PcValue]
    /\ target \in [Thread -> RaftServer \cup {None}]
    /\ kind \in [Thread -> Kind]
    /\ scan \in [Thread -> Nat \ {0}]
    /\ status \in [Worker -> {"SLEEPING", "WORKING"}]
    /\ invoked \in [Worker -> BOOLEAN]
    /\ stopping \subseteq Worker
    /\ quick_commit_index \in [RaftServer -> Nat]
    /\ sm_commit_index \in [RaftServer -> Nat]
    /\ commit_lock \in [RaftServer -> Worker \cup {None}]
    /\ sm_commit_paused \in [RaftServer -> BOOLEAN]
    /\ executed \in [RaftServer -> Seq(Nat)]
    /\ unsent \subseteq RaftServer
    /\ closed \subseteq RaftServer
    /\ budget \in [commits : Nat, appends : Nat, pauses : Nat, closes : Nat]

\* A server is queued at most once, and the set that request_commit and
\* request_append search says exactly who is queued.  close_raft_server takes
\* off one occurrence and relies on it; a server that is in the set only would
\* never be queued again.
QueueAgrees ==
    \A k \in Kind :
       /\ \A i, j \in DOMAIN queue[k] : queue[k][i] = queue[k][j] => i = j
       /\ \A s \in RaftServer : s \in server_set[k] <=> \E i \in DOMAIN queue[k] : queue[k][i] = s

\* A thread that pushes or executes has a server to do it for, and only a worker
\* executes.
TargetKnown ==
    \A t \in Thread :
       /\ pc[t] \in {"push", "scan", "close", "send", "check", "try_lock"} \cup Section
             => target[t] \in RaftServer
       /\ pc[t] \in Section => t \in Worker

\* The owner of commit_lock_ is the worker inside commit_in_bg_exec.
LockOwned == \A w \in Worker, s \in RaftServer : Inside(w, s) => commit_lock[s] = w

\* Two workers are never inside commit_in_bg_exec for the same server, although
\* the server may be queued again while the first of them works.
CommitExclusive ==
    \A v, w \in Worker, s \in RaftServer : Inside(v, s) /\ Inside(w, s) => v = w

\* Whichever workers do it, a state machine executes index after index, each
\* once, and sm_commit_index_ is the last one, or the one before while a worker
\* has still to advance it.
ExecutedInOrder ==
    \A s \in RaftServer :
       /\ \A k \in DOMAIN executed[s] : executed[s][k] = k
       /\ Len(executed[s]) = sm_commit_index[s] + (IF Advancing(s) THEN 1 ELSE 0)

\* What is executed is committed: the index is compared again before each entry.
ExecutedIsCommitted ==
    \A s \in RaftServer :
       /\ Len(executed[s]) <= quick_commit_index[s]
       /\ \A w \in Worker :
             pc[w] = "exec" /\ target[w] = s => sm_commit_index[s] < quick_commit_index[s]

\* The inductive invariant.
PoolInv ==
    TypeOK /\ QueueAgrees /\ TargetKnown /\ LockOwned /\ ExecutedInOrder /\ ExecutedIsCommitted

\* A queued request is taken by a worker, although no worker may have been awake
\* to be invoked, or the one that was found sleeping had just looked at the queue.
RequestTaken ==
    \A k \in Kind, s \in RaftServer : s \in server_set[k] ~> s \notin server_set[k] \/ stopping # {}

\* What is committed is executed, unless the state machine is paused or the server
\* is shut down: a request is dropped when it is duplicate, when the state machine
\* is paused and when another worker has the lock, and all three must be harmless.
CommitExecuted ==
    \A s \in RaftServer :
       quick_commit_index[s] > sm_commit_index[s] ~>
          \/ quick_commit_index[s] = sm_commit_index[s]
          \/ sm_commit_paused[s] \/ s \in closed

\* What is stored is sent, unless the server is shut down.
AppendSent == \A s \in RaftServer : s \in unsent ~> s \notin unsent \/ s \in closed

=============================================================================
