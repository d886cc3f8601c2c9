---------------------------- MODULE CommitThread ----------------------------
(***************************************************************************)
(* The background commit thread of raft_server (commit_in_bg and           *)
(* commit_in_bg_exec) and everybody who steers it: the handlers that move  *)
(* the commit index, the installation of a snapshot, the users that pause  *)
(* and resume the state machine or watch an index of it, and shutdown.     *)
(*                                                                         *)
(* The commit thread takes no part in lock_.  It sleeps on commit_cv_; the *)
(* flags sm_commit_paused_ and sm_commit_exec_in_progress_ are atomics, so *)
(* each access to them is a step of its own.  A log is its first and last  *)
(* index, and the state machine is the index up to which its contents      *)
(* reflect the log.                                                        *)
(***************************************************************************)
EXTENDS Integers, FiniteSets

CONSTANTS
    Installer,   \* threads that handle the last objects of snapshots
    User,        \* threads that pause and resume the state machine
    Watcher,     \* calls of wait_for_state_machine_commit
    None,        \* no thread
    MaxIndex,    \* bound: the last log index
    MayStop,     \* bound: whether shutdown is called
    Overlap      \* bound: whether an installation may begin, or a user resume, during another installation

ASSUME ThreadAssumption ==
    /\ IsFiniteSet(Installer) /\ IsFiniteSet(User) /\ IsFiniteSet(Watcher)
    /\ Installer \cap User = {}
    /\ "handler" \notin Installer
    /\ None \notin Installer \cup {"handler", "commit"}
ASSUME BoundAssumption == MaxIndex \in Nat /\ {MayStop, Overlap} \subseteq BOOLEAN

VARIABLES
    start,       \* log_store_->start_index()
    last,        \* log_store_->next_slot() - 1
    quick,       \* quick_commit_index_
    sm,          \* sm_commit_index_
    contents,    \* the state machine: the last index that its contents reflect
    paused,      \* sm_commit_paused_
    held,        \* history: the users whose pause nobody has resumed yet
    in_progress, \* sm_commit_exec_in_progress_
    receiving,   \* state_->is_receiving_snapshot()
    lock,        \* the holder of lock_
    cv_lock,     \* the holder of commit_cv_lock_
    ct,          \* the commit thread: control state, index_to_commit, log_start_idx
    installer,   \* per installer: control state and the index of its snapshot
    user,        \* per user: control state
    watch,       \* per watcher: the index it waits for, or its result
    shutdown     \* the thread in shutdown: before it, waiting for the commit thread, after it

indexVars == <<start, last, quick, sm, contents>>
pauseVars == <<paused, held>>
lockVars == <<receiving, lock>>
threadVars == <<ct, installer, user, watch>>
vars == <<indexVars, pauseVars, in_progress, lockVars, cv_lock, threadVars, shutdown>>

\* stopping_: set when shutdown begins.
stopping == shutdown # "idle"

Max2(a, b) == IF a >= b THEN a ELSE b

Init ==
    /\ start = 1
    /\ last = 0
    /\ quick = 0
    /\ sm = 0
    /\ contents = 0
    /\ paused = FALSE
    /\ held = {}
    /\ in_progress = FALSE
    /\ receiving = FALSE
    /\ lock = None
    /\ cv_lock = None
    /\ ct = [pc |-> "check", idx |-> 0, start |-> 0]
    /\ installer = [t \in Installer |-> [pc |-> "idle", idx |-> 0]]
    /\ user = [u \in User |-> "idle"]
    /\ watch = [w \in Watcher |-> [pc |-> "idle", idx |-> 0]]
    /\ shutdown = "idle"

-----------------------------------------------------------------------------
(* The commit thread.                                                      *)

Pending == sm < quick /\ sm < last

Goes(p) == ct' = [ct EXCEPT !.pc = p]

\* The outer loop of commit_in_bg: nothing to do, or paused, means to wait.
CheckWork ==
    /\ ct.pc = "check"
    /\ IF Pending /\ ~paused
         THEN Goes("enter") /\ UNCHANGED cv_lock
         ELSE /\ cv_lock = None
              /\ cv_lock' = "commit"
              /\ Goes("wait")
    /\ UNCHANGED <<indexVars, pauseVars, in_progress, shutdown, lockVars, installer, user, watch>>

\* Mutant of WaitCheck: a pause hides stopping_.
WaitCheckPauseFirst ==
    /\ ct.pc = "wait"
    /\ cv_lock = "commit"
    /\ cv_lock' = None
    /\ Goes(IF paused THEN "asleep"
            ELSE IF stopping THEN "stopped" ELSE IF Pending THEN "check" ELSE "asleep")
    /\ UNCHANGED <<indexVars, pauseVars, in_progress, shutdown, lockVars, installer, user, watch>>

\* wait_check under commit_cv_lock_: sleep releases the lock.
WaitCheck ==
    /\ ct.pc = "wait"
    /\ cv_lock = "commit"
    /\ cv_lock' = None
    /\ Goes(IF stopping THEN "stopped"
            ELSE IF ~paused /\ Pending THEN "check" ELSE "asleep")
    /\ UNCHANGED <<indexVars, pauseVars, in_progress, shutdown, lockVars, installer, user, watch>>

\* A notified sleeper takes the lock again.
WakeUp ==
    /\ ct.pc = "woken"
    /\ cv_lock = None
    /\ cv_lock' = "commit"
    /\ Goes("wait")
    /\ UNCHANGED <<indexVars, pauseVars, in_progress, shutdown, lockVars, installer, user, watch>>

\* commit_in_bg_exec.
EnterExec ==
    /\ ct.pc = "enter"
    /\ in_progress' = TRUE
    /\ Goes("read_start")
    /\ UNCHANGED <<indexVars, pauseVars, shutdown, lockVars, cv_lock, installer, user, watch>>

ReadStart ==
    /\ ct.pc = "read_start"
    /\ ct' = [ct EXCEPT !.pc = "adjust", !.start = start]
    /\ UNCHANGED <<indexVars, pauseVars, in_progress, shutdown, lockVars, cv_lock, installer, user, watch>>

\* Mutant of AdjustIndex: the index of the first entry, not the one before it.
AdjustIndexToStart ==
    /\ ct.pc = "adjust"
    /\ sm' = Max2(sm, ct.start)
    /\ Goes("loop")
    /\ UNCHANGED <<start, last, quick, contents, pauseVars, in_progress, shutdown, lockVars, cv_lock,
                   installer, user, watch>>

\* A log that begins after the commit index: skip what is not there.
AdjustIndex ==
    /\ ct.pc = "adjust"
    /\ sm' = Max2(sm, ct.start - 1)
    /\ Goes("loop")
    /\ UNCHANGED <<start, last, quick, contents, pauseVars, in_progress, shutdown, lockVars, cv_lock,
                   installer, user, watch>>

\* Mutant of ExecLoop: the pause is only looked at before the loop.
ExecLoopNoPause ==
    /\ ct.pc = "loop"
    /\ ct' = IF Pending THEN [ct EXCEPT !.pc = "execute", !.idx = sm + 1]
             ELSE [ct EXCEPT !.pc = "exit"]
    /\ UNCHANGED <<indexVars, pauseVars, in_progress, shutdown, lockVars, cv_lock, installer, user, watch>>

\* The loop of commit_in_bg_exec: a pause ends it.
ExecLoop ==
    /\ ct.pc = "loop"
    /\ ct' = IF Pending /\ ~paused THEN [ct EXCEPT !.pc = "execute", !.idx = sm + 1]
             ELSE [ct EXCEPT !.pc = "exit"]
    /\ UNCHANGED <<indexVars, pauseVars, in_progress, shutdown, lockVars, cv_lock, installer, user, watch>>

\* commit_ext (or commit_conf) returns: contents that did not end right before
\* the entry now reflect no prefix of the log.
Execute ==
    /\ ct.pc = "execute"
    /\ contents' = IF contents = ct.idx - 1 THEN ct.idx ELSE -1
    /\ Goes("cas")
    /\ UNCHANGED <<start, last, quick, sm, pauseVars, in_progress, shutdown, lockVars, cv_lock,
                   installer, user, watch>>

AdvanceIndex ==
    /\ ct.pc = "cas"
    /\ sm' = IF sm = ct.idx - 1 THEN ct.idx ELSE sm
    /\ Goes("notify")
    /\ UNCHANGED <<start, last, quick, contents, pauseVars, in_progress, shutdown, lockVars, cv_lock,
                   installer, user, watch>>

\* The result of a watcher is set: OK or CANCELLED.
Result(r) == [pc |-> r, idx |-> 0]

\* Mutant of NotifyWatchers: those of the commit index before this one.
NotifyWatchersLate ==
    /\ ct.pc = "notify"
    /\ watch' = [w \in Watcher |->
                   IF watch[w].pc = "registered" /\ watch[w].idx = ct.idx - 1
                     THEN Result("true") ELSE watch[w]]
    /\ Goes("loop")
    /\ UNCHANGED <<indexVars, pauseVars, in_progress, shutdown, lockVars, cv_lock, installer, user>>

\* The watchers of this very index.
NotifyWatchers ==
    /\ ct.pc = "notify"
    /\ watch' = [w \in Watcher |->
                   IF watch[w].pc = "registered" /\ watch[w].idx = ct.idx
                     THEN Result("true") ELSE watch[w]]
    /\ Goes("loop")
    /\ UNCHANGED <<indexVars, pauseVars, in_progress, shutdown, lockVars, cv_lock, installer, user>>

\* commit_in_bg_exec returns, and its locals are gone.
ExitExec ==
    /\ ct.pc = "exit"
    /\ in_progress' = FALSE
    /\ ct' = [pc |-> "check", idx |-> 0, start |-> 0]
    /\ UNCHANGED <<indexVars, pauseVars, shutdown, lockVars, cv_lock, installer, user, watch>>

CommitterStep ==
    \/ CheckWork \/ WaitCheck \/ WakeUp
    \/ EnterExec \/ ReadStart \/ AdjustIndex \/ ExecLoop \/ Execute
    \/ AdvanceIndex \/ NotifyWatchers \/ ExitExec

\* notify_one and notify_all on commit_cv_, under commit_cv_lock_.
NotifyCv ==
    /\ cv_lock = None
    /\ ct' = IF ct.pc = "asleep" THEN [ct EXCEPT !.pc = "woken"] ELSE ct

-----------------------------------------------------------------------------
(* The handlers of lock_.                                                  *)

\* Mutant of Commit: append requests are not refused while a snapshot is received.
CommitWhileReceiving(k) ==
    /\ lock = None
    /\ ~stopping
    /\ k \in quick + 1 .. MaxIndex
    /\ quick' = k
    /\ last' = Max2(last, k)
    /\ lock' = "handler"
    /\ UNCHANGED <<start, sm, contents, pauseVars, in_progress, receiving, shutdown, cv_lock, threadVars>>

\* An append request, or a response to one, moves the log and the commit index, unless
\* a snapshot is being received ...
Commit(k) ==
    /\ lock = None
    /\ ~stopping
    /\ ~receiving
    /\ k \in quick + 1 .. MaxIndex
    /\ quick' = k
    /\ last' = Max2(last, k)
    /\ lock' = "handler"
    /\ UNCHANGED <<start, sm, contents, pauseVars, in_progress, receiving, shutdown, cv_lock, threadVars>>

\* Mutant of NotifyCommit: nobody is notified.
NotifyCommitNobody ==
    /\ lock = "handler"
    /\ lock' = None
    /\ UNCHANGED <<indexVars, pauseVars, in_progress, receiving, shutdown, cv_lock, threadVars>>

\* ... and commit() notifies the commit thread if there is something to execute.
NotifyCommit ==
    /\ lock = "handler"
    /\ lock' = None
    /\ IF Pending THEN NotifyCv ELSE UNCHANGED ct
    /\ UNCHANGED <<indexVars, pauseVars, in_progress, receiving, shutdown, cv_lock, installer, user, watch>>

\* The bound Overlap: no installation is under way.
NoInstallers == \A t \in Installer : installer[t].pc = "idle"

InstallerGoes(t, p) == installer' = [installer EXCEPT ![t].pc = p]

\* handle_install_snapshot_req with the last object of a snapshot of index k.  An old
\* snapshot is refused; the receiving flag is set, if an earlier object has not set it,
\* and lock_ is released.
BeginInstall(t, k) ==
    /\ Overlap \/ NoInstallers
    /\ installer[t].pc = "idle"
    /\ lock = None
    /\ ~stopping
    /\ k \in quick + 1 .. MaxIndex
    /\ receiving' = TRUE
    /\ installer' = [installer EXCEPT ![t] = [pc |-> "pause", idx |-> k]]
    /\ UNCHANGED <<indexVars, pauseVars, in_progress, shutdown, lock, cv_lock, ct, user, watch>>

PauseForInstall(t) ==
    /\ installer[t].pc = "pause"
    /\ paused' = TRUE
    /\ InstallerGoes(t, "await")
    /\ UNCHANGED <<indexVars, held, in_progress, shutdown, lockVars, cv_lock, ct, user, watch>>

\* wait_for_state_machine_pause, again and again until it says yes.
AwaitPause(t) ==
    /\ installer[t].pc = "await"
    /\ ~in_progress
    /\ InstallerGoes(t, "lock")
    /\ UNCHANGED <<indexVars, pauseVars, in_progress, shutdown, lockVars, cv_lock, ct, user, watch>>

\* lock_ is taken again and the flag cleared: append requests would be accepted now,
\* but they need lock_.
LockAgain(t) ==
    /\ installer[t].pc = "lock"
    /\ lock = None
    /\ lock' = t
    /\ receiving' = FALSE
    /\ InstallerGoes(t, "compact")
    /\ UNCHANGED <<indexVars, pauseVars, in_progress, shutdown, cv_lock, ct, user, watch>>

Compact(t) ==
    /\ installer[t].pc = "compact"
    /\ start' = Max2(start, installer[t].idx + 1)
    /\ last' = Max2(last, installer[t].idx)
    /\ InstallerGoes(t, "apply")
    /\ UNCHANGED <<quick, sm, contents, pauseVars, in_progress, shutdown, lockVars, cv_lock, ct, user, watch>>

\* compact returns false: nothing is applied, the state machine is resumed all the same.
CompactFails(t) ==
    /\ installer[t].pc = "compact"
    /\ InstallerGoes(t, "resume")
    /\ UNCHANGED <<indexVars, pauseVars, in_progress, shutdown, lockVars, cv_lock, ct, user, watch>>

\* apply_snapshot returns.
ApplySnapshot(t) ==
    /\ installer[t].pc = "apply"
    /\ contents' = installer[t].idx
    /\ InstallerGoes(t, "set")
    /\ UNCHANGED <<start, last, quick, sm, pauseVars, in_progress, shutdown, lockVars, cv_lock, ct, user, watch>>

\* sm_commit_index_ and quick_commit_index_ are assigned, not advanced.
SetIndexes(t) ==
    /\ installer[t].pc = "set"
    /\ sm' = installer[t].idx
    /\ quick' = installer[t].idx
    /\ InstallerGoes(t, "resume")
    /\ UNCHANGED <<start, last, contents, pauseVars, in_progress, shutdown, lockVars, cv_lock, ct, user, watch>>

ResumeAfterInstall(t) ==
    /\ installer[t].pc = "resume"
    /\ paused' = FALSE
    /\ held' = {}
    /\ InstallerGoes(t, "notify")
    /\ UNCHANGED <<indexVars, in_progress, shutdown, lockVars, cv_lock, ct, user, watch>>

EndInstall(t) ==
    /\ installer[t].pc = "notify"
    /\ NotifyCv
    /\ lock' = None
    /\ installer' = [installer EXCEPT ![t] = [pc |-> "idle", idx |-> 0]]
    /\ UNCHANGED <<indexVars, pauseVars, in_progress, receiving, shutdown, cv_lock, user, watch>>

InstallerStep(t) ==
    \/ PauseForInstall(t) \/ AwaitPause(t) \/ LockAgain(t) \/ Compact(t)
    \/ CompactFails(t) \/ ApplySnapshot(t) \/ SetIndexes(t) \/ ResumeAfterInstall(t) \/ EndInstall(t)

-----------------------------------------------------------------------------
(* Users of the state machine, and shutdown.                               *)

UserGoes(u, p) == user' = [user EXCEPT ![u] = p]

\* pause_state_machine_execution.
PauseByUser(u) ==
    /\ user[u] = "idle"
    /\ paused' = TRUE
    /\ held' = held \cup {u}
    /\ UserGoes(u, "await")
    /\ UNCHANGED <<indexVars, in_progress, shutdown, lockVars, cv_lock, ct, installer, watch>>

\* wait_for_state_machine_pause returns true: it looks at the one flag only.
UserPaused(u) ==
    /\ user[u] = "await"
    /\ ~in_progress
    /\ UserGoes(u, "paused")
    /\ UNCHANGED <<indexVars, pauseVars, in_progress, shutdown, lockVars, cv_lock, ct, installer, watch>>

\* resume_state_machine_execution: the flag first, for whoever has set it, ...
ResumeByUser(u) ==
    /\ Overlap \/ NoInstallers
    /\ user[u] \in {"await", "paused"}
    /\ paused' = FALSE
    /\ held' = {}
    /\ UserGoes(u, "notify")
    /\ UNCHANGED <<indexVars, in_progress, shutdown, lockVars, cv_lock, ct, installer, watch>>

\* ... then the notification.
NotifyResume(u) ==
    /\ user[u] = "notify"
    /\ NotifyCv
    /\ UserGoes(u, "idle")
    /\ UNCHANGED <<indexVars, pauseVars, in_progress, shutdown, lockVars, cv_lock, installer, watch>>

\* wait_for_state_machine_commit(k), under sm_watchers_lock_, at any time.
Watch(w, k) ==
    /\ watch[w].pc = "idle"
    /\ watch' = [watch EXCEPT ![w] =
                   IF k <= sm THEN Result("true") ELSE [pc |-> "registered", idx |-> k]]
    /\ UNCHANGED <<indexVars, pauseVars, in_progress, shutdown, lockVars, cv_lock, ct, installer, user>>

\* shutdown sets stopping_ under lock_ ...
Stop ==
    /\ MayStop
    /\ shutdown = "idle"
    /\ lock = None
    /\ shutdown' = "wait"
    /\ UNCHANGED <<indexVars, pauseVars, in_progress, lockVars, cv_lock, threadVars>>

\* ... notifies until the commit thread is gone ...
NotifyStop ==
    /\ shutdown = "wait"
    /\ ct.pc = "asleep"
    /\ NotifyCv
    /\ UNCHANGED <<indexVars, pauseVars, in_progress, shutdown, lockVars, cv_lock, installer, user, watch>>

\* ... and drops the watchers that are there then.
DropWatchers ==
    /\ shutdown = "wait"
    /\ ct.pc = "stopped"
    /\ watch' = [w \in Watcher |-> IF watch[w].pc = "registered"
                                     THEN Result("cancelled") ELSE watch[w]]
    /\ shutdown' = "done"
    /\ UNCHANGED <<indexVars, pauseVars, in_progress, lockVars, cv_lock, ct, installer, user>>

ShutdownStep == NotifyStop \/ DropWatchers

-----------------------------------------------------------------------------
Next ==
    \/ CommitterStep
    \/ \E k \in 1..MaxIndex : Commit(k)
    \/ NotifyCommit
    \/ \E t \in Installer : InstallerStep(t) \/ \E k \in 1..MaxIndex : BeginInstall(t, k)
    \/ \E u \in User : PauseByUser(u) \/ UserPaused(u) \/ ResumeByUser(u) \/ NotifyResume(u)
    \/ \E w \in Watcher, k \in 1..MaxIndex : Watch(w, k)
    \/ Stop
    \/ ShutdownStep

Spec == Init /\ [][Next]_vars

\* Every thread that can go on does; nothing is assumed of new commits, of
\* snapshots, or of users that pause the state machine and never resume it.
FairSpec ==
    /\ Spec
    /\ WF_vars(CommitterStep)
    /\ WF_vars(NotifyCommit)
    /\ \A t \in Installer : WF_vars(InstallerStep(t))
    /\ \A u \in User : WF_vars(NotifyResume(u))
    /\ WF_vars(ShutdownStep)

-----------------------------------------------------------------------------
(* Properties.                                                             *)

\* The places of the commit thread outside and inside commit_in_bg_exec, and those
\* of the other threads.
Outside == {"check", "wait", "asleep", "woken", "enter", "stopped"}
Inside == {"read_start", "adjust", "loop", "execute", "cas", "notify", "exit"}
InstallerPc == {"idle", "pause", "await", "lock", "compact", "apply", "set", "resume", "notify"}
UserPc == {"idle", "await", "paused", "notify"}

\* Type invariant of the commit thread and of the threads that steer it.
TypeOK ==
    /\ start \in Nat /\ last \in Nat /\ quick \in Nat /\ sm \in Nat
    /\ contents \in Nat \cup {-1}
    /\ paused \in BOOLEAN /\ in_progress \in BOOLEAN /\ receiving \in BOOLEAN
    /\ held \subseteq User
    /\ lock \in Installer \cup {"handler", None}
    /\ cv_lock \in {"commit", None}
    /\ ct \in [pc : Outside \cup Inside, idx : Nat, start : Nat]
    /\ installer \in [Installer -> [pc : InstallerPc, idx : Nat]]
    /\ user \in [User -> UserPc]
    /\ watch \in [Watcher -> [pc : {"idle", "registered", "true", "cancelled"}, idx : Nat]]
    /\ shutdown \in {"idle", "wait", "done"}

\* "let's pause committing in background so it doesn't access logs while they
\* are being compacted" (handle_snapshot_sync_req): no entry is executed, nor
\* about to be, while a snapshot replaces log, contents and indexes.
InstallExclusive ==
    \A t \in Installer :
        installer[t].pc \in {"lock", "compact", "apply", "set", "resume"}
            => ct.pc \notin {"execute", "cas"}

\* The state machine executes the entries in order, each on the contents that end right
\* before it, and a snapshot is continued with the entry after it (commit_in_bg_exec).
InOrder == contents # -1 /\ (ct.pc = "execute" => contents = ct.idx - 1)

\* handle_install_snapshot_req refuses "a snapshot that is older than current
\* commit idx" before it releases lock_, and the answer still holds when the snapshot
\* is applied: the state machine is never set back, so no entry is executed again.
SnapshotIsNewer ==
    \A t \in Installer : installer[t].pc = "apply" => installer[t].idx > contents

\* The commit thread never looks for an entry that the log does not hold:
\* otherwise it stops the process (commit_in_bg_exec, N19).
EntryExists == ct.pc = "execute" => start <= ct.idx /\ ct.idx <= last

\* "`true` if the state machine is paused" (wait_for_state_machine_pause): after that
\* nothing is executed until somebody resumes it, this user, another one or the end
\* of an installation, for they share one flag.
PausedMeansStill ==
    \A u \in User : user[u] = "paused" /\ u \in held => ct.pc # "execute"

\* The two flags of the pause: what PausedMeansStill needs, with any installations
\* and users at any time.
PauseInv ==
    /\ TypeOK
    /\ in_progress <=> ct.pc \in Inside
    /\ held # {} => paused
    /\ PausedMeansStill

\* The flags under Overlap = FALSE: an installation is alone, finds the commit thread
\* paused until it resumes it, and keeps the handlers away by the receiving flag until
\* it has lock_ again.
FlagsHold ==
    /\ \A s, t \in Installer : installer[s].pc # "idle" /\ installer[t].pc # "idle" => s = t
    /\ \A t \in Installer :
          /\ installer[t].pc \in {"await", "lock", "compact", "apply", "set", "resume"} => paused
          /\ installer[t].pc \in {"pause", "await", "lock"} => receiving
          /\ installer[t].pc \in {"compact", "apply", "set", "resume", "notify"} => lock = t

\* The indexes: contents and commit index go together except while a snapshot is
\* applied, and the log begins at or before the entry after them.  A snapshot stays
\* beyond the commit index until it is the commit index.
IndexesAgree ==
    /\ ct.start <= start
    /\ ct.pc \in {"execute", "cas"} => ct.idx = sm + 1 /\ ct.idx <= last /\ ct.idx <= quick
    /\ \A t \in Installer :
          /\ installer[t].pc \in {"pause", "await", "lock", "compact", "apply", "set"}
                => quick < installer[t].idx
          /\ installer[t].pc \in {"apply", "set"} => start = installer[t].idx + 1
          /\ installer[t].pc = "apply" => contents <= quick
          /\ installer[t].pc = "set" => contents = installer[t].idx
    /\ (\A t \in Installer : installer[t].pc \notin {"apply", "set"})
          => /\ start <= sm + 1 /\ sm <= quick
             /\ contents = IF ct.pc = "cas" THEN sm + 1 ELSE sm

\* The inductive invariant of installations that do not overlap, among any users: what
\* flags, lock and indexes say together.
CommitInv ==
    PauseInv /\ contents # -1 /\ FlagsHold /\ InstallExclusive /\ IndexesAgree

\* What is committed is executed unless someone has paused the state machine:
\* no notification of commit(), of a resume or of an installation is lost.
\* (An overlapping installation may take the commit index back to its snapshot.)
CommitProgress ==
    \A k \in 1..MaxIndex :
        quick >= k ~> (sm >= k \/ quick < k \/ paused \/ ct.pc = "stopped")

\* "the commit results will be set to the returned `cmd_result` instance later"
\* (wait_for_state_machine_commit): a watcher of an entry that the state machine has
\* executed is told.  (Nobody tells the watcher of an entry that a snapshot covers.)
WatcherIsTold ==
    \A w \in Watcher :
        (watch[w].pc = "registered" /\ start <= watch[w].idx /\ watch[w].idx <= sm)
            ~> watch[w].pc \in {"true", "cancelled"}

\* The same of every watcher whose index the state machine has reached.
EveryWatcherIsTold ==
    \A w \in Watcher :
        (watch[w].pc = "registered" /\ watch[w].idx <= sm)
            ~> watch[w].pc \in {"true", "cancelled"}

\* shutdown ends, although the commit thread may be asleep or paused when it begins, and
\* every watcher that is registered before it drops them has its result by then; unless
\* the state machine is paused and resumed for ever, which may keep the commit thread
\* from the one place where it looks at stopping_.
StopsForGood ==
    \/ []<>paused /\ []<>~paused
    \/ /\ stopping ~> shutdown = "done"
       /\ \A w \in Watcher :
             (shutdown = "wait" /\ watch[w].pc = "registered")
                 ~> watch[w].pc \in {"true", "cancelled"}

\* "all state machine watchers dropped" (shutdown): nobody waits for a commit thread
\* that is gone.
NoWatcherLeft == shutdown = "done" => \A w \in Watcher : watch[w].pc # "registered"

=============================================================================
