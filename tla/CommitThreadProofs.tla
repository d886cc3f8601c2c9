------------------------- MODULE CommitThreadProofs -------------------------
(***************************************************************************)
(* Proofs about CommitThread, for any log, any installations, users and    *)
(* watchers.  First, with any of them at any time: a user who was told     *)
(* that the state machine is paused finds it so until somebody resumes it. *)
(* Then, with installations that do not overlap each other or the resume   *)
(* of a user: the flags and lock_ keep the commit thread and the handlers  *)
(* away from an installation, the state machine is never set back, and it  *)
(* executes the entries in order and from the log.                         *)
(***************************************************************************)
EXTENDS CommitThread, TLAPS

USE DEF indexVars, pauseVars, lockVars, threadVars

\* With two installations at a time, or a user that resumes the state machine during
\* one, CommitThread has counterexamples to all but PausedMeansStill.
OneAtATime == ~Overlap

CtType == [pc : Outside \cup Inside, idx : Nat, start : Nat]
WatchType == [pc : {"idle", "registered", "true", "cancelled"}, idx : Nat]

-----------------------------------------------------------------------------
(* Lemmas.                                                                 *)

\* The places of the threads that the proofs tell apart.
LEMMA Places ==
    /\ Outside \cap Inside = {}
    /\ {"execute", "cas", "read_start", "adjust", "loop", "notify", "exit"} \subseteq Inside
    /\ {"check", "wait", "asleep", "woken", "enter", "stopped"} \subseteq Outside
  BY ZenonT(60) DEF Outside, Inside

\* The next state of the commit thread, field by field.
LEMMA Moved ==
    ASSUME TypeOK, NEW p \in Outside \cup Inside, Goes(p)
    PROVE  ct' \in CtType /\ ct'.pc = p /\ ct'.idx = ct.idx /\ ct'.start = ct.start
  <1>1. ct \in CtType
    BY ZenonT(60) DEF TypeOK, CtType
  <1> QED BY ZenonT(60), <1>1 DEF Goes, CtType

\* The same when the thread also takes the start of the log, or an entry.
LEMMA MovedAt ==
    ASSUME NEW S, NEW c \in [pc : S, idx : Nat, start : Nat], NEW p \in S, NEW k \in Nat
    PROVE  /\ [c EXCEPT !.pc = p, !.start = k] \in [pc : S, idx : Nat, start : Nat]
           /\ [c EXCEPT !.pc = p, !.start = k].pc = p
           /\ [c EXCEPT !.pc = p, !.start = k].start = k
           /\ [c EXCEPT !.pc = p, !.idx = k] \in [pc : S, idx : Nat, start : Nat]
           /\ [c EXCEPT !.pc = p, !.idx = k].pc = p
           /\ [c EXCEPT !.pc = p, !.idx = k].idx = k
           /\ [c EXCEPT !.pc = p, !.idx = k].start = c.start
  <1> DEFINE d == [c EXCEPT !.pc = p]
             R == [pc : S, idx : Nat, start : Nat]
  <1>1. d \in R /\ d.pc = p /\ d.idx = c.idx /\ d.start = c.start
    BY ZenonT(60)
  <1>2. /\ [c EXCEPT !.pc = p, !.start = k] = [d EXCEPT !.start = k]
        /\ [c EXCEPT !.pc = p, !.idx = k] = [d EXCEPT !.idx = k]
    BY ZenonT(60)
  <1> HIDE DEF d
  <1>3. /\ [d EXCEPT !.start = k] \in R
        /\ [d EXCEPT !.start = k].pc = d.pc /\ [d EXCEPT !.start = k].start = k
    BY ZenonT(60), <1>1
  <1>4. /\ [d EXCEPT !.idx = k] \in R
        /\ [d EXCEPT !.idx = k].pc = d.pc /\ [d EXCEPT !.idx = k].idx = k
        /\ [d EXCEPT !.idx = k].start = d.start
    BY ZenonT(60), <1>1
  <1> QED BY ZenonT(60), <1>1, <1>2, <1>3, <1>4

\* A notification wakes a sleeper and does nothing else.
LEMMA Notified ==
    ASSUME TypeOK, NotifyCv
    PROVE  /\ ct' \in CtType
           /\ \/ ct' = ct
              \/ ct.pc \notin Inside /\ ct'.pc \notin Inside /\ ct'.start = ct.start
  <1>1. CASE ct.pc = "asleep"
    <2>1. Goes("woken")
      BY ZenonT(60), <1>1 DEF NotifyCv, Goes
    <2>2. "woken" \in Outside \cup Inside /\ "woken" \notin Inside /\ "asleep" \notin Inside
      BY ZenonT(60) DEF Outside, Inside
    <2> QED BY ZenonT(60), <1>1, <2>1, <2>2, Moved
  <1>2. CASE ct.pc # "asleep"
    BY ZenonT(60), <1>2 DEF NotifyCv, TypeOK, CtType
  <1> QED BY ZenonT(60), <1>1, <1>2

\* The next state of an installer.
LEMMA InstallerMoved ==
    ASSUME TypeOK, NEW t \in Installer, NEW p \in InstallerPc, InstallerGoes(t, p)
    PROVE  /\ installer' \in [Installer -> [pc : InstallerPc, idx : Nat]]
           /\ installer'[t].pc = p /\ installer'[t].idx = installer[t].idx
           /\ installer[t].idx \in Nat
           /\ \A s \in Installer : s # t => installer'[s] = installer[s]
  <1>1. installer \in [Installer -> [pc : InstallerPc, idx : Nat]]
    BY ZenonT(60) DEF TypeOK
  <1> QED BY ZenonT(60), <1>1 DEF InstallerGoes

\* The same when it begins or ends an installation.
LEMMA InstallerSet ==
    ASSUME TypeOK, NEW t \in Installer, NEW p \in InstallerPc, NEW k \in Nat,
           installer' = [installer EXCEPT ![t] = [pc |-> p, idx |-> k]]
    PROVE  /\ installer' \in [Installer -> [pc : InstallerPc, idx : Nat]]
           /\ installer'[t].pc = p /\ installer'[t].idx = k
           /\ \A s \in Installer : s # t => installer'[s] = installer[s]
  <1>1. installer \in [Installer -> [pc : InstallerPc, idx : Nat]]
    BY ZenonT(60) DEF TypeOK
  <1> QED BY ZenonT(60), <1>1

\* The next state of a user.
LEMMA UserMoved ==
    ASSUME TypeOK, NEW u \in User, NEW p \in UserPc, UserGoes(u, p)
    PROVE  /\ user' \in [User -> UserPc]
           /\ user'[u] = p
           /\ \A v \in User : v # u => user'[v] = user[v]
  <1>1. user \in [User -> UserPc]
    BY ZenonT(60) DEF TypeOK
  <1> QED BY ZenonT(60), <1>1 DEF UserGoes

-----------------------------------------------------------------------------
(* The pause: PauseInv is inductive, whatever installations and users do.  *)

\* A step that leaves the pause and the users alone, and takes up an entry only while the
\* flag is not set.
LEMMA PauseKept ==
    ASSUME PauseInv, TypeOK', UNCHANGED <<paused, held, user>>,
           in_progress' <=> ct'.pc \in Inside,
           ct'.pc = "execute" => ct.pc = "execute" \/ ~paused
    PROVE  PauseInv'
  BY ZenonT(90) DEF PauseInv, PausedMeansStill

(* The commit thread.                                                      *)

LEMMA CheckWorkPause == ASSUME PauseInv, CheckWork PROVE PauseInv'
  <1>1. TypeOK /\ (in_progress <=> ct.pc \in Inside)
    BY ZenonT(60) DEF PauseInv
  <1>2. PICK p \in {"enter", "wait"} : Goes(p) /\ ct.pc = "check"
    BY ZenonT(60) DEF CheckWork
  <1>3. p \in Outside \cup Inside /\ p \notin Inside /\ ct.pc \notin Inside /\ p # "execute"
    BY ZenonT(60), <1>2 DEF Outside, Inside
  <1>4. ct' \in CtType /\ ct'.pc = p
    BY ZenonT(60), <1>1, <1>2, <1>3, Moved
  <1>5. TypeOK'
    BY ZenonT(90), <1>1, <1>4 DEF CheckWork, TypeOK, CtType
  <1> QED BY ZenonT(90), <1>1, <1>3, <1>4, <1>5, PauseKept DEF CheckWork

LEMMA WaitCheckPause == ASSUME PauseInv, WaitCheck PROVE PauseInv'
  <1>1. TypeOK /\ (in_progress <=> ct.pc \in Inside)
    BY ZenonT(60) DEF PauseInv
  <1>2. PICK p \in {"stopped", "check", "asleep"} : Goes(p) /\ ct.pc = "wait"
    BY ZenonT(60) DEF WaitCheck
  <1>3. p \in Outside \cup Inside /\ p \notin Inside /\ ct.pc \notin Inside /\ p # "execute"
    BY ZenonT(60), <1>2 DEF Outside, Inside
  <1>4. ct' \in CtType /\ ct'.pc = p
    BY ZenonT(60), <1>1, <1>2, <1>3, Moved
  <1>5. TypeOK'
    BY ZenonT(90), <1>1, <1>4 DEF WaitCheck, TypeOK, CtType
  <1> QED BY ZenonT(90), <1>1, <1>3, <1>4, <1>5, PauseKept DEF WaitCheck

LEMMA WakeUpPause == ASSUME PauseInv, WakeUp PROVE PauseInv'
  <1>1. TypeOK /\ (in_progress <=> ct.pc \in Inside)
    BY ZenonT(60) DEF PauseInv
  <1>2. Goes("wait") /\ ct.pc = "woken"
    BY ZenonT(60) DEF WakeUp
  <1>3. "wait" \in Outside \cup Inside /\ "wait" \notin Inside /\ ct.pc \notin Inside /\ "wait" # "execute"
    BY ZenonT(60), <1>2 DEF Outside, Inside
  <1>4. ct' \in CtType /\ ct'.pc = "wait"
    BY ZenonT(60), <1>1, <1>2, <1>3, Moved
  <1>5. TypeOK'
    BY ZenonT(90), <1>1, <1>4 DEF WakeUp, TypeOK, CtType
  <1> QED BY ZenonT(90), <1>1, <1>3, <1>4, <1>5, PauseKept DEF WakeUp

LEMMA EnterExecPause == ASSUME PauseInv, EnterExec PROVE PauseInv'
  <1>1. TypeOK /\ (in_progress <=> ct.pc \in Inside)
    BY ZenonT(60) DEF PauseInv
  <1>2. ct' \in CtType /\ ct'.pc = "read_start"
    BY ZenonT(60), <1>1, Moved DEF EnterExec, Inside
  <1>3. "read_start" # "execute" /\ (in_progress' <=> "read_start" \in Inside)
    BY ZenonT(60), <1>1 DEF EnterExec, Inside
  <1>5. TypeOK'
    BY ZenonT(90), <1>1, <1>2 DEF EnterExec, TypeOK, CtType
  <1> QED BY ZenonT(90), <1>2, <1>3, <1>5, PauseKept DEF EnterExec

LEMMA ReadStartPause == ASSUME PauseInv, ReadStart PROVE PauseInv'
  <1>1. TypeOK /\ (in_progress <=> ct.pc \in Inside)
    BY ZenonT(60) DEF PauseInv
  <1>2. ct' \in CtType /\ ct'.pc = "adjust"
    BY ZenonT(60), <1>1, MovedAt, Places DEF ReadStart, TypeOK, CtType
  <1>3. "adjust" # "execute" /\ (in_progress' <=> "adjust" \in Inside)
    BY ZenonT(60), <1>1 DEF ReadStart, Inside
  <1>5. TypeOK'
    BY ZenonT(90), <1>1, <1>2 DEF ReadStart, TypeOK, CtType
  <1> QED BY ZenonT(90), <1>2, <1>3, <1>5, PauseKept DEF ReadStart

LEMMA AdjustIndexPause == ASSUME PauseInv, AdjustIndex PROVE PauseInv'
  <1>1. TypeOK /\ (in_progress <=> ct.pc \in Inside)
    BY ZenonT(60) DEF PauseInv
  <1>2. ct' \in CtType /\ ct'.pc = "loop"
    BY ZenonT(60), <1>1, Moved DEF AdjustIndex, Inside
  <1>3. "loop" # "execute" /\ (in_progress' <=> "loop" \in Inside)
    BY ZenonT(60), <1>1 DEF AdjustIndex, Inside
  <1>4. sm' \in Nat
    <2>1. sm \in Nat /\ ct.start \in Nat
      BY ZenonT(60), <1>1 DEF TypeOK
    <2> QED BY SMTT(60), <2>1 DEF AdjustIndex, Max2
  <1>5. TypeOK'
    BY ZenonT(90), <1>1, <1>2, <1>4 DEF AdjustIndex, TypeOK, CtType
  <1> QED BY ZenonT(90), <1>2, <1>3, <1>5, PauseKept DEF AdjustIndex

\* An entry is taken up while the flag is not set.
LEMMA ExecLoopPause == ASSUME PauseInv, ExecLoop PROVE PauseInv'
  <1>1. TypeOK /\ (in_progress <=> ct.pc \in Inside)
    BY ZenonT(60) DEF PauseInv
  <1>2. /\ ct' \in CtType /\ ct.pc \in Inside /\ ct'.pc \in Inside
        /\ ct'.pc = "execute" => ~paused
    <2>1. CASE Pending /\ ~paused
      <3>1. sm + 1 \in Nat
        BY SMTT(60), <1>1 DEF TypeOK
      <3>2. ct' = [ct EXCEPT !.pc = "execute", !.idx = sm + 1] /\ ct.pc = "loop"
        BY ZenonT(60), <2>1 DEF ExecLoop
      <3>3. ct \in [pc : Outside \cup Inside, idx : Nat, start : Nat]
        BY ZenonT(60), <1>1 DEF TypeOK
      <3>4. "execute" \in Inside /\ "loop" \in Inside
        BY ZenonT(60) DEF Inside
      <3>5. ct' \in [pc : Outside \cup Inside, idx : Nat, start : Nat] /\ ct'.pc = "execute"
        BY ZenonT(60), <3>1, <3>2, <3>3, <3>4, MovedAt
      <3> QED BY ZenonT(60), <2>1, <3>2, <3>4, <3>5 DEF CtType
    <2>2. CASE ~(Pending /\ ~paused)
      <3>1. Goes("exit")
        BY ZenonT(60), <2>2 DEF ExecLoop, Goes
      <3>2. "exit" # "execute"
        BY ZenonT(60)
      <3> QED BY ZenonT(60), <1>1, <3>1, <3>2, Moved, Places DEF ExecLoop
    <2> QED BY ZenonT(60), <2>1, <2>2
  <1>3. TypeOK'
    BY ZenonT(90), <1>1, <1>2 DEF ExecLoop, TypeOK, CtType
  <1> QED BY ZenonT(90), <1>1, <1>2, <1>3, PauseKept DEF ExecLoop

LEMMA ExecutePause == ASSUME PauseInv, Execute PROVE PauseInv'
  <1>1. TypeOK /\ (in_progress <=> ct.pc \in Inside)
    BY ZenonT(60) DEF PauseInv
  <1>2. ct' \in CtType /\ ct'.pc = "cas"
    BY ZenonT(60), <1>1, Moved DEF Execute, Inside
  <1>3. "cas" # "execute" /\ (in_progress' <=> "cas" \in Inside)
    BY ZenonT(60), <1>1 DEF Execute, Inside
  <1>4. contents' \in Nat \cup {-1}
    <2>1. ct.idx \in Nat
      BY ZenonT(60), <1>1 DEF TypeOK
    <2> QED BY ZenonT(60), <2>1 DEF Execute
  <1>5. TypeOK'
    BY ZenonT(90), <1>1, <1>2, <1>4 DEF Execute, TypeOK, CtType
  <1> QED BY ZenonT(90), <1>2, <1>3, <1>5, PauseKept DEF Execute

LEMMA AdvanceIndexPause == ASSUME PauseInv, AdvanceIndex PROVE PauseInv'
  <1>1. TypeOK /\ (in_progress <=> ct.pc \in Inside)
    BY ZenonT(60) DEF PauseInv
  <1>2. ct' \in CtType /\ ct'.pc = "notify"
    BY ZenonT(60), <1>1, Moved DEF AdvanceIndex, Inside
  <1>3. "notify" # "execute" /\ (in_progress' <=> "notify" \in Inside)
    BY ZenonT(60), <1>1 DEF AdvanceIndex, Inside
  <1>4. sm' \in Nat
    <2>1. sm \in Nat /\ ct.idx \in Nat
      BY ZenonT(60), <1>1 DEF TypeOK
    <2> QED BY ZenonT(60), <2>1 DEF AdvanceIndex
  <1>5. TypeOK'
    BY ZenonT(90), <1>1, <1>2, <1>4 DEF AdvanceIndex, TypeOK, CtType
  <1> QED BY ZenonT(90), <1>2, <1>3, <1>5, PauseKept DEF AdvanceIndex

LEMMA NotifyWatchersPause == ASSUME PauseInv, NotifyWatchers PROVE PauseInv'
  <1>1. TypeOK /\ (in_progress <=> ct.pc \in Inside)
    BY ZenonT(60) DEF PauseInv
  <1>2. ct' \in CtType /\ ct'.pc = "loop"
    BY ZenonT(60), <1>1, Moved DEF NotifyWatchers, Inside
  <1>3. "loop" # "execute" /\ (in_progress' <=> "loop" \in Inside)
    BY ZenonT(60), <1>1 DEF NotifyWatchers, Inside
  <1>4. watch' \in [Watcher -> WatchType]
    BY ZenonT(60), <1>1 DEF NotifyWatchers, TypeOK, WatchType, Result
  <1>5. TypeOK'
    BY ZenonT(90), <1>1, <1>2, <1>4 DEF NotifyWatchers, TypeOK, CtType, WatchType
  <1> QED BY ZenonT(90), <1>2, <1>3, <1>5, PauseKept DEF NotifyWatchers

LEMMA ExitExecPause == ASSUME PauseInv, ExitExec PROVE PauseInv'
  <1>1. TypeOK /\ (in_progress <=> ct.pc \in Inside)
    BY ZenonT(60) DEF PauseInv
  <1>2. ct' \in CtType /\ ct'.pc = "check"
    BY ZenonT(60), Places DEF ExitExec, CtType
  <1>3. "check" # "execute" /\ (in_progress' <=> "check" \in Inside)
    BY ZenonT(60), <1>1 DEF ExitExec, Inside
  <1>5. TypeOK'
    BY ZenonT(90), <1>1, <1>2 DEF ExitExec, TypeOK, CtType
  <1> QED BY ZenonT(90), <1>2, <1>3, <1>5, PauseKept DEF ExitExec

LEMMA CommitterPause == ASSUME PauseInv, CommitterStep PROVE PauseInv'
  BY ZenonT(60), CheckWorkPause, WaitCheckPause, WakeUpPause, EnterExecPause, ReadStartPause,
     AdjustIndexPause, ExecLoopPause, ExecutePause, AdvanceIndexPause, NotifyWatchersPause,
     ExitExecPause DEF CommitterStep

(* The handlers of lock_.                                                  *)

LEMMA CommitPause == ASSUME PauseInv, NEW k \in 1 .. MaxIndex, Commit(k) PROVE PauseInv'
  <1>1. TypeOK /\ (in_progress <=> ct.pc \in Inside)
    BY ZenonT(60) DEF PauseInv
  <1>2. quick' \in Nat /\ last' \in Nat
    <2>1. quick' = k /\ last' = Max2(last, k) /\ k \in Nat /\ last \in Nat
      BY SMTT(60), <1>1 DEF Commit, TypeOK
    <2> QED BY SMTT(60), <2>1 DEF Max2
  <1>3. TypeOK'
    BY ZenonT(90), <1>1, <1>2 DEF Commit, TypeOK
  <1> QED BY ZenonT(90), <1>1, <1>3, PauseKept DEF Commit

LEMMA NotifyCommitPause == ASSUME PauseInv, NotifyCommit PROVE PauseInv'
  <1>1. TypeOK /\ (in_progress <=> ct.pc \in Inside)
    BY ZenonT(60) DEF PauseInv
  <1>2. /\ ct' \in CtType
        /\ ct' = ct \/ (ct.pc \notin Inside /\ ct'.pc \notin Inside)
    BY ZenonT(60), <1>1, Notified DEF NotifyCommit, TypeOK, CtType
  <1>3. TypeOK'
    BY ZenonT(90), <1>1, <1>2 DEF NotifyCommit, TypeOK, CtType
  <1> QED BY ZenonT(90), <1>1, <1>2, <1>3, PauseKept, Places DEF NotifyCommit

LEMMA BeginInstallPause ==
    ASSUME PauseInv, NEW t \in Installer, NEW k \in 1 .. MaxIndex, BeginInstall(t, k)
    PROVE  PauseInv'
  <1>1. TypeOK /\ (in_progress <=> ct.pc \in Inside)
    BY ZenonT(60) DEF PauseInv
  <1>2. k \in Nat
    BY SMTT(60)
  <1>3. installer' \in [Installer -> [pc : InstallerPc, idx : Nat]]
    BY ZenonT(60), <1>1, <1>2, InstallerSet DEF BeginInstall, InstallerPc
  <1>4. TypeOK'
    BY ZenonT(90), <1>1, <1>3 DEF BeginInstall, TypeOK
  <1> QED BY ZenonT(90), <1>1, <1>4, PauseKept DEF BeginInstall

LEMMA PauseForInstallPause == ASSUME PauseInv, NEW t \in Installer, PauseForInstall(t) PROVE PauseInv'
  <1>1. TypeOK /\ (in_progress <=> ct.pc \in Inside) /\ PausedMeansStill
    BY ZenonT(60) DEF PauseInv
  <1>2. installer' \in [Installer -> [pc : InstallerPc, idx : Nat]]
    BY ZenonT(60), <1>1, InstallerMoved DEF PauseForInstall, InstallerPc
  <1>3. TypeOK'
    BY ZenonT(90), <1>1, <1>2 DEF PauseForInstall, TypeOK
  <1> QED BY ZenonT(90), <1>1, <1>3 DEF PauseForInstall, PauseInv, PausedMeansStill

LEMMA AwaitPausePause == ASSUME PauseInv, NEW t \in Installer, AwaitPause(t) PROVE PauseInv'
  <1>1. TypeOK /\ (in_progress <=> ct.pc \in Inside)
    BY ZenonT(60) DEF PauseInv
  <1>2. /\ installer' \in [Installer -> [pc : InstallerPc, idx : Nat]]
        /\ installer[t].idx \in Nat
    BY ZenonT(60), <1>1, InstallerMoved DEF AwaitPause, InstallerPc
  <1>4. TypeOK'
    BY ZenonT(90), <1>1, <1>2 DEF AwaitPause, TypeOK
  <1> QED BY ZenonT(90), <1>1, <1>4, PauseKept DEF AwaitPause

LEMMA LockAgainPause == ASSUME PauseInv, NEW t \in Installer, LockAgain(t) PROVE PauseInv'
  <1>1. TypeOK /\ (in_progress <=> ct.pc \in Inside)
    BY ZenonT(60) DEF PauseInv
  <1>2. /\ installer' \in [Installer -> [pc : InstallerPc, idx : Nat]]
        /\ installer[t].idx \in Nat
    BY ZenonT(60), <1>1, InstallerMoved DEF LockAgain, InstallerPc
  <1>4. TypeOK'
    BY ZenonT(90), <1>1, <1>2 DEF LockAgain, TypeOK
  <1> QED BY ZenonT(90), <1>1, <1>4, PauseKept DEF LockAgain

LEMMA CompactPause == ASSUME PauseInv, NEW t \in Installer, Compact(t) PROVE PauseInv'
  <1>1. TypeOK /\ (in_progress <=> ct.pc \in Inside)
    BY ZenonT(60) DEF PauseInv
  <1>2. /\ installer' \in [Installer -> [pc : InstallerPc, idx : Nat]]
        /\ installer[t].idx \in Nat
    BY ZenonT(60), <1>1, InstallerMoved DEF Compact, InstallerPc
  <1>3. start' \in Nat /\ last' \in Nat
    <2>1. start \in Nat /\ last \in Nat
      BY ZenonT(60), <1>1 DEF TypeOK
    <2> QED BY SMTT(60), <1>2, <2>1 DEF Compact, Max2
  <1>4. TypeOK'
    BY ZenonT(90), <1>1, <1>2, <1>3 DEF Compact, TypeOK
  <1> QED BY ZenonT(90), <1>1, <1>4, PauseKept DEF Compact

LEMMA CompactFailsPause == ASSUME PauseInv, NEW t \in Installer, CompactFails(t) PROVE PauseInv'
  <1>1. TypeOK /\ (in_progress <=> ct.pc \in Inside)
    BY ZenonT(60) DEF PauseInv
  <1>2. /\ installer' \in [Installer -> [pc : InstallerPc, idx : Nat]]
        /\ installer[t].idx \in Nat
    BY ZenonT(60), <1>1, InstallerMoved DEF CompactFails, InstallerPc
  <1>4. TypeOK'
    BY ZenonT(90), <1>1, <1>2 DEF CompactFails, TypeOK
  <1> QED BY ZenonT(90), <1>1, <1>4, PauseKept DEF CompactFails

LEMMA ApplySnapshotPause == ASSUME PauseInv, NEW t \in Installer, ApplySnapshot(t) PROVE PauseInv'
  <1>1. TypeOK /\ (in_progress <=> ct.pc \in Inside)
    BY ZenonT(60) DEF PauseInv
  <1>2. /\ installer' \in [Installer -> [pc : InstallerPc, idx : Nat]]
        /\ installer[t].idx \in Nat
    BY ZenonT(60), <1>1, InstallerMoved DEF ApplySnapshot, InstallerPc
  <1>4. TypeOK'
    BY ZenonT(90), <1>1, <1>2 DEF ApplySnapshot, TypeOK
  <1> QED BY ZenonT(90), <1>1, <1>4, PauseKept DEF ApplySnapshot

LEMMA SetIndexesPause == ASSUME PauseInv, NEW t \in Installer, SetIndexes(t) PROVE PauseInv'
  <1>1. TypeOK /\ (in_progress <=> ct.pc \in Inside)
    BY ZenonT(60) DEF PauseInv
  <1>2. /\ installer' \in [Installer -> [pc : InstallerPc, idx : Nat]]
        /\ installer[t].idx \in Nat
    BY ZenonT(60), <1>1, InstallerMoved DEF SetIndexes, InstallerPc
  <1>4. TypeOK'
    BY ZenonT(90), <1>1, <1>2 DEF SetIndexes, TypeOK
  <1> QED BY ZenonT(90), <1>1, <1>4, PauseKept DEF SetIndexes

\* The end of an installation ends the pause of everybody.
LEMMA ResumeAfterInstallPause ==
    ASSUME PauseInv, NEW t \in Installer, ResumeAfterInstall(t)
    PROVE  PauseInv'
  <1>1. TypeOK /\ (in_progress <=> ct.pc \in Inside)
    BY ZenonT(60) DEF PauseInv
  <1>2. installer' \in [Installer -> [pc : InstallerPc, idx : Nat]]
    BY ZenonT(60), <1>1, InstallerMoved DEF ResumeAfterInstall, InstallerPc
  <1>3. TypeOK'
    BY ZenonT(90), <1>1, <1>2 DEF ResumeAfterInstall, TypeOK
  <1> QED BY ZenonT(90), <1>1, <1>3 DEF ResumeAfterInstall, PauseInv, PausedMeansStill

LEMMA EndInstallPause == ASSUME PauseInv, NEW t \in Installer, EndInstall(t) PROVE PauseInv'
  <1>1. TypeOK /\ (in_progress <=> ct.pc \in Inside)
    BY ZenonT(60) DEF PauseInv
  <1>2. installer' \in [Installer -> [pc : InstallerPc, idx : Nat]]
    BY ZenonT(60), <1>1, InstallerSet DEF EndInstall, InstallerPc
  <1>3. /\ ct' \in CtType
        /\ ct' = ct \/ (ct.pc \notin Inside /\ ct'.pc \notin Inside)
    BY ZenonT(60), <1>1, Notified DEF EndInstall
  <1>4. TypeOK'
    BY ZenonT(90), <1>1, <1>2, <1>3 DEF EndInstall, TypeOK, CtType
  <1> QED BY ZenonT(90), <1>1, <1>3, <1>4, PauseKept, Places DEF EndInstall

LEMMA InstallerPause == ASSUME PauseInv, NEW t \in Installer, InstallerStep(t) PROVE PauseInv'
  BY ZenonT(60), PauseForInstallPause, AwaitPausePause, LockAgainPause, CompactPause,
     CompactFailsPause, ApplySnapshotPause, SetIndexesPause, ResumeAfterInstallPause,
     EndInstallPause DEF InstallerStep

(* Users.                                                                  *)

LEMMA PauseByUserPause == ASSUME PauseInv, NEW u \in User, PauseByUser(u) PROVE PauseInv'
  <1>1. TypeOK /\ (in_progress <=> ct.pc \in Inside) /\ PausedMeansStill
    BY ZenonT(60) DEF PauseInv
  <1>2. /\ user' \in [User -> UserPc] /\ user'[u] = "await" /\ "await" # "paused"
        /\ \A v \in User : v # u => user'[v] = user[v]
    BY ZenonT(60), <1>1, UserMoved DEF PauseByUser, UserPc
  <1>3. held' \subseteq User
    BY ZenonT(60), <1>1 DEF PauseByUser, TypeOK
  <1>4. TypeOK'
    BY ZenonT(90), <1>1, <1>2, <1>3 DEF PauseByUser, TypeOK
  <1>5. PausedMeansStill'
    BY ZenonT(90), <1>1, <1>2 DEF PauseByUser, PausedMeansStill
  <1> QED BY ZenonT(90), <1>1, <1>4, <1>5 DEF PauseByUser, PauseInv

\* The user is told: nothing is in progress, so no entry is in hand.
LEMMA UserPausedPause == ASSUME PauseInv, NEW u \in User, UserPaused(u) PROVE PauseInv'
  <1>1. TypeOK /\ (in_progress <=> ct.pc \in Inside)
    BY ZenonT(60) DEF PauseInv
  <1>2. user' \in [User -> UserPc]
    BY ZenonT(60), <1>1, UserMoved DEF UserPaused, UserPc
  <1>3. TypeOK'
    BY ZenonT(90), <1>1, <1>2 DEF UserPaused, TypeOK
  <1>4. ct'.pc # "execute"
    BY ZenonT(60), <1>1, Places DEF UserPaused
  <1> QED BY ZenonT(90), <1>1, <1>3, <1>4 DEF UserPaused, PauseInv, PausedMeansStill

LEMMA ResumeByUserPause == ASSUME PauseInv, NEW u \in User, ResumeByUser(u) PROVE PauseInv'
  <1>1. TypeOK /\ (in_progress <=> ct.pc \in Inside)
    BY ZenonT(60) DEF PauseInv
  <1>2. user' \in [User -> UserPc]
    BY ZenonT(60), <1>1, UserMoved DEF ResumeByUser, UserPc
  <1>3. TypeOK'
    BY ZenonT(90), <1>1, <1>2 DEF ResumeByUser, TypeOK
  <1> QED BY ZenonT(90), <1>1, <1>3 DEF ResumeByUser, PauseInv, PausedMeansStill

LEMMA NotifyResumePause == ASSUME PauseInv, NEW u \in User, NotifyResume(u) PROVE PauseInv'
  <1>1. TypeOK /\ (in_progress <=> ct.pc \in Inside) /\ PausedMeansStill /\ (held # {} => paused)
    BY ZenonT(60) DEF PauseInv
  <1>2. /\ user' \in [User -> UserPc] /\ user'[u] = "idle" /\ "idle" # "paused"
        /\ \A v \in User : v # u => user'[v] = user[v]
    BY ZenonT(60), <1>1, UserMoved DEF NotifyResume, UserPc
  <1>3. /\ ct' \in CtType
        /\ ct' = ct \/ (ct.pc \notin Inside /\ ct'.pc \notin Inside)
    BY ZenonT(60), <1>1, Notified DEF NotifyResume
  <1>4. TypeOK'
    BY ZenonT(90), <1>1, <1>2, <1>3 DEF NotifyResume, TypeOK, CtType
  <1>5. PausedMeansStill'
    BY ZenonT(90), <1>1, <1>2, <1>3, Places DEF NotifyResume, PausedMeansStill
  <1> QED BY ZenonT(90), <1>1, <1>3, <1>4, <1>5 DEF NotifyResume, PauseInv

(* Watchers and shutdown.                                                  *)

LEMMA WatchPause ==
    ASSUME PauseInv, NEW w \in Watcher, NEW k \in 1 .. MaxIndex, Watch(w, k)
    PROVE  PauseInv'
  <1>1. TypeOK /\ (in_progress <=> ct.pc \in Inside)
    BY ZenonT(60) DEF PauseInv
  <1>2. k \in Nat
    BY SMTT(60)
  <1>3. watch' \in [Watcher -> WatchType]
    <2> DEFINE e == IF k <= sm THEN Result("true") ELSE [pc |-> "registered", idx |-> k]
    <2>1. e \in WatchType /\ watch' = [watch EXCEPT ![w] = e]
      BY ZenonT(60), <1>2 DEF Watch, Result, WatchType
    <2>2. watch \in [Watcher -> WatchType]
      BY ZenonT(60), <1>1 DEF TypeOK, WatchType
    <2> HIDE DEF e
    <2> QED BY ZenonT(60), <2>1, <2>2
  <1>4. TypeOK'
    BY ZenonT(90), <1>1, <1>3 DEF Watch, TypeOK, WatchType
  <1> QED BY ZenonT(90), <1>1, <1>4, PauseKept DEF Watch

LEMMA ShutdownPause == ASSUME PauseInv, Stop \/ ShutdownStep PROVE PauseInv'
  <1>1. TypeOK /\ (in_progress <=> ct.pc \in Inside)
    BY ZenonT(60) DEF PauseInv
  <1>2. CASE Stop
    <2>1. TypeOK'
      BY ZenonT(90), <1>1, <1>2 DEF Stop, TypeOK
    <2> QED BY ZenonT(90), <1>1, <1>2, <2>1, PauseKept DEF Stop
  <1>3. CASE NotifyStop
    <2>1. /\ ct' \in CtType
          /\ ct' = ct \/ (ct.pc \notin Inside /\ ct'.pc \notin Inside)
      BY ZenonT(60), <1>1, <1>3, Notified DEF NotifyStop
    <2>2. TypeOK'
      BY ZenonT(90), <1>1, <1>3, <2>1 DEF NotifyStop, TypeOK, CtType
    <2> QED BY ZenonT(90), <1>1, <1>3, <2>1, <2>2, PauseKept, Places DEF NotifyStop
  <1>4. CASE DropWatchers
    <2>1. watch' \in [Watcher -> WatchType]
      BY ZenonT(60), <1>1, <1>4 DEF DropWatchers, TypeOK, Result, WatchType
    <2>2. TypeOK'
      BY ZenonT(90), <1>1, <1>4, <2>1 DEF DropWatchers, TypeOK, WatchType
    <2> QED BY ZenonT(90), <1>1, <1>4, <2>2, PauseKept DEF DropWatchers
  <1> QED BY ZenonT(60), <1>2, <1>3, <1>4 DEF ShutdownStep

LEMMA PauseInit == ASSUME Init PROVE PauseInv
  <1>1. ct \in CtType /\ ct.pc = "check" /\ "check" \notin Inside /\ "check" # "execute"
    BY ZenonT(60) DEF Init, Outside, Inside, CtType
  <1>2. installer \in [Installer -> [pc : InstallerPc, idx : Nat]]
    BY ZenonT(60) DEF Init, InstallerPc
  <1>3. watch \in [Watcher -> WatchType] /\ user \in [User -> UserPc]
    BY ZenonT(60) DEF Init, UserPc, WatchType
  <1>4. TypeOK
    BY ZenonT(90), <1>1, <1>2, <1>3 DEF Init, TypeOK, CtType, WatchType
  <1> QED BY ZenonT(60), <1>1, <1>4 DEF Init, PauseInv, PausedMeansStill

LEMMA PauseNext == ASSUME PauseInv, [Next]_vars PROVE PauseInv'
  <1>1. CASE UNCHANGED vars
    <2>1. TypeOK /\ (in_progress <=> ct.pc \in Inside)
      BY ZenonT(60) DEF PauseInv
    <2>2. TypeOK'
      BY ZenonT(90), <1>1, <2>1 DEF vars, TypeOK
    <2> QED BY ZenonT(90), <1>1, <2>1, <2>2, PauseKept DEF vars
  <1>2. CASE Next
    BY ZenonT(60), <1>2, CommitterPause, CommitPause, NotifyCommitPause, BeginInstallPause,
       InstallerPause, PauseByUserPause, UserPausedPause, ResumeByUserPause, NotifyResumePause,
       WatchPause, ShutdownPause DEF Next
  <1> QED BY ZenonT(60), <1>1, <1>2

-----------------------------------------------------------------------------
(* Installations: CommitInv is inductive while they do not overlap.  That  *)
(* PauseInv goes on to hold is PauseNext; each lemma has it as assumption. *)

\* The commit thread takes up no entry and leaves none.
NoEntry ==
    \/ ct' = ct
    \/ ct.pc # "cas" /\ ct'.pc \notin {"execute", "cas"} /\ ct'.start <= start

\* A step that leaves indexes and installations alone.
LEMMA CommitKept ==
    ASSUME CommitInv, PauseInv', FlagsHold', NoEntry,
           UNCHANGED <<start, last, quick, sm, contents, installer>>
    PROVE  CommitInv'
  <1>1. contents # -1 /\ InstallExclusive /\ IndexesAgree
    BY ZenonT(60) DEF CommitInv
  <1>2. InstallExclusive'
    BY ZenonT(60), <1>1 DEF InstallExclusive, NoEntry
  <1>3. IndexesAgree'
    BY ZenonT(90), <1>1 DEF IndexesAgree, NoEntry
  <1> QED BY ZenonT(60), <1>1, <1>2, <1>3 DEF CommitInv

\* The flags stay when no installation moves, none is resumed by force and none loses
\* lock_.
LEMMA FlagsKept ==
    ASSUME CommitInv, UNCHANGED <<installer, receiving>>, paused => paused',
           \A t \in Installer : lock = t => lock' = t
    PROVE  FlagsHold'
  BY ZenonT(60) DEF CommitInv, FlagsHold

\* A notification takes up no entry.
LEMMA NotifiedNoEntry == ASSUME CommitInv, NotifyCv PROVE NoEntry
  <1>1. TypeOK /\ ct.start <= start
    BY ZenonT(60) DEF CommitInv, PauseInv, IndexesAgree
  <1> QED BY ZenonT(60), <1>1, Notified, Places DEF NoEntry

(* The commit thread.                                                      *)

\* The steps outside the loop, and those inside it without an entry in hand.
LEMMA IdleStepInv ==
    ASSUME CommitInv, PauseInv',
           \/ CheckWork \/ WaitCheck \/ WakeUp \/ EnterExec \/ ReadStart
           \/ NotifyWatchers \/ ExitExec
    PROVE  CommitInv'
  <1>1. TypeOK /\ ct.start <= start /\ 0 <= start /\ start <= start
    <2>1. TypeOK /\ ct.start <= start
      BY ZenonT(60) DEF CommitInv, PauseInv, IndexesAgree
    <2> QED BY SMTT(60), <2>1 DEF TypeOK
  <1>2. NoEntry
    <2>1. CASE \E p \in {"check", "enter", "wait", "stopped", "asleep", "read_start", "loop"} :
                  Goes(p) /\ ct.pc # "cas"
      <3>1. PICK p \in {"check", "enter", "wait", "stopped", "asleep", "read_start", "loop"} :
                  Goes(p) /\ ct.pc # "cas"
        BY ZenonT(60), <2>1
      <3>2. p \in Outside \cup Inside /\ p \notin {"execute", "cas"}
        BY ZenonT(60), <3>1 DEF Outside, Inside
      <3> QED BY ZenonT(60), <1>1, <3>1, <3>2, Moved DEF NoEntry
    <2>2. CASE ReadStart
      <3>1. ct \in [pc : Outside \cup Inside, idx : Nat, start : Nat] /\ start \in Nat
        BY ZenonT(60), <1>1 DEF TypeOK
      <3>2. "adjust" \in Outside \cup Inside
        BY ZenonT(60) DEF Inside
      <3>3. ct'.pc = "adjust" /\ ct'.start = start
        BY ZenonT(60), <2>2, <3>1, <3>2, MovedAt DEF ReadStart
      <3> QED BY ZenonT(60), <1>1, <2>2, <3>3 DEF ReadStart, NoEntry
    <2>3. CASE ExitExec
      BY ZenonT(60), <1>1, <2>3 DEF ExitExec, NoEntry
    <2> QED BY ZenonT(60), <2>1, <2>2, <2>3
            DEF CheckWork, WaitCheck, WakeUp, EnterExec, NotifyWatchers
  <1>3. /\ UNCHANGED <<start, last, quick, sm, contents, installer>>
        /\ UNCHANGED <<installer, receiving>> /\ paused' = paused /\ lock' = lock
    BY ZenonT(90)
       DEF CheckWork, WaitCheck, WakeUp, EnterExec, ReadStart, NotifyWatchers, ExitExec
  <1>4. FlagsHold'
    BY ZenonT(90), <1>3, FlagsKept
  <1> QED BY ZenonT(90), <1>2, <1>3, <1>4, CommitKept

\* What was read of the log is not beyond its start, so sm_commit_index_ only changes
\* while a snapshot is applied.
LEMMA AdjustIndexInv == ASSUME CommitInv, PauseInv', AdjustIndex PROVE CommitInv'
  <1>1. TypeOK /\ contents # -1 /\ InstallExclusive /\ IndexesAgree
    BY ZenonT(60) DEF CommitInv, PauseInv
  <1>2. ct'.pc = "loop" /\ ct'.start = ct.start /\ ct.pc = "adjust"
    BY ZenonT(60), <1>1, Moved, Places DEF AdjustIndex
  <1>3. ct.pc # "cas" /\ ct'.pc \notin {"execute", "cas"}
    BY ZenonT(60), <1>2
  <1>4. start <= sm + 1 => sm' = sm
    <2>1. ct.start \in Nat /\ ct.start <= start /\ sm \in Nat /\ start \in Nat
      BY ZenonT(60), <1>1 DEF TypeOK, IndexesAgree
    <2> QED BY SMTT(60), <2>1 DEF AdjustIndex, Max2
  <1>5. FlagsHold'
    BY ZenonT(90), FlagsKept DEF AdjustIndex
  <1>6. InstallExclusive'
    BY ZenonT(60), <1>3 DEF InstallExclusive
  <1>7. IndexesAgree'
    BY ZenonT(90), <1>1, <1>2, <1>3, <1>4 DEF AdjustIndex, IndexesAgree
  <1> QED BY ZenonT(60), <1>1, <1>5, <1>6, <1>7 DEF AdjustIndex, CommitInv

\* An entry is only taken up while the flag is not set, hence by no installation.
LEMMA ExecLoopInv == ASSUME CommitInv, PauseInv', ExecLoop PROVE CommitInv'
  <1>1. TypeOK /\ contents # -1 /\ FlagsHold /\ InstallExclusive /\ IndexesAgree
    BY ZenonT(60) DEF CommitInv, PauseInv
  <1>2. FlagsHold'
    BY ZenonT(90), FlagsKept DEF ExecLoop
  <1>3. CASE ~(Pending /\ ~paused)
    <2>1. Goes("exit") /\ ct.pc # "cas"
      BY ZenonT(60), <1>3 DEF ExecLoop, Goes
    <2>2. NoEntry
      BY ZenonT(60), <1>1, <2>1, Moved, Places DEF NoEntry, IndexesAgree
    <2> QED BY ZenonT(90), <1>2, <2>2, CommitKept DEF ExecLoop
  <1>4. CASE Pending /\ ~paused
    <2>1. ct' = [ct EXCEPT !.pc = "execute", !.idx = sm + 1] /\ ct.pc = "loop"
      BY ZenonT(60), <1>4 DEF ExecLoop
    <2>2. sm + 1 \in Nat /\ sm + 1 <= last /\ sm + 1 <= quick
      BY SMTT(60), <1>1, <1>4 DEF TypeOK, Pending
    <2>3. ct \in [pc : Outside \cup Inside, idx : Nat, start : Nat] /\ "execute" \in Inside
      BY ZenonT(60), <1>1 DEF TypeOK, Inside
    <2>4. ct'.pc = "execute" /\ ct'.idx = sm + 1 /\ ct'.start = ct.start
      BY ZenonT(60), <2>1, <2>2, <2>3, MovedAt
    <2>5. InstallExclusive'
      BY ZenonT(90), <1>1, <1>4 DEF ExecLoop, InstallExclusive, FlagsHold
    <2>6. ct.pc # "cas" /\ ct'.pc # "cas"
      BY ZenonT(60), <2>1, <2>4
    <2>7. IndexesAgree'
      BY ZenonT(90), <1>1, <2>2, <2>4, <2>6 DEF ExecLoop, IndexesAgree
    <2> QED BY ZenonT(60), <1>1, <1>2, <2>5, <2>7 DEF ExecLoop, CommitInv
  <1> QED BY ZenonT(60), <1>3, <1>4

\* An entry in hand: nobody is between the compaction and the new indexes.
LEMMA InHand ==
    ASSUME CommitInv, ct.pc \in {"execute", "cas"}
    PROVE  /\ \A t \in Installer : installer[t].pc \notin {"apply", "set"}
           /\ ct.idx = sm + 1 /\ ct.idx <= last /\ ct.idx <= quick /\ start <= sm + 1
           /\ contents = IF ct.pc = "cas" THEN sm + 1 ELSE sm
  <1>1. InstallExclusive /\ IndexesAgree
    BY ZenonT(60) DEF CommitInv
  <1>2. \A t \in Installer : installer[t].pc \notin {"apply", "set"}
    BY ZenonT(60), <1>1 DEF InstallExclusive
  <1> QED BY ZenonT(60), <1>1, <1>2 DEF IndexesAgree

LEMMA ExecuteInv == ASSUME CommitInv, PauseInv', Execute PROVE CommitInv'
  <1>1. TypeOK /\ contents # -1 /\ InstallExclusive /\ IndexesAgree
    BY ZenonT(60) DEF CommitInv, PauseInv
  <1>2. ct'.pc = "cas" /\ ct'.idx = ct.idx /\ ct'.start = ct.start /\ ct.pc = "execute"
    BY ZenonT(60), <1>1, Moved, Places DEF Execute
  <1>3. /\ \A t \in Installer : installer[t].pc \notin {"apply", "set"}
        /\ ct.idx = sm + 1 /\ contents = sm
    <2>1. "execute" # "cas"
      BY ZenonT(60)
    <2> QED BY ZenonT(60), <1>2, <2>1, InHand
  <1>4. contents' = sm + 1 /\ contents' # -1
    <2>1. contents' = (IF contents = ct.idx - 1 THEN ct.idx ELSE -1) /\ sm \in Nat
      BY ZenonT(60), <1>1 DEF Execute, TypeOK
    <2> QED BY SMTT(60), <1>3, <2>1
  <1>5. FlagsHold'
    BY ZenonT(90), FlagsKept DEF Execute
  <1>6. InstallExclusive'
    BY ZenonT(60), <1>1, <1>2 DEF Execute, InstallExclusive
  <1>7. IndexesAgree'
    BY ZenonT(90), <1>1, <1>2, <1>3, <1>4 DEF Execute, IndexesAgree
  <1> QED BY ZenonT(60), <1>4, <1>5, <1>6, <1>7 DEF CommitInv

LEMMA AdvanceIndexInv == ASSUME CommitInv, PauseInv', AdvanceIndex PROVE CommitInv'
  <1>1. TypeOK /\ contents # -1 /\ InstallExclusive /\ IndexesAgree
    BY ZenonT(60) DEF CommitInv, PauseInv
  <1>2. ct'.pc = "notify" /\ ct'.start = ct.start /\ ct.pc = "cas"
    BY ZenonT(60), <1>1, Moved, Places DEF AdvanceIndex
  <1>3. /\ \A t \in Installer : installer[t].pc \notin {"apply", "set"}
        /\ ct.idx = sm + 1 /\ ct.idx <= quick /\ start <= sm + 1 /\ contents = sm + 1
    BY ZenonT(60), <1>2, InHand
  <1>4. sm' = contents /\ start <= sm' + 1 /\ sm' <= quick
    <2>1. sm' = (IF sm = ct.idx - 1 THEN ct.idx ELSE sm) /\ sm \in Nat /\ start \in Nat
      BY ZenonT(60), <1>1 DEF AdvanceIndex, TypeOK
    <2> QED BY SMTT(60), <1>3, <2>1
  <1>5. ct'.pc \notin {"execute", "cas"}
    BY ZenonT(60), <1>2
  <1>6. FlagsHold'
    BY ZenonT(90), FlagsKept DEF AdvanceIndex
  <1>7. InstallExclusive'
    BY ZenonT(60), <1>5 DEF InstallExclusive
  <1>8. IndexesAgree'
    BY ZenonT(90), <1>1, <1>2, <1>3, <1>4, <1>5 DEF AdvanceIndex, IndexesAgree
  <1> QED BY ZenonT(60), <1>1, <1>6, <1>7, <1>8 DEF AdvanceIndex, CommitInv

(* The handlers of lock_.                                                  *)

\* The commit index moves only while no snapshot waits to be installed: the receiving
\* flag is set, or lock_ taken, until it is.
LEMMA CommitKInv ==
    ASSUME CommitInv, PauseInv', NEW k \in 1 .. MaxIndex, Commit(k)
    PROVE  CommitInv'
  <1>1. TypeOK /\ contents # -1 /\ FlagsHold /\ InstallExclusive /\ IndexesAgree
    BY ZenonT(60) DEF CommitInv, PauseInv
  <1>2. \A t \in Installer : lock # t
    BY ZenonT(60), ThreadAssumption DEF Commit
  <1>3. \A t \in Installer : installer[t].pc = "idle"
    <2>1. \A t \in Installer : installer[t].pc \in InstallerPc
      BY ZenonT(60), <1>1 DEF TypeOK
    <2> QED BY ZenonT(60), <1>1, <1>2, <2>1 DEF FlagsHold, InstallerPc, Commit
  <1>4. last <= last' /\ quick <= quick' /\ (ct.idx <= last => ct.idx <= last')
        /\ (ct.idx <= quick => ct.idx <= quick') /\ (sm <= quick => sm <= quick')
    <2>1. last \in Nat /\ quick \in Nat /\ ct.idx \in Nat /\ sm \in Nat
      BY ZenonT(60), <1>1 DEF TypeOK
    <2> QED BY SMTT(60), <2>1 DEF Commit, Max2
  <1>5. FlagsHold'
    BY ZenonT(90), <1>2, FlagsKept DEF Commit
  <1>6. InstallExclusive'
    BY ZenonT(60), <1>1 DEF Commit, InstallExclusive
  <1>7. IndexesAgree'
    BY ZenonT(90), <1>1, <1>3, <1>4 DEF Commit, IndexesAgree
  <1> QED BY ZenonT(60), <1>1, <1>5, <1>6, <1>7 DEF Commit, CommitInv

LEMMA NotifyCommitInv == ASSUME CommitInv, PauseInv', NotifyCommit PROVE CommitInv'
  <1>1. NoEntry
    BY ZenonT(60), NotifiedNoEntry DEF NotifyCommit, NoEntry
  <1>2. FlagsHold'
    BY ZenonT(90), FlagsKept, ThreadAssumption DEF NotifyCommit
  <1> QED BY ZenonT(90), <1>1, <1>2, CommitKept DEF NotifyCommit

\* A snapshot is accepted: no other one is being installed.
LEMMA BeginInstallInv ==
    ASSUME OneAtATime, CommitInv, PauseInv', NEW t \in Installer, NEW k \in 1 .. MaxIndex,
           BeginInstall(t, k)
    PROVE  CommitInv'
  <1>1. TypeOK /\ contents # -1 /\ FlagsHold /\ InstallExclusive /\ IndexesAgree
    BY ZenonT(60) DEF CommitInv, PauseInv
  <1>2. \A s \in Installer : installer[s].pc = "idle"
    BY ZenonT(60) DEF BeginInstall, OneAtATime, NoInstallers
  <1>3. k \in Nat /\ quick < k
    BY SMTT(60), <1>1 DEF TypeOK, BeginInstall
  <1>4. /\ installer'[t].pc = "pause" /\ installer'[t].idx = k
        /\ \A s \in Installer : s # t => installer'[s].pc = "idle"
    <2>1. "pause" \in InstallerPc
      BY ZenonT(60) DEF InstallerPc
    <2>2. installer' = [installer EXCEPT ![t] = [pc |-> "pause", idx |-> k]]
      BY ZenonT(60) DEF BeginInstall
    <2> QED BY ZenonT(60), <1>1, <1>2, <1>3, <2>1, <2>2, InstallerSet
  <1>5. \A s \in Installer : s = t \/ installer'[s].pc = "idle"
    BY ZenonT(60), <1>4
  <1>6. FlagsHold'
    BY ZenonT(90), <1>4, <1>5 DEF BeginInstall, FlagsHold
  <1>7. InstallExclusive'
    BY ZenonT(60), <1>4, <1>5 DEF InstallExclusive
  <1>8. IndexesAgree'
    BY ZenonT(90), <1>1, <1>2, <1>3, <1>4, <1>5 DEF BeginInstall, IndexesAgree
  <1> QED BY ZenonT(60), <1>1, <1>6, <1>7, <1>8 DEF BeginInstall, CommitInv

\* An installation under way is the only one.
LEMMA Alone ==
    ASSUME CommitInv, NEW t \in Installer, NEW p \in InstallerPc, InstallerGoes(t, p),
           installer[t].pc # "idle"
    PROVE  /\ installer'[t].pc = p /\ installer'[t].idx = installer[t].idx
           /\ installer[t].idx \in Nat
           /\ \A s \in Installer : s = t \/ (installer[s].pc = "idle" /\ installer'[s].pc = "idle")
  <1>1. TypeOK /\ FlagsHold
    BY ZenonT(60) DEF CommitInv, PauseInv
  <1> QED BY ZenonT(60), <1>1, InstallerMoved DEF FlagsHold

LEMMA PauseForInstallInv ==
    ASSUME CommitInv, PauseInv', NEW t \in Installer, PauseForInstall(t)
    PROVE  CommitInv'
  <1>1. TypeOK /\ contents # -1 /\ FlagsHold /\ InstallExclusive /\ IndexesAgree
    BY ZenonT(60) DEF CommitInv, PauseInv
  <1>2. /\ installer[t].pc = "pause" /\ installer'[t].pc = "await"
        /\ installer'[t].idx = installer[t].idx /\ installer[t].idx \in Nat
        /\ \A s \in Installer : s = t \/ (installer[s].pc = "idle" /\ installer'[s].pc = "idle")
    BY ZenonT(60), Alone DEF PauseForInstall, InstallerPc
  <1>5. FlagsHold'
    BY ZenonT(90), <1>1, <1>2 DEF PauseForInstall, FlagsHold
  <1>6. InstallExclusive'
    BY ZenonT(90), <1>1, <1>2 DEF PauseForInstall, InstallExclusive
  <1>7. IndexesAgree'
    BY ZenonT(90), <1>1, <1>2 DEF PauseForInstall, IndexesAgree
  <1> QED BY ZenonT(60), <1>1, <1>5, <1>6, <1>7 DEF PauseForInstall, CommitInv

\* The other half of the protocol: the flag is set, and nothing is in progress.
LEMMA AwaitPauseInv ==
    ASSUME CommitInv, PauseInv', NEW t \in Installer, AwaitPause(t)
    PROVE  CommitInv'
  <1>1. TypeOK /\ contents # -1 /\ FlagsHold /\ InstallExclusive /\ IndexesAgree
    BY ZenonT(60) DEF CommitInv, PauseInv
  <1>2. /\ installer[t].pc = "await" /\ installer'[t].pc = "lock"
        /\ installer'[t].idx = installer[t].idx /\ installer[t].idx \in Nat
        /\ \A s \in Installer : s = t \/ (installer[s].pc = "idle" /\ installer'[s].pc = "idle")
    BY ZenonT(60), Alone DEF AwaitPause, InstallerPc
  <1>3. ct.pc \notin {"execute", "cas"}
    BY ZenonT(60), Places DEF AwaitPause, CommitInv, PauseInv
  <1>5. FlagsHold'
    BY ZenonT(90), <1>1, <1>2, <1>3 DEF AwaitPause, FlagsHold
  <1>6. InstallExclusive'
    BY ZenonT(90), <1>1, <1>2, <1>3 DEF AwaitPause, InstallExclusive
  <1>7. IndexesAgree'
    BY ZenonT(90), <1>1, <1>2, <1>3 DEF AwaitPause, IndexesAgree
  <1> QED BY ZenonT(60), <1>1, <1>5, <1>6, <1>7, <1>3 DEF AwaitPause, CommitInv

LEMMA LockAgainInv ==
    ASSUME CommitInv, PauseInv', NEW t \in Installer, LockAgain(t)
    PROVE  CommitInv'
  <1>1. TypeOK /\ contents # -1 /\ FlagsHold /\ InstallExclusive /\ IndexesAgree
    BY ZenonT(60) DEF CommitInv, PauseInv
  <1>2. /\ installer[t].pc = "lock" /\ installer'[t].pc = "compact"
        /\ installer'[t].idx = installer[t].idx /\ installer[t].idx \in Nat
        /\ \A s \in Installer : s = t \/ (installer[s].pc = "idle" /\ installer'[s].pc = "idle")
    BY ZenonT(60), Alone DEF LockAgain, InstallerPc
  <1>5. FlagsHold'
    BY ZenonT(90), <1>1, <1>2 DEF LockAgain, FlagsHold
  <1>6. InstallExclusive'
    BY ZenonT(90), <1>1, <1>2 DEF LockAgain, InstallExclusive
  <1>7. IndexesAgree'
    BY ZenonT(90), <1>1, <1>2 DEF LockAgain, IndexesAgree
  <1> QED BY ZenonT(60), <1>1, <1>5, <1>6, <1>7 DEF LockAgain, CommitInv

\* The snapshot is beyond the commit index, so the log begins after it and the contents
\* are older.
LEMMA CompactInv ==
    ASSUME CommitInv, PauseInv', NEW t \in Installer, Compact(t)
    PROVE  CommitInv'
  <1>1. TypeOK /\ contents # -1 /\ FlagsHold /\ InstallExclusive /\ IndexesAgree
    BY ZenonT(60) DEF CommitInv, PauseInv
  <1>2. /\ installer[t].pc = "compact" /\ installer'[t].pc = "apply"
        /\ installer'[t].idx = installer[t].idx /\ installer[t].idx \in Nat
        /\ \A s \in Installer : s = t \/ (installer[s].pc = "idle" /\ installer'[s].pc = "idle")
    BY ZenonT(60), Alone DEF Compact, InstallerPc
  <1>3. ct.pc \notin {"execute", "cas"}
    BY ZenonT(60), <1>1, <1>2 DEF InstallExclusive
  <1>4. start' = installer[t].idx + 1 /\ ct.start <= start' /\ contents <= quick
    <2>1. /\ start <= sm + 1 /\ sm <= quick /\ contents = sm
          /\ quick < installer[t].idx /\ ct.start <= start
      BY ZenonT(60), <1>1, <1>2, <1>3 DEF IndexesAgree
    <2>2. start' = Max2(start, installer[t].idx + 1)
      BY ZenonT(60) DEF Compact
    <2>3. ct.start \in Nat /\ start \in Nat /\ sm \in Nat /\ quick \in Nat
      BY ZenonT(60), <1>1 DEF TypeOK
    <2> QED BY SMTT(60), <1>2, <2>1, <2>2, <2>3 DEF Max2
  <1>5. FlagsHold'
    BY ZenonT(90), <1>1, <1>2, <1>3, <1>4 DEF Compact, FlagsHold
  <1>6. InstallExclusive'
    BY ZenonT(90), <1>1, <1>2, <1>3, <1>4 DEF Compact, InstallExclusive
  <1>7. IndexesAgree'
    BY ZenonT(90), <1>1, <1>2, <1>3, <1>4 DEF Compact, IndexesAgree
  <1> QED BY ZenonT(60), <1>1, <1>5, <1>6, <1>7, <1>3, <1>4 DEF Compact, CommitInv

LEMMA CompactFailsInv ==
    ASSUME CommitInv, PauseInv', NEW t \in Installer, CompactFails(t)
    PROVE  CommitInv'
  <1>1. TypeOK /\ contents # -1 /\ FlagsHold /\ InstallExclusive /\ IndexesAgree
    BY ZenonT(60) DEF CommitInv, PauseInv
  <1>2. /\ installer[t].pc = "compact" /\ installer'[t].pc = "resume"
        /\ installer'[t].idx = installer[t].idx /\ installer[t].idx \in Nat
        /\ \A s \in Installer : s = t \/ (installer[s].pc = "idle" /\ installer'[s].pc = "idle")
    BY ZenonT(60), Alone DEF CompactFails, InstallerPc
  <1>5. FlagsHold'
    BY ZenonT(90), <1>1, <1>2 DEF CompactFails, FlagsHold
  <1>6. InstallExclusive'
    BY ZenonT(90), <1>1, <1>2 DEF CompactFails, InstallExclusive
  <1>7. IndexesAgree'
    BY ZenonT(90), <1>1, <1>2 DEF CompactFails, IndexesAgree
  <1> QED BY ZenonT(60), <1>1, <1>5, <1>6, <1>7 DEF CompactFails, CommitInv

LEMMA ApplySnapshotInv ==
    ASSUME CommitInv, PauseInv', NEW t \in Installer, ApplySnapshot(t)
    PROVE  CommitInv'
  <1>1. TypeOK /\ contents # -1 /\ FlagsHold /\ InstallExclusive /\ IndexesAgree
    BY ZenonT(60) DEF CommitInv, PauseInv
  <1>2. /\ installer[t].pc = "apply" /\ installer'[t].pc = "set"
        /\ installer'[t].idx = installer[t].idx /\ installer[t].idx \in Nat
        /\ \A s \in Installer : s = t \/ (installer[s].pc = "idle" /\ installer'[s].pc = "idle")
    BY ZenonT(60), Alone DEF ApplySnapshot, InstallerPc
  <1>3. contents' = installer[t].idx /\ contents' # -1
    <2>1. contents' = installer[t].idx
      BY ZenonT(60) DEF ApplySnapshot
    <2> QED BY SMTT(60), <1>2, <2>1
  <1>5. FlagsHold'
    BY ZenonT(90), <1>1, <1>2, <1>3 DEF ApplySnapshot, FlagsHold
  <1>6. InstallExclusive'
    BY ZenonT(90), <1>1, <1>2, <1>3 DEF ApplySnapshot, InstallExclusive
  <1>7. IndexesAgree'
    BY ZenonT(90), <1>1, <1>2, <1>3 DEF ApplySnapshot, IndexesAgree
  <1> QED BY ZenonT(60), <1>1, <1>5, <1>6, <1>7, <1>3 DEF ApplySnapshot, CommitInv

LEMMA SetIndexesInv ==
    ASSUME CommitInv, PauseInv', NEW t \in Installer, SetIndexes(t)
    PROVE  CommitInv'
  <1>1. TypeOK /\ contents # -1 /\ FlagsHold /\ InstallExclusive /\ IndexesAgree
    BY ZenonT(60) DEF CommitInv, PauseInv
  <1>2. /\ installer[t].pc = "set" /\ installer'[t].pc = "resume"
        /\ installer'[t].idx = installer[t].idx /\ installer[t].idx \in Nat
        /\ \A s \in Installer : s = t \/ (installer[s].pc = "idle" /\ installer'[s].pc = "idle")
    BY ZenonT(60), Alone DEF SetIndexes, InstallerPc
  <1>3. ct.pc \notin {"execute", "cas"}
    BY ZenonT(60), <1>1, <1>2 DEF InstallExclusive
  <1>4. sm' = contents /\ quick' = contents /\ start <= sm' + 1 /\ sm' <= quick'
    <2>1. start = installer[t].idx + 1 /\ contents = installer[t].idx
      BY ZenonT(60), <1>1, <1>2 DEF IndexesAgree
    <2>2. sm' = installer[t].idx /\ quick' = installer[t].idx
      BY ZenonT(60) DEF SetIndexes
    <2> QED BY SMTT(60), <1>2, <2>1, <2>2
  <1>5. FlagsHold'
    BY ZenonT(90), <1>1, <1>2, <1>3, <1>4 DEF SetIndexes, FlagsHold
  <1>6. InstallExclusive'
    BY ZenonT(90), <1>1, <1>2, <1>3, <1>4 DEF SetIndexes, InstallExclusive
  <1>7. IndexesAgree'
    BY ZenonT(90), <1>1, <1>2, <1>3, <1>4 DEF SetIndexes, IndexesAgree
  <1> QED BY ZenonT(60), <1>1, <1>5, <1>6, <1>7, <1>3, <1>4 DEF SetIndexes, CommitInv

LEMMA ResumeAfterInstallInv ==
    ASSUME CommitInv, PauseInv', NEW t \in Installer, ResumeAfterInstall(t)
    PROVE  CommitInv'
  <1>1. TypeOK /\ contents # -1 /\ FlagsHold /\ InstallExclusive /\ IndexesAgree
    BY ZenonT(60) DEF CommitInv, PauseInv
  <1>2. /\ installer[t].pc = "resume" /\ installer'[t].pc = "notify"
        /\ installer'[t].idx = installer[t].idx /\ installer[t].idx \in Nat
        /\ \A s \in Installer : s = t \/ (installer[s].pc = "idle" /\ installer'[s].pc = "idle")
    BY ZenonT(60), Alone DEF ResumeAfterInstall, InstallerPc
  <1>5. FlagsHold'
    BY ZenonT(90), <1>1, <1>2 DEF ResumeAfterInstall, FlagsHold
  <1>6. InstallExclusive'
    BY ZenonT(90), <1>1, <1>2 DEF ResumeAfterInstall, InstallExclusive
  <1>7. IndexesAgree'
    BY ZenonT(90), <1>1, <1>2 DEF ResumeAfterInstall, IndexesAgree
  <1> QED BY ZenonT(60), <1>1, <1>5, <1>6, <1>7 DEF ResumeAfterInstall, CommitInv

LEMMA EndInstallInv ==
    ASSUME CommitInv, PauseInv', NEW t \in Installer, EndInstall(t)
    PROVE  CommitInv'
  <1>1. TypeOK /\ contents # -1 /\ FlagsHold /\ InstallExclusive /\ IndexesAgree
    BY ZenonT(60) DEF CommitInv, PauseInv
  <1>2. installer[t].pc = "notify" /\ installer'[t].pc = "idle"
        /\ \A s \in Installer : s # t => installer'[s] = installer[s]
    <2>1. 0 \in Nat /\ "idle" \in InstallerPc
      BY ZenonT(60) DEF InstallerPc
    <2> QED BY ZenonT(60), <1>1, <2>1, InstallerSet DEF EndInstall
  <1>3. \A s \in Installer : installer'[s].pc = "idle"
    BY ZenonT(60), <1>1, <1>2 DEF FlagsHold
  <1>4. \A s \in Installer : installer[s].pc \notin {"apply", "set"}
    BY ZenonT(60), <1>1, <1>2 DEF FlagsHold
  <1>5. NoEntry
    BY ZenonT(60), NotifiedNoEntry DEF EndInstall
  <1>6. FlagsHold'
    BY ZenonT(90), <1>3 DEF FlagsHold
  <1>7. InstallExclusive'
    BY ZenonT(60), <1>3 DEF InstallExclusive
  <1>8. IndexesAgree'
    BY ZenonT(90), <1>1, <1>3, <1>4, <1>5 DEF EndInstall, IndexesAgree, NoEntry
  <1> QED BY ZenonT(60), <1>1, <1>6, <1>7, <1>8 DEF EndInstall, CommitInv

(* Users, watchers and shutdown.                                           *)

LEMMA UserInv ==
    ASSUME OneAtATime, CommitInv, PauseInv', NEW u \in User,
           PauseByUser(u) \/ UserPaused(u) \/ ResumeByUser(u) \/ NotifyResume(u)
    PROVE  CommitInv'
  <1>1. CASE PauseByUser(u)
    <2>1. FlagsHold'
      BY ZenonT(90), <1>1, FlagsKept DEF PauseByUser
    <2> QED BY ZenonT(90), <1>1, <2>1, CommitKept DEF PauseByUser, NoEntry
  <1>2. CASE UserPaused(u)
    <2>1. FlagsHold'
      BY ZenonT(90), <1>2, FlagsKept DEF UserPaused
    <2> QED BY ZenonT(90), <1>2, <2>1, CommitKept DEF UserPaused, NoEntry
  <1>3. CASE ResumeByUser(u)
    <2>1. \A t \in Installer : installer'[t].pc = "idle"
      BY ZenonT(60), <1>3 DEF ResumeByUser, OneAtATime, NoInstallers
    <2>2. FlagsHold'
      BY ZenonT(90), <1>3, <2>1 DEF CommitInv, FlagsHold, ResumeByUser
    <2> QED BY ZenonT(90), <1>3, <2>2, CommitKept DEF ResumeByUser, NoEntry
  <1>4. CASE NotifyResume(u)
    <2>1. FlagsHold'
      BY ZenonT(90), <1>4, FlagsKept DEF NotifyResume
    <2>2. NoEntry
      BY ZenonT(60), <1>4, NotifiedNoEntry DEF NotifyResume
    <2> QED BY ZenonT(90), <1>4, <2>1, <2>2, CommitKept DEF NotifyResume
  <1> QED BY ZenonT(60), <1>1, <1>2, <1>3, <1>4

LEMMA OtherInv ==
    ASSUME CommitInv, PauseInv',
           \/ \E w \in Watcher, k \in 1 .. MaxIndex : Watch(w, k)
           \/ Stop \/ ShutdownStep \/ UNCHANGED vars
    PROVE  CommitInv'
  <1>1. NoEntry
    BY ZenonT(60), NotifiedNoEntry
       DEF Watch, Stop, ShutdownStep, NotifyStop, DropWatchers, NoEntry, vars
  <1>2. /\ UNCHANGED <<start, last, quick, sm, contents, installer>>
        /\ UNCHANGED <<installer, receiving>> /\ paused' = paused /\ lock' = lock
    BY ZenonT(90) DEF Watch, Stop, ShutdownStep, NotifyStop, DropWatchers, vars
  <1>3. FlagsHold'
    BY ZenonT(90), <1>2, FlagsKept
  <1> QED BY ZenonT(90), <1>1, <1>2, <1>3, CommitKept

-----------------------------------------------------------------------------
(* The theorems.                                                           *)

LEMMA InitInv == ASSUME Init PROVE CommitInv
  <1>1. /\ ct.pc = "check" /\ ct.start = 0
        /\ \A t \in Installer : installer[t].pc = "idle"
    BY ZenonT(60) DEF Init
  <1>2. FlagsHold
    BY ZenonT(60), <1>1 DEF Init, FlagsHold
  <1>3. InstallExclusive
    BY ZenonT(60), <1>1 DEF InstallExclusive
  <1>4. IndexesAgree
    BY SMTT(60), <1>1 DEF Init, IndexesAgree
  <1>5. contents # -1
    BY SMTT(60) DEF Init
  <1> QED BY ZenonT(60), <1>2, <1>3, <1>4, <1>5, PauseInit DEF CommitInv

LEMMA NextInv == ASSUME OneAtATime, CommitInv, [Next]_vars PROVE CommitInv'
  <1>1. PauseInv'
    BY ZenonT(60), PauseNext DEF CommitInv
  <1>2. CASE CommitterStep
    BY ZenonT(60), <1>1, <1>2, IdleStepInv, AdjustIndexInv, ExecLoopInv, ExecuteInv,
       AdvanceIndexInv DEF CommitterStep
  <1>3. CASE (\E k \in 1 .. MaxIndex : Commit(k)) \/ NotifyCommit
    BY ZenonT(60), <1>1, <1>3, CommitKInv, NotifyCommitInv
  <1>4. ASSUME NEW t \in Installer, InstallerStep(t) PROVE CommitInv'
    BY ZenonT(60), <1>1, <1>4, PauseForInstallInv, AwaitPauseInv, LockAgainInv, CompactInv,
       CompactFailsInv, ApplySnapshotInv, SetIndexesInv, ResumeAfterInstallInv, EndInstallInv
       DEF InstallerStep
  <1>5. ASSUME NEW t \in Installer, NEW k \in 1 .. MaxIndex, BeginInstall(t, k) PROVE CommitInv'
    BY ZenonT(60), <1>1, <1>5, BeginInstallInv
  <1>6. ASSUME NEW u \in User, PauseByUser(u) \/ UserPaused(u) \/ ResumeByUser(u) \/ NotifyResume(u)
        PROVE  CommitInv'
    BY ZenonT(60), <1>1, <1>6, UserInv
  <1>7. CASE \/ \E w \in Watcher, k \in 1 .. MaxIndex : Watch(w, k)
             \/ Stop \/ ShutdownStep \/ UNCHANGED vars
    BY ZenonT(60), <1>1, <1>7, OtherInv
  <1> QED BY ZenonT(60), <1>2, <1>3, <1>4, <1>5, <1>6, <1>7 DEF Next

\* A user who was told by wait_for_state_machine_pause that the state machine is
\* paused can rely on it until anybody resumes it (resume_state_machine_execution, or
\* the end of an installation), whatever installations and users are under way.
THEOREM PauseIsKept == Spec => []PausedMeansStill
  <1>1. Init => PauseInv
    BY ZenonT(60), PauseInit
  <1>2. PauseInv /\ [Next]_vars => PauseInv'
    BY ZenonT(60), PauseNext
  <1>3. PauseInv => PausedMeansStill
    BY ZenonT(60) DEF PauseInv
  <1> QED BY <1>1, <1>2, <1>3, PTL DEF Spec

\* The flags, lock_, the indexes and the places of the threads (commit_in_bg_exec,
\* handle_snapshot_sync_req) agree in every state, if installations do not overlap.
THEOREM CommitInvariant == ASSUME OneAtATime PROVE Spec => []CommitInv
  <1>1. Init => CommitInv
    BY ZenonT(60), InitInv
  <1>2. CommitInv /\ [Next]_vars => CommitInv'
    BY ZenonT(60), NextInv
  <1> QED BY <1>1, <1>2, PTL DEF Spec

\* No entry is executed while the log is compacted, a snapshot applied and the
\* indexes set (handle_snapshot_sync_req), although the two flags are separate atomics;
\* if installations do not overlap and no user resumes the state machine during one.
THEOREM InstallationExcludes == ASSUME OneAtATime PROVE Spec => []InstallExclusive
  <1>1. CommitInv => InstallExclusive
    BY ZenonT(60) DEF CommitInv
  <1> QED BY <1>1, CommitInvariant, PTL

\* A snapshot that handle_install_snapshot_req found newer than the commit index is
\* still newer than the state machine when it is applied, although lock_ was released;
\* if installations do not overlap.
THEOREM NeverSetBack == ASSUME OneAtATime PROVE Spec => []SnapshotIsNewer
  <1>1. CommitInv => SnapshotIsNewer
    <2> SUFFICES ASSUME CommitInv, NEW t \in Installer, installer[t].pc = "apply"
                 PROVE  installer[t].idx > contents
      BY ZenonT(60) DEF SnapshotIsNewer
    <2>1. TypeOK /\ contents <= quick /\ quick < installer[t].idx /\ contents # -1
      BY ZenonT(60) DEF CommitInv, PauseInv, IndexesAgree
    <2>2. contents \in Nat /\ quick \in Nat /\ installer[t].idx \in Nat
      <3>1. installer \in [Installer -> [pc : InstallerPc, idx : Nat]]
        BY ZenonT(60), <2>1 DEF TypeOK
      <3> QED BY ZenonT(60), <2>1, <3>1 DEF TypeOK
    <2> QED BY SMTT(60), <2>1, <2>2
  <1> QED BY <1>1, CommitInvariant, PTL

\* commit_in_bg_exec executes the entries in order, continues a snapshot with the entry
\* after it, and never looks for an entry that is not in the log; if installations, as
\* many as there are, do not overlap and no user resumes the state machine during one.
THEOREM ExecutesInOrder == ASSUME OneAtATime PROVE Spec => [](InOrder /\ EntryExists)
  <1>1. CommitInv => InOrder /\ EntryExists
    <2> SUFFICES ASSUME CommitInv PROVE InOrder /\ EntryExists
      BY ZenonT(60)
    <2>1. TypeOK /\ contents # -1
      BY ZenonT(60) DEF CommitInv, PauseInv
    <2>2. CASE ct.pc # "execute"
      BY ZenonT(60), <2>1, <2>2 DEF InOrder, EntryExists
    <2>3. CASE ct.pc = "execute"
      <3>1. ct.idx = sm + 1 /\ ct.idx <= last /\ start <= sm + 1 /\ contents = sm
        <4>1. "execute" # "cas"
          BY ZenonT(60)
        <4> QED BY ZenonT(60), <2>3, <4>1, InHand
      <3>2. sm \in Nat
        BY ZenonT(60), <2>1 DEF TypeOK
      <3>3. contents = ct.idx - 1 /\ start <= ct.idx
        BY SMTT(60), <3>1, <3>2
      <3> QED BY ZenonT(60), <2>1, <3>1, <3>3 DEF InOrder, EntryExists
    <2> QED BY ZenonT(60), <2>2, <2>3
  <1> QED BY <1>1, CommitInvariant, PTL

=============================================================================
