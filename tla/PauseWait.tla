------------------------------ MODULE PauseWait -----------------------------
(***************************************************************************)
(* wait_for_state_machine_pause without a time limit: threads that pause   *)
(* the state machine wait on one EventAwaiter,                             *)
(* ea_sm_commit_exec_in_progress_, for the end of commit_in_bg_exec.       *)
(***************************************************************************)
EXTENDS EventAwaiter

CONSTANTS
    Pauser,         \* threads that pause the state machine and wait for it
    Committer,      \* the commit thread
    MaxLeft         \* bound: entries committed and not applied

VARIABLES
    pc,             \* per thread: what it does outside the awaiter
    left,           \* quick_commit_index_ - sm_commit_index_
    paused,         \* sm_commit_paused_
    in_progress     \* sm_commit_exec_in_progress_

vars == <<awaiterVars, pc, left, paused, in_progress>>

Init ==
    /\ AwaiterInit
    /\ pc = [t \in Thread |-> "idle"]
    /\ left = 0
    /\ paused = FALSE
    /\ in_progress = FALSE

PcBecomes(t, p) == pc' = [pc EXCEPT ![t] = p]

\* commit raises quick_commit_index_.
Commit ==
    /\ left < MaxLeft
    /\ left' = left + 1
    /\ UNCHANGED <<awaiterVars, pc, paused, in_progress>>

\* commit_in_bg has work and finds no pause.
FindWork ==
    /\ pc[Committer] = "idle"
    /\ left > 0 /\ ~paused
    /\ PcBecomes(Committer, "begin")
    /\ UNCHANGED <<awaiterVars, left, paused, in_progress>>

\* commit_in_bg_exec raises the flag, even if a pause came meanwhile.
BeginExec ==
    /\ pc[Committer] = "begin"
    /\ in_progress' = TRUE
    /\ PcBecomes(Committer, "exec")
    /\ UNCHANGED <<awaiterVars, left, paused>>

\* The loop: the pause is looked at before each entry.
ExecLoop ==
    /\ pc[Committer] = "exec"
    /\ left > 0 /\ ~paused
    /\ PcBecomes(Committer, "apply")
    /\ UNCHANGED <<awaiterVars, left, paused, in_progress>>

Apply ==
    /\ pc[Committer] = "apply"
    /\ left' = left - 1
    /\ PcBecomes(Committer, "exec")
    /\ UNCHANGED <<awaiterVars, paused, in_progress>>

\* After the last entry or at a pause, the cleaner of commit_in_bg_exec: the
\* flag, then invoke().
EndExec ==
    /\ pc[Committer] = "exec"
    /\ left = 0 \/ paused
    /\ in_progress' = FALSE
    /\ PcBecomes(Committer, "invoke")
    /\ UNCHANGED <<awaiterVars, left, paused>>

ExecInvokes ==
    /\ pc[Committer] = "invoke"
    /\ BeginInvoke(Committer)
    /\ PcBecomes(Committer, "invoking")
    /\ UNCHANGED <<left, paused, in_progress>>

ExecDone ==
    /\ pc[Committer] = "invoking"
    /\ Returned(Committer)
    /\ PcBecomes(Committer, "idle")
    /\ UNCHANGED <<left, paused, in_progress>>

\* pause_state_machine_execution(0).
Pause(p) ==
    /\ pc[p] = "idle"
    /\ paused' = TRUE
    /\ PcBecomes(p, "reset")
    /\ UNCHANGED <<awaiterVars, left, in_progress>>

\* wait_for_state_machine_pause(0): reset, look at the flag, wait, look again.
PauserReset(p) ==
    /\ pc[p] = "reset"
    /\ Reset
    /\ PcBecomes(p, "look")
    /\ UNCHANGED <<left, paused, in_progress>>

PauserLooks(p) ==
    /\ pc[p] = "look"
    /\ PcBecomes(p, IF in_progress THEN "wait" ELSE "true")
    /\ UNCHANGED <<awaiterVars, left, paused, in_progress>>

PauserWaits(p) ==
    /\ pc[p] = "wait"
    /\ BeginWait(p)
    /\ PcBecomes(p, "waiting")
    /\ UNCHANGED <<left, paused, in_progress>>

PauserReturns(p) ==
    /\ pc[p] = "waiting"
    /\ Returned(p)
    /\ PcBecomes(p, IF in_progress THEN "false" ELSE "true")
    /\ UNCHANGED <<left, paused, in_progress>>

\* resume_state_machine_execution, by a thread whose wait has returned.
Resume(p) ==
    /\ pc[p] \in {"true", "false"}
    /\ paused' = FALSE
    /\ PcBecomes(p, "idle")
    /\ UNCHANGED <<awaiterVars, left, in_progress>>

Call(t) == Inside(t) /\ UNCHANGED <<pc, left, paused, in_progress>>

PauserStep(p) ==
    \/ PauserReset(p)
    \/ PauserLooks(p)
    \/ PauserWaits(p)
    \/ PauserReturns(p)
    \/ Call(p)

CommitterStep ==
    \/ BeginExec
    \/ ExecLoop
    \/ Apply
    \/ EndExec
    \/ ExecInvokes
    \/ ExecDone
    \/ Call(Committer)

Next ==
    \/ \E p \in Pauser : Pause(p) \/ PauserStep(p) \/ Resume(p)
    \/ \E p \in Pauser : SpuriousWakeUp(p) /\ UNCHANGED <<pc, left, paused, in_progress>>
    \/ Commit
    \/ FindWork
    \/ CommitterStep

\* An execution ends and its cleaner runs; a thread that has called goes on.
Spec ==
    /\ Init
    /\ [][Next]_vars
    /\ \A p \in Pauser : WF_vars(PauserStep(p))
    /\ WF_vars(CommitterStep)

\* "Block the current thread and wake it up when the state machine execution is
\* paused." (raft_server.h): a thread that waits for the pause returns, if nobody
\* resumes the state machine.  A single thread is woken.  Of two, the reset() of
\* the later one makes the invoke() of the commit thread believe that nobody waits.
PauserIsWoken ==
    \A p \in Pauser : [](pc[p] # "idle" /\ []paused => <>(pc[p] \in {"true", "false"}))

=============================================================================
