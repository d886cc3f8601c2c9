-------------------------- MODULE BackgroundAppend --------------------------
(***************************************************************************)
(* The background append thread (append_entries_in_bg), the client threads *)
(* that wake it for what they have appended (request_append_entries_for_all*)
(* with use_bg_thread_for_urgent_commit_), and shutdown.  bg_append_ea_ is *)
(* an EventAwaiter without timeout.                                        *)
(***************************************************************************)
EXTENDS EventAwaiter

CONSTANTS
    Producer,       \* client threads, which append once each
    Bg,             \* the background thread
    Shutdown        \* the thread that calls shutdown

ASSUME ThreadAssumption ==
    /\ IsFiniteSet(Producer)
    /\ Thread = Producer \cup {Bg, Shutdown}
    /\ Bg \notin Producer /\ Shutdown \notin Producer /\ Bg # Shutdown

VARIABLES
    pc,             \* per thread: what it does outside the awaiter
    work,           \* producers whose entry is in the log and not sent
    stopping        \* stopping_

vars == <<awaiterVars, pc, work, stopping>>

Init ==
    /\ AwaiterInit
    /\ pc = [t \in Thread |-> IF t = Bg THEN "wait" ELSE "idle"]
    /\ work = {}
    /\ stopping = FALSE

PcBecomes(t, p) == pc' = [pc EXCEPT ![t] = p]

\* handle_cli_req has stored the entry.
AppendWork(p) ==
    /\ pc[p] = "idle"
    /\ work' = work \cup {p}
    /\ PcBecomes(p, "invoke")
    /\ UNCHANGED <<awaiterVars, stopping>>

\* request_append_entries_for_all, and the loop of shutdown.
CallInvoke(t) ==
    /\ pc[t] = "invoke"
    /\ BeginInvoke(t)
    /\ PcBecomes(t, "invoking")
    /\ UNCHANGED <<work, stopping>>

ProducerDone(p) ==
    /\ pc[p] = "invoking"
    /\ Returned(p)
    /\ PcBecomes(p, "done")
    /\ UNCHANGED <<work, stopping>>

\* The loop of append_entries_in_bg: wait, reset, send what is in the log.
BgWait ==
    /\ pc[Bg] = "wait"
    /\ BeginWait(Bg)
    /\ PcBecomes(Bg, "waiting")
    /\ UNCHANGED <<work, stopping>>

BgWaited ==
    /\ pc[Bg] = "waiting"
    /\ Returned(Bg)
    /\ PcBecomes(Bg, "reset")
    /\ UNCHANGED <<work, stopping>>

BgReset ==
    /\ pc[Bg] = "reset"
    /\ Reset
    /\ PcBecomes(Bg, IF stopping THEN "stopped" ELSE "exec")
    /\ UNCHANGED <<work, stopping>>

BgExec ==
    /\ pc[Bg] = "exec"
    /\ work' = {}
    /\ PcBecomes(Bg, IF stopping THEN "stopped" ELSE "wait")
    /\ UNCHANGED <<awaiterVars, stopping>>

\* shutdown: the flag, then invoke() until the thread has stopped.
Stop ==
    /\ pc[Shutdown] = "idle"
    /\ stopping' = TRUE
    /\ PcBecomes(Shutdown, "invoke")
    /\ UNCHANGED <<awaiterVars, work>>

StopAgain ==
    /\ pc[Shutdown] = "invoking"
    /\ Returned(Shutdown)
    /\ PcBecomes(Shutdown, IF pc[Bg] = "stopped" THEN "done" ELSE "invoke")
    /\ UNCHANGED <<work, stopping>>

Call(t) == Inside(t) /\ UNCHANGED <<pc, work, stopping>>

ProducerStep(p) == CallInvoke(p) \/ ProducerDone(p) \/ Call(p)
BgStep == BgWait \/ BgWaited \/ BgReset \/ BgExec \/ Call(Bg)
ShutdownStep == CallInvoke(Shutdown) \/ StopAgain \/ Call(Shutdown)

Next ==
    \/ \E p \in Producer : AppendWork(p) \/ ProducerStep(p)
    \/ BgStep
    \/ SpuriousWakeUp(Bg) /\ UNCHANGED <<pc, work, stopping>>
    \/ Stop
    \/ ShutdownStep

\* Threads that can run do; no client has to append, nobody has to stop.
Spec ==
    /\ Init
    /\ [][Next]_vars
    /\ \A p \in Producer : WF_vars(ProducerStep(p))
    /\ WF_vars(BgStep)
    /\ WF_vars(ShutdownStep)

\* Type invariant of the awaiter and its users.
TypeOK ==
    /\ AwaiterTypeOK
    /\ pc \in [Thread -> {"idle", "invoke", "invoking", "wait", "waiting", "reset", "exec",
                          "stopped", "done"}]
    /\ work \subseteq Producer
    /\ stopping \in BOOLEAN

\* A thread that does not call is out of the awaiter, and who calls what.
CallsOK ==
    /\ \A t \in Thread \ {Bg} :
          /\ pc[t] \in {"idle", "invoke", "invoking", "done"}
          /\ at[t] \in IF pc[t] = "invoking" THEN {"invoke_lock", "returned"} ELSE {"out"}
    /\ pc[Bg] \in {"wait", "waiting", "reset", "exec", "stopped"}
    /\ at[Bg] \in IF pc[Bg] = "waiting" THEN {"wait_lock", "asleep", "woken", "returned"}
                                        ELSE {"out"}

\* What the status says of the only thread that waits.
StatusOK ==
    /\ status = "ready" => at[Bg] = "wait_lock"
    /\ status = "idle" => pc[Bg] \in {"wait", "exec", "stopped"}
    /\ at[Bg] = "asleep" => status = "waiting"
    /\ at[Bg] = "wait_lock" => status \in {"ready", "done"}
    /\ status = "waiting" => at[Bg] \in {"asleep", "woken"}

\* The thread is on its way to append_entries_in_bg_exec, or has stopped.
Signalled ==
    \/ pc[Bg] \in {"reset", "exec", "stopped"}
    \/ at[Bg] \in {"woken", "returned"}
    \/ status = "done" /\ (pc[Bg] = "wait" \/ at[Bg] = "wait_lock")

\* Who has an entry that is not sent either is going to invoke the awaiter, in a
\* way that will tell, or has told the thread.
WorkSignalled ==
    \A p \in work :
       \/ pc[p] = "invoke"
       \/ at[p] = "invoke_lock" /\ ~(status = "idle" /\ pc[Bg] = "wait")
       \/ Signalled

\* The inductive invariant.
AppendInv == TypeOK /\ CallsOK /\ StatusOK /\ WorkSignalled

\* No lost wake-up: when the thread sleeps, every client whose entry is not sent
\* has still to finish its invoke().
NoLostWakeUp ==
    at[Bg] = "asleep" => \A p \in work : pc[p] = "invoke" \/ at[p] = "invoke_lock"

\* No appended entry waits for the next heartbeat: whatever the moment at which
\* a client invokes bg_append_ea_, the thread sends its entry, or stops.
WorkIsSent == \A p \in Producer : p \in work ~> (p \notin work \/ stopping)

\* shutdown gets past its loop: the thread stops from wherever it is.
BgStops == stopping ~> pc[Shutdown] = "done"

=============================================================================
