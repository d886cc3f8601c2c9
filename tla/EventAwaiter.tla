---------------------------- MODULE EventAwaiter ----------------------------
(***************************************************************************)
(* The class EventAwaiter: an atomic status, a mutex and a condition       *)
(* variable.  Every section under cvLock begins and ends within one step,  *)
(* so that cvLock itself is not a variable; the compare-and-exchange that  *)
(* wait() and invoke() do before they take it is a step of its own.        *)
(*                                                                         *)
(* The modules that use an awaiter extend this one and say when a thread   *)
(* begins a call and what it does when the call has returned.              *)
(***************************************************************************)
EXTENDS Integers, FiniteSets

CONSTANT Thread     \* the threads that call the awaiter

VARIABLES
    status,         \* EventAwaiter::status
    at              \* per thread: where it is in wait() or invoke()

awaiterVars == <<status, at>>

AwaiterInit ==
    /\ status = "idle"
    /\ at = [t \in Thread |-> "out"]

AtBecomes(t, p) == at' = [at EXCEPT ![t] = p]

Reset == status' = "idle" /\ UNCHANGED at

\* Mutant of BeginWait: a plain store, which forgets an earlier invoke().
BeginWaitStore(t) ==
    /\ at[t] = "out"
    /\ status' = "ready"
    /\ AtBecomes(t, "wait_lock")

\* wait_us up to cvLock: an earlier invoke() makes it return at once.
BeginWait(t) ==
    /\ at[t] = "out"
    /\ IF status = "idle" THEN status' = "ready" /\ AtBecomes(t, "wait_lock")
                          ELSE UNCHANGED status /\ AtBecomes(t, "returned")

\* wait_us under cvLock, which the condition variable releases.
Sleep(t) ==
    /\ at[t] = "wait_lock"
    /\ IF status = "ready" THEN status' = "waiting" /\ AtBecomes(t, "asleep")
                           ELSE UNCHANGED status /\ AtBecomes(t, "returned")

\* The condition variable returns without a notification.
SpuriousWakeUp(t) ==
    /\ at[t] = "asleep"
    /\ AtBecomes(t, "woken")
    /\ UNCHANGED status

EndWait(t) ==
    /\ at[t] = "woken"
    /\ status' = "done"
    /\ AtBecomes(t, "returned")

\* invoke up to cvLock: nobody waits yet.
BeginInvoke(t) ==
    /\ at[t] = "out"
    /\ IF status = "idle" THEN status' = "done" /\ AtBecomes(t, "returned")
                          ELSE UNCHANGED status /\ AtBecomes(t, "invoke_lock")

\* Mutant of Notify: a thread that waits is not notified.
NotifyNobody(t) ==
    /\ at[t] = "invoke_lock"
    /\ status' = IF status = "ready" THEN "done" ELSE status
    /\ AtBecomes(t, "returned")

\* invoke under cvLock.
Notify(t) ==
    /\ at[t] = "invoke_lock"
    /\ status' = IF status = "ready" THEN "done" ELSE status
    /\ at' = [s \in Thread |->
                IF s = t THEN "returned"
                ELSE IF at[s] = "asleep" /\ status # "ready" THEN "woken" ELSE at[s]]

\* What goes on inside a call that has begun.
Inside(t) == Sleep(t) \/ EndWait(t) \/ Notify(t)

Returned(t) == at[t] = "returned" /\ AtBecomes(t, "out") /\ UNCHANGED status

AwaiterTypeOK ==
    /\ status \in {"idle", "ready", "waiting", "done"}
    /\ at \in [Thread -> {"out", "wait_lock", "asleep", "woken", "invoke_lock", "returned"}]

=============================================================================
