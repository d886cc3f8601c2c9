------------------------------- MODULE Strand -------------------------------
(***************************************************************************)
(* strand_executor_service: enqueue, the invoker, run_ready_handlers and   *)
(* push_waiting_to_ready, with any number of threads.                      *)
(*                                                                         *)
(* A section under the mutex of the strand is one step; ready_queue_ is    *)
(* also touched outside of it.  A thread has two places: where it is in a  *)
(* call of post, defer or dispatch, and where it is in an invoker, because *)
(* a handler that runs in the strand makes such calls too.  The inner      *)
(* executor is the number of invokers it was given and has not run.        *)
(***************************************************************************)
EXTENDS Naturals, Sequences

CONSTANTS
    Thread,     \* the threads that use the strand or run its executor
    Handler,    \* the functions given to the strand
    None

ASSUME StrandAssumption == None \notin Handler

VARIABLES
    locked,         \* strand_impl::locked_
    shutdown,       \* strand_impl::shutdown_
    waiting_queue,  \* strand_impl::waiting_queue_
    ready_queue,    \* strand_impl::ready_queue_
    scheduled,      \* the invokers that the inner executor has to run
    call,           \* per thread: where it is in do_execute, dispatch, post or defer
    op,             \* per thread: the operation of that call
    inv,            \* per thread: where it is in invoker::operator()
    current,        \* per thread: the handler it runs in the strand
    submitted       \* history: the handlers given so far

queueVars == <<waiting_queue, ready_queue>>
callVars == <<call, op>>
invVars == <<inv, current>>
vars == <<locked, shutdown, queueVars, scheduled, callVars, invVars, submitted>>

Init ==
    /\ locked = FALSE
    /\ shutdown = FALSE
    /\ waiting_queue = <<>>
    /\ ready_queue = <<>>
    /\ scheduled = 0
    /\ call = [t \in Thread |-> "idle"]
    /\ op = [t \in Thread |-> None]
    /\ inv = [t \in Thread |-> "idle"]
    /\ current = [t \in Thread |-> None]
    /\ submitted = {}

\* A thread may call the strand when it runs nothing of it, or from a handler.
MayCall(t) == call[t] = "idle" /\ inv[t] \in {"idle", "handler"}

-----------------------------------------------------------------------------
(* do_execute, dispatch, post and defer.                                   *)

\* running_in_this_thread, and the call may block: the function runs at once.
RunNow(t, h) ==
    /\ MayCall(t) /\ inv[t] = "handler"
    /\ h \notin submitted
    /\ submitted' = submitted \cup {h}
    /\ UNCHANGED <<locked, shutdown, queueVars, scheduled, callVars, invVars>>

\* enqueue, under the mutex: the operation is destroyed, or waits, or takes the
\* lock of the strand.
Enqueue(t, h) ==
    /\ MayCall(t)
    /\ h \notin submitted
    /\ submitted' = submitted \cup {h}
    /\ \/ /\ shutdown
          /\ UNCHANGED <<locked, waiting_queue, callVars>>
       \/ /\ ~ shutdown /\ locked
          /\ waiting_queue' = Append(waiting_queue, h)
          /\ UNCHANGED <<locked, callVars>>
       \/ /\ ~ shutdown /\ ~ locked
          /\ locked' = TRUE
          /\ call' = [call EXCEPT ![t] = "push"]
          /\ op' = [op EXCEPT ![t] = h]
          /\ UNCHANGED waiting_queue
    /\ UNCHANGED <<shutdown, ready_queue, scheduled, invVars>>

\* The push to ready_queue_ comes after the unlock.
PushReady(t) ==
    /\ call[t] = "push"
    /\ ready_queue' = Append(ready_queue, op[t])
    /\ call' = [call EXCEPT ![t] = "schedule"]
    /\ op' = [op EXCEPT ![t] = None]
    /\ UNCHANGED <<locked, shutdown, waiting_queue, scheduled, invVars, submitted>>

\* The first handler schedules the strand.
Schedule(t) ==
    /\ call[t] = "schedule"
    /\ scheduled' = scheduled + 1
    /\ call' = [call EXCEPT ![t] = "idle"]
    /\ UNCHANGED <<locked, shutdown, queueVars, op, invVars, submitted>>

-----------------------------------------------------------------------------
(* invoker::operator() and run_ready_handlers.                             *)

BeginInvoker(t) ==
    /\ scheduled > 0
    /\ call[t] = "idle" /\ inv[t] = "idle"
    /\ scheduled' = scheduled - 1
    /\ inv' = [inv EXCEPT ![t] = "run"]
    /\ UNCHANGED <<locked, shutdown, queueVars, callVars, current, submitted>>

\* The loop of run_ready_handlers, without the mutex.
RunReady(t) ==
    /\ inv[t] = "run"
    /\ IF ready_queue = <<>>
         THEN /\ inv' = [inv EXCEPT ![t] = "exit"]
              /\ UNCHANGED <<ready_queue, current>>
         ELSE /\ ready_queue' = Tail(ready_queue)
              /\ current' = [current EXCEPT ![t] = Head(ready_queue)]
              /\ inv' = [inv EXCEPT ![t] = "handler"]
    /\ UNCHANGED <<locked, shutdown, waiting_queue, scheduled, callVars, submitted>>

\* The handler returns, or throws out of the loop with ready handlers left.
EndHandler(t) ==
    /\ inv[t] = "handler" /\ call[t] = "idle"
    /\ \E next \in {"run", "exit"} : inv' = [inv EXCEPT ![t] = next]
    /\ current' = [current EXCEPT ![t] = None]
    /\ UNCHANGED <<locked, shutdown, queueVars, scheduled, callVars, submitted>>

\* Mutant of Exit: only the waiting handlers decide whether the strand stays locked.
ExitByWaiting(t) ==
    /\ inv[t] = "exit"
    /\ ready_queue' = ready_queue \o waiting_queue
    /\ waiting_queue' = <<>>
    /\ locked' = (waiting_queue # <<>>)
    /\ inv' = [inv EXCEPT ![t] = IF locked' THEN "reschedule" ELSE "idle"]
    /\ UNCHANGED <<shutdown, scheduled, callVars, current, submitted>>

\* Mutant of Exit: the waiting handlers go before the ready ones.
ExitInFront(t) ==
    /\ inv[t] = "exit"
    /\ ready_queue' = waiting_queue \o ready_queue
    /\ waiting_queue' = <<>>
    /\ locked' = (ready_queue' # <<>>)
    /\ inv' = [inv EXCEPT ![t] = IF locked' THEN "reschedule" ELSE "idle"]
    /\ UNCHANGED <<shutdown, scheduled, callVars, current, submitted>>

\* on_invoker_exit: push_waiting_to_ready, under the mutex.
Exit(t) ==
    /\ inv[t] = "exit"
    /\ ready_queue' = ready_queue \o waiting_queue
    /\ waiting_queue' = <<>>
    /\ locked' = (ready_queue' # <<>>)
    /\ inv' = [inv EXCEPT ![t] = IF locked' THEN "reschedule" ELSE "idle"]
    /\ UNCHANGED <<shutdown, scheduled, callVars, current, submitted>>

\* Mutant of Reschedule: the strand is not scheduled again.
RescheduleNothing(t) ==
    /\ inv[t] = "reschedule"
    /\ inv' = [inv EXCEPT ![t] = "idle"]
    /\ UNCHANGED <<locked, shutdown, queueVars, scheduled, callVars, current, submitted>>

\* ... and the invoker gives itself to the executor again.
Reschedule(t) ==
    /\ inv[t] = "reschedule"
    /\ scheduled' = scheduled + 1
    /\ inv' = [inv EXCEPT ![t] = "idle"]
    /\ UNCHANGED <<locked, shutdown, queueVars, callVars, current, submitted>>

\* shutdown of the service, when the threads of the context have stopped; the
\* executor has destroyed its invokers.
Shutdown ==
    /\ ~ shutdown
    /\ \A t \in Thread : call[t] = "idle" /\ inv[t] = "idle"
    /\ shutdown' = TRUE
    /\ waiting_queue' = <<>>
    /\ ready_queue' = <<>>
    /\ scheduled' = 0
    /\ UNCHANGED <<locked, callVars, invVars, submitted>>

-----------------------------------------------------------------------------
\* The steps a thread takes by itself once it has begun.
Step(t) ==
    \/ PushReady(t) \/ Schedule(t)
    \/ BeginInvoker(t) \/ RunReady(t) \/ EndHandler(t) \/ Exit(t) \/ Reschedule(t)

Next ==
    \/ \E t \in Thread : Step(t)
    \/ \E t \in Thread, h \in Handler : RunNow(t, h) \/ Enqueue(t, h)
    \/ Shutdown

\* Threads run, handlers end, the inner executor runs what it is given.
Spec == Init /\ [][Next]_vars /\ \A t \in Thread : WF_vars(Step(t))

-----------------------------------------------------------------------------
(* Properties.                                                             *)

\* A thread that holds the lock of the strand in a call or in an invoker.
InCall(t) == call[t] \in {"push", "schedule"}
InInvoker(t) == inv[t] \in {"run", "handler", "exit", "reschedule"}
Holds(t) == InCall(t) \/ InInvoker(t)

TypeOK ==
    /\ locked \in BOOLEAN
    /\ shutdown \in BOOLEAN
    /\ waiting_queue \in Seq(Handler)
    /\ ready_queue \in Seq(Handler)
    /\ scheduled \in Nat
    /\ call \in [Thread -> {"idle", "push", "schedule"}]
    /\ op \in [Thread -> Handler \cup {None}]
    /\ inv \in [Thread -> {"idle", "run", "handler", "exit", "reschedule"}]
    /\ current \in [Thread -> Handler \cup {None}]
    /\ submitted \subseteq Handler

\* The lock of the strand is one token: a thread in a call, a thread in an
\* invoker, or an invoker in the executor.  So ready_queue_, which is used without
\* the mutex, is used by one thread at a time.
OneOwner ==
    /\ scheduled <= 1
    /\ \A t \in Thread : Holds(t) => locked /\ scheduled = 0 /\ ~ shutdown
    /\ \A t, u \in Thread : Holds(t) /\ Holds(u) => t = u
    /\ \A t \in Thread : ~ (InCall(t) /\ InInvoker(t))

\* A strand that is not locked has nothing to do, and one that is locked will be
\* scheduled: no handler is stranded in a queue.
NotStranded ==
    /\ ~ locked => scheduled = 0 /\ waiting_queue = <<>> /\ ready_queue = <<>>
    /\ locked /\ ~ shutdown => scheduled = 1 \/ \E t \in Thread : Holds(t)
    /\ shutdown => scheduled = 0 /\ waiting_queue = <<>> /\ ready_queue = <<>>

\* What the places of the threads say about ready_queue_ and the handlers.
Places ==
    \A t \in Thread :
       /\ call[t] = "push" => op[t] \in Handler /\ ready_queue = <<>>
       /\ inv[t] = "handler" <=> current[t] # None

\* The inductive invariant.
StrandInv == TypeOK /\ OneOwner /\ NotStranded /\ Places

\* Two handlers of a strand never run at once.
HandlersExclude ==
    \A t, u \in Thread : inv[t] = "handler" /\ inv[u] = "handler" => t = u

\* The operation between its enqueue and its push is pending too, in front.
PushedBy(c, o) ==
    LET P == {t \in Thread : c[t] = "push"} IN
    IF P = {} THEN <<>> ELSE <<o[CHOOSE t \in P : TRUE]>>
Pending == PushedBy(call, op) \o ready_queue \o waiting_queue

InHandler(i) == {t \in Thread : i[t] = "handler"}
RunBy(i, c) == IF InHandler(i) = {} THEN None ELSE c[CHOOSE t \in InHandler(i) : TRUE]
Running == RunBy(inv, current)

\* The strand implements the serial executor: handlers run one at a time, in the
\* order of their enqueue, whatever threads give and run them, although the first
\* one is pushed outside the mutex and waiting ones change queues.
Serial == INSTANCE SerialExecutor
    WITH pending <- Pending,
         running <- Running,
         given <- submitted,
         closed <- shutdown
ImplementsSerial == Serial!SerialSpec

\* A handler given to the strand is run, unless the service is shut down.
HandlerRuns ==
    \A h \in Handler :
       (\E t \in Thread : call[t] = "push" /\ op[t] = h)
          \/ (\E k \in DOMAIN waiting_queue : waiting_queue[k] = h)
       ~> (\E t \in Thread : current[t] = h) \/ shutdown

=============================================================================
