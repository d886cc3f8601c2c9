----------------------------- MODULE Scheduler ------------------------------
(***************************************************************************)
(* scheduler: the queue of an io_context, the threads that run it, and the *)
(* reactor, with posix_event and the descriptor operations of              *)
(* epoll_reactor.                                                          *)
(*                                                                         *)
(* What is done under mutex_ is one step.  The signal of the condition     *)
(* variable comes after the unlock and is a step of its own, and so are    *)
(* the accesses to outstanding_work_, which is atomic.  One descriptor is  *)
(* registered with the reactor.  task_usec_ and wait_usec_ have their      *)
(* default, no limit.                                                      *)
(***************************************************************************)
EXTENDS Integers, Sequences, FiniteSets

CONSTANTS
    Runner,     \* threads that call run, run_one, poll, poll_one or wait_one
    Poster,     \* threads that only give operations, stop and restart
    Op,         \* the operations of the user
    Task,       \* task_operation_
    Desc,       \* the descriptor_state, which is an operation too
    None,
    Calls,      \* the functions that the runners call
    Throws      \* whether handlers may throw

Thread == Runner \cup Poster

ASSUME ThreadAssumption == Runner \cap Poster = {}
ASSUME FiniteAssumption == IsFiniteSet(Thread) /\ IsFiniteSet(Op)
ASSUME OpAssumption == Task # Desc /\ None \notin {Task, Desc} /\ Op \cap {Task, Desc, None} = {}
ASSUME CallAssumption ==
    Calls \subseteq {"run", "run_one", "poll", "poll_one", "wait_one"} /\ Throws \in BOOLEAN

VARIABLES
    one_thread,         \* one_thread_, and assume_continuation_
    op_queue,           \* op_queue_
    stopped,            \* stopped_
    outstanding_work,   \* outstanding_work_
    task,               \* whether task_ is set
    task_interrupted,   \* task_interrupted_
    event,              \* bit 0 of posix_event::state_
    armed,              \* the reactor will return from its next epoll_wait
    io,                 \* the operations queued at the descriptor
    pc,                 \* per thread: where it is in the function that runs operations
    mode,               \* per thread: that function, or "leave": it returns next
    current,            \* per thread: the operation it completes
    private_queue,      \* per thread: private_op_queue
    private_work,       \* per thread: private_outstanding_work
    call,               \* per thread: what is left of a call that gives operations
    arg,                \* per thread: the operations of that call
    given,              \* history: the operations given so far
    done                \* history: the operations completed

queueVars == <<op_queue, task_interrupted, event, armed>>
privateVars == <<private_queue, private_work>>
placeVars == <<pc, mode, current>>
callVars == <<call, arg>>
historyVars == <<given, done>>
vars == <<one_thread, queueVars, stopped, outstanding_work, task, io,
          placeVars, privateVars, callVars, historyVars>>

Init ==
    /\ one_thread \in BOOLEAN
    /\ op_queue = <<>>
    /\ stopped = FALSE
    /\ outstanding_work = 0
    /\ task = FALSE
    /\ task_interrupted = TRUE
    /\ event = FALSE
    /\ armed = FALSE
    /\ io = <<>>
    /\ pc = [t \in Thread |-> "out"]
    /\ mode = [t \in Thread |-> "leave"]
    /\ current = [t \in Thread |-> None]
    /\ private_queue = [t \in Thread |-> <<>>]
    /\ private_work = [t \in Thread |-> 0]
    /\ call = [t \in Thread |-> "idle"]
    /\ arg = [t \in Thread |-> <<>>]
    /\ given = {}
    /\ done = {}

Goes(t, p) == pc' = [pc EXCEPT ![t] = p]

\* The function that t is in goes on after an operation.
Loops(t) == mode[t] \in {"run", "poll"}

-----------------------------------------------------------------------------
(* The event and the reactor.                                              *)

\* The threads that posix_event::state_ counts besides t.
Waiters(t) == {u \in Runner \ {t} : pc[u] \in {"wait", "woken", "timed", "timed_woken"}}

\* unlock_and_signal_one and maybe_unlock_and_signal_one: the bit, and a signal to
\* come if there is a waiter.
SignalOne(t) ==
    /\ event' = TRUE
    /\ call' = [call EXCEPT ![t] = IF Waiters(t) = {} THEN "idle" ELSE "signal"]

\* Where a signal finds a thread, and where it goes on.
Woken(p) == IF p = "wait" THEN "woken" ELSE IF p = "timed" THEN "timed_woken" ELSE p

\* The signal wakes one waiting thread, if one still waits.
Signal(t) ==
    /\ call[t] = "signal"
    /\ LET W == {u \in Runner : pc[u] \in {"wait", "timed"}} IN
       \/ W = {} /\ UNCHANGED pc
       \/ \E u \in W : Goes(u, Woken(pc[u]))
    /\ call' = [call EXCEPT ![t] = "idle"]
    /\ UNCHANGED <<one_thread, queueVars, stopped, outstanding_work, task, io,
                   mode, current, privateVars, arg, historyVars>>

\* if (!task_interrupted_ && task_) the reactor is interrupted; ti is the flag.
Interrupt(ti) ==
    /\ task_interrupted' = (ti \/ task)
    /\ armed' = (armed \/ (~ti /\ task))

\* Mutant of WakeOne: without a waiter nobody is woken.
WakeOneWaiter(t, ti) ==
    /\ SignalOne(t)
    /\ task_interrupted' = ti
    /\ UNCHANGED armed

\* wake_one_thread_and_unlock.
WakeOne(t, ti) ==
    /\ SignalOne(t)
    /\ IF Waiters(t) = {}
         THEN Interrupt(ti)
         ELSE task_interrupted' = ti /\ UNCHANGED armed

\* stop_all_threads; next is where t goes.
StopAll(t, next) ==
    /\ stopped' = TRUE
    /\ event' = TRUE
    /\ Interrupt(task_interrupted)
    /\ pc' = [u \in Thread |-> IF u = t THEN next ELSE Woken(pc[u])]

-----------------------------------------------------------------------------
(* do_run_one, do_poll_one and do_wait_one, from a point where t holds     *)
(* mutex_: q is the queue and ti is task_interrupted_ at that point.       *)

\* The function returns 0.
Leave(t, q, ti) ==
    /\ op_queue' = q
    /\ task_interrupted' = ti
    /\ Goes(t, "out")
    /\ UNCHANGED <<event, armed, current, call>>

\* The queue is empty: the event is cleared and t waits.
Sleep(t, ti, p) ==
    /\ op_queue' = <<>>
    /\ event' = FALSE
    /\ task_interrupted' = ti
    /\ Goes(t, p)
    /\ UNCHANGED <<armed, current, call>>

\* The task is first.  more: there are operations behind it.  It may block in
\* run without limit; wait_one and poll return from it by themselves.
TakeTask(t, q, ti, waited) ==
    LET more == Tail(q) # <<>> IN
    /\ Head(q) = Task
    /\ op_queue' = Tail(q)
    /\ task_interrupted' = IF mode[t] \in {"run", "run_one"} THEN more
                           ELSE IF mode[t] = "wait_one" THEN more \/ waited ELSE ti
    /\ IF more /\ ~one_thread /\ mode[t] \in {"run", "run_one", "wait_one"}
         THEN SignalOne(t)
         ELSE UNCHANGED <<event, call>>
    /\ Goes(t, IF ~more /\ mode[t] \in {"run", "run_one"} THEN "block" ELSE "peek")
    /\ UNCHANGED <<armed, current>>

\* Mutant of TakeOp: no thread is woken for the operations behind.
TakeOpQuiet(t, q, ti) ==
    /\ Head(q) # Task
    /\ op_queue' = Tail(q)
    /\ current' = [current EXCEPT ![t] = Head(q)]
    /\ Goes(t, IF Head(q) = Desc THEN "descriptor" ELSE "handler")
    /\ task_interrupted' = ti
    /\ UNCHANGED <<event, armed, call>>

\* An operation is first.
TakeOp(t, q, ti) ==
    /\ Head(q) # Task
    /\ op_queue' = Tail(q)
    /\ current' = [current EXCEPT ![t] = Head(q)]
    /\ Goes(t, IF Head(q) = Desc THEN "descriptor" ELSE "handler")
    /\ IF Tail(q) # <<>> /\ ~one_thread
         THEN WakeOne(t, ti)
         ELSE task_interrupted' = ti /\ UNCHANGED <<event, armed, call>>

\* The loop of do_run_one, and the beginning of do_poll_one and do_wait_one.
Look(t, q, ti) ==
    \/ stopped /\ Leave(t, q, ti)
    \/ /\ ~stopped /\ q = <<>>
       /\ CASE mode[t] \in {"run", "run_one"} -> Sleep(t, ti, "wait")
            [] mode[t] = "wait_one" -> Sleep(t, ti, "timed")
            [] OTHER -> Leave(t, q, ti)
    \/ ~stopped /\ q # <<>> /\ (TakeTask(t, q, ti, FALSE) \/ TakeOp(t, q, ti))

\* The rest of do_poll_one and do_wait_one after the task.
LookAgain(t, q, ti) ==
    \/ /\ Head(q) = Task
       /\ op_queue' = q
       /\ task_interrupted' = ti
       /\ IF one_thread THEN UNCHANGED <<event, call>> ELSE SignalOne(t)
       /\ Goes(t, "out")
       /\ UNCHANGED <<armed, current>>
    \/ TakeOp(t, q, ti)

lookVars == <<one_thread, stopped, outstanding_work, task, io, mode, private_work,
              arg, historyVars>>

\* run, run_one, poll, poll_one, wait_one: without work the scheduler is stopped.
Enter(t) ==
    /\ pc[t] = "out" /\ call[t] = "idle"
    /\ one_thread => \A u \in Runner : pc[u] = "out"
    /\ \E m \in Calls :
          IF outstanding_work = 0
            THEN Goes(t, "stop") /\ mode' = [mode EXCEPT ![t] = "leave"]
            ELSE Goes(t, "look") /\ mode' = [mode EXCEPT ![t] = m]
    /\ UNCHANGED <<one_thread, queueVars, stopped, outstanding_work, task, io,
                   current, privateVars, callVars, historyVars>>

LookFirst(t) ==
    /\ pc[t] = "look"
    /\ Look(t, op_queue, task_interrupted)
    /\ UNCHANGED <<lookVars, private_queue>>

\* posix_event::wait returns only if the bit is set.
WakeUp(t) ==
    /\ pc[t] = "woken"
    /\ IF event
         THEN Look(t, op_queue, task_interrupted)
         ELSE Goes(t, "wait") /\ UNCHANGED <<queueVars, current, call>>
    /\ UNCHANGED <<lookVars, private_queue>>

\* wait_for_usec is over, signalled or not; stopped_ is not looked at again.
TimedWakeUp(t) ==
    /\ pc[t] \in {"timed", "timed_woken"}
    /\ \/ op_queue = <<>> /\ Leave(t, op_queue, task_interrupted)
       \/ /\ op_queue # <<>>
          /\ TakeTask(t, op_queue, task_interrupted, TRUE) \/ TakeOp(t, op_queue, task_interrupted)
    /\ UNCHANGED <<lookVars, private_queue>>

SpuriousWakeUp(t) ==
    /\ pc[t] = "wait"
    /\ Goes(t, "woken")
    /\ UNCHANGED <<one_thread, queueVars, stopped, outstanding_work, task, io, mode,
                   current, privateVars, callVars, historyVars>>

\* epoll_reactor::run: it returns at once, when interrupted, or with the
\* descriptor, which goes to the private queue.
ReactorReturns(t) ==
    /\ pc[t] \in {"peek", "block"} /\ call[t] = "idle"
    /\ \E d \in {<<>>, <<Desc>>} :
          /\ d = <<>> => pc[t] = "peek" \/ armed
          /\ private_queue' = [private_queue EXCEPT ![t] = @ \o d]
    /\ armed' = FALSE
    /\ Goes(t, "returned")
    /\ UNCHANGED <<one_thread, op_queue, task_interrupted, event, stopped, outstanding_work,
                   task, io, mode, current, private_work, callVars, historyVars>>

\* Mutant of TaskCleanup: the task goes before the private operations.
TaskCleanupInFront(t) ==
    LET q == Append(op_queue, Task) \o private_queue[t] IN
    /\ pc[t] = "returned"
    /\ private_queue' = [private_queue EXCEPT ![t] = <<>>]
    /\ IF mode[t] \in {"run", "run_one"} THEN Look(t, q, TRUE) ELSE LookAgain(t, q, TRUE)
    /\ UNCHANGED lookVars

\* task_cleanup: the private operations, then the task behind them.
TaskCleanup(t) ==
    LET q == Append(op_queue \o private_queue[t], Task) IN
    /\ pc[t] = "returned"
    /\ private_queue' = [private_queue EXCEPT ![t] = <<>>]
    /\ IF mode[t] \in {"run", "run_one"} THEN Look(t, q, TRUE) ELSE LookAgain(t, q, TRUE)
    /\ UNCHANGED lookVars

-----------------------------------------------------------------------------
(* Completion of an operation, and work_cleanup.                           *)

\* Operations s go to the private queue of t, or to the scheduler.
Completed(t, s) ==
    IF one_thread /\ pc[t] # "out"
      THEN /\ private_queue' = [private_queue EXCEPT ![t] = @ \o s]
           /\ UNCHANGED callVars
      ELSE /\ call' = [call EXCEPT ![t] = IF s = <<>> THEN "idle" ELSE "push"]
           /\ arg' = [arg EXCEPT ![t] = s]
           /\ UNCHANGED private_queue

\* Mutant of PerformIo: nothing compensates for the work_finished to come.
PerformIoUncounted(t) ==
    /\ pc[t] = "descriptor" /\ call[t] = "idle"
    /\ \E k \in 0 .. Len(io) :
          /\ io' = SubSeq(io, k + 1, Len(io))
          /\ IF k = 0
               THEN /\ Goes(t, "cleanup")
                    /\ current' = [current EXCEPT ![t] = None]
                    /\ UNCHANGED <<private_queue, callVars>>
               ELSE /\ Goes(t, "handler")
                    /\ current' = [current EXCEPT ![t] = Head(io)]
                    /\ Completed(t, SubSeq(io, 2, k))
          /\ UNCHANGED private_work
    /\ UNCHANGED <<one_thread, queueVars, stopped, outstanding_work, task, mode, historyVars>>

\* descriptor_state::do_complete and perform_io: k operations at the descriptor
\* have completed; the first is completed at once and the others are posted.
PerformIo(t) ==
    /\ pc[t] = "descriptor" /\ call[t] = "idle"
    /\ \E k \in 0 .. Len(io) :
          /\ io' = SubSeq(io, k + 1, Len(io))
          /\ IF k = 0
               THEN /\ private_work' = [private_work EXCEPT ![t] = @ + 1]
                    /\ Goes(t, "cleanup")
                    /\ current' = [current EXCEPT ![t] = None]
                    /\ UNCHANGED <<private_queue, callVars>>
               ELSE /\ Goes(t, "handler")
                    /\ current' = [current EXCEPT ![t] = Head(io)]
                    /\ Completed(t, SubSeq(io, 2, k))
                    /\ UNCHANGED private_work
    /\ UNCHANGED <<one_thread, queueVars, stopped, outstanding_work, task, mode, historyVars>>

\* The handler returns or throws.
EndHandler(t) ==
    /\ pc[t] = "handler" /\ call[t] = "idle"
    /\ Goes(t, "cleanup")
    /\ current' = [current EXCEPT ![t] = None]
    /\ done' = done \cup {current[t]}
    /\ \/ UNCHANGED mode
       \/ Throws /\ mode' = [mode EXCEPT ![t] = "leave"]
    /\ UNCHANGED <<one_thread, queueVars, stopped, outstanding_work, task, io,
                   privateVars, callVars, given>>

\* Mutant of AfterCount: the private operations are forgotten.
AfterCountForgets(t) == IF Loops(t) THEN "look" ELSE "out"

\* Where work_cleanup goes on after the count.
AfterCount(t) ==
    IF private_queue[t] # <<>> THEN "publish" ELSE IF Loops(t) THEN "look" ELSE "out"

\* work_cleanup: the count, without the mutex.
WorkCleanup(t) ==
    /\ pc[t] = "cleanup"
    /\ outstanding_work' = outstanding_work + private_work[t] - 1
    /\ private_work' = [private_work EXCEPT ![t] = 0]
    /\ Goes(t, IF private_work[t] = 0 /\ outstanding_work' = 0 THEN "stop" ELSE AfterCount(t))
    /\ UNCHANGED <<one_thread, queueVars, stopped, task, io, mode, current,
                   private_queue, callVars, historyVars>>

\* The count was or became zero: stop.
StopWithoutWork(t) ==
    /\ pc[t] = "stop"
    /\ StopAll(t, AfterCount(t))
    /\ UNCHANGED <<one_thread, op_queue, outstanding_work, task, io, mode, current,
                   privateVars, callVars, historyVars>>

\* work_cleanup: the private operations, under the mutex that a loop then keeps.
Publish(t) ==
    LET q == op_queue \o private_queue[t] IN
    /\ pc[t] = "publish"
    /\ private_queue' = [private_queue EXCEPT ![t] = <<>>]
    /\ IF Loops(t) THEN Look(t, q, task_interrupted) ELSE Leave(t, q, task_interrupted)
    /\ UNCHANGED lookVars

-----------------------------------------------------------------------------
(* The calls of posters and handlers.                                      *)

MayCall(t) == call[t] = "idle" /\ (t \in Poster \/ pc[t] = "handler")

\* post_immediate_completion; cont: a continuation, or assume_continuation_.
Post(t, o) ==
    /\ MayCall(t)
    /\ o \notin given
    /\ given' = given \cup {o}
    /\ \E cont \in BOOLEAN :
          IF pc[t] = "handler" /\ (cont \/ one_thread)
            THEN /\ private_work' = [private_work EXCEPT ![t] = @ + 1]
                 /\ private_queue' = [private_queue EXCEPT ![t] = Append(@, o)]
                 /\ UNCHANGED <<outstanding_work, callVars>>
            ELSE /\ outstanding_work' = outstanding_work + 1
                 /\ call' = [call EXCEPT ![t] = "push"]
                 /\ arg' = [arg EXCEPT ![t] = <<o>>]
                 /\ UNCHANGED privateVars
    /\ UNCHANGED <<one_thread, queueVars, stopped, task, io, placeVars, done>>

\* The rest of it, and of post_deferred_completions, under the mutex.
Push(t) ==
    /\ call[t] = "push"
    /\ op_queue' = op_queue \o arg[t]
    /\ arg' = [arg EXCEPT ![t] = <<>>]
    /\ WakeOne(t, task_interrupted)
    /\ UNCHANGED <<one_thread, stopped, outstanding_work, task, io, placeVars, privateVars,
                   historyVars>>

\* start_op: the operation waits at the descriptor.
StartIo(t, o) ==
    /\ MayCall(t) /\ task
    /\ o \notin given
    /\ given' = given \cup {o}
    /\ io' = Append(io, o)
    /\ outstanding_work' = outstanding_work + 1
    /\ UNCHANGED <<one_thread, queueVars, stopped, task, placeVars, privateVars, callVars, done>>

\* Mutant of CancelIo: the operations stay at the descriptor.
CancelIoKeeps(t) ==
    /\ MayCall(t) /\ io # <<>>
    /\ Completed(t, io)
    /\ UNCHANGED <<one_thread, queueVars, stopped, outstanding_work, task, io, placeVars,
                   private_work, historyVars>>

\* cancel_ops.
CancelIo(t) ==
    /\ MayCall(t) /\ io # <<>>
    /\ io' = <<>>
    /\ Completed(t, io)
    /\ UNCHANGED <<one_thread, queueVars, stopped, outstanding_work, task, placeVars,
                   private_work, historyVars>>

\* init_task.
InitTask(t) ==
    /\ MayCall(t) /\ ~task
    /\ task' = TRUE
    /\ op_queue' = Append(op_queue, Task)
    /\ SignalOne(t)
    /\ IF Waiters(t) = {} /\ ~task_interrupted
         THEN task_interrupted' = TRUE /\ armed' = TRUE
         ELSE UNCHANGED <<task_interrupted, armed>>
    /\ UNCHANGED <<one_thread, stopped, outstanding_work, io, placeVars, privateVars,
                   arg, historyVars>>

Stop(t) ==
    /\ MayCall(t)
    /\ StopAll(t, pc[t])
    /\ UNCHANGED <<one_thread, op_queue, outstanding_work, task, io, mode, current,
                   privateVars, callVars, historyVars>>

\* restart, which must not be called while a run is unfinished.
Restart ==
    /\ stopped
    /\ \A t \in Runner : pc[t] = "out"
    /\ stopped' = FALSE
    /\ UNCHANGED <<one_thread, queueVars, outstanding_work, task, io, placeVars,
                   privateVars, callVars, historyVars>>

-----------------------------------------------------------------------------
\* What a thread does by itself, the handlers excepted.
Step(t) ==
    \/ LookFirst(t) \/ WakeUp(t) \/ TimedWakeUp(t) \/ TaskCleanup(t)
    \/ PerformIo(t) \/ WorkCleanup(t) \/ StopWithoutWork(t) \/ Publish(t)
    \/ Push(t) \/ Signal(t)

\* The reactor returns when it does not block or is interrupted; a ready
\* descriptor is up to the environment.
Returns(t) == (pc[t] = "peek" \/ armed) /\ ReactorReturns(t)

Next ==
    \/ \E t \in Thread : Step(t)
    \/ \E t \in Runner : Enter(t) \/ ReactorReturns(t) \/ EndHandler(t) \/ SpuriousWakeUp(t)
    \/ \E t \in Thread, o \in Op : Post(t, o) \/ StartIo(t, o)
    \/ \E t \in Thread : CancelIo(t) \/ InitTask(t) \/ Stop(t)
    \/ Restart

Spec == Init /\ [][Next]_vars

\* Threads run and the reactor can be interrupted; a thread that has left calls
\* again.  Handlers may take for ever.
FairSpec ==
    /\ Spec
    /\ \A t \in Runner : WF_vars(Step(t) \/ Returns(t) \/ Enter(t))
    /\ \A t \in Poster : WF_vars(Step(t))

-----------------------------------------------------------------------------
(* Properties.                                                             *)

Operation == Op \cup {Task, Desc}
PcValue == {"out", "look", "wait", "woken", "timed", "timed_woken", "peek", "block",
            "returned", "descriptor", "handler", "cleanup", "stop", "publish"}

\* The types of the members of scheduler, thread_info and posix_event.
TypeOK ==
    /\ one_thread \in BOOLEAN /\ stopped \in BOOLEAN /\ task \in BOOLEAN
    /\ task_interrupted \in BOOLEAN /\ event \in BOOLEAN /\ armed \in BOOLEAN
    /\ op_queue \in Seq(Operation)
    /\ outstanding_work \in Int
    /\ io \in Seq(Op)
    /\ pc \in [Thread -> PcValue]
    /\ mode \in [Thread -> Calls \cup {"leave"}]
    /\ current \in [Thread -> Op \cup {Desc, None}]
    /\ private_queue \in [Thread -> Seq(Op \cup {Desc})]
    /\ private_work \in [Thread -> Nat]
    /\ call \in [Thread -> {"idle", "push", "signal"}]
    /\ arg \in [Thread -> Seq(Op)]
    /\ given \subseteq Op /\ done \subseteq Op

Has(s, o) == \E k \in DOMAIN s : s[k] = o

\* Where operations are kept, and what is there for given members.
Place == ({"op_queue", "io"} \X {None})
           \cup ({"private_queue", "arg", "current"} \X Thread)
Held(q, i, pq, a, c) ==
    [p \in Place |-> CASE p[1] = "op_queue" -> q
                       [] p[1] = "io" -> i
                       [] p[1] = "private_queue" -> pq[p[2]]
                       [] p[1] = "arg" -> a[p[2]]
                       [] p[1] = "current" -> <<c[p[2]]>>]

Single(s) == \A j, k \in DOMAIN s : s[j] = s[k] /\ s[j] \in Op => j = k

\* The places H hold the operations of S and no others, each of them once.
HeldOnce(H, S) ==
    /\ \A p \in Place : Single(H[p])
    /\ \A o \in Op : \A p \in Place : Has(H[p], o) => \A r \in Place : Has(H[r], o) => r = p
    /\ \A o \in Op : o \in S <=> \E p \in Place : Has(H[p], o)

\* An operation is in one place (op_queue_, a private queue, the descriptor, or the
\* hands of a thread) until it is completed, and then in none: perform_io, cancel_ops
\* and the cleanups neither lose nor repeat it.
OpOnce == HeldOnce(Held(op_queue, io, private_queue, arg, current), given \ done)

InReactor(t) == pc[t] \in {"peek", "block", "returned"}

TaskOnce(q) == \A j, k \in DOMAIN q : q[j] = Task /\ q[k] = Task => j = k
InFront(q) ==
    \A j \in DOMAIN q : q[j] = Desc => \E k \in DOMAIN q : j < k /\ q[k] = Task

\* The task is in the queue once, behind the descriptor operation, or one thread
\* runs it.
TaskPlaced ==
    /\ TaskOnce(op_queue) /\ InFront(op_queue)
    /\ \A t, u \in Runner : InReactor(t) /\ InReactor(u) => t = u
    /\ \A t \in Runner : InReactor(t) => task /\ ~Has(op_queue, Task)
    /\ Has(op_queue, Task) => task

\* What a thread keeps for itself, by its place.  A thread that is outside has
\* left nothing.
PrivatePlaced ==
    \A t \in Thread :
       /\ t \in Poster => pc[t] = "out"
       /\ pc[t] \notin {"returned", "descriptor", "handler", "cleanup", "stop", "publish"}
            => private_queue[t] = <<>>
       /\ pc[t] # "returned" => ~Has(private_queue[t], Desc)
       /\ pc[t] \notin {"handler", "cleanup"} => private_work[t] = 0
       /\ pc[t] = "handler" <=> current[t] \in Op
       /\ pc[t] \in {"timed", "timed_woken"} => mode[t] = "wait_one"
       /\ call[t] = "push" => pc[t] \in {"out", "handler"}

\* A thread that blocks in the reactor can be interrupted unless it already is.
InterruptKnown == \A t \in Runner : pc[t] = "block" /\ task_interrupted => armed

OneRuns == one_thread => \A t, u \in Runner : pc[t] # "out" /\ pc[u] # "out" => t = u

\* Threads that will look at the queue without help; one that is outside calls again.
Awake(t) ==
    \/ pc[t] \in {"out", "look", "timed", "timed_woken", "peek", "returned", "publish", "stop"}
    \/ pc[t] = "woken" /\ event
    \/ pc[t] = "block" /\ armed

Asleep(t) == pc[t] \in {"wait", "woken", "block"} /\ ~Awake(t)

\* The event is set for those who wait while there is something in the queue.
EventSet ==
    op_queue # <<>> /\ (\E t \in Runner : pc[t] \in {"wait", "woken", "timed", "timed_woken"})
      => event \/ \E t \in Runner : pc[t] \in {"out", "look", "stop", "peek", "returned"}

SignalComes ==
    /\ \E t \in Thread : call[t] = "signal"
    /\ \E u \in Runner : pc[u] \in {"wait", "timed"}

\* wake_one_thread_and_unlock loses no wake-up: while an operation is queued, nobody sleeps unless another
\* thread is about to look at the queue or to wake a thread that does.
WorkIsSeen ==
    op_queue # <<>> /\ ~stopped /\ (\E t \in Runner : Asleep(t))
      => SignalComes \/ \E t \in Runner : Awake(t)

\* After stop_all_threads nobody sleeps in the event or in the reactor: run returns,
\* or a handler runs.
StopWakesAll == stopped => \A t \in Runner : ~Asleep(t)

\* The inductive invariant of the queue, the task, the event and the threads: what
\* do_run_one, do_wait_one, do_poll_one and the cleanups keep for each other.
SchedulerInv ==
    /\ TypeOK /\ TaskPlaced /\ PrivatePlaced
    /\ InterruptKnown /\ OneRuns /\ EventSet /\ WorkIsSeen /\ StopWakesAll

\* A call that gives operations keeps none when it is over.
ArgTaken == \A t \in Thread : call[t] # "push" => arg[t] = <<>>

\* The inductive invariant of OpOnce: the places of the threads, what their calls
\* keep, and that only operations that were given to the scheduler are completed.
OnceInv == SchedulerInv /\ OpOnce /\ ArgTaken /\ done \subseteq given

\* The units of work that threads keep count of for themselves.
Units(w) == UNION {{t} \X (1 .. w[t]) : t \in Thread}
Cleaning == {t \in Thread : pc[t] = "cleanup"}

\* outstanding_work_ and the counts that threads keep for themselves are the
\* operations that are not completed, and those whose work_cleanup is to come.
WorkCounted ==
    outstanding_work + Cardinality(Units(private_work))
      = Cardinality(given \ done) + Cardinality(Cleaning)

\* A thread at p counts n in private_outstanding_work: operations of its private
\* queue q, or the one unit with which perform_io makes up for the cleanup to come.
Counts(p, q, n) ==
    /\ p = "descriptor" => q = <<>>
    /\ n <= Len(q) \/ (p = "cleanup" /\ n = 1 /\ q = <<>>)

\* The inductive invariant of the count.
WorkInv ==
    /\ OnceInv /\ WorkCounted
    /\ \A t \in Thread : Counts(pc[t], private_queue[t], private_work[t])

\* work_cleanup and run stop the scheduler for want of work only if there is none:
\* while outstanding_work_ is zero every operation given is completed, although
\* threads keep part of the count to themselves (private_outstanding_work).
NothingForgotten == outstanding_work = 0 => given = done

\* epoll_reactor::run says it relies on this: when it runs, the descriptor
\* operations it returned before have been taken from the queues.
DescriptorDequeued ==
    \A t \in Runner : pc[t] \in {"peek", "block"} =>
       ~Has(op_queue, Desc) /\ \A u \in Thread : ~Has(private_queue[u], Desc)

AllBusy ==
    LET B == {t \in Runner : pc[t] = "handler"} IN IF one_thread THEN B # {} ELSE B = Runner

\* An operation in op_queue_ is taken although the handlers of other threads never
\* return, unless the scheduler is stopped or every thread is in a handler: the
\* thread that takes an operation wakes another for the rest (do_run_one).
OpRuns ==
    [](\A o \in Op :
         Has(op_queue, o) => <>(~Has(op_queue, o) \/ stopped \/ AllBusy))

=============================================================================
