-------------------------- MODULE SchedulerProofs ---------------------------
(***************************************************************************)
(* SchedulerInv is an invariant of the scheduler, for any numbers of       *)
(* threads and operations: no wake-up is lost, a stop wakes everybody, and *)
(* the reactor never finds its descriptor operation still queued.  With    *)
(* it, OnceInv is one: no operation is lost or completed twice.            *)
(***************************************************************************)
EXTENDS Scheduler, TLAPS

-----------------------------------------------------------------------------
(* The queue.                                                              *)

QueueOk(q) == q \in Seq(Operation) /\ TaskOnce(q) /\ InFront(q)

LEMMA TailElements ==
    ASSUME NEW S, NEW q \in Seq(S), q # <<>>
    PROVE  /\ Tail(q) \in Seq(S)
           /\ Head(q) = q[1] /\ Head(q) \in S
           /\ \A k \in DOMAIN Tail(q) : k + 1 \in DOMAIN q /\ Tail(q)[k] = q[k + 1]
           /\ \A k \in DOMAIN q : k > 1 => k - 1 \in DOMAIN Tail(q) /\ Tail(q)[k - 1] = q[k]
  BY SMTT(90)

LEMMA OpsDistinct == \A o \in Op : o # Task /\ o # Desc /\ o # None
  BY ZenonT(60), OpAssumption

LEMMA QueueTail ==
    ASSUME NEW q, QueueOk(q), q # <<>>
    PROVE  /\ QueueOk(Tail(q))
           /\ Has(Tail(q), Task) => Has(q, Task)
           /\ Head(q) = Task => ~Has(Tail(q), Task)
           /\ Head(q) \in Operation
  <1>1. /\ Tail(q) \in Seq(Operation)
        /\ Head(q) = q[1] /\ Head(q) \in Operation
        /\ \A k \in DOMAIN Tail(q) : k + 1 \in DOMAIN q /\ Tail(q)[k] = q[k + 1]
        /\ \A k \in DOMAIN q : k > 1 => k - 1 \in DOMAIN Tail(q) /\ Tail(q)[k - 1] = q[k]
    BY ZenonT(60), TailElements DEF QueueOk
  <1>2. DOMAIN q = 1 .. Len(q) /\ DOMAIN Tail(q) = 1 .. Len(Tail(q)) /\ Len(q) \in Nat /\ Len(Tail(q)) \in Nat
        /\ 1 \in DOMAIN q
    BY SMTT(90), <1>1 DEF QueueOk
  <1>3. TaskOnce(Tail(q))
    BY SMTT(90), <1>1, <1>2 DEF QueueOk, TaskOnce
  <1>4. InFront(Tail(q))
    <2> SUFFICES ASSUME NEW j \in DOMAIN Tail(q), Tail(q)[j] = Desc
                 PROVE  \E k \in DOMAIN Tail(q) : j < k /\ Tail(q)[k] = Task
      BY ZenonT(60) DEF InFront
    <2>1. j + 1 \in DOMAIN q /\ q[j + 1] = Desc
      BY ZenonT(60), <1>1
    <2>2. PICK k \in DOMAIN q : j + 1 < k /\ q[k] = Task
      BY ZenonT(60), <2>1 DEF QueueOk, InFront
    <2>3. k - 1 \in DOMAIN Tail(q) /\ Tail(q)[k - 1] = Task /\ j < k - 1
      BY SMTT(90), <1>1, <1>2, <2>2
    <2> QED BY ZenonT(60), <2>3
  <1>5. Has(Tail(q), Task) => Has(q, Task)
    <2> SUFFICES ASSUME NEW k \in DOMAIN Tail(q), Tail(q)[k] = Task PROVE Has(q, Task)
      BY ZenonT(60) DEF Has
    <2>1. k + 1 \in DOMAIN q /\ q[k + 1] = Task
      BY ZenonT(60), <1>1
    <2> QED BY ZenonT(60), <2>1 DEF Has
  <1>6. Head(q) = Task => ~Has(Tail(q), Task)
    BY SMTT(90), <1>1, <1>2 DEF QueueOk, TaskOnce, Has
  <1> QED BY ZenonT(60), <1>1, <1>3, <1>4, <1>5, <1>6 DEF QueueOk

LEMMA NoTaskNoDesc ==
    ASSUME NEW q, QueueOk(q), ~Has(q, Task)
    PROVE  ~Has(q, Desc)
  BY ZenonT(60) DEF QueueOk, InFront, Has

LEMMA ConcatElements ==
    ASSUME NEW S, NEW q \in Seq(S), NEW s \in Seq(S)
    PROVE  /\ q \o s \in Seq(S)
           /\ \A k \in DOMAIN q : k \in DOMAIN (q \o s) /\ (q \o s)[k] = q[k]
           /\ \A k \in DOMAIN (q \o s) : k \in DOMAIN q \/ (k > Len(q) /\ k - Len(q) \in DOMAIN s
                                                             /\ (q \o s)[k] = s[k - Len(q)])
           /\ DOMAIN q = 1 .. Len(q) /\ Len(q) \in Nat /\ DOMAIN s = 1 .. Len(s)
           /\ DOMAIN (q \o s) \subseteq Nat
  BY SMTT(90)

\* Operations of the user are put behind.
LEMMA QueueConcat ==
    ASSUME NEW q, QueueOk(q), NEW s \in Seq(Op)
    PROVE  QueueOk(q \o s) /\ (Has(q \o s, Task) <=> Has(q, Task))
  <1>1. s \in Seq(Operation) /\ q \in Seq(Operation)
    BY SMTT(90) DEF Operation, QueueOk
  <1>2. /\ q \o s \in Seq(Operation)
        /\ \A k \in DOMAIN q : k \in DOMAIN (q \o s) /\ (q \o s)[k] = q[k]
        /\ \A k \in DOMAIN (q \o s) : k \in DOMAIN q \/ (k > Len(q) /\ k - Len(q) \in DOMAIN s
                                                          /\ (q \o s)[k] = s[k - Len(q)])
    BY ZenonT(60), <1>1, ConcatElements
  <1>3. \A k \in DOMAIN s : s[k] # Task /\ s[k] # Desc
    BY SMTT(90), OpsDistinct
  <1>4. \A k \in DOMAIN (q \o s) : (q \o s)[k] \in {Task, Desc} => k \in DOMAIN q /\ (q \o s)[k] = q[k]
    BY ZenonT(60), <1>2, <1>3
  <1>5. TaskOnce(q \o s)
    BY ZenonT(60), <1>4 DEF QueueOk, TaskOnce
  <1>6. InFront(q \o s)
    BY ZenonT(60), <1>2, <1>4 DEF QueueOk, InFront
  <1>7. Has(q \o s, Task) <=> Has(q, Task)
    BY ZenonT(60), <1>2, <1>4 DEF Has
  <1> QED BY ZenonT(60), <1>2, <1>5, <1>6, <1>7 DEF QueueOk

\* The task is put behind a queue without it.
LEMMA QueueTask ==
    ASSUME NEW q \in Seq(Operation), ~Has(q, Task)
    PROVE  QueueOk(Append(q, Task)) /\ Append(q, Task) # <<>>
  <1>1. /\ Append(q, Task) \in Seq(Operation) /\ Append(q, Task) # <<>>
        /\ Len(q) \in Nat /\ DOMAIN Append(q, Task) = 1 .. (Len(q) + 1) /\ DOMAIN q = 1 .. Len(q)
        /\ Append(q, Task)[Len(q) + 1] = Task
        /\ \A k \in DOMAIN q : Append(q, Task)[k] = q[k]
    BY SMTT(90) DEF Operation
  <1>2. \A k \in DOMAIN Append(q, Task) : Append(q, Task)[k] = Task => k = Len(q) + 1
    BY SMTT(90), <1>1 DEF Has
  <1>3. TaskOnce(Append(q, Task))
    BY ZenonT(60), <1>2 DEF TaskOnce
  <1>4. InFront(Append(q, Task))
    <2> SUFFICES ASSUME NEW j \in DOMAIN Append(q, Task), Append(q, Task)[j] = Desc
                 PROVE  \E k \in DOMAIN Append(q, Task) : j < k /\ Append(q, Task)[k] = Task
      BY ZenonT(60) DEF InFront
    <2>1. j # Len(q) + 1
      BY ZenonT(60), <1>1, OpAssumption
    <2>2. j < Len(q) + 1 /\ Len(q) + 1 \in DOMAIN Append(q, Task)
      BY SMTT(90), <1>1, <2>1
    <2> QED BY ZenonT(60), <1>1, <2>2
  <1> QED BY ZenonT(60), <1>1, <1>3, <1>4 DEF QueueOk

-----------------------------------------------------------------------------
(* The steps that look at the queue.                                       *)

\* Thread t holds mutex_ and goes on with queue q and flag ti.
Ready(t, q, ti) ==
    /\ t \in Runner /\ t \in Thread /\ pc[t] # "out"
    /\ QueueOk(q) /\ (Has(q, Task) => task)
    /\ \A u \in Runner : u # t /\ InReactor(u) => ~Has(q, Task)
    /\ ti \in BOOLEAN
    /\ \A u \in Runner : u # t /\ pc[u] = "block" /\ ti => armed
    /\ private_work[t] = 0 /\ current[t] \notin Op
    /\ private_queue' \in [Thread -> Seq(Op \cup {Desc})]
    /\ private_queue'[t] = <<>>
    /\ \A u \in Thread : u # t => private_queue'[u] = private_queue[u]
    /\ UNCHANGED lookVars

\* What t leaves behind: its place p, queue q2 from q, and its operation.
Looked(t, q, p) ==
    /\ Goes(t, p) /\ p \in PcValue
    /\ QueueOk(op_queue') /\ (Has(op_queue', Task) => Has(q, Task))
    /\ p \in {"peek", "block", "returned"} => Has(q, Task) /\ ~Has(op_queue', Task)
    /\ task_interrupted' \in BOOLEAN /\ event' \in BOOLEAN /\ armed' \in BOOLEAN
    /\ current' \in [Thread -> Op \cup {Desc, None}]
    /\ \A u \in Thread : u # t => current'[u] = current[u]
    /\ p = "handler" <=> current'[t] \in Op
    /\ p \in {"timed", "timed_woken"} => mode[t] = "wait_one"
    /\ call' \in [Thread -> {"idle", "push", "signal"}]
    /\ \A u \in Thread : u # t => call'[u] = call[u]
    /\ call'[t] = "push" => p = "handler"
    /\ \A u \in Runner : pc'[u] = "block" /\ task_interrupted' => armed'

LEMMA RunnerIsThread == Runner \subseteq Thread
  BY ZenonT(60) DEF Thread

LEMMA LookType ==
    ASSUME SchedulerInv, NEW t, NEW q, NEW ti, NEW p, Ready(t, q, ti), Looked(t, q, p)
    PROVE  TypeOK'
  <1>1. TypeOK /\ t \in Thread
    BY ZenonT(60) DEF SchedulerInv, Ready
  <1>2. pc' \in [Thread -> PcValue]
    BY ZenonT(60), <1>1 DEF TypeOK, Looked, Goes, PcValue
  <1>3. /\ op_queue' \in Seq(Operation) /\ current' \in [Thread -> Op \cup {Desc, None}]
        /\ call' \in [Thread -> {"idle", "push", "signal"}]
        /\ task_interrupted' \in BOOLEAN /\ event' \in BOOLEAN /\ armed' \in BOOLEAN
    BY ZenonT(60) DEF Looked, QueueOk
  <1>4. /\ UNCHANGED <<one_thread, stopped, outstanding_work, task, io, mode, private_work,
                       arg, given, done>>
        /\ private_queue' \in [Thread -> Seq(Op \cup {Desc})]
    BY ZenonT(60) DEF Ready, lookVars, historyVars
  <1> QED BY ZenonT(60), <1>1, <1>2, <1>3, <1>4 DEF TypeOK, PcValue

LEMMA LookPlaces ==
    ASSUME SchedulerInv, NEW t, NEW q, NEW ti, NEW p, Ready(t, q, ti), Looked(t, q, p)
    PROVE  /\ pc'[t] = p
           /\ \A u \in Thread : u # t => pc'[u] = pc[u]
  BY ZenonT(60) DEF SchedulerInv, TypeOK, Ready, Looked, Goes

LEMMA LookTask ==
    ASSUME SchedulerInv, NEW t, NEW q, NEW ti, NEW p, Ready(t, q, ti), Looked(t, q, p)
    PROVE  TaskPlaced'
  <1>1. pc'[t] = p /\ (\A u \in Runner : u # t => pc'[u] = pc[u])
    BY ZenonT(60), LookPlaces, RunnerIsThread
  <1>2. TaskOnce(op_queue') /\ InFront(op_queue')
    BY ZenonT(60) DEF Looked, QueueOk
  <1>3. \A u \in Runner : u # t /\ InReactor(u)' => InReactor(u) /\ ~Has(q, Task)
    BY ZenonT(60), <1>1 DEF InReactor, Ready
  <1>4. InReactor(t)' => Has(q, Task) /\ ~Has(op_queue', Task)
    BY ZenonT(60), <1>1 DEF InReactor, Looked
  <1>5. task' = task /\ (Has(q, Task) => task) /\ (Has(op_queue', Task) => Has(q, Task))
    BY ZenonT(60) DEF Ready, Looked, lookVars
  <1>6. \A u, v \in Runner : InReactor(u) /\ InReactor(v) => u = v
    BY ZenonT(60) DEF SchedulerInv, TaskPlaced
  <1>7. \A u \in Runner : InReactor(u) => task
    BY ZenonT(60) DEF SchedulerInv, TaskPlaced
  <1>8. \A u, v \in Runner : InReactor(u)' /\ InReactor(v)' => u = v
    BY ZenonT(60), <1>3, <1>4, <1>6
  <1>9. \A u \in Runner : InReactor(u)' => task' /\ ~Has(op_queue', Task)
    BY ZenonT(60), <1>3, <1>4, <1>5, <1>7
  <1> QED BY ZenonT(60), <1>2, <1>5, <1>8, <1>9 DEF TaskPlaced, TaskOnce, InFront, Has

LEMMA EmptyHasNothing == ASSUME NEW o PROVE ~Has(<<>>, o)
  BY SMTT(90) DEF Has

LEMMA LookPrivate ==
    ASSUME SchedulerInv, NEW t, NEW q, NEW ti, NEW p, Ready(t, q, ti), Looked(t, q, p)
    PROVE  PrivatePlaced'
  <1> SUFFICES ASSUME NEW u \in Thread
               PROVE  /\ u \in Poster => pc'[u] = "out"
                      /\ pc'[u] \notin {"returned", "descriptor", "handler", "cleanup", "stop", "publish"}
                           => private_queue'[u] = <<>>
                      /\ pc'[u] # "returned" => ~Has(private_queue'[u], Desc)
                      /\ pc'[u] \notin {"handler", "cleanup"} => private_work'[u] = 0
                      /\ pc'[u] = "handler" <=> current'[u] \in Op
                      /\ pc'[u] \in {"timed", "timed_woken"} => mode'[u] = "wait_one"
                      /\ call'[u] = "push" => pc'[u] \in {"out", "handler"}
    BY ZenonT(60) DEF PrivatePlaced, Has
  <1>1. pc'[t] = p /\ (u # t => pc'[u] = pc[u])
    BY ZenonT(60), LookPlaces
  <1>2. CASE u = t
    <2>1. t \notin Poster
      BY ZenonT(60), ThreadAssumption DEF Ready
    <2>2. private_queue'[t] = <<>> /\ ~Has(private_queue'[t], Desc)
      BY ZenonT(60), EmptyHasNothing DEF Ready
    <2>3. private_work'[t] = 0 /\ mode'[t] = mode[t]
      BY ZenonT(60) DEF Ready, lookVars
    <2> QED BY ZenonT(60), <1>1, <1>2, <2>1, <2>2, <2>3 DEF Looked
  <1>3. CASE u # t
    <2>1. pc'[u] = pc[u] /\ private_queue'[u] = private_queue[u] /\ private_work'[u] = private_work[u]
          /\ current'[u] = current[u] /\ mode'[u] = mode[u] /\ call'[u] = call[u]
      BY ZenonT(60), <1>1, <1>3 DEF Ready, Looked, lookVars
    <2> QED BY ZenonT(60), <2>1 DEF SchedulerInv, PrivatePlaced
  <1> QED BY ZenonT(60), <1>2, <1>3

LEMMA LookOne ==
    ASSUME SchedulerInv, NEW t, NEW q, NEW ti, NEW p, Ready(t, q, ti), Looked(t, q, p)
    PROVE  OneRuns' /\ InterruptKnown'
  <1>1. pc[t] # "out" /\ t \in Runner /\ one_thread' = one_thread
    BY ZenonT(60) DEF Ready, lookVars
  <1>2. \A u \in Runner : pc'[u] # "out" => pc[u] # "out"
    BY ZenonT(60), <1>1, LookPlaces, RunnerIsThread
  <1>3. OneRuns'
    BY ZenonT(60), <1>1, <1>2 DEF SchedulerInv, OneRuns
  <1>4. InterruptKnown'
    BY ZenonT(60) DEF Looked, InterruptKnown
  <1> QED BY ZenonT(60), <1>3, <1>4

\* After a look with a place that is not asleep and leaves the queue empty or
\* seen, nobody misses work.
LEMMA LookRest ==
    ASSUME SchedulerInv, NEW t, NEW q, NEW ti, NEW p, Ready(t, q, ti), Looked(t, q, p),
           EventSet', WorkIsSeen', StopWakesAll'
    PROVE  SchedulerInv'
  BY ZenonT(60), LookType, LookTask, LookPrivate, LookOne DEF SchedulerInv

\* t leaves: it is outside.
LEMMA LeaveInv ==
    ASSUME SchedulerInv, NEW t, NEW q, NEW ti, Ready(t, q, ti), Leave(t, q, ti)
    PROVE  SchedulerInv'
  <1>1. Looked(t, q, "out")
    <2>1. \A u \in Runner : pc'[u] = "block" => u # t /\ pc[u] = "block"
      BY ZenonT(60), RunnerIsThread DEF SchedulerInv, TypeOK, Ready, Leave, Goes
    <2> QED BY ZenonT(60), <2>1 DEF Ready, Leave, Looked, PcValue, SchedulerInv, TypeOK, PrivatePlaced
  <1>2. pc'[t] = "out" /\ t \in Runner /\ \A u \in Runner : u # t => pc'[u] = pc[u]
    BY ZenonT(60), <1>1, LookPlaces, RunnerIsThread DEF Ready
  <1>3. EventSet'
    BY ZenonT(60), <1>2 DEF EventSet
  <1>4. WorkIsSeen'
    BY ZenonT(60), <1>2 DEF WorkIsSeen, Awake
  <1>5. StopWakesAll'
    <2>1. event' = event /\ armed' = armed /\ stopped' = stopped
      BY ZenonT(60) DEF Leave, Ready, lookVars
    <2>2. \A u \in Runner : u # t => (Asleep(u)' <=> Asleep(u))
      BY ZenonT(60), <1>2, <2>1 DEF Asleep, Awake
    <2>3. ~Asleep(t)'
      BY ZenonT(60), <1>2 DEF Asleep
    <2> QED BY ZenonT(60), <2>1, <2>2, <2>3 DEF SchedulerInv, StopWakesAll
  <1> QED BY ZenonT(60), <1>1, <1>3, <1>4, <1>5, LookRest

LEMMA EmptyQueueOk == QueueOk(<<>>) /\ ~Has(<<>>, Task)
  BY SMTT(90) DEF QueueOk, TaskOnce, InFront, Has

\* t sleeps, because the queue is empty.
LEMMA SleepInv ==
    ASSUME SchedulerInv, NEW t, NEW q, NEW ti, Ready(t, q, ti), ~stopped,
           NEW p \in {"wait", "timed"}, p = "timed" => mode[t] = "wait_one", Sleep(t, ti, p)
    PROVE  SchedulerInv'
  <1>1. Looked(t, q, p)
    <2>1. \A u \in Runner : pc'[u] = "block" => u # t /\ pc[u] = "block"
      BY ZenonT(60), RunnerIsThread DEF SchedulerInv, TypeOK, Ready, Sleep, Goes
    <2>2. p \in PcValue /\ p # "handler" /\ p \notin {"peek", "block", "returned"}
      BY ZenonT(60) DEF PcValue
    <2>3. p # "out" /\ (call[t] = "push" => pc[t] \in {"out", "handler"}) /\ pc[t] # "handler"
      BY ZenonT(60) DEF Ready, SchedulerInv, PrivatePlaced
    <2> QED BY ZenonT(60), <2>1, <2>2, <2>3, EmptyQueueOk DEF Ready, Sleep, Looked, SchedulerInv, TypeOK
  <1>2. op_queue' = <<>> /\ stopped' = stopped
    BY ZenonT(60) DEF Sleep, Ready, lookVars
  <1>3. EventSet' /\ WorkIsSeen' /\ StopWakesAll'
    BY ZenonT(60), <1>2 DEF EventSet, WorkIsSeen, StopWakesAll
  <1> QED BY ZenonT(60), <1>1, <1>3, LookRest

LEMMA SignalOneFacts ==
    ASSUME SchedulerInv, NEW t \in Thread, SignalOne(t)
    PROVE  /\ event' = TRUE
           /\ call' \in [Thread -> {"idle", "push", "signal"}]
           /\ call'[t] = (IF Waiters(t) = {} THEN "idle" ELSE "signal")
           /\ \A u \in Thread : u # t => call'[u] = call[u]
  BY ZenonT(60) DEF SchedulerInv, TypeOK, SignalOne

\* t takes the task.
LEMMA TakeTaskInv ==
    ASSUME SchedulerInv, NEW t, NEW q, NEW ti, Ready(t, q, ti), q # <<>>,
           NEW waited \in BOOLEAN, TakeTask(t, q, ti, waited), stopped => mode[t] = "wait_one"
    PROVE  SchedulerInv'
  <1> DEFINE more == Tail(q) # <<>>
             p == IF ~more /\ mode[t] \in {"run", "run_one"} THEN "block" ELSE "peek"
  <1>1. /\ Head(q) = Task /\ op_queue' = Tail(q) /\ Goes(t, p) /\ armed' = armed /\ current' = current
        /\ task_interrupted' \in BOOLEAN
        /\ p = "block" => task_interrupted' = FALSE
    <2>1. Head(q) = Task /\ op_queue' = Tail(q) /\ Goes(t, p) /\ armed' = armed /\ current' = current
      BY ZenonT(60) DEF TakeTask
    <2>2. task_interrupted' = IF mode[t] \in {"run", "run_one"} THEN more
                               ELSE IF mode[t] = "wait_one" THEN more \/ waited ELSE ti
      BY ZenonT(60) DEF TakeTask
    <2>3. ti \in BOOLEAN
      BY ZenonT(60) DEF Ready
    <2>4. task_interrupted' \in BOOLEAN
      <3>1. more \in BOOLEAN /\ (more \/ waited) \in BOOLEAN
        BY ZenonT(60)
      <3> HIDE DEF more
      <3> QED BY ZenonT(60), <2>2, <2>3, <3>1
    <2>5. p = "block" => task_interrupted' = FALSE
      BY ZenonT(60), <2>2
    <2> QED BY ZenonT(60), <2>1, <2>4, <2>5
  <1> HIDE DEF p
  <1>2. p \in {"block", "peek"} /\ (p = "block" => Tail(q) = <<>> /\ mode[t] \in {"run", "run_one"})
    BY ZenonT(60) DEF p
  <1>3. t \in Thread /\ t \in Runner /\ QueueOk(q) /\ event \in BOOLEAN
    BY ZenonT(60) DEF Ready, SchedulerInv, TypeOK
  <1>4. /\ event' \in BOOLEAN /\ (event => event')
        /\ call' \in [Thread -> {"idle", "push", "signal"}]
        /\ call'[t] # "push"
        /\ \A u \in Thread : u # t => call'[u] = call[u]
    <2>1. CASE SignalOne(t)
      BY ZenonT(60), <1>3, <2>1, SignalOneFacts
    <2>2. CASE UNCHANGED <<event, call>>
      <3>1. call[t] # "push"
        BY ZenonT(60), <1>3 DEF Ready, SchedulerInv, PrivatePlaced
      <3> QED BY ZenonT(60), <1>3, <2>2, <3>1 DEF SchedulerInv, TypeOK
    <2> QED BY ZenonT(60), <2>1, <2>2 DEF TakeTask
  <1>5. QueueOk(Tail(q)) /\ ~Has(Tail(q), Task) /\ Has(q, Task)
    <2>1. Has(q, Task)
      BY SMTT(90), <1>1, <1>3 DEF Has, QueueOk
    <2> QED BY ZenonT(60), <1>1, <1>3, <2>1, QueueTail
  <1>6. pc'[t] = p /\ \A u \in Thread : u # t => pc'[u] = pc[u]
    BY ZenonT(60), <1>1, <1>3 DEF Goes, SchedulerInv, TypeOK
  <1>7. \A u \in Runner : pc'[u] = "block" /\ task_interrupted' => armed'
    <2>1. \A u \in Runner : u # t => pc'[u] # "block"
      BY ZenonT(60), <1>5, <1>6, RunnerIsThread DEF Ready, InReactor
    <2>2. pc'[t] = "block" => ~task_interrupted'
      BY ZenonT(60), <1>1, <1>6
    <2> QED BY ZenonT(60), <2>1, <2>2
  <1>8. Looked(t, q, p)
    <2>1. p \in PcValue /\ p # "handler" /\ p \notin {"timed", "timed_woken"}
      BY ZenonT(60), <1>2 DEF PcValue
    <2>2. current \in [Thread -> Op \cup {Desc, None}] /\ current[t] \notin Op /\ armed \in BOOLEAN
      BY ZenonT(60) DEF SchedulerInv, TypeOK, Ready
    <2> QED BY ZenonT(60), <1>1, <1>4, <1>5, <1>7, <2>1, <2>2 DEF Looked
  <1>9. EventSet' /\ WorkIsSeen'
    <2>1. op_queue' # <<>> => pc'[t] = "peek"
      BY ZenonT(60), <1>1, <1>2, <1>6
    <2> QED BY ZenonT(60), <1>3, <2>1 DEF EventSet, WorkIsSeen, Awake
  <1>10. StopWakesAll'
    <2>1. stopped' = stopped /\ (stopped => p = "peek")
      BY ZenonT(60), <1>2 DEF Ready, lookVars
    <2>2. \A u \in Runner : u # t /\ Asleep(u)' => Asleep(u)
      BY ZenonT(60), <1>1, <1>4, <1>6, RunnerIsThread DEF Asleep, Awake
    <2>3. stopped => ~Asleep(t)'
      BY ZenonT(60), <1>6, <2>1 DEF Asleep
    <2> QED BY ZenonT(60), <2>1, <2>2, <2>3 DEF SchedulerInv, StopWakesAll
  <1> QED BY ZenonT(60), <1>8, <1>9, <1>10, LookRest

\* What wake_one_thread_and_unlock establishes, for a thread t that does not wait.
LEMMA WakeOneFacts ==
    ASSUME SchedulerInv, NEW t \in Thread, NEW ti \in BOOLEAN, WakeOne(t, ti),
           \A u \in Runner : u # t => pc'[u] = pc[u],
           pc'[t] \in {"handler", "descriptor", "out"},
           \A u \in Runner : u # t /\ InReactor(u) => task,
           \A u \in Runner : u # t /\ pc[u] = "block" /\ ti => armed
    PROVE  /\ event' = TRUE /\ (armed => armed') /\ task_interrupted' \in BOOLEAN /\ armed' \in BOOLEAN
           /\ call' \in [Thread -> {"idle", "push", "signal"}] /\ call'[t] # "push"
           /\ \A u \in Thread : u # t => call'[u] = call[u]
           /\ \A u \in Runner : pc'[u] = "block" /\ task_interrupted' => armed'
           /\ (\E u \in Runner : Asleep(u)') => SignalComes' \/ \E u \in Runner : Awake(u)'
  <1>1. /\ event' = TRUE /\ call' \in [Thread -> {"idle", "push", "signal"}]
        /\ call'[t] = (IF Waiters(t) = {} THEN "idle" ELSE "signal")
        /\ \A u \in Thread : u # t => call'[u] = call[u]
    BY ZenonT(60), SignalOneFacts DEF WakeOne
  <1>2. armed \in BOOLEAN /\ task \in BOOLEAN
    BY ZenonT(60) DEF SchedulerInv, TypeOK
  <1>3. CASE Waiters(t) = {}
    <2>1. task_interrupted' = (ti \/ task) /\ armed' = (armed \/ (~ti /\ task))
      BY ZenonT(60), <1>3 DEF WakeOne, Interrupt
    <2>2. task_interrupted' \in BOOLEAN /\ armed' \in BOOLEAN /\ (armed => armed')
      BY ZenonT(60), <1>2, <2>1
    <2>3. \A u \in Runner : pc'[u] = "block" => armed'
      <3>1. \A u \in Runner : pc'[u] = "block" => u # t /\ pc[u] = "block" /\ task
        BY ZenonT(60) DEF InReactor
      <3> QED BY ZenonT(60), <1>2, <2>1, <3>1
    <2>4. \A u \in Runner : u # t => pc'[u] \notin {"wait", "woken"}
      BY ZenonT(60), <1>3 DEF Waiters
    <2>5. \A u \in Runner : ~Asleep(u)'
      BY ZenonT(60), <2>3, <2>4 DEF Asleep, Awake
    <2> QED BY ZenonT(60), <1>1, <1>3, <2>2, <2>3, <2>5
  <1>4. CASE Waiters(t) # {}
    <2>1. task_interrupted' = ti /\ armed' = armed
      BY ZenonT(60), <1>4 DEF WakeOne
    <2>2. PICK w \in Runner : w # t /\ pc[w] \in {"wait", "woken", "timed", "timed_woken"}
      BY ZenonT(60), <1>4 DEF Waiters
    <2>3. pc'[w] = pc[w] /\ call'[t] = "signal"
      BY ZenonT(60), <1>1, <1>4, <2>2
    <2>4. SignalComes' \/ \E u \in Runner : Awake(u)'
      <3>1. CASE pc'[w] \in {"wait", "timed"}
        BY ZenonT(60), <2>3, <3>1 DEF SignalComes
      <3>2. CASE pc'[w] \in {"woken", "timed_woken"}
        BY ZenonT(60), <1>1, <3>2 DEF Awake
      <3> QED BY ZenonT(60), <2>2, <2>3, <3>1, <3>2
    <2>5. \A u \in Runner : pc'[u] = "block" /\ ti => armed
      BY ZenonT(60)
    <2> QED BY ZenonT(60), <1>1, <1>2, <1>4, <2>1, <2>3, <2>4, <2>5
  <1> QED BY ZenonT(60), <1>3, <1>4

\* t takes an operation.
LEMMA TakeOpInv ==
    ASSUME SchedulerInv, NEW t, NEW q, NEW ti, Ready(t, q, ti), q # <<>>, TakeOp(t, q, ti)
    PROVE  SchedulerInv'
  <1> DEFINE p == IF Head(q) = Desc THEN "descriptor" ELSE "handler"
  <1>1. /\ Head(q) # Task /\ op_queue' = Tail(q) /\ Goes(t, p)
        /\ current' = [current EXCEPT ![t] = Head(q)]
    BY ZenonT(60) DEF TakeOp
  <1> HIDE DEF p
  <1>2. t \in Thread /\ t \in Runner /\ QueueOk(q) /\ ti \in BOOLEAN /\ pc[t] # "out"
    BY ZenonT(60) DEF Ready
  <1>3. Head(q) \in Op \cup {Desc} /\ QueueOk(Tail(q)) /\ (Has(Tail(q), Task) => Has(q, Task))
    BY ZenonT(60), <1>1, <1>2, QueueTail DEF Operation
  <1>4. p \in {"descriptor", "handler"} /\ (p = "handler" <=> Head(q) \in Op)
    BY ZenonT(60), <1>3, OpsDistinct DEF p
  <1>5. pc'[t] = p /\ \A u \in Thread : u # t => pc'[u] = pc[u]
    BY ZenonT(60), <1>1, <1>2 DEF Goes, SchedulerInv, TypeOK
  <1>6. /\ current' \in [Thread -> Op \cup {Desc, None}] /\ current'[t] = Head(q)
        /\ \A u \in Thread : u # t => current'[u] = current[u]
    BY ZenonT(60), <1>1, <1>2, <1>3 DEF SchedulerInv, TypeOK
  <1>7. \A u \in Runner : u # t => pc'[u] = pc[u]
    BY ZenonT(60), <1>5, RunnerIsThread
  <1>8. \A u \in Runner : u # t /\ InReactor(u) => task
    BY ZenonT(60) DEF SchedulerInv, TaskPlaced
  <1>9. \A u \in Runner : u # t /\ pc[u] = "block" /\ ti => armed
    BY ZenonT(60) DEF Ready
  <1>10. stopped' = stopped /\ one_thread' = one_thread
    BY ZenonT(60) DEF Ready, lookVars
  <1>11. CASE Tail(q) # <<>> /\ ~one_thread
    <2>1. WakeOne(t, ti)
      BY ZenonT(60), <1>11 DEF TakeOp
    <2>2. /\ event' = TRUE /\ (armed => armed') /\ task_interrupted' \in BOOLEAN /\ armed' \in BOOLEAN
          /\ call' \in [Thread -> {"idle", "push", "signal"}] /\ call'[t] # "push"
          /\ \A u \in Thread : u # t => call'[u] = call[u]
          /\ \A u \in Runner : pc'[u] = "block" /\ task_interrupted' => armed'
          /\ (\E u \in Runner : Asleep(u)') => SignalComes' \/ \E u \in Runner : Awake(u)'
      <3>1. pc'[t] \in {"handler", "descriptor", "out"} /\ pc'[t] # "out"
        BY ZenonT(60), <1>4, <1>5
      <3> QED BY ZenonT(60), <1>2, <1>7, <1>8, <1>9, <2>1, <3>1, WakeOneFacts
    <2>3. Looked(t, q, p)
      <3>1. p \in PcValue /\ p \notin {"peek", "block", "returned", "timed", "timed_woken"}
        BY ZenonT(60), <1>4 DEF PcValue
      <3>2. event' \in BOOLEAN
        BY ZenonT(60), <2>2
      <3> QED BY ZenonT(60), <1>1, <1>3, <1>4, <1>6, <2>2, <3>1, <3>2 DEF Looked
    <2>4. EventSet' /\ WorkIsSeen'
      BY ZenonT(60), <2>2 DEF EventSet, WorkIsSeen
    <2>5. StopWakesAll'
      <3>1. \A u \in Runner : u # t /\ Asleep(u)' => Asleep(u)
        BY ZenonT(60), <1>7, <2>2 DEF Asleep, Awake
      <3>2. ~Asleep(t)'
        BY ZenonT(60), <1>4, <1>5 DEF Asleep
      <3> QED BY ZenonT(60), <1>10, <3>1, <3>2 DEF SchedulerInv, StopWakesAll
    <2> QED BY ZenonT(60), <2>3, <2>4, <2>5, LookRest
  <1>12. CASE ~(Tail(q) # <<>> /\ ~one_thread)
    <2>1. task_interrupted' = ti /\ UNCHANGED <<event, armed, call>>
      BY ZenonT(60), <1>12 DEF TakeOp
    <2>2. Looked(t, q, p)
      <3>1. p \in PcValue /\ p \notin {"peek", "block", "returned", "timed", "timed_woken"}
        BY ZenonT(60), <1>4 DEF PcValue
      <3>2. event \in BOOLEAN /\ armed \in BOOLEAN /\ call \in [Thread -> {"idle", "push", "signal"}]
        BY ZenonT(60) DEF SchedulerInv, TypeOK
      <3>3. call[t] # "push"
        BY ZenonT(60), <1>2 DEF Ready, SchedulerInv, PrivatePlaced
      <3>4. \A u \in Runner : pc'[u] = "block" /\ task_interrupted' => armed'
        BY ZenonT(60), <1>4, <1>5, <1>7, <1>9, <2>1
      <3> QED BY ZenonT(60), <1>1, <1>2, <1>3, <1>4, <1>6, <2>1, <3>1, <3>2, <3>3, <3>4 DEF Looked
    <2>3. one_thread => \A u \in Runner : u # t => pc'[u] = "out"
      BY ZenonT(60), <1>2, <1>7 DEF SchedulerInv, OneRuns
    <2>4. op_queue' # <<>> => \A u \in Runner : pc'[u] \in {"out", "handler", "descriptor"}
      BY ZenonT(60), <1>1, <1>4, <1>5, <1>12, <2>3
    <2>5. EventSet' /\ WorkIsSeen'
      BY ZenonT(60), <2>4 DEF EventSet, WorkIsSeen, Asleep
    <2>6. StopWakesAll'
      <3>1. \A u \in Runner : u # t /\ Asleep(u)' => Asleep(u)
        BY ZenonT(60), <1>7, <2>1 DEF Asleep, Awake
      <3>2. ~Asleep(t)'
        BY ZenonT(60), <1>4, <1>5 DEF Asleep
      <3> QED BY ZenonT(60), <1>10, <3>1, <3>2 DEF SchedulerInv, StopWakesAll
    <2> QED BY ZenonT(60), <2>2, <2>5, <2>6, LookRest
  <1> QED BY ZenonT(60), <1>11, <1>12

\* do_poll_one and do_wait_one find only the task after the task.
LEMMA AgainInv ==
    ASSUME SchedulerInv, NEW t, NEW q, NEW ti, Ready(t, q, ti), q # <<>>, LookAgain(t, q, ti)
    PROVE  SchedulerInv'
  <1>1. CASE TakeOp(t, q, ti)
    BY ZenonT(60), <1>1, TakeOpInv
  <1>2. CASE ~TakeOp(t, q, ti)
    <2>1. op_queue' = q /\ task_interrupted' = ti /\ Goes(t, "out") /\ UNCHANGED <<armed, current>>
      BY ZenonT(60), <1>2 DEF LookAgain
    <2>2. t \in Thread /\ t \in Runner /\ event \in BOOLEAN /\ armed \in BOOLEAN
      BY ZenonT(60) DEF Ready, SchedulerInv, TypeOK
    <2>3. /\ event' \in BOOLEAN /\ (event => event')
          /\ call' \in [Thread -> {"idle", "push", "signal"}]
          /\ call'[t] # "push"
          /\ \A u \in Thread : u # t => call'[u] = call[u]
      <3>1. CASE SignalOne(t)
        BY ZenonT(60), <2>2, <3>1, SignalOneFacts
      <3>2. CASE UNCHANGED <<event, call>>
        <4>1. call[t] # "push"
          BY ZenonT(60), <2>2 DEF Ready, SchedulerInv, PrivatePlaced
        <4> QED BY ZenonT(60), <2>2, <3>2, <4>1 DEF SchedulerInv, TypeOK
      <3> QED BY ZenonT(60), <1>2, <3>1, <3>2 DEF LookAgain
    <2>4. pc'[t] = "out" /\ \A u \in Thread : u # t => pc'[u] = pc[u]
      BY ZenonT(60), <2>1, <2>2 DEF Goes, SchedulerInv, TypeOK
    <2>5. Looked(t, q, "out")
      <3>1. \A u \in Runner : pc'[u] = "block" /\ task_interrupted' => armed'
        BY ZenonT(60), <2>1, <2>4, RunnerIsThread DEF Ready
      <3> QED BY ZenonT(60), <2>1, <2>2, <2>3, <3>1 DEF Ready, Looked, PcValue, SchedulerInv, TypeOK
    <2>6. EventSet' /\ WorkIsSeen'
      BY ZenonT(60), <2>2, <2>4 DEF EventSet, WorkIsSeen, Awake
    <2>7. StopWakesAll'
      <3>1. stopped' = stopped
        BY ZenonT(60) DEF Ready, lookVars
      <3>2. \A u \in Runner : u # t /\ Asleep(u)' => Asleep(u)
        BY ZenonT(60), <2>1, <2>3, <2>4, RunnerIsThread DEF Asleep, Awake
      <3>3. ~Asleep(t)'
        BY ZenonT(60), <2>4 DEF Asleep
      <3> QED BY ZenonT(60), <3>1, <3>2, <3>3 DEF SchedulerInv, StopWakesAll
    <2> QED BY ZenonT(60), <2>5, <2>6, <2>7, LookRest
  <1> QED BY ZenonT(60), <1>1, <1>2

\* The loop of do_run_one, and the beginning of the others.
LEMMA LookInv ==
    ASSUME SchedulerInv, NEW t, NEW q, NEW ti, Ready(t, q, ti), Look(t, q, ti)
    PROVE  SchedulerInv'
  <1>1. CASE Leave(t, q, ti)
    BY ZenonT(60), <1>1, LeaveInv
  <1>2. CASE ~stopped /\ q # <<>> /\ TakeTask(t, q, ti, FALSE)
    BY ZenonT(60), <1>2, TakeTaskInv
  <1>3. CASE ~stopped /\ q # <<>> /\ TakeOp(t, q, ti)
    BY ZenonT(60), <1>3, TakeOpInv
  <1>4. CASE ~stopped /\ Sleep(t, ti, "wait")
    BY ZenonT(60), <1>4, SleepInv
  <1>5. CASE ~stopped /\ mode[t] = "wait_one" /\ Sleep(t, ti, "timed")
    BY ZenonT(60), <1>5, SleepInv
  <1> QED BY ZenonT(60), <1>1, <1>2, <1>3, <1>4, <1>5 DEF Look

\* A thread at a place where it keeps nothing is ready with the queue as it is.
LEMMA ReadyNow ==
    ASSUME SchedulerInv, NEW t \in Thread, UNCHANGED <<lookVars, private_queue>>,
           pc[t] \in {"look", "woken", "timed", "timed_woken"}
    PROVE  Ready(t, op_queue, task_interrupted)
  <1>1. t \in Runner
    BY ZenonT(60) DEF SchedulerInv, PrivatePlaced, Thread
  <1>2. private_queue[t] = <<>> /\ private_work[t] = 0 /\ current[t] \notin Op
    BY ZenonT(60) DEF SchedulerInv, PrivatePlaced
  <1>3. QueueOk(op_queue) /\ (Has(op_queue, Task) => task)
    BY ZenonT(60) DEF SchedulerInv, TypeOK, TaskPlaced, QueueOk
  <1>4. \A u \in Runner : InReactor(u) => ~Has(op_queue, Task)
    BY ZenonT(60) DEF SchedulerInv, TaskPlaced
  <1>5. \A u \in Runner : pc[u] = "block" /\ task_interrupted => armed
    BY ZenonT(60) DEF SchedulerInv, InterruptKnown
  <1>6. task_interrupted \in BOOLEAN /\ private_queue' \in [Thread -> Seq(Op \cup {Desc})]
    BY ZenonT(60) DEF SchedulerInv, TypeOK
  <1> QED BY ZenonT(60), <1>1, <1>2, <1>3, <1>4, <1>5, <1>6 DEF Ready, lookVars

LEMMA LookFirstInv == ASSUME SchedulerInv, NEW t \in Thread, LookFirst(t) PROVE SchedulerInv'
  BY ZenonT(60), ReadyNow, LookInv DEF LookFirst

LEMMA TimedWakeUpInv == ASSUME SchedulerInv, NEW t \in Thread, TimedWakeUp(t) PROVE SchedulerInv'
  <1>1. Ready(t, op_queue, task_interrupted)
    BY ZenonT(60), ReadyNow DEF TimedWakeUp
  <1>2. mode[t] = "wait_one"
    BY ZenonT(60) DEF TimedWakeUp, SchedulerInv, PrivatePlaced
  <1>3. CASE Leave(t, op_queue, task_interrupted)
    BY ZenonT(60), <1>1, <1>3, LeaveInv
  <1>4. CASE op_queue # <<>> /\ TakeTask(t, op_queue, task_interrupted, TRUE)
    BY ZenonT(60), <1>1, <1>2, <1>4, TakeTaskInv
  <1>5. CASE op_queue # <<>> /\ TakeOp(t, op_queue, task_interrupted)
    BY ZenonT(60), <1>1, <1>5, TakeOpInv
  <1> QED BY ZenonT(60), <1>3, <1>4, <1>5 DEF TimedWakeUp

LEMMA PublishInv == ASSUME SchedulerInv, NEW t \in Thread, Publish(t) PROVE SchedulerInv'
  <1> DEFINE s == private_queue[t]
             q == op_queue \o s
  <1>1. pc[t] = "publish" /\ private_queue' = [private_queue EXCEPT ![t] = <<>>] /\ UNCHANGED lookVars
    BY ZenonT(60) DEF Publish
  <1>2. t \in Runner
    BY ZenonT(60), <1>1 DEF SchedulerInv, PrivatePlaced, Thread
  <1>3. s \in Seq(Op)
    <2>1. s \in Seq(Op \cup {Desc}) /\ ~Has(s, Desc)
      BY ZenonT(60), <1>1 DEF SchedulerInv, TypeOK, PrivatePlaced
    <2> QED BY SMTT(90), <2>1 DEF Has
  <1>4. QueueOk(op_queue) /\ (Has(op_queue, Task) => task)
    BY ZenonT(60) DEF SchedulerInv, TypeOK, TaskPlaced, QueueOk
  <1>5. QueueOk(q) /\ (Has(q, Task) <=> Has(op_queue, Task))
    BY ZenonT(60), <1>3, <1>4, QueueConcat
  <1>6. \A u \in Runner : InReactor(u) => ~Has(q, Task)
    BY ZenonT(60), <1>5 DEF SchedulerInv, TaskPlaced
  <1>7. \A u \in Runner : pc[u] = "block" /\ task_interrupted => armed
    BY ZenonT(60) DEF SchedulerInv, InterruptKnown
  <1>8. private_work[t] = 0 /\ current[t] \notin Op /\ task_interrupted \in BOOLEAN
    BY ZenonT(60), <1>1 DEF SchedulerInv, PrivatePlaced, TypeOK
  <1>9. /\ private_queue' \in [Thread -> Seq(Op \cup {Desc})] /\ private_queue'[t] = <<>>
        /\ \A u \in Thread : u # t => private_queue'[u] = private_queue[u]
    BY SMTT(90), <1>1 DEF SchedulerInv, TypeOK
  <1>10. Ready(t, q, task_interrupted)
    BY ZenonT(60), <1>1, <1>2, <1>4, <1>5, <1>6, <1>7, <1>8, <1>9 DEF Ready
  <1>11. Look(t, q, task_interrupted) \/ Leave(t, q, task_interrupted)
    BY ZenonT(60) DEF Publish
  <1> HIDE DEF q
  <1> QED BY ZenonT(60), <1>10, <1>11, LookInv, LeaveInv

LEMMA TaskCleanupInv == ASSUME SchedulerInv, NEW t \in Thread, TaskCleanup(t) PROVE SchedulerInv'
  <1> DEFINE s == private_queue[t]
             q == Append(op_queue \o s, Task)
  <1>1. pc[t] = "returned" /\ private_queue' = [private_queue EXCEPT ![t] = <<>>] /\ UNCHANGED lookVars
    BY ZenonT(60) DEF TaskCleanup
  <1>2. t \in Runner /\ InReactor(t)
    BY ZenonT(60), <1>1 DEF SchedulerInv, PrivatePlaced, Thread, InReactor
  <1>3. op_queue \in Seq(Operation) /\ ~Has(op_queue, Task) /\ task
    BY ZenonT(60), <1>2 DEF SchedulerInv, TypeOK, TaskPlaced
  <1>4. op_queue \o s \in Seq(Operation) /\ ~Has(op_queue \o s, Task)
    <2>1. s \in Seq(Op \cup {Desc})
      BY ZenonT(60) DEF SchedulerInv, TypeOK
    <2>2. s \in Seq(Operation) /\ \A k \in DOMAIN s : s[k] # Task
      BY SMTT(90), <2>1, OpsDistinct, OpAssumption DEF Operation
    <2> HIDE DEF s
    <2>3. /\ op_queue \o s \in Seq(Operation)
          /\ \A k \in DOMAIN op_queue : k \in DOMAIN (op_queue \o s) /\ (op_queue \o s)[k] = op_queue[k]
          /\ \A k \in DOMAIN (op_queue \o s) : k \in DOMAIN op_queue
                \/ (k > Len(op_queue) /\ k - Len(op_queue) \in DOMAIN s
                      /\ (op_queue \o s)[k] = s[k - Len(op_queue)])
      BY ZenonT(60), <1>3, <2>2, ConcatElements
    <2> QED BY ZenonT(60), <1>3, <2>2, <2>3 DEF Has
  <1>5. QueueOk(q) /\ q # <<>>
    BY ZenonT(60), <1>4, QueueTask
  <1>6. \A u \in Runner : u # t => ~InReactor(u) /\ pc[u] # "block"
    BY ZenonT(60), <1>2 DEF SchedulerInv, TaskPlaced, InReactor
  <1>7. private_work[t] = 0 /\ current[t] \notin Op
    BY ZenonT(60), <1>1 DEF SchedulerInv, PrivatePlaced
  <1>8. /\ private_queue' \in [Thread -> Seq(Op \cup {Desc})] /\ private_queue'[t] = <<>>
        /\ \A u \in Thread : u # t => private_queue'[u] = private_queue[u]
    BY SMTT(90), <1>1 DEF SchedulerInv, TypeOK
  <1>9. Look(t, q, TRUE) \/ LookAgain(t, q, TRUE)
    BY ZenonT(60) DEF TaskCleanup
  <1> HIDE DEF q
  <1>10. Ready(t, q, TRUE)
    BY ZenonT(60), <1>1, <1>2, <1>3, <1>5, <1>6, <1>7, <1>8 DEF Ready
  <1> QED BY ZenonT(60), <1>5, <1>9, <1>10, LookInv, AgainInv

-----------------------------------------------------------------------------
(* A thread that waits is woken, or waits again.                           *)

LEMMA WakeInv ==
    ASSUME SchedulerInv, NEW w \in Runner, NEW p,
           (pc[w] = "wait" /\ p = "woken") \/ (pc[w] = "timed" /\ p = "timed_woken"),
           Goes(w, p),
           call' \in [Thread -> {"idle", "push", "signal"}],
           \A u \in Thread : call'[u] = "push" => call[u] = "push",
           UNCHANGED <<one_thread, queueVars, stopped, outstanding_work, task, io,
                       mode, current, privateVars, arg, historyVars>>
    PROVE  SchedulerInv'
  <1>1. w \in Thread /\ pc'[w] = p /\ pc' \in [Thread -> PcValue] /\ \A u \in Thread : u # w => pc'[u] = pc[u]
    <2>1. w \in Thread /\ p \in PcValue /\ pc \in [Thread -> PcValue]
      BY ZenonT(60), RunnerIsThread DEF PcValue, SchedulerInv, TypeOK
    <2> QED BY ZenonT(60), <2>1 DEF Goes
  <1>2. \A u \in Runner : u # w => pc'[u] = pc[u]
    BY ZenonT(60), <1>1, RunnerIsThread
  <1>3. UNCHANGED <<op_queue, task_interrupted, event, armed, private_queue, private_work, given, done>>
    BY ZenonT(60) DEF queueVars, privateVars, historyVars
  <1>4. TypeOK'
    BY ZenonT(60), <1>1, <1>3 DEF SchedulerInv, TypeOK
  <1>5. \A u \in Runner : InReactor(u)' <=> InReactor(u)
    BY ZenonT(60), <1>1, <1>2 DEF InReactor
  <1>6. TaskPlaced'
    BY ZenonT(60), <1>3, <1>5 DEF SchedulerInv, TaskPlaced, TaskOnce, InFront, Has
  <1>7. PrivatePlaced'
    <2> SUFFICES ASSUME NEW u \in Thread
                 PROVE  /\ u \in Poster => pc'[u] = "out"
                        /\ pc'[u] \notin {"returned", "descriptor", "handler", "cleanup", "stop", "publish"}
                             => private_queue'[u] = <<>>
                        /\ pc'[u] # "returned" => ~Has(private_queue'[u], Desc)
                        /\ pc'[u] \notin {"handler", "cleanup"} => private_work'[u] = 0
                        /\ pc'[u] = "handler" <=> current'[u] \in Op
                        /\ pc'[u] \in {"timed", "timed_woken"} => mode'[u] = "wait_one"
                        /\ call'[u] = "push" => pc'[u] \in {"out", "handler"}
      BY ZenonT(60) DEF PrivatePlaced, Has
    <2>1. private_queue'[u] = private_queue[u] /\ private_work'[u] = private_work[u]
          /\ current'[u] = current[u] /\ mode'[u] = mode[u] /\ (call'[u] = "push" => call[u] = "push")
      BY ZenonT(60), <1>3
    <2>2. CASE u # w
      BY ZenonT(60), <1>1, <2>1, <2>2 DEF SchedulerInv, PrivatePlaced
    <2>3. CASE u = w
      BY ZenonT(60), <1>1, <2>1, <2>3 DEF SchedulerInv, PrivatePlaced
    <2> QED BY ZenonT(60), <2>2, <2>3
  <1>8. InterruptKnown' /\ OneRuns'
    BY ZenonT(60), <1>1, <1>2, <1>3 DEF SchedulerInv, InterruptKnown, OneRuns
  <1>9. EventSet'
    <2>1. op_queue # <<>> => event \/ \E t \in Runner : t # w /\ pc[t] \in {"out", "look", "stop", "peek", "returned"}
      BY ZenonT(60) DEF SchedulerInv, EventSet
    <2> QED BY ZenonT(60), <1>2, <1>3, <2>1 DEF EventSet
  <1>10. WorkIsSeen'
    <2>1. op_queue # <<>> => event \/ \E t \in Runner : t # w /\ pc[t] \in {"out", "look", "stop", "peek", "returned"}
      BY ZenonT(60) DEF SchedulerInv, EventSet
    <2>2. ASSUME event PROVE Awake(w)'
      BY ZenonT(60), <1>1, <1>3, <2>2 DEF Awake
    <2>3. ASSUME NEW t \in Runner, t # w, pc[t] \in {"out", "look", "stop", "peek", "returned"}
          PROVE  Awake(t)'
      BY ZenonT(60), <1>2, <2>3 DEF Awake
    <2> QED BY ZenonT(60), <1>3, <2>1, <2>2, <2>3 DEF WorkIsSeen
  <1>11. StopWakesAll'
    <2>1. stopped => pc[w] # "wait"
      BY ZenonT(60) DEF SchedulerInv, StopWakesAll, Asleep, Awake
    <2>2. \A u \in Runner : u # w /\ Asleep(u)' => Asleep(u)
      BY ZenonT(60), <1>2, <1>3 DEF Asleep, Awake
    <2>3. p = "timed_woken" => ~Asleep(w)'
      BY ZenonT(60), <1>1 DEF Asleep
    <2> QED BY ZenonT(60), <2>1, <2>2, <2>3 DEF SchedulerInv, StopWakesAll
  <1> QED BY ZenonT(60), <1>4, <1>6, <1>7, <1>8, <1>9, <1>10, <1>11 DEF SchedulerInv

LEMMA SignalInv == ASSUME SchedulerInv, NEW t \in Thread, Signal(t) PROVE SchedulerInv'
  <1>1. call' = [call EXCEPT ![t] = "idle"]
    BY ZenonT(60) DEF Signal
  <1>2. /\ call' \in [Thread -> {"idle", "push", "signal"}]
        /\ \A u \in Thread : call'[u] = "push" => call[u] = "push"
    BY ZenonT(60), <1>1 DEF SchedulerInv, TypeOK
  <1>3. UNCHANGED <<one_thread, queueVars, stopped, outstanding_work, task, io,
                    mode, current, privateVars, arg, historyVars>>
    BY ZenonT(60) DEF Signal
  <1>4. ASSUME NEW u \in Runner, pc[u] \in {"wait", "timed"},
               Goes(u, Woken(pc[u]))
        PROVE  SchedulerInv'
    <2>1. CASE pc[u] = "wait"
      <3>1. Goes(u, "woken")
        BY ZenonT(60), <1>4, <2>1 DEF Woken
      <3> QED BY ZenonT(60), <1>2, <1>3, <2>1, <3>1, WakeInv
    <2>2. CASE pc[u] = "timed"
      <3>1. Goes(u, "timed_woken")
        BY ZenonT(60), <1>4, <2>2 DEF Woken
      <3> QED BY ZenonT(60), <1>2, <1>3, <2>2, <3>1, WakeInv
    <2> QED BY ZenonT(60), <1>4, <2>1, <2>2
  <1>5. ASSUME UNCHANGED pc, \A u \in Runner : pc[u] \notin {"wait", "timed"} PROVE SchedulerInv'
    <2>1. UNCHANGED <<op_queue, task_interrupted, event, armed, private_queue, private_work, given, done>>
      BY ZenonT(60), <1>3 DEF queueVars, privateVars, historyVars
    <2>2. TypeOK'
      BY ZenonT(60), <1>2, <1>3, <1>5, <2>1 DEF SchedulerInv, TypeOK
    <2>3. TaskPlaced' /\ InterruptKnown' /\ OneRuns' /\ EventSet' /\ StopWakesAll'
      BY ZenonT(60), <1>3, <1>5, <2>1 DEF SchedulerInv, TaskPlaced, TaskOnce, InFront, Has, InReactor,
           InterruptKnown, OneRuns, EventSet, StopWakesAll, Asleep, Awake
    <2>4. PrivatePlaced'
      BY ZenonT(60), <1>2, <1>3, <1>5, <2>1 DEF SchedulerInv, PrivatePlaced, Has
    <2>5. ~SignalComes /\ \A u \in Runner : (Awake(u)' <=> Awake(u)) /\ (Asleep(u)' <=> Asleep(u))
      BY ZenonT(60), <1>5, <2>1 DEF SignalComes, Awake, Asleep
    <2>6. WorkIsSeen'
      BY ZenonT(60), <1>3, <2>1, <2>5 DEF SchedulerInv, WorkIsSeen
    <2> QED BY ZenonT(60), <2>2, <2>3, <2>4, <2>6 DEF SchedulerInv
  <1>6. \/ UNCHANGED pc /\ \A u \in Runner : pc[u] \notin {"wait", "timed"}
        \/ \E u \in Runner : pc[u] \in {"wait", "timed"}
                               /\ Goes(u, Woken(pc[u]))
    BY ZenonT(60) DEF Signal
  <1> QED BY ZenonT(60), <1>4, <1>5, <1>6

LEMMA SpuriousInv == ASSUME SchedulerInv, NEW t \in Runner, SpuriousWakeUp(t) PROVE SchedulerInv'
  <1>1. call \in [Thread -> {"idle", "push", "signal"}] /\ UNCHANGED call
    BY ZenonT(60) DEF SpuriousWakeUp, SchedulerInv, TypeOK, callVars
  <1> QED BY ZenonT(60), <1>1, WakeInv DEF SpuriousWakeUp, callVars

-----------------------------------------------------------------------------
(* Steps that leave the queue, the event and the flags as they are.        *)

\* t keeps its place, or goes from a place where it does not sleep to another.
Moves(t) ==
    \/ pc'[t] = pc[t]
    \/ /\ pc[t] \in {"handler", "descriptor", "cleanup"}
       /\ pc'[t] \in {"handler", "cleanup", "stop", "publish", "look", "out"}
    \/ pc[t] = "out" /\ pc'[t] \in {"look", "stop"}

LEMMA QuietInv ==
    ASSUME SchedulerInv, NEW t \in Thread, UNCHANGED <<one_thread, queueVars, stopped, task>>,
           TypeOK', PrivatePlaced', OneRuns', Moves(t),
           \A u \in Thread : u # t => pc'[u] = pc[u],
           \A u \in Thread : call[u] = "signal" => call'[u] = "signal"
    PROVE  SchedulerInv'
  <1>1. UNCHANGED <<op_queue, task_interrupted, event, armed>>
    BY ZenonT(60) DEF queueVars
  <1>2. \A u \in Runner : u # t => pc'[u] = pc[u]
    BY ZenonT(60), RunnerIsThread
  <1>3. \A u \in Runner : /\ pc'[u] \in {"wait", "woken", "timed", "timed_woken", "peek", "block", "returned"}
                               <=> pc[u] \in {"wait", "woken", "timed", "timed_woken", "peek", "block", "returned"}
                          /\ pc[u] \in {"wait", "woken", "timed", "timed_woken", "peek", "block", "returned"}
                               => pc'[u] = pc[u]
    BY ZenonT(60), <1>2 DEF Moves
  <1>4. \A u \in Runner : (InReactor(u)' <=> InReactor(u)) /\ (pc'[u] = "block" <=> pc[u] = "block")
    BY ZenonT(60), <1>3 DEF InReactor
  <1>5. TaskPlaced' /\ InterruptKnown'
    BY ZenonT(60), <1>1, <1>4 DEF SchedulerInv, TaskPlaced, TaskOnce, InFront, Has, InterruptKnown
  <1>6. \A u \in Runner : pc[u] \in {"out", "look", "stop", "peek", "returned"}
                            => pc'[u] \in {"out", "look", "stop", "peek", "returned"}
    BY ZenonT(60), <1>2 DEF Moves
  <1>7. EventSet'
    BY ZenonT(60), <1>1, <1>3, <1>6 DEF SchedulerInv, EventSet
  <1>8. \A u \in Runner : (Asleep(u)' => Asleep(u)) /\ (Awake(u) => Awake(u)')
    <2> SUFFICES ASSUME NEW u \in Runner PROVE (Asleep(u)' => Asleep(u)) /\ (Awake(u) => Awake(u)')
      BY ZenonT(60)
    <2>1. Asleep(u)' => Asleep(u)
      BY ZenonT(60), <1>1, <1>3 DEF Asleep, Awake
    <2>2. CASE pc'[u] = pc[u]
      BY ZenonT(60), <1>1, <2>1, <2>2 DEF Awake
    <2>3. CASE pc'[u] # pc[u]
      <3>1. u = t /\ pc[u] \in {"handler", "descriptor", "cleanup", "out"}
        BY ZenonT(60), <1>2, <2>3 DEF Moves
      <3>2. pc[u] = "out" => pc'[u] \in {"look", "stop"}
        BY ZenonT(60), <2>3, <3>1 DEF Moves
      <3> QED BY ZenonT(60), <2>1, <3>1, <3>2 DEF Awake
    <2> QED BY ZenonT(60), <2>2, <2>3
  <1>9. SignalComes => SignalComes'
    BY ZenonT(60), <1>3 DEF SignalComes
  <1>10. WorkIsSeen' /\ StopWakesAll'
    BY ZenonT(60), <1>1, <1>8, <1>9 DEF SchedulerInv, WorkIsSeen, StopWakesAll
  <1> QED BY ZenonT(60), <1>5, <1>7, <1>10 DEF SchedulerInv

\* The other threads keep what they have, so only t is looked at.
LEMMA PrivateOf ==
    ASSUME SchedulerInv, NEW t \in Thread,
           \A u \in Thread : u # t =>
              /\ pc'[u] = pc[u] /\ private_queue'[u] = private_queue[u] /\ private_work'[u] = private_work[u]
              /\ current'[u] = current[u] /\ mode'[u] = mode[u] /\ call'[u] = call[u],
           t \in Poster => pc'[t] = "out",
           pc'[t] \notin {"returned", "descriptor", "handler", "cleanup", "stop", "publish"}
             => private_queue'[t] = <<>>,
           pc'[t] # "returned" => ~Has(private_queue'[t], Desc),
           pc'[t] \notin {"handler", "cleanup"} => private_work'[t] = 0,
           pc'[t] = "handler" <=> current'[t] \in Op,
           pc'[t] \in {"timed", "timed_woken"} => mode'[t] = "wait_one",
           call'[t] = "push" => pc'[t] \in {"out", "handler"}
    PROVE  PrivatePlaced'
  <1> SUFFICES ASSUME NEW u \in Thread
               PROVE  /\ u \in Poster => pc'[u] = "out"
                      /\ pc'[u] \notin {"returned", "descriptor", "handler", "cleanup", "stop", "publish"}
                           => private_queue'[u] = <<>>
                      /\ pc'[u] # "returned" => ~Has(private_queue'[u], Desc)
                      /\ pc'[u] \notin {"handler", "cleanup"} => private_work'[u] = 0
                      /\ pc'[u] = "handler" <=> current'[u] \in Op
                      /\ pc'[u] \in {"timed", "timed_woken"} => mode'[u] = "wait_one"
                      /\ call'[u] = "push" => pc'[u] \in {"out", "handler"}
    BY ZenonT(60) DEF PrivatePlaced, Has
  <1>1. CASE u = t
    BY ZenonT(60), <1>1
  <1>2. CASE u # t
    BY ZenonT(60), <1>2 DEF SchedulerInv, PrivatePlaced
  <1> QED BY ZenonT(60), <1>1, <1>2

LEMMA ExceptFacts ==
    ASSUME NEW S, NEW T, NEW f \in [S -> T], NEW x \in S, NEW v \in T
    PROVE  /\ [f EXCEPT ![x] = v] \in [S -> T] /\ [f EXCEPT ![x] = v][x] = v
           /\ \A y \in S : y # x => [f EXCEPT ![x] = v][y] = f[y]
  BY ZenonT(60)

LEMMA EnterInv == ASSUME SchedulerInv, NEW t \in Runner, Enter(t) PROVE SchedulerInv'
  <1>1. t \in Thread /\ pc[t] = "out" /\ call[t] = "idle"
        /\ UNCHANGED <<one_thread, queueVars, stopped, outstanding_work, task, io,
                       current, privateVars, callVars, historyVars>>
    BY ZenonT(60), RunnerIsThread DEF Enter
  <1>2. UNCHANGED <<op_queue, task_interrupted, event, armed, private_queue, private_work, call, arg, given, done>>
    BY ZenonT(60), <1>1 DEF queueVars, privateVars, callVars, historyVars
  <1>3. PICK p \in {"stop", "look"}, m \in Calls \cup {"leave"} :
           Goes(t, p) /\ mode' = [mode EXCEPT ![t] = m]
    BY ZenonT(60) DEF Enter
  <1>4. /\ pc' \in [Thread -> PcValue] /\ pc'[t] = p /\ \A u \in Thread : u # t => pc'[u] = pc[u]
        /\ mode' \in [Thread -> Calls \cup {"leave"}] /\ \A u \in Thread : u # t => mode'[u] = mode[u]
    <2>1. p \in PcValue
      BY ZenonT(60) DEF PcValue
    <2> QED BY ZenonT(60), <1>1, <1>3, <2>1 DEF Goes, SchedulerInv, TypeOK
  <1>5. TypeOK'
    BY ZenonT(60), <1>1, <1>2, <1>4 DEF SchedulerInv, TypeOK
  <1>6. t \notin Poster
    BY ZenonT(60), ThreadAssumption
  <1>7. /\ private_queue[t] = <<>> /\ private_work[t] = 0 /\ current[t] \notin Op
        /\ ~Has(private_queue[t], Desc)
    BY ZenonT(60), <1>1 DEF SchedulerInv, PrivatePlaced
  <1>8. PrivatePlaced'
    BY ZenonT(60), <1>1, <1>2, <1>4, <1>6, <1>7, PrivateOf
  <1>9. one_thread => \A u \in Runner : u # t => pc'[u] = "out"
    BY ZenonT(60), <1>4, RunnerIsThread DEF Enter
  <1>10. OneRuns'
    BY ZenonT(60), <1>1, <1>9 DEF OneRuns
  <1>11. Moves(t)
    BY ZenonT(60), <1>1, <1>4 DEF Moves
  <1> QED BY ZenonT(60), <1>1, <1>2, <1>4, <1>5, <1>8, <1>10, <1>11, QuietInv

\* Only a thread that runs moves, so still one does.
LEMMA OneKept ==
    ASSUME SchedulerInv, NEW t \in Thread, UNCHANGED one_thread,
           pc'[t] = pc[t] \/ pc[t] # "out", \A u \in Thread : u # t => pc'[u] = pc[u]
    PROVE  OneRuns'
  <1>1. \A u \in Runner : pc'[u] # "out" => pc[u] # "out"
    BY ZenonT(60), RunnerIsThread
  <1> QED BY ZenonT(60), <1>1 DEF SchedulerInv, OneRuns

LEMMA EndHandlerInv == ASSUME SchedulerInv, NEW t \in Runner, EndHandler(t) PROVE SchedulerInv'
  <1>1. t \in Thread /\ pc[t] = "handler" /\ call[t] = "idle" /\ Goes(t, "cleanup")
        /\ current' = [current EXCEPT ![t] = None] /\ done' = done \cup {current[t]}
        /\ UNCHANGED <<one_thread, queueVars, stopped, outstanding_work, task, io,
                       privateVars, callVars, given>>
    BY ZenonT(60), RunnerIsThread DEF EndHandler
  <1>2. UNCHANGED <<op_queue, task_interrupted, event, armed, private_queue, private_work, call, arg>>
    BY ZenonT(60), <1>1 DEF queueVars, privateVars, callVars
  <1>3. mode' = mode \/ mode' = [mode EXCEPT ![t] = "leave"]
    BY ZenonT(60) DEF EndHandler
  <1>4. /\ pc' \in [Thread -> PcValue] /\ pc'[t] = "cleanup" /\ \A u \in Thread : u # t => pc'[u] = pc[u]
        /\ mode' \in [Thread -> Calls \cup {"leave"}] /\ \A u \in Thread : u # t => mode'[u] = mode[u]
        /\ current' \in [Thread -> Op \cup {Desc, None}] /\ current'[t] = None
        /\ \A u \in Thread : u # t => current'[u] = current[u]
    <2>1. "cleanup" \in PcValue /\ None \in Op \cup {Desc, None} /\ "leave" \in Calls \cup {"leave"}
      BY ZenonT(60) DEF PcValue
    <2>2. /\ pc \in [Thread -> PcValue] /\ mode \in [Thread -> Calls \cup {"leave"}]
          /\ current \in [Thread -> Op \cup {Desc, None}]
      BY ZenonT(60) DEF SchedulerInv, TypeOK
    <2>3. pc' \in [Thread -> PcValue] /\ pc'[t] = "cleanup" /\ \A u \in Thread : u # t => pc'[u] = pc[u]
      BY ZenonT(60), <1>1, <2>1, <2>2, ExceptFacts DEF Goes
    <2>4. mode' \in [Thread -> Calls \cup {"leave"}] /\ \A u \in Thread : u # t => mode'[u] = mode[u]
      BY ZenonT(60), <1>1, <1>3, <2>1, <2>2, ExceptFacts
    <2>5. /\ current' \in [Thread -> Op \cup {Desc, None}] /\ current'[t] = None
          /\ \A u \in Thread : u # t => current'[u] = current[u]
      BY ZenonT(60), <1>1, <2>1, <2>2, ExceptFacts
    <2> QED BY ZenonT(60), <2>3, <2>4, <2>5
  <1>5. done' \subseteq Op
    BY ZenonT(60), <1>1 DEF SchedulerInv, TypeOK, PrivatePlaced
  <1>6. TypeOK'
    BY ZenonT(60), <1>1, <1>2, <1>4, <1>5 DEF SchedulerInv, TypeOK
  <1>7. t \notin Poster /\ None \notin Op
    BY ZenonT(60), ThreadAssumption, OpAssumption
  <1>8. ~Has(private_queue[t], Desc)
    BY ZenonT(60), <1>1 DEF SchedulerInv, PrivatePlaced
  <1>9. PrivatePlaced'
    BY ZenonT(60), <1>1, <1>2, <1>4, <1>7, <1>8, PrivateOf
  <1>10. OneRuns' /\ Moves(t)
    BY ZenonT(60), <1>1, <1>4, OneKept DEF Moves
  <1> QED BY ZenonT(60), <1>1, <1>2, <1>4, <1>6, <1>9, <1>10, QuietInv

LEMMA WorkCleanupInv == ASSUME SchedulerInv, NEW t \in Thread, WorkCleanup(t) PROVE SchedulerInv'
  <1>1. pc[t] = "cleanup" /\ outstanding_work' = outstanding_work + private_work[t] - 1
        /\ private_work' = [private_work EXCEPT ![t] = 0]
        /\ UNCHANGED <<one_thread, queueVars, stopped, task, io, mode, current,
                       private_queue, callVars, historyVars>>
    BY ZenonT(60) DEF WorkCleanup
  <1>2. UNCHANGED <<op_queue, task_interrupted, event, armed, call, arg, given, done>>
    BY ZenonT(60), <1>1 DEF queueVars, callVars, historyVars
  <1>3. PICK p : /\ Goes(t, p) /\ p \in {"stop", "publish", "look", "out"}
                 /\ p \in {"look", "out"} => private_queue[t] = <<>>
    <2>1. /\ AfterCount(t) \in {"publish", "look", "out"}
          /\ AfterCount(t) \in {"look", "out"} => private_queue[t] = <<>>
      BY ZenonT(60) DEF AfterCount
    <2>2. Goes(t, "stop") \/ Goes(t, AfterCount(t))
      BY ZenonT(60) DEF WorkCleanup
    <2>3. /\ "stop" \in {"stop", "publish", "look", "out"}
          /\ "stop" \in {"look", "out"} => private_queue[t] = <<>>
      BY ZenonT(60)
    <2>4. AfterCount(t) \in {"stop", "publish", "look", "out"}
      BY ZenonT(60), <2>1
    <2>5. CASE Goes(t, "stop")
      BY ZenonT(60), <2>3, <2>5
    <2>6. CASE Goes(t, AfterCount(t))
      BY ZenonT(60), <2>1, <2>4, <2>6
    <2> QED BY ZenonT(60), <2>2, <2>5, <2>6
  <1>4. /\ pc' \in [Thread -> PcValue] /\ pc'[t] = p /\ \A u \in Thread : u # t => pc'[u] = pc[u]
        /\ private_work' \in [Thread -> Nat] /\ private_work'[t] = 0
        /\ \A u \in Thread : u # t => private_work'[u] = private_work[u]
        /\ outstanding_work' \in Int
    <2>1. p \in PcValue
      BY ZenonT(60), <1>3 DEF PcValue
    <2>2. pc \in [Thread -> PcValue]
      BY ZenonT(60) DEF SchedulerInv, TypeOK
    <2>3. outstanding_work \in Int /\ private_work \in [Thread -> Nat]
      BY ZenonT(60) DEF SchedulerInv, TypeOK
    <2>4. pc' \in [Thread -> PcValue] /\ pc'[t] = p /\ \A u \in Thread : u # t => pc'[u] = pc[u]
      BY ZenonT(60), <1>3, <2>1, <2>2 DEF Goes
    <2>5. /\ private_work' \in [Thread -> Nat] /\ private_work'[t] = 0
          /\ \A u \in Thread : u # t => private_work'[u] = private_work[u]
      BY ZenonT(60), <1>1, <2>3
    <2>6. outstanding_work' \in Int
      BY SMTT(90), <1>1, <2>3
    <2> QED BY ZenonT(60), <2>4, <2>5, <2>6
  <1>5. TypeOK'
    BY ZenonT(60), <1>1, <1>2, <1>4 DEF SchedulerInv, TypeOK
  <1>6. ~Has(private_queue[t], Desc) /\ t \notin Poster /\ current[t] \notin Op /\ call[t] # "push"
    BY ZenonT(60), <1>1 DEF SchedulerInv, PrivatePlaced
  <1>7. PrivatePlaced'
    BY ZenonT(60), <1>1, <1>2, <1>3, <1>4, <1>6, PrivateOf
  <1>8. OneRuns' /\ Moves(t)
    BY ZenonT(60), <1>1, <1>3, <1>4, OneKept DEF Moves
  <1> QED BY ZenonT(60), <1>1, <1>2, <1>4, <1>5, <1>7, <1>8, QuietInv

LEMMA WakeUpInv == ASSUME SchedulerInv, NEW t \in Thread, WakeUp(t) PROVE SchedulerInv'
  <1>1. pc[t] = "woken" /\ UNCHANGED <<lookVars, private_queue>>
    BY ZenonT(60) DEF WakeUp
  <1>2. CASE event
    BY ZenonT(60), <1>1, <1>2, ReadyNow, LookInv DEF WakeUp
  <1>3. CASE ~event
    <2>1. Goes(t, "wait") /\ UNCHANGED <<queueVars, current, call>>
      BY ZenonT(60), <1>3 DEF WakeUp
    <2>2. UNCHANGED <<op_queue, task_interrupted, event, armed, one_thread, stopped, outstanding_work,
                      task, io, mode, private_work, private_queue, current, call, arg, given, done>>
      BY ZenonT(60), <1>1, <2>1 DEF queueVars, lookVars, historyVars
    <2>3. pc' \in [Thread -> PcValue] /\ pc'[t] = "wait" /\ \A u \in Thread : u # t => pc'[u] = pc[u]
      <3>1. "wait" \in PcValue
        BY ZenonT(60) DEF PcValue
      <3> QED BY ZenonT(60), <2>1, <3>1 DEF Goes, SchedulerInv, TypeOK
    <2>4. TypeOK'
      BY ZenonT(60), <2>2, <2>3 DEF SchedulerInv, TypeOK
    <2>5. /\ ~Has(private_queue[t], Desc) /\ t \notin Poster /\ current[t] \notin Op /\ call[t] # "push"
          /\ private_queue[t] = <<>> /\ private_work[t] = 0
      BY ZenonT(60), <1>1 DEF SchedulerInv, PrivatePlaced
    <2>6. PrivatePlaced'
      BY ZenonT(60), <2>2, <2>3, <2>5, PrivateOf
    <2>7. OneRuns'
      BY ZenonT(60), <1>1, <2>2, <2>3, OneKept
    <2>8. \A u \in Runner : u # t => pc'[u] = pc[u]
      BY ZenonT(60), <2>3, RunnerIsThread
    <2>9. \A u \in Runner : (InReactor(u)' <=> InReactor(u)) /\ (pc'[u] = "block" <=> pc[u] = "block")
      BY ZenonT(60), <1>1, <2>3, <2>8 DEF InReactor
    <2>10. TaskPlaced' /\ InterruptKnown'
      BY ZenonT(60), <2>2, <2>9 DEF SchedulerInv, TaskPlaced, TaskOnce, InFront, Has, InterruptKnown
    <2>11. \A u \in Runner : (Asleep(u)' <=> Asleep(u)) /\ (Awake(u) <=> Awake(u)')
      BY ZenonT(60), <1>1, <1>3, <2>2, <2>3, <2>8 DEF Asleep, Awake
    <2>12. SignalComes => SignalComes'
      <3>1. \A u \in Runner : pc[u] \in {"wait", "timed"} => pc'[u] \in {"wait", "timed"}
        BY ZenonT(60), <1>1, <2>8
      <3> QED BY ZenonT(60), <2>2, <3>1 DEF SignalComes
    <2>13. WorkIsSeen' /\ StopWakesAll'
      BY ZenonT(60), <2>2, <2>11, <2>12 DEF SchedulerInv, WorkIsSeen, StopWakesAll
    <2>14. EventSet'
      <3>1. \A u \in Runner : pc'[u] \in {"wait", "woken", "timed", "timed_woken"}
                                => pc[u] \in {"wait", "woken", "timed", "timed_woken"}
        BY ZenonT(60), <1>1, <2>8
      <3>2. \A u \in Runner : pc[u] \in {"out", "look", "stop", "peek", "returned"} => pc'[u] = pc[u]
        BY ZenonT(60), <1>1, <2>8
      <3> QED BY ZenonT(60), <2>2, <3>1, <3>2 DEF SchedulerInv, EventSet
    <2> QED BY ZenonT(60), <2>4, <2>6, <2>7, <2>10, <2>13, <2>14 DEF SchedulerInv
  <1> QED BY ZenonT(60), <1>2, <1>3

LEMMA ConcatWithout ==
    ASSUME NEW S, NEW q \in Seq(S), NEW s \in Seq(S), NEW x, ~Has(q, x), \A k \in DOMAIN s : s[k] # x
    PROVE  q \o s \in Seq(S) /\ ~Has(q \o s, x)
  <1>1. /\ q \o s \in Seq(S)
        /\ \A k \in DOMAIN (q \o s) : k \in DOMAIN q \/ (k > Len(q) /\ k - Len(q) \in DOMAIN s
                                                          /\ (q \o s)[k] = s[k - Len(q)])
        /\ \A k \in DOMAIN q : (q \o s)[k] = q[k]
    BY ZenonT(60), ConcatElements
  <1> QED BY ZenonT(60), <1>1 DEF Has

\* What Completed changes, for operations s of the user.
LEMMA CompletedFacts ==
    ASSUME SchedulerInv, NEW t \in Thread, NEW s \in Seq(Op), call[t] = "idle", Completed(t, s),
           ~Has(private_queue[t], Desc)
    PROVE  /\ private_queue' \in [Thread -> Seq(Op \cup {Desc})]
           /\ ~Has(private_queue'[t], Desc)
           /\ pc[t] = "out" => private_queue'[t] = private_queue[t]
           /\ call' \in [Thread -> {"idle", "push", "signal"}] /\ arg' \in [Thread -> Seq(Op)]
           /\ \A u \in Thread : u # t => private_queue'[u] = private_queue[u] /\ call'[u] = call[u]
           /\ \A u \in Thread : call[u] = "signal" => call'[u] = "signal"
  <1>1. /\ private_queue \in [Thread -> Seq(Op \cup {Desc})]
        /\ call \in [Thread -> {"idle", "push", "signal"}] /\ arg \in [Thread -> Seq(Op)]
    BY ZenonT(60) DEF SchedulerInv, TypeOK
  <1>2. CASE one_thread /\ pc[t] # "out"
    <2>1. private_queue' = [private_queue EXCEPT ![t] = private_queue[t] \o s] /\ UNCHANGED <<call, arg>>
      BY ZenonT(60), <1>2 DEF Completed, callVars
    <2>2. private_queue[t] \o s \in Seq(Op \cup {Desc}) /\ ~Has(private_queue[t] \o s, Desc)
      <3>1. private_queue[t] \in Seq(Op \cup {Desc}) /\ s \in Seq(Op \cup {Desc})
        BY SMTT(90), <1>1
      <3>2. \A k \in DOMAIN s : s[k] # Desc
        BY SMTT(90), OpsDistinct
      <3> DEFINE q == private_queue[t]
      <3>3. q \in Seq(Op \cup {Desc}) /\ ~Has(q, Desc)
        BY ZenonT(60), <3>1
      <3> HIDE DEF q
      <3>5. q \o s \in Seq(Op \cup {Desc}) /\ ~Has(q \o s, Desc)
        BY ZenonT(60), <3>1, <3>2, <3>3, ConcatWithout
      <3> QED BY ZenonT(60), <3>5 DEF q
    <2>3. /\ private_queue' \in [Thread -> Seq(Op \cup {Desc})] /\ private_queue'[t] = private_queue[t] \o s
          /\ \A u \in Thread : u # t => private_queue'[u] = private_queue[u]
      BY ZenonT(60), <1>1, <2>1, <2>2, ExceptFacts
    <2> QED BY ZenonT(60), <1>1, <1>2, <2>1, <2>2, <2>3
  <1>3. CASE ~(one_thread /\ pc[t] # "out")
    <2>1. /\ call' = [call EXCEPT ![t] = IF s = <<>> THEN "idle" ELSE "push"]
          /\ arg' = [arg EXCEPT ![t] = s] /\ private_queue' = private_queue
      BY ZenonT(60), <1>3 DEF Completed
    <2>2. (IF s = <<>> THEN "idle" ELSE "push") \in {"idle", "push", "signal"}
      BY ZenonT(60)
    <2>3. call' \in [Thread -> {"idle", "push", "signal"}] /\ \A u \in Thread : u # t => call'[u] = call[u]
      BY ZenonT(60), <1>1, <2>1, <2>2, ExceptFacts
    <2>4. arg' \in [Thread -> Seq(Op)]
      BY ZenonT(60), <1>1, <2>1, ExceptFacts
    <2>5. \A u \in Thread : call[u] = "signal" => call'[u] = "signal"
      BY ZenonT(60), <2>3
    <2> QED BY ZenonT(60), <1>1, <2>1, <2>3, <2>4, <2>5
  <1> QED BY ZenonT(60), <1>2, <1>3

\* A call by a thread that keeps its place.
LEMMA CallInv ==
    ASSUME SchedulerInv, NEW t \in Thread, MayCall(t), TypeOK',
           UNCHANGED <<one_thread, queueVars, stopped, task, placeVars>>,
           \A u \in Thread : u # t => /\ private_queue'[u] = private_queue[u]
                                      /\ private_work'[u] = private_work[u] /\ call'[u] = call[u],
           pc[t] = "out" => private_queue'[t] = private_queue[t],
           pc[t] = "out" => private_work'[t] = private_work[t],
           ~Has(private_queue'[t], Desc)
    PROVE  SchedulerInv'
  <1>1. UNCHANGED <<pc, mode, current>>
    BY ZenonT(60) DEF placeVars
  <1>2. call[t] = "idle" /\ pc[t] \in {"out", "handler"} /\ (t \in Poster => pc[t] = "out")
        /\ (pc[t] = "handler" <=> current[t] \in Op)
    BY ZenonT(60) DEF MayCall, SchedulerInv, PrivatePlaced
  <1>3. pc[t] = "out" => private_queue[t] = <<>> /\ private_work[t] = 0
    BY ZenonT(60) DEF SchedulerInv, PrivatePlaced
  <1>4. PrivatePlaced'
    BY ZenonT(60), <1>1, <1>2, <1>3, PrivateOf
  <1>5. OneRuns' /\ Moves(t)
    BY ZenonT(60), <1>1, OneKept DEF Moves
  <1>6. \A u \in Thread : call[u] = "signal" => call'[u] = "signal"
    BY ZenonT(60), <1>2
  <1> QED BY ZenonT(60), <1>1, <1>4, <1>5, <1>6, QuietInv

LEMMA KeepsNoDesc == ASSUME SchedulerInv, NEW t \in Thread, pc[t] # "returned" PROVE ~Has(private_queue[t], Desc)
  BY ZenonT(60) DEF SchedulerInv, PrivatePlaced

LEMMA MayCallPlace == ASSUME SchedulerInv, NEW t \in Thread, MayCall(t)
                      PROVE  pc[t] \in {"out", "handler"} /\ call[t] = "idle" /\ ~Has(private_queue[t], Desc)
  BY ZenonT(60) DEF SchedulerInv, PrivatePlaced, MayCall

LEMMA StartIoInv == ASSUME SchedulerInv, NEW t \in Thread, NEW o \in Op, StartIo(t, o) PROVE SchedulerInv'
  <1>1. MayCall(t) /\ given' = given \cup {o} /\ io' = Append(io, o) /\ outstanding_work' = outstanding_work + 1
        /\ UNCHANGED <<one_thread, queueVars, stopped, task, placeVars, privateVars, callVars, done>>
    BY ZenonT(60) DEF StartIo
  <1>2. UNCHANGED <<op_queue, task_interrupted, event, armed, pc, mode, current, private_queue, private_work,
                    call, arg>>
    BY ZenonT(60), <1>1 DEF queueVars, placeVars, privateVars, callVars
  <1>3. io' \in Seq(Op) /\ outstanding_work' \in Int
    <2>1. io \in Seq(Op) /\ outstanding_work \in Int
      BY ZenonT(60) DEF SchedulerInv, TypeOK
    <2> QED BY SMTT(90), <1>1, <2>1
  <1>4. given' \subseteq Op
    BY ZenonT(60), <1>1 DEF SchedulerInv, TypeOK
  <1>5. TypeOK'
    BY ZenonT(60), <1>1, <1>2, <1>3, <1>4 DEF SchedulerInv, TypeOK
  <1> QED BY ZenonT(60), <1>1, <1>2, <1>5, CallInv, MayCallPlace

LEMMA CancelIoInv == ASSUME SchedulerInv, NEW t \in Thread, CancelIo(t) PROVE SchedulerInv'
  <1>1. MayCall(t) /\ io' = <<>> /\ Completed(t, io)
        /\ UNCHANGED <<one_thread, queueVars, stopped, outstanding_work, task, placeVars,
                       private_work, historyVars>>
    BY ZenonT(60) DEF CancelIo
  <1>2. UNCHANGED <<op_queue, task_interrupted, event, armed, pc, mode, current, given, done>>
    BY ZenonT(60), <1>1 DEF queueVars, placeVars, historyVars
  <1>3. io \in Seq(Op) /\ io' \in Seq(Op)
    <2>1. io \in Seq(Op)
      BY ZenonT(60) DEF SchedulerInv, TypeOK
    <2> QED BY SMTT(90), <1>1, <2>1
  <1>4. /\ private_queue' \in [Thread -> Seq(Op \cup {Desc})]
        /\ ~Has(private_queue'[t], Desc)
        /\ pc[t] = "out" => private_queue'[t] = private_queue[t]
        /\ call' \in [Thread -> {"idle", "push", "signal"}] /\ arg' \in [Thread -> Seq(Op)]
        /\ \A u \in Thread : u # t => private_queue'[u] = private_queue[u] /\ call'[u] = call[u]
    BY ZenonT(60), <1>1, <1>3, CompletedFacts, MayCallPlace
  <1>5. TypeOK'
    BY ZenonT(60), <1>1, <1>2, <1>3, <1>4 DEF SchedulerInv, TypeOK
  <1> QED BY ZenonT(60), <1>1, <1>4, <1>5, CallInv

LEMMA PostInv == ASSUME SchedulerInv, NEW t \in Thread, NEW o \in Op, Post(t, o) PROVE SchedulerInv'
  <1>1. MayCall(t) /\ given' = given \cup {o}
        /\ UNCHANGED <<one_thread, queueVars, stopped, task, io, placeVars, done>>
    BY ZenonT(60) DEF Post
  <1>2. UNCHANGED <<op_queue, task_interrupted, event, armed, pc, mode, current>>
    BY ZenonT(60), <1>1 DEF queueVars, placeVars
  <1>3. given' \subseteq Op
    BY ZenonT(60), <1>1 DEF SchedulerInv, TypeOK
  <1>4. /\ private_queue \in [Thread -> Seq(Op \cup {Desc})] /\ private_work \in [Thread -> Nat]
        /\ call \in [Thread -> {"idle", "push", "signal"}] /\ arg \in [Thread -> Seq(Op)]
        /\ outstanding_work \in Int
    BY ZenonT(60) DEF SchedulerInv, TypeOK
  <1>5. ~Has(private_queue[t], Desc)
    BY ZenonT(60), <1>1, MayCallPlace
  <1>6. CASE /\ pc[t] = "handler"
             /\ private_work' = [private_work EXCEPT ![t] = @ + 1]
             /\ private_queue' = [private_queue EXCEPT ![t] = Append(@, o)]
             /\ UNCHANGED <<outstanding_work, callVars>>
    <2>1. UNCHANGED <<call, arg>>
      BY ZenonT(60), <1>6 DEF callVars
    <2>2. private_work[t] + 1 \in Nat
      BY SMTT(90), <1>4
    <2>3. Append(private_queue[t], o) \in Seq(Op \cup {Desc}) /\ ~Has(Append(private_queue[t], o), Desc)
      <3> DEFINE q == private_queue[t]
      <3>1. q \in Seq(Op \cup {Desc}) /\ ~Has(q, Desc) /\ o # Desc
        BY ZenonT(60), <1>4, <1>5, OpsDistinct
      <3> HIDE DEF q
      <3>2. Append(q, o) \in Seq(Op \cup {Desc})
        BY SMTT(90), <3>1
      <3>3. ~Has(Append(q, o), Desc)
        BY SMTT(90), <3>1 DEF Has
      <3> QED BY ZenonT(60), <3>2, <3>3 DEF q
    <2>4. private_work' \in [Thread -> Nat] /\ \A u \in Thread : u # t => private_work'[u] = private_work[u]
      BY ZenonT(60), <1>4, <1>6, <2>2, ExceptFacts
    <2>5. /\ private_queue' \in [Thread -> Seq(Op \cup {Desc})]
          /\ private_queue'[t] = Append(private_queue[t], o)
          /\ \A u \in Thread : u # t => private_queue'[u] = private_queue[u]
      BY ZenonT(60), <1>4, <1>6, <2>3, ExceptFacts
    <2>6. ~Has(private_queue'[t], Desc)
      BY ZenonT(60), <2>3, <2>5
    <2>7. TypeOK'
      BY ZenonT(60), <1>1, <1>2, <1>3, <1>4, <1>6, <2>1, <2>4, <2>5 DEF SchedulerInv, TypeOK
    <2> QED BY ZenonT(60), <1>1, <1>6, <2>1, <2>4, <2>5, <2>6, <2>7, CallInv
  <1>7. CASE /\ outstanding_work' = outstanding_work + 1
             /\ call' = [call EXCEPT ![t] = "push"]
             /\ arg' = [arg EXCEPT ![t] = <<o>>]
             /\ UNCHANGED privateVars
    <2>1. UNCHANGED <<private_queue, private_work>>
      BY ZenonT(60), <1>7 DEF privateVars
    <2>2. outstanding_work' \in Int
      BY SMTT(90), <1>4, <1>7
    <2>3. <<o>> \in Seq(Op)
      BY SMTT(90)
    <2>4. call' \in [Thread -> {"idle", "push", "signal"}] /\ \A u \in Thread : u # t => call'[u] = call[u]
      <3>1. "push" \in {"idle", "push", "signal"}
        BY ZenonT(60)
      <3> QED BY ZenonT(60), <1>4, <1>7, <3>1, ExceptFacts
    <2>5. arg' \in [Thread -> Seq(Op)]
      BY ZenonT(60), <1>4, <1>7, <2>3, ExceptFacts
    <2>6. TypeOK'
      BY ZenonT(60), <1>1, <1>2, <1>3, <1>4, <2>1, <2>2, <2>4, <2>5 DEF SchedulerInv, TypeOK
    <2> QED BY ZenonT(60), <1>1, <1>5, <2>1, <2>4, <2>6, CallInv
  <1> QED BY ZenonT(60), <1>6, <1>7 DEF Post

LEMMA PerformIoInv == ASSUME SchedulerInv, NEW t \in Thread, PerformIo(t) PROVE SchedulerInv'
  <1>1. pc[t] = "descriptor" /\ call[t] = "idle"
        /\ UNCHANGED <<one_thread, queueVars, stopped, outstanding_work, task, mode, historyVars>>
    BY ZenonT(60) DEF PerformIo
  <1>2. UNCHANGED <<op_queue, task_interrupted, event, armed, given, done>>
    BY ZenonT(60), <1>1 DEF queueVars, historyVars
  <1>3. PICK k \in 0 .. Len(io) :
          /\ io' = SubSeq(io, k + 1, Len(io))
          /\ IF k = 0
               THEN /\ private_work' = [private_work EXCEPT ![t] = @ + 1]
                    /\ Goes(t, "cleanup")
                    /\ current' = [current EXCEPT ![t] = None]
                    /\ UNCHANGED <<private_queue, callVars>>
               ELSE /\ Goes(t, "handler")
                    /\ current' = [current EXCEPT ![t] = Head(io)]
                    /\ Completed(t, SubSeq(io, 2, k))
                    /\ UNCHANGED private_work
    BY ZenonT(60) DEF PerformIo
  <1>4. /\ private_queue \in [Thread -> Seq(Op \cup {Desc})] /\ private_work \in [Thread -> Nat]
        /\ call \in [Thread -> {"idle", "push", "signal"}] /\ arg \in [Thread -> Seq(Op)]
        /\ io \in Seq(Op) /\ pc \in [Thread -> PcValue] /\ current \in [Thread -> Op \cup {Desc, None}]
    BY ZenonT(60) DEF SchedulerInv, TypeOK
  <1>5. io' \in Seq(Op) /\ SubSeq(io, 2, k) \in Seq(Op) /\ (k # 0 => Head(io) \in Op)
    <2>1. io' \in Seq(Op)
      BY SMTT(90), <1>3, <1>4
    <2>2. SubSeq(io, 2, k) \in Seq(Op)
      BY SMTT(90), <1>3, <1>4
    <2>3. k # 0 => Head(io) \in Op
      BY SMTT(90), <1>3, <1>4
    <2> QED BY ZenonT(60), <2>1, <2>2, <2>3
  <1>6. ~Has(private_queue[t], Desc) /\ t \notin Poster
    BY ZenonT(60), <1>1 DEF SchedulerInv, PrivatePlaced
  <1>7. "cleanup" \in PcValue /\ "handler" \in PcValue /\ None \notin Op
    BY ZenonT(60), OpAssumption DEF PcValue
  <1>8. CASE k = 0
    <2>1. /\ private_work' = [private_work EXCEPT ![t] = private_work[t] + 1]
          /\ Goes(t, "cleanup") /\ current' = [current EXCEPT ![t] = None]
          /\ UNCHANGED <<private_queue, call, arg>>
      BY ZenonT(60), <1>3, <1>8 DEF callVars
    <2>2. private_work[t] + 1 \in Nat
      BY SMTT(90), <1>4
    <2>3. private_work' \in [Thread -> Nat] /\ \A u \in Thread : u # t => private_work'[u] = private_work[u]
      BY ZenonT(60), <1>4, <2>1, <2>2, ExceptFacts
    <2>4. pc' \in [Thread -> PcValue] /\ pc'[t] = "cleanup" /\ \A u \in Thread : u # t => pc'[u] = pc[u]
      BY ZenonT(60), <1>4, <1>7, <2>1, ExceptFacts DEF Goes
    <2>5. /\ current' \in [Thread -> Op \cup {Desc, None}] /\ current'[t] = None
          /\ \A u \in Thread : u # t => current'[u] = current[u]
      <3>1. None \in Op \cup {Desc, None}
        BY ZenonT(60)
      <3> QED BY ZenonT(60), <1>4, <2>1, <3>1, ExceptFacts
    <2>6. TypeOK'
      BY ZenonT(60), <1>1, <1>2, <1>5, <2>1, <2>3, <2>4, <2>5 DEF SchedulerInv, TypeOK
    <2>7. PrivatePlaced'
      BY ZenonT(60), <1>1, <1>6, <1>7, <2>1, <2>3, <2>4, <2>5, PrivateOf
    <2>8. OneRuns' /\ Moves(t)
      BY ZenonT(60), <1>1, <2>4, OneKept DEF Moves
    <2> QED BY ZenonT(60), <1>1, <2>1, <2>4, <2>6, <2>7, <2>8, QuietInv
  <1>9. CASE k # 0
    <2>1. /\ Goes(t, "handler") /\ current' = [current EXCEPT ![t] = Head(io)]
          /\ Completed(t, SubSeq(io, 2, k)) /\ UNCHANGED private_work
      BY ZenonT(60), <1>3, <1>9
    <2>2. pc' \in [Thread -> PcValue] /\ pc'[t] = "handler" /\ \A u \in Thread : u # t => pc'[u] = pc[u]
      BY ZenonT(60), <1>4, <1>7, <2>1, ExceptFacts DEF Goes
    <2>3. /\ current' \in [Thread -> Op \cup {Desc, None}] /\ current'[t] \in Op
          /\ \A u \in Thread : u # t => current'[u] = current[u]
      <3>1. Head(io) \in Op /\ Head(io) \in Op \cup {Desc, None}
        BY ZenonT(60), <1>5, <1>9
      <3>2. current'[t] = Head(io)
        BY ZenonT(60), <1>4, <2>1, <3>1, ExceptFacts
      <3> QED BY ZenonT(60), <1>4, <2>1, <3>1, <3>2, ExceptFacts
    <2>4. /\ private_queue' \in [Thread -> Seq(Op \cup {Desc})]
          /\ ~Has(private_queue'[t], Desc)
          /\ call' \in [Thread -> {"idle", "push", "signal"}] /\ arg' \in [Thread -> Seq(Op)]
          /\ \A u \in Thread : u # t => private_queue'[u] = private_queue[u] /\ call'[u] = call[u]
          /\ \A u \in Thread : call[u] = "signal" => call'[u] = "signal"
      BY ZenonT(60), <1>1, <1>5, <1>6, <2>1, CompletedFacts
    <2>5. TypeOK'
      BY ZenonT(60), <1>1, <1>2, <1>5, <2>1, <2>2, <2>3, <2>4 DEF SchedulerInv, TypeOK
    <2>6. PrivatePlaced'
      <3>1. \A u \in Thread : u # t =>
              /\ pc'[u] = pc[u] /\ private_queue'[u] = private_queue[u] /\ private_work'[u] = private_work[u]
              /\ current'[u] = current[u] /\ mode'[u] = mode[u] /\ call'[u] = call[u]
        BY ZenonT(60), <1>1, <2>1, <2>2, <2>3, <2>4
      <3>2. pc'[t] \in {"handler", "cleanup"} /\ pc'[t] \notin {"returned", "timed", "timed_woken"}
        BY ZenonT(60), <2>2
      <3> QED BY ZenonT(60), <1>6, <2>2, <2>3, <2>4, <3>1, <3>2, PrivateOf
    <2>7. OneRuns' /\ Moves(t)
      BY ZenonT(60), <1>1, <2>2, OneKept DEF Moves
    <2> QED BY ZenonT(60), <1>1, <2>2, <2>4, <2>5, <2>6, <2>7, QuietInv
  <1> QED BY ZenonT(60), <1>8, <1>9

-----------------------------------------------------------------------------
(* Operations and the task are put into the queue.                         *)

LEMMA PushInv == ASSUME SchedulerInv, NEW t \in Thread, Push(t) PROVE SchedulerInv'
  <1>1. call[t] = "push" /\ op_queue' = op_queue \o arg[t] /\ arg' = [arg EXCEPT ![t] = <<>>]
        /\ WakeOne(t, task_interrupted)
        /\ UNCHANGED <<one_thread, stopped, outstanding_work, task, io, placeVars, privateVars,
                       historyVars>>
    BY ZenonT(60) DEF Push
  <1>2. UNCHANGED <<pc, mode, current, private_queue, private_work, given, done>>
    BY ZenonT(60), <1>1 DEF placeVars, privateVars, historyVars
  <1>3. pc[t] \in {"out", "handler"}
    BY ZenonT(60), <1>1 DEF SchedulerInv, PrivatePlaced
  <1>4. QueueOk(op_queue') /\ (Has(op_queue', Task) <=> Has(op_queue, Task)) /\ arg' \in [Thread -> Seq(Op)]
    <2>1. QueueOk(op_queue) /\ arg \in [Thread -> Seq(Op)] /\ arg[t] \in Seq(Op)
      BY ZenonT(60) DEF SchedulerInv, TypeOK, TaskPlaced, QueueOk
    <2>2. <<>> \in Seq(Op)
      BY SMTT(90)
    <2> QED BY ZenonT(60), <1>1, <2>1, <2>2, QueueConcat, ExceptFacts
  <1>5. /\ event' = TRUE /\ (armed => armed') /\ task_interrupted' \in BOOLEAN /\ armed' \in BOOLEAN
        /\ call' \in [Thread -> {"idle", "push", "signal"}] /\ call'[t] # "push"
        /\ \A u \in Thread : u # t => call'[u] = call[u]
        /\ \A u \in Runner : pc'[u] = "block" /\ task_interrupted' => armed'
        /\ (\E u \in Runner : Asleep(u)') => SignalComes' \/ \E u \in Runner : Awake(u)'
    <2>1. task_interrupted \in BOOLEAN /\ \A u \in Runner : pc[u] = "block" /\ task_interrupted => armed
      BY ZenonT(60) DEF SchedulerInv, TypeOK, InterruptKnown
    <2>2. \A u \in Runner : InReactor(u) => task
      BY ZenonT(60) DEF SchedulerInv, TaskPlaced
    <2>3. pc'[t] \in {"handler", "descriptor", "out"} /\ \A u \in Runner : u # t => pc'[u] = pc[u]
      BY ZenonT(60), <1>2, <1>3
    <2> QED BY ZenonT(60), <1>1, <2>1, <2>2, <2>3, WakeOneFacts
  <1>6. event' \in BOOLEAN
    BY ZenonT(60), <1>5
  <1>7. TypeOK'
    BY ZenonT(60), <1>1, <1>2, <1>4, <1>5, <1>6 DEF SchedulerInv, TypeOK, QueueOk
  <1>8. \A u \in Runner : InReactor(u)' <=> InReactor(u)
    BY ZenonT(60), <1>2 DEF InReactor
  <1>9. TaskPlaced'
    <2>1. Has(op_queue, Task)' <=> Has(op_queue, Task)
      BY ZenonT(60), <1>4 DEF Has
    <2>2. TaskOnce(op_queue)' /\ InFront(op_queue)'
      BY ZenonT(60), <1>4 DEF QueueOk, TaskOnce, InFront
    <2> QED BY ZenonT(60), <1>1, <1>8, <2>1, <2>2 DEF SchedulerInv, TaskPlaced
  <1>10. PrivatePlaced'
    <2>1. \A u \in Thread : call'[u] = "push" => call[u] = "push"
      BY ZenonT(60), <1>5
    <2> QED BY ZenonT(60), <1>2, <2>1 DEF SchedulerInv, PrivatePlaced, Has
  <1>11. InterruptKnown' /\ OneRuns' /\ EventSet' /\ WorkIsSeen'
    BY ZenonT(60), <1>1, <1>2, <1>5 DEF SchedulerInv, InterruptKnown, OneRuns, EventSet, WorkIsSeen
  <1>12. StopWakesAll'
    <2>1. \A u \in Runner : Asleep(u)' => Asleep(u)
      BY ZenonT(60), <1>2, <1>5 DEF Asleep, Awake
    <2> QED BY ZenonT(60), <1>1, <2>1 DEF SchedulerInv, StopWakesAll
  <1> QED BY ZenonT(60), <1>7, <1>9, <1>10, <1>11, <1>12 DEF SchedulerInv

LEMMA InitTaskInv == ASSUME SchedulerInv, NEW t \in Thread, InitTask(t) PROVE SchedulerInv'
  <1>1. MayCall(t) /\ ~task /\ task' = TRUE /\ op_queue' = Append(op_queue, Task) /\ SignalOne(t)
        /\ UNCHANGED <<one_thread, stopped, outstanding_work, io, placeVars, privateVars, arg, historyVars>>
    BY ZenonT(60) DEF InitTask
  <1>2. UNCHANGED <<pc, mode, current, private_queue, private_work, given, done>>
    BY ZenonT(60), <1>1 DEF placeVars, privateVars, historyVars
  <1>3. pc[t] \in {"out", "handler"}
    BY ZenonT(60), <1>1, MayCallPlace
  <1>4. QueueOk(op_queue')
    <2>1. op_queue \in Seq(Operation) /\ ~Has(op_queue, Task)
      BY ZenonT(60), <1>1 DEF SchedulerInv, TypeOK, TaskPlaced
    <2> QED BY ZenonT(60), <1>1, <2>1, QueueTask
  <1>5. /\ event' = TRUE /\ call' \in [Thread -> {"idle", "push", "signal"}]
        /\ call'[t] = (IF Waiters(t) = {} THEN "idle" ELSE "signal")
        /\ \A u \in Thread : u # t => call'[u] = call[u]
    BY ZenonT(60), <1>1, SignalOneFacts
  <1>6. task_interrupted' \in BOOLEAN /\ armed' \in BOOLEAN /\ (armed => armed') /\ event' \in BOOLEAN /\ task' \in BOOLEAN
    <2>1. task_interrupted \in BOOLEAN /\ armed \in BOOLEAN
      BY ZenonT(60) DEF SchedulerInv, TypeOK
    <2> QED BY ZenonT(60), <1>1, <1>5, <2>1 DEF InitTask
  <1>7. TypeOK'
    BY ZenonT(60), <1>1, <1>2, <1>4, <1>5, <1>6 DEF SchedulerInv, TypeOK, QueueOk
  <1>8. \A u \in Runner : ~InReactor(u) /\ ~InReactor(u)'
    BY ZenonT(60), <1>1, <1>2 DEF SchedulerInv, TaskPlaced, InReactor
  <1>9. TaskPlaced'
    <2>1. TaskOnce(op_queue)' /\ InFront(op_queue)'
      BY ZenonT(60), <1>4 DEF QueueOk, TaskOnce, InFront
    <2> QED BY ZenonT(60), <1>1, <1>8, <2>1 DEF TaskPlaced
  <1>10. PrivatePlaced'
    <2>1. \A u \in Thread : call'[u] = "push" => call[u] = "push"
      BY ZenonT(60), <1>5
    <2> QED BY ZenonT(60), <1>2, <2>1 DEF SchedulerInv, PrivatePlaced, Has
  <1>11. InterruptKnown' /\ OneRuns' /\ EventSet'
    BY ZenonT(60), <1>1, <1>2, <1>5, <1>8 DEF SchedulerInv, InterruptKnown, OneRuns, EventSet, InReactor
  <1>12. WorkIsSeen'
    <2> SUFFICES ASSUME NEW w \in Runner, Asleep(w)' PROVE SignalComes' \/ \E u \in Runner : Awake(u)'
      BY ZenonT(60) DEF WorkIsSeen
    <2>1. pc[w] \in {"wait", "woken"} /\ pc'[w] = pc[w]
      BY ZenonT(60), <1>2, <1>8 DEF Asleep, InReactor
    <2>2. w # t
      BY ZenonT(60), <1>3, <2>1
    <2>3. call'[t] = "signal"
      BY ZenonT(60), <1>5, <2>1, <2>2 DEF Waiters
    <2>4. CASE pc[w] = "wait"
      BY ZenonT(60), <2>1, <2>3, <2>4 DEF SignalComes
    <2>5. CASE pc[w] = "woken"
      <3>1. pc'[w] = "woken" /\ event'
        BY ZenonT(60), <1>5, <2>1, <2>5
      <3> QED BY ZenonT(60), <3>1 DEF Awake
    <2> QED BY ZenonT(60), <2>1, <2>4, <2>5
  <1>13. StopWakesAll'
    <2>1. \A u \in Runner : Asleep(u)' => Asleep(u)
      BY ZenonT(60), <1>2, <1>5, <1>6 DEF Asleep, Awake
    <2> QED BY ZenonT(60), <1>1, <2>1 DEF SchedulerInv, StopWakesAll
  <1> QED BY ZenonT(60), <1>7, <1>9, <1>10, <1>11, <1>12, <1>13 DEF SchedulerInv

-----------------------------------------------------------------------------
(* The reactor returns; stop and restart.                                  *)

LEMMA ReactorReturnsInv == ASSUME SchedulerInv, NEW t \in Runner, ReactorReturns(t) PROVE SchedulerInv'
  <1>1. t \in Thread /\ pc[t] \in {"peek", "block"} /\ call[t] = "idle" /\ armed' = FALSE /\ Goes(t, "returned")
        /\ UNCHANGED <<one_thread, op_queue, task_interrupted, event, stopped, outstanding_work,
                       task, io, mode, current, private_work, callVars, historyVars>>
    BY ZenonT(60), RunnerIsThread DEF ReactorReturns
  <1>2. UNCHANGED <<call, arg, given, done>>
    BY ZenonT(60), <1>1 DEF callVars, historyVars
  <1>3. PICK d \in {<<>>, <<Desc>>} : private_queue' = [private_queue EXCEPT ![t] = private_queue[t] \o d]
    BY ZenonT(60) DEF ReactorReturns
  <1>4. /\ private_queue' \in [Thread -> Seq(Op \cup {Desc})]
        /\ \A u \in Thread : u # t => private_queue'[u] = private_queue[u]
    <2>1. private_queue \in [Thread -> Seq(Op \cup {Desc})]
      BY ZenonT(60) DEF SchedulerInv, TypeOK
    <2>2. private_queue[t] \o d \in Seq(Op \cup {Desc})
      <3>0. <<>> \in Seq(Op \cup {Desc}) /\ <<Desc>> \in Seq(Op \cup {Desc})
        BY SMTT(90)
      <3>1. private_queue[t] \in Seq(Op \cup {Desc}) /\ d \in Seq(Op \cup {Desc})
        BY ZenonT(60), <1>1, <1>3, <2>1, <3>0
      <3> QED BY ZenonT(60), <3>1, ConcatElements
    <2> QED BY ZenonT(60), <1>1, <1>3, <2>1, <2>2, ExceptFacts
  <1>5. pc' \in [Thread -> PcValue] /\ pc'[t] = "returned" /\ \A u \in Thread : u # t => pc'[u] = pc[u]
    <2>1. "returned" \in PcValue /\ pc \in [Thread -> PcValue]
      BY ZenonT(60) DEF PcValue, SchedulerInv, TypeOK
    <2> QED BY ZenonT(60), <1>1, <2>1, ExceptFacts DEF Goes
  <1>6. armed' \in BOOLEAN
    BY ZenonT(60), <1>1
  <1>7. TypeOK'
    BY ZenonT(60), <1>1, <1>2, <1>4, <1>5, <1>6 DEF SchedulerInv, TypeOK
  <1>8. private_work[t] = 0 /\ current[t] \notin Op /\ t \notin Poster
    BY ZenonT(60), <1>1 DEF SchedulerInv, PrivatePlaced
  <1>9. PrivatePlaced'
    BY ZenonT(60), <1>1, <1>2, <1>4, <1>5, <1>8, PrivateOf
  <1>10. \A u \in Runner : u # t => pc'[u] = pc[u]
    BY ZenonT(60), <1>5, RunnerIsThread
  <1>11. \A u \in Runner : (InReactor(u)' <=> InReactor(u)) /\ (u # t => ~InReactor(u))
    <2>1. InReactor(t) /\ InReactor(t)'
      BY ZenonT(60), <1>1, <1>5 DEF InReactor
    <2>2. \A u \in Runner : u # t => ~InReactor(u)
      BY ZenonT(60), <2>1 DEF SchedulerInv, TaskPlaced
    <2> QED BY ZenonT(60), <1>10, <2>1, <2>2 DEF InReactor
  <1>12. TaskPlaced' /\ InterruptKnown'
    <2>1. \A u \in Runner : pc'[u] # "block"
      BY ZenonT(60), <1>5, <1>10, <1>11 DEF InReactor
    <2> QED BY ZenonT(60), <1>1, <1>11, <2>1 DEF SchedulerInv, TaskPlaced, TaskOnce, InFront, Has, InterruptKnown
  <1>13. OneRuns'
    BY ZenonT(60), <1>1, <1>5, OneKept
  <1>14. EventSet' /\ WorkIsSeen'
    <2>1. Awake(t)'
      BY ZenonT(60), <1>5 DEF Awake
    <2> QED BY ZenonT(60), <1>5, <2>1 DEF EventSet, WorkIsSeen
  <1>15. StopWakesAll'
    <2>1. \A u \in Runner : Asleep(u)' => Asleep(u)
      BY ZenonT(60), <1>1, <1>5, <1>10, <1>11 DEF Asleep, Awake, InReactor
    <2> QED BY ZenonT(60), <1>1, <2>1 DEF SchedulerInv, StopWakesAll
  <1> QED BY ZenonT(60), <1>7, <1>9, <1>12, <1>13, <1>14, <1>15 DEF SchedulerInv

\* stop_all_threads leaves nobody asleep.
LEMMA StopAllInv ==
    ASSUME SchedulerInv, NEW t \in Thread, NEW next, StopAll(t, next),
           \/ next = pc[t] /\ pc[t] \in {"out", "handler"}
           \/ /\ pc[t] = "stop" /\ next \in {"publish", "look", "out"}
              /\ next \in {"look", "out"} => private_queue[t] = <<>>,
           UNCHANGED <<one_thread, op_queue, outstanding_work, task, io, mode, current,
                       privateVars, callVars, historyVars>>
    PROVE  SchedulerInv'
  <1>1. UNCHANGED <<private_queue, private_work, call, arg, given, done>>
    BY ZenonT(60) DEF privateVars, callVars, historyVars
  <1>2. \A p \in PcValue : Woken(p) \in PcValue
    BY ZenonT(60) DEF Woken, PcValue
  <1>3. next \in PcValue
    BY ZenonT(60) DEF PcValue
  <1>4. pc' = [u \in Thread |-> IF u = t THEN next ELSE Woken(pc[u])]
    BY ZenonT(60) DEF StopAll
  <1>5. pc \in [Thread -> PcValue] /\ task_interrupted \in BOOLEAN /\ armed \in BOOLEAN /\ task \in BOOLEAN
    BY ZenonT(60) DEF SchedulerInv, TypeOK
  <1>6. pc' \in [Thread -> PcValue] /\ pc'[t] = next /\ \A u \in Thread : u # t => pc'[u] = Woken(pc[u])
    BY ZenonT(60), <1>2, <1>3, <1>4, <1>5
  <1>7. /\ stopped' = TRUE /\ event' = TRUE /\ task_interrupted' = (task_interrupted \/ task)
        /\ armed' = (armed \/ (~task_interrupted /\ task))
    BY ZenonT(60) DEF StopAll, Interrupt
  <1>8. stopped' \in BOOLEAN /\ event' \in BOOLEAN /\ task_interrupted' \in BOOLEAN /\ armed' \in BOOLEAN
    BY ZenonT(60), <1>5, <1>7
  <1>9. TypeOK'
    BY ZenonT(60), <1>1, <1>6, <1>8 DEF SchedulerInv, TypeOK
  <1>10. \A u \in Runner : u # t => pc'[u] = Woken(pc[u])
    BY ZenonT(60), <1>6, RunnerIsThread
  <1>11. \A u \in Runner : (InReactor(u)' <=> InReactor(u)) /\ (pc'[u] = "block" <=> pc[u] = "block")
    BY ZenonT(60), <1>6, <1>10 DEF InReactor, Woken
  <1>12. TaskPlaced'
    BY ZenonT(60), <1>11 DEF SchedulerInv, TaskPlaced, TaskOnce, InFront, Has
  <1>13. \A u \in Runner : pc'[u] = "block" => armed'
    <2>1. \A u \in Runner : pc'[u] = "block" => task /\ (task_interrupted => armed)
      BY ZenonT(60), <1>11 DEF SchedulerInv, TaskPlaced, InReactor, InterruptKnown
    <2> QED BY ZenonT(60), <1>5, <1>7, <2>1
  <1>14. \A u \in Runner : ~Asleep(u)'
    <2>1. \A u \in Runner : pc'[u] # "wait"
      BY ZenonT(60), <1>6, <1>10 DEF Woken
    <2> QED BY ZenonT(60), <1>7, <1>13, <2>1 DEF Asleep, Awake
  <1>15. InterruptKnown' /\ EventSet' /\ WorkIsSeen' /\ StopWakesAll'
    BY ZenonT(60), <1>7, <1>13, <1>14 DEF InterruptKnown, EventSet, WorkIsSeen, StopWakesAll
  <1>16. OneRuns'
    <2>1. \A u \in Runner : pc'[u] # "out" => pc[u] # "out"
      BY ZenonT(60), <1>6, <1>10 DEF Woken
    <2> QED BY ZenonT(60), <2>1 DEF SchedulerInv, OneRuns
  <1>17. PrivatePlaced'
    <2> SUFFICES ASSUME NEW u \in Thread
                 PROVE  /\ u \in Poster => pc'[u] = "out"
                        /\ pc'[u] \notin {"returned", "descriptor", "handler", "cleanup", "stop", "publish"}
                             => private_queue[u] = <<>>
                        /\ pc'[u] # "returned" => ~Has(private_queue[u], Desc)
                        /\ pc'[u] \notin {"handler", "cleanup"} => private_work[u] = 0
                        /\ pc'[u] = "handler" <=> current[u] \in Op
                        /\ pc'[u] \in {"timed", "timed_woken"} => mode[u] = "wait_one"
                        /\ call[u] = "push" => pc'[u] \in {"out", "handler"}
      BY ZenonT(60), <1>1 DEF PrivatePlaced, Has
    <2>1. /\ u \in Poster => pc[u] = "out"
          /\ pc[u] \notin {"returned", "descriptor", "handler", "cleanup", "stop", "publish"}
               => private_queue[u] = <<>>
          /\ pc[u] # "returned" => ~Has(private_queue[u], Desc)
          /\ pc[u] \notin {"handler", "cleanup"} => private_work[u] = 0
          /\ pc[u] = "handler" <=> current[u] \in Op
          /\ pc[u] \in {"timed", "timed_woken"} => mode[u] = "wait_one"
          /\ call[u] = "push" => pc[u] \in {"out", "handler"}
      BY ZenonT(60) DEF SchedulerInv, PrivatePlaced
    <2>2. CASE u = t
      BY ZenonT(60), <1>6, <2>1, <2>2
    <2>3. CASE u # t /\ pc'[u] = pc[u]
      BY ZenonT(60), <2>1, <2>3
    <2>4. CASE u # t /\ pc'[u] # pc[u]
      <3>1. pc[u] \in {"wait", "timed"} /\ pc'[u] \in {"woken", "timed_woken"}
            /\ (pc'[u] = "timed_woken" => pc[u] = "timed")
        BY ZenonT(60), <1>6, <2>4 DEF Woken
      <3> QED BY ZenonT(60), <2>1, <3>1
    <2> QED BY ZenonT(60), <2>2, <2>3, <2>4
  <1> QED BY ZenonT(60), <1>9, <1>12, <1>15, <1>16, <1>17 DEF SchedulerInv

LEMMA StopInv == ASSUME SchedulerInv, NEW t \in Thread, Stop(t) PROVE SchedulerInv'
  BY ZenonT(60), MayCallPlace, StopAllInv DEF Stop

LEMMA StopWithoutWorkInv == ASSUME SchedulerInv, NEW t \in Thread, StopWithoutWork(t) PROVE SchedulerInv'
  <1>1. /\ AfterCount(t) \in {"publish", "look", "out"}
        /\ AfterCount(t) \in {"look", "out"} => private_queue[t] = <<>>
    BY ZenonT(60) DEF AfterCount
  <1> QED BY ZenonT(60), <1>1, StopAllInv DEF StopWithoutWork

LEMMA RestartInv == ASSUME SchedulerInv, Restart PROVE SchedulerInv'
  <1>1. stopped' = FALSE /\ \A t \in Runner : pc[t] = "out"
    BY ZenonT(60) DEF Restart
  <1>2. UNCHANGED <<one_thread, queueVars, outstanding_work, task, io, placeVars, privateVars, callVars, historyVars>>
    BY ZenonT(60) DEF Restart
  <1>3. UNCHANGED <<op_queue, task_interrupted, event, armed, pc, mode, current, private_queue, private_work,
                    call, arg, given, done>>
    BY ZenonT(60), <1>2 DEF queueVars, placeVars, privateVars, callVars, historyVars
  <1>4. stopped' \in BOOLEAN
    BY ZenonT(60), <1>1
  <1>5. TypeOK'
    BY ZenonT(60), <1>2, <1>3, <1>4 DEF SchedulerInv, TypeOK
  <1>6. TaskPlaced' /\ PrivatePlaced' /\ InterruptKnown' /\ OneRuns' /\ EventSet'
    BY ZenonT(60), <1>2, <1>3 DEF SchedulerInv, TaskPlaced, TaskOnce, InFront, Has, InReactor,
         PrivatePlaced, InterruptKnown, OneRuns, EventSet
  <1>7. WorkIsSeen' /\ StopWakesAll'
    <2>1. \A t \in Runner : ~Asleep(t)'
      BY ZenonT(60), <1>1, <1>3 DEF Asleep
    <2> QED BY ZenonT(60), <2>1 DEF WorkIsSeen, StopWakesAll
  <1> QED BY ZenonT(60), <1>5, <1>6, <1>7 DEF SchedulerInv

-----------------------------------------------------------------------------
(* The theorems.                                                           *)

LEMMA InitInv == Init => SchedulerInv
  <1> SUFFICES ASSUME Init PROVE SchedulerInv
    BY ZenonT(60)
  <1>1. TypeOK
    <2>1. /\ one_thread \in BOOLEAN /\ stopped \in BOOLEAN /\ task \in BOOLEAN
          /\ task_interrupted \in BOOLEAN /\ event \in BOOLEAN /\ armed \in BOOLEAN
          /\ given \subseteq Op /\ done \subseteq Op
      BY ZenonT(60) DEF Init
    <2>2. op_queue \in Seq(Operation) /\ io \in Seq(Op) /\ outstanding_work \in Int
      BY SMTT(90) DEF Init
    <2>3. "out" \in PcValue /\ "leave" \in Calls \cup {"leave"} /\ None \in Op \cup {Desc, None}
          /\ "idle" \in {"idle", "push", "signal"}
      BY ZenonT(60) DEF PcValue
    <2>4. <<>> \in Seq(Op \cup {Desc}) /\ <<>> \in Seq(Op) /\ 0 \in Nat
      BY SMTT(90)
    <2>5. /\ pc \in [Thread -> PcValue] /\ mode \in [Thread -> Calls \cup {"leave"}]
          /\ current \in [Thread -> Op \cup {Desc, None}]
      BY ZenonT(60), <2>3 DEF Init
    <2>6. /\ private_queue \in [Thread -> Seq(Op \cup {Desc})] /\ private_work \in [Thread -> Nat]
          /\ call \in [Thread -> {"idle", "push", "signal"}] /\ arg \in [Thread -> Seq(Op)]
      BY ZenonT(60), <2>3, <2>4 DEF Init
    <2> QED BY ZenonT(60), <2>1, <2>2, <2>5, <2>6 DEF TypeOK
  <1>2. \A t \in Thread : /\ pc[t] = "out" /\ private_queue[t] = <<>> /\ private_work[t] = 0
                          /\ current[t] = None /\ call[t] = "idle"
    BY ZenonT(60) DEF Init
  <1>3. \A t \in Runner : pc[t] = "out"
    BY ZenonT(60), <1>2, RunnerIsThread
  <1>4. op_queue = <<>> /\ stopped = FALSE
    BY ZenonT(60) DEF Init
  <1>5. TaskPlaced
    <2>1. TaskOnce(op_queue) /\ InFront(op_queue) /\ ~Has(op_queue, Task)
      BY ZenonT(60), <1>4, EmptyQueueOk DEF QueueOk
    <2> QED BY ZenonT(60), <1>3, <2>1 DEF TaskPlaced, InReactor
  <1>6. PrivatePlaced
    <2>1. ~Has(<<>>, Desc) /\ None \notin Op
      BY ZenonT(60), EmptyHasNothing, OpAssumption
    <2> QED BY ZenonT(60), <1>2, <2>1 DEF PrivatePlaced
  <1>7. InterruptKnown /\ OneRuns /\ EventSet /\ WorkIsSeen /\ StopWakesAll
    BY ZenonT(60), <1>3, <1>4 DEF InterruptKnown, OneRuns, EventSet, WorkIsSeen, StopWakesAll, Asleep
  <1> QED BY ZenonT(60), <1>1, <1>5, <1>6, <1>7 DEF SchedulerInv

LEMMA StutterInv == ASSUME SchedulerInv, UNCHANGED vars PROVE SchedulerInv'
  <1>1. UNCHANGED <<one_thread, queueVars, stopped, outstanding_work, task, io,
                    placeVars, privateVars, callVars, historyVars>>
    BY ZenonT(60) DEF vars
  <1>2. UNCHANGED <<op_queue, task_interrupted, event, armed, pc, mode, current, private_queue, private_work,
                    call, arg, given, done, one_thread, stopped, outstanding_work, task, io>>
    BY ZenonT(60), <1>1 DEF queueVars, placeVars, privateVars, callVars, historyVars
  <1>3. TypeOK'
    BY ZenonT(60), <1>2 DEF SchedulerInv, TypeOK
  <1>4. TaskPlaced' /\ PrivatePlaced' /\ InterruptKnown' /\ OneRuns' /\ EventSet'
    BY ZenonT(60), <1>2 DEF SchedulerInv, TaskPlaced, TaskOnce, InFront, Has, InReactor,
         PrivatePlaced, InterruptKnown, OneRuns, EventSet
  <1>5. WorkIsSeen' /\ StopWakesAll'
    BY ZenonT(60), <1>2 DEF SchedulerInv, WorkIsSeen, StopWakesAll, SignalComes, Asleep, Awake
  <1> QED BY ZenonT(60), <1>3, <1>4, <1>5 DEF SchedulerInv

LEMMA StepInv == ASSUME SchedulerInv, NEW t \in Thread, Step(t) PROVE SchedulerInv'
  BY ZenonT(60), LookFirstInv, WakeUpInv, TimedWakeUpInv, TaskCleanupInv, PerformIoInv, WorkCleanupInv,
     StopWithoutWorkInv, PublishInv, PushInv, SignalInv DEF Step

LEMMA NextInv == ASSUME SchedulerInv, [Next]_vars PROVE SchedulerInv'
  <1>1. ASSUME NEW t \in Runner, Enter(t) \/ ReactorReturns(t) \/ EndHandler(t) \/ SpuriousWakeUp(t)
        PROVE  SchedulerInv'
    BY ZenonT(60), <1>1, EnterInv, ReactorReturnsInv, EndHandlerInv, SpuriousInv
  <1>2. ASSUME NEW t \in Thread, NEW o \in Op, Post(t, o) \/ StartIo(t, o) PROVE SchedulerInv'
    BY ZenonT(60), <1>2, PostInv, StartIoInv
  <1>3. ASSUME NEW t \in Thread, CancelIo(t) \/ InitTask(t) \/ Stop(t) PROVE SchedulerInv'
    BY ZenonT(60), <1>3, CancelIoInv, InitTaskInv, StopInv
  <1> QED BY ZenonT(60), <1>1, <1>2, <1>3, StepInv, RestartInv, StutterInv DEF Next

\* SchedulerInv is an invariant for any threads and operations: every step of
\* do_run_one, do_poll_one, do_wait_one, their cleanups, the posts, the reactor,
\* stop and restart keeps it.
THEOREM SchedulerInvariant == Spec => []SchedulerInv
  <1>1. SchedulerInv /\ [Next]_vars => SchedulerInv'
    BY ZenonT(60), NextInv
  <1> QED BY InitInv, <1>1, PTL DEF Spec

\* wake_one_thread_and_unlock loses no wake-up: a queued operation is never left
\* to threads that all sleep, in posix_event::wait or in the reactor.
THEOREM NoWakeUpIsLost == Spec => []WorkIsSeen
  <1>1. SchedulerInv => WorkIsSeen
    BY ZenonT(60) DEF SchedulerInv
  <1> QED BY <1>1, SchedulerInvariant, PTL

\* stop_all_threads reaches everybody: no thread sleeps in a stopped scheduler.
THEOREM StopReachesAll == Spec => []StopWakesAll
  <1>1. SchedulerInv => StopWakesAll
    BY ZenonT(60) DEF SchedulerInv
  <1> QED BY <1>1, SchedulerInvariant, PTL

\* epoll_reactor::run finds no descriptor operation still queued, because
\* task_cleanup puts the task behind them.
THEOREM ReactorFindsNone == Spec => []DescriptorDequeued
  <1>1. ASSUME SchedulerInv PROVE DescriptorDequeued
    <2> SUFFICES ASSUME NEW t \in Runner, pc[t] \in {"peek", "block"}
                 PROVE  ~Has(op_queue, Desc) /\ \A u \in Thread : ~Has(private_queue[u], Desc)
      BY ZenonT(60) DEF DescriptorDequeued
    <2>1. InReactor(t) /\ QueueOk(op_queue)
      BY ZenonT(60), <1>1 DEF InReactor, SchedulerInv, TypeOK, TaskPlaced, QueueOk
    <2>2. ~Has(op_queue, Task)
      BY ZenonT(60), <1>1, <2>1 DEF SchedulerInv, TaskPlaced
    <2>3. \A u \in Runner : pc[u] # "returned"
      BY ZenonT(60), <1>1, <2>1 DEF SchedulerInv, TaskPlaced, InReactor
    <2>4. \A u \in Poster : pc[u] # "returned"
      BY ZenonT(60), <1>1 DEF SchedulerInv, PrivatePlaced, Thread
    <2>5. \A u \in Thread : ~Has(private_queue[u], Desc)
      BY ZenonT(60), <1>1, <2>3, <2>4 DEF SchedulerInv, PrivatePlaced, Thread
    <2> QED BY ZenonT(60), <2>1, <2>2, <2>5, NoTaskNoDesc
  <1>2. SchedulerInv => DescriptorDequeued
    BY ZenonT(60), <1>1
  <1> QED BY <1>2, SchedulerInvariant, PTL

-----------------------------------------------------------------------------
(* Sequences of operations, and the places that keep them.                 *)

Item == Op \cup {Task, Desc, None}

LEMMA ConcatHas ==
    ASSUME NEW q \in Seq(Item), NEW s \in Seq(Item)
    PROVE  q \o s \in Seq(Item) /\ \A o : Has(q \o s, o) <=> Has(q, o) \/ Has(s, o)
  <1>1. /\ q \o s \in Seq(Item)
        /\ \A k \in DOMAIN q : k \in DOMAIN (q \o s) /\ (q \o s)[k] = q[k]
        /\ \A k \in DOMAIN (q \o s) : k \in DOMAIN q \/ (k > Len(q) /\ k - Len(q) \in DOMAIN s
                                                          /\ (q \o s)[k] = s[k - Len(q)])
    BY ZenonT(60), ConcatElements
  <1>2. \A k \in DOMAIN s : k + Len(q) \in DOMAIN (q \o s) /\ (q \o s)[k + Len(q)] = s[k]
    BY SMTT(90)
  <1> QED BY ZenonT(60), <1>1, <1>2 DEF Has

\* A concatenation repeats no operation if its parts do not, and share none.
LEMMA ConcatSingle ==
    ASSUME NEW q \in Seq(Item), NEW s \in Seq(Item)
    PROVE  Single(q \o s) <=> Single(q) /\ Single(s) /\ \A o \in Op : ~(Has(q, o) /\ Has(s, o))
  <1>1. /\ \A k \in DOMAIN q : k \in DOMAIN (q \o s) /\ (q \o s)[k] = q[k]
        /\ \A k \in DOMAIN (q \o s) : k \in DOMAIN q \/ (k > Len(q) /\ k - Len(q) \in DOMAIN s
                                                          /\ (q \o s)[k] = s[k - Len(q)])
    BY ZenonT(60), ConcatElements
  <1>2. \A k \in DOMAIN s : k + Len(q) \in DOMAIN (q \o s) /\ (q \o s)[k + Len(q)] = s[k]
                            /\ k + Len(q) \notin DOMAIN q
    BY SMTT(90)
  <1>3. Len(q) \in Nat /\ DOMAIN q \subseteq Nat /\ DOMAIN s \subseteq Nat /\ DOMAIN (q \o s) \subseteq Nat
    BY SMTT(90)
  <1>4. ASSUME Single(q \o s) PROVE Single(q) /\ Single(s) /\ \A o \in Op : ~(Has(q, o) /\ Has(s, o))
    <2>1. Single(q)
      BY ZenonT(60), <1>1, <1>4 DEF Single
    <2>2. Single(s)
      <3> SUFFICES ASSUME NEW j \in DOMAIN s, NEW k \in DOMAIN s, s[j] = s[k], s[j] \in Op PROVE j = k
        BY ZenonT(60) DEF Single
      <3>1. j + Len(q) = k + Len(q)
        BY ZenonT(60), <1>2, <1>4 DEF Single
      <3> QED BY SMTT(90), <1>3, <3>1
    <2>3. \A o \in Op : ~(Has(q, o) /\ Has(s, o))
      <3> SUFFICES ASSUME NEW j \in DOMAIN q, NEW k \in DOMAIN s, q[j] = s[k], q[j] \in Op PROVE FALSE
        BY ZenonT(60) DEF Has
      <3>1. j = k + Len(q)
        BY ZenonT(60), <1>1, <1>2, <1>4 DEF Single
      <3> QED BY ZenonT(60), <1>2, <3>1
    <2> QED BY ZenonT(60), <2>1, <2>2, <2>3
  <1>5. ASSUME Single(q), Single(s), \A o \in Op : ~(Has(q, o) /\ Has(s, o)) PROVE Single(q \o s)
    <2> SUFFICES ASSUME NEW j \in DOMAIN (q \o s), NEW k \in DOMAIN (q \o s),
                        (q \o s)[j] = (q \o s)[k], (q \o s)[j] \in Op
                 PROVE  j = k
      BY ZenonT(60) DEF Single
    <2>1. CASE j \in DOMAIN q /\ k \in DOMAIN q
      BY ZenonT(60), <1>1, <1>5, <2>1 DEF Single
    <2>2. CASE j \in DOMAIN q /\ k \notin DOMAIN q
      BY ZenonT(60), <1>1, <1>5, <2>2 DEF Has
    <2>3. CASE j \notin DOMAIN q /\ k \in DOMAIN q
      BY ZenonT(60), <1>1, <1>5, <2>3 DEF Has
    <2>4. CASE j \notin DOMAIN q /\ k \notin DOMAIN q
      <3>1. j - Len(q) = k - Len(q)
        BY ZenonT(60), <1>1, <1>5, <2>4 DEF Single
      <3> QED BY SMTT(90), <1>3, <3>1
    <2> QED BY ZenonT(60), <2>1, <2>2, <2>3, <2>4
  <1> QED BY ZenonT(60), <1>4, <1>5

LEMMA OneItem ==
    ASSUME NEW x \in Item
    PROVE  <<x>> \in Seq(Item) /\ Single(<<x>>) /\ \A o : Has(<<x>>, o) <=> o = x
  <1>1. <<x>> \in Seq(Item) /\ DOMAIN <<x>> = {1} /\ <<x>>[1] = x
    BY SMTT(90)
  <1> QED BY ZenonT(60), <1>1 DEF Single, Has

LEMMA NoItem == <<>> \in Seq(Item) /\ Single(<<>>) /\ \A o : ~Has(<<>>, o)
  BY SMTT(90) DEF Single, Has

LEMMA HeadTail ==
    ASSUME NEW q \in Seq(Item), q # <<>>
    PROVE  Head(q) \in Item /\ Tail(q) \in Seq(Item) /\ <<Head(q)>> \in Seq(Item) /\ q = <<Head(q)>> \o Tail(q)
  BY SMTT(90)

\* Operations move between two places and stay what they were.
LEMMA Move ==
    ASSUME NEW F, NEW G, NEW S, NEW a \in Place, NEW b \in Place, HeldOnce(F, S),
           \A p \in Place : p # a /\ p # b => G[p] = F[p],
           Single(G[a]), Single(G[b]),
           \A o \in Op : Has(G[a], o) \/ Has(G[b], o) <=> Has(F[a], o) \/ Has(F[b], o),
           a # b => \A o \in Op : ~(Has(G[a], o) /\ Has(G[b], o))
    PROVE  HeldOnce(G, S)
  <1>1. \A p \in Place : Single(G[p])
    BY ZenonT(60) DEF HeldOnce
  <1>2. ASSUME NEW o \in Op, NEW p \in Place, Has(G[p], o), NEW r \in Place, Has(G[r], o) PROVE r = p
    <2>1. \A x, y \in Place : Has(F[x], o) /\ Has(F[y], o) => x = y
      BY ZenonT(60) DEF HeldOnce
    <2>2. CASE p \in {a, b} /\ r \in {a, b}
      BY SMTT(90), <1>2, <2>2
    <2>3. CASE p \in {a, b} /\ r \notin {a, b}
      <3>1. Has(F[r], o) /\ (Has(F[a], o) \/ Has(F[b], o))
        BY ZenonT(60), <1>2, <2>3
      <3> QED BY ZenonT(60), <2>1, <2>3, <3>1
    <2>4. CASE p \notin {a, b} /\ r \in {a, b}
      <3>1. Has(F[p], o) /\ (Has(F[a], o) \/ Has(F[b], o))
        BY ZenonT(60), <1>2, <2>4
      <3> QED BY ZenonT(60), <2>1, <2>4, <3>1
    <2>5. CASE p \notin {a, b} /\ r \notin {a, b}
      <3>1. Has(F[p], o) /\ Has(F[r], o)
        BY ZenonT(60), <1>2, <2>5
      <3> QED BY ZenonT(60), <2>1, <3>1
    <2> QED BY ZenonT(60), <2>2, <2>3, <2>4, <2>5
  <1>3. ASSUME NEW o \in Op PROVE o \in S <=> \E p \in Place : Has(G[p], o)
    <2>1. o \in S <=> \E p \in Place : Has(F[p], o)
      BY ZenonT(60) DEF HeldOnce
    <2>2. ASSUME NEW p \in Place, Has(F[p], o) PROVE \E r \in Place : Has(G[r], o)
      BY ZenonT(60), <2>2
    <2>3. ASSUME NEW p \in Place, Has(G[p], o) PROVE \E r \in Place : Has(F[r], o)
      BY ZenonT(60), <2>3
    <2> QED BY ZenonT(60), <2>1, <2>2, <2>3
  <1> QED BY ZenonT(60), <1>1, <1>2, <1>3 DEF HeldOnce

\* The first operations u of place a go behind those of place b.
LEMMA MoveSome ==
    ASSUME NEW F, NEW G, NEW S, NEW a \in Place, NEW b \in Place, a # b, HeldOnce(F, S),
           \A p \in Place : p # a /\ p # b => G[p] = F[p],
           NEW u \in Seq(Item), NEW v \in Seq(Item), F[a] = u \o v, F[b] \in Seq(Item),
           G[a] = v, G[b] = F[b] \o u
    PROVE  HeldOnce(G, S)
  <1>1. Single(u) /\ Single(v) /\ \A o \in Op : ~(Has(u, o) /\ Has(v, o))
    <2>1. Single(u \o v)
      BY ZenonT(60) DEF HeldOnce
    <2> QED BY ZenonT(60), <2>1, ConcatSingle
  <1>2. \A o : Has(F[a], o) <=> Has(u, o) \/ Has(v, o)
    <2>1. \A o : Has(u \o v, o) <=> Has(u, o) \/ Has(v, o)
      BY ZenonT(60), ConcatHas
    <2> QED BY ZenonT(60), <2>1
  <1>3. \A o : Has(G[b], o) <=> Has(F[b], o) \/ Has(u, o)
    <2>1. \A o : Has(F[b] \o u, o) <=> Has(F[b], o) \/ Has(u, o)
      BY ZenonT(60), ConcatHas
    <2> QED BY ZenonT(60), <2>1
  <1>4. Single(F[b]) /\ \A o \in Op : ~(Has(F[b], o) /\ Has(F[a], o))
    BY ZenonT(60) DEF HeldOnce
  <1>5. Single(G[b])
    <2>1. \A o \in Op : ~(Has(F[b], o) /\ Has(u, o))
      BY ZenonT(60), <1>2, <1>4
    <2>2. Single(F[b] \o u)
      BY ZenonT(60), <1>1, <1>4, <2>1, ConcatSingle
    <2> QED BY ZenonT(60), <2>2
  <1>6. \A o \in Op : Has(G[a], o) \/ Has(G[b], o) <=> Has(F[a], o) \/ Has(F[b], o)
    BY ZenonT(60), <1>2, <1>3
  <1>7. \A o \in Op : ~(Has(G[a], o) /\ Has(G[b], o))
    BY ZenonT(60), <1>1, <1>2, <1>3, <1>4
  <1> QED BY ZenonT(60), <1>1, <1>5, <1>6, <1>7, Move

\* The first operation of place a goes to the hands b, which are free.
LEMMA MoveFirst ==
    ASSUME NEW F, NEW G, NEW S, NEW a \in Place, NEW b \in Place, a # b, HeldOnce(F, S),
           \A p \in Place : p # a /\ p # b => G[p] = F[p],
           F[a] \in Seq(Item), F[a] # <<>>, NEW x \in Item \ Op, F[b] = <<x>>,
           G[a] = Tail(F[a]), G[b] = <<Head(F[a])>>
    PROVE  HeldOnce(G, S)
  <1>1. /\ Head(F[a]) \in Item /\ Tail(F[a]) \in Seq(Item) /\ <<Head(F[a])>> \in Seq(Item)
        /\ F[a] = <<Head(F[a])>> \o Tail(F[a])
    BY ZenonT(60), HeadTail
  <1>2. Single(F[a])
    BY ZenonT(60) DEF HeldOnce
  <1>3. /\ Single(<<Head(F[a])>>) /\ Single(Tail(F[a]))
        /\ \A o \in Op : ~(Has(<<Head(F[a])>>, o) /\ Has(Tail(F[a]), o))
    <2>1. Single(<<Head(F[a])>> \o Tail(F[a]))
      BY ZenonT(60), <1>1, <1>2
    <2> QED BY ZenonT(60), <1>1, <2>1, ConcatSingle
  <1>4. \A o : Has(F[a], o) <=> Has(<<Head(F[a])>>, o) \/ Has(Tail(F[a]), o)
    <2>1. \A o : Has(<<Head(F[a])>> \o Tail(F[a]), o) <=> Has(<<Head(F[a])>>, o) \/ Has(Tail(F[a]), o)
      BY ZenonT(60), <1>1, ConcatHas
    <2> QED BY ZenonT(60), <1>1, <2>1
  <1>5. \A o \in Op : ~Has(F[b], o)
    <2>1. x \in Item /\ x \notin Op
      OBVIOUS
    <2>2. \A o : Has(<<x>>, o) <=> o = x
      BY ZenonT(60), <2>1, OneItem
    <2> QED BY ZenonT(60), <2>1, <2>2
  <1>6. \A o \in Op : Has(G[a], o) \/ Has(G[b], o) <=> Has(F[a], o) \/ Has(F[b], o)
    BY ZenonT(60), <1>4, <1>5
  <1>7. Single(G[a]) /\ Single(G[b]) /\ \A o \in Op : ~(Has(G[a], o) /\ Has(G[b], o))
    BY ZenonT(60), <1>3
  <1> QED BY ZenonT(60), <1>6, <1>7, Move

\* One place changes: operations that were nowhere come, or operations go.
LEMMA Change ==
    ASSUME NEW F, NEW G, NEW S, NEW S2, NEW a \in Place, HeldOnce(F, S),
           \A p \in Place : p # a => G[p] = F[p],
           Single(G[a]),
           \A o \in Op : Has(G[a], o) => Has(F[a], o) \/ o \notin S,
           \A o \in Op : o \in S2 <=> Has(G[a], o) \/ (o \in S /\ ~Has(F[a], o))
    PROVE  HeldOnce(G, S2)
  <1>1. \A p \in Place : Single(G[p])
    BY ZenonT(60) DEF HeldOnce
  <1>2. ASSUME NEW o \in Op, NEW p \in Place, Has(G[p], o), NEW r \in Place, Has(G[r], o) PROVE r = p
    <2>1. \A x, y \in Place : Has(F[x], o) /\ Has(F[y], o) => x = y
      BY ZenonT(60) DEF HeldOnce
    <2>2. \A x \in Place : Has(F[x], o) => o \in S
      BY ZenonT(60) DEF HeldOnce
    <2>3. CASE p = a /\ r # a
      <3>1. Has(F[r], o) /\ o \in S /\ Has(F[a], o)
        BY ZenonT(60), <1>2, <2>2, <2>3
      <3> QED BY ZenonT(60), <2>1, <2>3, <3>1
    <2>4. CASE p # a /\ r = a
      <3>1. Has(F[p], o) /\ o \in S /\ Has(F[a], o)
        BY ZenonT(60), <1>2, <2>2, <2>4
      <3> QED BY ZenonT(60), <2>1, <2>4, <3>1
    <2>5. CASE p # a /\ r # a
      <3>1. Has(F[p], o) /\ Has(F[r], o)
        BY ZenonT(60), <1>2, <2>5
      <3> QED BY ZenonT(60), <2>1, <3>1
    <2> QED BY ZenonT(60), <2>3, <2>4, <2>5
  <1>3. ASSUME NEW o \in Op PROVE o \in S2 <=> \E p \in Place : Has(G[p], o)
    <2>1. o \in S <=> \E p \in Place : Has(F[p], o)
      BY ZenonT(60) DEF HeldOnce
    <2>2. ASSUME o \in S, ~Has(F[a], o) PROVE \E r \in Place : Has(G[r], o)
      <3>1. PICK p \in Place : Has(F[p], o)
        BY ZenonT(60), <2>1, <2>2
      <3>2. p # a
        BY ZenonT(60), <2>2, <3>1
      <3> QED BY ZenonT(60), <3>1, <3>2
    <2>3. ASSUME NEW p \in Place, Has(G[p], o), p # a PROVE o \in S /\ ~Has(F[a], o)
      <3>1. Has(F[p], o)
        BY ZenonT(60), <2>3
      <3>2. \A x, y \in Place : Has(F[x], o) /\ Has(F[y], o) => x = y
        BY ZenonT(60) DEF HeldOnce
      <3> QED BY ZenonT(60), <2>1, <2>3, <3>1, <3>2
    <2> QED BY ZenonT(60), <2>2, <2>3
  <1> QED BY ZenonT(60), <1>1, <1>2, <1>3 DEF HeldOnce

\* The places, by name.
QueuePlace == <<"op_queue", None>>
IoPlace == <<"io", None>>
PrivatePlace(t) == <<"private_queue", t>>
ArgPlace(t) == <<"arg", t>>
CurrentPlace(t) == <<"current", t>>

LEMMA PlacesAre ==
    /\ QueuePlace \in Place /\ IoPlace \in Place
    /\ \A t \in Thread : PrivatePlace(t) \in Place /\ ArgPlace(t) \in Place /\ CurrentPlace(t) \in Place
    /\ \A p \in Place : \/ p = QueuePlace \/ p = IoPlace
                        \/ \E t \in Thread : p = PrivatePlace(t) \/ p = ArgPlace(t) \/ p = CurrentPlace(t)
  BY SMTT(90) DEF Place, QueuePlace, IoPlace, PrivatePlace, ArgPlace, CurrentPlace

LEMMA PlacesDiffer ==
    /\ QueuePlace # IoPlace
    /\ \A t : /\ PrivatePlace(t) # QueuePlace /\ PrivatePlace(t) # IoPlace
              /\ ArgPlace(t) # QueuePlace /\ ArgPlace(t) # IoPlace
              /\ CurrentPlace(t) # QueuePlace /\ CurrentPlace(t) # IoPlace
    /\ \A t, u : /\ PrivatePlace(t) # ArgPlace(u) /\ PrivatePlace(t) # CurrentPlace(u)
                 /\ ArgPlace(t) # CurrentPlace(u)
    /\ \A t, u : /\ PrivatePlace(t) = PrivatePlace(u) => t = u
                 /\ ArgPlace(t) = ArgPlace(u) => t = u
                 /\ CurrentPlace(t) = CurrentPlace(u) => t = u
  BY SMTT(90) DEF QueuePlace, IoPlace, PrivatePlace, ArgPlace, CurrentPlace

\* What H holds at each place.
HeldIs(H, q, i, pq, a, c) ==
    /\ H[QueuePlace] = q /\ H[IoPlace] = i
    /\ \A t \in Thread : /\ H[PrivatePlace(t)] = pq[t] /\ H[ArgPlace(t)] = a[t]
                         /\ H[CurrentPlace(t)] = <<c[t]>>

LEMMA HeldAt ==
    ASSUME NEW q, NEW i, NEW pq, NEW a, NEW c
    PROVE  HeldIs(Held(q, i, pq, a, c), q, i, pq, a, c)
  <1> DEFINE H == Held(q, i, pq, a, c)
  <1>1. H[QueuePlace] = q
    BY SMTT(90), PlacesAre DEF Held, QueuePlace
  <1>2. H[IoPlace] = i
    BY SMTT(90), PlacesAre DEF Held, IoPlace
  <1>3. ASSUME NEW t \in Thread PROVE H[PrivatePlace(t)] = pq[t]
    BY SMTT(90), PlacesAre DEF Held, PrivatePlace
  <1>4. ASSUME NEW t \in Thread PROVE H[ArgPlace(t)] = a[t]
    BY SMTT(90), PlacesAre DEF Held, ArgPlace
  <1>5. ASSUME NEW t \in Thread PROVE H[CurrentPlace(t)] = <<c[t]>>
    BY SMTT(90), PlacesAre DEF Held, CurrentPlace
  <1> QED BY ZenonT(60), <1>1, <1>2, <1>3, <1>4, <1>5 DEF HeldIs

\* The members have their types.
Kept(q, i, pq, a, c) ==
    /\ q \in Seq(Item) /\ i \in Seq(Item)
    /\ pq \in [Thread -> Seq(Item)] /\ a \in [Thread -> Seq(Item)] /\ c \in [Thread -> Item]

LEMMA NoneBehind == ASSUME NEW s \in Seq(Item) PROVE s = s \o <<>> /\ s = <<>> \o s
  BY SMTT(90)

\* How the members change.
Joined(x, y, z) == x = y \o z
Popped(s, s2, x) == s # <<>> /\ s2 = Tail(s) /\ x = Head(s)
Replaced(f, f2, t, x) == f2[t] = x /\ \A w \in Thread : w # t => f2[w] = f[w]

\* op_queue_.push(private_op_queue).
LEMMA PrivateToQueue ==
    ASSUME NEW q, NEW i, NEW pq, NEW a, NEW c, NEW q2, NEW pq2, NEW S,
           Kept(q, i, pq, a, c), HeldOnce(Held(q, i, pq, a, c), S), NEW t \in Thread,
           Joined(q2, q, pq[t]),
           Replaced(pq, pq2, t, <<>>)
    PROVE  HeldOnce(Held(q2, i, pq2, a, c), S)
  <1> DEFINE F == Held(q, i, pq, a, c)
             G == Held(q2, i, pq2, a, c)
  <1>1. HeldIs(F, q, i, pq, a, c) /\ HeldIs(G, q2, i, pq2, a, c)
    BY ZenonT(60), HeldAt
  <1>2. HeldOnce(F, S)
    OBVIOUS
  <1> HIDE DEF F, G
  <1>3. \A p \in Place : p # PrivatePlace(t) /\ p # QueuePlace => G[p] = F[p]
    <2>1. \A w \in Thread : w # t => pq2[w] = pq[w]
      BY ZenonT(60) DEF Replaced
    <2> QED BY SMTT(90), <1>1, <2>1, PlacesAre DEF HeldIs
  <1>4. PrivatePlace(t) \in Place /\ QueuePlace \in Place /\ PrivatePlace(t) # QueuePlace
    BY ZenonT(60), PlacesAre, PlacesDiffer
  <1>5. /\ F[PrivatePlace(t)] = pq[t] /\ F[QueuePlace] = q
        /\ G[PrivatePlace(t)] = pq2[t] /\ G[QueuePlace] = q2
    BY ZenonT(60), <1>1 DEF HeldIs
  <1>6. pq[t] \in Seq(Item) /\ <<>> \in Seq(Item) /\ F[QueuePlace] \in Seq(Item)
    BY ZenonT(60), <1>5, NoItem DEF Kept
  <1>7. F[PrivatePlace(t)] = pq[t] \o <<>> /\ G[PrivatePlace(t)] = <<>> /\ G[QueuePlace] = F[QueuePlace] \o pq[t]
    BY ZenonT(60), <1>5, <1>6, NoneBehind DEF Joined, Replaced
  <1>8. HeldOnce(G, S)
    BY ZenonT(60), <1>2, <1>3, <1>4, <1>6, <1>7, MoveSome
  <1> QED BY ZenonT(60), <1>8 DEF G

\* op_queue_.push(op), or push(ops).
LEMMA ArgToQueue ==
    ASSUME NEW q, NEW i, NEW pq, NEW a, NEW c, NEW q2, NEW a2, NEW S,
           Kept(q, i, pq, a, c), HeldOnce(Held(q, i, pq, a, c), S), NEW t \in Thread,
           Joined(q2, q, a[t]),
           Replaced(a, a2, t, <<>>)
    PROVE  HeldOnce(Held(q2, i, pq, a2, c), S)
  <1> DEFINE F == Held(q, i, pq, a, c)
             G == Held(q2, i, pq, a2, c)
  <1>1. HeldIs(F, q, i, pq, a, c) /\ HeldIs(G, q2, i, pq, a2, c)
    BY ZenonT(60), HeldAt
  <1>2. HeldOnce(F, S)
    OBVIOUS
  <1> HIDE DEF F, G
  <1>3. \A p \in Place : p # ArgPlace(t) /\ p # QueuePlace => G[p] = F[p]
    <2>1. \A w \in Thread : w # t => a2[w] = a[w]
      BY ZenonT(60) DEF Replaced
    <2> QED BY SMTT(90), <1>1, <2>1, PlacesAre DEF HeldIs
  <1>4. ArgPlace(t) \in Place /\ QueuePlace \in Place /\ ArgPlace(t) # QueuePlace
    BY ZenonT(60), PlacesAre, PlacesDiffer
  <1>5. /\ F[ArgPlace(t)] = a[t] /\ F[QueuePlace] = q
        /\ G[ArgPlace(t)] = a2[t] /\ G[QueuePlace] = q2
    BY ZenonT(60), <1>1 DEF HeldIs
  <1>6. a[t] \in Seq(Item) /\ <<>> \in Seq(Item) /\ F[QueuePlace] \in Seq(Item)
    BY ZenonT(60), <1>5, NoItem DEF Kept
  <1>7. F[ArgPlace(t)] = a[t] \o <<>> /\ G[ArgPlace(t)] = <<>> /\ G[QueuePlace] = F[QueuePlace] \o a[t]
    BY ZenonT(60), <1>5, <1>6, NoneBehind DEF Joined, Replaced
  <1>8. HeldOnce(G, S)
    BY ZenonT(60), <1>2, <1>3, <1>4, <1>6, <1>7, MoveSome
  <1> QED BY ZenonT(60), <1>8 DEF G

\* op_queue_.pop() for an operation of the user or the descriptor.
LEMMA QueueToCurrent ==
    ASSUME NEW q, NEW i, NEW pq, NEW a, NEW c, NEW q2, NEW c2, NEW S,
           Kept(q, i, pq, a, c), HeldOnce(Held(q, i, pq, a, c), S), NEW t \in Thread,
           c[t] \notin Op, NEW x, Popped(q, q2, x),
           Replaced(c, c2, t, x)
    PROVE  HeldOnce(Held(q2, i, pq, a, c2), S)
  <1> DEFINE F == Held(q, i, pq, a, c)
             G == Held(q2, i, pq, a, c2)
  <1>1. HeldIs(F, q, i, pq, a, c) /\ HeldIs(G, q2, i, pq, a, c2)
    BY ZenonT(60), HeldAt
  <1>2. HeldOnce(F, S)
    OBVIOUS
  <1> HIDE DEF F, G
  <1>3. \A p \in Place : p # QueuePlace /\ p # CurrentPlace(t) => G[p] = F[p]
    <2>1. \A w \in Thread : w # t => c2[w] = c[w]
      BY ZenonT(60) DEF Replaced
    <2> QED BY SMTT(90), <1>1, <2>1, PlacesAre DEF HeldIs
  <1>4. QueuePlace \in Place /\ CurrentPlace(t) \in Place /\ QueuePlace # CurrentPlace(t)
    BY ZenonT(60), PlacesAre, PlacesDiffer
  <1>5. /\ F[QueuePlace] = q /\ F[CurrentPlace(t)] = <<c[t]>>
        /\ G[QueuePlace] = q2 /\ G[CurrentPlace(t)] = <<c2[t]>>
    BY ZenonT(60), <1>1 DEF HeldIs
  <1>6. c[t] \in Item \ Op /\ F[QueuePlace] \in Seq(Item) /\ F[QueuePlace] # <<>>
    BY ZenonT(60), <1>5 DEF Kept, Popped
  <1>7. F[CurrentPlace(t)] = <<c[t]>> /\ G[QueuePlace] = Tail(F[QueuePlace]) /\ G[CurrentPlace(t)] = <<Head(F[QueuePlace])>>
    BY ZenonT(60), <1>5 DEF Popped, Replaced
  <1>8. HeldOnce(G, S)
    BY ZenonT(60), <1>2, <1>3, <1>4, <1>6, <1>7, MoveFirst
  <1> QED BY ZenonT(60), <1>8 DEF G

\* perform_io completes the first operation of the descriptor at once.
LEMMA IoToCurrent ==
    ASSUME NEW q, NEW i, NEW pq, NEW a, NEW c, NEW i2, NEW c2, NEW S,
           Kept(q, i, pq, a, c), HeldOnce(Held(q, i, pq, a, c), S), NEW t \in Thread,
           c[t] \notin Op, NEW x, Popped(i, i2, x),
           Replaced(c, c2, t, x)
    PROVE  HeldOnce(Held(q, i2, pq, a, c2), S)
  <1> DEFINE F == Held(q, i, pq, a, c)
             G == Held(q, i2, pq, a, c2)
  <1>1. HeldIs(F, q, i, pq, a, c) /\ HeldIs(G, q, i2, pq, a, c2)
    BY ZenonT(60), HeldAt
  <1>2. HeldOnce(F, S)
    OBVIOUS
  <1> HIDE DEF F, G
  <1>3. \A p \in Place : p # IoPlace /\ p # CurrentPlace(t) => G[p] = F[p]
    <2>1. \A w \in Thread : w # t => c2[w] = c[w]
      BY ZenonT(60) DEF Replaced
    <2> QED BY SMTT(90), <1>1, <2>1, PlacesAre DEF HeldIs
  <1>4. IoPlace \in Place /\ CurrentPlace(t) \in Place /\ IoPlace # CurrentPlace(t)
    BY ZenonT(60), PlacesAre, PlacesDiffer
  <1>5. /\ F[IoPlace] = i /\ F[CurrentPlace(t)] = <<c[t]>>
        /\ G[IoPlace] = i2 /\ G[CurrentPlace(t)] = <<c2[t]>>
    BY ZenonT(60), <1>1 DEF HeldIs
  <1>6. c[t] \in Item \ Op /\ F[IoPlace] \in Seq(Item) /\ F[IoPlace] # <<>>
    BY ZenonT(60), <1>5 DEF Kept, Popped
  <1>7. F[CurrentPlace(t)] = <<c[t]>> /\ G[IoPlace] = Tail(F[IoPlace]) /\ G[CurrentPlace(t)] = <<Head(F[IoPlace])>>
    BY ZenonT(60), <1>5 DEF Popped, Replaced
  <1>8. HeldOnce(G, S)
    BY ZenonT(60), <1>2, <1>3, <1>4, <1>6, <1>7, MoveFirst
  <1> QED BY ZenonT(60), <1>8 DEF G

\* The first operations s of the descriptor go to the private queue of a thread ...
LEMMA IoToPrivate ==
    ASSUME NEW q, NEW i, NEW pq, NEW a, NEW c, NEW i2, NEW pq2, NEW S,
           Kept(q, i, pq, a, c), HeldOnce(Held(q, i, pq, a, c), S), NEW t \in Thread,
           NEW s \in Seq(Item), i2 \in Seq(Item), Joined(i, s, i2), NEW x, Joined(x, pq[t], s),
           Replaced(pq, pq2, t, x)
    PROVE  HeldOnce(Held(q, i2, pq2, a, c), S)
  <1> DEFINE F == Held(q, i, pq, a, c)
             G == Held(q, i2, pq2, a, c)
  <1>1. HeldIs(F, q, i, pq, a, c) /\ HeldIs(G, q, i2, pq2, a, c)
    BY ZenonT(60), HeldAt
  <1>2. HeldOnce(F, S)
    OBVIOUS
  <1> HIDE DEF F, G
  <1>3. \A p \in Place : p # IoPlace /\ p # PrivatePlace(t) => G[p] = F[p]
    <2>1. \A w \in Thread : w # t => pq2[w] = pq[w]
      BY ZenonT(60) DEF Replaced
    <2> QED BY SMTT(90), <1>1, <2>1, PlacesAre DEF HeldIs
  <1>4. IoPlace \in Place /\ PrivatePlace(t) \in Place /\ IoPlace # PrivatePlace(t)
    BY ZenonT(60), PlacesAre, PlacesDiffer
  <1>5. /\ F[IoPlace] = i /\ F[PrivatePlace(t)] = pq[t]
        /\ G[IoPlace] = i2 /\ G[PrivatePlace(t)] = pq2[t]
    BY ZenonT(60), <1>1 DEF HeldIs
  <1>6. s \in Seq(Item) /\ i2 \in Seq(Item) /\ F[PrivatePlace(t)] \in Seq(Item)
    BY ZenonT(60), <1>5 DEF Kept
  <1>7. F[IoPlace] = s \o i2 /\ G[IoPlace] = i2 /\ G[PrivatePlace(t)] = F[PrivatePlace(t)] \o s
    BY ZenonT(60), <1>5 DEF Joined, Replaced
  <1>8. HeldOnce(G, S)
    BY ZenonT(60), <1>2, <1>3, <1>4, <1>6, <1>7, MoveSome
  <1> QED BY ZenonT(60), <1>8 DEF G

\* ... or to a call that has nothing else to give.
LEMMA IoToArg ==
    ASSUME NEW q, NEW i, NEW pq, NEW a, NEW c, NEW i2, NEW a2, NEW S,
           Kept(q, i, pq, a, c), HeldOnce(Held(q, i, pq, a, c), S), NEW t \in Thread,
           NEW s \in Seq(Item), i2 \in Seq(Item), Joined(i, s, i2), a[t] = <<>>,
           Replaced(a, a2, t, s)
    PROVE  HeldOnce(Held(q, i2, pq, a2, c), S)
  <1> DEFINE F == Held(q, i, pq, a, c)
             G == Held(q, i2, pq, a2, c)
  <1>1. HeldIs(F, q, i, pq, a, c) /\ HeldIs(G, q, i2, pq, a2, c)
    BY ZenonT(60), HeldAt
  <1>2. HeldOnce(F, S)
    OBVIOUS
  <1> HIDE DEF F, G
  <1>3. \A p \in Place : p # IoPlace /\ p # ArgPlace(t) => G[p] = F[p]
    <2>1. \A w \in Thread : w # t => a2[w] = a[w]
      BY ZenonT(60) DEF Replaced
    <2> QED BY SMTT(90), <1>1, <2>1, PlacesAre DEF HeldIs
  <1>4. IoPlace \in Place /\ ArgPlace(t) \in Place /\ IoPlace # ArgPlace(t)
    BY ZenonT(60), PlacesAre, PlacesDiffer
  <1>5. /\ F[IoPlace] = i /\ F[ArgPlace(t)] = a[t]
        /\ G[IoPlace] = i2 /\ G[ArgPlace(t)] = a2[t]
    BY ZenonT(60), <1>1 DEF HeldIs
  <1>6. s \in Seq(Item) /\ i2 \in Seq(Item) /\ F[ArgPlace(t)] \in Seq(Item)
    BY ZenonT(60), <1>5 DEF Kept
  <1>7. F[IoPlace] = s \o i2 /\ G[IoPlace] = i2 /\ G[ArgPlace(t)] = F[ArgPlace(t)] \o s
    BY ZenonT(60), <1>5, NoneBehind DEF Joined, Replaced
  <1>8. HeldOnce(G, S)
    BY ZenonT(60), <1>2, <1>3, <1>4, <1>6, <1>7, MoveSome
  <1> QED BY ZenonT(60), <1>8 DEF G

\* One member changes.
LEMMA QueueChange ==
    ASSUME NEW q, NEW i, NEW pq, NEW a, NEW c, NEW q2, NEW S, NEW S2, HeldOnce(Held(q, i, pq, a, c), S),
           Single(q2), \A o \in Op : Has(q2, o) => Has(q, o) \/ o \notin S,
           \A o \in Op : o \in S2 <=> Has(q2, o) \/ (o \in S /\ ~Has(q, o))
    PROVE  HeldOnce(Held(q2, i, pq, a, c), S2)
  <1> DEFINE F == Held(q, i, pq, a, c)
             G == Held(q2, i, pq, a, c)
  <1>1. HeldIs(F, q, i, pq, a, c) /\ HeldIs(G, q2, i, pq, a, c)
    BY ZenonT(60), HeldAt
  <1>2. HeldOnce(F, S)
    OBVIOUS
  <1> HIDE DEF F, G
  <1>3. \A p \in Place : p # QueuePlace => G[p] = F[p]
    BY SMTT(90), <1>1, PlacesAre DEF HeldIs
  <1>4. F[QueuePlace] = q /\ G[QueuePlace] = q2 /\ QueuePlace \in Place
    BY ZenonT(60), <1>1, PlacesAre DEF HeldIs
  <1>5. /\ Single(G[QueuePlace]) /\ \A o \in Op : Has(G[QueuePlace], o) => Has(F[QueuePlace], o) \/ o \notin S
        /\ \A o \in Op : o \in S2 <=> Has(G[QueuePlace], o) \/ (o \in S /\ ~Has(F[QueuePlace], o))
    BY ZenonT(60), <1>4
  <1>6. HeldOnce(G, S2)
    BY ZenonT(60), <1>2, <1>3, <1>4, <1>5, Change
  <1> QED BY ZenonT(60), <1>6 DEF G

LEMMA IoChange ==
    ASSUME NEW q, NEW i, NEW pq, NEW a, NEW c, NEW i2, NEW S, NEW S2, HeldOnce(Held(q, i, pq, a, c), S),
           Single(i2), \A o \in Op : Has(i2, o) => Has(i, o) \/ o \notin S,
           \A o \in Op : o \in S2 <=> Has(i2, o) \/ (o \in S /\ ~Has(i, o))
    PROVE  HeldOnce(Held(q, i2, pq, a, c), S2)
  <1> DEFINE F == Held(q, i, pq, a, c)
             G == Held(q, i2, pq, a, c)
  <1>1. HeldIs(F, q, i, pq, a, c) /\ HeldIs(G, q, i2, pq, a, c)
    BY ZenonT(60), HeldAt
  <1>2. HeldOnce(F, S)
    OBVIOUS
  <1> HIDE DEF F, G
  <1>3. \A p \in Place : p # IoPlace => G[p] = F[p]
    BY SMTT(90), <1>1, PlacesAre DEF HeldIs
  <1>4. F[IoPlace] = i /\ G[IoPlace] = i2 /\ IoPlace \in Place
    BY ZenonT(60), <1>1, PlacesAre DEF HeldIs
  <1>5. /\ Single(G[IoPlace]) /\ \A o \in Op : Has(G[IoPlace], o) => Has(F[IoPlace], o) \/ o \notin S
        /\ \A o \in Op : o \in S2 <=> Has(G[IoPlace], o) \/ (o \in S /\ ~Has(F[IoPlace], o))
    BY ZenonT(60), <1>4
  <1>6. HeldOnce(G, S2)
    BY ZenonT(60), <1>2, <1>3, <1>4, <1>5, Change
  <1> QED BY ZenonT(60), <1>6 DEF G

LEMMA PrivateChange ==
    ASSUME NEW q, NEW i, NEW pq, NEW a, NEW c, NEW pq2, NEW S, NEW S2, HeldOnce(Held(q, i, pq, a, c), S),
           NEW t \in Thread, NEW x, Replaced(pq, pq2, t, x),
           Single(x), \A o \in Op : Has(x, o) => Has(pq[t], o) \/ o \notin S,
           \A o \in Op : o \in S2 <=> Has(x, o) \/ (o \in S /\ ~Has(pq[t], o))
    PROVE  HeldOnce(Held(q, i, pq2, a, c), S2)
  <1> DEFINE F == Held(q, i, pq, a, c)
             G == Held(q, i, pq2, a, c)
  <1>1. HeldIs(F, q, i, pq, a, c) /\ HeldIs(G, q, i, pq2, a, c)
    BY ZenonT(60), HeldAt
  <1>2. HeldOnce(F, S)
    OBVIOUS
  <1> HIDE DEF F, G
  <1>3. \A p \in Place : p # PrivatePlace(t) => G[p] = F[p]
    <2>1. \A w \in Thread : w # t => pq2[w] = pq[w]
      BY ZenonT(60) DEF Replaced
    <2> QED BY SMTT(90), <1>1, <2>1, PlacesAre DEF HeldIs
  <1>4. F[PrivatePlace(t)] = pq[t] /\ G[PrivatePlace(t)] = x /\ PrivatePlace(t) \in Place
    BY ZenonT(60), <1>1, PlacesAre DEF HeldIs, Replaced
  <1>5. /\ Single(G[PrivatePlace(t)]) /\ \A o \in Op : Has(G[PrivatePlace(t)], o) => Has(F[PrivatePlace(t)], o) \/ o \notin S
        /\ \A o \in Op : o \in S2 <=> Has(G[PrivatePlace(t)], o) \/ (o \in S /\ ~Has(F[PrivatePlace(t)], o))
    BY ZenonT(60), <1>4
  <1>6. HeldOnce(G, S2)
    BY ZenonT(60), <1>2, <1>3, <1>4, <1>5, Change
  <1> QED BY ZenonT(60), <1>6 DEF G

LEMMA ArgChange ==
    ASSUME NEW q, NEW i, NEW pq, NEW a, NEW c, NEW a2, NEW S, NEW S2, HeldOnce(Held(q, i, pq, a, c), S),
           NEW t \in Thread, NEW x, Replaced(a, a2, t, x),
           Single(x), \A o \in Op : Has(x, o) => Has(a[t], o) \/ o \notin S,
           \A o \in Op : o \in S2 <=> Has(x, o) \/ (o \in S /\ ~Has(a[t], o))
    PROVE  HeldOnce(Held(q, i, pq, a2, c), S2)
  <1> DEFINE F == Held(q, i, pq, a, c)
             G == Held(q, i, pq, a2, c)
  <1>1. HeldIs(F, q, i, pq, a, c) /\ HeldIs(G, q, i, pq, a2, c)
    BY ZenonT(60), HeldAt
  <1>2. HeldOnce(F, S)
    OBVIOUS
  <1> HIDE DEF F, G
  <1>3. \A p \in Place : p # ArgPlace(t) => G[p] = F[p]
    <2>1. \A w \in Thread : w # t => a2[w] = a[w]
      BY ZenonT(60) DEF Replaced
    <2> QED BY SMTT(90), <1>1, <2>1, PlacesAre DEF HeldIs
  <1>4. F[ArgPlace(t)] = a[t] /\ G[ArgPlace(t)] = x /\ ArgPlace(t) \in Place
    BY ZenonT(60), <1>1, PlacesAre DEF HeldIs, Replaced
  <1>5. /\ Single(G[ArgPlace(t)]) /\ \A o \in Op : Has(G[ArgPlace(t)], o) => Has(F[ArgPlace(t)], o) \/ o \notin S
        /\ \A o \in Op : o \in S2 <=> Has(G[ArgPlace(t)], o) \/ (o \in S /\ ~Has(F[ArgPlace(t)], o))
    BY ZenonT(60), <1>4
  <1>6. HeldOnce(G, S2)
    BY ZenonT(60), <1>2, <1>3, <1>4, <1>5, Change
  <1> QED BY ZenonT(60), <1>6 DEF G

LEMMA CurrentChange ==
    ASSUME NEW q, NEW i, NEW pq, NEW a, NEW c, NEW c2, NEW S, NEW S2, HeldOnce(Held(q, i, pq, a, c), S),
           NEW t \in Thread, NEW x, Replaced(c, c2, t, x),
           Single(<<x>>), \A o \in Op : Has(<<x>>, o) => Has(<<c[t]>>, o) \/ o \notin S,
           \A o \in Op : o \in S2 <=> Has(<<x>>, o) \/ (o \in S /\ ~Has(<<c[t]>>, o))
    PROVE  HeldOnce(Held(q, i, pq, a, c2), S2)
  <1> DEFINE F == Held(q, i, pq, a, c)
             G == Held(q, i, pq, a, c2)
  <1>1. HeldIs(F, q, i, pq, a, c) /\ HeldIs(G, q, i, pq, a, c2)
    BY ZenonT(60), HeldAt
  <1>2. HeldOnce(F, S)
    OBVIOUS
  <1> HIDE DEF F, G
  <1>3. \A p \in Place : p # CurrentPlace(t) => G[p] = F[p]
    <2>1. \A w \in Thread : w # t => c2[w] = c[w]
      BY ZenonT(60) DEF Replaced
    <2> QED BY SMTT(90), <1>1, <2>1, PlacesAre DEF HeldIs
  <1>4. F[CurrentPlace(t)] = <<c[t]>> /\ G[CurrentPlace(t)] = <<x>> /\ CurrentPlace(t) \in Place
    BY ZenonT(60), <1>1, PlacesAre DEF HeldIs, Replaced
  <1>5. /\ Single(G[CurrentPlace(t)]) /\ \A o \in Op : Has(G[CurrentPlace(t)], o) => Has(F[CurrentPlace(t)], o) \/ o \notin S
        /\ \A o \in Op : o \in S2 <=> Has(G[CurrentPlace(t)], o) \/ (o \in S /\ ~Has(F[CurrentPlace(t)], o))
    BY ZenonT(60), <1>4
  <1>6. HeldOnce(G, S2)
    BY ZenonT(60), <1>2, <1>3, <1>4, <1>5, Change
  <1> QED BY ZenonT(60), <1>6 DEF G

-----------------------------------------------------------------------------
(* Every operation is in one place.                                        *)

LEMMA KeptNow == ASSUME OnceInv PROVE Kept(op_queue, io, private_queue, arg, current)
  <1>1. /\ op_queue \in Seq(Operation) /\ io \in Seq(Op)
        /\ private_queue \in [Thread -> Seq(Op \cup {Desc})] /\ arg \in [Thread -> Seq(Op)]
        /\ current \in [Thread -> Op \cup {Desc, None}]
    BY ZenonT(60) DEF OnceInv, SchedulerInv, TypeOK
  <1>2. Seq(Operation) \subseteq Seq(Item) /\ Seq(Op) \subseteq Seq(Item) /\ Seq(Op \cup {Desc}) \subseteq Seq(Item)
    BY SMTT(90) DEF Operation, Item
  <1>3. Op \cup {Desc, None} \subseteq Item
    BY ZenonT(60) DEF Item
  <1>4. private_queue \in [Thread -> Seq(Item)] /\ arg \in [Thread -> Seq(Item)] /\ current \in [Thread -> Item]
    BY ZenonT(60), <1>1, <1>2, <1>3
  <1> QED BY ZenonT(60), <1>1, <1>2, <1>4 DEF Kept

LEMMA HeldNow ==
    ASSUME OnceInv
    PROVE  HeldOnce(Held(op_queue, io, private_queue, arg, current), given \ done)
  BY ZenonT(60) DEF OnceInv, OpOnce

LEMMA QuietOnce ==
    ASSUME OnceInv, UNCHANGED <<op_queue, io, private_queue, arg, current, given, done>>
    PROVE  OpOnce'
  BY ZenonT(60), HeldNow DEF OpOnce

\* The calls of the others, and one that gives nothing, keep their operations.
LEMMA CallOnce ==
    ASSUME OnceInv, NEW t \in Thread, arg' = arg, \A u \in Thread : u # t => call'[u] = call[u],
           call[t] # "push" \/ call'[t] = "push"
    PROVE  ArgTaken'
  <1>1. ASSUME NEW u \in Thread, call'[u] # "push" PROVE arg[u] = <<>>
    <2>1. call[u] # "push"
      BY ZenonT(60), <1>1
    <2> QED BY ZenonT(60), <2>1 DEF OnceInv, ArgTaken
  <1> QED BY ZenonT(60), <1>1 DEF ArgTaken

\* What do_run_one, do_poll_one and do_wait_one take from the queue q.
Took(t, q) ==
    /\ \/ op_queue' = q /\ current' = current
       \/ q # <<>> /\ Head(q) = Task /\ op_queue' = Tail(q) /\ current' = current
       \/ q # <<>> /\ op_queue' = Tail(q) /\ current' = [current EXCEPT ![t] = Head(q)]
    /\ call' = call \/ SignalOne(t)

LEMMA LeaveTook == ASSUME NEW t, NEW q, NEW ti, Leave(t, q, ti) PROVE Took(t, q)
  BY ZenonT(60) DEF Leave, Took

LEMMA SleepTook == ASSUME NEW t, NEW ti, NEW p, Sleep(t, ti, p) PROVE Took(t, <<>>)
  BY ZenonT(60) DEF Sleep, Took

LEMMA TakeTook ==
    ASSUME NEW t, NEW q, NEW ti, NEW waited, q # <<>>, TakeTask(t, q, ti, waited) \/ TakeOp(t, q, ti)
    PROVE  Took(t, q)
  <1>1. CASE TakeTask(t, q, ti, waited)
    BY ZenonT(60), <1>1 DEF TakeTask, Took
  <1>2. CASE TakeOp(t, q, ti)
    BY ZenonT(60), <1>2 DEF TakeOp, WakeOne, Took
  <1> QED BY ZenonT(60), <1>1, <1>2

LEMMA LookTook == ASSUME NEW t, NEW q, NEW ti, Look(t, q, ti) PROVE Took(t, q)
  <1>1. CASE stopped /\ Leave(t, q, ti)
    BY ZenonT(60), <1>1, LeaveTook
  <1>2. CASE /\ q = <<>>
             /\ CASE mode[t] \in {"run", "run_one"} -> Sleep(t, ti, "wait")
                  [] mode[t] = "wait_one" -> Sleep(t, ti, "timed")
                  [] OTHER -> Leave(t, q, ti)
    <2>1. CASE mode[t] \in {"run", "run_one"}
      <3>1. Sleep(t, ti, "wait")
        BY SMTT(90), <1>2, <2>1
      <3> QED BY ZenonT(60), <1>2, <3>1, SleepTook
    <2>2. CASE mode[t] = "wait_one"
      <3>1. Sleep(t, ti, "timed")
        BY SMTT(90), <1>2, <2>2
      <3> QED BY ZenonT(60), <1>2, <3>1, SleepTook
    <2>3. CASE mode[t] \notin {"run", "run_one", "wait_one"}
      <3>1. Leave(t, q, ti)
        BY SMTT(90), <1>2, <2>3
      <3> QED BY ZenonT(60), <3>1, LeaveTook
    <2> QED BY ZenonT(60), <2>1, <2>2, <2>3
  <1>3. CASE q # <<>> /\ (TakeTask(t, q, ti, FALSE) \/ TakeOp(t, q, ti))
    BY ZenonT(60), <1>3, TakeTook
  <1> QED BY ZenonT(60), <1>1, <1>2, <1>3 DEF Look

LEMMA LookAgainTook == ASSUME NEW t, NEW q, NEW ti, q # <<>>, LookAgain(t, q, ti) PROVE Took(t, q)
  <1>1. CASE TakeOp(t, q, ti)
    BY ZenonT(60), <1>1, TakeTook
  <1>2. CASE ~TakeOp(t, q, ti)
    BY ZenonT(60), <1>2 DEF LookAgain, Took
  <1> QED BY ZenonT(60), <1>1, <1>2

LEMMA ExceptReplaced ==
    ASSUME NEW f, NEW V, f \in [Thread -> V], NEW t \in Thread, NEW x, NEW f2, f2 = [f EXCEPT ![t] = x]
    PROVE  Replaced(f, f2, t, x)
  BY ZenonT(60) DEF Replaced

LEMMA TookOnce ==
    ASSUME NEW q, NEW i, NEW pq, NEW a, NEW S, Kept(q, i, pq, a, current),
           HeldOnce(Held(q, i, pq, a, current), S), NEW t \in Thread, current[t] \notin Op, Took(t, q)
    PROVE  HeldOnce(Held(op_queue', i, pq, a, current'), S)
  <1>1. CASE op_queue' = q /\ current' = current
    BY ZenonT(60), <1>1
  <1>2. CASE q # <<>> /\ Head(q) = Task /\ op_queue' = Tail(q) /\ current' = current
    <2>1. q \in Seq(Item)
      BY ZenonT(60) DEF Kept
    <2>2. /\ Task \in Item /\ Tail(q) \in Seq(Item) /\ <<Task>> \in Seq(Item) /\ q = <<Task>> \o Tail(q)
      BY ZenonT(60), <1>2, <2>1, HeadTail
    <2>3. \A o \in Op : ~Has(<<Task>>, o)
      BY ZenonT(60), <2>2, OneItem, OpsDistinct
    <2>4. \A o \in Op : Has(q, o) <=> Has(Tail(q), o)
      <3>1. \A o : Has(<<Task>> \o Tail(q), o) <=> Has(<<Task>>, o) \/ Has(Tail(q), o)
        BY ZenonT(60), <2>2, ConcatHas
      <3> QED BY ZenonT(60), <2>2, <2>3, <3>1
    <2>5. HeldIs(Held(q, i, pq, a, current), q, i, pq, a, current)
      BY ZenonT(60), HeldAt
    <2>6. Single(q) /\ \A o \in Op : Has(q, o) => o \in S
      BY ZenonT(60), <2>5, PlacesAre DEF HeldIs, HeldOnce
    <2>7. Single(Tail(q))
      <3>1. Single(<<Task>> \o Tail(q))
        BY ZenonT(60), <2>2, <2>6
      <3> QED BY ZenonT(60), <2>2, <3>1, ConcatSingle
    <2>8. \A o \in Op : o \in S <=> Has(Tail(q), o) \/ (o \in S /\ ~Has(q, o))
      BY ZenonT(60), <2>4, <2>6
    <2>9. HeldOnce(Held(Tail(q), i, pq, a, current), S)
      BY ZenonT(60), <2>4, <2>7, <2>8, QueueChange
    <2> QED BY ZenonT(60), <1>2, <2>9
  <1>3. CASE q # <<>> /\ op_queue' = Tail(q) /\ current' = [current EXCEPT ![t] = Head(q)]
    <2>1. Popped(q, op_queue', Head(q))
      BY ZenonT(60), <1>3 DEF Popped
    <2>2. Replaced(current, current', t, Head(q))
      BY ZenonT(60), <1>3 DEF Replaced, Kept
    <2> QED BY ZenonT(60), <2>1, <2>2, QueueToCurrent
  <1> QED BY ZenonT(60), <1>1, <1>2, <1>3 DEF Took

LEMMA SignalCall ==
    ASSUME OnceInv, NEW t \in Thread, call' = call \/ SignalOne(t)
    PROVE  (\A u \in Thread : u # t => call'[u] = call[u]) /\ (call' = call \/ call'[t] # "push")
  <1>1. call \in [Thread -> {"idle", "push", "signal"}]
    BY ZenonT(60) DEF OnceInv, SchedulerInv, TypeOK
  <1>2. CASE SignalOne(t)
    BY ZenonT(60), <1>1, <1>2 DEF SignalOne
  <1> QED BY ZenonT(60), <1>2

\* A look at a queue q that holds what the queue and a private queue held.
LEMMA LookOnce ==
    ASSUME OnceInv, NEW t \in Thread, NEW q, Took(t, q), current[t] \notin Op, call[t] # "push", UNCHANGED lookVars,
           Kept(q, io, private_queue', arg, current),
           HeldOnce(Held(q, io, private_queue', arg, current), given \ done)
    PROVE  OpOnce' /\ ArgTaken' /\ done' \subseteq given'
  <1>1. UNCHANGED <<io, arg, given, done>>
    BY ZenonT(60) DEF lookVars, historyVars
  <1>2. HeldOnce(Held(op_queue', io, private_queue', arg, current'), given \ done)
    BY ZenonT(60), TookOnce
  <1>3. OpOnce'
    BY ZenonT(60), <1>1, <1>2 DEF OpOnce
  <1>4. call' = call \/ SignalOne(t)
    BY ZenonT(60) DEF Took
  <1>5. (\A u \in Thread : u # t => call'[u] = call[u])
    BY ZenonT(60), <1>4, SignalCall
  <1>6. ArgTaken'
    BY ZenonT(60), <1>1, <1>5, CallOnce
  <1> QED BY ZenonT(60), <1>1, <1>3, <1>6 DEF OnceInv

\* Threads outside a handler complete nothing and give nothing.
LEMMA NoHandler ==
    ASSUME OnceInv, NEW t \in Thread, pc[t] \notin {"out", "handler"}
    PROVE  current[t] \notin Op /\ call[t] # "push"
  BY ZenonT(60) DEF OnceInv, SchedulerInv, PrivatePlaced

LEMMA LookNowOnce ==
    ASSUME OnceInv, NEW t \in Thread, Took(t, op_queue), pc[t] \notin {"out", "handler"},
           UNCHANGED <<lookVars, private_queue>>
    PROVE  OpOnce' /\ ArgTaken' /\ done' \subseteq given'
  <1>1. private_queue' = private_queue /\ UNCHANGED lookVars
    OBVIOUS
  <1>2. /\ Kept(op_queue, io, private_queue', arg, current)
        /\ HeldOnce(Held(op_queue, io, private_queue', arg, current), given \ done)
    BY ZenonT(60), <1>1, KeptNow, HeldNow
  <1> QED BY ZenonT(60), <1>1, <1>2, NoHandler, LookOnce

LEMMA LookFirstOnce ==
    ASSUME OnceInv, NEW t \in Thread, LookFirst(t) PROVE OpOnce' /\ ArgTaken' /\ done' \subseteq given'
  <1>1. pc[t] = "look" /\ Took(t, op_queue) /\ UNCHANGED <<lookVars, private_queue>>
    BY ZenonT(60), LookTook DEF LookFirst
  <1>2. pc[t] \notin {"out", "handler"}
    BY ZenonT(60), <1>1
  <1> QED BY ZenonT(60), <1>1, <1>2, LookNowOnce

LEMMA WakeUpOnce ==
    ASSUME OnceInv, NEW t \in Thread, WakeUp(t) PROVE OpOnce' /\ ArgTaken' /\ done' \subseteq given'
  <1>1. pc[t] = "woken" /\ UNCHANGED <<lookVars, private_queue>>
    BY ZenonT(60) DEF WakeUp
  <1>2. Took(t, op_queue)
    <2>1. CASE event
      BY ZenonT(60), <2>1, LookTook DEF WakeUp
    <2>2. CASE ~event
      BY ZenonT(60), <2>2 DEF WakeUp, queueVars, Took
    <2> QED BY ZenonT(60), <2>1, <2>2
  <1>3. pc[t] \notin {"out", "handler"}
    BY ZenonT(60), <1>1
  <1> QED BY ZenonT(60), <1>1, <1>2, <1>3, LookNowOnce

LEMMA TimedWakeUpOnce ==
    ASSUME OnceInv, NEW t \in Thread, TimedWakeUp(t) PROVE OpOnce' /\ ArgTaken' /\ done' \subseteq given'
  <1>1. pc[t] \in {"timed", "timed_woken"} /\ UNCHANGED <<lookVars, private_queue>>
    BY ZenonT(60) DEF TimedWakeUp
  <1>2. Took(t, op_queue)
    BY ZenonT(60), LeaveTook, TakeTook DEF TimedWakeUp
  <1>3. pc[t] \notin {"out", "handler"}
    BY ZenonT(60), <1>1
  <1> QED BY ZenonT(60), <1>1, <1>2, <1>3, LookNowOnce

\* The private queue of t has been put behind the queue.
LEMMA Published ==
    ASSUME OnceInv, NEW t \in Thread, private_queue' = [private_queue EXCEPT ![t] = <<>>]
    PROVE  /\ Kept(op_queue \o private_queue[t], io, private_queue', arg, current)
           /\ HeldOnce(Held(op_queue \o private_queue[t], io, private_queue', arg, current), given \ done)
  <1>1. Kept(op_queue, io, private_queue, arg, current)
    BY ZenonT(60), KeptNow
  <1>2. private_queue \in [Thread -> Seq(Item)] /\ private_queue[t] \in Seq(Item) /\ op_queue \in Seq(Item)
    BY ZenonT(60), <1>1 DEF Kept
  <1>3. op_queue \o private_queue[t] \in Seq(Item)
    BY ZenonT(60), <1>2, ConcatHas
  <1>4. private_queue' \in [Thread -> Seq(Item)] /\ Replaced(private_queue, private_queue', t, <<>>)
    BY ZenonT(60), <1>2, NoItem DEF Replaced
  <1>5. Kept(op_queue \o private_queue[t], io, private_queue', arg, current)
    BY ZenonT(60), <1>1, <1>3, <1>4 DEF Kept
  <1>6. Joined(op_queue \o private_queue[t], op_queue, private_queue[t])
    BY ZenonT(60) DEF Joined
  <1>7. HeldOnce(Held(op_queue \o private_queue[t], io, private_queue', arg, current), given \ done)
    BY ZenonT(60), <1>1, <1>4, <1>6, HeldNow, PrivateToQueue
  <1> QED BY ZenonT(60), <1>5, <1>7

LEMMA PublishOnce ==
    ASSUME OnceInv, NEW t \in Thread, Publish(t) PROVE OpOnce' /\ ArgTaken' /\ done' \subseteq given'
  <1>1. /\ pc[t] = "publish" /\ private_queue' = [private_queue EXCEPT ![t] = <<>>]
        /\ UNCHANGED lookVars
    BY ZenonT(60) DEF Publish
  <1>2. Took(t, op_queue \o private_queue[t])
    BY ZenonT(60), LookTook, LeaveTook DEF Publish
  <1>3. current[t] \notin Op /\ call[t] # "push"
    BY ZenonT(60), <1>1, NoHandler
  <1> QED BY ZenonT(60), <1>1, <1>2, <1>3, Published, LookOnce

\* The task behind a queue is no operation of the user.
LEMMA TaskBehind ==
    ASSUME NEW q, NEW i, NEW pq, NEW a, NEW c, NEW S, Kept(q, i, pq, a, c),
           HeldOnce(Held(q, i, pq, a, c), S)
    PROVE  /\ Append(q, Task) # <<>> /\ Kept(Append(q, Task), i, pq, a, c)
           /\ HeldOnce(Held(Append(q, Task), i, pq, a, c), S)
  <1>1. q \in Seq(Item) /\ Task \in Item
    BY ZenonT(60) DEF Kept, Item
  <1>2. Append(q, Task) = q \o <<Task>> /\ Append(q, Task) # <<>>
    BY SMTT(90), <1>1
  <1>3. <<Task>> \in Seq(Item) /\ Single(<<Task>>) /\ \A o \in Op : ~Has(<<Task>>, o)
    BY ZenonT(60), <1>1, OneItem, OpsDistinct
  <1>4. \A o \in Op : Has(q \o <<Task>>, o) <=> Has(q, o)
    BY ZenonT(60), <1>1, <1>3, ConcatHas
  <1>5. HeldIs(Held(q, i, pq, a, c), q, i, pq, a, c)
    BY ZenonT(60), HeldAt
  <1>6. Single(q) /\ \A o \in Op : Has(q, o) => o \in S
    BY ZenonT(60), <1>5, PlacesAre DEF HeldIs, HeldOnce
  <1>7. Single(q \o <<Task>>) /\ q \o <<Task>> \in Seq(Item)
    BY ZenonT(60), <1>1, <1>3, <1>6, ConcatSingle, ConcatHas
  <1>8. \A o \in Op : o \in S <=> Has(q \o <<Task>>, o) \/ (o \in S /\ ~Has(q, o))
    BY ZenonT(60), <1>4, <1>6
  <1>9. HeldOnce(Held(q \o <<Task>>, i, pq, a, c), S)
    BY ZenonT(60), <1>4, <1>7, <1>8, QueueChange
  <1> QED BY ZenonT(60), <1>2, <1>7, <1>9 DEF Kept

LEMMA TaskCleanupOnce ==
    ASSUME OnceInv, NEW t \in Thread, TaskCleanup(t) PROVE OpOnce' /\ ArgTaken' /\ done' \subseteq given'
  <1> DEFINE q == Append(op_queue \o private_queue[t], Task)
  <1>1. /\ pc[t] = "returned" /\ private_queue' = [private_queue EXCEPT ![t] = <<>>]
        /\ UNCHANGED lookVars
        /\ IF mode[t] \in {"run", "run_one"} THEN Look(t, q, TRUE) ELSE LookAgain(t, q, TRUE)
    BY ZenonT(60) DEF TaskCleanup
  <1>2. /\ q # <<>> /\ Kept(q, io, private_queue', arg, current)
        /\ HeldOnce(Held(q, io, private_queue', arg, current), given \ done)
    BY ZenonT(60), <1>1, Published, TaskBehind
  <1> HIDE DEF q
  <1>3. Took(t, q)
    BY ZenonT(60), <1>1, <1>2, LookTook, LookAgainTook
  <1>4. current[t] \notin Op /\ call[t] # "push"
    BY ZenonT(60), <1>1, NoHandler
  <1> QED BY ZenonT(60), <1>1, <1>2, <1>3, <1>4, LookOnce

\* Operations s, the first of the descriptor, go where Completed says.
LEMMA CompletedOnce ==
    ASSUME NEW t \in Thread, NEW q, NEW i, NEW i2, NEW c, NEW S, NEW s,
           s \in Seq(Item), i2 \in Seq(Item), Joined(i, s, i2), arg[t] = <<>>, Completed(t, s),
           Kept(q, i, private_queue, arg, c), HeldOnce(Held(q, i, private_queue, arg, c), S)
    PROVE  HeldOnce(Held(q, i2, private_queue', arg', c), S)
  <1>1. private_queue \in [Thread -> Seq(Item)] /\ arg \in [Thread -> Seq(Item)]
    BY ZenonT(60) DEF Kept
  <1>2. CASE one_thread /\ pc[t] # "out"
    <2>1. private_queue' = [private_queue EXCEPT ![t] = private_queue[t] \o s] /\ arg' = arg
      BY ZenonT(60), <1>2 DEF Completed, callVars
    <2>2. Replaced(private_queue, private_queue', t, private_queue[t] \o s)
      BY ZenonT(60), <1>1, <2>1 DEF Replaced
    <2>3. Joined(private_queue[t] \o s, private_queue[t], s)
      BY ZenonT(60) DEF Joined
    <2>4. HeldOnce(Held(q, i2, private_queue', arg, c), S)
      BY ZenonT(60), <2>2, <2>3, IoToPrivate
    <2> QED BY ZenonT(60), <2>1, <2>4
  <1>3. CASE ~(one_thread /\ pc[t] # "out")
    <2>1. arg' = [arg EXCEPT ![t] = s] /\ private_queue' = private_queue
      BY ZenonT(60), <1>3 DEF Completed
    <2>2. Replaced(arg, arg', t, s)
      BY ZenonT(60), <1>1, <2>1 DEF Replaced
    <2>3. HeldOnce(Held(q, i2, private_queue, arg', c), S)
      BY ZenonT(60), <2>2, IoToArg
    <2> QED BY ZenonT(60), <2>1, <2>3
  <1> QED BY ZenonT(60), <1>2, <1>3

LEMMA CompletedCall ==
    ASSUME OnceInv, NEW t \in Thread, NEW s, call[t] = "idle", Completed(t, s)
    PROVE  ArgTaken'
  <1>1. call \in [Thread -> {"idle", "push", "signal"}] /\ arg \in [Thread -> Seq(Op)]
    BY ZenonT(60) DEF OnceInv, SchedulerInv, TypeOK
  <1>2. CASE one_thread /\ pc[t] # "out"
    <2>1. call' = call /\ arg' = arg
      BY ZenonT(60), <1>2 DEF Completed, callVars
    <2> QED BY ZenonT(60), <2>1, CallOnce
  <1>3. CASE ~(one_thread /\ pc[t] # "out")
    <2>1. /\ call' = [call EXCEPT ![t] = IF s = <<>> THEN "idle" ELSE "push"]
          /\ arg' = [arg EXCEPT ![t] = s]
      BY ZenonT(60), <1>3 DEF Completed
    <2>2. \A u \in Thread : u # t => call'[u] = call[u] /\ arg'[u] = arg[u]
      BY ZenonT(60), <1>1, <2>1
    <2>3. arg'[t] = s /\ (call'[t] # "push" => s = <<>>)
      BY ZenonT(60), <1>1, <2>1
    <2> QED BY ZenonT(60), <2>2, <2>3 DEF OnceInv, ArgTaken
  <1> QED BY ZenonT(60), <1>2, <1>3

LEMMA IdleArg == ASSUME OnceInv, NEW t \in Thread, call[t] = "idle" PROVE arg[t] = <<>>
  BY ZenonT(60) DEF OnceInv, ArgTaken

LEMMA CancelIoOnce ==
    ASSUME OnceInv, NEW t \in Thread, CancelIo(t) PROVE OpOnce' /\ ArgTaken' /\ done' \subseteq given'
  <1>1. /\ call[t] = "idle" /\ io' = <<>> /\ Completed(t, io)
        /\ UNCHANGED <<op_queue, current, given, done>>
    BY ZenonT(60) DEF CancelIo, MayCall, queueVars, placeVars, historyVars
  <1>2. Kept(op_queue, io, private_queue, arg, current)
    BY ZenonT(60), KeptNow
  <1>3. io \in Seq(Item) /\ <<>> \in Seq(Item)
    BY ZenonT(60), <1>2, NoItem DEF Kept
  <1>4. Joined(io, io, <<>>)
    BY ZenonT(60), <1>3, NoneBehind DEF Joined
  <1>5. HeldOnce(Held(op_queue, <<>>, private_queue', arg', current), given \ done)
    BY ZenonT(60), <1>1, <1>2, <1>3, <1>4, IdleArg, HeldNow, CompletedOnce
  <1>6. OpOnce'
    BY ZenonT(60), <1>1, <1>5 DEF OpOnce
  <1>7. ArgTaken'
    BY ZenonT(60), <1>1, CompletedCall
  <1> QED BY ZenonT(60), <1>1, <1>6, <1>7 DEF OnceInv

LEMMA SameItems ==
    ASSUME NEW s \in Seq(Item), NEW r \in Seq(Item), Len(s) = Len(r),
           \A j \in 1 .. Len(s) : s[j] = r[j]
    PROVE  s = r
  BY SMTT(90)

LEMMA SplitIo ==
    ASSUME NEW s \in Seq(Item), NEW k \in 0 .. Len(s)
    PROVE  /\ k = 0 => SubSeq(s, k + 1, Len(s)) = s
           /\ k # 0 => /\ s # <<>> /\ SubSeq(s, 2, k) \in Seq(Item) /\ SubSeq(s, k + 1, Len(s)) \in Seq(Item)
                       /\ Tail(s) = SubSeq(s, 2, k) \o SubSeq(s, k + 1, Len(s))
  <1>1. k = 0 => SubSeq(s, k + 1, Len(s)) = s
    BY SMTT(90)
  <1>2. k # 0 => s # <<>> /\ SubSeq(s, 2, k) \in Seq(Item) /\ SubSeq(s, k + 1, Len(s)) \in Seq(Item)
    BY SMTT(90)
  <1>3. ASSUME k # 0 PROVE Tail(s) = SubSeq(s, 2, k) \o SubSeq(s, k + 1, Len(s))
    <2> DEFINE u == SubSeq(s, 2, k)
               v == SubSeq(s, k + 1, Len(s))
    <2>1. Len(s) \in Nat /\ k \in 1 .. Len(s) /\ k \in Nat
      BY SMTT(90), <1>3
    <2>2. Len(u) = k - 1 /\ \A j \in 1 .. (k - 1) : u[j] = s[j + 1]
      BY SMTT(90), <2>1
    <2>3. Len(v) = Len(s) - k /\ \A j \in 1 .. (Len(s) - k) : v[j] = s[j + k]
      BY SMTT(90), <2>1
    <2>4. Tail(s) \in Seq(Item) /\ Len(Tail(s)) = Len(s) - 1 /\ \A j \in 1 .. (Len(s) - 1) : Tail(s)[j] = s[j + 1]
      BY SMTT(90), <2>1
    <2>5. u \in Seq(Item) /\ v \in Seq(Item)
      BY ZenonT(60), <1>2, <1>3
    <2> HIDE DEF u, v
    <2>6. u \o v \in Seq(Item) /\ Len(u \o v) = Len(s) - 1
      <3>1. u \o v \in Seq(Item) /\ Len(u \o v) = Len(u) + Len(v)
        BY SMTT(90), <2>5
      <3> QED BY SMTT(90), <2>1, <2>2, <2>3, <3>1
    <2>7. \A j \in 1 .. (Len(s) - 1) : (u \o v)[j] = s[j + 1]
      BY SMTT(90), <2>1, <2>2, <2>3, <2>5
    <2>8. Len(Tail(s)) = Len(u \o v) /\ \A j \in 1 .. Len(Tail(s)) : Tail(s)[j] = (u \o v)[j]
      BY ZenonT(60), <2>4, <2>6, <2>7
    <2>9. Tail(s) = u \o v
      BY ZenonT(60), <2>4, <2>6, <2>8, SameItems
    <2> QED BY ZenonT(60), <2>9 DEF u, v
  <1> QED BY ZenonT(60), <1>1, <1>2, <1>3

\* The hands of t drop what is no operation of the user.
LEMMA CurrentOnce ==
    ASSUME OnceInv, NEW t \in Thread, current' = [current EXCEPT ![t] = None], current[t] \notin Op
    PROVE  HeldOnce(Held(op_queue, io, private_queue, arg, current'), given \ done)
  <1>1. current \in [Thread -> Item] /\ current[t] \in Item /\ None \in Item
    BY ZenonT(60), KeptNow DEF Kept, Item
  <1>2. Replaced(current, current', t, None)
    BY ZenonT(60), <1>1 DEF Replaced
  <1>3. Single(<<None>>) /\ \A o \in Op : ~Has(<<None>>, o)
    BY ZenonT(60), <1>1, OneItem, OpsDistinct
  <1>4. \A o \in Op : ~Has(<<current[t]>>, o)
    BY ZenonT(60), <1>1, OneItem
  <1>5. /\ \A o \in Op : Has(<<None>>, o) => Has(<<current[t]>>, o) \/ o \notin given \ done
        /\ \A o \in Op : o \in given \ done <=> Has(<<None>>, o) \/ (o \in given \ done /\ ~Has(<<current[t]>>, o))
    BY ZenonT(60), <1>3, <1>4
  <1> QED BY ZenonT(60), <1>2, <1>3, <1>5, HeldNow, CurrentChange

LEMMA PerformIoOnce ==
    ASSUME OnceInv, NEW t \in Thread, PerformIo(t) PROVE OpOnce' /\ ArgTaken' /\ done' \subseteq given'
  <1>1. PICK k \in 0 .. Len(io) :
          /\ io' = SubSeq(io, k + 1, Len(io))
          /\ IF k = 0
               THEN /\ current' = [current EXCEPT ![t] = None]
                    /\ UNCHANGED <<private_queue, callVars>>
               ELSE /\ current' = [current EXCEPT ![t] = Head(io)]
                    /\ Completed(t, SubSeq(io, 2, k))
    BY ZenonT(60) DEF PerformIo
  <1>2. pc[t] = "descriptor" /\ call[t] = "idle" /\ UNCHANGED <<op_queue, given, done>>
    BY ZenonT(60) DEF PerformIo, queueVars, historyVars
  <1>3. Kept(op_queue, io, private_queue, arg, current)
    BY ZenonT(60), KeptNow
  <1>4. io \in Seq(Item) /\ current \in [Thread -> Item] /\ current[t] \notin Op
    BY ZenonT(60), <1>2, <1>3, NoHandler DEF Kept
  <1>5. CASE k = 0
    <2>1. io' = io /\ UNCHANGED <<private_queue, call, arg>> /\ current' = [current EXCEPT ![t] = None]
      BY ZenonT(60), <1>1, <1>4, <1>5, SplitIo DEF callVars
    <2>2. HeldOnce(Held(op_queue, io, private_queue, arg, current'), given \ done)
      BY ZenonT(60), <1>4, <2>1, CurrentOnce
    <2>3. OpOnce'
      BY ZenonT(60), <1>2, <2>1, <2>2 DEF OpOnce
    <2>4. ArgTaken'
      BY ZenonT(60), <2>1, CallOnce
    <2> QED BY ZenonT(60), <1>2, <2>3, <2>4 DEF OnceInv
  <1>6. CASE k # 0
    <2>1. /\ io # <<>> /\ SubSeq(io, 2, k) \in Seq(Item) /\ io' \in Seq(Item)
          /\ Tail(io) = SubSeq(io, 2, k) \o io'
      BY ZenonT(60), <1>1, <1>4, <1>6, SplitIo
    <2>2. current' = [current EXCEPT ![t] = Head(io)] /\ Completed(t, SubSeq(io, 2, k))
      BY ZenonT(60), <1>1, <1>6
    <2>3. Head(io) \in Item /\ Tail(io) \in Seq(Item)
      BY ZenonT(60), <1>4, <2>1, HeadTail
    <2>4. Popped(io, Tail(io), Head(io)) /\ Joined(Tail(io), SubSeq(io, 2, k), io')
      BY ZenonT(60), <2>1 DEF Popped, Joined
    <2>5. Replaced(current, current', t, Head(io)) /\ current' \in [Thread -> Item]
      BY ZenonT(60), <1>4, <2>2, <2>3 DEF Replaced
    <2>6. Kept(op_queue, Tail(io), private_queue, arg, current')
      BY ZenonT(60), <1>3, <2>3, <2>5 DEF Kept
    <2>7. HeldOnce(Held(op_queue, Tail(io), private_queue, arg, current'), given \ done)
      BY ZenonT(60), <1>3, <1>4, <2>4, <2>5, HeldNow, IoToCurrent
    <2>8. arg[t] = <<>>
      BY ZenonT(60), <1>2, IdleArg
    <2>9. HeldOnce(Held(op_queue, io', private_queue', arg', current'), given \ done)
      BY ZenonT(60), <2>1, <2>2, <2>4, <2>6, <2>7, <2>8, CompletedOnce
    <2>10. OpOnce'
      BY ZenonT(60), <1>2, <2>9 DEF OpOnce
    <2>11. ArgTaken'
      BY ZenonT(60), <1>2, <2>2, CompletedCall
    <2> QED BY ZenonT(60), <1>2, <2>10, <2>11 DEF OnceInv
  <1> QED BY ZenonT(60), <1>5, <1>6

LEMMA PushOnce ==
    ASSUME OnceInv, NEW t \in Thread, Push(t) PROVE OpOnce' /\ ArgTaken' /\ done' \subseteq given'
  <1>1. /\ call[t] = "push" /\ op_queue' = op_queue \o arg[t] /\ arg' = [arg EXCEPT ![t] = <<>>]
        /\ SignalOne(t) /\ UNCHANGED <<io, private_queue, current, given, done>>
    BY ZenonT(60) DEF Push, WakeOne, placeVars, privateVars, historyVars
  <1>2. Kept(op_queue, io, private_queue, arg, current) /\ arg \in [Thread -> Seq(Item)]
    BY ZenonT(60), KeptNow DEF Kept
  <1>3. Joined(op_queue', op_queue, arg[t]) /\ Replaced(arg, arg', t, <<>>)
    BY ZenonT(60), <1>1, <1>2 DEF Joined, Replaced
  <1>4. HeldOnce(Held(op_queue', io, private_queue, arg', current), given \ done)
    BY ZenonT(60), <1>2, <1>3, HeldNow, ArgToQueue
  <1>5. OpOnce'
    BY ZenonT(60), <1>1, <1>4 DEF OpOnce
  <1>6. \A u \in Thread : u # t => call'[u] = call[u]
    BY ZenonT(60), <1>1, SignalCall
  <1>7. ArgTaken'
    <2>1. ASSUME NEW u \in Thread, call'[u] # "push" PROVE arg'[u] = <<>>
      <3>1. CASE u = t
        BY ZenonT(60), <1>3, <3>1 DEF Replaced
      <3>2. CASE u # t
        BY ZenonT(60), <1>3, <1>6, <2>1, <3>2 DEF Replaced, OnceInv, ArgTaken
      <3> QED BY ZenonT(60), <3>1, <3>2
    <2> QED BY ZenonT(60), <2>1 DEF ArgTaken
  <1> QED BY ZenonT(60), <1>1, <1>5, <1>7 DEF OnceInv

\* A handler returns: its operation is completed and nowhere.
LEMMA EndHandlerOnce ==
    ASSUME OnceInv, NEW t \in Thread, EndHandler(t) PROVE OpOnce' /\ ArgTaken' /\ done' \subseteq given'
  <1>1. /\ pc[t] = "handler" /\ current' = [current EXCEPT ![t] = None] /\ done' = done \cup {current[t]}
        /\ UNCHANGED <<op_queue, io, private_queue, call, arg, given>>
    BY ZenonT(60) DEF EndHandler, queueVars, privateVars, callVars
  <1>2. current \in [Thread -> Item] /\ current[t] \in Item /\ None \in Item /\ current[t] \in Op
    BY ZenonT(60), <1>1, KeptNow DEF Kept, Item, OnceInv, SchedulerInv, PrivatePlaced
  <1>3. Replaced(current, current', t, None)
    BY ZenonT(60), <1>1, <1>2 DEF Replaced
  <1>4. Single(<<None>>) /\ \A o \in Op : ~Has(<<None>>, o)
    BY ZenonT(60), <1>2, OneItem, OpsDistinct
  <1>5. \A o : Has(<<current[t]>>, o) <=> o = current[t]
    BY ZenonT(60), <1>2, OneItem
  <1>6. /\ \A o \in Op : Has(<<None>>, o) => Has(<<current[t]>>, o) \/ o \notin given \ done
        /\ \A o \in Op : o \in given \ done'
             <=> Has(<<None>>, o) \/ (o \in given \ done /\ ~Has(<<current[t]>>, o))
    BY ZenonT(60), <1>1, <1>4, <1>5
  <1>7. HeldOnce(Held(op_queue, io, private_queue, arg, current'), given \ done')
    BY ZenonT(60), <1>3, <1>4, <1>6, HeldNow, CurrentChange
  <1>8. OpOnce'
    BY ZenonT(60), <1>1, <1>7 DEF OpOnce
  <1>9. current[t] \in given
    <2>1. HeldIs(Held(op_queue, io, private_queue, arg, current), op_queue, io, private_queue, arg, current)
      BY ZenonT(60), HeldAt
    <2>2. Held(op_queue, io, private_queue, arg, current)[CurrentPlace(t)] = <<current[t]>>
      BY ZenonT(60), <2>1 DEF HeldIs
    <2>3. Has(Held(op_queue, io, private_queue, arg, current)[CurrentPlace(t)], current[t])
      BY ZenonT(60), <1>5, <2>2
    <2> QED BY ZenonT(60), <1>2, <2>3, HeldNow, PlacesAre DEF HeldOnce
  <1>10. ArgTaken'
    BY ZenonT(60), <1>1, CallOnce
  <1> QED BY ZenonT(60), <1>1, <1>8, <1>9, <1>10 DEF OnceInv

\* A new operation o behind the sequence s that a place holds.
LEMMA NewBehind ==
    ASSUME OnceInv, NEW s \in Seq(Item), NEW p \in Place, NEW o \in Op, o \notin given,
           Held(op_queue, io, private_queue, arg, current)[p] = s
    PROVE  /\ Single(Append(s, o))
           /\ \A x \in Op : Has(Append(s, o), x) => Has(s, x) \/ x \notin given \ done
           /\ \A x \in Op : x \in (given \cup {o}) \ done
                <=> Has(Append(s, o), x) \/ (x \in given \ done /\ ~Has(s, x))
  <1>1. o \in Item /\ <<o>> \in Seq(Item) /\ Single(<<o>>) /\ \A x : Has(<<o>>, x) <=> x = o
    BY ZenonT(60), OneItem DEF Item
  <1>2. Append(s, o) = s \o <<o>>
    BY SMTT(90), <1>1
  <1>3. Single(s) /\ \A x \in Op : Has(s, x) => x \in given \ done
    BY ZenonT(60), HeldNow DEF HeldOnce
  <1>4. ~Has(s, o) /\ o \notin done
    BY ZenonT(60), <1>3 DEF OnceInv
  <1>5. \A x : Has(s \o <<o>>, x) <=> Has(s, x) \/ x = o
    BY ZenonT(60), <1>1, ConcatHas
  <1>6. Single(s \o <<o>>)
    <2>1. \A x \in Op : ~(Has(s, x) /\ Has(<<o>>, x))
      BY ZenonT(60), <1>1, <1>4
    <2> QED BY ZenonT(60), <1>1, <1>3, <2>1, ConcatSingle
  <1>7. \A x \in Op : Has(s \o <<o>>, x) => Has(s, x) \/ x \notin given \ done
    BY ZenonT(60), <1>5
  <1>8. \A x \in Op : x \in (given \cup {o}) \ done <=> Has(s \o <<o>>, x) \/ (x \in given \ done /\ ~Has(s, x))
    BY ZenonT(60), <1>3, <1>4, <1>5
  <1> QED BY ZenonT(60), <1>2, <1>6, <1>7, <1>8

LEMMA NowAt ==
    HeldIs(Held(op_queue, io, private_queue, arg, current), op_queue, io, private_queue, arg, current)
  BY ZenonT(60), HeldAt

LEMMA StartIoOnce ==
    ASSUME OnceInv, NEW t \in Thread, NEW o \in Op, StartIo(t, o)
    PROVE  OpOnce' /\ ArgTaken' /\ done' \subseteq given'
  <1>1. /\ o \notin given /\ given' = given \cup {o} /\ io' = Append(io, o)
        /\ UNCHANGED <<op_queue, private_queue, call, arg, current, done>>
    BY ZenonT(60) DEF StartIo, queueVars, placeVars, privateVars, callVars
  <1>2. io \in Seq(Item)
    BY ZenonT(60), KeptNow DEF Kept
  <1>3. Held(op_queue, io, private_queue, arg, current)[IoPlace] = io /\ IoPlace \in Place
    BY ZenonT(60), NowAt, PlacesAre DEF HeldIs
  <1>4. /\ Single(io')
        /\ \A x \in Op : Has(io', x) => Has(io, x) \/ x \notin given \ done
        /\ \A x \in Op : x \in given' \ done <=> Has(io', x) \/ (x \in given \ done /\ ~Has(io, x))
    BY ZenonT(60), <1>1, <1>2, <1>3, NewBehind
  <1>5. HeldOnce(Held(op_queue, io', private_queue, arg, current), given' \ done)
    BY ZenonT(60), <1>4, HeldNow, IoChange
  <1>6. OpOnce'
    BY ZenonT(60), <1>1, <1>5 DEF OpOnce
  <1>7. ArgTaken'
    BY ZenonT(60), <1>1, CallOnce
  <1> QED BY ZenonT(60), <1>1, <1>6, <1>7 DEF OnceInv

LEMMA PostOnce ==
    ASSUME OnceInv, NEW t \in Thread, NEW o \in Op, Post(t, o)
    PROVE  OpOnce' /\ ArgTaken' /\ done' \subseteq given'
  <1>1. /\ call[t] = "idle" /\ o \notin given /\ given' = given \cup {o}
        /\ UNCHANGED <<op_queue, io, current, done>>
    BY ZenonT(60) DEF Post, MayCall, queueVars, placeVars
  <1>2. private_queue \in [Thread -> Seq(Item)] /\ arg \in [Thread -> Seq(Item)] /\ arg[t] = <<>>
    BY ZenonT(60), <1>1, KeptNow, IdleArg DEF Kept
  <1>3. /\ Held(op_queue, io, private_queue, arg, current)[PrivatePlace(t)] = private_queue[t]
        /\ Held(op_queue, io, private_queue, arg, current)[ArgPlace(t)] = arg[t]
        /\ PrivatePlace(t) \in Place /\ ArgPlace(t) \in Place
    BY ZenonT(60), NowAt, PlacesAre DEF HeldIs
  <1>4. call \in [Thread -> {"idle", "push", "signal"}]
    BY ZenonT(60) DEF OnceInv, SchedulerInv, TypeOK
  <1>5. CASE private_queue' = [private_queue EXCEPT ![t] = Append(@, o)] /\ UNCHANGED callVars
    <2>1. Replaced(private_queue, private_queue', t, Append(private_queue[t], o)) /\ call' = call /\ arg' = arg
      BY ZenonT(60), <1>2, <1>5 DEF Replaced, callVars
    <2>2. private_queue[t] \in Seq(Item)
      BY ZenonT(60), <1>2
    <2>3. /\ Single(Append(private_queue[t], o))
          /\ \A x \in Op : Has(Append(private_queue[t], o), x) => Has(private_queue[t], x) \/ x \notin given \ done
          /\ \A x \in Op : x \in given' \ done
               <=> Has(Append(private_queue[t], o), x) \/ (x \in given \ done /\ ~Has(private_queue[t], x))
      BY ZenonT(60), <1>1, <1>3, <2>2, NewBehind
    <2>4. HeldOnce(Held(op_queue, io, private_queue', arg, current), given' \ done)
      BY ZenonT(60), <2>1, <2>3, HeldNow, PrivateChange
    <2>5. OpOnce'
      BY ZenonT(60), <1>1, <2>1, <2>4 DEF OpOnce
    <2>6. ArgTaken'
      BY ZenonT(60), <2>1, CallOnce
    <2> QED BY ZenonT(60), <1>1, <2>5, <2>6 DEF OnceInv
  <1>6. CASE /\ call' = [call EXCEPT ![t] = "push"] /\ arg' = [arg EXCEPT ![t] = <<o>>]
             /\ private_queue' = private_queue
    <2>1. Replaced(arg, arg', t, <<o>>) /\ call'[t] = "push" /\ \A u \in Thread : u # t => call'[u] = call[u]
      BY ZenonT(60), <1>2, <1>4, <1>6 DEF Replaced
    <2>2. arg[t] \in Seq(Item) /\ Append(arg[t], o) = <<o>>
      BY SMTT(90), <1>2
    <2>3. /\ Single(Append(arg[t], o))
          /\ \A x \in Op : Has(Append(arg[t], o), x) => Has(arg[t], x) \/ x \notin given \ done
          /\ \A x \in Op : x \in given' \ done
               <=> Has(Append(arg[t], o), x) \/ (x \in given \ done /\ ~Has(arg[t], x))
      BY ZenonT(60), <1>1, <1>3, <2>2, NewBehind
    <2>4. /\ Single(<<o>>)
          /\ \A x \in Op : Has(<<o>>, x) => Has(arg[t], x) \/ x \notin given \ done
          /\ \A x \in Op : x \in given' \ done <=> Has(<<o>>, x) \/ (x \in given \ done /\ ~Has(arg[t], x))
      BY ZenonT(60), <2>2, <2>3
    <2>5. HeldOnce(Held(op_queue, io, private_queue, arg', current), given' \ done)
      BY ZenonT(60), <2>1, <2>4, HeldNow, ArgChange
    <2>6. OpOnce'
      BY ZenonT(60), <1>1, <1>6, <2>5 DEF OpOnce
    <2>7. ArgTaken'
      <3>1. ASSUME NEW u \in Thread, call'[u] # "push" PROVE arg'[u] = <<>>
        <4>1. u # t /\ call[u] # "push" /\ arg'[u] = arg[u]
          BY ZenonT(60), <2>1, <3>1 DEF Replaced
        <4> QED BY ZenonT(60), <4>1 DEF OnceInv, ArgTaken
      <3> QED BY ZenonT(60), <3>1 DEF ArgTaken
    <2> QED BY ZenonT(60), <1>1, <2>6, <2>7 DEF OnceInv
  <1> QED BY ZenonT(60), <1>5, <1>6 DEF Post, privateVars

LEMMA InitTaskOnce ==
    ASSUME OnceInv, NEW t \in Thread, InitTask(t) PROVE OpOnce' /\ ArgTaken' /\ done' \subseteq given'
  <1>1. /\ call[t] = "idle" /\ op_queue' = Append(op_queue, Task) /\ SignalOne(t)
        /\ UNCHANGED <<io, private_queue, arg, current, given, done>>
    BY ZenonT(60) DEF InitTask, MayCall, placeVars, privateVars, historyVars
  <1>2. HeldOnce(Held(Append(op_queue, Task), io, private_queue, arg, current), given \ done)
    BY ZenonT(60), KeptNow, HeldNow, TaskBehind
  <1>3. OpOnce'
    BY ZenonT(60), <1>1, <1>2 DEF OpOnce
  <1>4. ArgTaken'
    <2>1. \A u \in Thread : u # t => call'[u] = call[u]
      BY ZenonT(60), <1>1, SignalCall
    <2>2. call[t] # "push"
      BY ZenonT(60), <1>1
    <2> QED BY ZenonT(60), <1>1, <2>1, <2>2, CallOnce
  <1> QED BY ZenonT(60), <1>1, <1>3, <1>4 DEF OnceInv

\* The reactor hands over its descriptor operation, which is none of the user's.
LEMMA ReactorReturnsOnce ==
    ASSUME OnceInv, NEW t \in Thread, ReactorReturns(t) PROVE OpOnce' /\ ArgTaken' /\ done' \subseteq given'
  <1>1. PICK d \in {<<>>, <<Desc>>} : private_queue' = [private_queue EXCEPT ![t] = @ \o d]
    BY ZenonT(60) DEF ReactorReturns
  <1>2. UNCHANGED <<op_queue, io, current, call, arg, given, done>>
    BY ZenonT(60) DEF ReactorReturns, callVars, historyVars
  <1>3. private_queue \in [Thread -> Seq(Item)] /\ private_queue[t] \in Seq(Item)
    BY ZenonT(60), KeptNow DEF Kept
  <1>4. Replaced(private_queue, private_queue', t, private_queue[t] \o d)
    BY ZenonT(60), <1>1, <1>3 DEF Replaced
  <1>5. d \in Seq(Item) /\ Single(d) /\ \A o \in Op : ~Has(d, o)
    <2>1. Desc \in Item
      BY ZenonT(60) DEF Item
    <2>2. CASE d = <<>>
      BY ZenonT(60), <2>2, NoItem
    <2>3. CASE d = <<Desc>>
      BY ZenonT(60), <2>1, <2>3, OneItem, OpsDistinct
    <2> QED BY ZenonT(60), <2>2, <2>3
  <1>6. \A o \in Op : Has(private_queue[t] \o d, o) <=> Has(private_queue[t], o)
    BY ZenonT(60), <1>3, <1>5, ConcatHas
  <1>7. Held(op_queue, io, private_queue, arg, current)[PrivatePlace(t)] = private_queue[t] /\ PrivatePlace(t) \in Place
    BY ZenonT(60), NowAt, PlacesAre DEF HeldIs
  <1>8. Single(private_queue[t]) /\ \A o \in Op : Has(private_queue[t], o) => o \in given \ done
    BY ZenonT(60), <1>7, HeldNow DEF HeldOnce
  <1>9. Single(private_queue[t] \o d)
    BY ZenonT(60), <1>3, <1>5, <1>8, ConcatSingle
  <1>10. /\ \A o \in Op : Has(private_queue[t] \o d, o) => Has(private_queue[t], o) \/ o \notin given \ done
         /\ \A o \in Op : o \in given \ done
              <=> Has(private_queue[t] \o d, o) \/ (o \in given \ done /\ ~Has(private_queue[t], o))
    BY ZenonT(60), <1>6, <1>8
  <1>11. HeldOnce(Held(op_queue, io, private_queue', arg, current), given \ done)
    BY ZenonT(60), <1>4, <1>9, <1>10, HeldNow, PrivateChange
  <1>12. OpOnce'
    BY ZenonT(60), <1>2, <1>11 DEF OpOnce
  <1>13. ArgTaken'
    BY ZenonT(60), <1>2, CallOnce
  <1> QED BY ZenonT(60), <1>2, <1>12, <1>13 DEF OnceInv

\* The steps that move no operation.
LEMMA StillOnce ==
    ASSUME OnceInv, NEW t \in Thread,
           Signal(t) \/ Enter(t) \/ SpuriousWakeUp(t) \/ WorkCleanup(t) \/ StopWithoutWork(t) \/ Stop(t)
    PROVE  OpOnce' /\ ArgTaken' /\ done' \subseteq given'
  <1>1. UNCHANGED <<op_queue, io, private_queue, current, arg, given, done>>
    BY ZenonT(60) DEF Signal, Enter, SpuriousWakeUp, WorkCleanup, StopWithoutWork, Stop, queueVars,
                      placeVars, privateVars, callVars, historyVars
  <1>2. ArgTaken'
    <2>1. CASE Signal(t)
      <3>1. call \in [Thread -> {"idle", "push", "signal"}]
        BY ZenonT(60) DEF OnceInv, SchedulerInv, TypeOK
      <3>2. call[t] = "signal" /\ call' = [call EXCEPT ![t] = "idle"]
        BY ZenonT(60), <2>1 DEF Signal
      <3>3. \A u \in Thread : u # t => call'[u] = call[u]
        BY ZenonT(60), <3>1, <3>2
      <3>4. call[t] # "push"
        BY ZenonT(60), <3>2
      <3> QED BY ZenonT(60), <1>1, <3>3, <3>4, CallOnce
    <2>2. CASE ~Signal(t)
      <3>1. call' = call
        BY ZenonT(60), <2>2 DEF Enter, SpuriousWakeUp, WorkCleanup, StopWithoutWork, Stop, callVars
      <3> QED BY ZenonT(60), <1>1, <3>1, CallOnce
    <2> QED BY ZenonT(60), <2>1, <2>2
  <1> QED BY ZenonT(60), <1>1, <1>2, QuietOnce DEF OnceInv

LEMMA StepOnce ==
    ASSUME OnceInv, NEW t \in Thread, Step(t) PROVE OpOnce' /\ ArgTaken' /\ done' \subseteq given'
  BY ZenonT(60), LookFirstOnce, WakeUpOnce, TimedWakeUpOnce, TaskCleanupOnce, PerformIoOnce, PublishOnce,
     PushOnce, StillOnce DEF Step

LEMMA NextOnce == ASSUME OnceInv, [Next]_vars PROVE OpOnce' /\ ArgTaken' /\ done' \subseteq given'
  <1>1. ASSUME NEW t \in Runner, Enter(t) \/ ReactorReturns(t) \/ EndHandler(t) \/ SpuriousWakeUp(t)
        PROVE  OpOnce' /\ ArgTaken' /\ done' \subseteq given'
    <2>1. t \in Thread
      BY ZenonT(60) DEF Thread
    <2> QED BY ZenonT(60), <1>1, <2>1, ReactorReturnsOnce, EndHandlerOnce, StillOnce
  <1>2. ASSUME NEW t \in Thread, NEW o \in Op, Post(t, o) \/ StartIo(t, o)
        PROVE  OpOnce' /\ ArgTaken' /\ done' \subseteq given'
    BY ZenonT(60), <1>2, PostOnce, StartIoOnce
  <1>3. ASSUME NEW t \in Thread, CancelIo(t) \/ InitTask(t) \/ Stop(t)
        PROVE  OpOnce' /\ ArgTaken' /\ done' \subseteq given'
    BY ZenonT(60), <1>3, CancelIoOnce, InitTaskOnce, StillOnce
  <1>4. ASSUME Restart \/ UNCHANGED vars PROVE OpOnce' /\ ArgTaken' /\ done' \subseteq given'
    <2>1. UNCHANGED <<op_queue, io, private_queue, current, call, arg, given, done>>
      BY ZenonT(60), <1>4 DEF Restart, vars, queueVars, placeVars, privateVars, callVars, historyVars
    <2>2. OpOnce'
      BY ZenonT(60), <2>1, QuietOnce
    <2>3. ArgTaken'
      BY ZenonT(60), <2>1 DEF OnceInv, ArgTaken
    <2> QED BY ZenonT(60), <2>1, <2>2, <2>3 DEF OnceInv
  <1> QED BY ZenonT(60), <1>1, <1>2, <1>3, <1>4, StepOnce DEF Next

LEMMA InitOnce == Init => OpOnce /\ ArgTaken /\ done \subseteq given
  <1> SUFFICES ASSUME Init PROVE OpOnce /\ ArgTaken /\ done \subseteq given
    OBVIOUS
  <1> DEFINE H == Held(op_queue, io, private_queue, arg, current)
  <1>1. /\ op_queue = <<>> /\ io = <<>> /\ given = {} /\ done = {}
        /\ \A t \in Thread : private_queue[t] = <<>> /\ arg[t] = <<>> /\ current[t] = None
    BY ZenonT(60) DEF Init
  <1>2. HeldIs(H, op_queue, io, private_queue, arg, current)
    BY ZenonT(60), NowAt
  <1> HIDE DEF H
  <1>3. \A p \in Place : H[p] = <<>> \/ H[p] = <<None>>
    BY SMTT(90), <1>1, <1>2, PlacesAre DEF HeldIs
  <1>4. None \in Item
    BY ZenonT(60) DEF Item
  <1>5. ASSUME NEW p \in Place PROVE Single(H[p]) /\ \A o \in Op : ~Has(H[p], o)
    <2>1. CASE H[p] = <<>>
      BY ZenonT(60), <2>1, NoItem
    <2>2. CASE H[p] = <<None>>
      BY ZenonT(60), <1>4, <2>2, OneItem, OpsDistinct
    <2> QED BY ZenonT(60), <1>3, <2>1, <2>2
  <1>6. HeldOnce(H, given \ done)
    BY ZenonT(60), <1>1, <1>5 DEF HeldOnce
  <1>7. OpOnce
    BY ZenonT(60), <1>6 DEF OpOnce, H
  <1> QED BY ZenonT(60), <1>1, <1>7 DEF ArgTaken

\* OnceInv is an invariant for any threads and operations.
THEOREM OnceInvariant == Spec => []OnceInv
  <1>1. Init => OnceInv
    BY ZenonT(60), InitInv, InitOnce DEF OnceInv
  <1>2. ASSUME OnceInv, [Next]_vars PROVE OnceInv'
    <2>1. SchedulerInv
      BY ZenonT(60), <1>2 DEF OnceInv
    <2>2. SchedulerInv'
      BY ZenonT(60), <1>2, <2>1, NextInv
    <2> QED BY ZenonT(60), <1>2, <2>2, NextOnce DEF OnceInv
  <1>3. OnceInv /\ [Next]_vars => OnceInv'
    BY ZenonT(60), <1>2
  <1> QED BY <1>1, <1>3, PTL DEF Spec

\* No operation is lost or completed twice: it is in one queue, in the hands of one
\* thread or at the descriptor until its handler has returned, through the private
\* queues, perform_io, cancel_ops, task_cleanup and work_cleanup.
THEOREM EachOpOnce == Spec => []OpOnce
  <1>1. OnceInv => OpOnce
    BY ZenonT(60) DEF OnceInv
  <1> QED BY <1>1, OnceInvariant, PTL

=============================================================================
