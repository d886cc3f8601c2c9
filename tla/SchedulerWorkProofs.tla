------------------------ MODULE SchedulerWorkProofs -------------------------
(***************************************************************************)
(* The count of outstanding work, for any number of threads and operations.*)
(*                                                                         *)
(* Each step of the scheduler counts in one of five ways (NextCounted), and*)
(* each of the five keeps WorkCounted (CountKept).                         *)
(*                                                                         *)
(* That the count is not zero too early is a pigeonhole argument.  Every   *)
(* unit that threads keep for themselves stands for an operation of a      *)
(* private queue or for a cleanup to come, and no two for the same.  While *)
(* outstanding_work_ is zero there are as many units as operations not     *)
(* completed and cleanups to come, so that all of them have their unit.    *)
(* An operation not completed is then in the private queue of a thread,    *)
(* which is not at its cleanup, where the unit is of a thread with an empty*)
(* queue, and which runs no handler either, since the operation it runs    *)
(* would be in a private queue too (ZeroIsNone).                           *)
(*                                                                         *)
(* The facts about finite sets are a hypothesis, SetCounts, until the end. *)
(***************************************************************************)
EXTENDS SchedulerProofs

-----------------------------------------------------------------------------
(* The count of the work.                                                  *)

PrivateCounted == \A t \in Thread : Counts(pc[t], private_queue[t], private_work[t])

\* Nothing is counted: the step leaves WorkCounted alone.
NotCounted ==
    /\ Cleaning' = Cleaning
    /\ UNCHANGED <<outstanding_work, private_work, given, done>>

\* What steps of t do to the count: perform_io keeps a unit for the cleanup to come,
\* a handler ends, work_cleanup counts, and an operation o is given.
MakesUp(t) ==
    /\ t \notin Cleaning /\ Cleaning' = Cleaning \cup {t}
    /\ private_work' = [private_work EXCEPT ![t] = @ + 1]
    /\ UNCHANGED <<outstanding_work, given, done>>
Ends(t) ==
    /\ t \notin Cleaning /\ Cleaning' = Cleaning \cup {t}
    /\ current[t] \in given \ done /\ done' = done \cup {current[t]}
    /\ UNCHANGED <<outstanding_work, private_work, given>>
Cleans(t) ==
    /\ t \in Cleaning /\ Cleaning' = Cleaning \ {t}
    /\ outstanding_work' = outstanding_work + private_work[t] - 1
    /\ private_work' = [private_work EXCEPT ![t] = 0]
    /\ UNCHANGED <<given, done>>
Gives(t, o) ==
    /\ o \notin given /\ given' = given \cup {o}
    /\ \/ private_work' = [private_work EXCEPT ![t] = @ + 1] /\ UNCHANGED outstanding_work
       \/ outstanding_work' = outstanding_work + 1 /\ UNCHANGED private_work
    /\ Cleaning' = Cleaning /\ UNCHANGED done

\* The types of what the count looks at.
LEMMA PlaceTypes ==
    ASSUME OnceInv
    PROVE  /\ pc \in [Thread -> PcValue] /\ private_work \in [Thread -> Nat]
           /\ private_queue \in [Thread -> Seq(Op \cup {Desc})]
  BY ZenonT(60) DEF OnceInv, SchedulerInv, TypeOK

\* A thread may always count nothing.
LEMMA CountsNone ==
    ASSUME NEW p, NEW q, q = <<>> \/ (q \in Seq(Op \cup {Desc}) /\ p # "descriptor")
    PROVE  Counts(p, q, 0)
  <1>1. CASE q = <<>>
    BY SMTT(90), <1>1 DEF Counts
  <1>2. CASE q \in Seq(Op \cup {Desc}) /\ p # "descriptor"
    <2>1. Len(q) \in Nat
      BY SMTT(90), <1>2
    <2>2. 0 <= Len(q)
      BY SMTT(90), <2>1
    <2> QED BY ZenonT(60), <1>2, <2>2 DEF Counts
  <1> QED BY ZenonT(60), <1>1, <1>2

\* What a thread may count it may also count with more behind its queue.
LEMMA CountsMore ==
    ASSUME NEW p, NEW p2, NEW q \in Seq(Op \cup {Desc}), NEW s \in Seq(Op \cup {Desc}), NEW n \in Nat,
           Counts(p, q, n), p # "cleanup", p2 # "descriptor"
    PROVE  Counts(p2, q, n) /\ Counts(p2, q \o s, n)
  <1>1. n <= Len(q)
    BY ZenonT(60) DEF Counts
  <1>2. n <= Len(q \o s)
    BY SMTT(90), <1>1
  <1> QED BY ZenonT(60), <1>1, <1>2 DEF Counts

\* The thread t goes from one place to another, and keeps no count.
LEMMA MoveCounted ==
    ASSUME OnceInv, PrivateCounted, NEW t \in Thread, NEW p, Goes(t, p), p # "cleanup", pc[t] # "cleanup",
           private_work[t] = 0, UNCHANGED <<outstanding_work, private_work, given, done>>,
           private_queue'[t] = <<>> \/ (private_queue'[t] \in Seq(Op \cup {Desc}) /\ p # "descriptor"),
           \A u \in Thread : u # t => private_queue'[u] = private_queue[u]
    PROVE  NotCounted /\ PrivateCounted'
  <1>1. pc'[t] = p /\ \A u \in Thread : u # t => pc'[u] = pc[u]
    BY ZenonT(60), PlaceTypes DEF Goes
  <1>2. Cleaning' = Cleaning
    BY ZenonT(60), <1>1 DEF Cleaning
  <1>3. ASSUME NEW u \in Thread PROVE Counts(pc'[u], private_queue'[u], private_work'[u])
    <2>1. CASE u = t
      <3>1. Counts(p, private_queue'[t], 0)
        BY ZenonT(60), CountsNone
      <3> QED BY ZenonT(60), <1>1, <2>1, <3>1
    <2>2. CASE u # t
      BY ZenonT(60), <1>1, <2>2 DEF PrivateCounted
    <2> QED BY ZenonT(60), <2>1, <2>2
  <1> QED BY ZenonT(60), <1>2, <1>3 DEF NotCounted, PrivateCounted

LEMMA LookElsewhere ==
    ASSUME NEW t, NEW q, NEW ti, Look(t, q, ti)
    PROVE  \E p \in PcValue \ {"cleanup"} : Goes(t, p)
  <1>1. CASE stopped /\ Leave(t, q, ti)
    BY ZenonT(60), <1>1 DEF Leave, PcValue
  <1>2. CASE /\ q = <<>>
             /\ CASE mode[t] \in {"run", "run_one"} -> Sleep(t, ti, "wait")
                  [] mode[t] = "wait_one" -> Sleep(t, ti, "timed")
                  [] OTHER -> Leave(t, q, ti)
    <2>1. Sleep(t, ti, "wait") \/ Sleep(t, ti, "timed") \/ Leave(t, q, ti)
      BY SMTT(90), <1>2
    <2> QED BY ZenonT(60), <2>1 DEF Sleep, Leave, PcValue
  <1>3. CASE q # <<>> /\ (TakeTask(t, q, ti, FALSE) \/ TakeOp(t, q, ti))
    BY ZenonT(60), <1>3 DEF TakeTask, TakeOp, PcValue
  <1> QED BY ZenonT(60), <1>1, <1>2, <1>3 DEF Look

\* The places of threads that keep no count, and no operation.
LEMMA KeepsNone ==
    ASSUME OnceInv, NEW t \in Thread, pc[t] \notin {"handler", "cleanup"}
    PROVE  /\ private_work[t] = 0
           /\ pc[t] \notin {"returned", "descriptor", "stop", "publish"} => private_queue[t] = <<>>
  BY ZenonT(60) DEF OnceInv, SchedulerInv, PrivatePlaced

LEMMA LookCounted ==
    ASSUME OnceInv, PrivateCounted, NEW t \in Thread, pc[t] \notin {"handler", "cleanup"}, UNCHANGED lookVars,
           \E p \in PcValue \ {"cleanup"} : Goes(t, p),
           \/ private_queue' = [private_queue EXCEPT ![t] = <<>>]
           \/ private_queue' = private_queue /\ private_queue[t] = <<>>
    PROVE  NotCounted /\ PrivateCounted'
  <1>1. PICK p \in PcValue \ {"cleanup"} : Goes(t, p)
    OBVIOUS
  <1>2. UNCHANGED <<outstanding_work, private_work, given, done>>
    BY ZenonT(60) DEF lookVars, historyVars
  <1>3. private_queue'[t] = <<>> /\ \A u \in Thread : u # t => private_queue'[u] = private_queue[u]
    BY ZenonT(60), PlaceTypes
  <1>4. private_work[t] = 0 /\ p # "cleanup" /\ pc[t] # "cleanup"
    BY ZenonT(60), KeepsNone
  <1> QED BY ZenonT(60), <1>1, <1>2, <1>3, <1>4, MoveCounted

\* do_run_one, do_poll_one and the cleanup of the task count nothing: the private count
\* is zero before the queue of completed operations is published.
LEMMA LooksCounted ==
    ASSUME OnceInv, PrivateCounted, NEW t \in Thread,
           LookFirst(t) \/ WakeUp(t) \/ TimedWakeUp(t) \/ TaskCleanup(t) \/ Publish(t)
    PROVE  NotCounted /\ PrivateCounted'
  <1>1. pc[t] \notin {"handler", "cleanup"} /\ UNCHANGED lookVars
    BY ZenonT(60) DEF LookFirst, WakeUp, TimedWakeUp, TaskCleanup, Publish
  <1>2. \E p \in PcValue \ {"cleanup"} : Goes(t, p)
    <2>1. CASE LookFirst(t)
      BY ZenonT(60), <2>1, LookElsewhere DEF LookFirst
    <2>2. CASE WakeUp(t)
      BY ZenonT(60), <2>2, LookElsewhere DEF WakeUp, PcValue
    <2>3. CASE TimedWakeUp(t)
      BY ZenonT(60), <2>3 DEF TimedWakeUp, Leave, TakeTask, TakeOp, PcValue
    <2>4. CASE TaskCleanup(t)
      BY ZenonT(60), <2>4, LookElsewhere DEF TaskCleanup, LookAgain, TakeOp, PcValue
    <2>5. CASE Publish(t)
      BY ZenonT(60), <2>5, LookElsewhere DEF Publish, Leave, PcValue
    <2> QED BY ZenonT(60), <2>1, <2>2, <2>3, <2>4, <2>5
  <1>3. \/ private_queue' = [private_queue EXCEPT ![t] = <<>>]
        \/ private_queue' = private_queue /\ private_queue[t] = <<>>
    <2>1. CASE LookFirst(t) \/ WakeUp(t) \/ TimedWakeUp(t)
      <3>1. pc[t] \notin {"returned", "descriptor", "stop", "publish"} /\ private_queue' = private_queue
        BY ZenonT(60), <2>1 DEF LookFirst, WakeUp, TimedWakeUp
      <3> QED BY ZenonT(60), <1>1, <3>1, KeepsNone
    <2>2. CASE TaskCleanup(t) \/ Publish(t)
      BY ZenonT(60), <2>2 DEF TaskCleanup, Publish
    <2> QED BY ZenonT(60), <2>1, <2>2
  <1> QED BY ZenonT(60), <1>1, <1>2, <1>3, LookCounted

LEMMA EnterCounted ==
    ASSUME OnceInv, PrivateCounted, NEW t \in Thread, Enter(t) \/ SpuriousWakeUp(t)
    PROVE  NotCounted /\ PrivateCounted'
  <1>1. /\ pc[t] \notin {"handler", "cleanup"} /\ pc[t] \notin {"returned", "descriptor", "stop", "publish"}
        /\ UNCHANGED <<outstanding_work, private_work, given, done, private_queue>>
    BY ZenonT(60) DEF Enter, SpuriousWakeUp, privateVars, historyVars
  <1>2. PICK p \in {"stop", "look", "woken"} : Goes(t, p)
    BY ZenonT(60) DEF Enter, SpuriousWakeUp
  <1>3. private_work[t] = 0 /\ private_queue'[t] = <<>> /\ p # "cleanup"
    BY ZenonT(60), <1>1, KeepsNone
  <1> QED BY ZenonT(60), <1>1, <1>2, <1>3, MoveCounted

LEMMA ReactorReturnsCounted ==
    ASSUME OnceInv, PrivateCounted, NEW t \in Thread, ReactorReturns(t)
    PROVE  NotCounted /\ PrivateCounted'
  <1>1. /\ pc[t] \notin {"handler", "cleanup"} /\ Goes(t, "returned")
        /\ UNCHANGED <<outstanding_work, private_work, given, done>>
    BY ZenonT(60) DEF ReactorReturns, historyVars
  <1>2. PICK d \in {<<>>, <<Desc>>} : private_queue' = [private_queue EXCEPT ![t] = @ \o d]
    BY ZenonT(60) DEF ReactorReturns
  <1>3. private_queue \in [Thread -> Seq(Op \cup {Desc})]
    BY ZenonT(60), PlaceTypes
  <1>4. private_queue[t] \o d \in Seq(Op \cup {Desc})
    <2>1. private_queue[t] \in Seq(Op \cup {Desc}) /\ (d = <<>> \/ d = <<Desc>>)
      BY ZenonT(60), <1>2, <1>3
    <2>2. <<>> \in Seq(Op \cup {Desc}) /\ <<Desc>> \in Seq(Op \cup {Desc})
      BY SMTT(90)
    <2>3. d \in Seq(Op \cup {Desc})
      BY ZenonT(60), <2>1, <2>2
    <2> QED BY ZenonT(60), <2>1, <2>3, ConcatElements
  <1>5. /\ private_queue'[t] \in Seq(Op \cup {Desc})
        /\ \A u \in Thread : u # t => private_queue'[u] = private_queue[u]
    BY ZenonT(60), <1>2, <1>3, <1>4
  <1>6. private_work[t] = 0
    BY ZenonT(60), <1>1, KeepsNone
  <1> QED BY ZenonT(60), <1>1, <1>5, <1>6, MoveCounted

\* The steps that move no thread but those that wait.
LEMMA WakesCounted ==
    ASSUME OnceInv, PrivateCounted, UNCHANGED <<outstanding_work, private_work, given, done, private_queue>>,
           \A u \in Thread : pc'[u] \in {pc[u], Woken(pc[u])}
    PROVE  NotCounted /\ PrivateCounted'
  <1>1. \A u \in Thread : \/ pc'[u] = pc[u]
                          \/ (pc[u] = "wait" \/ pc[u] = "timed") /\ (pc'[u] = "woken" \/ pc'[u] = "timed_woken")
    BY ZenonT(60) DEF Woken
  <1>2. Cleaning' = Cleaning
    BY ZenonT(60), <1>1 DEF Cleaning
  <1>3. ASSUME NEW u \in Thread PROVE Counts(pc'[u], private_queue[u], private_work[u])
    <2>1. CASE pc'[u] = pc[u]
      BY ZenonT(60), <2>1 DEF PrivateCounted
    <2>2. CASE pc[u] = "wait" \/ pc[u] = "timed"
      <3>1. private_work[u] = 0 /\ private_queue[u] = <<>>
        BY ZenonT(60), <2>2, KeepsNone
      <3> QED BY ZenonT(60), <3>1, CountsNone
    <2> QED BY ZenonT(60), <1>1, <2>1, <2>2
  <1> QED BY ZenonT(60), <1>2, <1>3 DEF NotCounted, PrivateCounted

LEMMA StillCounted ==
    ASSUME OnceInv, PrivateCounted, NEW t \in Thread, Signal(t) \/ Stop(t) \/ Push(t) \/ InitTask(t)
    PROVE  NotCounted /\ PrivateCounted'
  <1>1. UNCHANGED <<outstanding_work, private_work, given, done, private_queue>>
    BY ZenonT(60) DEF Signal, Stop, Push, InitTask, privateVars, historyVars
  <1>2. pc \in [Thread -> PcValue]
    BY ZenonT(60), PlaceTypes
  <1>3. \A u \in Thread : pc'[u] \in {pc[u], Woken(pc[u])}
    <2>1. CASE Signal(t)
      <3>1. CASE pc' = pc
        BY ZenonT(60), <3>1
      <3>2. CASE pc' # pc
        <4>1. PICK w : Goes(w, Woken(pc[w]))
          BY ZenonT(60), <2>1, <3>2 DEF Signal
        <4> QED BY ZenonT(60), <1>2, <4>1 DEF Goes
      <3> QED BY ZenonT(60), <3>1, <3>2
    <2>2. CASE Stop(t)
      BY ZenonT(60), <2>2 DEF Stop, StopAll
    <2>3. CASE Push(t) \/ InitTask(t)
      BY ZenonT(60), <2>3 DEF Push, InitTask, placeVars
    <2> QED BY ZenonT(60), <2>1, <2>2, <2>3
  <1> QED BY ZenonT(60), <1>1, <1>3, WakesCounted

LEMMA RestCounted ==
    ASSUME OnceInv, PrivateCounted, Restart \/ UNCHANGED vars
    PROVE  NotCounted /\ PrivateCounted'
  <1>1. UNCHANGED <<outstanding_work, private_work, given, done, private_queue, pc>>
    BY ZenonT(60) DEF Restart, vars, privateVars, placeVars, historyVars
  <1> QED BY ZenonT(60), <1>1, WakesCounted

LEMMA StopWithoutWorkCounted ==
    ASSUME OnceInv, PrivateCounted, NEW t \in Thread, StopWithoutWork(t)
    PROVE  NotCounted /\ PrivateCounted'
  <1>1. /\ pc[t] = "stop" /\ pc' = [u \in Thread |-> IF u = t THEN AfterCount(t) ELSE Woken(pc[u])]
        /\ UNCHANGED <<outstanding_work, private_work, given, done, private_queue>>
    BY ZenonT(60) DEF StopWithoutWork, StopAll, privateVars, historyVars
  <1>2. AfterCount(t) \in {"publish", "look", "out"}
    BY ZenonT(60) DEF AfterCount
  <1>3. pc'[t] \in {"publish", "look", "out"} /\ \A u \in Thread : u # t => pc'[u] = Woken(pc[u])
    BY ZenonT(60), <1>1, <1>2
  <1>4. \A u \in Thread : u # t =>
           \/ pc'[u] = pc[u]
           \/ (pc[u] = "wait" \/ pc[u] = "timed") /\ (pc'[u] = "woken" \/ pc'[u] = "timed_woken")
    BY ZenonT(60), <1>3 DEF Woken
  <1>5. Cleaning' = Cleaning
    <2>1. pc[t] # "cleanup" /\ pc'[t] # "cleanup"
      BY ZenonT(60), <1>1, <1>3
    <2>2. ASSUME NEW u \in Thread PROVE pc'[u] = "cleanup" <=> pc[u] = "cleanup"
      BY ZenonT(60), <1>4, <2>1
    <2> QED BY ZenonT(60), <2>2 DEF Cleaning
  <1>6. ASSUME NEW u \in Thread PROVE Counts(pc'[u], private_queue[u], private_work[u])
    <2>1. CASE u = t
      <3>1. private_work[t] = 0 /\ private_queue[t] \in Seq(Op \cup {Desc}) /\ pc'[t] # "descriptor"
        BY ZenonT(60), <1>1, <1>3, KeepsNone, PlaceTypes
      <3> QED BY ZenonT(60), <2>1, <3>1, CountsNone
    <2>2. CASE pc'[u] = pc[u]
      BY ZenonT(60), <2>2 DEF PrivateCounted
    <2>3. CASE pc[u] = "wait" \/ pc[u] = "timed"
      <3>1. private_work[u] = 0 /\ private_queue[u] = <<>>
        BY ZenonT(60), <2>3, KeepsNone
      <3> QED BY ZenonT(60), <3>1, CountsNone
    <2> QED BY ZenonT(60), <1>4, <2>1, <2>2, <2>3
  <1> QED BY ZenonT(60), <1>1, <1>5, <1>6 DEF NotCounted, PrivateCounted

\* Operations go to the private queue of t, or elsewhere; t counts as before.
LEMMA GrowCounted ==
    ASSUME OnceInv, PrivateCounted, NEW t \in Thread, NEW s \in Seq(Op \cup {Desc}), Completed(t, s),
           pc[t] # "cleanup", pc'[t] \notin {"cleanup", "descriptor"},
           \A u \in Thread : u # t => pc'[u] = pc[u],
           UNCHANGED <<outstanding_work, private_work, given, done>>
    PROVE  NotCounted /\ PrivateCounted'
  <1>1. Cleaning' = Cleaning
    <2>1. ASSUME NEW u \in Thread PROVE pc'[u] = "cleanup" <=> pc[u] = "cleanup"
      BY ZenonT(60)
    <2> QED BY ZenonT(60), <2>1 DEF Cleaning
  <1>2. /\ private_queue \in [Thread -> Seq(Op \cup {Desc})] /\ private_work[t] \in Nat
        /\ private_queue[t] \in Seq(Op \cup {Desc})
    BY ZenonT(60), PlaceTypes
  <1>3. /\ private_queue'[t] = private_queue[t] \/ private_queue'[t] = private_queue[t] \o s
        /\ \A u \in Thread : u # t => private_queue'[u] = private_queue[u]
    BY ZenonT(60), <1>2 DEF Completed
  <1>4. Counts(pc[t], private_queue[t], private_work[t]) /\ pc'[t] # "descriptor"
    BY ZenonT(60) DEF PrivateCounted
  <1>5. /\ Counts(pc'[t], private_queue[t], private_work[t])
        /\ Counts(pc'[t], private_queue[t] \o s, private_work[t])
    BY ZenonT(60), <1>2, <1>4, CountsMore
  <1>6. ASSUME NEW u \in Thread PROVE Counts(pc'[u], private_queue'[u], private_work[u])
    <2>1. CASE u = t
      BY ZenonT(60), <1>3, <1>5, <2>1
    <2>2. CASE u # t
      BY ZenonT(60), <1>3, <2>2 DEF PrivateCounted
    <2> QED BY ZenonT(60), <2>1, <2>2
  <1> QED BY ZenonT(60), <1>1, <1>6 DEF NotCounted, PrivateCounted

LEMMA CancelIoCounted ==
    ASSUME OnceInv, PrivateCounted, NEW t \in Thread, CancelIo(t)
    PROVE  NotCounted /\ PrivateCounted'
  <1>1. MayCall(t) /\ Completed(t, io) /\ UNCHANGED <<pc, outstanding_work, private_work, given, done>>
    BY ZenonT(60) DEF CancelIo, placeVars, historyVars
  <1>2. pc[t] \in {"out", "handler"}
    BY ZenonT(60), <1>1 DEF MayCall, OnceInv, SchedulerInv, PrivatePlaced
  <1>3. io \in Seq(Op)
    BY ZenonT(60) DEF OnceInv, SchedulerInv, TypeOK
  <1>4. io \in Seq(Op \cup {Desc})
    BY SMTT(90), <1>3
  <1>5. pc[t] # "cleanup" /\ pc'[t] \notin {"cleanup", "descriptor"}
    BY ZenonT(60), <1>1, <1>2
  <1> QED BY ZenonT(60), <1>1, <1>4, <1>5, GrowCounted

\* The thread t goes to its cleanup.
LEMMA ToCleanup ==
    ASSUME OnceInv, NEW t \in Thread, pc[t] # "cleanup", Goes(t, "cleanup")
    PROVE  /\ t \notin Cleaning /\ Cleaning' = Cleaning \cup {t}
           /\ pc'[t] = "cleanup" /\ \A u \in Thread : u # t => pc'[u] = pc[u]
  <1>1. pc'[t] = "cleanup" /\ \A u \in Thread : u # t => pc'[u] = pc[u]
    BY ZenonT(60), PlaceTypes DEF Goes
  <1>2. \A u \in Thread : u \in Cleaning' <=> u \in Cleaning \/ u = t
    BY ZenonT(60), <1>1 DEF Cleaning
  <1>3. Cleaning \subseteq Thread /\ Cleaning' \subseteq Thread
    BY ZenonT(60) DEF Cleaning
  <1>4. Cleaning' = Cleaning \cup {t}
    BY ZenonT(60), <1>2, <1>3
  <1> QED BY ZenonT(60), <1>1, <1>4 DEF Cleaning

\* perform_io that completes nothing makes up for the work_cleanup to come
\* (compensating_work_started); otherwise the operation it completes is the one to end.
LEMMA PerformIoCounted ==
    ASSUME OnceInv, PrivateCounted, NEW t \in Thread, PerformIo(t)
    PROVE  (NotCounted \/ MakesUp(t)) /\ PrivateCounted'
  <1>1. PICK k \in 0 .. Len(io) :
          IF k = 0
            THEN /\ private_work' = [private_work EXCEPT ![t] = @ + 1]
                 /\ Goes(t, "cleanup")
                 /\ UNCHANGED private_queue
            ELSE /\ Goes(t, "handler")
                 /\ Completed(t, SubSeq(io, 2, k))
                 /\ UNCHANGED private_work
    BY ZenonT(60) DEF PerformIo
  <1>2. pc[t] = "descriptor" /\ UNCHANGED <<outstanding_work, given, done>>
    BY ZenonT(60) DEF PerformIo, historyVars
  <1>3. pc[t] # "cleanup" /\ private_work[t] = 0 /\ private_queue[t] = <<>>
    BY ZenonT(60), <1>2, KeepsNone DEF PrivateCounted, Counts
  <1>4. CASE k = 0
    <2>1. /\ private_work' = [private_work EXCEPT ![t] = @ + 1] /\ Goes(t, "cleanup")
          /\ private_queue' = private_queue
      BY ZenonT(60), <1>1, <1>4
    <2>2. /\ t \notin Cleaning /\ Cleaning' = Cleaning \cup {t}
          /\ pc'[t] = "cleanup" /\ \A u \in Thread : u # t => pc'[u] = pc[u]
      BY ZenonT(60), <1>3, <2>1, ToCleanup
    <2>3. private_work'[t] = 0 + 1 /\ \A u \in Thread : u # t => private_work'[u] = private_work[u]
      BY ZenonT(60), <1>3, <2>1, PlaceTypes
    <2>4. 0 + 1 = 1
      BY SMTT(90)
    <2>5. ASSUME NEW u \in Thread PROVE Counts(pc'[u], private_queue[u], private_work'[u])
      <3>1. CASE u = t
        BY ZenonT(60), <1>3, <2>2, <2>3, <2>4, <3>1 DEF Counts
      <3>2. CASE u # t
        BY ZenonT(60), <2>2, <2>3, <3>2 DEF PrivateCounted
      <3> QED BY ZenonT(60), <3>1, <3>2
    <2>6. PrivateCounted'
      BY ZenonT(60), <2>1, <2>5 DEF PrivateCounted
    <2> QED BY ZenonT(60), <1>2, <2>1, <2>2, <2>6 DEF MakesUp
  <1>5. CASE k # 0
    <2>1. Goes(t, "handler") /\ Completed(t, SubSeq(io, 2, k)) /\ private_work' = private_work
      BY ZenonT(60), <1>1, <1>5
    <2>2. io \in Seq(Op)
      BY ZenonT(60) DEF OnceInv, SchedulerInv, TypeOK
    <2>3. SubSeq(io, 2, k) \in Seq(Op \cup {Desc})
      BY SMTT(90), <1>5, <2>2
    <2>4. pc'[t] = "handler" /\ \A u \in Thread : u # t => pc'[u] = pc[u]
      BY ZenonT(60), <2>1, PlaceTypes DEF Goes
    <2>5. pc'[t] \notin {"cleanup", "descriptor"}
      BY ZenonT(60), <2>4
    <2> QED BY ZenonT(60), <1>2, <1>3, <2>1, <2>3, <2>4, <2>5, GrowCounted
  <1> QED BY ZenonT(60), <1>4, <1>5

\* The operation that t completes has been given and not completed.
LEMMA CurrentGiven ==
    ASSUME OnceInv, NEW t \in Thread, current[t] \in Op PROVE current[t] \in given \ done
  <1>1. HeldIs(Held(op_queue, io, private_queue, arg, current), op_queue, io, private_queue, arg, current)
    BY ZenonT(60), HeldAt
  <1>2. Held(op_queue, io, private_queue, arg, current)[CurrentPlace(t)] = <<current[t]>>
    BY ZenonT(60), <1>1 DEF HeldIs
  <1>3. current[t] \in Item
    BY ZenonT(60) DEF Item
  <1>4. Has(Held(op_queue, io, private_queue, arg, current)[CurrentPlace(t)], current[t])
    BY ZenonT(60), <1>2, <1>3, OneItem
  <1> QED BY ZenonT(60), <1>4, HeldNow, PlacesAre DEF HeldOnce

\* The handler ends: its work is counted off by the work_cleanup to come.
LEMMA EndHandlerCounted ==
    ASSUME OnceInv, PrivateCounted, NEW t \in Thread, EndHandler(t)
    PROVE  Ends(t) /\ PrivateCounted'
  <1>1. /\ pc[t] = "handler" /\ Goes(t, "cleanup") /\ done' = done \cup {current[t]}
        /\ UNCHANGED <<outstanding_work, private_work, private_queue, given>>
    BY ZenonT(60) DEF EndHandler, privateVars
  <1>2. current[t] \in Op
    BY ZenonT(60), <1>1 DEF OnceInv, SchedulerInv, PrivatePlaced
  <1>3. pc[t] # "cleanup"
    BY ZenonT(60), <1>1
  <1>4. /\ t \notin Cleaning /\ Cleaning' = Cleaning \cup {t}
        /\ pc'[t] = "cleanup" /\ \A u \in Thread : u # t => pc'[u] = pc[u]
    BY ZenonT(60), <1>1, <1>3, ToCleanup
  <1>5. private_queue[t] \in Seq(Op \cup {Desc}) /\ private_work[t] \in Nat
    BY ZenonT(60), PlaceTypes
  <1>6. Counts(pc'[t], private_queue[t], private_work[t])
    <2>1. Counts(pc[t], private_queue[t], private_work[t]) /\ pc'[t] # "descriptor"
      BY ZenonT(60), <1>4 DEF PrivateCounted
    <2> QED BY ZenonT(60), <1>3, <1>5, <2>1, CountsMore
  <1>7. ASSUME NEW u \in Thread PROVE Counts(pc'[u], private_queue[u], private_work[u])
    <2>1. CASE u # t
      BY ZenonT(60), <1>4, <2>1 DEF PrivateCounted
    <2> QED BY ZenonT(60), <1>6, <2>1
  <1>8. PrivateCounted'
    BY ZenonT(60), <1>1, <1>7 DEF PrivateCounted
  <1>9. current[t] \in given \ done
    BY ZenonT(60), <1>2, CurrentGiven
  <1> QED BY ZenonT(60), <1>1, <1>4, <1>8, <1>9 DEF Ends

\* work_cleanup: the private count, less the operation that ended.
LEMMA WorkCleanupCounted ==
    ASSUME OnceInv, PrivateCounted, NEW t \in Thread, WorkCleanup(t)
    PROVE  Cleans(t) /\ PrivateCounted'
  <1>1. /\ pc[t] = "cleanup" /\ outstanding_work' = outstanding_work + private_work[t] - 1
        /\ private_work' = [private_work EXCEPT ![t] = 0] /\ UNCHANGED <<private_queue, given, done>>
    BY ZenonT(60) DEF WorkCleanup, historyVars
  <1>2. PICK p \in {"stop", "publish", "look", "out"} : Goes(t, p)
    BY ZenonT(60) DEF WorkCleanup, AfterCount
  <1>3. pc'[t] = p /\ p # "cleanup" /\ p # "descriptor" /\ \A u \in Thread : u # t => pc'[u] = pc[u]
    BY ZenonT(60), <1>2, PlaceTypes DEF Goes
  <1>4. t \in Cleaning /\ Cleaning' = Cleaning \ {t}
    <2>1. \A u \in Thread : u \in Cleaning' <=> u \in Cleaning /\ u # t
      BY ZenonT(60), <1>3 DEF Cleaning
    <2>2. Cleaning \subseteq Thread /\ Cleaning' \subseteq Thread
      BY ZenonT(60) DEF Cleaning
    <2>3. Cleaning' = Cleaning \ {t}
      BY ZenonT(60), <2>1, <2>2
    <2> QED BY ZenonT(60), <1>1, <2>3 DEF Cleaning
  <1>5. private_work'[t] = 0 /\ \A u \in Thread : u # t => private_work'[u] = private_work[u]
    BY ZenonT(60), <1>1, PlaceTypes
  <1>6. ASSUME NEW u \in Thread PROVE Counts(pc'[u], private_queue[u], private_work'[u])
    <2>1. CASE u = t
      <3>1. private_queue[t] \in Seq(Op \cup {Desc})
        BY ZenonT(60), PlaceTypes
      <3> QED BY ZenonT(60), <1>3, <1>5, <2>1, <3>1, CountsNone
    <2>2. CASE u # t
      BY ZenonT(60), <1>3, <1>5, <2>2 DEF PrivateCounted
    <2> QED BY ZenonT(60), <2>1, <2>2
  <1>7. PrivateCounted'
    BY ZenonT(60), <1>1, <1>6 DEF PrivateCounted
  <1> QED BY ZenonT(60), <1>1, <1>4, <1>7 DEF Cleans

LEMMA StartIoCounted ==
    ASSUME OnceInv, PrivateCounted, NEW t \in Thread, NEW o \in Op, StartIo(t, o)
    PROVE  Gives(t, o) /\ PrivateCounted'
  <1>1. /\ o \notin given /\ given' = given \cup {o} /\ outstanding_work' = outstanding_work + 1
        /\ UNCHANGED <<pc, private_queue, private_work, done>>
    BY ZenonT(60) DEF StartIo, placeVars, privateVars
  <1>2. Cleaning' = Cleaning
    BY ZenonT(60), <1>1 DEF Cleaning
  <1>3. PrivateCounted'
    BY ZenonT(60), <1>1 DEF PrivateCounted
  <1> QED BY ZenonT(60), <1>1, <1>2, <1>3 DEF Gives

\* post_immediate_completion counts for itself or in outstanding_work_.
LEMMA PostCounted ==
    ASSUME OnceInv, PrivateCounted, NEW t \in Thread, NEW o \in Op, Post(t, o)
    PROVE  Gives(t, o) /\ PrivateCounted'
  <1>1. o \notin given /\ given' = given \cup {o} /\ UNCHANGED <<pc, done>>
    BY ZenonT(60) DEF Post, placeVars
  <1>2. Cleaning' = Cleaning
    BY ZenonT(60), <1>1 DEF Cleaning
  <1>3. CASE /\ pc[t] = "handler" /\ private_work' = [private_work EXCEPT ![t] = @ + 1]
             /\ private_queue' = [private_queue EXCEPT ![t] = Append(@, o)]
             /\ UNCHANGED outstanding_work
    <2>1. /\ private_queue \in [Thread -> Seq(Op \cup {Desc})] /\ private_work \in [Thread -> Nat]
          /\ private_queue[t] \in Seq(Op \cup {Desc}) /\ private_work[t] \in Nat
      BY ZenonT(60), PlaceTypes
    <2>2. /\ private_work'[t] = private_work[t] + 1 /\ private_queue'[t] = Append(private_queue[t], o)
          /\ \A u \in Thread : u # t => private_work'[u] = private_work[u] /\ private_queue'[u] = private_queue[u]
      BY ZenonT(60), <1>3, <2>1
    <2>3. private_work[t] <= Len(private_queue[t])
      <3>1. Counts(pc[t], private_queue[t], private_work[t]) /\ pc[t] # "cleanup"
        BY ZenonT(60), <1>3 DEF PrivateCounted
      <3> QED BY ZenonT(60), <3>1 DEF Counts
    <2>4. private_work[t] + 1 <= Len(Append(private_queue[t], o))
      BY SMTT(90), <2>1, <2>3
    <2>5. pc'[t] # "descriptor"
      BY ZenonT(60), <1>1, <1>3
    <2>6. ASSUME NEW u \in Thread PROVE Counts(pc'[u], private_queue'[u], private_work'[u])
      <3>1. CASE u = t
        BY ZenonT(60), <2>2, <2>4, <2>5, <3>1 DEF Counts
      <3>2. CASE u # t
        BY ZenonT(60), <1>1, <2>2, <3>2 DEF PrivateCounted
      <3> QED BY ZenonT(60), <3>1, <3>2
    <2> QED BY ZenonT(60), <1>1, <1>2, <1>3, <2>6 DEF Gives, PrivateCounted
  <1>4. CASE outstanding_work' = outstanding_work + 1 /\ UNCHANGED privateVars
    <2>1. PrivateCounted'
      BY ZenonT(60), <1>1, <1>4 DEF PrivateCounted, privateVars
    <2> QED BY ZenonT(60), <1>1, <1>2, <1>4, <2>1 DEF Gives, privateVars
  <1> QED BY ZenonT(60), <1>3, <1>4 DEF Post

\* Every step counts as these do, and threads keep to what they may count.
Counted ==
    \/ NotCounted
    \/ \E t \in Thread : MakesUp(t) \/ Ends(t) \/ Cleans(t) \/ \E o \in Op : Gives(t, o)

\* Every step counts in one of the five ways.
LEMMA NextCounted == ASSUME OnceInv, PrivateCounted, [Next]_vars PROVE Counted /\ PrivateCounted'
  <1>1. ASSUME NEW t \in Thread, Step(t) PROVE Counted /\ PrivateCounted'
    BY ZenonT(60), <1>1, LooksCounted, PerformIoCounted, WorkCleanupCounted, StopWithoutWorkCounted,
       StillCounted DEF Step, Counted
  <1>2. ASSUME NEW t \in Runner, Enter(t) \/ ReactorReturns(t) \/ EndHandler(t) \/ SpuriousWakeUp(t)
        PROVE  Counted /\ PrivateCounted'
    <2>1. t \in Thread
      BY ZenonT(60) DEF Thread
    <2> QED BY ZenonT(60), <1>2, <2>1, EnterCounted, ReactorReturnsCounted, EndHandlerCounted DEF Counted
  <1>3. ASSUME NEW t \in Thread, NEW o \in Op, Post(t, o) \/ StartIo(t, o) PROVE Counted /\ PrivateCounted'
    BY ZenonT(60), <1>3, PostCounted, StartIoCounted DEF Counted
  <1>4. ASSUME NEW t \in Thread, CancelIo(t) \/ InitTask(t) \/ Stop(t) PROVE Counted /\ PrivateCounted'
    BY ZenonT(60), <1>4, CancelIoCounted, StillCounted DEF Counted
  <1>5. ASSUME Restart \/ UNCHANGED vars PROVE Counted /\ PrivateCounted'
    BY ZenonT(60), <1>5, RestCounted DEF Counted
  <1> QED BY ZenonT(60), <1>1, <1>2, <1>3, <1>4, <1>5 DEF Next

-----------------------------------------------------------------------------
(* The numbers.                                                            *)

Upto(n) == 1 .. n

\* What is needed of finite sets: the empty set, subsets, one element more or less,
\* disjoint sets, pairs, intervals, units, and functions that meet all of a set.
FiniteCount ==
    /\ Cardinality({}) = 0
    /\ \A S : IsFiniteSet(S) => Cardinality(S) \in Nat
    /\ \A S, T : IsFiniteSet(S) /\ T \subseteq S => IsFiniteSet(T)
OneMore == \A S, x : IsFiniteSet(S) /\ x \notin S => Cardinality(S \cup {x}) = Cardinality(S) + 1
OneLess == \A S, x : IsFiniteSet(S) /\ x \in S => Cardinality(S \ {x}) = Cardinality(S) - 1
JoinCount ==
    \A S, T : IsFiniteSet(S) /\ IsFiniteSet(T) /\ S \cap T = {} =>
       IsFiniteSet(S \cup T) /\ Cardinality(S \cup T) = Cardinality(S) + Cardinality(T)
PairCount ==
    \A S, x : IsFiniteSet(S) => IsFiniteSet({x} \X S) /\ Cardinality({x} \X S) = Cardinality(S)
UptoCount == \A n \in Nat : IsFiniteSet(Upto(n)) /\ Cardinality(Upto(n)) = n
UnitsCount == \A w \in [Thread -> Nat] : IsFiniteSet(Units(w))
OneToOne(f, S) == \A x, y \in S : f[x] = f[y] => x = y
Onto(f, S, T) == \A z \in T : \E x \in S : f[x] = z
MeetsAll ==
    \A S, T : \A f \in [S -> T] :
       OneToOne(f, S) /\ IsFiniteSet(T) /\ Cardinality(S) = Cardinality(T) => Onto(f, S, T)
SetCounts ==
    /\ FiniteCount /\ OneMore /\ OneLess /\ JoinCount /\ PairCount /\ UptoCount /\ UnitsCount /\ MeetsAll
    /\ IsFiniteSet(Thread) /\ IsFiniteSet(Op)

LEMMA UnitsAre ==
    ASSUME NEW w
    PROVE  \A x : x \in Units(w) <=> \E t \in Thread : \E k \in Upto(w[t]) : x = <<t, k>>
  <1>1. ASSUME NEW t, NEW S, NEW x PROVE x \in {t} \X S <=> \E k \in S : x = <<t, k>>
    BY SMTT(90)
  <1>2. \A x : x \in Units(w) <=> \E t \in Thread : x \in {t} \X Upto(w[t])
    BY ZenonT(60) DEF Units, Upto
  <1> QED BY SMTT(90), <1>1, <1>2

\* One more unit of t.
LEMMA UnitsMore ==
    ASSUME SetCounts, NEW w \in [Thread -> Nat], NEW t \in Thread, NEW v, v = [w EXCEPT ![t] = @ + 1]
    PROVE  Cardinality(Units(v)) = Cardinality(Units(w)) + 1
  <1> DEFINE n == w[t] + 1
  <1>1. w[t] \in Nat /\ n \in Nat /\ n \notin Upto(w[t]) /\ \A k : k \in Upto(n) <=> k \in Upto(w[t]) \/ k = n
    BY SMTT(90) DEF Upto
  <1>2. v[t] = n /\ \A u \in Thread : u # t => v[u] = w[u]
    BY ZenonT(60)
  <1> HIDE DEF n
  <1>3. \A x, y, a, b : <<x, y>> = <<a, b>> => x = a /\ y = b
    OBVIOUS
  <1>4. \A x : x \in Units(v) <=> x \in Units(w) \/ x = <<t, n>>
    <2>1. ASSUME NEW x, x \in Units(v) PROVE x \in Units(w) \/ x = <<t, n>>
      <3>1. PICK u \in Thread : \E k \in Upto(v[u]) : x = <<u, k>>
        BY ZenonT(60), <2>1, UnitsAre
      <3>2. PICK k \in Upto(v[u]) : x = <<u, k>>
        BY ZenonT(60), <3>1
      <3>3. k \in Upto(w[u]) \/ (u = t /\ k = n)
        BY ZenonT(60), <1>1, <1>2
      <3> QED BY ZenonT(60), <3>2, <3>3, UnitsAre
    <2>2. ASSUME NEW x, x \in Units(w) PROVE x \in Units(v)
      <3>1. PICK u \in Thread : \E k \in Upto(w[u]) : x = <<u, k>>
        BY SMTT(90), <2>2, UnitsAre
      <3>2. PICK k \in Upto(w[u]) : x = <<u, k>>
        BY ZenonT(60), <3>1
      <3>3. k \in Upto(v[u])
        BY ZenonT(60), <1>1, <1>2
      <3> QED BY ZenonT(60), <3>2, <3>3, UnitsAre
    <2>3. <<t, n>> \in Units(v)
      BY ZenonT(60), <1>1, <1>2, UnitsAre
    <2> QED BY ZenonT(60), <2>1, <2>2, <2>3
  <1>5. <<t, n>> \notin Units(w)
    BY SMTT(90), <1>1, <1>3, UnitsAre
  <1>6. Units(v) = Units(w) \cup {<<t, n>>}
    BY ZenonT(60), <1>4
  <1>7. IsFiniteSet(Units(w))
    BY ZenonT(60) DEF SetCounts, UnitsCount
  <1> QED BY ZenonT(60), <1>5, <1>6, <1>7 DEF SetCounts, OneMore

\* The units of t are counted.
LEMMA UnitsNone ==
    ASSUME SetCounts, NEW w \in [Thread -> Nat], NEW t \in Thread, NEW v, v = [w EXCEPT ![t] = 0]
    PROVE  Cardinality(Units(w)) = Cardinality(Units(v)) + w[t]
  <1> DEFINE S == {t} \X Upto(w[t])
  <1>1. v \in [Thread -> Nat] /\ v[t] = 0 /\ \A u \in Thread : u # t => v[u] = w[u]
    <2>1. 0 \in Nat
      BY SMTT(90)
    <2> QED BY ZenonT(60), <2>1
  <1>2. \A x : x \in S <=> \E k \in Upto(w[t]) : x = <<t, k>>
    BY SMTT(90)
  <1>3. IsFiniteSet(S) /\ Cardinality(S) = w[t]
    <2>1. IsFiniteSet(Upto(w[t])) /\ Cardinality(Upto(w[t])) = w[t]
      BY ZenonT(60) DEF SetCounts, UptoCount
    <2> QED BY ZenonT(60), <2>1 DEF SetCounts, PairCount
  <1> HIDE DEF S
  <1>4. ~\E k : k \in Upto(v[t])
    BY SMTT(90), <1>1 DEF Upto
  <1>5. \A x, y, a, b : <<x, y>> = <<a, b>> => x = a /\ y = b
    OBVIOUS
  <1>6. \A x : x \in Units(w) <=> x \in Units(v) \/ x \in S
    <2>1. ASSUME NEW x, x \in Units(w) PROVE x \in Units(v) \/ x \in S
      <3>1. PICK u \in Thread : \E k \in Upto(w[u]) : x = <<u, k>>
        BY SMTT(90), <2>1, UnitsAre
      <3>2. CASE u = t
        BY ZenonT(60), <1>2, <3>1, <3>2
      <3>3. CASE u # t
        <4>1. v[u] = w[u]
          BY ZenonT(60), <1>1, <3>3
        <4> QED BY ZenonT(60), <3>1, <4>1, UnitsAre
      <3> QED BY ZenonT(60), <3>2, <3>3
    <2>2. ASSUME NEW x, x \in Units(v) PROVE x \in Units(w)
      <3>1. PICK u \in Thread : \E k \in Upto(v[u]) : x = <<u, k>>
        BY ZenonT(60), <2>2, UnitsAre
      <3>2. v[u] = w[u]
        BY ZenonT(60), <1>1, <1>4, <3>1
      <3> QED BY ZenonT(60), <3>1, <3>2, UnitsAre
    <2>3. ASSUME NEW x \in S PROVE x \in Units(w)
      BY ZenonT(60), <1>2, UnitsAre
    <2> QED BY ZenonT(60), <2>1, <2>2, <2>3
  <1>7. ASSUME NEW x, x \in Units(v), x \in S PROVE FALSE
    <2>1. PICK u \in Thread : \E k \in Upto(v[u]) : x = <<u, k>>
      BY ZenonT(60), <1>7, UnitsAre
    <2>2. PICK k \in Upto(v[u]) : x = <<u, k>>
      BY ZenonT(60), <2>1
    <2>3. PICK j \in Upto(w[t]) : x = <<t, j>>
      BY ZenonT(60), <1>2, <1>7
    <2>4. u = t
      BY ZenonT(60), <1>5, <2>2, <2>3
    <2> QED BY ZenonT(60), <1>4, <2>2, <2>4
  <1>8. Units(w) = Units(v) \cup S /\ Units(v) \cap S = {}
    BY ZenonT(60), <1>6, <1>7
  <1>9. IsFiniteSet(Units(v))
    BY ZenonT(60), <1>1 DEF SetCounts, UnitsCount
  <1>10. Cardinality(Units(v) \cup S) = Cardinality(Units(v)) + Cardinality(S)
    BY ZenonT(60), <1>3, <1>8, <1>9 DEF SetCounts, JoinCount
  <1> QED BY ZenonT(60), <1>3, <1>8, <1>10

\* The sets that are counted are finite.
LEMMA CountedFinite ==
    ASSUME SetCounts, OnceInv
    PROVE  /\ private_work \in [Thread -> Nat] /\ outstanding_work \in Int
           /\ IsFiniteSet(given \ done) /\ IsFiniteSet(Cleaning)
           /\ Cardinality(given \ done) \in Nat /\ Cardinality(Cleaning) \in Nat
           /\ Cardinality(Units(private_work)) \in Nat
  <1>1. private_work \in [Thread -> Nat] /\ outstanding_work \in Int /\ given \subseteq Op
    BY ZenonT(60) DEF OnceInv, SchedulerInv, TypeOK
  <1>2. (given \ done) \in SUBSET Op /\ Cleaning \in SUBSET Thread
    BY ZenonT(60), <1>1 DEF Cleaning
  <1>3. IsFiniteSet(given \ done) /\ IsFiniteSet(Cleaning)
    BY ZenonT(60), <1>2 DEF SetCounts, FiniteCount
  <1>4. IsFiniteSet(Units(private_work))
    BY ZenonT(60), <1>1 DEF SetCounts, UnitsCount
  <1> QED BY ZenonT(60), <1>1, <1>3, <1>4 DEF SetCounts, FiniteCount

\* Each of the five ways keeps the sum.
LEMMA CountKept ==
    ASSUME SetCounts, OnceInv, WorkCounted, Counted PROVE WorkCounted'
  <1> DEFINE U == Cardinality(Units(private_work))
             G == Cardinality(given \ done)
             C == Cardinality(Cleaning)
             U2 == Cardinality(Units(private_work'))
             G2 == Cardinality(given' \ done')
             C2 == Cardinality(Cleaning')
  <1>1. outstanding_work + U = G + C
    BY ZenonT(60) DEF WorkCounted
  <1>2. /\ private_work \in [Thread -> Nat] /\ outstanding_work \in Int
        /\ IsFiniteSet(given \ done) /\ IsFiniteSet(Cleaning) /\ G \in Nat /\ C \in Nat /\ U \in Nat
    BY ZenonT(60), CountedFinite
  <1>3. CASE NotCounted
    BY ZenonT(60), <1>3 DEF NotCounted, WorkCounted
  <1>4. ASSUME NEW t \in Thread, MakesUp(t) PROVE WorkCounted'
    <2>1. U2 = U + 1
      BY ZenonT(60), <1>2, <1>4, UnitsMore DEF MakesUp
    <2>2. C2 = C + 1 /\ G2 = G /\ outstanding_work' = outstanding_work
      BY ZenonT(60), <1>2, <1>4 DEF MakesUp, SetCounts, OneMore
    <2> HIDE DEF U, G, C, U2, G2, C2
    <2>3. outstanding_work' + U2 = G2 + C2
      BY SMTT(90), <1>1, <1>2, <2>1, <2>2
    <2> QED BY ZenonT(60), <2>3 DEF U2, G2, C2, WorkCounted
  <1>5. ASSUME NEW t \in Thread, Ends(t) PROVE WorkCounted'
    <2>1. given' \ done' = (given \ done) \ {current[t]} /\ current[t] \in given \ done
      BY ZenonT(60), <1>5 DEF Ends
    <2>2. G2 = G - 1
      BY ZenonT(60), <1>2, <2>1 DEF SetCounts, OneLess
    <2>3. C2 = C + 1 /\ U2 = U /\ outstanding_work' = outstanding_work
      BY ZenonT(60), <1>2, <1>5 DEF Ends, SetCounts, OneMore
    <2> HIDE DEF U, G, C, U2, G2, C2
    <2>4. outstanding_work' + U2 = G2 + C2
      BY SMTT(90), <1>1, <1>2, <2>2, <2>3
    <2> QED BY ZenonT(60), <2>4 DEF U2, G2, C2, WorkCounted
  <1>6. ASSUME NEW t \in Thread, Cleans(t) PROVE WorkCounted'
    <2> DEFINE n == private_work[t]
    <2>1. U = U2 + n /\ n \in Nat
      BY ZenonT(60), <1>2, <1>6, UnitsNone DEF Cleans
    <2>2. C2 = C - 1 /\ G2 = G /\ outstanding_work' = outstanding_work + n - 1
      BY ZenonT(60), <1>2, <1>6 DEF Cleans, SetCounts, OneLess
    <2>3. U2 \in Nat
      <3>1. 0 \in Nat
        BY SMTT(90)
      <3>2. private_work' \in [Thread -> Nat]
        BY ZenonT(60), <1>2, <1>6, <3>1 DEF Cleans
      <3> QED BY ZenonT(60), <3>2 DEF SetCounts, UnitsCount, FiniteCount
    <2> HIDE DEF U, G, C, U2, G2, C2, n
    <2>4. outstanding_work' + U2 = G2 + C2
      BY SMTT(90), <1>1, <1>2, <2>1, <2>2, <2>3
    <2> QED BY ZenonT(60), <2>4 DEF U2, G2, C2, WorkCounted
  <1>7. ASSUME NEW t \in Thread, NEW o \in Op, Gives(t, o) PROVE WorkCounted'
    <2>1. o \notin given /\ given' \ done' = (given \ done) \cup {o}
      BY ZenonT(60), <1>7 DEF Gives, OnceInv
    <2>2. G2 = G + 1
      BY ZenonT(60), <1>2, <2>1 DEF SetCounts, OneMore
    <2>3. C2 = C
      BY ZenonT(60), <1>7 DEF Gives
    <2>4. \/ U2 = U + 1 /\ outstanding_work' = outstanding_work
          \/ U2 = U /\ outstanding_work' = outstanding_work + 1
      BY ZenonT(60), <1>2, <1>7, UnitsMore DEF Gives
    <2> HIDE DEF U, G, C, U2, G2, C2
    <2>5. outstanding_work' + U2 = G2 + C2
      BY SMTT(90), <1>1, <1>2, <2>2, <2>3, <2>4
    <2> QED BY ZenonT(60), <2>5 DEF U2, G2, C2, WorkCounted
  <1> QED BY ZenonT(60), <1>3, <1>4, <1>5, <1>6, <1>7 DEF Counted

-----------------------------------------------------------------------------
(* Nothing is left when the count is zero.                                 *)

\* Two places of private queues that hold one operation are the same, and no thread
\* holds it in its hands.
LEMMA PrivateOnce ==
    ASSUME OnceInv, NEW t \in Thread, NEW k \in DOMAIN private_queue[t], private_queue[t][k] \in Op
    PROVE  /\ private_queue[t][k] \in given \ done
           /\ \A u \in Thread : current[u] # private_queue[t][k]
           /\ \A u \in Thread : \A j \in DOMAIN private_queue[u] :
                 private_queue[u][j] = private_queue[t][k] => u = t /\ j = k
  <1> DEFINE H == Held(op_queue, io, private_queue, arg, current)
             o == private_queue[t][k]
  <1>1. HeldIs(H, op_queue, io, private_queue, arg, current)
    BY ZenonT(60), HeldAt
  <1>2. \A u \in Thread : H[PrivatePlace(u)] = private_queue[u] /\ H[CurrentPlace(u)] = <<current[u]>>
    BY ZenonT(60), <1>1 DEF HeldIs
  <1>3. HeldOnce(H, given \ done)
    BY ZenonT(60), HeldNow
  <1> HIDE DEF H
  <1>4. o \in Op /\ Has(H[PrivatePlace(t)], o)
    BY ZenonT(60), <1>2 DEF Has
  <1>5. \A u \in Thread : PrivatePlace(u) \in Place /\ CurrentPlace(u) \in Place
    BY ZenonT(60), PlacesAre
  <1>6. \A p \in Place : Has(H[p], o) => p = PrivatePlace(t)
    BY ZenonT(60), <1>3, <1>4, <1>5 DEF HeldOnce
  <1>7. o \in given \ done
    BY ZenonT(60), <1>3, <1>4, <1>5 DEF HeldOnce
  <1>8. ASSUME NEW u \in Thread, current[u] = o PROVE FALSE
    <2>1. o \in Item
      BY ZenonT(60), <1>4 DEF Item
    <2>2. Has(H[CurrentPlace(u)], o)
      BY ZenonT(60), <1>2, <1>8, <2>1, OneItem
    <2>3. CurrentPlace(u) = PrivatePlace(t)
      BY ZenonT(60), <1>5, <1>6, <2>2
    <2> QED BY ZenonT(60), <2>3, PlacesDiffer
  <1>9. ASSUME NEW u \in Thread, NEW j \in DOMAIN private_queue[u], private_queue[u][j] = o
        PROVE  u = t /\ j = k
    <2>1. Has(H[PrivatePlace(u)], o)
      BY ZenonT(60), <1>2, <1>9 DEF Has
    <2>2. PrivatePlace(u) = PrivatePlace(t)
      BY ZenonT(60), <1>5, <1>6, <2>1
    <2>3. u = t
      BY SMTT(90), <2>2 DEF PrivatePlace
    <2>4. Single(private_queue[t])
      BY ZenonT(60), <1>2, <1>3, <1>5 DEF HeldOnce
    <2>5. j \in DOMAIN private_queue[t] /\ private_queue[t][j] = o
      BY ZenonT(60), <1>9, <2>3
    <2> QED BY ZenonT(60), <1>4, <2>3, <2>4, <2>5 DEF Single
  <1> QED BY ZenonT(60), <1>7, <1>8, <1>9

\* What the unit k of thread t stands for.
LEMMA UnitStands ==
    ASSUME OnceInv, PrivateCounted, NEW t \in Thread, NEW k \in Upto(private_work[t])
    PROVE  /\ pc[t] = "handler" \/ pc[t] = "cleanup"
           /\ k <= Len(private_queue[t]) => k \in DOMAIN private_queue[t] /\ private_queue[t][k] \in Op
           /\ ~(k <= Len(private_queue[t])) => pc[t] = "cleanup" /\ k = 1 /\ private_queue[t] = <<>>
  <1>1. private_work[t] \in Nat /\ private_queue[t] \in Seq(Op \cup {Desc})
    BY ZenonT(60), PlaceTypes
  <1>2. k \in Nat /\ 1 <= k /\ k <= private_work[t] /\ private_work[t] # 0
    BY SMTT(90), <1>1 DEF Upto
  <1>3. pc[t] = "handler" \/ pc[t] = "cleanup"
    BY ZenonT(60), <1>2, KeepsNone
  <1>4. ~Has(private_queue[t], Desc)
    BY ZenonT(60), <1>3 DEF OnceInv, SchedulerInv, PrivatePlaced
  <1>5. ASSUME k <= Len(private_queue[t])
        PROVE  k \in DOMAIN private_queue[t] /\ private_queue[t][k] \in Op
    <2>1. k \in DOMAIN private_queue[t] /\ private_queue[t][k] \in Op \cup {Desc}
      BY SMTT(90), <1>1, <1>2, <1>5
    <2> QED BY ZenonT(60), <1>4, <2>1 DEF Has
  <1>6. ASSUME ~(k <= Len(private_queue[t]))
        PROVE  pc[t] = "cleanup" /\ k = 1 /\ private_queue[t] = <<>>
    <2>1. Len(private_queue[t]) \in Nat
      BY SMTT(90), <1>1
    <2>2. ~(private_work[t] <= Len(private_queue[t]))
      BY SMTT(90), <1>1, <1>2, <1>6, <2>1
    <2>3. pc[t] = "cleanup" /\ private_work[t] = 1 /\ private_queue[t] = <<>>
      BY ZenonT(60), <2>2 DEF PrivateCounted, Counts
    <2>4. k = 1
      BY SMTT(90), <1>2, <2>3
    <2> QED BY ZenonT(60), <2>3, <2>4
  <1> QED BY ZenonT(60), <1>3, <1>5, <1>6

\* Every unit that threads keep stands for an operation of a private queue, or for a
\* cleanup to come, and no two for the same.
Stands(x) ==
    IF x[2] <= Len(private_queue[x[1]]) THEN <<"op", private_queue[x[1]][x[2]]>> ELSE <<"thread", x[1]>>
Owed == ({"op"} \X (given \ done)) \cup ({"thread"} \X Cleaning)

LEMMA UnitParts ==
    ASSUME NEW w, NEW x \in Units(w)
    PROVE  x[1] \in Thread /\ x[2] \in Upto(w[x[1]]) /\ x = <<x[1], x[2]>>
  <1>1. PICK t \in Thread : \E k \in Upto(w[t]) : x = <<t, k>>
    BY SMTT(90), UnitsAre
  <1>2. PICK k \in Upto(w[t]) : x = <<t, k>>
    BY ZenonT(60), <1>1
  <1>3. x[1] = t /\ x[2] = k
    BY SMTT(90), <1>2
  <1> QED BY ZenonT(60), <1>2, <1>3

LEMMA OwedAre ==
    /\ \A o : <<"op", o>> \in Owed <=> o \in given \ done
    /\ \A t : <<"thread", t>> \in Owed <=> t \in Cleaning
  BY SMTT(90) DEF Owed

\* What a unit stands for is owed.
LEMMA StandsOwed ==
    ASSUME OnceInv, PrivateCounted, NEW x \in Units(private_work)
    PROVE  Stands(x) \in Owed
  <1> DEFINE t == x[1]
             k == x[2]
  <1>1. t \in Thread /\ k \in Upto(private_work[t])
    BY ZenonT(60), UnitParts
  <1>2. Stands(x) = IF k <= Len(private_queue[t]) THEN <<"op", private_queue[t][k]>> ELSE <<"thread", t>>
    BY ZenonT(60) DEF Stands
  <1> HIDE DEF t, k
  <1>3. CASE k <= Len(private_queue[t])
    <2>1. private_queue[t][k] \in given \ done
      BY ZenonT(60), <1>1, <1>3, UnitStands, PrivateOnce
    <2> QED BY ZenonT(60), <1>2, <1>3, <2>1, OwedAre
  <1>4. CASE ~(k <= Len(private_queue[t]))
    <2>1. t \in Cleaning
      BY ZenonT(60), <1>1, <1>4, UnitStands DEF Cleaning
    <2> QED BY ZenonT(60), <1>2, <1>4, <2>1, OwedAre
  <1> QED BY ZenonT(60), <1>3, <1>4

\* No two units stand for the same.
LEMMA StandsOnce ==
    ASSUME OnceInv, PrivateCounted, NEW x \in Units(private_work), NEW y \in Units(private_work),
           Stands(x) = Stands(y)
    PROVE  x = y
  <1> DEFINE t == x[1]
             k == x[2]
             u == y[1]
             j == y[2]
  <1>1. /\ t \in Thread /\ k \in Upto(private_work[t]) /\ x = <<t, k>>
        /\ u \in Thread /\ j \in Upto(private_work[u]) /\ y = <<u, j>>
    BY ZenonT(60), UnitParts
  <1>2. /\ Stands(x) = IF k <= Len(private_queue[t]) THEN <<"op", private_queue[t][k]>> ELSE <<"thread", t>>
        /\ Stands(y) = IF j <= Len(private_queue[u]) THEN <<"op", private_queue[u][j]>> ELSE <<"thread", u>>
    BY ZenonT(60) DEF Stands
  <1> HIDE DEF t, k, u, j
  <1>3. \A a, b : <<"op", a>> # <<"thread", b>>
    BY SMTT(90)
  <1>4. \A c, a, b : <<c, a>> = <<c, b>> => a = b
    OBVIOUS
  <1>5. CASE k <= Len(private_queue[t])
    <2>1. j <= Len(private_queue[u]) /\ private_queue[t][k] = private_queue[u][j]
      BY ZenonT(60), <1>2, <1>3, <1>4, <1>5
    <2>2. /\ k \in DOMAIN private_queue[t] /\ private_queue[t][k] \in Op
          /\ j \in DOMAIN private_queue[u]
      BY ZenonT(60), <1>1, <1>5, <2>1, UnitStands
    <2>3. u = t /\ j = k
      BY ZenonT(60), <1>1, <2>1, <2>2, PrivateOnce
    <2> QED BY ZenonT(60), <1>1, <2>3
  <1>6. CASE ~(k <= Len(private_queue[t]))
    <2>1. ~(j <= Len(private_queue[u])) /\ t = u
      BY ZenonT(60), <1>2, <1>3, <1>4, <1>6
    <2>2. k = 1 /\ j = 1
      BY ZenonT(60), <1>1, <1>6, <2>1, UnitStands
    <2> QED BY ZenonT(60), <1>1, <2>1, <2>2
  <1> QED BY ZenonT(60), <1>5, <1>6

\* What is owed, counted.
LEMMA OwedCounted ==
    ASSUME SetCounts, OnceInv
    PROVE  IsFiniteSet(Owed) /\ Cardinality(Owed) = Cardinality(given \ done) + Cardinality(Cleaning)
  <1> DEFINE A == {"op"} \X (given \ done)
             B == {"thread"} \X Cleaning
  <1>1. IsFiniteSet(given \ done) /\ IsFiniteSet(Cleaning)
    BY ZenonT(60), CountedFinite
  <1>2. /\ IsFiniteSet(A) /\ Cardinality(A) = Cardinality(given \ done)
        /\ IsFiniteSet(B) /\ Cardinality(B) = Cardinality(Cleaning)
    BY ZenonT(60), <1>1 DEF SetCounts, PairCount
  <1>3. A \cap B = {}
    BY SMTT(90)
  <1>4. Owed = A \cup B
    BY ZenonT(60) DEF Owed
  <1> HIDE DEF A, B
  <1>5. IsFiniteSet(A \cup B) /\ Cardinality(A \cup B) = Cardinality(A) + Cardinality(B)
    BY ZenonT(60), <1>2, <1>3 DEF SetCounts, JoinCount
  <1> QED BY ZenonT(60), <1>2, <1>4, <1>5

\* The pigeonhole argument: all that is owed has its unit, and so nothing is owed.
LEMMA ZeroIsNone ==
    ASSUME SetCounts, OnceInv, PrivateCounted, WorkCounted, outstanding_work = 0
    PROVE  given = done
  <1> DEFINE U == Units(private_work)
             f == [x \in U |-> Stands(x)]
  <1>1. f \in [U -> Owed] /\ OneToOne(f, U)
    BY ZenonT(60), StandsOwed, StandsOnce DEF OneToOne
  <1>2. Cardinality(U) = Cardinality(Owed) /\ IsFiniteSet(Owed)
    <2>1. /\ Cardinality(U) \in Nat /\ outstanding_work + Cardinality(U) = Cardinality(Owed)
          /\ IsFiniteSet(Owed)
      BY ZenonT(60), OwedCounted, CountedFinite DEF WorkCounted
    <2> HIDE DEF U
    <2> QED BY SMTT(90), <2>1
  <1>3. Onto(f, U, Owed)
    <2> HIDE DEF f, U
    <2> QED BY ZenonT(60), <1>1, <1>2 DEF SetCounts, MeetsAll
  <1>4. \A z \in Owed : \E x \in U : Stands(x) = z
    BY ZenonT(60), <1>3 DEF Onto
  <1> HIDE DEF f
  <1>5. \A z \in Owed : \E t \in Thread : \E k \in Upto(private_work[t]) :
           z = IF k <= Len(private_queue[t]) THEN <<"op", private_queue[t][k]>> ELSE <<"thread", t>>
    <2> SUFFICES ASSUME NEW z \in Owed
                 PROVE  \E t \in Thread : \E k \in Upto(private_work[t]) :
                    z = IF k <= Len(private_queue[t]) THEN <<"op", private_queue[t][k]>> ELSE <<"thread", t>>
      OBVIOUS
    <2>1. PICK x \in U : Stands(x) = z
      BY ZenonT(60), <1>4
    <2>2. x[1] \in Thread /\ x[2] \in Upto(private_work[x[1]])
      BY ZenonT(60), UnitParts
    <2> QED BY ZenonT(60), <2>1, <2>2 DEF Stands
  <1>6. \A a, b : <<"op", a>> # <<"thread", b>>
    BY SMTT(90)
  <1>7. \A c, a, b : <<c, a>> = <<c, b>> => a = b
    OBVIOUS
  <1>8. ASSUME NEW o \in given \ done
        PROVE  \E t \in Thread : \E k \in Upto(private_work[t]) :
                  k <= Len(private_queue[t]) /\ private_queue[t][k] = o
    <2>1. <<"op", o>> \in Owed
      BY ZenonT(60), OwedAre
    <2>2. PICK t \in Thread : \E k \in Upto(private_work[t]) :
             <<"op", o>> = IF k <= Len(private_queue[t]) THEN <<"op", private_queue[t][k]>> ELSE <<"thread", t>>
      BY ZenonT(60), <1>5, <2>1
    <2>3. PICK k \in Upto(private_work[t]) :
             <<"op", o>> = IF k <= Len(private_queue[t]) THEN <<"op", private_queue[t][k]>> ELSE <<"thread", t>>
      BY ZenonT(60), <2>2
    <2>4. k <= Len(private_queue[t]) /\ private_queue[t][k] = o
      BY ZenonT(60), <1>6, <1>7, <2>3
    <2> QED BY ZenonT(60), <2>4
  <1>9. ASSUME NEW t \in Cleaning PROVE private_queue[t] = <<>>
    <2>1. <<"thread", t>> \in Owed
      BY ZenonT(60), OwedAre
    <2>2. PICK u \in Thread : \E k \in Upto(private_work[u]) :
             <<"thread", t>> = IF k <= Len(private_queue[u]) THEN <<"op", private_queue[u][k]>> ELSE <<"thread", u>>
      BY ZenonT(60), <1>5, <2>1
    <2>3. PICK k \in Upto(private_work[u]) :
             <<"thread", t>> = IF k <= Len(private_queue[u]) THEN <<"op", private_queue[u][k]>> ELSE <<"thread", u>>
      BY ZenonT(60), <2>2
    <2>4. ~(k <= Len(private_queue[u])) /\ u = t
      BY ZenonT(60), <1>6, <1>7, <2>3
    <2> QED BY ZenonT(60), <2>4, UnitStands
  <1>10. ASSUME NEW o \in given \ done PROVE FALSE
    <2>1. PICK t \in Thread : \E k \in Upto(private_work[t]) :
             k <= Len(private_queue[t]) /\ private_queue[t][k] = o
      BY ZenonT(60), <1>8
    <2>2. PICK k \in Upto(private_work[t]) : k <= Len(private_queue[t]) /\ private_queue[t][k] = o
      BY ZenonT(60), <2>1
    <2>3. /\ pc[t] = "handler" \/ pc[t] = "cleanup"
          /\ k \in DOMAIN private_queue[t]
      BY ZenonT(60), <2>2, UnitStands
    <2>4. CASE pc[t] = "cleanup"
      <3>1. private_queue[t] = <<>>
        BY ZenonT(60), <1>9, <2>4 DEF Cleaning
      <3> QED BY SMTT(90), <2>3, <3>1
    <2>5. CASE pc[t] = "handler"
      <3>1. current[t] \in Op
        BY ZenonT(60), <2>5 DEF OnceInv, SchedulerInv, PrivatePlaced
      <3>2. current[t] \in given \ done
        BY ZenonT(60), <3>1, CurrentGiven
      <3>3. PICK u \in Thread : \E j \in Upto(private_work[u]) :
               j <= Len(private_queue[u]) /\ private_queue[u][j] = current[t]
        BY ZenonT(60), <1>8, <3>2
      <3>4. PICK j \in Upto(private_work[u]) : j <= Len(private_queue[u]) /\ private_queue[u][j] = current[t]
        BY ZenonT(60), <3>3
      <3>5. j \in DOMAIN private_queue[u]
        BY ZenonT(60), <3>4, UnitStands
      <3> QED BY ZenonT(60), <3>1, <3>4, <3>5, PrivateOnce
    <2> QED BY ZenonT(60), <2>3, <2>4, <2>5
  <1> QED BY ZenonT(60), <1>10 DEF OnceInv

-----------------------------------------------------------------------------
\* At the start there is nothing to count.
LEMMA InitCounted ==
    ASSUME SetCounts, Init PROVE WorkCounted /\ PrivateCounted
  <1>1. /\ outstanding_work = 0 /\ given = {} /\ done = {} /\ private_work = [t \in Thread |-> 0]
        /\ \A t \in Thread : pc[t] = "out" /\ private_queue[t] = <<>> /\ private_work[t] = 0
    BY ZenonT(60) DEF Init
  <1>2. PrivateCounted
    BY ZenonT(60), <1>1, CountsNone DEF PrivateCounted
  <1>3. Cleaning = {} /\ given \ done = {}
    BY ZenonT(60), <1>1 DEF Cleaning
  <1>4. Units(private_work) = {}
    <2>1. ~\E k : k \in Upto(0)
      BY SMTT(90) DEF Upto
    <2>2. ASSUME NEW x \in Units(private_work) PROVE FALSE
      <3>1. x[1] \in Thread /\ x[2] \in Upto(private_work[x[1]])
        BY ZenonT(60), UnitParts
      <3> QED BY ZenonT(60), <1>1, <2>1, <3>1
    <2> QED BY ZenonT(60), <2>2
  <1>5. Cardinality({}) = 0
    BY ZenonT(60) DEF SetCounts, FiniteCount
  <1>6. 0 + 0 = 0 + 0
    OBVIOUS
  <1> QED BY ZenonT(60), <1>1, <1>2, <1>3, <1>4, <1>5, <1>6 DEF WorkCounted

-----------------------------------------------------------------------------
(* The theorems, and what is needed of finite sets.                        *)

INSTANCE FiniteSetTheorems

LEMMA UnitsFinite ==
    ASSUME NEW w \in [Thread -> Nat]
    PROVE  IsFiniteSet(Units(w))
  <1> DEFINE S == {{t} \X (1 .. w[t]) : t \in Thread}
             f == [t \in Thread |-> {t} \X (1 .. w[t])]
  <1>1. f \in Surjection(Thread, S)
    BY ZenonT(60) DEF Surjection
  <1>2. IsFiniteSet(S)
    <2> HIDE DEF S, f
    <2> QED BY ZenonT(60), <1>1, FiniteAssumption, FS_Surjection
  <1>3. ASSUME NEW T \in S PROVE IsFiniteSet(T)
    <2>1. PICK t \in Thread : T = {t} \X (1 .. w[t])
      BY ZenonT(60), <1>3
    <2>2. 1 \in Int /\ w[t] \in Int
      BY SMTT(90)
    <2>3. IsFiniteSet({t}) /\ IsFiniteSet(1 .. w[t])
      BY ZenonT(60), <2>2, FS_Singleton, FS_Interval
    <2> QED BY ZenonT(60), <2>1, <2>3, FS_Product
  <1> HIDE DEF S
  <1>4. IsFiniteSet(UNION S)
    BY ZenonT(60), <1>2, <1>3, FS_UNION
  <1>5. Units(w) = UNION S
    BY ZenonT(60) DEF Units, S
  <1> QED BY ZenonT(60), <1>4, <1>5

\* A one-to-one function between finite sets of one size meets all of the second.
LEMMA MeetsAllHolds == MeetsAll
  <1> SUFFICES ASSUME NEW S, NEW T, NEW f \in [S -> T], OneToOne(f, S), IsFiniteSet(T),
                      Cardinality(S) = Cardinality(T)
               PROVE  Onto(f, S, T)
    BY ZenonT(60) DEF MeetsAll
  <1>1. f \in Injection(S, T)
    BY ZenonT(60) DEF OneToOne, Injection, IsInjective
  <1>2. f \in Surjection(S, T)
    BY ZenonT(60), <1>1, FS_Injection
  <1> QED BY ZenonT(60), <1>2 DEF Onto, Surjection

\* The facts about finite sets, from the library.
LEMMA SetCountsHold == SetCounts
  <1>1. FiniteCount
    BY ZenonT(60), FS_EmptySet, FS_CardinalityType, FS_Subset DEF FiniteCount
  <1>2. OneMore /\ OneLess
    BY ZenonT(60), FS_AddElement, FS_RemoveElement DEF OneMore, OneLess
  <1>3. JoinCount
    <2> SUFFICES ASSUME NEW S, NEW T, IsFiniteSet(S), IsFiniteSet(T), S \cap T = {}
                 PROVE  IsFiniteSet(S \cup T) /\ Cardinality(S \cup T) = Cardinality(S) + Cardinality(T)
      BY ZenonT(60) DEF JoinCount
    <2>1. /\ IsFiniteSet(S \cup T)
          /\ Cardinality(S \cup T) = Cardinality(S) + Cardinality(T) - Cardinality(S \cap T)
      BY ZenonT(60), FS_Union
    <2>2. Cardinality(S) \in Nat /\ Cardinality(T) \in Nat
      BY ZenonT(60), FS_CardinalityType
    <2>3. Cardinality(S \cap T) = 0
      BY ZenonT(60), FS_EmptySet
    <2> QED BY SMTT(90), <2>1, <2>2, <2>3
  <1>4. PairCount
    <2> SUFFICES ASSUME NEW S, NEW x, IsFiniteSet(S)
                 PROVE  IsFiniteSet({x} \X S) /\ Cardinality({x} \X S) = Cardinality(S)
      BY ZenonT(60) DEF PairCount
    <2>1. IsFiniteSet({x}) /\ Cardinality({x}) = 1
      BY ZenonT(60), FS_Singleton
    <2>2. /\ IsFiniteSet({x} \X S) /\ Cardinality({x} \X S) = 1 * Cardinality(S)
          /\ Cardinality(S) \in Nat
      BY ZenonT(60), <2>1, FS_Product, FS_CardinalityType
    <2> QED BY SMTT(90), <2>2
  <1>5. UptoCount
    <2> SUFFICES ASSUME NEW n \in Nat PROVE IsFiniteSet(1 .. n) /\ Cardinality(1 .. n) = n
      BY ZenonT(60) DEF UptoCount, Upto
    <2>1. 1 \in Int /\ n \in Int
      BY SMTT(90)
    <2>2. IsFiniteSet(1 .. n) /\ Cardinality(1 .. n) = IF 1 > n THEN 0 ELSE n - 1 + 1
      BY ZenonT(60), <2>1, FS_Interval
    <2> QED BY SMTT(90), <2>2
  <1> QED BY ZenonT(60), <1>1, <1>2, <1>3, <1>4, <1>5, UnitsFinite, MeetsAllHolds, FiniteAssumption
          DEF SetCounts, UnitsCount

\* WorkInv is an invariant for any threads and operations.
THEOREM WorkInvariant == Spec => []WorkInv
  <1>1. Init => WorkCounted /\ PrivateCounted
    BY ZenonT(60), SetCountsHold, InitCounted
  <1>2. OnceInv /\ WorkCounted /\ PrivateCounted /\ [Next]_vars => WorkCounted' /\ PrivateCounted'
    BY ZenonT(60), SetCountsHold, NextCounted, CountKept
  <1>3. WorkInv <=> OnceInv /\ WorkCounted /\ PrivateCounted
    BY ZenonT(60) DEF WorkInv, PrivateCounted
  <1> QED BY <1>1, <1>2, <1>3, OnceInvariant, PTL DEF Spec

\* The scheduler runs out of work only when every operation given is completed: the
\* counts that threads keep for themselves in private_outstanding_work never make
\* work_cleanup or run stop it too early.
THEOREM NoneForgotten == Spec => []NothingForgotten
  <1>1. WorkInv => NothingForgotten
    BY ZenonT(60), SetCountsHold, ZeroIsNone DEF WorkInv, PrivateCounted, NothingForgotten
  <1> QED BY <1>1, WorkInvariant, PTL

=============================================================================
