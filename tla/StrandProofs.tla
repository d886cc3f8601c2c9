---------------------------- MODULE StrandProofs ----------------------------
(***************************************************************************)
(* Proofs about Strand, for any threads and any handlers: the lock of the  *)
(* strand is one token, no handler is stranded, and the strand implements  *)
(* the serial executor.                                                    *)
(***************************************************************************)
EXTENDS Strand, TLAPS

-----------------------------------------------------------------------------
(* The inductive invariant.                                                *)

LEMMA InitInv == ASSUME Init PROVE StrandInv
  <1>1. TypeOK
    <2>1. locked \in BOOLEAN /\ shutdown \in BOOLEAN /\ submitted \subseteq Handler
      BY ZenonT(60) DEF Init
    <2>2. waiting_queue \in Seq(Handler) /\ ready_queue \in Seq(Handler) /\ scheduled \in Nat
      BY SMTT(90) DEF Init
    <2>3. /\ call \in [Thread -> {"idle", "push", "schedule"}]
          /\ op \in [Thread -> Handler \cup {None}]
          /\ inv \in [Thread -> {"idle", "run", "handler", "exit", "reschedule"}]
          /\ current \in [Thread -> Handler \cup {None}]
      BY ZenonT(60) DEF Init
    <2> QED BY ZenonT(60), <2>1, <2>2, <2>3 DEF TypeOK
  <1>2. \A t \in Thread : call[t] = "idle" /\ inv[t] = "idle" /\ current[t] = None
    BY ZenonT(60) DEF Init
  <1>3. \A t \in Thread : ~ InCall(t) /\ ~ InInvoker(t) /\ ~ Holds(t)
    BY ZenonT(60), <1>2 DEF InCall, InInvoker, Holds
  <1>4. OneOwner
    <2>1. scheduled <= 1
      BY SMTT(90) DEF Init
    <2> QED BY ZenonT(60), <1>3, <2>1 DEF OneOwner
  <1>5. NotStranded /\ Places
    BY ZenonT(60), <1>2 DEF Init, NotStranded, Places
  <1> QED BY ZenonT(60), <1>1, <1>4, <1>5 DEF StrandInv

LEMMA RunNowInv == ASSUME StrandInv, NEW t \in Thread, NEW h \in Handler, RunNow(t, h) PROVE StrandInv'
  BY ZenonT(60) DEF StrandInv, TypeOK, OneOwner, NotStranded, Places, Holds, InCall, InInvoker,
                  RunNow, queueVars, callVars, invVars

LEMMA EnqueueInv == ASSUME StrandInv, NEW t \in Thread, NEW h \in Handler, Enqueue(t, h) PROVE StrandInv'
  <1>1. CASE shutdown
    BY ZenonT(60), <1>1 DEF StrandInv, TypeOK, OneOwner, NotStranded, Places, Holds, InCall,
                  InInvoker, Enqueue, queueVars, callVars, invVars
  <1>2. CASE ~ shutdown /\ locked
    <2>1. /\ waiting_queue' = Append(waiting_queue, h)
          /\ submitted' = submitted \cup {h}
          /\ UNCHANGED <<locked, callVars, shutdown, ready_queue, scheduled, invVars>>
      BY ZenonT(60), <1>2 DEF Enqueue
    <2>2. TypeOK'
      BY SMTT(90), <2>1 DEF StrandInv, TypeOK, callVars, invVars
    <2>3. OneOwner' /\ Places'
      BY ZenonT(60), <2>1 DEF StrandInv, OneOwner, Places, Holds, InCall, InInvoker, callVars, invVars
    <2>4. NotStranded'
      BY ZenonT(60), <1>2, <2>1 DEF StrandInv, NotStranded, Holds, InCall, InInvoker, callVars, invVars
    <2> QED BY ZenonT(60), <2>2, <2>3, <2>4 DEF StrandInv
  <1>3. CASE ~ shutdown /\ ~ locked
    <2>1. \A u \in Thread : ~ Holds(u)
      BY ZenonT(60), <1>3 DEF StrandInv, OneOwner
    <2>2. /\ locked' = TRUE
          /\ call' = [call EXCEPT ![t] = "push"]
          /\ op' = [op EXCEPT ![t] = h]
          /\ submitted' = submitted \cup {h}
          /\ UNCHANGED <<waiting_queue, shutdown, ready_queue, scheduled, invVars>>
      BY ZenonT(60), <1>3 DEF Enqueue
    <2>3. scheduled = 0 /\ ready_queue = <<>>
      BY ZenonT(60), <1>3 DEF StrandInv, NotStranded
    <2>4. TypeOK'
      BY ZenonT(60), <2>2 DEF StrandInv, TypeOK, callVars, invVars
    <2>5. \A u \in Thread : call'[u] = "push" <=> u = t
      BY ZenonT(60), <2>1, <2>2 DEF StrandInv, TypeOK, Holds, InCall
    <2>6. \A u \in Thread : (InCall(u)' <=> u = t) /\ ~ InInvoker(u)' /\ (Holds(u)' <=> u = t)
      BY ZenonT(60), <2>1, <2>2 DEF StrandInv, TypeOK, Holds, InCall, InInvoker, invVars
    <2>7. OneOwner'
      BY ZenonT(60), <1>3, <2>2, <2>3, <2>6 DEF StrandInv, OneOwner
    <2>8. NotStranded'
      BY ZenonT(60), <1>3, <2>2, <2>6 DEF NotStranded
    <2>9. Places'
      BY ZenonT(60), <2>2, <2>3, <2>5 DEF StrandInv, Places, TypeOK, invVars
    <2> QED BY ZenonT(60), <2>4, <2>7, <2>8, <2>9 DEF StrandInv
  <1> QED BY ZenonT(60), <1>1, <1>2, <1>3

LEMMA PushReadyInv == ASSUME StrandInv, NEW t \in Thread, PushReady(t) PROVE StrandInv'
  BY SMTT(90), StrandAssumption
     DEF StrandInv, TypeOK, OneOwner, NotStranded, Places, Holds, InCall,
         InInvoker, PushReady, queueVars, callVars, invVars

LEMMA ScheduleInv == ASSUME StrandInv, NEW t \in Thread, Schedule(t) PROVE StrandInv'
  BY SMTT(90), StrandAssumption
     DEF StrandInv, TypeOK, OneOwner, NotStranded, Places, Holds, InCall,
         InInvoker, Schedule, queueVars, callVars, invVars

LEMMA BeginInvokerInv == ASSUME StrandInv, NEW t \in Thread, BeginInvoker(t) PROVE StrandInv'
  BY SMTT(90), StrandAssumption
     DEF StrandInv, TypeOK, OneOwner, NotStranded, Places, Holds, InCall,
         InInvoker, BeginInvoker, queueVars, callVars, invVars

LEMMA RunReadyInv == ASSUME StrandInv, NEW t \in Thread, RunReady(t) PROVE StrandInv'
  <1>1. CASE ready_queue = <<>>
    BY SMTT(90), <1>1, StrandAssumption
       DEF StrandInv, TypeOK, OneOwner, NotStranded, Places, Holds, InCall,
           InInvoker, RunReady, queueVars, callVars, invVars
  <1>2. CASE ready_queue # <<>>
    <2>1. /\ ready_queue' = Tail(ready_queue)
          /\ current' = [current EXCEPT ![t] = Head(ready_queue)]
          /\ inv' = [inv EXCEPT ![t] = "handler"]
          /\ inv[t] = "run"
          /\ UNCHANGED <<locked, shutdown, waiting_queue, scheduled, callVars, submitted>>
      BY ZenonT(60), <1>2 DEF RunReady
    <2>2. Head(ready_queue) \in Handler /\ Tail(ready_queue) \in Seq(Handler)
      BY SMTT(90), <1>2 DEF StrandInv, TypeOK
    <2>3. TypeOK'
      BY ZenonT(60), <2>1, <2>2 DEF StrandInv, TypeOK, callVars
    <2>4. \A u \in Thread : (InCall(u)' <=> InCall(u)) /\ (InInvoker(u)' <=> InInvoker(u))
      BY ZenonT(60), <2>1 DEF StrandInv, TypeOK, InCall, InInvoker, callVars
    <2>5. \A u \in Thread : Holds(u)' <=> Holds(u)
      BY ZenonT(60), <2>4 DEF Holds
    <2>6. OneOwner'
      BY ZenonT(60), <2>1, <2>4, <2>5 DEF StrandInv, OneOwner
    <2>7. locked /\ ~ shutdown /\ Holds(t)
      BY ZenonT(60), <2>1 DEF StrandInv, OneOwner, Holds, InInvoker
    <2>8. NotStranded'
      BY ZenonT(60), <2>1, <2>5, <2>7 DEF NotStranded
    <2>9. Places'
      <3>1. \A u \in Thread : call'[u] # "push"
        BY ZenonT(60), <2>1, <2>7 DEF StrandInv, OneOwner, Holds, InCall, InInvoker, callVars
      <3>2. Head(ready_queue) # None
        BY ZenonT(60), <2>2, StrandAssumption
      <3>3. \A u \in Thread : inv'[u] = "handler" <=> current'[u] # None
        BY ZenonT(60), <2>1, <3>2 DEF StrandInv, TypeOK, Places
      <3> QED BY ZenonT(60), <3>1, <3>3 DEF Places
    <2> QED BY ZenonT(60), <2>3, <2>6, <2>8, <2>9 DEF StrandInv
  <1> QED BY ZenonT(60), <1>1, <1>2

LEMMA EndHandlerInv == ASSUME StrandInv, NEW t \in Thread, EndHandler(t) PROVE StrandInv'
  BY SMTT(90), StrandAssumption
     DEF StrandInv, TypeOK, OneOwner, NotStranded, Places, Holds, InCall,
         InInvoker, EndHandler, queueVars, callVars, invVars

LEMMA ExitInv == ASSUME StrandInv, NEW t \in Thread, Exit(t) PROVE StrandInv'
  BY SMTT(90), StrandAssumption
     DEF StrandInv, TypeOK, OneOwner, NotStranded, Places, Holds, InCall,
         InInvoker, Exit, queueVars, callVars, invVars

LEMMA RescheduleInv == ASSUME StrandInv, NEW t \in Thread, Reschedule(t) PROVE StrandInv'
  BY SMTT(90), StrandAssumption
     DEF StrandInv, TypeOK, OneOwner, NotStranded, Places, Holds, InCall,
         InInvoker, Reschedule, queueVars, callVars, invVars

LEMMA ShutdownInv == ASSUME StrandInv, Shutdown PROVE StrandInv'
  BY SMTT(90), StrandAssumption
     DEF StrandInv, TypeOK, OneOwner, NotStranded, Places, Holds, InCall,
         InInvoker, Shutdown, queueVars, callVars, invVars

LEMMA NextInv == ASSUME StrandInv, [Next]_vars PROVE StrandInv'
  <1>1. ASSUME NEW t \in Thread, Step(t) PROVE StrandInv'
    BY ZenonT(60), <1>1, PushReadyInv, ScheduleInv, BeginInvokerInv, RunReadyInv, EndHandlerInv,
              ExitInv, RescheduleInv DEF Step
  <1>2. CASE UNCHANGED vars
    BY ZenonT(60), <1>2 DEF StrandInv, TypeOK, OneOwner, NotStranded, Places, Holds, InCall,
                       InInvoker, vars, queueVars, callVars, invVars
  <1> QED BY ZenonT(60), <1>1, <1>2, RunNowInv, EnqueueInv, ShutdownInv DEF Next

\* The inductive invariant of the strand, for any threads and handlers.
THEOREM StrandInvariant == Spec => []StrandInv
  <1>1. Init => StrandInv
    BY ZenonT(60), InitInv
  <1>2. StrandInv /\ [Next]_vars => StrandInv'
    BY ZenonT(60), NextInv
  <1> QED BY <1>1, <1>2, PTL DEF Spec

\* Two handlers of a strand never run at once, whatever threads run its executor.
THEOREM HandlersNeverOverlap == Spec => []HandlersExclude
  <1>1. StrandInv => HandlersExclude
    BY ZenonT(60) DEF StrandInv, OneOwner, HandlersExclude, Holds, InInvoker
  <1> QED BY <1>1, StrandInvariant, PTL

-----------------------------------------------------------------------------
(* The refinement.                                                         *)

\* What the refinement mapping makes of one thread in a place, and of none.
LEMMA PushedOne ==
    ASSUME NEW c, NEW o, NEW t \in Thread, c[t] = "push",
           \A u \in Thread : c[u] = "push" => u = t
    PROVE  PushedBy(c, o) = <<o[t]>>
  <1> DEFINE P == {u \in Thread : c[u] = "push"}
  <1>1. P = {t}
    BY ZenonT(60)
  <1>2. (CHOOSE u \in P : TRUE) = t
    BY ZenonT(60), <1>1
  <1> QED BY ZenonT(60), <1>1, <1>2 DEF PushedBy

LEMMA PushedNone ==
    ASSUME NEW c, NEW o, \A u \in Thread : c[u] # "push"
    PROVE  PushedBy(c, o) = <<>>
  <1>1. {u \in Thread : c[u] = "push"} = {}
    BY ZenonT(60)
  <1> QED BY ZenonT(60), <1>1 DEF PushedBy

LEMMA RunOne ==
    ASSUME NEW i, NEW c, NEW t \in Thread, i[t] = "handler",
           \A u \in Thread : i[u] = "handler" => u = t
    PROVE  RunBy(i, c) = c[t]
  <1> DEFINE R == {u \in Thread : i[u] = "handler"}
  <1>1. R = {t}
    BY ZenonT(60)
  <1>2. (CHOOSE u \in R : TRUE) = t
    BY ZenonT(60), <1>1
  <1> QED BY ZenonT(60), <1>1, <1>2 DEF RunBy, InHandler

LEMMA RunNone ==
    ASSUME NEW i, NEW c, \A u \in Thread : i[u] # "handler"
    PROVE  RunBy(i, c) = None
  <1>1. {u \in Thread : i[u] = "handler"} = {}
    BY ZenonT(60)
  <1> QED BY ZenonT(60), <1>1 DEF RunBy, InHandler

LEMMA RunSame ==
    ASSUME NEW i, NEW j, NEW c, \A u \in Thread : j[u] = "handler" <=> i[u] = "handler"
    PROVE  RunBy(j, c) = RunBy(i, c)
  <1>1. InHandler(j) = InHandler(i)
    BY ZenonT(60) DEF InHandler
  <1> QED BY SMTT(90), <1>1 DEF RunBy

\* Facts about sequences.
LEMMA EmptyFront == ASSUME NEW q \in Seq(Handler) PROVE <<>> \o q = q
  BY SMTT(90)

LEMMA EmptyBack == ASSUME NEW q \in Seq(Handler) PROVE q \o <<>> = q
  BY SMTT(90)

LEMMA AppendBack ==
    ASSUME NEW q \in Seq(Handler), NEW r \in Seq(Handler), NEW h \in Handler
    PROVE  q \o Append(r, h) = Append(q \o r, h)
  BY SMTT(90)

LEMMA HeadTail ==
    ASSUME NEW q \in Seq(Handler), NEW r \in Seq(Handler), q # <<>>
    PROVE  /\ q \o r # <<>>
           /\ Head(q \o r) = Head(q)
           /\ Tail(q \o r) = Tail(q) \o r
  BY SMTT(90)

\* A call and an invoker exclude each other and all others.
LEMMA Unique ==
    ASSUME StrandInv, NEW t \in Thread, Holds(t)
    PROVE  /\ \A u \in Thread : Holds(u) => u = t
           /\ InCall(t) => \A u \in Thread : inv[u] # "handler"
           /\ InInvoker(t) => \A u \in Thread : call[u] # "push"
  BY ZenonT(60) DEF StrandInv, OneOwner, Holds, InCall, InInvoker

\* The step of the abstract specification that a step of the strand implements.
Implements == [Serial!SerialNext]_(Serial!serialVars)

\* A step that leaves the mapped state alone.
LEMMA StutterStep ==
    ASSUME Pending' = Pending, Running' = Running, UNCHANGED <<submitted, shutdown>>
    PROVE  Implements
  BY ZenonT(60) DEF Implements, Serial!serialVars

\* Nothing is between its enqueue and its push, and nothing runs, when another
\* thread has the lock elsewhere.
LEMMA PushedInInvoker ==
    ASSUME StrandInv, NEW t \in Thread, InInvoker(t)
    PROVE  PushedBy(call, op) = <<>> /\ Pending = ready_queue \o waiting_queue
  <1>1. PushedBy(call, op) = <<>>
    BY ZenonT(60), Unique, PushedNone DEF Holds
  <1>2. <<>> \o ready_queue = ready_queue
    BY ZenonT(60), EmptyFront DEF StrandInv, TypeOK
  <1> QED BY ZenonT(60), <1>1, <1>2 DEF Pending

LEMMA RunNowImplements ==
    ASSUME StrandInv, NEW t \in Thread, NEW h \in Handler, RunNow(t, h) PROVE Implements
  <1>1. InInvoker(t) /\ Holds(t) /\ inv[t] = "handler"
    BY ZenonT(60) DEF RunNow, InInvoker, Holds
  <1>2. Running = current[t]
    <2>1. \A u \in Thread : inv[u] = "handler" => u = t
      BY ZenonT(60), <1>1, Unique DEF Holds, InInvoker
    <2> QED BY ZenonT(60), <1>1, <2>1, RunOne DEF Running
  <1>3. Running # None
    BY ZenonT(60), <1>1, <1>2 DEF StrandInv, Places
  <1>4. Pending' = Pending /\ Running' = Running
    BY ZenonT(60) DEF RunNow, Pending, Running, queueVars, callVars, invVars
  <1>5. Serial!RunInside(h)
    BY ZenonT(60), <1>3, <1>4 DEF Serial!RunInside, RunNow
  <1> QED BY ZenonT(60), <1>5 DEF Implements, Serial!SerialNext

LEMMA EnqueueImplements ==
    ASSUME StrandInv, NEW t \in Thread, NEW h \in Handler, Enqueue(t, h) PROVE Implements
  <1>0. Running' = Running /\ UNCHANGED shutdown /\ submitted' = submitted \cup {h} /\ h \notin submitted
    BY ZenonT(60) DEF Enqueue, Running, invVars
  <1>1. CASE shutdown
    <2>1. Pending' = Pending
      BY ZenonT(60), <1>1 DEF Enqueue, Pending, callVars
    <2>2. Serial!Refuse(h)
      BY ZenonT(60), <1>0, <1>1, <2>1 DEF Serial!Refuse
    <2> QED BY ZenonT(60), <2>2 DEF Implements, Serial!SerialNext
  <1>2. CASE ~ shutdown /\ locked
    <2>1. Pending' = PushedBy(call, op) \o ready_queue \o Append(waiting_queue, h)
      BY ZenonT(60), <1>2 DEF Enqueue, Pending, callVars
    <2>2. PushedBy(call, op) \in Seq(Handler)
      <3>1. CASE \E u \in Thread : call[u] = "push"
        <4>1. PICK u \in Thread : call[u] = "push"
          BY ZenonT(60), <3>1
        <4>2. PushedBy(call, op) = <<op[u]>>
          BY ZenonT(60), <4>1, Unique, PushedOne DEF Holds, InCall
        <4>3. op[u] \in Handler
          BY ZenonT(60), <4>1 DEF StrandInv, Places
        <4> QED BY SMTT(90), <4>2, <4>3
      <3>2. CASE ~ \E u \in Thread : call[u] = "push"
        <4>1. PushedBy(call, op) = <<>>
          BY ZenonT(60), <3>2, PushedNone
        <4> QED BY SMTT(90), <4>1
      <3> QED BY ZenonT(60), <3>1, <3>2
    <2>3. PushedBy(call, op) \o ready_queue \in Seq(Handler) /\ waiting_queue \in Seq(Handler)
      BY SMTT(90), <2>2 DEF StrandInv, TypeOK
    <2>4. Pending' = Append(Pending, h)
      BY ZenonT(60), <2>1, <2>3, AppendBack DEF Pending
    <2>5. Serial!Give(h)
      BY ZenonT(60), <1>0, <1>2, <2>4 DEF Serial!Give
    <2> QED BY ZenonT(60), <2>5 DEF Implements, Serial!SerialNext
  <1>3. CASE ~ shutdown /\ ~ locked
    <2>1. /\ waiting_queue = <<>> /\ ready_queue = <<>>
          /\ \A u \in Thread : ~ Holds(u)
      BY ZenonT(60), <1>3 DEF StrandInv, NotStranded, OneOwner
    <2>2. /\ call' = [call EXCEPT ![t] = "push"]
          /\ op' = [op EXCEPT ![t] = h]
          /\ UNCHANGED <<waiting_queue, ready_queue>>
      BY ZenonT(60), <1>3 DEF Enqueue
    <2>3. Pending = <<>>
      <3>1. \A u \in Thread : call[u] # "push"
        BY ZenonT(60), <2>1 DEF Holds, InCall
      <3>2. PushedBy(call, op) = <<>>
        BY ZenonT(60), <3>1, PushedNone
      <3>3. <<>> \in Seq(Handler)
        BY SMTT(90)
      <3>4. <<>> \o <<>> = <<>>
        BY ZenonT(60), <3>3, EmptyFront
      <3> QED BY ZenonT(60), <2>1, <3>2, <3>4 DEF Pending
    <2>4. Pending' = <<h>>
      <3>1. \A u \in Thread : call'[u] = "push" <=> u = t
        BY ZenonT(60), <2>1, <2>2 DEF StrandInv, TypeOK, Holds, InCall
      <3>2. op'[t] = h
        BY ZenonT(60), <2>2 DEF StrandInv, TypeOK
      <3>3. PushedBy(call', op') = <<h>>
        BY ZenonT(60), <3>1, <3>2, PushedOne
      <3>4. Pending' = PushedBy(call', op') \o ready_queue' \o waiting_queue'
        BY ZenonT(60) DEF Pending, PushedBy
      <3>5. <<h>> \in Seq(Handler)
        BY SMTT(90)
      <3> QED BY ZenonT(60), <2>1, <2>2, <3>3, <3>4, <3>5, EmptyBack
    <2>5. Pending' = Append(Pending, h)
      BY SMTT(90), <2>3, <2>4
    <2>6. Serial!Give(h)
      BY ZenonT(60), <1>0, <1>3, <2>5 DEF Serial!Give
    <2> QED BY ZenonT(60), <2>6 DEF Implements, Serial!SerialNext
  <1> QED BY ZenonT(60), <1>1, <1>2, <1>3

LEMMA PushReadyImplements ==
    ASSUME StrandInv, NEW t \in Thread, PushReady(t) PROVE Implements
  <1>1. /\ call[t] = "push" /\ InCall(t) /\ Holds(t)
        /\ ready_queue = <<>> /\ op[t] \in Handler
    BY ZenonT(60) DEF PushReady, InCall, Holds, StrandInv, Places
  <1>2. Running' = Running /\ UNCHANGED <<submitted, shutdown>>
    BY ZenonT(60) DEF PushReady, Running, invVars
  <1>3. \A u \in Thread : call[u] = "push" => u = t
    BY ZenonT(60), <1>1, Unique DEF Holds, InCall
  <1>4. PushedBy(call, op) = <<op[t]>>
    BY ZenonT(60), <1>1, <1>3, PushedOne
  <1>5. <<op[t]>> \in Seq(Handler) /\ Append(<<>>, op[t]) = <<op[t]>>
    BY SMTT(90), <1>1
  <1>6. Pending = <<op[t]>> \o waiting_queue
    BY ZenonT(60), <1>1, <1>4, <1>5, EmptyBack DEF Pending
  <1>7. \A u \in Thread : call'[u] # "push"
    BY ZenonT(60), <1>3 DEF PushReady, StrandInv, TypeOK
  <1>8. PushedBy(call', op') = <<>>
    BY ZenonT(60), <1>7, PushedNone
  <1>9. ready_queue' = <<op[t]>> /\ waiting_queue' = waiting_queue
    BY ZenonT(60), <1>1, <1>5 DEF PushReady
  <1>10. Pending' = PushedBy(call', op') \o ready_queue' \o waiting_queue'
    BY ZenonT(60) DEF Pending, PushedBy
  <1>11. Pending' = Pending
    BY ZenonT(60), <1>5, <1>6, <1>8, <1>9, <1>10, EmptyFront
  <1> QED BY ZenonT(60), <1>2, <1>11, StutterStep

LEMMA ScheduleImplements ==
    ASSUME StrandInv, NEW t \in Thread, Schedule(t) PROVE Implements
  <1>1. Running' = Running /\ UNCHANGED <<submitted, shutdown>>
    BY ZenonT(60) DEF Schedule, Running, invVars
  <1>2. call[t] = "schedule" /\ Holds(t) /\ InCall(t)
    BY ZenonT(60) DEF Schedule, Holds, InCall
  <1>3. \A u \in Thread : call[u] # "push"
    BY ZenonT(60), <1>2, Unique DEF Holds, InCall
  <1>4. \A u \in Thread : call'[u] # "push"
    BY ZenonT(60), <1>3 DEF Schedule, StrandInv, TypeOK
  <1>5. PushedBy(call', op') = <<>> /\ PushedBy(call, op) = <<>>
    BY ZenonT(60), <1>3, <1>4, PushedNone
  <1>6. Pending' = PushedBy(call', op') \o ready_queue' \o waiting_queue'
    BY ZenonT(60) DEF Pending, PushedBy
  <1>7. Pending' = Pending
    BY ZenonT(60), <1>5, <1>6 DEF Schedule, Pending, queueVars
  <1> QED BY ZenonT(60), <1>1, <1>7, StutterStep

\* An invoker step that leaves the queues alone, and after and before which this
\* thread is not in a handler.
LEMMA QuietInvoker ==
    ASSUME StrandInv, NEW t \in Thread, NEW p, p # "handler", inv[t] # "handler",
           inv' = [inv EXCEPT ![t] = p],
           UNCHANGED <<queueVars, callVars, current, submitted, shutdown>>
    PROVE  Implements
  <1>1. Pending' = Pending
    BY ZenonT(60) DEF Pending, queueVars, callVars
  <1>2. \A u \in Thread : inv'[u] = "handler" <=> inv[u] = "handler"
    BY ZenonT(60) DEF StrandInv, TypeOK
  <1>3. current' = current
    BY ZenonT(60)
  <1>4. RunBy(inv', current') = RunBy(inv, current')
    BY ZenonT(60), <1>2, RunSame
  <1>5. Running' = RunBy(inv', current')
    BY ZenonT(60) DEF Running, RunBy, InHandler
  <1>6. Running' = Running
    BY ZenonT(60), <1>3, <1>4, <1>5 DEF Running
  <1> QED BY ZenonT(60), <1>1, <1>6, StutterStep

LEMMA RunReadyImplements ==
    ASSUME StrandInv, NEW t \in Thread, RunReady(t) PROVE Implements
  <1>1. inv[t] = "run" /\ InInvoker(t) /\ Holds(t) /\ inv[t] # "handler"
    BY ZenonT(60) DEF RunReady, InInvoker, Holds
  <1>2. CASE ready_queue = <<>>
    <2>1. inv' = [inv EXCEPT ![t] = "exit"]
      BY ZenonT(60), <1>2 DEF RunReady
    <2>2. UNCHANGED <<queueVars, callVars, current, submitted, shutdown>>
      BY ZenonT(60), <1>2 DEF RunReady, queueVars
    <2> QED BY ZenonT(60), <1>1, <2>1, <2>2, QuietInvoker
  <1>3. CASE ready_queue # <<>>
    <2>1. /\ ready_queue' = Tail(ready_queue)
          /\ current' = [current EXCEPT ![t] = Head(ready_queue)]
          /\ inv' = [inv EXCEPT ![t] = "handler"]
          /\ UNCHANGED <<shutdown, waiting_queue, callVars, submitted>>
      BY ZenonT(60), <1>3 DEF RunReady
    <2>2. Pending = ready_queue \o waiting_queue /\ PushedBy(call, op) = <<>>
      BY ZenonT(60), <1>1, PushedInInvoker
    <2>3. Pending' = Tail(ready_queue) \o waiting_queue
      <3>1. Pending' = PushedBy(call', op') \o ready_queue' \o waiting_queue'
        BY ZenonT(60) DEF Pending, PushedBy
      <3>2. PushedBy(call', op') = <<>>
        BY ZenonT(60), <2>1, <2>2 DEF callVars
      <3>3. Tail(ready_queue) \in Seq(Handler)
        BY SMTT(90), <1>3 DEF StrandInv, TypeOK
      <3> QED BY ZenonT(60), <2>1, <3>1, <3>2, <3>3, EmptyFront
    <2>4. Pending # <<>> /\ Head(Pending) = Head(ready_queue) /\ Pending' = Tail(Pending)
      BY ZenonT(60), <1>3, <2>2, <2>3, HeadTail DEF StrandInv, TypeOK
    <2>5. Running = None
      <3>1. \A u \in Thread : inv[u] # "handler"
        BY ZenonT(60), <1>1, Unique DEF Holds, InInvoker
      <3> QED BY ZenonT(60), <3>1, RunNone DEF Running
    <2>6. Running' = Head(ready_queue)
      <3>1. \A u \in Thread : inv'[u] = "handler" <=> u = t
        <4>1. \A u \in Thread : inv[u] # "handler"
          BY ZenonT(60), <1>1, Unique DEF Holds, InInvoker
        <4> QED BY ZenonT(60), <2>1, <4>1 DEF StrandInv, TypeOK
      <3>2. RunBy(inv', current') = current'[t]
        BY ZenonT(60), <3>1, RunOne
      <3>3. current'[t] = Head(ready_queue)
        BY ZenonT(60), <2>1 DEF StrandInv, TypeOK
      <3> QED BY ZenonT(60), <3>2, <3>3 DEF Running, RunBy, InHandler
    <2>7. Serial!Start
      BY ZenonT(60), <2>1, <2>4, <2>5, <2>6 DEF Serial!Start
    <2> QED BY ZenonT(60), <2>7 DEF Implements, Serial!SerialNext
  <1> QED BY ZenonT(60), <1>2, <1>3

LEMMA EndHandlerImplements ==
    ASSUME StrandInv, NEW t \in Thread, EndHandler(t) PROVE Implements
  <1>1. inv[t] = "handler" /\ InInvoker(t) /\ Holds(t)
    BY ZenonT(60) DEF EndHandler, InInvoker, Holds
  <1>2. \A u \in Thread : inv[u] = "handler" => u = t
    BY ZenonT(60), <1>1, Unique DEF Holds, InInvoker
  <1>3. Running # None
    <2>1. Running = current[t]
      BY ZenonT(60), <1>1, <1>2, RunOne DEF Running
    <2> QED BY ZenonT(60), <1>1, <2>1 DEF StrandInv, Places
  <1>4. Running' = None
    <2>1. \A u \in Thread : inv'[u] # "handler"
      BY ZenonT(60), <1>2 DEF EndHandler, StrandInv, TypeOK
    <2>2. RunBy(inv', current') = None
      BY ZenonT(60), <2>1, RunNone
    <2> QED BY ZenonT(60), <2>2 DEF Running, RunBy, InHandler
  <1>5. Pending' = Pending /\ UNCHANGED <<submitted, shutdown>>
    BY ZenonT(60) DEF EndHandler, Pending, queueVars, callVars
  <1>6. Serial!Finish
    BY ZenonT(60), <1>3, <1>4, <1>5 DEF Serial!Finish
  <1> QED BY ZenonT(60), <1>6 DEF Implements, Serial!SerialNext

LEMMA ExitImplements ==
    ASSUME StrandInv, NEW t \in Thread, Exit(t) PROVE Implements
  <1>1. inv[t] = "exit" /\ InInvoker(t) /\ Holds(t)
    BY ZenonT(60) DEF Exit, InInvoker, Holds
  <1>2. Pending = ready_queue \o waiting_queue /\ PushedBy(call, op) = <<>>
    BY ZenonT(60), <1>1, PushedInInvoker
  <1>3. Pending' = Pending
    <2>1. Pending' = PushedBy(call', op') \o ready_queue' \o waiting_queue'
      BY ZenonT(60) DEF Pending, PushedBy
    <2>2. PushedBy(call', op') = <<>> /\ ready_queue' = ready_queue \o waiting_queue /\ waiting_queue' = <<>>
      BY ZenonT(60), <1>2 DEF Exit, callVars
    <2>3. ready_queue \o waiting_queue \in Seq(Handler)
      BY SMTT(90) DEF StrandInv, TypeOK
    <2>4. <<>> \o (ready_queue \o waiting_queue) \o <<>> = ready_queue \o waiting_queue
      BY ZenonT(60), <2>3, EmptyFront, EmptyBack
    <2> QED BY ZenonT(60), <1>2, <2>1, <2>2, <2>4
  <1>4. Running' = Running
    <2>1. \A u \in Thread : inv[u] # "handler"
      BY ZenonT(60), <1>1, Unique DEF Holds, InInvoker
    <2>2. \A u \in Thread : inv'[u] # "handler"
      BY ZenonT(60), <2>1 DEF Exit, StrandInv, TypeOK
    <2>3. RunBy(inv', current') = None /\ RunBy(inv, current) = None
      BY ZenonT(60), <2>1, <2>2, RunNone
    <2> QED BY ZenonT(60), <2>3 DEF Running, RunBy, InHandler
  <1> QED BY ZenonT(60), <1>3, <1>4, StutterStep DEF Exit

LEMMA ShutdownImplements == ASSUME StrandInv, Shutdown PROVE Implements
  <1>1. \A t \in Thread : call[t] = "idle" /\ inv[t] = "idle"
    BY ZenonT(60) DEF Shutdown
  <1>2. \A t \in Thread : call[t] # "push" /\ inv[t] # "handler"
    BY ZenonT(60), <1>1
  <1>3. PushedBy(call, op) = <<>> /\ Running = None
    BY ZenonT(60), <1>2, PushedNone, RunNone DEF Running
  <1>4. Running' = Running
    BY ZenonT(60) DEF Shutdown, Running, invVars
  <1>5. Pending' = <<>>
    <2>1. Pending' = PushedBy(call', op') \o ready_queue' \o waiting_queue'
      BY ZenonT(60) DEF Pending, PushedBy
    <2>2. PushedBy(call', op') = <<>> /\ ready_queue' = <<>> /\ waiting_queue' = <<>>
      BY ZenonT(60), <1>3 DEF Shutdown, callVars
    <2>3. <<>> \in Seq(Handler)
      BY SMTT(90)
    <2> QED BY ZenonT(60), <2>1, <2>2, <2>3, EmptyFront
  <1>6. Serial!Close
    BY ZenonT(60), <1>3, <1>4, <1>5 DEF Serial!Close, Shutdown
  <1> QED BY ZenonT(60), <1>6 DEF Implements, Serial!SerialNext

LEMMA NextImplements == ASSUME StrandInv, [Next]_vars PROVE Implements
  <1>1. ASSUME NEW t \in Thread, BeginInvoker(t) PROVE Implements
    <2>1. inv[t] # "handler" /\ inv' = [inv EXCEPT ![t] = "run"]
          /\ UNCHANGED <<queueVars, callVars, current, submitted, shutdown>>
      BY ZenonT(60), <1>1 DEF BeginInvoker
    <2> QED BY ZenonT(60), <2>1, QuietInvoker
  <1>2. ASSUME NEW t \in Thread, Reschedule(t) PROVE Implements
    <2>1. inv[t] # "handler" /\ inv' = [inv EXCEPT ![t] = "idle"]
          /\ UNCHANGED <<queueVars, callVars, current, submitted, shutdown>>
      BY ZenonT(60), <1>2 DEF Reschedule
    <2> QED BY ZenonT(60), <2>1, QuietInvoker
  <1>3. ASSUME NEW t \in Thread, Step(t) PROVE Implements
    BY ZenonT(60), <1>1, <1>2, <1>3, PushReadyImplements, ScheduleImplements, RunReadyImplements,
              EndHandlerImplements, ExitImplements DEF Step
  <1>4. CASE UNCHANGED vars
    <2>1. Pending' = Pending /\ Running' = Running /\ UNCHANGED <<submitted, shutdown>>
      BY ZenonT(60), <1>4 DEF vars, Pending, Running, queueVars, callVars, invVars
    <2> QED BY ZenonT(60), <2>1, StutterStep
  <1> QED BY ZenonT(60), <1>3, <1>4, RunNowImplements, EnqueueImplements, ShutdownImplements DEF Next

LEMMA InitImplements == ASSUME Init PROVE Serial!SerialInit
  <1>1. \A t \in Thread : call[t] # "push" /\ inv[t] # "handler"
    BY ZenonT(60) DEF Init
  <1>2. PushedBy(call, op) = <<>> /\ Running = None
    BY ZenonT(60), <1>1, PushedNone, RunNone DEF Running
  <1>3. <<>> \in Seq(Handler)
    BY SMTT(90)
  <1>4. Pending = <<>>
    BY ZenonT(60), <1>2, <1>3, EmptyFront DEF Init, Pending
  <1> QED BY ZenonT(60), <1>2, <1>4 DEF Init, Serial!SerialInit

\* The strand implements the serial executor: handlers run one at a time and in
\* the order of their enqueue, for any threads and handlers.
THEOREM StrandIsSerial == Spec => ImplementsSerial
  <1>1. Init => Serial!SerialInit
    BY ZenonT(60), InitImplements
  <1>2. StrandInv /\ [Next]_vars => [Serial!SerialNext]_(Serial!serialVars)
    BY ZenonT(60), NextImplements DEF Implements
  <1> QED BY <1>1, <1>2, StrandInvariant, PTL DEF Spec, ImplementsSerial, Serial!SerialSpec

=============================================================================
