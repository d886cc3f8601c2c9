----------------------- MODULE BackgroundAppendProofs -----------------------
(***************************************************************************)
(* No wake-up of the background append thread is lost, for any number of   *)
(* client threads.                                                         *)
(***************************************************************************)
EXTENDS BackgroundAppend, TLAPS

USE DEF AtBecomes, PcBecomes, awaiterVars

\* The server starts with the thread about to wait and nothing to send.
LEMMA AppendInit == Init => AppendInv
  BY ZenonT(60), ThreadAssumption
  DEF Init, AwaiterInit, AppendInv, TypeOK, AwaiterTypeOK, CallsOK, StatusOK, WorkSignalled

\* The steps of the thread itself.
LEMMA BgStepInv ==
  ASSUME AppendInv, BgStep \/ (SpuriousWakeUp(Bg) /\ UNCHANGED <<pc, work, stopping>>)
  PROVE  AppendInv'
<1> USE ThreadAssumption
         DEF AppendInv, TypeOK, AwaiterTypeOK, CallsOK, StatusOK, WorkSignalled, Signalled
<1>1. CASE BgWait
  BY <1>1 DEF BgWait, BeginWait
<1>2. CASE BgWaited
  BY ZenonT(60), <1>2 DEF BgWaited, Returned
<1>3. CASE BgReset
  BY ZenonT(60), <1>3 DEF BgReset, Reset
<1>4. CASE BgExec
  BY ZenonT(60), <1>4 DEF BgExec
<1>5. CASE Call(Bg)
  BY <1>5 DEF Call, Inside, Sleep, EndWait, Notify
<1>6. CASE SpuriousWakeUp(Bg) /\ UNCHANGED <<pc, work, stopping>>
  BY ZenonT(60), <1>6 DEF SpuriousWakeUp
<1> QED
  BY ZenonT(60), <1>1, <1>2, <1>3, <1>4, <1>5, <1>6 DEF BgStep

\* The steps of a thread that invokes the awaiter.
LEMMA InvokeInv ==
  ASSUME AppendInv, NEW t \in Thread \ {Bg}, CallInvoke(t) \/ Call(t)
  PROVE  AppendInv'
<1> USE ThreadAssumption
         DEF AppendInv, TypeOK, AwaiterTypeOK, CallsOK, StatusOK, WorkSignalled, Signalled
<1>1. CASE CallInvoke(t)
  BY <1>1 DEF CallInvoke, BeginInvoke
<1>2. CASE Call(t)
  BY <1>2 DEF Call, Inside, Sleep, EndWait, Notify
<1> QED
  BY ZenonT(60), <1>1, <1>2

\* The steps of clients and of shutdown outside the awaiter.
LEMMA OutsideInv ==
  ASSUME AppendInv,
         \/ \E p \in Producer : AppendWork(p) \/ ProducerDone(p)
         \/ Stop
         \/ StopAgain
  PROVE  AppendInv'
<1> USE ThreadAssumption
         DEF AppendInv, TypeOK, AwaiterTypeOK, CallsOK, StatusOK, WorkSignalled, Signalled
<1>1. ASSUME NEW p \in Producer, AppendWork(p)
      PROVE  AppendInv'
  BY <1>1 DEF AppendWork
<1>2. ASSUME NEW p \in Producer, ProducerDone(p)
      PROVE  AppendInv'
  BY <1>2 DEF ProducerDone, Returned
<1>3. CASE Stop
  BY ZenonT(60), <1>3 DEF Stop
<1>4. CASE StopAgain
  BY <1>4 DEF StopAgain, Returned
<1> QED
  BY ZenonT(60), <1>1, <1>2, <1>3, <1>4

\* Every step preserves the invariant.
LEMMA AppendNext == AppendInv /\ [Next]_vars => AppendInv'
<1> SUFFICES ASSUME AppendInv, [Next]_vars
             PROVE  AppendInv'
  BY ZenonT(60)
<1>1. ASSUME NEW p \in Producer, AppendWork(p) \/ ProducerStep(p)
      PROVE  AppendInv'
  BY ZenonT(60), <1>1, InvokeInv, OutsideInv, ThreadAssumption DEF ProducerStep
<1>2. CASE BgStep \/ (SpuriousWakeUp(Bg) /\ UNCHANGED <<pc, work, stopping>>)
  BY ZenonT(60), <1>2, BgStepInv
<1>3. CASE Stop
  BY ZenonT(60), <1>3, OutsideInv
<1>4. CASE ShutdownStep
  BY ZenonT(60), <1>4, InvokeInv, OutsideInv, ThreadAssumption DEF ShutdownStep
<1>5. CASE UNCHANGED vars
  BY ZenonT(60), <1>5 DEF vars, AppendInv, TypeOK, AwaiterTypeOK, CallsOK, StatusOK, WorkSignalled, Signalled
<1> QED
  BY ZenonT(60), <1>1, <1>2, <1>3, <1>4, <1>5 DEF Next

\* append_entries_in_bg, its callers and shutdown keep the inductive invariant,
\* the types included.
THEOREM AppendInvariant == Spec => []AppendInv
  BY AppendInit, AppendNext, PTL DEF Spec

\* The background append thread never sleeps over an entry whose client has
\* finished its invoke() of bg_append_ea_.
THEOREM NoWakeUpIsLost == Spec => []NoLostWakeUp
<1>1. AppendInv => NoLostWakeUp
  BY ZenonT(60), ThreadAssumption DEF AppendInv, CallsOK, StatusOK, WorkSignalled, Signalled, NoLostWakeUp
<1> QED
  BY <1>1, AppendInvariant, PTL

=============================================================================
