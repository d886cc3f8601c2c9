--------------------------- MODULE GlobalMgrProofs ---------------------------
(***************************************************************************)
(* Proofs about GlobalMgr, for any servers, users and numbers of workers:  *)
(* the queues agree with their sets, commit_in_bg_exec is exclusive, and   *)
(* state machines execute what is committed, in order and once.            *)
(***************************************************************************)
EXTENDS GlobalMgr, TLAPS

-----------------------------------------------------------------------------
(* Lemmas about the queues.                                                *)

\* A queue without duplicates whose elements are those of a set.
Agrees(q, set) ==
    /\ \A i, j \in DOMAIN q : q[i] = q[j] => i = j
    /\ \A s \in RaftServer : s \in set <=> \E i \in DOMAIN q : q[i] = s

\* push_back of a server that is not queued.
LEMMA AppendAgrees ==
    ASSUME NEW q \in Seq(RaftServer), NEW set \in SUBSET RaftServer, Agrees(q, set),
           NEW s \in RaftServer, s \notin set
    PROVE  /\ Append(q, s) \in Seq(RaftServer)
           /\ Agrees(Append(q, s), set \cup {s})
  <1> DEFINE r == Append(q, s)
  <1>1. /\ r \in Seq(RaftServer)
        /\ Len(q) \in Nat
        /\ DOMAIN q = 1 .. Len(q)
        /\ DOMAIN r = 1 .. Len(q) + 1
        /\ \A i \in 1 .. Len(q) : r[i] = q[i]
        /\ r[Len(q) + 1] = s
    BY SMTT(90)
  <1>2. \A i \in 1 .. Len(q) : q[i] # s
    BY ZenonT(60), <1>1 DEF Agrees
  <1> HIDE DEF r
  <1>3. ASSUME NEW i \in DOMAIN r, NEW j \in DOMAIN r, r[i] = r[j] PROVE i = j
    BY SMTT(90), <1>1, <1>2, <1>3 DEF Agrees
  <1>4. ASSUME NEW x \in RaftServer PROVE x \in set \cup {s} <=> \E i \in DOMAIN r : r[i] = x
    BY SMTT(90), <1>1, <1>2 DEF Agrees
  <1> QED BY ZenonT(60), <1>1, <1>3, <1>4 DEF Agrees, r

\* pop_front.
LEMMA TailAgrees ==
    ASSUME NEW q \in Seq(RaftServer), NEW set \in SUBSET RaftServer, Agrees(q, set), q # <<>>
    PROVE  /\ Head(q) \in RaftServer
           /\ Tail(q) \in Seq(RaftServer)
           /\ Agrees(Tail(q), set \ {Head(q)})
  <1> DEFINE r == Tail(q)
  <1>1. /\ Len(q) \in Nat \ {0}
        /\ DOMAIN q = 1 .. Len(q)
        /\ Head(q) = q[1] /\ q[1] \in RaftServer
        /\ r \in Seq(RaftServer)
        /\ DOMAIN r = 1 .. Len(q) - 1
        /\ \A i \in 1 .. Len(q) - 1 : r[i] = q[i + 1]
    BY SMTT(90)
  <1> HIDE DEF r
  <1>2. ASSUME NEW i \in DOMAIN r, NEW j \in DOMAIN r, r[i] = r[j] PROVE i = j
    <2>1. i + 1 \in DOMAIN q /\ j + 1 \in DOMAIN q /\ q[i + 1] = q[j + 1]
      BY SMTT(90), <1>1, <1>2
    <2> QED BY SMTT(90), <1>1, <2>1 DEF Agrees
  <1>3. ASSUME NEW x \in RaftServer
        PROVE  x \in set \ {Head(q)} <=> \E i \in DOMAIN r : r[i] = x
    <2>1. ASSUME NEW i \in DOMAIN r, r[i] = x PROVE x \in set /\ x # Head(q)
      <3>1. i + 1 \in DOMAIN q /\ q[i + 1] = x /\ i + 1 # 1 /\ 1 \in DOMAIN q
        BY SMTT(90), <1>1, <2>1
      <3> QED BY ZenonT(60), <1>1, <3>1 DEF Agrees
    <2>2. ASSUME x \in set, x # Head(q) PROVE \E i \in DOMAIN r : r[i] = x
      <3>1. PICK i \in DOMAIN q : q[i] = x
        BY ZenonT(60), <2>2 DEF Agrees
      <3>2. i - 1 \in DOMAIN r /\ r[i - 1] = x
        BY SMTT(90), <1>1, <2>2, <3>1
      <3> QED BY ZenonT(60), <3>2
    <2> QED BY ZenonT(60), <2>1, <2>2
  <1> QED BY ZenonT(60), <1>1, <1>2, <1>3 DEF Agrees, r

\* close_raft_server erases the only occurrence.
LEMMA EraseAgrees ==
    ASSUME NEW q \in Seq(RaftServer), NEW set \in SUBSET RaftServer, Agrees(q, set),
           NEW s \in RaftServer
    PROVE  /\ Erase(q, s) \in Seq(RaftServer)
           /\ Agrees(Erase(q, s), set \ {s})
  <1>1. CASE ~ \E k \in DOMAIN q : q[k] = s
    <2>1. Erase(q, s) = q /\ set \ {s} = set
      BY ZenonT(60), <1>1 DEF Erase, Agrees
    <2> QED BY ZenonT(60), <2>1
  <1>2. CASE \E k \in DOMAIN q : q[k] = s
    <2> DEFINE P(k) == q[k] = s /\ \A j \in 1 .. k - 1 : q[j] # s
               p == CHOOSE k \in DOMAIN q : P(k)
               r == [k \in 1 .. Len(q) - 1 |-> IF k < p THEN q[k] ELSE q[k + 1]]
    <2>1. Len(q) \in Nat /\ DOMAIN q = 1 .. Len(q) /\ \A k \in DOMAIN q : q[k] \in RaftServer
      BY SMTT(90)
    <2>2. \E k \in DOMAIN q : P(k)
      <3>1. PICK k \in DOMAIN q : q[k] = s
        BY ZenonT(60), <1>2
      <3>2. \A j \in 1 .. k - 1 : q[j] # s
        BY SMTT(90), <2>1, <3>1 DEF Agrees
      <3> QED BY ZenonT(60), <3>1, <3>2
    <2>3. p \in DOMAIN q /\ q[p] = s
      BY ZenonT(90), <2>2
    <2>4. Erase(q, s) = r
      BY ZenonT(60), <1>2 DEF Erase
    <2> HIDE DEF P, p
    <2>5. r \in Seq(RaftServer) /\ DOMAIN r = 1 .. Len(q) - 1
      BY SMTT(90), <2>1, <2>3
    <2>6. \A k \in 1 .. Len(q) - 1 : r[k] = q[IF k < p THEN k ELSE k + 1]
      BY ZenonT(60), <2>1
    <2> HIDE DEF r
    <2>7. ASSUME NEW i \in DOMAIN r, NEW j \in DOMAIN r, r[i] = r[j] PROVE i = j
      BY SMTT(90), <2>1, <2>3, <2>5, <2>6, <2>7 DEF Agrees
    <2>8. ASSUME NEW x \in RaftServer PROVE x \in set \ {s} <=> \E i \in DOMAIN r : r[i] = x
      <3>1. ASSUME NEW i \in DOMAIN r, r[i] = x PROVE x \in set /\ x # s
        BY SMTT(90), <2>1, <2>3, <2>5, <2>6, <3>1 DEF Agrees
      <3>2. ASSUME x \in set, x # s PROVE \E i \in DOMAIN r : r[i] = x
        <4>1. PICK k \in DOMAIN q : q[k] = x
          BY ZenonT(60), <3>2 DEF Agrees
        <4>2. k # p
          BY ZenonT(60), <2>3, <3>2, <4>1
        <4> DEFINE i == IF k < p THEN k ELSE k - 1
        <4>3. i \in DOMAIN r /\ r[i] = x
          BY SMTT(90), <2>1, <2>3, <2>5, <2>6, <4>1, <4>2
        <4> QED BY ZenonT(60), <4>3
      <3> QED BY ZenonT(60), <3>1, <3>2
    <2> QED BY ZenonT(60), <2>4, <2>5, <2>7, <2>8 DEF Agrees
  <1> QED BY ZenonT(60), <1>1, <1>2

-----------------------------------------------------------------------------
(* Lemmas about the invariant.                                             *)

\* The invariant in parts: the queues, ...
PoolPart ==
    /\ queue \in [Kind -> Seq(RaftServer)]
    /\ server_set \in [Kind -> SUBSET RaftServer]
    /\ \A k \in Kind : Agrees(queue[k], server_set[k])

\* ... what the threads do, ...
CallPart ==
    /\ pc \in [Thread -> PcValue]
    /\ target \in [Thread -> RaftServer \cup {None}]
    /\ kind \in [Thread -> Kind]
    /\ scan \in [Thread -> Nat \ {0}]
    /\ TargetKnown

\* ... the types of what no other part speaks of, ...
RestPart ==
    /\ status \in [Worker -> {"SLEEPING", "WORKING"}]
    /\ invoked \in [Worker -> BOOLEAN]
    /\ stopping \subseteq Worker
    /\ sm_commit_paused \in [RaftServer -> BOOLEAN]
    /\ unsent \subseteq RaftServer
    /\ closed \subseteq RaftServer
    /\ budget \in [commits : Nat, appends : Nat, pauses : Nat, closes : Nat]

\* ... and the state machines.
ExecPart ==
    /\ quick_commit_index \in [RaftServer -> Nat]
    /\ sm_commit_index \in [RaftServer -> Nat]
    /\ commit_lock \in [RaftServer -> Worker \cup {None}]
    /\ executed \in [RaftServer -> Seq(Nat)]
    /\ LockOwned /\ ExecutedInOrder /\ ExecutedIsCommitted

LEMMA Parts == PoolInv <=> PoolPart /\ CallPart /\ RestPart /\ ExecPart
  BY ZenonT(60) DEF PoolInv, TypeOK, QueueAgrees, Agrees, PoolPart, CallPart, RestPart, ExecPart

LEMMA PartsNext == PoolInv' <=> PoolPart' /\ CallPart' /\ RestPart' /\ ExecPart'
  BY ZenonT(60) DEF PoolInv, TypeOK, QueueAgrees, Agrees, PoolPart, CallPart, RestPart, ExecPart

LEMMA SamePool == ASSUME PoolPart, UNCHANGED poolVars PROVE PoolPart'
  BY ZenonT(60) DEF PoolPart, Agrees, poolVars

LEMMA SameRest ==
    ASSUME RestPart, UNCHANGED <<workerVars, sm_commit_paused, unsent, closed, budget>>
    PROVE  RestPart'
  BY ZenonT(60) DEF RestPart, workerVars

\* The queue of one kind changes and still agrees with its set.
LEMMA QueueStep ==
    ASSUME PoolPart, NEW k \in Kind, NEW q \in Seq(RaftServer),
           NEW set \in SUBSET RaftServer, Agrees(q, set),
           queue' = [queue EXCEPT ![k] = q], server_set' = [server_set EXCEPT ![k] = set]
    PROVE  PoolPart'
  <1>1. /\ queue' \in [Kind -> Seq(RaftServer)]
        /\ server_set' \in [Kind -> SUBSET RaftServer]
    BY ZenonT(60) DEF PoolPart
  <1>2. ASSUME NEW l \in Kind PROVE Agrees(queue'[l], server_set'[l])
    <2>1. CASE l = k
      <3>1. queue'[l] = q /\ server_set'[l] = set
        BY ZenonT(60), <2>1 DEF PoolPart
      <3> QED BY ZenonT(60), <3>1 DEF Agrees
    <2>2. CASE l # k
      <3>1. queue'[l] = queue[l] /\ server_set'[l] = server_set[l]
        BY ZenonT(60), <2>2 DEF PoolPart
      <3>2. Agrees(queue[l], server_set[l])
        BY ZenonT(60) DEF PoolPart
      <3> QED BY SMTT(90), <3>1, <3>2 DEF Agrees
    <2> QED BY ZenonT(60), <2>1, <2>2
  <1>3. \A l \in Kind : Agrees(queue[l], server_set[l])'
    BY ZenonT(60), <1>2 DEF Agrees
  <1> QED BY ZenonT(60), <1>1, <1>3 DEF PoolPart

\* Where a thread has a server to work for.
Busy == {"push", "scan", "close", "send", "check", "try_lock"} \cup Section

\* Thread t moves, to a step outside commit_in_bg_exec or, a worker, inside.
Moves(t) ==
    /\ pc' \in [Thread -> PcValue]
    /\ target' \in [Thread -> RaftServer \cup {None}]
    /\ kind' \in [Thread -> Kind]
    /\ scan' \in [Thread -> Nat \ {0}]
    /\ pc'[t] \in Busy => target'[t] \in RaftServer
    /\ pc'[t] \in Section => t \in Worker
    /\ \A v \in Thread \ {t} : pc'[v] = pc[v] /\ target'[v] = target[v]

LEMMA CallStep == ASSUME CallPart, NEW t \in Thread, Moves(t) PROVE CallPart'
  <1>1. TargetKnown'
    BY ZenonT(60) DEF CallPart, TargetKnown, Moves, Busy
  <1> QED BY ZenonT(60), <1>1 DEF CallPart, Moves

\* The end of a call.
LEMMA DoneCall ==
    ASSUME CallPart, NEW t \in Thread, Done(t)
    PROVE  Moves(t) /\ pc'[t] \notin Section
  BY SMTT(90) DEF CallPart, Done, PcBecomes, Moves, Busy, Section, Kind, PcValue

\* The beginning of a request.
LEMMA CallCall ==
    ASSUME CallPart, NEW t \in Thread, NEW s \in RaftServer, NEW k \in Kind, CallRequest(t, k, s)
    PROVE  Moves(t) /\ pc'[t] \notin Section
  BY SMTT(90), PoolAssumption
     DEF CallPart, CallRequest, PcBecomes, Moves, Busy, Section, Kind, FirstOf, PcValue

\* Another step of a thread that keeps what it works for.
LEMMA PcCall ==
    ASSUME CallPart, NEW t \in Thread, NEW p \in PcValue, PcBecomes(t, p), UNCHANGED callVars,
           p \in Busy => target[t] \in RaftServer,
           p \in Section => t \in Worker
    PROVE  Moves(t) /\ pc'[t] = p
  BY ZenonT(60) DEF CallPart, PcBecomes, callVars, Moves

\* The same, outside commit_in_bg_exec.
LEMMA PcOutside ==
    ASSUME CallPart, NEW t \in Thread, NEW p \in PcValue \ Section, PcBecomes(t, p),
           UNCHANGED callVars, p \in Busy => target[t] \in RaftServer
    PROVE  Moves(t) /\ pc'[t] \notin Section
  BY ZenonT(60), PcCall

LEMMA OutsideValues ==
    {"idle", "push", "scan", "close", "top", "wait", "woken", "pop", "send", "check",
     "try_lock", "stopped"} \subseteq PcValue \ Section
  BY ZenonT(60) DEF PcValue, Section

LEMMA NotBusyValues == {"idle", "top", "wait", "woken", "pop", "stopped"} \cap Busy = {}
  BY ZenonT(60) DEF Busy, Section

\* A step outside commit_in_bg_exec, in which at most quick_commit_index_ grows.
LEMMA OutsideStep ==
    ASSUME ExecPart, NEW t \in Thread, Moves(t),
           pc[t] \notin Section, pc'[t] \notin Section,
           UNCHANGED <<commit_lock, executed, sm_commit_index>>,
           quick_commit_index' \in [RaftServer -> Nat],
           \A s \in RaftServer : quick_commit_index'[s] >= quick_commit_index[s]
    PROVE  ExecPart'
  <1>1. ASSUME NEW w \in Worker, NEW s \in RaftServer
        PROVE  /\ Inside(w, s)' <=> Inside(w, s)
               /\ pc'[w] = "advance" /\ target'[w] = s <=> pc[w] = "advance" /\ target[w] = s
               /\ pc'[w] = "exec" /\ target'[w] = s <=> pc[w] = "exec" /\ target[w] = s
    BY ZenonT(60) DEF Inside, Moves, Section, Thread
  <1>2. LockOwned'
    BY ZenonT(60), <1>1 DEF ExecPart, LockOwned
  <1>3. ASSUME NEW s \in RaftServer PROVE Advancing(s)' <=> Advancing(s)
    BY ZenonT(60), <1>1 DEF Advancing
  <1>4. ExecutedInOrder'
    BY ZenonT(60), <1>3 DEF ExecPart, ExecutedInOrder
  <1>5. ExecutedIsCommitted'
    <2>1. ASSUME NEW s \in RaftServer PROVE Len(executed[s]) \in Nat
      BY SMTT(90) DEF ExecPart
    <2>2. ASSUME NEW s \in RaftServer
          PROVE  /\ quick_commit_index[s] \in Nat /\ sm_commit_index[s] \in Nat
                 /\ quick_commit_index'[s] \in Nat
      BY ZenonT(60) DEF ExecPart
    <2> QED BY SMTT(90), <1>1, <2>1, <2>2 DEF ExecPart, ExecutedIsCommitted
  <1> QED BY ZenonT(60), <1>2, <1>4, <1>5 DEF ExecPart

\* The same, when quick_commit_index_ is left alone too.
LEMMA QuietStep ==
    ASSUME ExecPart, NEW t \in Thread, Moves(t),
           pc[t] \notin Section, pc'[t] \notin Section,
           UNCHANGED <<quick_commit_index, sm_commit_index, commit_lock, executed>>
    PROVE  ExecPart'
  <1>1. \A s \in RaftServer : quick_commit_index'[s] >= quick_commit_index[s]
    BY SMTT(90) DEF ExecPart
  <1> QED BY ZenonT(60), <1>1, OutsideStep DEF ExecPart

\* The worker that is inside has the server for itself.
LEMMA Alone ==
    ASSUME LockOwned, NEW v \in Worker, NEW w \in Worker, NEW s \in RaftServer,
           Inside(v, s), Inside(w, s)
    PROVE  v = w
  BY ZenonT(60) DEF LockOwned

-----------------------------------------------------------------------------
(* The steps outside commit_in_bg_exec.                                    *)

LEMMA PushInv ==
    ASSUME PoolInv, NEW t \in Thread, Push(t) PROVE PoolInv'
  <1> DEFINE k == kind[t]
             s == target[t]
  <1>1. /\ PoolPart /\ CallPart /\ RestPart /\ ExecPart
        /\ pc[t] = "push"
        /\ UNCHANGED <<workerVars, serverVars>>
    BY ZenonT(60), Parts DEF Push
  <1>2. k \in Kind /\ s \in RaftServer /\ pc[t] \notin Section
    BY ZenonT(60), <1>1 DEF CallPart, TargetKnown, Section
  <1>3. CASE s \in server_set[k]
    <2>1. Done(t) /\ UNCHANGED poolVars
      BY ZenonT(60), <1>3 DEF Push
    <2>2. Moves(t) /\ pc'[t] \notin Section
      BY ZenonT(60), <1>1, <2>1, DoneCall
    <2> QED BY ZenonT(60), <1>1, <1>2, <2>1, <2>2, SamePool, SameRest, CallStep, QuietStep, PartsNext
            DEF serverVars
  <1>4. CASE s \notin server_set[k]
    <2>1. /\ queue' = [queue EXCEPT ![k] = Append(queue[k], s)]
          /\ server_set' = [server_set EXCEPT ![k] = server_set[k] \cup {s}]
          /\ PcBecomes(t, "scan") /\ UNCHANGED callVars
      BY ZenonT(60), <1>4 DEF Push
    <2>2. PoolPart'
      <3>1. /\ Append(queue[k], s) \in Seq(RaftServer)
            /\ Agrees(Append(queue[k], s), server_set[k] \cup {s})
        BY ZenonT(60), <1>1, <1>2, <1>4, AppendAgrees DEF PoolPart
      <3>2. server_set[k] \cup {s} \in SUBSET RaftServer
        BY ZenonT(60), <1>1, <1>2 DEF PoolPart
      <3> HIDE DEF k, s
      <3> QED BY ZenonT(60), <1>1, <1>2, <2>1, <3>1, <3>2, QueueStep
    <2>3. Moves(t) /\ pc'[t] \notin Section
      BY ZenonT(60), <1>1, <1>2, <2>1, PcOutside, OutsideValues
    <2> QED BY ZenonT(60), <1>1, <1>2, <2>2, <2>3, SameRest, CallStep, QuietStep, PartsNext
            DEF serverVars
  <1> QED BY ZenonT(60), <1>3, <1>4

LEMMA ScanInv ==
    ASSUME PoolInv, NEW t \in Thread, Scan(t) PROVE PoolInv'
  <1>1. /\ PoolPart /\ CallPart /\ RestPart /\ ExecPart
        /\ pc[t] = "scan"
        /\ UNCHANGED <<poolVars, status, stopping, serverVars>>
    BY ZenonT(60), Parts DEF Scan
  <1>2. pc[t] \notin Section
    BY ZenonT(60), <1>1, OutsideValues
  <1>3. invoked' \in [Worker -> BOOLEAN]
    BY ZenonT(60), <1>1 DEF Scan, RestPart
  <1>4. RestPart'
    BY ZenonT(60), <1>1, <1>3 DEF RestPart, serverVars
  <1>5. Moves(t) /\ pc'[t] \notin Section
    <2>1. CASE Done(t)
      BY ZenonT(60), <1>1, <2>1, DoneCall
    <2>2. CASE scan' = [scan EXCEPT ![t] = scan[t] + 1] /\ UNCHANGED <<pc, target, kind>>
      <3>1. scan' \in [Thread -> Nat \ {0}]
        BY SMTT(90), <1>1, <2>2 DEF CallPart
      <3>2. target[t] \in RaftServer
        BY ZenonT(60), <1>1 DEF CallPart, TargetKnown
      <3> QED BY ZenonT(60), <1>1, <1>2, <2>2, <3>1, <3>2 DEF CallPart, Moves
    <2> QED BY ZenonT(60), <2>1, <2>2 DEF Scan
  <1> QED BY ZenonT(60), <1>1, <1>2, <1>4, <1>5, SamePool, CallStep, QuietStep, PartsNext
          DEF serverVars

LEMMA RequestInv ==
    ASSUME PoolInv, NEW t \in Thread, Request(t) PROVE PoolInv'
  BY ZenonT(60), PushInv, ScanInv DEF Request

LEMMA CommitInv ==
    ASSUME PoolInv, NEW s \in RaftServer, Commit(s) PROVE PoolInv'
  <1>1. /\ PoolPart /\ CallPart /\ RestPart /\ ExecPart
        /\ pc[s] = "idle" /\ s \in Thread
        /\ CallRequest(s, "commit", s)
        /\ UNCHANGED <<poolVars, workerVars, sm_commit_index, commit_lock, sm_commit_paused,
                       executed, unsent, closed>>
    BY ZenonT(60), Parts DEF Commit, Thread
  <1>2. pc[s] \notin Section
    BY ZenonT(60), <1>1, OutsideValues
  <1>3. Moves(s) /\ pc'[s] \notin Section
    BY ZenonT(60), <1>1, CallCall DEF Kind
  <1>4. budget' \in [commits : Nat, appends : Nat, pauses : Nat, closes : Nat]
    BY SMTT(90), <1>1 DEF RestPart, Commit
  <1>5. RestPart'
    BY ZenonT(60), <1>1, <1>4 DEF RestPart, workerVars
  <1>6. /\ quick_commit_index' \in [RaftServer -> Nat]
        /\ \A x \in RaftServer : quick_commit_index'[x] >= quick_commit_index[x]
    BY SMTT(90), <1>1 DEF ExecPart, Commit
  <1> QED BY ZenonT(60), <1>1, <1>2, <1>3, <1>5, <1>6, SamePool, CallStep, OutsideStep, PartsNext

LEMMA CommitAgainInv ==
    ASSUME PoolInv, NEW s \in RaftServer, CommitAgain(s) PROVE PoolInv'
  <1>1. /\ PoolPart /\ CallPart /\ RestPart /\ ExecPart
        /\ pc[s] = "idle" /\ s \in Thread
        /\ CallRequest(s, "commit", s)
        /\ UNCHANGED <<poolVars, workerVars, serverVars>>
    BY ZenonT(60), Parts DEF CommitAgain, Thread
  <1>2. pc[s] \notin Section
    BY ZenonT(60), <1>1, OutsideValues
  <1>3. Moves(s) /\ pc'[s] \notin Section
    BY ZenonT(60), <1>1, CallCall DEF Kind
  <1> QED BY ZenonT(60), <1>1, <1>2, <1>3, SamePool, SameRest, CallStep, QuietStep, PartsNext
          DEF serverVars

LEMMA AppendForAllInv ==
    ASSUME PoolInv, NEW s \in RaftServer, AppendForAll(s) PROVE PoolInv'
  <1>1. /\ PoolPart /\ CallPart /\ RestPart /\ ExecPart
        /\ pc[s] = "idle" /\ s \in Thread
        /\ CallRequest(s, "append", s)
        /\ unsent' = unsent \cup {s}
        /\ UNCHANGED <<poolVars, workerVars, quick_commit_index, sm_commit_index, commit_lock,
                       sm_commit_paused, executed, closed>>
    BY ZenonT(60), Parts DEF AppendForAll, Thread
  <1>2. pc[s] \notin Section
    BY ZenonT(60), <1>1, OutsideValues
  <1>3. Moves(s) /\ pc'[s] \notin Section
    BY ZenonT(60), <1>1, CallCall DEF Kind
  <1>4. budget' \in [commits : Nat, appends : Nat, pauses : Nat, closes : Nat]
    BY SMTT(90), <1>1 DEF RestPart, AppendForAll
  <1>5. RestPart'
    BY ZenonT(60), <1>1, <1>4 DEF RestPart, workerVars
  <1> QED BY ZenonT(60), <1>1, <1>2, <1>3, <1>5, SamePool, CallStep, QuietStep, PartsNext

LEMMA PauseInv ==
    ASSUME PoolInv, NEW u \in User, NEW s \in RaftServer, Pause(u, s) PROVE PoolInv'
  <1>1. /\ PoolPart /\ CallPart /\ RestPart /\ ExecPart
        /\ pc[u] = "idle" /\ u \in Thread
        /\ sm_commit_paused' = [sm_commit_paused EXCEPT ![s] = TRUE]
        /\ UNCHANGED <<poolVars, pc, callVars, workerVars, quick_commit_index, sm_commit_index,
                       commit_lock, executed, unsent, closed>>
    BY ZenonT(60), Parts DEF Pause, Thread
  <1>2. pc[u] \notin Section /\ pc[u] \notin Busy
    BY ZenonT(60), <1>1, OutsideValues, NotBusyValues
  <1>3. Moves(u) /\ pc'[u] \notin Section
    BY ZenonT(60), <1>1, <1>2 DEF CallPart, Moves, callVars
  <1>4. budget' \in [commits : Nat, appends : Nat, pauses : Nat, closes : Nat]
    BY SMTT(90), <1>1 DEF RestPart, Pause
  <1>5. RestPart'
    BY ZenonT(60), <1>1, <1>4 DEF RestPart, workerVars
  <1> QED BY ZenonT(60), <1>1, <1>2, <1>3, <1>5, SamePool, CallStep, QuietStep, PartsNext

LEMMA ResumeInv ==
    ASSUME PoolInv, NEW u \in User, NEW s \in RaftServer, Resume(u, s) PROVE PoolInv'
  <1>1. /\ PoolPart /\ CallPart /\ RestPart /\ ExecPart
        /\ pc[u] = "idle" /\ u \in Thread
        /\ sm_commit_paused' = [sm_commit_paused EXCEPT ![s] = FALSE]
        /\ CallRequest(u, "commit", s)
        /\ UNCHANGED <<poolVars, workerVars, quick_commit_index, sm_commit_index, commit_lock,
                       executed, unsent, closed, budget>>
    BY ZenonT(60), Parts DEF Resume, Thread
  <1>2. pc[u] \notin Section
    BY ZenonT(60), <1>1, OutsideValues
  <1>3. Moves(u) /\ pc'[u] \notin Section
    BY ZenonT(60), <1>1, CallCall DEF Kind
  <1>4. RestPart'
    BY ZenonT(60), <1>1 DEF RestPart, workerVars
  <1> QED BY ZenonT(60), <1>1, <1>2, <1>3, <1>4, SamePool, CallStep, QuietStep, PartsNext

\* close_raft_server on one of the queues.
LEMMA TakeOffStep ==
    ASSUME PoolPart, NEW k \in Kind, NEW s \in RaftServer, TakeOff(k, s) PROVE PoolPart'
  <1>1. /\ Erase(queue[k], s) \in Seq(RaftServer)
        /\ Agrees(Erase(queue[k], s), server_set[k] \ {s})
    BY ZenonT(60), EraseAgrees DEF PoolPart
  <1>2. server_set[k] \ {s} \in SUBSET RaftServer
    BY ZenonT(60) DEF PoolPart
  <1>3. /\ queue' = [queue EXCEPT ![k] = Erase(queue[k], s)]
        /\ server_set' = [server_set EXCEPT ![k] = server_set[k] \ {s}]
    BY ZenonT(60) DEF TakeOff
  <1> QED BY ZenonT(60), <1>1, <1>2, <1>3, QueueStep

LEMMA CloseAppendInv ==
    ASSUME PoolInv, NEW u \in User, NEW s \in RaftServer, CloseAppend(u, s) PROVE PoolInv'
  <1>1. /\ PoolPart /\ CallPart /\ RestPart /\ ExecPart
        /\ pc[u] = "idle" /\ u \in Thread
        /\ closed' = closed \cup {s}
        /\ TakeOff("append", s)
        /\ target' = [target EXCEPT ![u] = s]
        /\ PcBecomes(u, "close")
        /\ UNCHANGED <<kind, scan, workerVars, quick_commit_index, sm_commit_index,
                       commit_lock, sm_commit_paused, executed, unsent>>
    BY ZenonT(60), Parts DEF CloseAppend, Thread
  <1>2. pc[u] \notin Section
    BY ZenonT(60), <1>1, OutsideValues
  <1>3. Moves(u) /\ pc'[u] \notin Section
    <2>1. "close" \in PcValue /\ "close" \notin Section
      BY ZenonT(60), OutsideValues
    <2> QED BY ZenonT(60), <1>1, <2>1 DEF CallPart, Moves, PcBecomes
  <1>4. budget' \in [commits : Nat, appends : Nat, pauses : Nat, closes : Nat]
    BY SMTT(90), <1>1 DEF RestPart, CloseAppend
  <1>5. RestPart'
    BY ZenonT(60), <1>1, <1>4 DEF RestPart, workerVars
  <1> QED BY ZenonT(60), <1>1, <1>2, <1>3, <1>5, TakeOffStep, CallStep, QuietStep, PartsNext DEF Kind

LEMMA CloseCommitInv ==
    ASSUME PoolInv, NEW u \in User, CloseCommit(u) PROVE PoolInv'
  <1>1. /\ PoolPart /\ CallPart /\ RestPart /\ ExecPart
        /\ pc[u] = "close" /\ u \in Thread
        /\ TakeOff("commit", target[u])
        /\ Done(u)
        /\ UNCHANGED <<workerVars, serverVars>>
    BY ZenonT(60), Parts DEF CloseCommit, Thread
  <1>2. pc[u] \notin Section
    BY ZenonT(60), <1>1, OutsideValues
  <1>3. Moves(u) /\ pc'[u] \notin Section
    BY ZenonT(60), <1>1, DoneCall
  <1>4. target[u] \in RaftServer
    BY ZenonT(60), <1>1 DEF CallPart, TargetKnown
  <1> QED BY ZenonT(60), <1>1, <1>2, <1>3, <1>4, TakeOffStep, SameRest, CallStep, QuietStep, PartsNext
          DEF Kind, serverVars

LEMMA StopWorkerInv ==
    ASSUME PoolInv, NEW w \in Worker, StopWorker(w) PROVE PoolInv'
  <1>1. /\ PoolPart /\ CallPart /\ RestPart /\ ExecPart
        /\ stopping' = stopping \cup {w}
        /\ invoked' = [invoked EXCEPT ![w] = TRUE]
        /\ UNCHANGED <<poolVars, pc, callVars, status, serverVars>>
    BY ZenonT(60), Parts DEF StopWorker
  <1>2. RestPart'
    BY ZenonT(60), <1>1 DEF RestPart, serverVars
  <1>3. CallPart'
    BY ZenonT(60), <1>1 DEF CallPart, TargetKnown, callVars
  <1>4. ExecPart'
    BY ZenonT(60), <1>1 DEF ExecPart, LockOwned, Inside, ExecutedInOrder, Advancing,
                       ExecutedIsCommitted, callVars, serverVars
  <1> QED BY ZenonT(60), <1>1, <1>2, <1>3, <1>4, SamePool, PartsNext

LEMMA TopInv ==
    ASSUME PoolInv, NEW w \in Worker, Top(w) PROVE PoolInv'
  <1>1. /\ PoolPart /\ CallPart /\ RestPart /\ ExecPart
        /\ pc[w] = "top" /\ w \in Thread
        /\ UNCHANGED <<poolVars, callVars, invoked, stopping, serverVars>>
        /\ PcBecomes(w, "stopped") \/ PcBecomes(w, "wait")
        /\ UNCHANGED status \/ status' = [status EXCEPT ![w] = "SLEEPING"]
    BY ZenonT(60), Parts DEF Top, Thread
  <1>2. pc[w] \notin Section
    BY ZenonT(60), <1>1, OutsideValues
  <1>3. Moves(w) /\ pc'[w] \notin Section
    BY ZenonT(60), <1>1, PcOutside, OutsideValues, NotBusyValues
  <1>4. RestPart'
    BY ZenonT(60), <1>1 DEF RestPart, serverVars
  <1> QED BY ZenonT(60), <1>1, <1>2, <1>3, <1>4, SamePool, CallStep, QuietStep, PartsNext DEF serverVars

LEMMA WakeInv ==
    ASSUME PoolInv, NEW w \in Worker, Wake(w) PROVE PoolInv'
  <1>1. /\ PoolPart /\ CallPart /\ RestPart /\ ExecPart
        /\ pc[w] = "wait" /\ w \in Thread
        /\ PcBecomes(w, "woken")
        /\ invoked' = [invoked EXCEPT ![w] = FALSE]
        /\ UNCHANGED <<poolVars, callVars, status, stopping, serverVars>>
    BY ZenonT(60), Parts DEF Wake, Thread
  <1>2. pc[w] \notin Section
    BY ZenonT(60), <1>1, OutsideValues
  <1>3. Moves(w) /\ pc'[w] \notin Section
    BY ZenonT(60), <1>1, PcOutside, OutsideValues, NotBusyValues
  <1>4. RestPart'
    BY ZenonT(60), <1>1 DEF RestPart, serverVars
  <1> QED BY ZenonT(60), <1>1, <1>2, <1>3, <1>4, SamePool, CallStep, QuietStep, PartsNext DEF serverVars

LEMMA WorkingInv ==
    ASSUME PoolInv, NEW w \in Worker, Working(w) PROVE PoolInv'
  <1>1. /\ PoolPart /\ CallPart /\ RestPart /\ ExecPart
        /\ pc[w] = "woken" /\ w \in Thread
        /\ PcBecomes(w, "stopped") \/ PcBecomes(w, "pop")
        /\ status' = [status EXCEPT ![w] = "WORKING"]
        /\ UNCHANGED <<poolVars, callVars, invoked, stopping, serverVars>>
    BY ZenonT(60), Parts DEF Working, Thread
  <1>2. pc[w] \notin Section
    BY ZenonT(60), <1>1, OutsideValues
  <1>3. Moves(w) /\ pc'[w] \notin Section
    BY ZenonT(60), <1>1, PcOutside, OutsideValues, NotBusyValues
  <1>4. RestPart'
    BY ZenonT(60), <1>1 DEF RestPart, serverVars
  <1> QED BY ZenonT(60), <1>1, <1>2, <1>3, <1>4, SamePool, CallStep, QuietStep, PartsNext DEF serverVars

LEMMA PopInv ==
    ASSUME PoolInv, NEW w \in Worker, Pop(w) PROVE PoolInv'
  <1> DEFINE k == KindOf(w)
             q == queue[k]
  <1>1. /\ PoolPart /\ CallPart /\ RestPart /\ ExecPart
        /\ pc[w] = "pop" /\ w \in Thread
        /\ UNCHANGED <<kind, scan, workerVars, serverVars>>
    BY ZenonT(60), Parts DEF Pop, Thread
  <1>2. pc[w] \notin Section /\ k \in Kind
    BY ZenonT(60), <1>1, OutsideValues DEF KindOf, Kind
  <1>3. CASE q = <<>>
    <2>1. PcBecomes(w, "top") /\ UNCHANGED <<poolVars, target>>
      BY ZenonT(60), <1>3 DEF Pop
    <2>2. Moves(w) /\ pc'[w] \notin Section
      BY ZenonT(60), <1>1, <2>1, PcOutside, OutsideValues, NotBusyValues DEF callVars
    <2> QED BY ZenonT(60), <1>1, <1>2, <2>1, <2>2, SamePool, SameRest, CallStep, QuietStep, PartsNext
            DEF serverVars
  <1>4. CASE q # <<>>
    <2>1. /\ queue' = [queue EXCEPT ![k] = Tail(q)]
          /\ server_set' = [server_set EXCEPT ![k] = server_set[k] \ {Head(q)}]
          /\ target' = [target EXCEPT ![w] = Head(q)]
          /\ PcBecomes(w, "check") \/ PcBecomes(w, "send")
      BY ZenonT(60), <1>4 DEF Pop
    <2>2. /\ Head(q) \in RaftServer
          /\ Tail(q) \in Seq(RaftServer)
          /\ Agrees(Tail(q), server_set[k] \ {Head(q)})
      BY ZenonT(60), <1>1, <1>2, <1>4, TailAgrees DEF PoolPart
    <2>3. PoolPart'
      <3>1. server_set[k] \ {Head(q)} \in SUBSET RaftServer
        BY ZenonT(60), <1>1, <1>2 DEF PoolPart
      <3> HIDE DEF k, q
      <3> QED BY ZenonT(60), <1>1, <1>2, <2>1, <2>2, <3>1, QueueStep
    <2>4. Moves(w) /\ pc'[w] \notin Section
      <3>1. {"check", "send"} \subseteq PcValue \ Section
        BY ZenonT(60), OutsideValues
      <3> HIDE DEF k, q
      <3> QED BY ZenonT(60), <1>1, <2>1, <2>2, <3>1 DEF CallPart, Moves, PcBecomes
    <2> QED BY ZenonT(60), <1>1, <1>2, <2>3, <2>4, SameRest, CallStep, QuietStep, PartsNext
            DEF serverVars
  <1> QED BY ZenonT(60), <1>3, <1>4

LEMMA SendInv ==
    ASSUME PoolInv, NEW w \in Worker, Send(w) PROVE PoolInv'
  <1>1. /\ PoolPart /\ CallPart /\ RestPart /\ ExecPart
        /\ pc[w] = "send" /\ w \in Thread
        /\ Done(w)
        /\ unsent' = unsent \ {target[w]}
        /\ UNCHANGED <<poolVars, workerVars, quick_commit_index, sm_commit_index,
                       commit_lock, sm_commit_paused, executed, closed, budget>>
    BY ZenonT(60), Parts DEF Send, Thread
  <1>2. pc[w] \notin Section
    BY ZenonT(60), <1>1, OutsideValues
  <1>3. Moves(w) /\ pc'[w] \notin Section
    BY ZenonT(60), <1>1, DoneCall
  <1>4. RestPart'
    BY ZenonT(60), <1>1 DEF RestPart, workerVars
  <1> QED BY ZenonT(60), <1>1, <1>2, <1>3, <1>4, SamePool, CallStep, QuietStep, PartsNext

LEMMA CheckInv ==
    ASSUME PoolInv, NEW w \in Worker, Check(w) PROVE PoolInv'
  <1>1. /\ PoolPart /\ CallPart /\ RestPart /\ ExecPart
        /\ pc[w] = "check" /\ w \in Thread
        /\ UNCHANGED <<poolVars, workerVars, serverVars>>
    BY ZenonT(60), Parts DEF Check, Thread
  <1>0. Done(w) \/ (PcBecomes(w, "try_lock") /\ UNCHANGED callVars)
    BY ZenonT(60) DEF Check
  <1>2. pc[w] \notin Section /\ target[w] \in RaftServer
    BY ZenonT(60), <1>1, OutsideValues DEF CallPart, TargetKnown
  <1>3. Moves(w) /\ pc'[w] \notin Section
    BY ZenonT(60), <1>0, <1>1, <1>2, DoneCall, PcOutside, OutsideValues
  <1> QED BY ZenonT(60), <1>1, <1>2, <1>3, SamePool, SameRest, CallStep, QuietStep, PartsNext
          DEF serverVars

-----------------------------------------------------------------------------
(* commit_in_bg_exec.                                                      *)

\* A worker takes the lock of its server, which nobody has.
LEMMA TryLockInv ==
    ASSUME PoolInv, NEW w \in Worker, TryLock(w) PROVE PoolInv'
  <1> DEFINE s == target[w]
  <1>1. /\ PoolPart /\ CallPart /\ RestPart /\ ExecPart
        /\ pc[w] = "try_lock" /\ w \in Thread
        /\ UNCHANGED <<poolVars, workerVars, quick_commit_index, sm_commit_index,
                       sm_commit_paused, executed, unsent, closed, budget>>
    BY ZenonT(60), Parts DEF TryLock, Thread
  <1>2. pc[w] \notin Section /\ s \in RaftServer
    BY ZenonT(60), <1>1, OutsideValues DEF CallPart, TargetKnown
  <1>3. CASE commit_lock[s] # None
    <2>1. Done(w) /\ UNCHANGED commit_lock
      BY ZenonT(60), <1>3 DEF TryLock
    <2>2. Moves(w) /\ pc'[w] \notin Section
      BY ZenonT(60), <1>1, <2>1, DoneCall
    <2> QED BY ZenonT(60), <1>1, <1>2, <2>1, <2>2, SamePool, SameRest, CallStep, QuietStep, PartsNext
  <1>4. CASE commit_lock[s] = None
    <2>1. /\ commit_lock' = [commit_lock EXCEPT ![s] = w]
          /\ PcBecomes(w, "first_loop") /\ UNCHANGED callVars
      BY ZenonT(60), <1>4 DEF TryLock
    <2>2. "first_loop" \in PcValue
      BY ZenonT(60) DEF PcValue, Section
    <2>3. Moves(w) /\ pc'[w] = "first_loop" /\ target' = target
      BY ZenonT(60), <1>1, <1>2, <2>1, <2>2, PcCall DEF callVars
    <2>4. ASSUME NEW v \in Worker, NEW x \in RaftServer, v # w
          PROVE  pc'[v] = pc[v] /\ (Inside(v, x)' <=> Inside(v, x))
      BY ZenonT(60), <2>3, <2>4 DEF Moves, Inside, Thread
    <2>5. LockOwned'
      <3>1. ASSUME NEW v \in Worker, NEW x \in RaftServer, Inside(v, x)' PROVE commit_lock'[x] = v
        <4>1. CASE v = w
          BY ZenonT(60), <1>1, <1>2, <2>1, <2>3, <3>1, <4>1 DEF Inside, ExecPart
        <4>2. CASE v # w
          <5>1. commit_lock[x] = v /\ v # None
            BY ZenonT(60), <1>1, <2>4, <3>1, <4>2, PoolAssumption DEF ExecPart, LockOwned
          <5> QED BY ZenonT(60), <1>1, <1>4, <2>1, <5>1 DEF ExecPart
        <4> QED BY ZenonT(60), <4>1, <4>2
      <3> QED BY ZenonT(60), <3>1 DEF LockOwned
    <2>6. ASSUME NEW x \in RaftServer PROVE Advancing(x)' <=> Advancing(x)
      <3>1. pc[w] # "advance" /\ pc'[w] # "advance"
        BY ZenonT(60), <1>1, <2>3
      <3> QED BY ZenonT(60), <2>3, <2>4, <3>1 DEF Advancing
    <2>7. ExecutedInOrder'
      BY ZenonT(60), <1>1, <2>6 DEF ExecPart, ExecutedInOrder
    <2>8. ExecutedIsCommitted'
      <3>1. pc'[w] # "exec"
        BY ZenonT(60), <2>3
      <3> QED BY ZenonT(60), <1>1, <2>3, <2>4, <3>1 DEF ExecPart, ExecutedIsCommitted
    <2>9. ExecPart'
      BY ZenonT(60), <1>1, <1>2, <2>1, <2>5, <2>7, <2>8 DEF ExecPart
    <2> QED BY ZenonT(60), <1>1, <2>3, <2>9, SamePool, SameRest, CallStep, PartsNext
  <1> QED BY ZenonT(60), <1>3, <1>4

\* What every step inside commit_in_bg_exec begins from.
LEMMA InsideFacts ==
    ASSUME PoolInv, NEW w \in Worker, pc[w] \in Section
    PROVE  /\ PoolPart /\ CallPart /\ RestPart /\ ExecPart
           /\ w \in Thread /\ target[w] \in RaftServer
           /\ commit_lock[target[w]] = w
           /\ \A v \in Worker : v # w => ~ Inside(v, target[w])
           /\ Len(executed[target[w]]) \in Nat
           /\ sm_commit_index[target[w]] \in Nat /\ quick_commit_index[target[w]] \in Nat
  <1>1. PoolPart /\ CallPart /\ RestPart /\ ExecPart
    BY ZenonT(60), Parts
  <1>2. w \in Thread /\ target[w] \in RaftServer
    BY ZenonT(60), <1>1 DEF CallPart, TargetKnown, Thread
  <1>3. Inside(w, target[w])
    BY ZenonT(60) DEF Inside
  <1>4. \A v \in Worker : v # w => ~ Inside(v, target[w])
    BY ZenonT(60), <1>1, <1>2, <1>3, Alone DEF ExecPart
  <1>5. commit_lock[target[w]] = w
    BY ZenonT(60), <1>1, <1>2, <1>3 DEF ExecPart, LockOwned
  <1>6. Len(executed[target[w]]) \in Nat
    BY SMTT(90), <1>1, <1>2 DEF ExecPart
  <1>7. sm_commit_index[target[w]] \in Nat /\ quick_commit_index[target[w]] \in Nat
    BY ZenonT(60), <1>1, <1>2 DEF ExecPart
  <1> QED BY ZenonT(60), <1>1, <1>2, <1>4, <1>5, <1>6, <1>7

\* A step inside: nothing changes for the other servers.
LEMMA OthersSame ==
    ASSUME NEW w \in Worker, Moves(w), target'[w] = target[w] \/ pc'[w] \notin Section
    PROVE  \A v \in Worker, x \in RaftServer : v # w \/ x # target[w] =>
              /\ Inside(v, x)' => Inside(v, x)
              /\ pc'[v] = "advance" /\ target'[v] = x <=> pc[v] = "advance" /\ target[v] = x
              /\ pc'[v] = "exec" /\ target'[v] = x => pc[v] = "exec" /\ target[v] = x
  BY ZenonT(60) DEF Moves, Inside, Section, Thread

LEMMA LoopInv ==
    ASSUME PoolInv, NEW w \in Worker, Loop(w) PROVE PoolInv'
  <1> DEFINE s == target[w]
  <1>1. /\ pc[w] \in Section /\ pc[w] # "advance"
        /\ UNCHANGED <<poolVars, callVars, workerVars, serverVars>>
    BY ZenonT(60) DEF Loop, Section
  <1>2. PICK p \in {"exec", "unlock", "unlock_late"} :
           PcBecomes(w, p) /\ (p = "exec" => sm_commit_index[s] < quick_commit_index[s])
    <2>1. sm_commit_index[s] \in Nat /\ quick_commit_index[s] \in Nat
      BY ZenonT(60), <1>1, InsideFacts
    <2> QED BY SMTT(90), <2>1 DEF Loop
  <1>3. p \in PcValue /\ p # "advance"
    BY ZenonT(60) DEF PcValue, Section
  <1>4. Moves(w) /\ pc'[w] = p /\ target' = target
    BY ZenonT(60), <1>1, <1>2, <1>3, PcCall, InsideFacts DEF callVars
  <1>5. LockOwned'
    <2>1. ASSUME NEW v \in Worker, NEW x \in RaftServer, Inside(v, x)' PROVE Inside(v, x)
      BY ZenonT(60), <1>1, <1>4, <2>1, OthersSame DEF Inside
    <2> QED BY ZenonT(60), <1>1, <2>1, InsideFacts DEF ExecPart, LockOwned, serverVars
  <1>6. ASSUME NEW x \in RaftServer PROVE Advancing(x)' <=> Advancing(x)
    <2>1. ASSUME NEW v \in Worker
          PROVE  pc'[v] = "advance" /\ target'[v] = x <=> pc[v] = "advance" /\ target[v] = x
      <3>1. CASE v = w
        BY ZenonT(60), <1>1, <1>3, <1>4, <3>1
      <3>2. CASE v # w
        BY ZenonT(60), <1>4, <3>2, OthersSame
      <3> QED BY ZenonT(60), <3>1, <3>2
    <2> QED BY ZenonT(60), <2>1 DEF Advancing
  <1>7. ExecutedInOrder'
    BY ZenonT(60), <1>1, <1>6, InsideFacts DEF ExecPart, ExecutedInOrder, serverVars
  <1>8. ExecutedIsCommitted'
    <2>1. ASSUME NEW v \in Worker, NEW x \in RaftServer, pc'[v] = "exec", target'[v] = x
          PROVE  sm_commit_index[x] < quick_commit_index[x]
      <3>1. CASE v = w
        BY ZenonT(60), <1>2, <1>4, <2>1, <3>1
      <3>2. CASE v # w
        BY ZenonT(60), <1>1, <1>4, <2>1, <3>2, OthersSame, InsideFacts DEF ExecPart, ExecutedIsCommitted
      <3> QED BY ZenonT(60), <3>1, <3>2
    <2> QED BY ZenonT(60), <1>1, <2>1, InsideFacts DEF ExecPart, ExecutedIsCommitted, serverVars
  <1>9. ExecPart'
    BY ZenonT(60), <1>1, <1>5, <1>7, <1>8, InsideFacts DEF ExecPart, serverVars
  <1> QED BY ZenonT(60), <1>1, <1>4, <1>9, InsideFacts, SamePool, SameRest, CallStep, PartsNext
          DEF serverVars

LEMMA ExecInv ==
    ASSUME PoolInv, NEW w \in Worker, Exec(w) PROVE PoolInv'
  <1> DEFINE s == target[w]
             n == sm_commit_index[s] + 1
  <1>1. /\ pc[w] \in Section /\ pc[w] = "exec"
        /\ PcBecomes(w, "advance")
        /\ executed' = [executed EXCEPT ![s] = Append(executed[s], n)]
        /\ UNCHANGED <<poolVars, callVars, workerVars, quick_commit_index, sm_commit_index,
                       commit_lock, sm_commit_paused, unsent, closed, budget>>
    BY ZenonT(60) DEF Exec, Section
  <1>2. /\ PoolPart /\ CallPart /\ RestPart /\ ExecPart
        /\ w \in Thread /\ s \in RaftServer
        /\ \A v \in Worker : v # w => ~ Inside(v, s)
        /\ Len(executed[s]) \in Nat
        /\ sm_commit_index[s] \in Nat /\ quick_commit_index[s] \in Nat
    BY ZenonT(60), <1>1, InsideFacts
  <1>3. Moves(w) /\ pc'[w] = "advance" /\ target' = target
    <2>1. "advance" \in PcValue
      BY ZenonT(60) DEF PcValue, Section
    <2> QED BY ZenonT(60), <1>1, <1>2, <2>1, PcCall DEF callVars
  <1>4. LockOwned'
    <2>1. ASSUME NEW v \in Worker, NEW x \in RaftServer, Inside(v, x)' PROVE Inside(v, x)
      BY ZenonT(60), <1>1, <1>3, <2>1, OthersSame DEF Inside
    <2> QED BY ZenonT(60), <1>1, <1>2, <2>1 DEF ExecPart, LockOwned
  <1>5. ~ Advancing(s)
    <2>1. ASSUME NEW v \in Worker, pc[v] = "advance", target[v] = s PROVE FALSE
      BY ZenonT(60), <1>1, <1>2, <2>1 DEF Inside, Section
    <2> QED BY ZenonT(60), <2>1 DEF Advancing
  <1>6. ASSUME NEW x \in RaftServer, x # s PROVE Advancing(x)' <=> Advancing(x)
    <2>1. \A v \in Worker :
             pc'[v] = "advance" /\ target'[v] = x <=> pc[v] = "advance" /\ target[v] = x
      BY ZenonT(60), <1>3, <1>6, OthersSame
    <2> QED BY ZenonT(60), <2>1 DEF Advancing
  <1>7. /\ Len(executed[s]) = sm_commit_index[s]
        /\ \A k \in DOMAIN executed[s] : executed[s][k] = k
    <2>1. Len(executed[s]) = sm_commit_index[s] + (IF Advancing(s) THEN 1 ELSE 0)
      BY ZenonT(60), <1>2 DEF ExecPart, ExecutedInOrder
    <2>2. \A k \in DOMAIN executed[s] : executed[s][k] = k
      BY ZenonT(60), <1>2 DEF ExecPart, ExecutedInOrder
    <2> QED BY SMTT(90), <1>2, <1>5, <2>1, <2>2
  <1>8. executed[s] \in Seq(Nat) /\ n \in Nat
    BY SMTT(90), <1>2 DEF ExecPart
  <1>9. /\ executed' \in [RaftServer -> Seq(Nat)]
        /\ executed'[s] = Append(executed[s], n)
        /\ \A x \in RaftServer : x # s => executed'[x] = executed[x]
    <2>1. Append(executed[s], n) \in Seq(Nat)
      BY SMTT(90), <1>8
    <2> QED BY ZenonT(60), <1>1, <1>2, <2>1 DEF ExecPart
  <1>10. /\ Len(executed'[s]) = sm_commit_index[s] + 1
         /\ \A k \in DOMAIN executed'[s] : executed'[s][k] = k
    <2> HIDE DEF s
    <2> QED BY SMTT(90), <1>2, <1>7, <1>8, <1>9
  <1>11. ExecutedInOrder'
    <2>1. ASSUME NEW x \in RaftServer
          PROVE  /\ \A k \in DOMAIN executed'[x] : executed'[x][k] = k
                 /\ Len(executed'[x]) = sm_commit_index'[x] + (IF Advancing(x)' THEN 1 ELSE 0)
      <3>1. CASE x = s
        <4>1. Advancing(x)'
          BY ZenonT(60), <1>3, <3>1 DEF Advancing
        <4>2. sm_commit_index' = sm_commit_index
          BY ZenonT(60), <1>1
        <4> HIDE DEF s
        <4> QED BY ZenonT(60), <1>10, <3>1, <4>1, <4>2
      <3>2. CASE x # s
        BY ZenonT(60), <1>1, <1>2, <1>6, <1>9, <3>2 DEF ExecPart, ExecutedInOrder
      <3> QED BY ZenonT(60), <3>1, <3>2
    <2> QED BY ZenonT(60), <2>1 DEF ExecutedInOrder
  <1>12. ExecutedIsCommitted'
    <2>1. sm_commit_index[s] < quick_commit_index[s]
      BY ZenonT(60), <1>1, <1>2 DEF ExecPart, ExecutedIsCommitted
    <2>2. Len(executed'[s]) <= quick_commit_index[s]
      BY SMTT(90), <1>2, <1>10, <2>1
    <2>3. ASSUME NEW x \in RaftServer PROVE Len(executed'[x]) <= quick_commit_index'[x]
      BY ZenonT(60), <1>1, <1>2, <1>9, <2>2 DEF ExecPart, ExecutedIsCommitted
    <2>4. ASSUME NEW v \in Worker, NEW x \in RaftServer, pc'[v] = "exec", target'[v] = x
          PROVE  sm_commit_index'[x] < quick_commit_index'[x]
      <3>1. pc[v] = "exec" /\ target[v] = x
        BY ZenonT(60), <1>3, <2>4, OthersSame
      <3> QED BY ZenonT(60), <1>1, <1>2, <3>1 DEF ExecPart, ExecutedIsCommitted
    <2> QED BY ZenonT(60), <2>3, <2>4 DEF ExecutedIsCommitted
  <1>13. ExecPart'
    BY ZenonT(60), <1>1, <1>2, <1>4, <1>9, <1>11, <1>12 DEF ExecPart
  <1> QED BY ZenonT(60), <1>1, <1>2, <1>3, <1>13, SamePool, SameRest, CallStep, PartsNext

LEMMA AdvanceInv ==
    ASSUME PoolInv, NEW w \in Worker, Advance(w) PROVE PoolInv'
  <1> DEFINE s == target[w]
  <1>1. /\ pc[w] \in Section /\ pc[w] = "advance"
        /\ PcBecomes(w, "loop")
        /\ sm_commit_index' = [sm_commit_index EXCEPT ![s] = sm_commit_index[s] + 1]
        /\ UNCHANGED <<poolVars, callVars, workerVars, quick_commit_index, executed,
                       commit_lock, sm_commit_paused, unsent, closed, budget>>
    BY ZenonT(60) DEF Advance, Section
  <1>2. /\ PoolPart /\ CallPart /\ RestPart /\ ExecPart
        /\ w \in Thread /\ s \in RaftServer
        /\ \A v \in Worker : v # w => ~ Inside(v, s)
        /\ Len(executed[s]) \in Nat
        /\ sm_commit_index[s] \in Nat /\ quick_commit_index[s] \in Nat
    BY ZenonT(60), <1>1, InsideFacts
  <1>3. Moves(w) /\ pc'[w] = "loop" /\ target' = target
    <2>1. "loop" \in PcValue
      BY ZenonT(60) DEF PcValue, Section
    <2> QED BY ZenonT(60), <1>1, <1>2, <2>1, PcCall DEF callVars
  <1>4. LockOwned'
    <2>1. ASSUME NEW v \in Worker, NEW x \in RaftServer, Inside(v, x)' PROVE Inside(v, x)
      BY ZenonT(60), <1>1, <1>3, <2>1, OthersSame DEF Inside
    <2> QED BY ZenonT(60), <1>1, <1>2, <2>1 DEF ExecPart, LockOwned
  <1>5. Advancing(s)
    BY ZenonT(60), <1>1 DEF Advancing
  <1>6. ASSUME NEW x \in RaftServer, x # s PROVE Advancing(x)' <=> Advancing(x)
    <2>1. \A v \in Worker :
             pc'[v] = "advance" /\ target'[v] = x <=> pc[v] = "advance" /\ target[v] = x
      BY ZenonT(60), <1>3, <1>6, OthersSame
    <2> QED BY ZenonT(60), <2>1 DEF Advancing
  <1>7. ASSUME NEW x \in RaftServer, x = s PROVE ~ Advancing(x)'
    <2>1. ASSUME NEW v \in Worker, pc'[v] = "advance", target'[v] = x PROVE FALSE
      <3>1. v # w
        BY ZenonT(60), <1>3, <2>1
      <3>2. Inside(v, x)
        BY ZenonT(60), <2>1, <1>3, <3>1 DEF Inside, Moves, Thread, Section
      <3> QED BY ZenonT(60), <1>2, <1>7, <3>1, <3>2
    <2> QED BY ZenonT(60), <2>1 DEF Advancing
  <1>8. /\ sm_commit_index' \in [RaftServer -> Nat]
        /\ \A x \in RaftServer : x = s => sm_commit_index'[x] = sm_commit_index[x] + 1
        /\ \A x \in RaftServer : x # s => sm_commit_index'[x] = sm_commit_index[x]
    <2> HIDE DEF s
    <2> QED BY SMTT(90), <1>1, <1>2 DEF ExecPart
  <1>9. ExecutedInOrder'
    <2>1. ASSUME NEW x \in RaftServer
          PROVE  /\ \A k \in DOMAIN executed'[x] : executed'[x][k] = k
                 /\ Len(executed'[x]) = sm_commit_index'[x] + (IF Advancing(x)' THEN 1 ELSE 0)
      <3>1. /\ \A k \in DOMAIN executed[x] : executed[x][k] = k
            /\ Len(executed[x]) = sm_commit_index[x] + (IF Advancing(x) THEN 1 ELSE 0)
        BY ZenonT(60), <1>2 DEF ExecPart, ExecutedInOrder
      <3>2. CASE x = s
        <4>1. ~ Advancing(x)' /\ Advancing(x)
          BY ZenonT(60), <1>5, <1>7, <3>2
        <4>2. sm_commit_index'[x] = sm_commit_index[x] + 1 /\ sm_commit_index[x] \in Nat
          BY ZenonT(60), <1>2, <1>8, <3>2
        <4>3. executed' = executed
          BY ZenonT(60), <1>1
        <4> QED BY SMTT(90), <3>1, <4>1, <4>2, <4>3
      <3>3. CASE x # s
        BY ZenonT(60), <1>1, <1>6, <1>8, <3>1, <3>3
      <3> QED BY ZenonT(60), <3>2, <3>3
    <2> QED BY ZenonT(60), <2>1 DEF ExecutedInOrder
  <1>10. ExecutedIsCommitted'
    <2>1. ASSUME NEW v \in Worker, NEW x \in RaftServer, pc'[v] = "exec", target'[v] = x
          PROVE  sm_commit_index'[x] < quick_commit_index'[x]
      <3>1. v # w /\ pc[v] = "exec" /\ target[v] = x
        BY ZenonT(60), <1>3, <2>1, OthersSame
      <3>2. x # s
        BY ZenonT(60), <1>2, <3>1 DEF Inside, Section
      <3> QED BY ZenonT(60), <1>1, <1>2, <1>8, <3>1, <3>2 DEF ExecPart, ExecutedIsCommitted
    <2> QED BY ZenonT(60), <1>1, <1>2, <2>1 DEF ExecPart, ExecutedIsCommitted
  <1>11. ExecPart'
    BY ZenonT(60), <1>1, <1>2, <1>4, <1>8, <1>9, <1>10 DEF ExecPart
  <1> QED BY ZenonT(60), <1>1, <1>2, <1>3, <1>11, SamePool, SameRest, CallStep, PartsNext

LEMMA UnlockInv ==
    ASSUME PoolInv, NEW w \in Worker, Unlock(w) PROVE PoolInv'
  <1> DEFINE s == target[w]
  <1>1. /\ pc[w] \in Section /\ pc[w] # "advance"
        /\ commit_lock' = [commit_lock EXCEPT ![s] = None]
        /\ Done(w) \/ CallRequest(w, "commit", s)
        /\ UNCHANGED <<poolVars, workerVars, quick_commit_index, sm_commit_index, executed,
                       sm_commit_paused, unsent, closed, budget>>
    BY ZenonT(60) DEF Unlock, Section
  <1>2. /\ PoolPart /\ CallPart /\ RestPart /\ ExecPart
        /\ w \in Thread /\ s \in RaftServer
        /\ \A v \in Worker : v # w => ~ Inside(v, s)
    BY ZenonT(60), <1>1, InsideFacts
  <1>3. Moves(w) /\ pc'[w] \notin Section
    BY ZenonT(60), <1>1, <1>2, DoneCall, CallCall DEF Kind
  <1>4. pc'[w] # "advance" /\ pc'[w] # "exec"
    BY ZenonT(60), <1>3 DEF Section
  <1>5. ASSUME NEW v \in Worker, NEW x \in RaftServer, Inside(v, x)'
        PROVE  Inside(v, x) /\ x # s
    <2>1. v # w
      BY ZenonT(60), <1>3, <1>5 DEF Inside
    <2>2. Inside(v, x)
      BY ZenonT(60), <1>3, <1>5, <2>1, OthersSame
    <2> QED BY ZenonT(60), <1>2, <2>1, <2>2
  <1>6. LockOwned'
    BY ZenonT(60), <1>1, <1>2, <1>5 DEF ExecPart, LockOwned
  <1>7. ASSUME NEW x \in RaftServer PROVE Advancing(x)' <=> Advancing(x)
    <2>1. ASSUME NEW v \in Worker
          PROVE  pc'[v] = "advance" /\ target'[v] = x <=> pc[v] = "advance" /\ target[v] = x
      <3>1. CASE v = w
        BY ZenonT(60), <1>1, <1>4, <3>1
      <3>2. CASE v # w
        BY ZenonT(60), <1>3, <3>2, OthersSame
      <3> QED BY ZenonT(60), <3>1, <3>2
    <2> QED BY ZenonT(60), <2>1 DEF Advancing
  <1>8. ExecutedInOrder'
    BY ZenonT(60), <1>1, <1>2, <1>7 DEF ExecPart, ExecutedInOrder
  <1>9. ExecutedIsCommitted'
    <2>1. ASSUME NEW v \in Worker, NEW x \in RaftServer, pc'[v] = "exec", target'[v] = x
          PROVE  sm_commit_index'[x] < quick_commit_index'[x]
      <3>1. pc[v] = "exec" /\ target[v] = x
        BY ZenonT(60), <1>3, <1>4, <2>1, OthersSame
      <3> QED BY ZenonT(60), <1>1, <1>2, <3>1 DEF ExecPart, ExecutedIsCommitted
    <2> QED BY ZenonT(60), <1>1, <1>2, <2>1 DEF ExecPart, ExecutedIsCommitted
  <1>10. ExecPart'
    BY ZenonT(60), <1>1, <1>2, <1>6, <1>8, <1>9 DEF ExecPart
  <1> QED BY ZenonT(60), <1>1, <1>2, <1>3, <1>10, SamePool, SameRest, CallStep, PartsNext

-----------------------------------------------------------------------------
(* The theorems.                                                           *)

LEMMA InitPoolInv == ASSUME Init PROVE PoolInv
  <1>1. PICK c \in Config :
          /\ pc = [t \in Thread |-> IF t \notin Worker THEN "idle"
                                    ELSE IF Started(c, t) THEN "top" ELSE "stopped"]
          /\ status = [w \in Worker |-> IF Started(c, w) THEN "SLEEPING" ELSE "WORKING"]
          /\ budget = [commits |-> c.commits, appends |-> c.appends,
                       pauses |-> c.pauses, closes |-> c.closes]
    BY ZenonT(60) DEF Init
  <1>2. \A t \in Thread : pc[t] \in {"idle", "top", "stopped"}
    BY ZenonT(60), <1>1
  <1>3. pc \in [Thread -> PcValue] /\ \A t \in Thread : pc[t] \notin Section /\ pc[t] \notin Busy
    BY ZenonT(60), <1>1, <1>2, OutsideValues, NotBusyValues
  <1>4. CallPart
    <2>1. /\ target \in [Thread -> RaftServer \cup {None}]
          /\ kind \in [Thread -> Kind]
          /\ scan \in [Thread -> Nat \ {0}]
      BY SMTT(90) DEF Init, Kind
    <2>2. TargetKnown
      BY ZenonT(60), <1>3 DEF TargetKnown, Busy
    <2> QED BY ZenonT(60), <1>3, <2>1, <2>2 DEF CallPart
  <1>5. PoolPart
    <2>1. queue \in [Kind -> Seq(RaftServer)] /\ server_set \in [Kind -> SUBSET RaftServer]
      BY SMTT(90) DEF Init
    <2>2. ASSUME NEW k \in Kind PROVE Agrees(queue[k], server_set[k])
      BY SMTT(90) DEF Init, Agrees
    <2> QED BY ZenonT(60), <2>1, <2>2 DEF PoolPart
  <1>6. RestPart
    <2>1. budget \in [commits : Nat, appends : Nat, pauses : Nat, closes : Nat]
      BY ZenonT(60), <1>1, PoolAssumption
    <2>2. status \in [Worker -> {"SLEEPING", "WORKING"}]
      BY ZenonT(60), <1>1
    <2> QED BY ZenonT(60), <2>1, <2>2 DEF RestPart, Init
  <1>7. ExecPart
    <2>1. /\ quick_commit_index \in [RaftServer -> Nat]
          /\ sm_commit_index \in [RaftServer -> Nat]
          /\ commit_lock \in [RaftServer -> Worker \cup {None}]
          /\ executed \in [RaftServer -> Seq(Nat)]
      BY SMTT(90) DEF Init
    <2>2. \A w \in Worker : pc[w] \notin Section /\ pc[w] # "advance" /\ pc[w] # "exec"
      BY ZenonT(60), <1>3 DEF Thread, Section
    <2>3. LockOwned
      BY ZenonT(60), <2>2 DEF LockOwned, Inside
    <2>4. ASSUME NEW x \in RaftServer PROVE ~ Advancing(x)
      BY ZenonT(60), <2>2 DEF Advancing
    <2>5. ASSUME NEW x \in RaftServer
          PROVE  executed[x] = <<>> /\ sm_commit_index[x] = 0 /\ quick_commit_index[x] = 0
      BY ZenonT(60) DEF Init
    <2>6. ExecutedInOrder
      BY SMTT(90), <2>4, <2>5 DEF ExecutedInOrder
    <2>7. ExecutedIsCommitted
      BY SMTT(90), <2>2, <2>5 DEF ExecutedIsCommitted
    <2> QED BY ZenonT(60), <2>1, <2>3, <2>6, <2>7 DEF ExecPart
  <1> QED BY ZenonT(60), <1>4, <1>5, <1>6, <1>7, Parts

LEMMA NextPoolInv == ASSUME PoolInv, [Next]_vars PROVE PoolInv'
  <1>1. ASSUME NEW w \in Worker, WorkerStep(w) \/ StopWorker(w) PROVE PoolInv'
    <2>1. w \in Thread
      BY ZenonT(60) DEF Thread
    <2> QED BY ZenonT(60), <1>1, <2>1, TopInv, WakeInv, WorkingInv, PopInv, SendInv, CheckInv,
                      TryLockInv, LoopInv, ExecInv, AdvanceInv, UnlockInv, RequestInv,
                      StopWorkerInv
            DEF WorkerStep
  <1>2. ASSUME NEW s \in RaftServer, Commit(s) \/ CommitAgain(s) \/ AppendForAll(s) \/ Request(s)
        PROVE  PoolInv'
    BY ZenonT(60), <1>2, CommitInv, CommitAgainInv, AppendForAllInv, RequestInv DEF Thread
  <1>3. ASSUME NEW u \in User, NEW s \in RaftServer, Pause(u, s) \/ Resume(u, s) \/ CloseAppend(u, s)
        PROVE  PoolInv'
    BY ZenonT(60), <1>3, PauseInv, ResumeInv, CloseAppendInv
  <1>4. ASSUME NEW u \in User, CloseCommit(u) \/ Request(u) PROVE PoolInv'
    BY ZenonT(60), <1>4, CloseCommitInv, RequestInv DEF Thread
  <1>5. CASE UNCHANGED vars
    <2>1. UNCHANGED <<poolVars, pc, callVars, workerVars, serverVars>>
      BY ZenonT(60), <1>5 DEF vars
    <2>2. PoolPart /\ CallPart /\ RestPart /\ ExecPart
      BY ZenonT(60), Parts
    <2>3. PoolPart' /\ RestPart'
      BY ZenonT(60), <2>1, <2>2, SamePool, SameRest DEF serverVars
    <2>4. CallPart'
      BY ZenonT(60), <2>1, <2>2 DEF CallPart, TargetKnown, callVars
    <2>5. ExecPart'
      BY ZenonT(60), <2>1, <2>2 DEF ExecPart, LockOwned, Inside, ExecutedInOrder, Advancing,
                               ExecutedIsCommitted, callVars, serverVars
    <2> QED BY ZenonT(60), <2>3, <2>4, <2>5, PartsNext
  <1> QED BY ZenonT(60), <1>1, <1>2, <1>3, <1>4, <1>5 DEF Next

\* The inductive invariant of the worker pool: whatever the numbers of servers,
\* users and workers, with any interleaving of commit(), pause, resume, shutdown
\* and the workers.
THEOREM PoolInvariant == Spec => []PoolInv
  <1>1. Init => PoolInv
    BY ZenonT(60), InitPoolInv
  <1>2. PoolInv /\ [Next]_vars => PoolInv'
    BY ZenonT(60), NextPoolInv
  <1> QED BY <1>1, <1>2, PTL DEF Spec

\* The queues and the sets that request_commit and request_append search always
\* agree, so close_raft_server leaves no trace of the server it takes off.
THEOREM QueuesAgree == Spec => []QueueAgrees
  <1>1. PoolInv => QueueAgrees
    BY ZenonT(60) DEF PoolInv
  <1> QED BY <1>1, PoolInvariant, PTL

\* commit_lock_ keeps two workers from executing the entries of one server.
THEOREM WorkersExclude == Spec => []CommitExclusive
  <1>1. PoolInv => CommitExclusive
    BY ZenonT(60) DEF PoolInv, LockOwned, CommitExclusive
  <1> QED BY <1>1, PoolInvariant, PTL

\* Every state machine executes the indexes 1, 2, 3, ... in order and once each,
\* and never one that is not committed.
THEOREM ExecutionInOrder == Spec => [](ExecutedInOrder /\ ExecutedIsCommitted)
  <1>1. PoolInv => ExecutedInOrder /\ ExecutedIsCommitted
    BY ZenonT(60) DEF PoolInv
  <1> QED BY <1>1, PoolInvariant, PTL

=============================================================================
