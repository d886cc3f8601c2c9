------------------------- MODULE ClientCommitProofs -------------------------
(***************************************************************************)
(* Proofs about ClientCommit, for any number of clients, role changes,     *)
(* overwritten logs and configuration changes, in both return methods: a   *)
(* client is told OK only of its own executed entry, and nothing is        *)
(* executed before it was pre-committed.  The inductive invariant is       *)
(* ClientInv; there is one lemma per action.                               *)
(***************************************************************************)
EXTENDS ClientCommit, TLAPS

\* A client is changed alone.
LEMMA Changed ==
    ASSUME client \in [Client -> ClientType], NEW c \in Client, NEW r \in ClientType, To(c, r)
    PROVE  /\ client' \in [Client -> ClientType]
           /\ client'[c] = r
           /\ \A d \in Client : d # c => client'[d] = client[d]
  BY ZenonT(60) DEF To

\* The largest of some numbers and a larger one.
LEMMA MaxOfMore ==
    ASSUME NEW n \in Nat, NEW S \in SUBSET (1..n)
    PROVE  Max(S \cup {n + 1}) = n + 1
  <1> DEFINE T == S \cup {n + 1}
  <1>1. n + 1 \in T /\ \A y \in T : y <= n + 1
    OBVIOUS
  <1>2. \A x \in T : (\A y \in T : y <= x) => x = n + 1
    <2> SUFFICES ASSUME NEW x \in T, \A y \in T : y <= x
                 PROVE  x = n + 1
      BY ZenonT(60)
    <2>1. n + 1 <= x /\ x <= n + 1 /\ x \in Int
      BY <1>1
    <2> QED BY <2>1
  <1> HIDE DEF T
  <1>3. Max(T) \in T /\ \A y \in T : y <= Max(T)
    BY ZenonT(60), <1>1 DEF Max
  <1>4. Max(T) = n + 1
    BY ZenonT(60), <1>2, <1>3
  <1> QED BY ZenonT(60), <1>4 DEF T

-----------------------------------------------------------------------------
(* The threads of the clients.                                             *)

\* A step of a client outside handle_cli_req disturbs neither the locks nor
\* what is pre-committed.
LEMMA ClientQuiet ==
    ASSUME ClientInv, NEW c \in Client, NEW r \in ClientType, To(c, r),
           client[c].pc \notin Writing, r.pc \notin Writing \cup {"idle"},
           r.wrote = client[c].wrote,
           UNCHANGED <<leader, logVars, cli_lock, handler, committer, precommitted>>
    PROVE  LockInv' /\ PreCommitInv'
  <1> USE DEF ClientInv
  <1>1. /\ client' \in [Client -> ClientType]
        /\ client'[c] = r
        /\ \A d \in Client : d # c => client'[d] = client[d]
    BY ZenonT(60), Changed DEF TypeOK
  <1>2. \A d \in Client : client'[d].wrote = client[d].wrote
    BY ZenonT(60), <1>1
  <1>3. \A d \in Client : \A p \in Writing : client'[d].pc = p <=> client[d].pc = p
    BY ZenonT(60), <1>1
  <1>4. \A d \in Client : client'[d].pc = "idle" => client[d].pc = "idle"
    BY ZenonT(60), <1>1
  <1>5. /\ leader' = leader /\ log' = log /\ precommit' = precommit /\ quick' = quick
        /\ cli_lock' = cli_lock /\ handler' = handler /\ committer' = committer
        /\ precommitted' = precommitted
    BY ZenonT(60) DEF logVars
  <1>6. LockInv'
    <2>1. \A d \in Client : cli_lock = d <=> client'[d].pc \in Writing
      BY ZenonT(60), <1>3 DEF LockInv
    <2> QED BY <1>5, <2>1 DEF LockInv
  <1>7. PreCommitInv'
    <2>1. \A d \in Client :
            /\ client'[d].pc \in Writing <=> client[d].pc \in Writing
            /\ client'[d].pc = "stored" <=> client[d].pc = "stored"
            /\ client'[d].pc \in {"stored", "insert"} <=> client[d].pc \in {"stored", "insert"}
      BY ZenonT(60), <1>3 DEF Writing
    <2> QED BY <1>2, <1>4, <1>5, <2>1 DEF PreCommitInv, WroteInv, Covered
  <1> QED BY ZenonT(60), <1>6, <1>7

\* The same for the elems, when the step leaves them alone.
LEMMA AnswerQuiet ==
    ASSUME ClientInv, NEW c \in Client, NEW r \in ClientType, To(c, r),
           r.pc \in Waiting => client[c].pc \in Waiting, r.pc \notin Writing \cup {"idle"},
           r.wrote = client[c].wrote, r.elem = client[c].elem,
           UNCHANGED <<leader, logVars, handler, committer, elem, elems, executed>>
    PROVE  AnswerInv'
  <1> USE DEF ClientInv
  <1>1. /\ client' \in [Client -> ClientType]
        /\ client'[c] = r
        /\ \A d \in Client : d # c => client'[d] = client[d]
    BY ZenonT(60), Changed DEF TypeOK
  <1>2. \A d \in Client : client'[d].wrote = client[d].wrote /\ client'[d].elem = client[d].elem
    BY ZenonT(60), <1>1
  <1>3. \A d \in Client : client'[d].pc \in Waiting => client[d].pc \in Waiting
    BY ZenonT(60), <1>1
  <1>4. \A d \in Client : client'[d].pc \in {"idle"} \cup Writing =>
                            client'[d] = client[d]
    BY ZenonT(60), <1>1
  <1>5. /\ leader' = leader /\ log' = log /\ quick' = quick /\ handler' = handler
        /\ committer' = committer /\ elem' = elem /\ elems' = elems /\ executed' = executed
    BY ZenonT(60) DEF logVars
  <1>6. \A e : Answered(e)' <=> Answered(e)
    BY ZenonT(60), <1>5 DEF Answered
  <1> QED BY <1>2, <1>3, <1>4, <1>5, <1>6 DEF AnswerInv, ElemInv, WaiterInv

LEMMA NotLeaderStep ==
    ASSUME ClientInv, NEW c \in Client, NotLeader(c)
    PROVE  ClientInv'
  <1> DEFINE r == [client[c] EXCEPT !.pc = "done", !.result = "NOT_LEADER"]
  <1>1. client[c] \in ClientType
    BY ZenonT(60) DEF ClientInv, TypeOK
  <1>2. /\ r \in ClientType /\ r.pc = "done" /\ r.result = "NOT_LEADER"
        /\ r.wrote = client[c].wrote /\ r.elem = client[c].elem
    BY ZenonT(60), <1>1 DEF ClientType, ClientState
  <1>3. To(c, r) /\ client[c].pc = "idle"
    BY ZenonT(60) DEF NotLeader
  <1> HIDE DEF r
  <1>4. /\ client' \in [Client -> ClientType]
        /\ client'[c] = r
        /\ \A d \in Client : d # c => client'[d] = client[d]
    BY ZenonT(60), <1>2, <1>3, Changed DEF ClientInv, TypeOK
  <1>5. TypeOK'
    BY ZenonT(60), <1>4 DEF ClientInv, TypeOK, NotLeader, logVars
  <1>6. LockInv' /\ PreCommitInv'
    BY ZenonT(60), <1>2, <1>3, ClientQuiet DEF NotLeader, Writing
  <1>7. AnswerInv'
    BY ZenonT(60), <1>2, <1>3, AnswerQuiet DEF NotLeader, Writing, Waiting
  <1>8. OkMeansExecuted'
    BY ZenonT(60), <1>2, <1>4 DEF ClientInv, OkMeansExecuted, NotLeader
  <1> QED BY ZenonT(60), <1>5, <1>6, <1>7, <1>8 DEF ClientInv
\* An entry appended to the log leaves the others where they are.
LEMMA LogGrows ==
    ASSUME TypeOK, NEW x \in Client \cup {Conf, Other}, log' = Append(log, x)
    PROVE  /\ log' \in Seq(Client \cup {Conf, Other})
           /\ Len(log) \in Nat /\ Len(log') = Len(log) + 1
           /\ log'[Len(log) + 1] = x
           /\ \A i \in 1..Len(log) : log'[i] = log[i]
  <1> DEFINE V == Client \cup {Conf, Other}
  <1>1. log \in Seq(V) /\ x \in V
    BY ZenonT(60) DEF TypeOK
  <1> HIDE DEF V
  <1>2. /\ log' \in Seq(V)
        /\ Len(log) \in Nat /\ Len(log') = Len(log) + 1
        /\ log'[Len(log) + 1] = x
        /\ \A i \in 1..Len(log) : log'[i] = log[i]
    BY <1>1
  <1> QED BY ZenonT(60), <1>2 DEF V

\* A step that leaves the elems alone and keeps what was in the log.
LEMMA AnswerKept ==
    ASSUME ClientInv, UNCHANGED <<elem, elems, executed>>,
           Len(log') \in Nat, Len(log) <= Len(log'), \A i \in 1..Len(log) : log'[i] = log[i],
           quick' \in Nat, quick <= quick',
           ~leader' /\ handler'.todo # "drop" => ~leader /\ handler.todo # "drop",
           committer' = committer \/ committer'.pc \notin Executing,
           \A d \in Client :
             \/ client'[d] = client[d]
             \/ /\ client'[d].elem = 0 /\ client'[d].result = "none"
                /\ client'[d].pc \in Writing
    PROVE  AnswerInv'
  <1> USE DEF ClientInv
  <1>1. Len(log) \in Nat /\ quick \in Nat
    BY DEF TypeOK
  <1>2. \A e : Answered(e)' => Answered(e)
    BY ZenonT(60) DEF Answered, Executing
  <1>3. /\ (DOMAIN elems \subseteq 1..Len(log))'
        /\ (~leader /\ handler.todo # "drop" => DOMAIN elems \subseteq 1..quick)'
    BY <1>1 DEF AnswerInv, ElemInv, WaiterInv
  <1>4. (committer.pc \in Executing => <<committer.idx, log[committer.idx]>> \in executed)'
    <2> SUFFICES ASSUME committer' = committer, committer.pc \in Executing
                 PROVE  <<committer.idx, log'[committer.idx]>> \in executed
      BY ZenonT(60)
    <2>1. committer.idx \in 1..Len(log)
      BY <1>1 DEF PreCommitInv, WroteInv, Covered, TypeOK
    <2> QED BY ZenonT(60), <1>1, <2>1 DEF AnswerInv, ElemInv, WaiterInv
  <1>5. \A i \in DOMAIN elems :
          /\ i \in 1..Len(log) /\ log'[i] = log[i] /\ elems[i] # 0
          /\ i <= quick => i <= quick'
    BY <1>1 DEF AnswerInv, ElemInv, WaiterInv, TypeOK
  <1>6. \A i \in DOMAIN elems' : ElemInv(i)'
    <2> SUFFICES ASSUME NEW i \in DOMAIN elems
                 PROVE  ElemInv(i)'
      BY ZenonT(60)
    <2> QED BY ZenonT(60), <1>2, <1>5 DEF AnswerInv, ElemInv
  <1>7. \A d \in Client : WaiterInv(d)'
    <2> SUFFICES ASSUME NEW d \in Client
                 PROVE  WaiterInv(d)'
      BY ZenonT(60)
    <2>1. CASE client'[d] = client[d]
      BY ZenonT(60), <1>2, <2>1 DEF AnswerInv, ElemInv, WaiterInv
    <2>2. CASE client'[d].elem = 0 /\ client'[d].result = "none" /\ client'[d].pc \in Writing
      <3>1. client'[d].pc \notin Waiting
        BY ZenonT(60), <2>2 DEF Writing, Waiting
      <3>2. Len(elem) \in Nat
        BY DEF TypeOK
      <3> QED BY <2>2, <3>1, <3>2 DEF WaiterInv
    <2> QED BY ZenonT(60), <2>1, <2>2
  <1> QED BY ZenonT(60), <1>3, <1>4, <1>6, <1>7 DEF AnswerInv, ElemInv, WaiterInv

LEMMA StoreEntryStep ==
    ASSUME ClientInv, NEW c \in Client, StoreEntry(c)
    PROVE  ClientInv'
  <1> DEFINE n == Len(log)
             r == [client[c] EXCEPT !.pc = "stored", !.wrote = @ \cup {n + 1}]
  <1>0. TypeOK /\ LockInv /\ PreCommitInv /\ AnswerInv /\ OkMeansExecuted
    BY ZenonT(60) DEF ClientInv
  <1>1. client[c] \in ClientType /\ n \in Nat
    BY <1>0 DEF TypeOK
  <1>2. /\ r \in ClientType /\ r.pc = "stored" /\ r.wrote = client[c].wrote \cup {n + 1}
        /\ r.elem = client[c].elem /\ r.result = client[c].result
    <2>1. client[c].wrote \cup {n + 1} \in SUBSET Nat /\ "stored" \in ClientState
      BY <1>1 DEF ClientType, ClientState
    <2> QED BY ZenonT(60), <1>1, <2>1 DEF ClientType
  <1>3. /\ To(c, r) /\ cli_lock' = c /\ log' = Append(log, c)
        /\ client[c].pc \in {"idle", "store"} /\ leader
    <2>1. /\ To(c, r) /\ cli_lock' = c /\ log' = Append(log, c)
          /\ client[c].pc \in {"idle", "store"}
      BY ZenonT(60) DEF StoreEntry
    <2>2. leader
      BY ZenonT(60), <1>0, ClientAssumption DEF StoreEntry, LockInv, Writing
    <2> QED BY ZenonT(60), <2>1, <2>2
  <1>4. UNCHANGED <<return_method, leader, precommit, quick, sm, handler, elem, elems,
                    committer, used, precommitted, executed>>
    BY ZenonT(60) DEF StoreEntry
  <1>5. client[c].wrote \in SUBSET (1..n) /\ client[c].elem = 0 /\ client[c].result = "none"
    BY ZenonT(60), <1>0, <1>3 DEF PreCommitInv, WroteInv, Covered, AnswerInv, ElemInv, WaiterInv, Writing
  <1>6. Max(r.wrote) = n + 1
    BY ZenonT(60), <1>1, <1>2, <1>5, MaxOfMore
  <1>7. /\ log' \in Seq(Client \cup {Conf, Other})
        /\ Len(log') = n + 1 /\ log'[n + 1] = c
        /\ \A i \in 1..n : log'[i] = log[i]
    BY ZenonT(60), <1>0, <1>3, LogGrows
  <1> HIDE DEF n, r
  <1>8. /\ client' \in [Client -> ClientType]
        /\ client'[c] = r
        /\ \A d \in Client : d # c => client'[d] = client[d]
    BY ZenonT(60), <1>0, <1>2, <1>3, Changed DEF TypeOK
  <1>9. cli_lock \in {None, c}
    BY ZenonT(60), <1>0 DEF StoreEntry, LockInv, Writing
  <1>10. \A d \in Client : d # c => client[d].pc \notin Writing
    BY ZenonT(60), <1>0, <1>9, ClientAssumption DEF LockInv
  <1>11. TypeOK'
    BY ZenonT(60), <1>0, <1>3, <1>4, <1>7, <1>8 DEF TypeOK
  <1>12. LockInv'
    <2>1. handler.todo # "append_conf"
      BY ZenonT(60), <1>0, <1>9, LockAssumption DEF LockInv
    <2>2. \A d \in Client : c = d <=> client'[d].pc \in Writing
      BY ZenonT(60), <1>2, <1>8, <1>10 DEF Writing
    <2> QED BY ZenonT(60), <1>3, <1>4, <2>1, <2>2, LockAssumption DEF LockInv
  <1>13. PreCommitInv'
    <2>1. precommit \in Nat /\ quick \in Nat /\ precommit <= n /\ handler.idx \in Nat
      BY ZenonT(60), <1>0, <1>3 DEF TypeOK, PreCommitInv, WroteInv, Covered, HandlerType, n
    <2>2. /\ (quick <= precommit /\ quick <= Len(log))'
          /\ (leader => precommit <= Len(log))'
          /\ (handler.todo = "precommit" => handler.idx <= Len(log))'
      BY <1>0, <1>1, <1>4, <1>7, <2>1 DEF PreCommitInv, WroteInv, Covered, n
    <2>3. \A d \in Client : WroteInv(d)'
      <3> SUFFICES ASSUME NEW d \in Client
                   PROVE  WroteInv(d)'
        BY ZenonT(60)
      <3>1. CASE d = c
        <4>1. client'[d] = r /\ r.wrote \subseteq 1..n+1
          BY <1>1, <1>2, <1>5, <1>8, <3>1
        <4>2. /\ Max(client'[d].wrote) = n + 1 /\ Len(log') = n + 1 /\ log'[n + 1] = d
              /\ precommit' = precommit /\ client'[d].wrote \subseteq 1..n+1
              /\ client'[d].pc = "stored" /\ precommit < n + 1 /\ n + 1 \in 1..n+1
          <5>1. precommit < n + 1 /\ n + 1 \in 1..n+1
            BY <1>1, <2>1
          <5> QED BY ZenonT(60), <1>2, <1>4, <1>6, <1>7, <3>1, <4>1, <5>1
        <4> QED BY ZenonT(60), <4>2 DEF WroteInv
      <3>2. CASE d # c
        <4>1. client'[d] = client[d] /\ client[d].pc \notin Writing
          BY ZenonT(60), <1>8, <1>10, <3>2
        <4> QED BY ZenonT(60), <1>0, <4>1 DEF PreCommitInv, WroteInv, Covered, Writing
      <3> QED BY ZenonT(60), <3>1, <3>2
    <2>4. \A i \in 1..Len(log') : Covered(i)'
      <3> SUFFICES ASSUME NEW i \in 1..n+1
                   PROVE  Covered(i)'
        BY ZenonT(60), <1>7
      <3>1. CASE i = n + 1
        BY ZenonT(60), <1>2, <1>6, <1>8, <3>1 DEF Covered
      <3>2. CASE i \in 1..n
        BY ZenonT(60), <1>0, <1>3, <1>4, <1>10, <3>2 DEF PreCommitInv, Covered, Writing, n
      <3> QED BY <1>1, <3>1, <3>2
    <2>5. (committer.pc \in Executing => committer.idx \in 1..quick)'
      BY ZenonT(60), <1>0, <1>4 DEF PreCommitInv, WroteInv, Covered
    <2> QED BY ZenonT(60), <2>2, <2>3, <2>4, <2>5 DEF PreCommitInv
  <1>14. AnswerInv'
    <2>1. \A d \in Client : \/ client'[d] = client[d]
                            \/ /\ client'[d].elem = 0 /\ client'[d].result = "none"
                               /\ client'[d].pc \in Writing
      BY ZenonT(60), <1>2, <1>5, <1>8 DEF Writing
    <2>2. /\ Len(log') \in Nat /\ Len(log) <= Len(log')
          /\ \A i \in 1..Len(log) : log'[i] = log[i]
          /\ quick' \in Nat /\ quick <= quick'
      BY <1>0, <1>1, <1>4, <1>7 DEF TypeOK, n
    <2> QED BY ZenonT(60), <1>4, <2>1, <2>2, AnswerKept
  <1>15. OkMeansExecuted'
    BY ZenonT(60), <1>0, <1>2, <1>4, <1>5, <1>8 DEF OkMeansExecuted
  <1> QED BY ZenonT(60), <1>11, <1>12, <1>13, <1>14, <1>15 DEF ClientInv

LEMMA PreCommitEntryStep ==
    ASSUME ClientInv, NEW c \in Client, PreCommitEntry(c)
    PROVE  ClientInv'
  <1> DEFINE last == Max(client[c].wrote)
             n == Cardinality(client[c].wrote)
             more == [client[c] EXCEPT !.pc = "store"]
             all == [client[c] EXCEPT !.pc = "insert", !.batch = last - n + 1 .. last]
  <1>0. TypeOK /\ LockInv /\ PreCommitInv /\ AnswerInv /\ OkMeansExecuted
    BY ZenonT(60) DEF ClientInv
  <1>1. /\ client[c] \in ClientType /\ Len(log) \in Nat /\ precommit \in Nat /\ quick \in Nat
        /\ client[c].pc = "stored" /\ client[c].pc \in Writing
        /\ cli_lock = c /\ leader
    BY <1>0, ClientAssumption DEF TypeOK, PreCommitEntry, LockInv, Writing
  <1>2. /\ last \in 1..Len(log) /\ log[last] = c /\ precommit < last
        /\ client[c].wrote \in SUBSET (1..Len(log))
        /\ client[c].elem = 0 /\ client[c].result = "none"
    BY ZenonT(60), <1>0, <1>1 DEF PreCommitInv, WroteInv, Covered, AnswerInv, ElemInv, WaiterInv
  <1>4. last - n + 1 .. last \in SUBSET Int
    OBVIOUS
  <1>5. PICK r \in {more, all} :
          /\ To(c, r)
          /\ \/ r = more /\ precommit' = precommit
             \/ r = all /\ precommit' = Max2(precommit, last)
    <2>1. CASE n < BatchSize
      <3>1. To(c, more) /\ precommit' = precommit
        BY ZenonT(60), <2>1 DEF PreCommitEntry
      <3> HIDE DEF more, all
      <3> QED BY ZenonT(60), <3>1
    <2>2. CASE ~(n < BatchSize)
      <3>1. To(c, all) /\ precommit' = Max2(precommit, last)
        BY ZenonT(60), <2>2 DEF PreCommitEntry
      <3> HIDE DEF more, all
      <3> QED BY ZenonT(60), <3>1
    <2> QED BY ZenonT(60), <2>1, <2>2
  <1>6. /\ precommitted' = precommitted \cup {last}
        /\ UNCHANGED <<return_method, leader, log, quick, sm, cli_lock, handler, elem, elems,
                       committer, used, executed>>
    BY ZenonT(60) DEF PreCommitEntry
  <1>7. /\ r \in ClientType /\ r.wrote = client[c].wrote /\ r.elem = client[c].elem
        /\ r.result = client[c].result /\ r.pc \in {"store", "insert"}
    <2>1. "store" \in ClientState /\ "insert" \in ClientState
      BY ZenonT(60) DEF ClientState
    <2>2. /\ more \in ClientType /\ more.wrote = client[c].wrote /\ more.elem = client[c].elem
          /\ more.result = client[c].result /\ more.pc = "store"
      BY ZenonT(60), <1>1, <2>1 DEF ClientType
    <2>3. /\ all \in ClientType /\ all.wrote = client[c].wrote /\ all.elem = client[c].elem
          /\ all.result = client[c].result /\ all.pc = "insert"
      BY ZenonT(60), <1>1, <1>4, <2>1 DEF ClientType
    <2> HIDE DEF more, all
    <2> QED BY ZenonT(60), <1>5, <2>2, <2>3
  <1>8. precommit' \in Nat /\ precommit <= precommit' /\ precommit' <= Len(log)
    <2>1. precommit <= Len(log)
      BY ZenonT(60), <1>0, <1>1 DEF PreCommitInv, WroteInv, Covered
    <2> HIDE DEF last, more, all
    <2> QED BY <1>1, <1>2, <1>5, <2>1 DEF Max2
  <1> HIDE DEF last, n, more, all
  <1>9. /\ client' \in [Client -> ClientType]
        /\ client'[c] = r
        /\ \A d \in Client : d # c => client'[d] = client[d]
    BY ZenonT(60), <1>0, <1>5, <1>7, Changed DEF TypeOK
  <1>10. \A d \in Client : d # c => client[d].pc \notin Writing
    BY ZenonT(60), <1>0, <1>1 DEF LockInv
  <1>11. TypeOK'
    BY ZenonT(60), <1>0, <1>6, <1>8, <1>9 DEF TypeOK
  <1>12. LockInv'
    <2>1. \A d \in Client : c = d <=> client'[d].pc \in Writing
      BY ZenonT(60), <1>7, <1>9, <1>10 DEF Writing
    <2> QED BY ZenonT(60), <1>0, <1>1, <1>6, <2>1 DEF LockInv
  <1>13. PreCommitInv'
    <2>1. /\ (quick <= precommit /\ quick <= Len(log))'
          /\ (leader => precommit <= Len(log))'
          /\ (handler.todo = "precommit" => handler.idx <= Len(log))'
      BY <1>0, <1>1, <1>6, <1>8 DEF PreCommitInv, WroteInv, Covered
    <2>2. \A d \in Client : WroteInv(d)'
      <3> SUFFICES ASSUME NEW d \in Client
                   PROVE  WroteInv(d)'
        BY ZenonT(60)
      <3>1. CASE d = c
        BY ZenonT(60), <1>2, <1>6, <1>7, <1>9, <3>1 DEF WroteInv, last
      <3>2. CASE d # c
        <4>1. client'[d] = client[d] /\ client[d].pc \notin Writing
          BY ZenonT(60), <1>9, <1>10, <3>2
        <4> QED BY ZenonT(60), <1>0, <4>1 DEF PreCommitInv, WroteInv, Covered, Writing
      <3> QED BY ZenonT(60), <3>1, <3>2
    <2>3. \A i \in 1..Len(log') : Covered(i)'
      <3> SUFFICES ASSUME NEW i \in 1..Len(log)
                   PROVE  i \in precommitted'
        BY ZenonT(60), <1>6 DEF Covered
      <3>1. \A d \in Client : client[d].pc = "stored" => d = c
        BY ZenonT(60), <1>10 DEF Writing
      <3> QED BY ZenonT(60), <1>0, <1>6, <3>1 DEF PreCommitInv, WroteInv, Covered, last
    <2>4. (committer.pc \in Executing => committer.idx \in 1..quick)'
      BY ZenonT(60), <1>0, <1>6 DEF PreCommitInv, WroteInv, Covered
    <2> QED BY ZenonT(60), <2>1, <2>2, <2>3, <2>4 DEF PreCommitInv
  <1>14. AnswerInv'
    <2>1. \A d \in Client : \/ client'[d] = client[d]
                            \/ /\ client'[d].elem = 0 /\ client'[d].result = "none"
                               /\ client'[d].pc \in Writing
      BY ZenonT(60), <1>2, <1>7, <1>9 DEF Writing
    <2>2. /\ Len(log') \in Nat /\ Len(log) <= Len(log')
          /\ \A i \in 1..Len(log) : log'[i] = log[i]
          /\ quick' \in Nat /\ quick <= quick'
      BY <1>1, <1>6
    <2> QED BY ZenonT(60), <1>6, <2>1, <2>2, AnswerKept
  <1>15. OkMeansExecuted'
    BY ZenonT(60), <1>0, <1>2, <1>6, <1>7, <1>9 DEF OkMeansExecuted
  <1> QED BY ZenonT(60), <1>11, <1>12, <1>13, <1>14, <1>15 DEF ClientInv

LEMMA WakeStep ==
    ASSUME ClientInv, NEW c \in Client, Wake(c)
    PROVE  ClientInv'
  <1> DEFINE r == [client[c] EXCEPT !.pc = "awake"]
  <1>1. client[c] \in ClientType
    BY ZenonT(60) DEF ClientInv, TypeOK
  <1>2. /\ r \in ClientType /\ r.pc = "awake" /\ r.result = client[c].result
        /\ r.wrote = client[c].wrote /\ r.elem = client[c].elem
    BY ZenonT(60), <1>1 DEF ClientType, ClientState
  <1>3. To(c, r) /\ client[c].pc = "wait"
    BY ZenonT(60) DEF Wake
  <1> HIDE DEF r
  <1>4. /\ client' \in [Client -> ClientType]
        /\ client'[c] = r
        /\ \A d \in Client : d # c => client'[d] = client[d]
    BY ZenonT(60), <1>2, <1>3, Changed DEF ClientInv, TypeOK
  <1>5. TypeOK'
    BY ZenonT(60), <1>4 DEF ClientInv, TypeOK, Wake, logVars
  <1>6. LockInv' /\ PreCommitInv'
    BY ZenonT(60), <1>2, <1>3, ClientQuiet DEF Wake, Writing
  <1>7. AnswerInv'
    BY ZenonT(60), <1>2, <1>3, AnswerQuiet DEF Wake, Writing, Waiting
  <1>8. OkMeansExecuted'
    BY ZenonT(60), <1>2, <1>4 DEF ClientInv, OkMeansExecuted, Wake
  <1> QED BY ZenonT(60), <1>5, <1>6, <1>7, <1>8 DEF ClientInv

LEMMA ReturnStep ==
    ASSUME ClientInv, NEW c \in Client, Return(c)
    PROVE  ClientInv'
  <1> DEFINE code == elem[client[c].elem].code
             r == [client[c] EXCEPT !.pc = "done", !.result = code]
  <1>1. client[c] \in ClientType /\ client[c].pc = "leave" /\ To(c, r)
    BY ZenonT(60) DEF ClientInv, TypeOK, Return
  <1>2. code \in Code /\ (code = "OK" => <<Max(client[c].wrote), c>> \in executed)
    <2>1. /\ elem \in Seq(ElemType) /\ client[c].elem \in 1..Len(elem)
          /\ Answered(client[c].elem) => <<Max(client[c].wrote), c>> \in executed
      BY ZenonT(60), <1>1 DEF ClientInv, TypeOK, AnswerInv, ElemInv, WaiterInv, Waiting
    <2>2. elem[client[c].elem] \in ElemType
      BY <2>1
    <2> QED BY ZenonT(60), <2>1, <2>2 DEF Answered, ElemType
  <1>3. /\ r \in ClientType /\ r.pc = "done" /\ r.result = code
        /\ r.wrote = client[c].wrote /\ r.elem = client[c].elem
    BY ZenonT(60), <1>1, <1>2 DEF ClientType, ClientState
  <1> HIDE DEF r, code
  <1>4. /\ client' \in [Client -> ClientType]
        /\ client'[c] = r
        /\ \A d \in Client : d # c => client'[d] = client[d]
    BY ZenonT(60), <1>1, <1>3, Changed DEF ClientInv, TypeOK
  <1>5. TypeOK'
    BY ZenonT(60), <1>4 DEF ClientInv, TypeOK, Return, logVars
  <1>6. LockInv' /\ PreCommitInv'
    BY ZenonT(60), <1>1, <1>3, ClientQuiet DEF Return, Writing
  <1>7. AnswerInv'
    BY ZenonT(60), <1>1, <1>3, AnswerQuiet DEF Return, Writing, Waiting
  <1>8. OkMeansExecuted'
    BY ZenonT(60), <1>2, <1>3, <1>4 DEF ClientInv, OkMeansExecuted, Return
  <1> QED BY ZenonT(60), <1>5, <1>6, <1>7, <1>8 DEF ClientInv

LEMMA RunHandlerStep ==
    ASSUME ClientInv, NEW c \in Client, RunHandler(c)
    PROVE  ClientInv'
  <1> DEFINE code == elem[client[c].elem].async
             r == [client[c] EXCEPT !.pc = "done", !.result = code]
  <1>1. client[c] \in ClientType /\ client[c].pc = "wait" /\ To(c, r)
    BY ZenonT(60) DEF ClientInv, TypeOK, RunHandler
  <1>2. code \in Code /\ (code = "OK" => <<Max(client[c].wrote), c>> \in executed)
    BY ZenonT(60), <1>1 DEF ClientInv, AnswerInv, ElemInv, WaiterInv, Waiting, Answered, RunHandler, Code
  <1>3. /\ r \in ClientType /\ r.pc = "done" /\ r.result = code
        /\ r.wrote = client[c].wrote /\ r.elem = client[c].elem
    BY ZenonT(60), <1>1, <1>2 DEF ClientType, ClientState
  <1> HIDE DEF r, code
  <1>4. /\ client' \in [Client -> ClientType]
        /\ client'[c] = r
        /\ \A d \in Client : d # c => client'[d] = client[d]
    BY ZenonT(60), <1>1, <1>3, Changed DEF ClientInv, TypeOK
  <1>5. TypeOK'
    BY ZenonT(60), <1>4 DEF ClientInv, TypeOK, RunHandler, logVars
  <1>6. LockInv' /\ PreCommitInv'
    BY ZenonT(60), <1>1, <1>3, ClientQuiet DEF RunHandler, Writing
  <1>7. AnswerInv'
    BY ZenonT(60), <1>1, <1>3, AnswerQuiet DEF RunHandler, Writing, Waiting
  <1>8. OkMeansExecuted'
    BY ZenonT(60), <1>2, <1>3, <1>4 DEF ClientInv, OkMeansExecuted, RunHandler
  <1> QED BY ZenonT(60), <1>5, <1>6, <1>7, <1>8 DEF ClientInv

\* One elem is changed alone.
LEMMA ElemChanged ==
    ASSUME elem \in Seq(ElemType), NEW n \in DOMAIN elem, NEW x \in ElemType,
           elem' = [elem EXCEPT ![n] = x]
    PROVE  /\ elem' \in Seq(ElemType)
           /\ Len(elem') = Len(elem) /\ DOMAIN elem' = DOMAIN elem
           /\ elem'[n] = x
           /\ \A m \in DOMAIN elem : m # n => elem'[m] = elem[m]
  OBVIOUS

\* One elem is added.
LEMMA ElemAdded ==
    ASSUME elem \in Seq(ElemType), NEW x \in ElemType, elem' = Append(elem, x)
    PROVE  /\ elem' \in Seq(ElemType)
           /\ Len(elem) \in Nat /\ Len(elem') = Len(elem) + 1 /\ DOMAIN elem = 1..Len(elem)
           /\ DOMAIN elem' = 1..Len(elem) + 1
           /\ elem'[Len(elem) + 1] = x
           /\ \A m \in DOMAIN elem : elem'[m] = elem[m]
  OBVIOUS

LEMMA TakeResultStep ==
    ASSUME ClientInv, NEW c \in Client, TakeResult(c)
    PROVE  ClientInv'
  <1> DEFINE k == client[c].elem
             e == elem[k]
             x == [e EXCEPT !.callback_invoked = TRUE]
             r == [client[c] EXCEPT !.pc = "leave", !.value = e.value]
  <1>0. TypeOK /\ LockInv /\ PreCommitInv /\ AnswerInv /\ OkMeansExecuted
    BY ZenonT(60) DEF ClientInv
  <1>1. client[c] \in ClientType /\ client[c].pc = "awake" /\ To(c, r)
    BY ZenonT(60), <1>0 DEF TypeOK, TakeResult
  <1>2. elem \in Seq(ElemType) /\ k \in 1..Len(elem) /\ k \in DOMAIN elem
    <2>1. elem \in Seq(ElemType) /\ k \in 1..Len(elem)
      BY ZenonT(60), <1>0, <1>1 DEF TypeOK, AnswerInv, WaiterInv, Waiting
    <2> QED BY <2>1
  <1>3. e \in ElemType
    BY <1>2
  <1>4. /\ x \in ElemType /\ x.idx = e.idx /\ x.code = e.code /\ x.async = e.async
    BY ZenonT(60), <1>3 DEF ElemType
  <1>5. /\ r \in ClientType /\ r.pc = "leave" /\ r.result = client[c].result
        /\ r.wrote = client[c].wrote /\ r.elem = client[c].elem
    <2>1. e.value \in BOOLEAN /\ "leave" \in ClientState
      BY ZenonT(60), <1>3 DEF ElemType, ClientState
    <2> QED BY ZenonT(60), <1>1, <2>1 DEF ClientType
  <1>6. elem' = [elem EXCEPT ![k] = x]
    BY ZenonT(60) DEF TakeResult
  <1>7. /\ DOMAIN elems' \subseteq DOMAIN elems
        /\ \A i \in DOMAIN elems' : elems'[i] = elems[i]
    BY ZenonT(60) DEF TakeResult, Erase
  <1>8. UNCHANGED <<return_method, leader, logVars, sm, cli_lock, handler, committer, used,
                    precommitted, executed>>
    BY ZenonT(60) DEF TakeResult
  <1> HIDE DEF x, r, e
  <1>9. /\ elem' \in Seq(ElemType)
        /\ Len(elem') = Len(elem) /\ DOMAIN elem' = DOMAIN elem
        /\ elem'[k] = x
        /\ \A m \in DOMAIN elem : m # k => elem'[m] = elem[m]
    BY ZenonT(60), <1>2, <1>4, <1>6, ElemChanged
  <1>10. /\ client' \in [Client -> ClientType]
         /\ client'[c] = r
         /\ \A d \in Client : d # c => client'[d] = client[d]
    BY ZenonT(60), <1>0, <1>1, <1>5, Changed DEF TypeOK
  <1>11. \A m \in DOMAIN elem :
           elem'[m].idx = elem[m].idx /\ elem'[m].code = elem[m].code /\ elem'[m].async = elem[m].async
    BY ZenonT(60), <1>4, <1>9 DEF e
  <1>12. TypeOK'
    <2>1. \A i \in DOMAIN elems' : elems'[i] \in DOMAIN elem' /\ elem'[elems'[i]].idx = i
      BY <1>0, <1>7, <1>9, <1>11 DEF TypeOK
    <2> QED BY ZenonT(60), <1>0, <1>8, <1>9, <1>10, <2>1 DEF TypeOK, logVars
  <1>13. LockInv' /\ PreCommitInv'
    BY ZenonT(60), <1>1, <1>5, <1>8, ClientQuiet DEF Writing
  <1>14. AnswerInv'
    <2>1. \A m \in DOMAIN elem : Answered(m)' <=> Answered(m)
      BY ZenonT(60), <1>8, <1>11 DEF Answered
    <2>2. \A i \in DOMAIN elems : elems[i] \in DOMAIN elem
      BY ZenonT(60), <1>0 DEF TypeOK
    <2>3. \A d \in Client : client'[d].wrote = client[d].wrote /\ client'[d].elem = client[d].elem
      BY ZenonT(60), <1>5, <1>10
    <2>4. /\ leader' = leader /\ log' = log /\ quick' = quick /\ handler' = handler
          /\ committer' = committer /\ executed' = executed
      BY ZenonT(60), <1>8 DEF logVars
    <2>5. /\ (DOMAIN elems \subseteq 1..Len(log))'
          /\ (~leader /\ handler.todo # "drop" => DOMAIN elems \subseteq 1..quick)'
          /\ (committer.pc \in Executing => <<committer.idx, log[committer.idx]>> \in executed)'
      BY ZenonT(60), <1>0, <1>7, <2>4 DEF AnswerInv, ElemInv, WaiterInv
    <2>6. \A i \in DOMAIN elems' : ElemInv(i)'
      <3> SUFFICES ASSUME NEW i \in DOMAIN elems'
                   PROVE  ElemInv(i)'
        BY ZenonT(60)
      <3>1. i \in DOMAIN elems /\ elems'[i] = elems[i]
        BY ZenonT(60), <1>7
      <3> QED BY <1>0, <2>1, <2>2, <2>3, <2>4, <3>1 DEF AnswerInv, ElemInv, WaiterInv
    <2>7. \A d \in Client : WaiterInv(d)'
      <3> SUFFICES ASSUME NEW d \in Client
                   PROVE  WaiterInv(d)'
        BY ZenonT(60)
      <3>1. /\ client'[d].pc \in Waiting => client[d].pc \in Waiting
            /\ client'[d].pc \in {"idle"} \cup Writing => client'[d] = client[d]
        BY ZenonT(60), <1>1, <1>5, <1>10 DEF Writing, Waiting
      <3>2. client[d].elem \in 1..Len(elem) => client[d].elem \in DOMAIN elem
        BY <1>2
      <3> QED BY ZenonT(60), <1>0, <1>9, <2>1, <2>3, <2>4, <3>1, <3>2 DEF AnswerInv, ElemInv, WaiterInv
    <2> QED BY ZenonT(60), <2>5, <2>6, <2>7 DEF AnswerInv
  <1>15. OkMeansExecuted'
    BY ZenonT(60), <1>0, <1>5, <1>8, <1>10 DEF OkMeansExecuted
  <1> QED BY ZenonT(60), <1>12, <1>13, <1>14, <1>15 DEF ClientInv

LEMMA InsertElemStep ==
    ASSUME ClientInv, NEW c \in Client, InsertElem(c)
    PROVE  ClientInv'
  <1> DEFINE i == Max(client[c].wrote)
  <1>e. PICK e : e = IF i \in DOMAIN elems THEN elems[i] ELSE Len(elem) + 1
    BY ZenonT(60)
  <1> DEFINE r == [client[c] EXCEPT !.pc = "wait", !.elem = e]
  <1>0. TypeOK /\ LockInv /\ PreCommitInv /\ AnswerInv /\ OkMeansExecuted
    BY ZenonT(60) DEF ClientInv
  <1>1. /\ client[c] \in ClientType /\ client[c].pc = "insert" /\ To(c, r)
        /\ elem \in Seq(ElemType) /\ cli_lock' = None
    <2>1. client[c] \in ClientType /\ elem \in Seq(ElemType)
      BY ZenonT(60), <1>0 DEF TypeOK
    <2> QED BY ZenonT(60), <1>e, <2>1 DEF InsertElem
  <1>2. /\ i \in 1..Len(log) /\ log[i] = c /\ client[c].elem = 0 /\ client[c].result = "none"
        /\ cli_lock = c /\ leader
    BY ZenonT(60), <1>0, <1>1, ClientAssumption DEF PreCommitInv, WroteInv, AnswerInv, WaiterInv, LockInv, Writing
  <1>3. UNCHANGED <<return_method, leader, logVars, sm, handler, committer, used,
                    precommitted, executed>>
    BY ZenonT(60) DEF InsertElem
  <1>4. Len(elem) \in Nat /\ DOMAIN elem = 1..Len(elem)
    BY <1>1
  <1>5. /\ elem' \in Seq(ElemType) /\ Len(elem) <= Len(elem') /\ Len(elem') \in Nat
        /\ e \in 1..Len(elem') /\ DOMAIN elem' = 1..Len(elem')
        /\ DOMAIN elems' = DOMAIN elems \cup {i} /\ elems'[i] = e /\ elem'[e].idx = i
        /\ \A j \in DOMAIN elems : elems'[j] = elems[j]
        /\ \A m \in DOMAIN elem :
             /\ elem'[m].idx = elem[m].idx /\ elem'[m].code = elem[m].code
             /\ elem'[m].async = "OK" <=> elem[m].async = "OK"
        /\ e \notin DOMAIN elem => elem'[e].code # "OK" /\ elem'[e].async # "OK"
        /\ i \notin DOMAIN elems => e \notin DOMAIN elem
    <2>1. CASE i \in DOMAIN elems
      <3> DEFINE a == IF Async /\ elem[e].async = "null" THEN "empty" ELSE elem[e].async
                 x == [elem[e] EXCEPT !.async = a]
      <3>1. e = elems[i] /\ e \in DOMAIN elem /\ elem[e].idx = i
        BY ZenonT(60), <1>e, <1>0, <2>1 DEF TypeOK
      <3>2. elem[e] \in ElemType
        BY <1>1, <3>1
      <3>3. /\ a \in {"null", "empty", "OK", "CANCELLED"}
            /\ a = "OK" <=> elem[e].async = "OK"
        BY ZenonT(60), <3>2 DEF ElemType
      <3>4. elem' = [elem EXCEPT ![e].async = IF Async /\ @ = "null" THEN "empty" ELSE @]
            /\ elems' = elems
        BY ZenonT(60), <2>1, <3>1 DEF InsertElem
      <3>5. elem' = [elem EXCEPT ![e] = x]
        BY ZenonT(60), <3>4
      <3> HIDE DEF a
      <3>6. /\ x \in ElemType /\ x.idx = elem[e].idx /\ x.code = elem[e].code /\ x.async = a
        BY ZenonT(60), <3>2, <3>3 DEF ElemType
      <3> HIDE DEF x
      <3>7. /\ elem' \in Seq(ElemType)
            /\ Len(elem') = Len(elem) /\ DOMAIN elem' = DOMAIN elem
            /\ elem'[e] = x
            /\ \A m \in DOMAIN elem : m # e => elem'[m] = elem[m]
        BY ZenonT(60), <1>1, <3>1, <3>5, <3>6, ElemChanged
      <3>8. \A m \in DOMAIN elem :
              /\ elem'[m].idx = elem[m].idx /\ elem'[m].code = elem[m].code
              /\ elem'[m].async = "OK" <=> elem[m].async = "OK"
        BY ZenonT(60), <3>3, <3>6, <3>7
      <3>9. DOMAIN elems' = DOMAIN elems \cup {i} /\ elems'[i] = e
        BY ZenonT(60), <2>1, <3>1, <3>4
      <3>10. Len(elem) <= Len(elem') /\ Len(elem') \in Nat /\ e \in 1..Len(elem')
        BY <1>4, <3>1, <3>7
      <3>11. elem'[e].idx = i /\ DOMAIN elem' = 1..Len(elem')
        BY ZenonT(60), <1>4, <3>1, <3>6, <3>7
      <3> QED BY ZenonT(60), <2>1, <3>1, <3>4, <3>7, <3>8, <3>9, <3>10, <3>11
    <2>2. CASE i \notin DOMAIN elems
      <3> DEFINE x == NewElem(i)
      <3>1. e = Len(elem) + 1
        BY ZenonT(60), <1>e, <2>2
      <3>2. x \in ElemType /\ x.idx = i /\ x.code # "OK" /\ x.async # "OK"
        BY <1>2 DEF NewElem, Elem, ElemType, Code
      <3>3. elem' = Append(elem, x) /\ elems' = Put(elems, i, e)
        BY ZenonT(60), <2>2, <3>1 DEF InsertElem
      <3> HIDE DEF x
      <3>4. /\ elem' \in Seq(ElemType)
            /\ Len(elem) \in Nat /\ Len(elem') = Len(elem) + 1 /\ DOMAIN elem = 1..Len(elem)
            /\ DOMAIN elem' = 1..Len(elem) + 1
            /\ elem'[Len(elem) + 1] = x
            /\ \A m \in DOMAIN elem : elem'[m] = elem[m]
        BY ZenonT(60), <1>1, <3>2, <3>3, ElemAdded
      <3>5. /\ DOMAIN elems' = DOMAIN elems \cup {i} /\ elems'[i] = e
            /\ \A j \in DOMAIN elems : elems'[j] = elems[j]
        BY ZenonT(60), <2>2, <3>3 DEF Put
      <3>6. e \notin DOMAIN elem /\ e \in 1..Len(elem') /\ Len(elem) <= Len(elem')
        BY <3>1, <3>4
      <3> QED BY <2>2, <3>1, <3>2, <3>4, <3>5, <3>6
    <2> QED BY ZenonT(60), <2>1, <2>2
  <1>6. /\ r \in ClientType /\ r.pc = "wait" /\ r.wrote = client[c].wrote
        /\ r.elem = e /\ r.result = client[c].result
    <2>1. e \in Nat /\ "wait" \in ClientState
      BY <1>5 DEF ClientState
    <2> QED BY ZenonT(60), <1>1, <2>1 DEF ClientType
  <1> HIDE DEF i, r
  <1>7. /\ client' \in [Client -> ClientType]
        /\ client'[c] = r
        /\ \A d \in Client : d # c => client'[d] = client[d]
    BY ZenonT(60), <1>0, <1>1, <1>6, Changed DEF TypeOK
  <1>8. \A d \in Client : d # c => client[d].pc \notin Writing
    BY ZenonT(60), <1>0, <1>2 DEF LockInv
  <1>9. /\ leader' = leader /\ log' = log /\ quick' = quick /\ precommit' = precommit
        /\ handler' = handler /\ committer' = committer /\ executed' = executed
        /\ precommitted' = precommitted
    BY ZenonT(60), <1>3 DEF logVars
  <1>10. TypeOK'
    <2>1. \A j \in DOMAIN elems' : elems'[j] \in DOMAIN elem' /\ elem'[elems'[j]].idx = j
      <3> SUFFICES ASSUME NEW j \in DOMAIN elems'
                   PROVE  elems'[j] \in DOMAIN elem' /\ elem'[elems'[j]].idx = j
        BY ZenonT(60)
      <3>1. CASE j = i
        BY ZenonT(60), <1>5, <3>1
      <3>2. CASE j \in DOMAIN elems
        <4>1. elems'[j] = elems[j] /\ elems[j] \in DOMAIN elem /\ elem[elems[j]].idx = j
          BY ZenonT(60), <1>0, <1>5, <3>2 DEF TypeOK
        <4> QED BY <1>4, <1>5, <4>1
      <3> QED BY ZenonT(60), <1>5, <3>1, <3>2
    <2>2. committer'.todo \in 0..Len(elem')
      BY <1>0, <1>4, <1>5, <1>9 DEF TypeOK
    <2> QED BY ZenonT(60), <1>0, <1>1, <1>3, <1>5, <1>7, <2>1, <2>2 DEF TypeOK, logVars
  <1>11. LockInv'
    <2>1. \A d \in Client : client'[d].pc \notin Writing
      BY ZenonT(60), <1>6, <1>7, <1>8 DEF Writing
    <2>2. \A d \in Client : None # d
      BY ZenonT(60), ClientAssumption
    <2>3. handler.todo # "append_conf" /\ None # "handler"
      BY ZenonT(60), <1>0, <1>2, LockAssumption DEF LockInv
    <2> QED BY ZenonT(60), <1>1, <1>9, <2>1, <2>2, <2>3 DEF LockInv
  <1>12. PreCommitInv'
    <2>1. \A d \in Client : WroteInv(d)'
      <3> SUFFICES ASSUME NEW d \in Client
                   PROVE  WroteInv(d)'
        BY ZenonT(60)
      <3>1. CASE d = c
        BY ZenonT(60), <1>6, <1>7, <3>1 DEF WroteInv, Writing
      <3>2. CASE d # c
        <4>1. client'[d] = client[d] /\ WroteInv(d)
          BY ZenonT(60), <1>0, <1>7, <3>2 DEF PreCommitInv
        <4> QED BY ZenonT(60), <1>9, <4>1 DEF WroteInv
      <3> QED BY ZenonT(60), <3>1, <3>2
    <2>2. \A j \in 1..Len(log') : Covered(j)'
      BY ZenonT(60), <1>0, <1>1, <1>7, <1>9 DEF PreCommitInv, Covered
    <2> QED BY ZenonT(60), <1>0, <1>9, <2>1, <2>2 DEF PreCommitInv
  <1>13. AnswerInv'
    <2>1. \A m \in DOMAIN elem : Answered(m)' <=> Answered(m)
      BY ZenonT(60), <1>5, <1>9 DEF Answered
    <2>2. e \notin DOMAIN elem => ~Answered(e)'
      <3>1. committer.todo \in DOMAIN elem \cup {0}
        BY <1>0, <1>4 DEF TypeOK
      <3>2. e # 0
        BY <1>5
      <3> QED BY ZenonT(60), <1>5, <1>9, <3>1, <3>2 DEF Answered
    <2>3. Answered(e)' => i <= quick /\ <<i, log[i]>> \in executed
      <3> SUFFICES ASSUME e \in DOMAIN elem, Answered(e), i \in DOMAIN elems
                   PROVE  i <= quick /\ <<i, log[i]>> \in executed
        BY ZenonT(60), <1>5, <2>1, <2>2
      <3>1. elems[i] = e
        BY ZenonT(60), <1>e
      <3> QED BY ZenonT(60), <1>0, <3>1 DEF AnswerInv, ElemInv
    <2>4. /\ (DOMAIN elems \subseteq 1..Len(log))'
          /\ (~leader /\ handler.todo # "drop" => DOMAIN elems \subseteq 1..quick)'
          /\ (committer.pc \in Executing => <<committer.idx, log[committer.idx]>> \in executed)'
      BY ZenonT(60), <1>0, <1>2, <1>5, <1>9 DEF AnswerInv
    <2>5. \A j \in DOMAIN elems' : ElemInv(j)'
      <3> SUFFICES ASSUME NEW j \in DOMAIN elems'
                   PROVE  ElemInv(j)'
        BY ZenonT(60)
      <3>1. CASE j = i
        <4>1. elems'[j] = e
          BY ZenonT(60), <1>5, <3>1
        <4>2. \A d \in Client : client'[d].elem = e => log[i] = d /\ Max(client'[d].wrote) = i
          <5> SUFFICES ASSUME NEW d \in Client, client'[d].elem = e
                       PROVE  log[i] = d /\ Max(client'[d].wrote) = i
            BY ZenonT(60)
          <5>1. CASE d = c
            BY ZenonT(60), <1>2, <1>6, <1>7, <5>1 DEF i
          <5>2. CASE d # c
            <6>1. client'[d] = client[d] /\ client[d].elem = e
              BY ZenonT(60), <1>7, <5>2
            <6>2. e \in DOMAIN elem
              <7>1. WaiterInv(d)
                BY ZenonT(60), <1>0 DEF AnswerInv
              <7>2. e <= Len(elem)
                BY ZenonT(60), <6>1, <7>1 DEF WaiterInv
              <7>3. e \in Int /\ 1 <= e
                BY <1>5
              <7> QED BY <1>4, <7>2, <7>3
            <6>3. i \in DOMAIN elems /\ elems[i] = e
              BY ZenonT(60), <1>5, <6>2
            <6> QED BY ZenonT(60), <1>0, <6>1, <6>3 DEF AnswerInv, ElemInv
          <5> QED BY ZenonT(60), <5>1, <5>2
        <4> QED BY ZenonT(60), <1>9, <2>3, <3>1, <4>1, <4>2 DEF ElemInv
      <3>2. CASE j \in DOMAIN elems /\ j # i
        <4>1. elems'[j] = elems[j] /\ elems[j] \in DOMAIN elem /\ elem[elems[j]].idx = j /\ ElemInv(j)
          BY ZenonT(60), <1>0, <1>5, <3>2 DEF TypeOK, AnswerInv
        <4>2. elems[j] # e
          BY ZenonT(60), <1>5, <3>2, <4>1
        <4>3. \A d \in Client : client'[d].elem = elems[j] => client'[d] = client[d]
          BY ZenonT(60), <1>6, <1>7, <4>2
        <4> QED BY ZenonT(60), <1>9, <2>1, <4>1, <4>3 DEF ElemInv
      <3> QED BY ZenonT(60), <1>5, <3>1, <3>2
    <2>6. \A d \in Client : WaiterInv(d)'
      <3> SUFFICES ASSUME NEW d \in Client
                   PROVE  WaiterInv(d)'
        BY ZenonT(60)
      <3>1. CASE d = c
        <4>1. client'[d].elem = e /\ client'[d].pc = "wait" /\ Max(client'[d].wrote) = i
          BY ZenonT(60), <1>6, <1>7, <3>1 DEF i
        <4>2. Answered(e)' => <<i, c>> \in executed
          BY ZenonT(60), <1>2, <2>3
        <4>3. client'[d].pc \notin {"idle"} \cup Writing /\ e <= Len(elem')
          BY <1>5, <4>1 DEF Writing
        <4> QED BY ZenonT(60), <1>5, <1>9, <3>1, <4>1, <4>2, <4>3 DEF WaiterInv
      <3>2. CASE d # c
        <4>1. client'[d] = client[d] /\ WaiterInv(d) /\ client[d].elem \in Nat
          BY ZenonT(60), <1>0, <1>7, <3>2 DEF AnswerInv, TypeOK, ClientType
        <4>2. client[d].elem <= Len(elem')
          BY <1>4, <1>5, <4>1 DEF WaiterInv
        <4>3. client[d].elem \in 1..Len(elem) =>
                client[d].elem \in DOMAIN elem /\ client[d].elem \in 1..Len(elem')
          BY <1>4, <1>5
        <4> QED BY ZenonT(60), <1>9, <2>1, <4>1, <4>2, <4>3 DEF WaiterInv
      <3> QED BY ZenonT(60), <3>1, <3>2
    <2> QED BY ZenonT(60), <2>4, <2>5, <2>6 DEF AnswerInv
  <1>14. OkMeansExecuted'
    BY ZenonT(60), <1>0, <1>6, <1>7, <1>9 DEF OkMeansExecuted
  <1> QED BY ZenonT(60), <1>10, <1>11, <1>12, <1>13, <1>14 DEF ClientInv

-----------------------------------------------------------------------------
(* The commit thread.                                                      *)

\* A step of the commit thread changes neither the locks nor the log.
LEMMA CommitterQuiet ==
    ASSUME ClientInv, committer'.pc \in Executing => committer'.idx \in 1..quick,
           UNCHANGED <<leader, logVars, cli_lock, handler, client, precommitted>>
    PROVE  LockInv' /\ PreCommitInv'
  <1>1. /\ leader' = leader /\ log' = log /\ precommit' = precommit /\ quick' = quick
        /\ cli_lock' = cli_lock /\ handler' = handler /\ client' = client
        /\ precommitted' = precommitted
    BY ZenonT(60) DEF logVars
  <1>2. LockInv'
    BY <1>1 DEF ClientInv, LockInv
  <1>3. \A c \in Client : WroteInv(c)'
    BY ZenonT(60), <1>1 DEF ClientInv, PreCommitInv, WroteInv
  <1>4. \A i \in 1..Len(log') : Covered(i)'
    BY ZenonT(60), <1>1 DEF ClientInv, PreCommitInv, Covered
  <1>5. PreCommitInv'
    BY <1>1, <1>3, <1>4 DEF ClientInv, PreCommitInv
  <1> QED BY ZenonT(60), <1>2, <1>5

\* The steps that neither execute nor answer.
LEMMA CommitterIdles ==
    ASSUME ClientInv, committer' \in CommitterType, committer'.todo \in 0..Len(elem),
           committer'.pc \notin Executing, sm' \in Nat,
           UNCHANGED <<return_method, leader, logVars, cli_lock, handler, elem, elems, client,
                       used, precommitted, executed>>
    PROVE  ClientInv'
  <1>1. TypeOK'
    BY ZenonT(60) DEF ClientInv, TypeOK, logVars
  <1>2. LockInv' /\ PreCommitInv'
    BY ZenonT(60), CommitterQuiet
  <1>3. AnswerInv'
    <2>1. /\ Len(log') \in Nat /\ Len(log) <= Len(log')
          /\ \A i \in 1..Len(log) : log'[i] = log[i]
          /\ quick' \in Nat /\ quick <= quick'
      BY DEF ClientInv, TypeOK, logVars
    <2> QED BY ZenonT(60), <2>1, AnswerKept
  <1>4. OkMeansExecuted'
    BY ZenonT(60) DEF ClientInv, OkMeansExecuted
  <1> QED BY ZenonT(60), <1>1, <1>2, <1>3, <1>4 DEF ClientInv

LEMMA ExecStep ==
    ASSUME ClientInv, StartExec \/ EndExec \/ Advance
    PROVE  ClientInv'
  <1>1. /\ committer \in CommitterType /\ committer.todo \in 0..Len(elem) /\ sm \in Nat
        /\ Len(elem) \in Nat /\ leader \in BOOLEAN
    BY DEF ClientInv, TypeOK
  <1>2. CASE StartExec
    <2>1. committer' \in CommitterType /\ committer'.pc = "loop" /\ committer'.todo = 0
      BY ZenonT(60), <1>1, <1>2 DEF StartExec, Idle, CommitterType
    <2> QED BY <1>1, <1>2, <2>1, CommitterIdles DEF StartExec, Executing
  <1>3. CASE EndExec
    <2>1. committer' \in CommitterType /\ committer'.pc = "idle" /\ committer'.todo = 0
      BY ZenonT(60), <1>3 DEF EndExec, Idle, CommitterType
    <2> QED BY <1>1, <1>3, <2>1, CommitterIdles DEF EndExec, Executing
  <1>4. CASE Advance
    <2>1. /\ committer' \in CommitterType /\ committer'.pc = "loop"
          /\ committer'.todo = committer.todo
      BY ZenonT(60), <1>1, <1>4 DEF Advance, CommitterType
    <2>2. sm' \in Nat
      BY ZenonT(60), <1>1, <1>4 DEF Advance, CommitterType
    <2> QED BY ZenonT(60), <1>1, <1>4, <2>1, <2>2, CommitterIdles DEF Advance, Executing
  <1> QED BY ZenonT(60), <1>2, <1>3, <1>4

LEMMA ExecuteStep ==
    ASSUME ClientInv, Execute
    PROVE  ClientInv'
  <1>0. TypeOK /\ LockInv /\ PreCommitInv /\ AnswerInv /\ OkMeansExecuted
    BY ZenonT(60) DEF ClientInv
  <1>1. /\ committer \in CommitterType /\ committer.todo \in 0..Len(elem)
        /\ sm \in Nat /\ quick \in Nat /\ precommit \in Nat /\ sm < quick
    BY ZenonT(60), <1>0 DEF TypeOK, Execute
  <1>2. PICK p \in {"answer", "advance"} :
          committer' = [committer EXCEPT !.pc = p, !.idx = sm + 1, !.pc_idx = precommit]
    BY ZenonT(60) DEF Execute
  <1>3. /\ committer' \in CommitterType /\ committer'.pc \in {"answer", "advance"}
        /\ committer'.idx = sm + 1 /\ committer'.todo = committer.todo
    <2>1. sm + 1 \in Nat /\ p \in {"idle", "loop", "answer", "notify", "advance"}
      BY <1>1
    <2> QED BY ZenonT(60), <1>1, <1>2, <2>1 DEF CommitterType
  <1>4. /\ executed' = executed \cup {<<sm + 1, log[sm + 1]>>}
        /\ return_method' = return_method
        /\ leader' = leader /\ log' = log /\ quick' = quick /\ precommit' = precommit
        /\ handler' = handler /\ elem' = elem /\ elems' = elems /\ client' = client /\ sm' = sm
        /\ cli_lock' = cli_lock /\ precommitted' = precommitted
    BY ZenonT(60) DEF Execute, logVars
  <1>5. TypeOK'
    BY ZenonT(60), <1>0, <1>1, <1>3, <1>4 DEF TypeOK
  <1>6. LockInv' /\ PreCommitInv'
    <2>1. committer'.idx \in 1..quick
      BY <1>1, <1>3
    <2> QED BY ZenonT(60), <1>4, <2>1, CommitterQuiet DEF logVars
  <1>7. AnswerInv'
    <2>1. \A e : Answered(e)' => Answered(e)
      BY ZenonT(60), <1>3, <1>4 DEF Answered
    <2>2. \A i \in DOMAIN elems' : ElemInv(i)'
      BY ZenonT(60), <1>0, <1>4, <2>1 DEF AnswerInv, ElemInv
    <2>3. \A c \in Client : WaiterInv(c)'
      BY ZenonT(60), <1>0, <1>4, <2>1 DEF AnswerInv, WaiterInv
    <2> QED BY ZenonT(60), <1>0, <1>3, <1>4, <2>2, <2>3 DEF AnswerInv
  <1>8. OkMeansExecuted'
    BY ZenonT(60), <1>0, <1>4 DEF OkMeansExecuted
  <1> QED BY ZenonT(60), <1>5, <1>6, <1>7, <1>8 DEF ClientInv

LEMMA NotifyStep ==
    ASSUME ClientInv, Notify
    PROVE  ClientInv'
  <1>0. TypeOK /\ LockInv /\ PreCommitInv /\ AnswerInv /\ OkMeansExecuted
    BY ZenonT(60) DEF ClientInv
  <1>k. PICK k : k = committer.todo
    BY ZenonT(60)
  <1>1. /\ committer \in CommitterType /\ committer.pc = "notify" /\ k \in 0..Len(elem)
        /\ elem \in Seq(ElemType) /\ Len(elem) \in Nat /\ DOMAIN elem = 1..Len(elem)
        /\ committer' = [committer EXCEPT !.pc = "advance", !.todo = 0]
    BY <1>0, <1>k DEF TypeOK, Notify
  <1>2. /\ committer' \in CommitterType /\ committer'.pc = "advance"
        /\ committer'.idx = committer.idx /\ committer'.todo = 0
    BY ZenonT(60), <1>1 DEF CommitterType
  <1>3. /\ leader' = leader /\ log' = log /\ quick' = quick /\ precommit' = precommit
        /\ handler' = handler /\ elems' = elems /\ client' = client /\ sm' = sm
        /\ cli_lock' = cli_lock /\ precommitted' = precommitted /\ executed' = executed
        /\ return_method' = return_method
    BY ZenonT(60) DEF Notify, logVars
  <1>4. /\ elem' \in Seq(ElemType) /\ Len(elem') = Len(elem) /\ DOMAIN elem' = DOMAIN elem
        /\ \A m \in DOMAIN elem :
             /\ elem'[m].idx = elem[m].idx
             /\ elem'[m].code = "OK" \/ elem'[m].async = "OK" => Answered(m)
    <2>1. CASE k \in DOMAIN elem
      <3> DEFINE x == [elem[k] EXCEPT !.async = "OK"]
      <3>1. elem[k] \in ElemType
        BY <1>1, <2>1
      <3>2. x \in ElemType /\ x.idx = elem[k].idx
        BY ZenonT(60), <3>1 DEF ElemType
      <3>3. elem' = [elem EXCEPT ![k] = x]
        BY ZenonT(60), <1>k DEF Notify
      <3> HIDE DEF x
      <3>4. /\ elem' \in Seq(ElemType)
            /\ Len(elem') = Len(elem) /\ DOMAIN elem' = DOMAIN elem
            /\ elem'[k] = x
            /\ \A m \in DOMAIN elem : m # k => elem'[m] = elem[m]
        BY ZenonT(60), <1>1, <2>1, <3>2, <3>3, ElemChanged
      <3>5. Answered(k)
        BY ZenonT(60), <1>k, <1>1 DEF Answered
      <3> QED BY ZenonT(60), <3>2, <3>4, <3>5 DEF Answered
    <2>2. CASE k \notin DOMAIN elem
      <3>1. elem' = elem
        BY <1>k, <1>1, <2>2 DEF Notify
      <3> QED BY ZenonT(60), <1>1, <3>1 DEF Answered
    <2> QED BY ZenonT(60), <2>1, <2>2
  <1>5. TypeOK'
    <2>1. \A j \in DOMAIN elems' : elems'[j] \in DOMAIN elem' /\ elem'[elems'[j]].idx = j
      BY ZenonT(60), <1>0, <1>3, <1>4 DEF TypeOK
    <2>2. committer'.todo \in 0..Len(elem')
      BY <1>1, <1>2, <1>4
    <2> QED BY ZenonT(60), <1>0, <1>2, <1>3, <1>4, <2>1, <2>2 DEF TypeOK
  <1>6. committer.pc \in Executing
    BY ZenonT(60), <1>1 DEF Executing
  <1>7. LockInv' /\ PreCommitInv'
    <2>1. committer'.idx \in 1..quick
      BY ZenonT(60), <1>0, <1>2, <1>6 DEF PreCommitInv
    <2> QED BY ZenonT(60), <1>3, <2>1, CommitterQuiet DEF logVars
  <1>8. AnswerInv'
    <2>1. \A m \in DOMAIN elem : Answered(m)' => Answered(m)
      BY ZenonT(60), <1>2, <1>4 DEF Answered
    <2>2. \A i \in DOMAIN elems : elems[i] \in DOMAIN elem
      BY ZenonT(60), <1>0 DEF TypeOK
    <2>3. \A i \in DOMAIN elems' : ElemInv(i)'
      BY ZenonT(60), <1>0, <1>3, <2>1, <2>2 DEF AnswerInv, ElemInv
    <2>4. \A c \in Client : WaiterInv(c)'
      BY ZenonT(60), <1>0, <1>1, <1>3, <1>4, <2>1 DEF AnswerInv, WaiterInv
    <2> QED BY ZenonT(60), <1>0, <1>2, <1>3, <1>6, <2>3, <2>4 DEF AnswerInv
  <1>9. OkMeansExecuted'
    BY ZenonT(60), <1>0, <1>3 DEF OkMeansExecuted
  <1> QED BY ZenonT(60), <1>5, <1>7, <1>8, <1>9 DEF ClientInv

LEMMA AnswerFoundStep ==
    ASSUME ClientInv, Answer, committer.idx \in DOMAIN elems
    PROVE  ClientInv'
  <1>0. TypeOK /\ LockInv /\ PreCommitInv /\ AnswerInv /\ OkMeansExecuted
    BY ZenonT(60) DEF ClientInv
  <1>i. PICK i : i = committer.idx
    BY ZenonT(60)
  <1>e. PICK e : e = elems[i]
    BY ZenonT(60)
  <1> DEFINE gone == elem[e].callback_invoked
             x == [elem[e] EXCEPT !.code = "OK", !.value = TRUE, 
                                      !.ready = elem[e].ready \/ ~(Async \/ gone)]
  <1>1. /\ committer \in CommitterType /\ committer.pc = "answer" /\ committer.pc \in Executing
        /\ elem \in Seq(ElemType) /\ Len(elem) \in Nat /\ DOMAIN elem = 1..Len(elem)
        /\ i \in DOMAIN elems /\ e \in DOMAIN elem /\ elem[e].idx = i
    BY <1>0, <1>i, <1>e DEF TypeOK, Answer, Executing
  <1>2. i \in 1..quick /\ <<i, log[i]>> \in executed /\ ElemInv(i)
    BY ZenonT(60), <1>0, <1>i, <1>1 DEF PreCommitInv, AnswerInv
  <1>3. /\ elem' = [elem EXCEPT ![e] = x]
        /\ elems' = IF Async \/ gone THEN Erase(elems, i) ELSE elems
        /\ committer' = IF Async THEN [committer EXCEPT !.pc = "notify", !.todo = e]
                        ELSE [committer EXCEPT !.pc = "advance"]
    <2>1. AnswerFound(i)
      BY ZenonT(60), <1>i DEF Answer
    <2>2. elem' = [elem EXCEPT ![e] = x]
      BY ZenonT(60), <1>e, <2>1 DEF AnswerFound
    <2>3. elems' = IF Async \/ gone THEN Erase(elems, i) ELSE elems
      BY ZenonT(60), <1>e, <2>1 DEF AnswerFound
    <2>4. committer' = IF Async THEN [committer EXCEPT !.pc = "notify", !.todo = e]
                       ELSE [committer EXCEPT !.pc = "advance"]
      BY ZenonT(60), <1>e, <2>1 DEF AnswerFound
    <2> QED BY ZenonT(60), <2>2, <2>3, <2>4
  <1>4. elem[e] \in ElemType
    BY <1>1
  <1>5. x \in ElemType /\ x.idx = i
    <2>1. (elem[e].ready \/ ~(Async \/ gone)) \in BOOLEAN /\ "OK" \in Code
      BY ZenonT(60) DEF Code
    <2> QED BY ZenonT(60), <1>1, <1>4, <2>1 DEF ElemType
  <1>6. /\ committer' \in CommitterType /\ committer'.pc \in {"notify", "advance"}
        /\ committer'.idx = i /\ committer'.todo \in 0..Len(elem)
        /\ committer'.pc = "notify" => committer'.todo = e
    <2>1. committer.todo \in 0..Len(elem) /\ e \in 0..Len(elem) /\ e \in Nat
      BY <1>0, <1>1 DEF TypeOK
    <2>2. CASE Async
      <3>1. committer' = [committer EXCEPT !.pc = "notify", !.todo = e]
        BY ZenonT(60), <1>3, <2>2
      <3> QED BY ZenonT(60), <1>i, <1>1, <2>1, <3>1 DEF CommitterType
    <2>3. CASE ~Async
      <3>1. committer' = [committer EXCEPT !.pc = "advance"]
        BY ZenonT(60), <1>3, <2>3
      <3> QED BY ZenonT(60), <1>i, <1>1, <2>1, <3>1 DEF CommitterType
    <2> QED BY ZenonT(60), <2>2, <2>3
  <1>7. /\ DOMAIN elems' \subseteq DOMAIN elems
        /\ \A j \in DOMAIN elems' : elems'[j] = elems[j]
    BY ZenonT(60), <1>3 DEF Erase
  <1>8. /\ leader' = leader /\ log' = log /\ quick' = quick /\ precommit' = precommit
        /\ handler' = handler /\ client' = client /\ sm' = sm
        /\ cli_lock' = cli_lock /\ precommitted' = precommitted /\ executed' = executed
        /\ return_method' = return_method
    BY ZenonT(60) DEF Answer, logVars
  <1> HIDE DEF x, gone
  <1>9. /\ elem' \in Seq(ElemType)
        /\ Len(elem') = Len(elem) /\ DOMAIN elem' = DOMAIN elem
        /\ elem'[e] = x
        /\ \A m \in DOMAIN elem : m # e => elem'[m] = elem[m]
    BY ZenonT(60), <1>1, <1>3, <1>5, ElemChanged
  <1>10. TypeOK'
    <2>1. \A j \in DOMAIN elems' : elems'[j] \in DOMAIN elem' /\ elem'[elems'[j]].idx = j
      BY ZenonT(60), <1>0, <1>1, <1>5, <1>7, <1>9 DEF TypeOK
    <2> QED BY ZenonT(60), <1>0, <1>6, <1>8, <1>9, <2>1 DEF TypeOK
  <1>11. LockInv' /\ PreCommitInv'
    BY ZenonT(60), <1>2, <1>6, <1>8, CommitterQuiet DEF logVars
  <1>12. AnswerInv'
    <2>1. \A m \in DOMAIN elem : Answered(m)' => m = e \/ Answered(m)
      BY ZenonT(60), <1>6, <1>9 DEF Answered
    <2>2. /\ (DOMAIN elems \subseteq 1..Len(log))'
          /\ (~leader /\ handler.todo # "drop" => DOMAIN elems \subseteq 1..quick)'
          /\ (committer.pc \in Executing => <<committer.idx, log[committer.idx]>> \in executed)'
      BY ZenonT(60), <1>0, <1>2, <1>6, <1>7, <1>8 DEF AnswerInv
    <2>3. \A j \in DOMAIN elems' : ElemInv(j)'
      <3> SUFFICES ASSUME NEW j \in DOMAIN elems'
                   PROVE  ElemInv(j)'
        BY ZenonT(60)
      <3>1. /\ elems'[j] = elems[j] /\ elems[j] \in DOMAIN elem
            /\ elem[elems[j]].idx = j /\ ElemInv(j)
        BY ZenonT(60), <1>0, <1>7 DEF TypeOK, AnswerInv
      <3>2. elems[j] = e => j <= quick /\ <<j, log[j]>> \in executed
        BY <1>1, <1>2, <3>1
      <3> QED BY ZenonT(60), <1>8, <2>1, <3>1, <3>2 DEF ElemInv
    <2>4. \A c \in Client : WaiterInv(c)'
      <3> SUFFICES ASSUME NEW c \in Client
                   PROVE  WaiterInv(c)'
        BY ZenonT(60)
      <3>1. client[c].elem = e => <<Max(client[c].wrote), c>> \in executed
        BY ZenonT(60), <1>e, <1>2 DEF ElemInv
      <3>2. WaiterInv(c)
        BY ZenonT(60), <1>0 DEF AnswerInv
      <3> QED BY ZenonT(60), <1>1, <1>8, <1>9, <2>1, <3>1, <3>2 DEF WaiterInv
    <2> QED BY ZenonT(60), <2>2, <2>3, <2>4 DEF AnswerInv
  <1>13. OkMeansExecuted'
    BY ZenonT(60), <1>0, <1>8 DEF OkMeansExecuted
  <1> QED BY ZenonT(60), <1>10, <1>11, <1>12, <1>13 DEF ClientInv

LEMMA AnswerAbsentStep ==
    ASSUME ClientInv, Answer, committer.idx \notin DOMAIN elems
    PROVE  ClientInv'
  <1>0. TypeOK /\ LockInv /\ PreCommitInv /\ AnswerInv /\ OkMeansExecuted
    BY ZenonT(60) DEF ClientInv
  <1>i. PICK i : i = committer.idx
    BY ZenonT(60)
  <1>e. PICK e : e = Len(elem) + 1
    BY ZenonT(60)
  <1>1. /\ committer \in CommitterType /\ committer.pc = "answer" /\ committer.pc \in Executing
        /\ elem \in Seq(ElemType) /\ Len(elem) \in Nat /\ DOMAIN elem = 1..Len(elem)
        /\ i \notin DOMAIN elems /\ committer.todo \in 0..Len(elem)
    BY <1>0, <1>i DEF TypeOK, Answer, Executing
  <1>2. i \in 1..quick /\ i \in 1..Len(log) /\ <<i, log[i]>> \in executed /\ i \in Nat \ {0}
    BY <1>0, <1>i, <1>1 DEF PreCommitInv, AnswerInv, TypeOK
  <1>3. /\ committer' \in CommitterType /\ committer'.pc = "advance"
        /\ committer'.idx = i /\ committer'.todo = committer.todo
    BY ZenonT(60), <1>i, <1>1 DEF Answer, AnswerAbsent, CommitterType
  <1>4. /\ leader' = leader /\ log' = log /\ quick' = quick /\ precommit' = precommit
        /\ handler' = handler /\ client' = client /\ sm' = sm
        /\ cli_lock' = cli_lock /\ precommitted' = precommitted /\ executed' = executed
        /\ return_method' = return_method
    BY ZenonT(60) DEF Answer, logVars
  <1>5. /\ elem' \in Seq(ElemType) /\ Len(elem) <= Len(elem') /\ Len(elem') \in Nat
        /\ DOMAIN elem' = 1..Len(elem') /\ \A m \in DOMAIN elem : elem'[m] = elem[m]
        /\ \A j \in DOMAIN elems' :
             \/ j \in DOMAIN elems /\ elems'[j] = elems[j]
             \/ /\ j = i /\ elems'[j] = e /\ e \notin DOMAIN elem
                /\ e \in DOMAIN elem' /\ elem'[e].idx = i
    <2>1. CASE i = committer.pc_idx
      <3> DEFINE x == EarlyElem(i)
      <3>1. x \in ElemType /\ x.idx = i
        BY ZenonT(60), <1>2 DEF EarlyElem, Elem, ElemType, Code
      <3>2. elem' = Append(elem, x) /\ elems' = Put(elems, i, e)
        BY ZenonT(60), <1>i, <1>e, <1>1, <2>1 DEF Answer, AnswerAbsent
      <3> HIDE DEF x
      <3>3. /\ elem' \in Seq(ElemType)
            /\ Len(elem) \in Nat /\ Len(elem') = Len(elem) + 1 /\ DOMAIN elem = 1..Len(elem)
            /\ DOMAIN elem' = 1..Len(elem) + 1
            /\ elem'[Len(elem) + 1] = x
            /\ \A m \in DOMAIN elem : elem'[m] = elem[m]
        BY ZenonT(60), <1>1, <3>1, <3>2, ElemAdded
      <3>4. \A j \in DOMAIN elems' :
              \/ j \in DOMAIN elems /\ elems'[j] = elems[j]
              \/ j = i /\ elems'[j] = e
        BY ZenonT(60), <3>2 DEF Put
      <3>5. e \notin DOMAIN elem /\ e \in DOMAIN elem' /\ elem'[e].idx = i
        BY <1>e, <3>1, <3>3
      <3> QED BY <3>3, <3>4, <3>5
    <2>2. CASE i # committer.pc_idx
      <3>1. elem' = elem /\ elems' = elems
        BY ZenonT(60), <1>i, <1>1, <2>2 DEF Answer, AnswerAbsent
      <3> QED BY <1>1, <3>1
    <2> QED BY ZenonT(60), <2>1, <2>2
  <1>6. TypeOK'
    <2>1. \A j \in DOMAIN elems' : elems'[j] \in DOMAIN elem' /\ elem'[elems'[j]].idx = j
      <3> SUFFICES ASSUME NEW j \in DOMAIN elems'
                   PROVE  elems'[j] \in DOMAIN elem' /\ elem'[elems'[j]].idx = j
        BY ZenonT(60)
      <3>1. CASE j \in DOMAIN elems /\ elems'[j] = elems[j]
        <4>1. elems[j] \in DOMAIN elem /\ elem[elems[j]].idx = j
          BY ZenonT(60), <1>0, <3>1 DEF TypeOK
        <4> QED BY <1>1, <1>5, <3>1, <4>1
      <3> QED BY ZenonT(60), <1>5, <3>1
    <2>2. committer'.todo \in 0..Len(elem')
      BY <1>1, <1>3, <1>5
    <2> QED BY ZenonT(60), <1>0, <1>3, <1>4, <1>5, <2>1, <2>2 DEF TypeOK
  <1>7. LockInv' /\ PreCommitInv'
    BY ZenonT(60), <1>2, <1>3, <1>4, CommitterQuiet DEF logVars
  <1>8. AnswerInv'
    <2>1. \A m \in DOMAIN elem : Answered(m)' => Answered(m)
      BY ZenonT(60), <1>3, <1>5 DEF Answered
    <2>2. /\ (DOMAIN elems \subseteq 1..Len(log))'
          /\ (~leader /\ handler.todo # "drop" => DOMAIN elems \subseteq 1..quick)'
          /\ (committer.pc \in Executing => <<committer.idx, log[committer.idx]>> \in executed)'
      BY ZenonT(60), <1>0, <1>2, <1>3, <1>4, <1>5 DEF AnswerInv
    <2>3. \A c \in Client : client[c].elem # e /\ WaiterInv(c)
      BY <1>0, <1>e, <1>1 DEF AnswerInv, WaiterInv, TypeOK, ClientType
    <2>4. \A j \in DOMAIN elems' : ElemInv(j)'
      <3> SUFFICES ASSUME NEW j \in DOMAIN elems'
                   PROVE  ElemInv(j)'
        BY ZenonT(60)
      <3>1. CASE j \in DOMAIN elems /\ elems'[j] = elems[j]
        <4>1. elems[j] \in DOMAIN elem /\ ElemInv(j)
          BY ZenonT(60), <1>0, <3>1 DEF TypeOK, AnswerInv
        <4> QED BY ZenonT(60), <1>4, <2>1, <3>1, <4>1 DEF ElemInv
      <3>2. CASE j = i /\ elems'[j] = e
        <4>1. j <= quick /\ <<j, log[j]>> \in executed
          BY <1>2, <3>2
        <4> QED BY ZenonT(60), <1>4, <2>3, <3>2, <4>1 DEF ElemInv
      <3> QED BY ZenonT(60), <1>5, <3>1, <3>2
    <2>5. \A c \in Client : WaiterInv(c)'
      <3> SUFFICES ASSUME NEW c \in Client
                   PROVE  WaiterInv(c)'
        BY ZenonT(60)
      <3>1. WaiterInv(c) /\ client[c].elem \in Nat
        BY ZenonT(60), <1>0, <2>3 DEF TypeOK, ClientType
      <3>2. /\ client[c].elem <= Len(elem')
            /\ client[c].elem \in 1..Len(elem) =>
                 client[c].elem \in DOMAIN elem /\ client[c].elem \in 1..Len(elem')
        BY <1>1, <1>5, <3>1 DEF WaiterInv
      <3> QED BY ZenonT(60), <1>4, <2>1, <3>1, <3>2 DEF WaiterInv
    <2> QED BY ZenonT(60), <2>2, <2>4, <2>5 DEF AnswerInv
  <1>9. OkMeansExecuted'
    BY ZenonT(60), <1>0, <1>4 DEF OkMeansExecuted
  <1> QED BY ZenonT(60), <1>6, <1>7, <1>8, <1>9 DEF ClientInv

LEMMA AnswerStep ==
    ASSUME ClientInv, Answer
    PROVE  ClientInv'
  BY ZenonT(60), AnswerFoundStep, AnswerAbsentStep

-----------------------------------------------------------------------------
(* The handlers.                                                           *)

\* Nobody is inside handle_cli_req while cli_lock_ is free or a handler has it.
LEMMA NobodyWrites ==
    ASSUME ClientInv, cli_lock \in {None, "handler"}
    PROVE  \A d \in Client : client[d].pc \notin Writing
  BY ZenonT(60), ClientAssumption, LockAssumption DEF ClientInv, LockInv

\* A step that finds nobody there and leaves the clients alone.
LEMMA WroteNothing ==
    ASSUME ClientInv, client' = client, \A d \in Client : client[d].pc \notin Writing
    PROVE  \A d \in Client : WroteInv(d)'
  BY ZenonT(60) DEF ClientInv, PreCommitInv, WroteInv, Writing

\* Without a client between store and pre_commit the whole log is pre-committed.
LEMMA AllCovered ==
    ASSUME ClientInv, \A d \in Client : client[d].pc \notin Writing
    PROVE  1..Len(log) \subseteq precommitted
  BY ZenonT(60) DEF ClientInv, PreCommitInv, Covered, Writing

LEMMA BecomeLeaderStep ==
    ASSUME ClientInv, BecomeLeader
    PROVE  ClientInv'
  <1>0. TypeOK /\ LockInv /\ PreCommitInv /\ AnswerInv /\ OkMeansExecuted
    BY ZenonT(60) DEF ClientInv
  <1>1. /\ return_method' = return_method /\ log' = log /\ quick' = quick /\ sm' = sm
        /\ elem' = elem /\ elems' = elems /\ client' = client /\ committer' = committer
        /\ precommitted' = precommitted /\ executed' = executed
        /\ leader' = TRUE /\ precommit' = Len(log) /\ cli_lock' = "handler" /\ cli_lock = None
    BY ZenonT(60) DEF BecomeLeader
  <1>2. handler' \in HandlerType /\ handler'.todo = "append_conf"
    BY ZenonT(60) DEF BecomeLeader, Busy, HandlerType
  <1>3. Len(log) \in Nat /\ quick \in Nat
    BY <1>0 DEF TypeOK
  <1>4. \A d \in Client : client[d].pc \notin Writing
    BY ZenonT(60), <1>1, NobodyWrites
  <1>5. TypeOK'
    BY ZenonT(60), <1>0, <1>1, <1>2, <1>3 DEF TypeOK
  <1>6. LockInv'
    BY ZenonT(60), <1>1, <1>2, <1>4, LockAssumption DEF LockInv
  <1>7. PreCommitInv'
    <2>1. \A d \in Client : WroteInv(d)'
      BY ZenonT(60), <1>1, <1>4, WroteNothing
    <2>2. \A i \in 1..Len(log') : Covered(i)'
      BY ZenonT(60), <1>0, <1>1 DEF PreCommitInv, Covered
    <2> QED BY <1>0, <1>1, <1>2, <1>3, <2>1, <2>2 DEF PreCommitInv
  <1>8. AnswerInv'
    BY <1>1, <1>3, AnswerKept
  <1>9. OkMeansExecuted'
    BY ZenonT(60), <1>0, <1>1 DEF OkMeansExecuted
  <1> QED BY ZenonT(60), <1>5, <1>6, <1>7, <1>8, <1>9 DEF ClientInv

LEMMA AppendLeaderConfStep ==
    ASSUME ClientInv, AppendLeaderConf
    PROVE  ClientInv'
  <1>0. TypeOK /\ LockInv /\ PreCommitInv /\ AnswerInv /\ OkMeansExecuted
    BY ZenonT(60) DEF ClientInv
  <1>1. /\ return_method' = return_method /\ leader' = leader /\ quick' = quick /\ sm' = sm
        /\ elem' = elem /\ elems' = elems /\ client' = client /\ committer' = committer
        /\ executed' = executed /\ precommitted' = precommitted \cup {Len(log) + 1}
        /\ precommit' = Len(log) + 1 /\ cli_lock' = None /\ log' = Append(log, Conf)
        /\ handler.todo = "append_conf"
    BY ZenonT(60) DEF AppendLeaderConf
  <1>2. handler' \in HandlerType /\ handler'.todo = "nothing"
    BY ZenonT(60) DEF AppendLeaderConf, Free, Busy, HandlerType
  <1>3. /\ log' \in Seq(Client \cup {Conf, Other})
        /\ Len(log) \in Nat /\ Len(log') = Len(log) + 1
        /\ \A i \in 1..Len(log) : log'[i] = log[i]
    BY ZenonT(60), <1>0, <1>1, LogGrows
  <1>4. cli_lock = "handler" /\ leader /\ quick \in Nat
    BY ZenonT(60), <1>0, <1>1, LockAssumption DEF LockInv, TypeOK
  <1>5. \A d \in Client : client[d].pc \notin Writing
    BY ZenonT(60), <1>4, NobodyWrites
  <1>6. TypeOK'
    BY <1>0, <1>1, <1>2, <1>3 DEF TypeOK
  <1>7. LockInv'
    BY ZenonT(60), <1>1, <1>2, <1>5, LockAssumption, ClientAssumption DEF LockInv
  <1>8. PreCommitInv'
    <2>1. \A d \in Client : WroteInv(d)'
      BY ZenonT(60), <1>1, <1>5, WroteNothing
    <2>2. \A i \in 1..Len(log') : Covered(i)'
      <3>1. 1..Len(log) \subseteq precommitted
        BY ZenonT(60), <1>5, AllCovered
      <3>2. 1..Len(log') \subseteq precommitted'
        BY <1>1, <1>3, <3>1
      <3> QED BY ZenonT(60), <3>2 DEF Covered
    <2>3. quick' <= precommit' /\ quick' <= Len(log') /\ precommit' <= Len(log')
      BY <1>0, <1>1, <1>3, <1>4 DEF PreCommitInv
    <2> QED BY ZenonT(60), <1>0, <1>1, <1>2, <2>1, <2>2, <2>3 DEF PreCommitInv
  <1>9. AnswerInv'
    <2>1. Len(log') \in Nat /\ Len(log) <= Len(log') /\ quick' \in Nat /\ quick <= quick'
      BY <1>1, <1>3, <1>4
    <2> QED BY ZenonT(60), <1>1, <1>3, <1>4, <2>1, AnswerKept
  <1>10. OkMeansExecuted'
    BY ZenonT(60), <1>0, <1>1 DEF OkMeansExecuted
  <1> QED BY ZenonT(60), <1>6, <1>7, <1>8, <1>9, <1>10 DEF ClientInv

LEMMA UpdateTermStep ==
    ASSUME ClientInv, UpdateTerm
    PROVE  ClientInv'
  <1>0. TypeOK /\ LockInv /\ PreCommitInv /\ AnswerInv /\ OkMeansExecuted
    BY ZenonT(60) DEF ClientInv
  <1>1. /\ return_method' = return_method /\ log' = log /\ quick' = quick /\ sm' = sm
        /\ elem' = elem /\ elems' = elems /\ client' = client /\ committer' = committer
        /\ precommitted' = precommitted /\ executed' = executed /\ precommit' = precommit
        /\ leader' = FALSE /\ cli_lock' = None /\ cli_lock = None
    BY ZenonT(60) DEF UpdateTerm, logVars
  <1>2. handler' \in HandlerType /\ handler'.todo = "drop"
    BY ZenonT(60) DEF UpdateTerm, Busy, HandlerType
  <1>3. Len(log) \in Nat /\ quick \in Nat
    BY <1>0 DEF TypeOK
  <1>4. \A d \in Client : client[d].pc \notin Writing
    BY ZenonT(60), <1>1, NobodyWrites
  <1>5. TypeOK'
    BY ZenonT(60), <1>0, <1>1, <1>2 DEF TypeOK
  <1>6. LockInv'
    BY ZenonT(60), <1>1, <1>2, <1>4, LockAssumption, ClientAssumption DEF LockInv
  <1>7. PreCommitInv'
    <2>1. \A d \in Client : WroteInv(d)'
      BY ZenonT(60), <1>1, <1>4, WroteNothing
    <2>2. \A i \in 1..Len(log') : Covered(i)'
      BY ZenonT(60), <1>0, <1>1 DEF PreCommitInv, Covered
    <2> QED BY ZenonT(60), <1>0, <1>1, <1>2, <2>1, <2>2 DEF PreCommitInv
  <1>8. AnswerInv'
    BY <1>1, <1>2, <1>3, AnswerKept
  <1>9. OkMeansExecuted'
    BY ZenonT(60), <1>0, <1>1 DEF OkMeansExecuted
  <1> QED BY ZenonT(60), <1>5, <1>6, <1>7, <1>8, <1>9 DEF ClientInv

LEMMA BecomeFollowerStep ==
    ASSUME ClientInv, BecomeFollower
    PROVE  ClientInv'
  <1>0. TypeOK /\ LockInv /\ PreCommitInv /\ AnswerInv /\ OkMeansExecuted
    BY ZenonT(60) DEF ClientInv
  <1>1. /\ return_method' = return_method /\ log' = log /\ quick' = quick /\ sm' = sm
        /\ client' = client /\ committer' = committer /\ leader' = leader
        /\ precommitted' = precommitted /\ executed' = executed /\ precommit' = precommit
        /\ cli_lock' = None /\ cli_lock = None
    BY ZenonT(60) DEF BecomeFollower, logVars
  <1>2. handler' \in HandlerType /\ handler'.todo = "nothing"
    BY ZenonT(60) DEF BecomeFollower, Free, Busy, HandlerType
  <1>3. DOMAIN elems' = {}
    BY ZenonT(60) DEF BecomeFollower, Empty
  <1>4. /\ elem \in Seq(ElemType) /\ Len(elem) \in Nat /\ DOMAIN elem = 1..Len(elem)
        /\ quick \in Nat
    BY <1>0 DEF TypeOK
  <1>5. \A n \in DOMAIN elem :
          /\ Cancelled(elem[n]) \in ElemType
          /\ Cancelled(elem[n]).code = "OK" => elem[n].code = "OK"
          /\ Cancelled(elem[n]).async = "OK" => elem[n].async = "OK"
    <2> SUFFICES ASSUME NEW n \in DOMAIN elem
                 PROVE  /\ Cancelled(elem[n]) \in ElemType
                        /\ Cancelled(elem[n]).code = "OK" => elem[n].code = "OK"
                        /\ Cancelled(elem[n]).async = "OK" => elem[n].async = "OK"
      BY ZenonT(60)
    <2> DEFINE e == elem[n]
    <2>1. e \in ElemType
      BY <1>4
    <2> HIDE DEF e
    <2>2. CASE Async
      <3>1. Cancelled(e) = [e EXCEPT !.async = "CANCELLED"]
        BY ZenonT(60), <2>2 DEF Cancelled
      <3>2. /\ [e EXCEPT !.async = "CANCELLED"] \in ElemType
            /\ [e EXCEPT !.async = "CANCELLED"].code = e.code
            /\ [e EXCEPT !.async = "CANCELLED"].async = "CANCELLED"
        BY ZenonT(60), <2>1 DEF ElemType
      <3> QED BY ZenonT(60), <3>1, <3>2 DEF e
    <2>3. CASE ~Async
      <3> DEFINE x == [e EXCEPT !.code = "CANCELLED", !.value = FALSE, !.ready = TRUE]
      <3>1. Cancelled(e) = x
        BY ZenonT(60), <2>3 DEF Cancelled
      <3>2. x \in ElemType /\ x.code = "CANCELLED" /\ x.async = e.async
        <4>1. "CANCELLED" \in Code /\ TRUE \in BOOLEAN /\ FALSE \in BOOLEAN
          BY ZenonT(60) DEF Code
        <4> QED BY ZenonT(60), <2>1, <4>1 DEF ElemType
      <3> HIDE DEF x
      <3> QED BY ZenonT(60), <3>1, <3>2 DEF e
    <2> QED BY ZenonT(60), <2>2, <2>3
  <1>6. /\ elem' \in Seq(ElemType) /\ Len(elem') = Len(elem)
        /\ \A n \in DOMAIN elem : /\ elem'[n].code = "OK" => elem[n].code = "OK"
                                  /\ elem'[n].async = "OK" => elem[n].async = "OK"
    <2>1. elem' = [n \in 1..Len(elem) |->
                     IF \E i \in DOMAIN elems : elems[i] = n THEN Cancelled(elem[n]) ELSE elem[n]]
      BY ZenonT(60), <1>4 DEF BecomeFollower
    <2>2. \A n \in 1..Len(elem) : elem'[n] \in {elem[n], Cancelled(elem[n])}
      BY ZenonT(60), <2>1
    <2>3. \A n \in 1..Len(elem) : elem'[n] \in ElemType
      BY <1>4, <1>5, <2>2
    <2>4. elem' \in [1..Len(elem) -> ElemType]
      BY ZenonT(60), <2>1, <2>3
    <2>5. elem' \in Seq(ElemType) /\ Len(elem') = Len(elem)
      BY <1>4, <2>4
    <2> QED BY ZenonT(60), <1>4, <1>5, <2>2, <2>5
  <1>7. \A d \in Client : client[d].pc \notin Writing
    BY ZenonT(60), <1>1, NobodyWrites
  <1>8. TypeOK'
    BY ZenonT(60), <1>0, <1>1, <1>2, <1>3, <1>6 DEF TypeOK
  <1>9. LockInv'
    BY ZenonT(60), <1>1, <1>2, <1>7, LockAssumption, ClientAssumption DEF LockInv
  <1>10. PreCommitInv'
    <2>1. \A d \in Client : WroteInv(d)'
      BY ZenonT(60), <1>1, <1>7, WroteNothing
    <2>2. \A i \in 1..Len(log') : Covered(i)'
      BY ZenonT(60), <1>0, <1>1 DEF PreCommitInv, Covered
    <2> QED BY ZenonT(60), <1>0, <1>1, <1>2, <2>1, <2>2 DEF PreCommitInv
  <1>11. AnswerInv'
    <2>1. \A m \in DOMAIN elem : Answered(m)' => Answered(m)
      BY ZenonT(60), <1>1, <1>6 DEF Answered
    <2>2. \A c \in Client : WaiterInv(c)'
      BY ZenonT(60), <1>0, <1>1, <1>4, <1>6, <2>1 DEF AnswerInv, WaiterInv
    <2> QED BY ZenonT(60), <1>0, <1>1, <1>3, <2>2 DEF AnswerInv
  <1>12. OkMeansExecuted'
    BY ZenonT(60), <1>0, <1>1 DEF OkMeansExecuted
  <1> QED BY ZenonT(60), <1>8, <1>9, <1>10, <1>11, <1>12 DEF ClientInv

LEMMA StoreConfStep ==
    ASSUME ClientInv, StoreConf
    PROVE  ClientInv'
  <1>0. TypeOK /\ LockInv /\ PreCommitInv /\ AnswerInv /\ OkMeansExecuted
    BY ZenonT(60) DEF ClientInv
  <1>1. /\ return_method' = return_method /\ leader' = leader /\ quick' = quick /\ sm' = sm
        /\ elem' = elem /\ elems' = elems /\ client' = client /\ committer' = committer
        /\ executed' = executed /\ precommitted' = precommitted \cup {Len(log) + 1}
        /\ precommit' = precommit /\ cli_lock' = cli_lock /\ log' = Append(log, Conf)
        /\ leader /\ handler = Free /\ handler' = Busy("precommit", Len(log) + 1)
    BY ZenonT(60) DEF StoreConf
  <1>2. /\ log' \in Seq(Client \cup {Conf, Other})
        /\ Len(log) \in Nat /\ Len(log') = Len(log) + 1
        /\ \A i \in 1..Len(log) : log'[i] = log[i]
    BY ZenonT(60), <1>0, <1>1, LogGrows
  <1>3. /\ handler' \in HandlerType /\ handler'.todo = "precommit"
        /\ handler'.idx = Len(log) + 1 /\ handler.todo = "nothing"
    BY <1>1, <1>2 DEF Free, Busy, HandlerType
  <1>4. quick \in Nat /\ precommit \in Nat
    BY ZenonT(60), <1>0 DEF TypeOK
  <1>5. TypeOK'
    BY ZenonT(60), <1>0, <1>1, <1>2, <1>3 DEF TypeOK
  <1>6. LockInv'
    BY ZenonT(60), <1>0, <1>1, <1>3 DEF LockInv
  <1>7. PreCommitInv'
    <2>1. \A d \in Client : WroteInv(d)'
      <3> SUFFICES ASSUME NEW d \in Client
                   PROVE  WroteInv(d)'
        BY ZenonT(60)
      <3>1. WroteInv(d)
        BY ZenonT(60), <1>0 DEF PreCommitInv
      <3>2. /\ 1..Len(log) \subseteq 1..Len(log')
            /\ \A i \in 1..Len(log) : i \in 1..Len(log') /\ log'[i] = log[i]
        BY <1>2
      <3> QED BY ZenonT(60), <1>1, <3>1, <3>2 DEF WroteInv
    <2>2. \A i \in 1..Len(log') : Covered(i)'
      <3> SUFFICES ASSUME NEW i \in 1..Len(log')
                   PROVE  Covered(i)'
        BY ZenonT(60)
      <3>1. CASE i = Len(log) + 1
        BY ZenonT(60), <1>1, <3>1 DEF Covered
      <3>2. CASE i \in 1..Len(log)
        BY ZenonT(60), <1>0, <1>1, <3>2 DEF PreCommitInv, Covered
      <3> QED BY <1>2, <3>1, <3>2
    <2>3. quick' <= precommit' /\ quick' <= Len(log') /\ precommit' <= Len(log')
      BY <1>0, <1>1, <1>2, <1>4 DEF PreCommitInv
    <2>4. handler'.idx <= Len(log')
      BY <1>2, <1>3
    <2> QED BY ZenonT(60), <1>0, <1>1, <2>1, <2>2, <2>3, <2>4 DEF PreCommitInv
  <1>8. AnswerInv'
    <2>1. Len(log') \in Nat /\ Len(log) <= Len(log') /\ quick' \in Nat /\ quick <= quick'
      BY <1>1, <1>2, <1>4
    <2> QED BY ZenonT(60), <1>1, <1>2, <2>1, AnswerKept
  <1>9. OkMeansExecuted'
    BY ZenonT(60), <1>0, <1>1 DEF OkMeansExecuted
  <1> QED BY ZenonT(60), <1>5, <1>6, <1>7, <1>8, <1>9 DEF ClientInv

LEMMA PreCommitConfStep ==
    ASSUME ClientInv, PreCommitConf
    PROVE  ClientInv'
  <1>0. TypeOK /\ LockInv /\ PreCommitInv /\ AnswerInv /\ OkMeansExecuted
    BY ZenonT(60) DEF ClientInv
  <1>1. /\ return_method' = return_method /\ leader' = leader /\ quick' = quick /\ sm' = sm
        /\ elem' = elem /\ elems' = elems /\ client' = client /\ committer' = committer
        /\ executed' = executed /\ precommitted' = precommitted
        /\ cli_lock = None /\ cli_lock' = None /\ log' = log
        /\ precommit' = Max2(precommit, handler.idx) /\ handler.todo = "precommit"
    BY ZenonT(60) DEF PreCommitConf
  <1>2. handler' \in HandlerType /\ handler'.todo = "nothing"
    BY ZenonT(60) DEF PreCommitConf, Free, Busy, HandlerType
  <1>3. quick \in Nat /\ precommit \in Nat /\ Len(log) \in Nat /\ handler.idx \in Nat
    BY <1>0 DEF TypeOK, HandlerType
  <1>4. \A d \in Client : client[d].pc \notin Writing
    BY ZenonT(60), <1>1, NobodyWrites
  <1>5. /\ precommit' \in Nat /\ precommit <= precommit'
        /\ leader => precommit' <= Len(log)
    BY <1>0, <1>1, <1>3 DEF PreCommitInv, Max2
  <1>6. TypeOK'
    BY ZenonT(60), <1>0, <1>1, <1>2, <1>5 DEF TypeOK
  <1>7. LockInv'
    BY ZenonT(60), <1>1, <1>2, <1>4, LockAssumption, ClientAssumption DEF LockInv
  <1>8. PreCommitInv'
    <2>1. \A d \in Client : WroteInv(d)'
      BY ZenonT(60), <1>1, <1>4, WroteNothing
    <2>2. \A i \in 1..Len(log') : Covered(i)'
      BY ZenonT(60), <1>0, <1>1 DEF PreCommitInv, Covered
    <2>3. quick' <= precommit' /\ quick' <= Len(log')
      BY <1>0, <1>1, <1>3, <1>5 DEF PreCommitInv
    <2> QED BY ZenonT(60), <1>0, <1>1, <1>2, <1>5, <2>1, <2>2, <2>3 DEF PreCommitInv
  <1>9. AnswerInv'
    <2>1. /\ Len(log') \in Nat /\ Len(log) <= Len(log') /\ quick' \in Nat /\ quick <= quick'
      BY <1>1, <1>3
    <2> QED BY ZenonT(60), <1>1, <1>2, <2>1, AnswerKept
  <1>10. OkMeansExecuted'
    BY ZenonT(60), <1>0, <1>1 DEF OkMeansExecuted
  <1> QED BY ZenonT(60), <1>6, <1>7, <1>8, <1>9, <1>10 DEF ClientInv

LEMMA CommitStep ==
    ASSUME ClientInv, NEW k, Commit(k)
    PROVE  ClientInv'
  <1>0. TypeOK /\ LockInv /\ PreCommitInv /\ AnswerInv /\ OkMeansExecuted
    BY ZenonT(60) DEF ClientInv
  <1>1. /\ return_method' = return_method /\ leader' = leader /\ quick' = k /\ sm' = sm
        /\ elem' = elem /\ elems' = elems /\ client' = client /\ committer' = committer
        /\ executed' = executed /\ precommitted' = precommitted /\ handler' = handler
        /\ cli_lock' = cli_lock /\ log' = log /\ precommit' = precommit
        /\ k \in quick + 1 .. Min2(precommit, Len(log))
    BY ZenonT(60) DEF Commit
  <1>2. quick \in Nat /\ precommit \in Nat /\ Len(log) \in Nat
    BY <1>0 DEF TypeOK
  <1>3. k \in Nat /\ quick <= k /\ k <= precommit /\ k <= Len(log)
    BY <1>1, <1>2 DEF Min2
  <1>4. TypeOK'
    BY ZenonT(60), <1>0, <1>1, <1>3 DEF TypeOK
  <1>5. LockInv'
    BY ZenonT(60), <1>0, <1>1 DEF LockInv
  <1>6. PreCommitInv'
    <2>1. \A d \in Client : WroteInv(d)'
      BY ZenonT(60), <1>0, <1>1 DEF PreCommitInv, WroteInv
    <2>2. \A i \in 1..Len(log') : Covered(i)'
      BY ZenonT(60), <1>0, <1>1 DEF PreCommitInv, Covered
    <2>3. committer.pc \in Executing => committer.idx \in 1..k
      BY <1>0, <1>2, <1>3 DEF PreCommitInv
    <2> QED BY ZenonT(60), <1>0, <1>1, <1>3, <2>1, <2>2, <2>3 DEF PreCommitInv
  <1>7. AnswerInv'
    BY <1>1, <1>2, <1>3, AnswerKept
  <1>8. OkMeansExecuted'
    BY ZenonT(60), <1>0, <1>1 DEF OkMeansExecuted
  <1> QED BY ZenonT(60), <1>4, <1>5, <1>6, <1>7, <1>8 DEF ClientInv

LEMMA AppendOtherStep ==
    ASSUME ClientInv, NEW k, AppendOther(k)
    PROVE  ClientInv'
  <1>0. TypeOK /\ LockInv /\ PreCommitInv /\ AnswerInv /\ OkMeansExecuted
    BY ZenonT(60) DEF ClientInv
  <1>1. /\ return_method' = return_method /\ leader' = leader /\ quick' = quick /\ sm' = sm
        /\ elem' = elem /\ elems' = elems /\ client' = client /\ committer' = committer
        /\ executed' = executed /\ handler' = handler /\ cli_lock' = cli_lock
        /\ log' = Append(SubSeq(log, 1, k), Other) /\ precommit' = Max2(precommit, k + 1)
        /\ precommitted' = {i \in precommitted : i <= k} \cup {k + 1}
        /\ handler = Free /\ ~leader /\ k \in quick..Len(log)
    BY ZenonT(60) DEF AppendOther
  <1>2. quick \in Nat /\ precommit \in Nat /\ Len(log) \in Nat /\ handler.todo = "nothing"
    BY <1>0, <1>1 DEF TypeOK, Free, Busy
  <1>3. k \in Nat /\ quick <= k /\ k <= Len(log)
    BY <1>1, <1>2
  <1>4. /\ log' \in Seq(Client \cup {Conf, Other}) /\ Len(log') = k + 1
        /\ \A i \in 1..k : log'[i] = log[i]
    <2> DEFINE V == Client \cup {Conf, Other}
               s == SubSeq(log, 1, k)
    <2>1. log \in Seq(V) /\ Other \in V
      BY ZenonT(60), <1>0 DEF TypeOK
    <2> HIDE DEF V
    <2>2. s \in Seq(V) /\ Len(s) = k /\ \A i \in 1..k : s[i] = log[i]
      BY <1>2, <1>3, <2>1
    <2> HIDE DEF s
    <2>3. log' = Append(s, Other)
      BY ZenonT(60), <1>1 DEF s
    <2>4. /\ log' \in Seq(V) /\ Len(log') = k + 1
          /\ \A i \in 1..k : log'[i] = s[i]
      BY <1>3, <2>1, <2>2, <2>3
    <2> QED BY ZenonT(60), <2>2, <2>4 DEF V
  <1>5. cli_lock = None
    BY ZenonT(60), <1>0, <1>1 DEF LockInv
  <1>6. \A d \in Client : client[d].pc \notin Writing
    BY ZenonT(60), <1>5, NobodyWrites
  <1>7. precommit' \in Nat /\ quick <= precommit'
    BY <1>0, <1>1, <1>2, <1>3 DEF PreCommitInv, Max2
  <1>8. TypeOK'
    BY ZenonT(60), <1>0, <1>1, <1>4, <1>7 DEF TypeOK
  <1>9. LockInv'
    BY ZenonT(60), <1>0, <1>1 DEF LockInv
  <1>10. PreCommitInv'
    <2>1. \A d \in Client : WroteInv(d)'
      BY ZenonT(60), <1>1, <1>6, WroteNothing
    <2>2. \A i \in 1..Len(log') : Covered(i)'
      <3> SUFFICES ASSUME NEW i \in 1..k+1
                   PROVE  i \in precommitted'
        BY ZenonT(60), <1>4 DEF Covered
      <3>1. 1..Len(log) \subseteq precommitted
        BY ZenonT(60), <1>6, AllCovered
      <3> QED BY <1>1, <1>2, <1>3, <3>1
    <2>3. quick' <= Len(log')
      BY <1>1, <1>2, <1>3, <1>4
    <2> QED BY ZenonT(60), <1>0, <1>1, <1>2, <1>7, <2>1, <2>2, <2>3 DEF PreCommitInv
  <1>11. AnswerInv'
    <2>1. \A i \in 1..quick : i \in 1..Len(log') /\ log'[i] = log[i]
      BY <1>2, <1>3, <1>4
    <2>2. DOMAIN elems \subseteq 1..quick
      BY ZenonT(60), <1>0, <1>1, <1>2 DEF AnswerInv
    <2>3. \A e : Answered(e)' <=> Answered(e)
      BY ZenonT(60), <1>1 DEF Answered
    <2>4. \A i \in DOMAIN elems' : ElemInv(i)'
      BY ZenonT(60), <1>0, <1>1, <2>1, <2>2, <2>3 DEF AnswerInv, ElemInv
    <2>5. \A c \in Client : WaiterInv(c)'
      BY ZenonT(60), <1>0, <1>1, <2>3 DEF AnswerInv, WaiterInv
    <2>6. committer.pc \in Executing => <<committer.idx, log'[committer.idx]>> \in executed
      BY ZenonT(60), <1>0, <2>1 DEF AnswerInv, PreCommitInv
    <2>7. (DOMAIN elems \subseteq 1..Len(log))'
      BY ZenonT(60), <1>1, <2>1, <2>2
    <2> QED BY ZenonT(60), <1>1, <2>2, <2>4, <2>5, <2>6, <2>7 DEF AnswerInv
  <1>12. OkMeansExecuted'
    BY ZenonT(60), <1>0, <1>1 DEF OkMeansExecuted
  <1> QED BY ZenonT(60), <1>8, <1>9, <1>10, <1>11, <1>12 DEF ClientInv

-----------------------------------------------------------------------------
(* The theorems.                                                           *)

LEMMA InitInv ==
    ASSUME Init
    PROVE  ClientInv
  <1>1. TypeOK
    <2>1. client \in [Client -> ClientType]
      BY ZenonT(60) DEF Init, ClientType, ClientState
    <2>2. /\ log \in Seq(Client \cup {Conf, Other}) /\ elem \in Seq(ElemType)
          /\ Len(elem) = 0 /\ DOMAIN elems = {}
      BY DEF Init, Empty
    <2>3. handler \in HandlerType /\ committer \in CommitterType /\ committer.todo = 0
      BY ZenonT(60) DEF Init, Free, Busy, HandlerType, Idle, CommitterType
    <2>4. /\ return_method \in ReturnMethod /\ leader \in BOOLEAN
          /\ precommit \in Nat /\ quick \in Nat /\ sm \in Nat
          /\ cli_lock \in Client \cup {"handler", None}
      BY ZenonT(60) DEF Init
    <2>5. committer.todo \in 0..Len(elem)
      BY <2>2, <2>3
    <2> QED BY ZenonT(60), <2>1, <2>2, <2>3, <2>4, <2>5 DEF TypeOK
  <1>2. LockInv
    BY ZenonT(60), ClientAssumption, LockAssumption DEF Init, LockInv, Writing, Free, Busy
  <1>3. PreCommitInv
    BY DEF Init, PreCommitInv, WroteInv, Covered, Writing, Executing, Free, Busy, Idle
  <1>4. AnswerInv
    <2>1. DOMAIN elems = {} /\ Len(elem) = 0 /\ committer.pc \notin Executing
      BY ZenonT(60) DEF Init, Empty, Idle, Executing
    <2>2. \A c \in Client :
            client[c].elem = 0 /\ client[c].result = "none" /\ client[c].pc \notin Waiting
      BY ZenonT(60) DEF Init, Waiting
    <2>3. \A c \in Client : WaiterInv(c)
      BY <2>1, <2>2 DEF WaiterInv
    <2> QED BY ZenonT(60), <2>1, <2>3 DEF AnswerInv
  <1>5. OkMeansExecuted
    BY ZenonT(60) DEF Init, OkMeansExecuted
  <1> QED BY ZenonT(60), <1>1, <1>2, <1>3, <1>4, <1>5 DEF ClientInv

LEMMA NextInv ==
    ASSUME ClientInv, Next
    PROVE  ClientInv'
  <1>1. ASSUME NEW c \in Client, ClientStep(c)
        PROVE  ClientInv'
    BY ZenonT(60), <1>1, NotLeaderStep, StoreEntryStep, PreCommitEntryStep, InsertElemStep,
       WakeStep, TakeResultStep, ReturnStep, RunHandlerStep DEF ClientStep
  <1>2. ASSUME CommitterStep
        PROVE  ClientInv'
    BY ZenonT(60), <1>2, ExecStep, ExecuteStep, AnswerStep, NotifyStep DEF CommitterStep
  <1>3. ASSUME HandlerStep
        PROVE  ClientInv'
    BY ZenonT(60), <1>3, AppendLeaderConfStep, BecomeFollowerStep, PreCommitConfStep
       DEF HandlerStep
  <1> QED BY ZenonT(60), <1>1, <1>2, <1>3, BecomeLeaderStep, UpdateTermStep, StoreConfStep,
             AppendOtherStep, CommitStep DEF Next

\* The inductive invariant: cli_lock_ keeps the role while a request is
\* written, the log is pre-committed up to what a client has just stored, and
\* an elem in commit_ret_elems_ belongs to the entry at its index.
THEOREM ClientInvariant == Spec => []ClientInv
  <1>1. Init => ClientInv
    BY ZenonT(60), InitInv
  <1>2. ClientInv /\ [Next]_vars => ClientInv'
    <2> SUFFICES ASSUME ClientInv, [Next]_vars
                 PROVE  ClientInv'
      BY ZenonT(60)
    <2>1. CASE Next
      BY ZenonT(60), <2>1, NextInv
    <2>2. CASE UNCHANGED vars
      <3>1. /\ return_method' = return_method /\ leader' = leader /\ log' = log
            /\ precommit' = precommit /\ quick' = quick /\ sm' = sm /\ cli_lock' = cli_lock
            /\ handler' = handler /\ elem' = elem /\ elems' = elems /\ client' = client
            /\ committer' = committer /\ precommitted' = precommitted /\ executed' = executed
        BY ZenonT(60), <2>2 DEF vars, logVars
      <3>2. TypeOK' /\ LockInv' /\ OkMeansExecuted'
        BY ZenonT(60), <3>1 DEF ClientInv, TypeOK, LockInv, OkMeansExecuted
      <3>3. LockInv' /\ PreCommitInv'
        BY ZenonT(60), <3>1, CommitterQuiet DEF ClientInv, PreCommitInv, logVars
      <3>4. AnswerInv'
        <4>1. Len(log) \in Nat /\ quick \in Nat
          BY DEF ClientInv, TypeOK
        <4> QED BY <3>1, <4>1, AnswerKept
      <3> QED BY ZenonT(60), <3>2, <3>3, <3>4 DEF ClientInv
    <2> QED BY ZenonT(60), <2>1, <2>2
  <1> QED BY <1>1, <1>2, PTL DEF Spec

\* A client is told OK only when the state machine of this server has executed
\* its own entry, however often the role changed and the log was overwritten
\* meanwhile (handle_cli_req_callback and commit_app_log meet by index alone).
THEOREM OkIsExecuted == Spec => []OkMeansExecuted
  <1>1. ClientInv => OkMeansExecuted
    BY ZenonT(60) DEF ClientInv
  <1> QED BY <1>1, ClientInvariant, PTL

\* The state machine never commits an index that was not pre-committed
\* (handle_cli_req and store_log_entry move precommit_index_ under cli_lock_).
THEOREM PreCommittedFirst == Spec => []PreCommitFirst
  <1>1. ClientInv => PreCommitFirst
    <2> SUFFICES ASSUME ClientInv, committer.pc \in Executing
                 PROVE  committer.idx \in precommitted /\ committer.idx <= precommit
      BY ZenonT(60) DEF PreCommitFirst, Executing
    <2> DEFINE i == committer.idx
    <2>1. quick \in Nat /\ precommit \in Nat /\ Len(log) \in Nat
      BY DEF ClientInv, TypeOK
    <2>2. i \in 1..quick /\ quick <= precommit /\ quick <= Len(log)
      BY ZenonT(60) DEF ClientInv, PreCommitInv
    <2>3. i \in 1..Len(log) /\ i <= precommit /\ i \in Nat
      BY <2>1, <2>2
    <2>4. \A c \in Client : client[c].pc = "stored" => Max(client[c].wrote) # i
      <3> SUFFICES ASSUME NEW c \in Client, client[c].pc = "stored", Max(client[c].wrote) = i
                   PROVE  FALSE
        BY ZenonT(60)
      <3>1. precommit < i
        BY ZenonT(60) DEF ClientInv, PreCommitInv, WroteInv
      <3> QED BY <2>1, <2>3, <3>1
    <2> QED BY ZenonT(60), <2>3, <2>4 DEF ClientInv, PreCommitInv, Covered
  <1> QED BY <1>1, ClientInvariant, PTL

\* The types of the variables.
THEOREM ClientTypes == Spec => []TypeOK
  <1>1. ClientInv => TypeOK
    BY ZenonT(60) DEF ClientInv
  <1> QED BY <1>1, ClientInvariant, PTL

=============================================================================
