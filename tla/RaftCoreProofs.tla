-------------------------- MODULE RaftCoreProofs ----------------------------
(***************************************************************************)
(* Proofs about RaftCore, for any number of servers, any bound and any     *)
(* batch size: lemmas about messages and entries, one lemma per action and *)
(* invariant, those that join them, and the theorems.                      *)
(*                                                                         *)
(* What the lemmas about actions use of finite sets of servers is a        *)
(* hypothesis of theirs (ServerSets, SkipDefined, ExpectedDefined), and so *)
(* is induction (NatInduces).  They are proved at the end, where the       *)
(* theorems about finite sets are.                                         *)
(***************************************************************************)
EXTENDS RaftCore, TLAPS

-----------------------------------------------------------------------------
(* The hypotheses.                                                         *)

\* Sets of servers are finite and have a size.
ServerSets ==
    /\ QuorumSize \in Nat
    /\ \A S \in SUBSET Server : Cardinality(S) \in Nat
    /\ \A S, T \in SUBSET Server : S \subseteq T => Cardinality(S) <= Cardinality(T)
    /\ \A S \in SUBSET Server : \A x \in Server \ S :
         Cardinality(S \cup {x}) = Cardinality(S) + 1
    /\ \A x \in Server : Cardinality({x}) = 1

\* The skip loop of handle_append_entries stops at a position of the request.
SkipDefined ==
    \A m \in Message, lg \in Seq(Entry) :
        m.type = "append_req" => /\ Skipped(m, lg) \in 0..Len(m.entries)
                                 /\ SameTerms(m, lg, Skipped(m, lg))

\* get_expected_committed_log_idx finds an index.
ExpectedDefined ==
    \A i \in Server, mt \in [Server -> Nat] : ExpectedCommitted(i, mt) \in Nat

\* A set of numbers that holds 0 and each successor is Nat.
NatInduces ==
    \A S \in SUBSET Nat : 0 \in S /\ (\A n \in S : n + 1 \in S) => S = Nat

-----------------------------------------------------------------------------
(* Facts about messages.                                                   *)

\* Changing what the client side does with a message keeps it a message and
\* keeps the rest of it.
LEMMA ConnType ==
    ASSUME NEW m \in Message, NEW c \in Conn
    PROVE  /\ [m EXCEPT !.conn = c] \in Message
           /\ [m EXCEPT !.conn = c].type = m.type
           /\ [m EXCEPT !.conn = c].cli = m.cli
           /\ [m EXCEPT !.conn = c].srv = m.srv
           /\ [m EXCEPT !.conn = c].term = m.term
           /\ m.type = "vote_resp" => [m EXCEPT !.conn = c].accepted = m.accepted
  BY ZenonT(60) DEF Message

\* The fields every message has.
LEMMA MessageFields ==
    ASSUME NEW m \in Message
    PROVE  /\ m.type \in Req \cup Resp
           /\ m.cli \in Server
           /\ m.srv \in Server
           /\ m.conn \in Conn
           /\ m.term \in Nat
           /\ m.type = "vote_resp" => m.accepted \in BOOLEAN
           /\ m.type = "append_resp" => m.accepted \in BOOLEAN /\ m.next_idx \in Nat \ {0}
           /\ m.type \in {"vote_req", "vote_resp"} => m.term # 0
           /\ m.type = "append_req" =>
                /\ m.last_log_idx \in Nat
                /\ m.last_log_term \in Nat
                /\ m.entries \in Seq(Entry)
                /\ m.commit_idx \in Nat
  BY ZenonT(60) DEF Message, Req, Resp

\* term_for_log returns a term.
LEMMA TermForLogType ==
    ASSUME NEW lg \in Seq(Entry), NEW k \in Int
    PROVE  TermForLog(lg, k) \in Nat
  <1>1. \A e \in Entry : e.term \in Nat
    BY ZenonT(60) DEF Entry
  <1>2. k \in 1..Len(lg) => lg[k] \in Entry
    OBVIOUS
  <1> QED BY ZenonT(60), <1>1, <1>2 DEF TermForLog

\* A request_vote message built from well-typed parts is a message.
LEMMA VoteReqType ==
    ASSUME NEW i \in Server, NEW j \in Server, NEW t \in Nat \ {0}, NEW lg \in Seq(Entry)
    PROVE  VoteReq(i, j, t, lg) \in Message
  <1>1. LastTerm(lg) \in Nat /\ Len(lg) \in Nat
    BY TermForLogType DEF LastTerm
  <1> QED BY ZenonT(60), <1>1 DEF VoteReq, Message, Conn

\* A request built by create_append_entries_req from well-typed parts is a message.
LEMMA AppendReqType ==
    ASSUME NEW i \in Server, NEW j \in Server, NEW t \in Nat, NEW lg \in Seq(Entry),
           NEW n \in Nat \ {0}, NEW ci \in Nat
    PROVE  AppendReq(i, j, t, lg, n, ci) \in Message
  <1>1. SubSeq(lg, n, Min2(Len(lg), n - 1 + MaxAppendSize)) \in Seq(Entry)
    BY AppendAssumption DEF Min2
  <1>2. TermForLog(lg, n - 1) \in Nat
    BY SMTT(90), TermForLogType
  <1> QED BY <1>1, <1>2 DEF AppendReq, Message, Conn

-----------------------------------------------------------------------------
(* The operators of the handlers return what their names say.              *)

\* The log after an accepted request is a log.
LEMMA StoredType ==
    ASSUME SkipDefined, NEW m \in Message, m.type = "append_req", NEW lg \in Seq(Entry),
           PrevOkay(m, lg)
    PROVE  Stored(m, lg) \in Seq(Entry)
  <1> DEFINE k == Skipped(m, lg)
             p == m.last_log_idx
  <1>1. p \in Nat /\ m.entries \in Seq(Entry)
    BY ZenonT(60), MessageFields
  <1>2. k \in 0..Len(m.entries) /\ SameTerms(m, lg, k)
    BY ZenonT(60) DEF SkipDefined
  <1> HIDE DEF k
  <1>3. CASE k = Len(m.entries)
    BY ZenonT(60), <1>3 DEF Stored, k
  <1>4. CASE k # Len(m.entries)
    <2>1. p + k \in 0..Len(lg)
      <3>1. CASE k = 0
        BY <1>1, <3>1 DEF PrevOkay, TermForLog
      <3>2. CASE k # 0
        <4>1. k \in 1..k /\ k \in 1..Len(m.entries)
          BY SMTT(90), <1>1, <1>2, <3>2
        <4>2. TermForLog(lg, p + k) = m.entries[k].term
          BY ZenonT(60), <1>2, <4>1 DEF SameTerms
        <4>3. m.entries[k] \in Entry
          BY SMTT(90), <1>1, <4>1
        <4>4. m.entries[k].term # 0
          BY ZenonT(60), <4>3 DEF Entry
        <4> QED BY SMTT(90), <1>1, <4>1, <4>2, <4>4 DEF TermForLog
      <3> QED BY ZenonT(60), <3>1, <3>2
    <2>2. SubSeq(lg, 1, p + k) \in Seq(Entry)
      BY <2>1
    <2>3. SubSeq(m.entries, k + 1, Len(m.entries)) \in Seq(Entry)
      BY SMTT(90), <1>1, <1>2
    <2> QED BY <2>2, <2>3, <1>4 DEF Stored, k
  <1> QED BY ZenonT(60), <1>3, <1>4

\* request_append_entries only adds append requests of i, to peers of i.
LEMMA RequestAppendOK ==
    ASSUME TypeOK, PeersOK, NEW i \in Server, NEW t \in Nat, NEW lg \in Seq(Entry),
           NEW ci \in Nat, NEW nx \in [Server -> Nat], NEW mt \in [Server -> Nat],
           NEW n \in SUBSET net, NEW J \in SUBSET Peers(i),
           RequestAppendEntries(i, t, lg, ci, nx, mt, n, J)
    PROVE  /\ next_log_idx' \in [Server -> [Server -> Nat]]
           /\ matched_idx' \in [Server -> [Server -> Nat]]
           /\ rpc' \in [Server -> SUBSET Server]
           /\ net' \subseteq Message
           /\ \A j \in Server : j \notin rpc'[j]
           /\ \A m \in net' : m.cli # m.srv
           /\ \A m \in net' : Counts(m) => m \in n
  <1> DEFINE lost == J \ rpc[i]
             to == Reached(i, n, J)
             nx2 == [j \in Server |-> IF j \in lost \/ (j \in to /\ nx[j] = 0)
                                         THEN Len(lg) + 1 ELSE nx[j]]
             mt2 == [j \in Server |-> IF j \in lost /\ nx[j] # 0 THEN 0 ELSE mt[j]]
  <1>1. /\ next_log_idx' = [next_log_idx EXCEPT ![i] = nx2]
        /\ matched_idx' = [matched_idx EXCEPT ![i] = mt2]
        /\ rpc' = [rpc EXCEPT ![i] = @ \cup lost]
        /\ net' = n \cup {AppendReq(i, j, t, lg, nx2[j], ci) : j \in to}
    BY ZenonT(60) DEF RequestAppendEntries
  <1>2. Len(lg) \in Nat
    OBVIOUS
  <1>3. nx2 \in [Server -> Nat] /\ mt2 \in [Server -> Nat]
    BY SMTT(90), <1>2
  <1>4. to \subseteq Peers(i) /\ lost \subseteq Peers(i) /\ Peers(i) \subseteq Server /\ i \notin Peers(i)
    BY ZenonT(60) DEF Reached, Peers
  <1>5. \A j \in to : nx2[j] \in Nat \ {0}
    BY SMTT(90), <1>2, <1>4
  <1> HIDE DEF nx2, mt2, lost, to
  <1>6. ASSUME NEW m \in net', m \notin n
        PROVE  m \in Message /\ m.cli # m.srv /\ ~Counts(m)
    <2>1. PICK j \in to : m = AppendReq(i, j, t, lg, nx2[j], ci)
      BY ZenonT(60), <1>1, <1>6
    <2>2. m \in Message
      BY ZenonT(60), <2>1, <1>4, <1>5, AppendReqType
    <2>3. m.cli = i /\ m.srv = j /\ m.type = "append_req"
      BY ZenonT(60), <2>1 DEF AppendReq
    <2> QED BY ZenonT(60), <2>2, <2>3, <1>4 DEF Counts
  <1>7. net' \subseteq Message
    BY ZenonT(60), <1>6 DEF TypeOK
  <1>8. \A m \in net' : m.cli # m.srv
    BY ZenonT(60), <1>6 DEF PeersOK
  <1>9. \A m \in net' : Counts(m) => m \in n
    BY ZenonT(60), <1>6
  <1>10. rpc' \in [Server -> SUBSET Server] /\ \A j \in Server : j \notin rpc'[j]
    BY ZenonT(60), <1>1, <1>4 DEF TypeOK, PeersOK
  <1>11. /\ next_log_idx' \in [Server -> [Server -> Nat]]
         /\ matched_idx' \in [Server -> [Server -> Nat]]
    BY ZenonT(60), <1>1, <1>3 DEF TypeOK
  <1> QED BY ZenonT(60), <1>7, <1>8, <1>9, <1>10, <1>11

-----------------------------------------------------------------------------
(* Steps that cast no vote and count none.                                 *)

\* What such a step may do to term, vote and counter of server j.
QuietServer(j) ==
    \/ /\ term'[j] = term[j]
       /\ voted_for'[j] = voted_for[j]
       /\ votes_granted'[j] \in {votes_granted[j], 0}
    \/ term'[j] > term[j] /\ votes_granted'[j] = 0

\* What such a step may do to the messages that carry votes: lose them, or
\* change what the client side does with them.
QuietNet ==
    /\ \A m \in net' : Counts(m) =>
         \E n \in net : /\ Counts(n) /\ n.type = m.type /\ n.term = m.term
                        /\ n.cli = m.cli /\ n.srv = m.srv
    /\ \A m, n \in net' :
         Counts(m) /\ Counts(n) /\ m.cli = n.cli /\ m.srv = n.srv /\ m.term = n.term
             => m = n

\* A quiet step keeps the election invariants.
LEMMA QuietStep ==
    ASSUME ServerSets, ElectionInv, TypeOK', \A j \in Server : QuietServer(j), QuietNet,
           ballots' = ballots, elected' = elected
    PROVE  BallotsKept' /\ VoteOnce' /\ VoteMessagesOK' /\ VotesAreVoters' /\ ElectedByMajority'
  <1>1. \A j \in Server : term'[j] \in Nat /\ term[j] \in Nat /\ term'[j] >= term[j]
    <2>1. \A j \in Server : term'[j] \in Nat /\ term[j] \in Nat
      BY ZenonT(60) DEF ElectionInv, TypeOK
    <2> QED BY <2>1 DEF QuietServer
  <1>2. BallotsKept'
    <2> SUFFICES ASSUME NEW b \in ballots
                 PROVE  b[1] <= term'[b[2]] /\ (b[1] = term'[b[2]] => voted_for'[b[2]] = b[3])
      BY ZenonT(60) DEF BallotsKept
    <2>1. b[1] \in Nat /\ b[2] \in Server
      BY ZenonT(90) DEF ElectionInv, TypeOK
    <2>2. b[1] <= term[b[2]] /\ (b[1] = term[b[2]] => voted_for[b[2]] = b[3])
      BY ZenonT(60) DEF ElectionInv, BallotsKept
    <2> QED BY <1>1, <2>1, <2>2 DEF QuietServer
  <1>3. VoteOnce'
    BY ZenonT(60) DEF ElectionInv, VoteOnce
  <1>4. VoteMessagesOK'
    <2>1. ASSUME NEW m \in net', Counts(m)
          PROVE  m.term <= term'[m.cli] /\ (m.type = "vote_resp" => <<m.term, m.srv, m.cli>> \in ballots)
      <3>1. PICK n \in net : /\ Counts(n) /\ n.type = m.type /\ n.term = m.term
                              /\ n.cli = m.cli /\ n.srv = m.srv
        BY ZenonT(60), <2>1 DEF QuietNet
      <3>2. n.term <= term[n.cli] /\ (n.type = "vote_resp" => <<n.term, n.srv, n.cli>> \in ballots)
        BY ZenonT(60), <3>1 DEF ElectionInv, VoteMessagesOK
      <3>3. n.cli \in Server /\ n.term \in Nat
        BY ZenonT(60), MessageFields DEF ElectionInv, TypeOK
      <3> QED BY <1>1, <3>1, <3>2, <3>3
    <2> QED BY ZenonT(60), <2>1 DEF VoteMessagesOK, QuietNet, Counts
  <1>5. VotesAreVoters'
    <2> SUFFICES ASSUME NEW j \in Server
                 PROVE  votes_granted'[j] <= Cardinality(Counted(j)')
      BY ZenonT(60) DEF VotesAreVoters
    <2>1. Counted(j) \in SUBSET Server /\ Counted(j)' \in SUBSET Server
      BY ZenonT(60) DEF Counted
    <2>2. Cardinality(Counted(j)) \in Nat /\ Cardinality(Counted(j)') \in Nat
      BY ZenonT(60), <2>1 DEF ServerSets
    <2>3. CASE votes_granted'[j] = 0
      BY <2>2, <2>3
    <2>4. CASE votes_granted'[j] # 0
      <3>1. term'[j] = term[j] /\ votes_granted'[j] = votes_granted[j]
        BY ZenonT(60), <2>4 DEF QuietServer
      <3>2. Counted(j) \subseteq Counted(j)'
        <4> SUFFICES ASSUME NEW k \in Counted(j), NEW m \in net',
                            m.cli = j, m.srv = k, m.term = term[j], Counts(m)
                     PROVE  FALSE
          BY ZenonT(60), <3>1 DEF Counted, Counts
        <4>1. PICK n \in net : /\ Counts(n) /\ n.type = m.type /\ n.term = m.term
                                /\ n.cli = m.cli /\ n.srv = m.srv
          BY ZenonT(60) DEF QuietNet
        <4> QED BY ZenonT(60), <4>1 DEF Counted
      <3>3. Cardinality(Counted(j)) <= Cardinality(Counted(j)')
        BY ZenonT(60), <2>1, <3>2 DEF ServerSets
      <3>4. votes_granted[j] \in Nat /\ votes_granted[j] <= Cardinality(Counted(j))
        BY ZenonT(60) DEF ElectionInv, TypeOK, VotesAreVoters
      <3> QED BY <2>2, <3>1, <3>3, <3>4
    <2> QED BY ZenonT(60), <2>3, <2>4
  <1>6. ElectedByMajority'
    BY ZenonT(60) DEF ElectionInv, ElectedByMajority, Voters
  <1> QED BY ZenonT(60), <1>2, <1>3, <1>4, <1>5, <1>6

\* A step that only loses vote messages is quiet.
LEMMA FewerVotes ==
    ASSUME VoteMessagesOK, \A m \in net' : Counts(m) => m \in net
    PROVE  QuietNet
  BY ZenonT(60) DEF VoteMessagesOK, QuietNet

Relabel(f) == {[n EXCEPT !.conn = f[n]] : n \in net}

\* So is a step that changes what the client side does with messages and
\* adds messages A that carry no vote.
LEMMA Relabelled ==
    ASSUME net \subseteq Message, VoteMessagesOK, NEW f \in [net -> Conn],
           \A n \in net : n.cli # n.srv,
           NEW A, \A a \in A : a \in Message /\ a.cli # a.srv /\ ~Counts(a),
           net' \subseteq Relabel(f) \cup A
    PROVE  /\ net' \subseteq Message
           /\ \A m \in net' : m.cli # m.srv
           /\ QuietNet
  <1>1. ASSUME NEW m \in net', m \notin A
        PROVE  \E n \in net : /\ m = [n EXCEPT !.conn = f[n]]
                              /\ m \in Message
                              /\ n.type = m.type /\ n.term = m.term
                              /\ n.cli = m.cli /\ n.srv = m.srv
                              /\ Counts(m) <=> Counts(n)
    <2>1. PICK n \in net : m = [n EXCEPT !.conn = f[n]]
      BY ZenonT(60), <1>1 DEF Relabel
    <2>2. n \in Message /\ f[n] \in Conn
      BY ZenonT(60)
    <2>3. /\ m \in Message
          /\ n.type = m.type /\ n.term = m.term /\ n.cli = m.cli /\ n.srv = m.srv
          /\ n.type = "vote_resp" => m.accepted = n.accepted
      BY ZenonT(60), <2>1, <2>2, ConnType
    <2>4. Counts(m) <=> Counts(n)
      BY ZenonT(60), <2>3 DEF Counts
    <2> QED BY ZenonT(90), <2>1, <2>3, <2>4
  <1>2. \A m, n \in net' :
         Counts(m) /\ Counts(n) /\ m.cli = n.cli /\ m.srv = n.srv /\ m.term = n.term
             => m = n
    <2> SUFFICES ASSUME NEW m \in net', NEW n \in net', Counts(m), Counts(n),
                        m.cli = n.cli, m.srv = n.srv, m.term = n.term
                 PROVE  m = n
      BY ZenonT(60)
    <2>1. PICK a \in net : /\ m = [a EXCEPT !.conn = f[a]]
                            /\ a.term = m.term /\ a.cli = m.cli /\ a.srv = m.srv
                            /\ Counts(a)
      BY ZenonT(60), <1>1
    <2>2. PICK b \in net : /\ n = [b EXCEPT !.conn = f[b]]
                            /\ b.term = n.term /\ b.cli = n.cli /\ b.srv = n.srv
                            /\ Counts(b)
      BY ZenonT(60), <1>1
    <2>3. a = b
      BY ZenonT(60), <2>1, <2>2 DEF VoteMessagesOK
    <2> QED BY ZenonT(60), <2>1, <2>2, <2>3
  <1>3. QuietNet
    BY ZenonT(60), <1>1, <1>2 DEF QuietNet
  <1> QED BY <1>1, <1>3

\* Writing the conn of a message that it has already changes nothing.
LEMMA SameConn ==
    ASSUME NEW m \in Message
    PROVE  [m EXCEPT !.conn = m.conn] = m
  BY ZenonT(60) DEF Message

\* peer::recreate_rpc relabels messages.
LEMMA RecreateOK ==
    ASSUME net \subseteq Message, NEW i, NEW J
    PROVE  \E f \in [net -> Conn] : Recreate(net, i, J) \subseteq Relabel(f)
  <1> DEFINE f == [n \in net |-> IF n.cli = i /\ n.srv \in J /\ n.conn = "busy"
                                   THEN "detached" ELSE n.conn]
  <1>1. f \in [net -> Conn]
    BY ZenonT(60), MessageFields DEF Conn
  <1>2. ASSUME NEW m \in Recreate(net, i, J)
        PROVE  m \in Relabel(f)
    <2>1. PICK n \in net : m = IF n.cli = i /\ n.srv \in J /\ n.conn = "busy"
                                 THEN [n EXCEPT !.conn = "detached"] ELSE n
      BY ZenonT(60), <1>2 DEF Recreate
    <2>2. n = [n EXCEPT !.conn = n.conn]
      BY ZenonT(60), SameConn
    <2>3. m = [n EXCEPT !.conn = f[n]]
      BY ZenonT(60), <2>1, <2>2
    <2> QED BY ZenonT(60), <2>3 DEF Relabel
  <1> HIDE DEF f
  <1> QED BY ZenonT(60), <1>1, <1>2

\* So does one message leaving a busy connection.
LEMMA OneRelabelled ==
    ASSUME net \subseteq Message, NEW m \in net, NEW c \in Conn
    PROVE  \E f \in [net -> Conn] : (net \ {m}) \cup {[m EXCEPT !.conn = c]}
                                     \subseteq Relabel(f)
  <1> DEFINE f == [n \in net |-> IF n = m THEN c ELSE n.conn]
  <1>1. f \in [net -> Conn]
    BY ZenonT(60), MessageFields
  <1>2. ASSUME NEW x \in (net \ {m}) \cup {[m EXCEPT !.conn = c]}
        PROVE  x \in Relabel(f)
    <2>1. CASE x = [m EXCEPT !.conn = c]
      <3>1. x = [m EXCEPT !.conn = f[m]]
        BY ZenonT(60), <2>1
      <3> QED BY ZenonT(60), <3>1 DEF Relabel
    <2>2. CASE x \in net \ {m}
      <3>1. x = [x EXCEPT !.conn = x.conn]
        BY ZenonT(60), <2>2, SameConn
      <3>2. x = [x EXCEPT !.conn = f[x]]
        BY ZenonT(60), <2>2, <3>1
      <3> QED BY ZenonT(60), <2>2, <3>2 DEF Relabel
    <2> QED BY ZenonT(60), <2>1, <2>2, <1>2
  <1> HIDE DEF f
  <1> QED BY ZenonT(60), <1>1, <1>2

\* And so does a crash, which also loses some.
LEMMA SurvivorsOK ==
    ASSUME net \subseteq Message, NEW i
    PROVE  \E f \in [net -> Conn] : Survivors(i) \subseteq Relabel(f)
  <1> DEFINE f == [n \in net |-> IF n.cli = i THEN "orphan" ELSE n.conn]
  <1>1. f \in [net -> Conn]
    BY ZenonT(60), MessageFields DEF Conn
  <1>2. ASSUME NEW m \in Survivors(i)
        PROVE  m \in Relabel(f)
    <2>1. PICK n \in net : m = IF n.cli = i THEN [n EXCEPT !.conn = "orphan"] ELSE n
      BY ZenonT(60), <1>2 DEF Survivors
    <2>2. n = [n EXCEPT !.conn = n.conn]
      BY ZenonT(60), SameConn
    <2>3. m = [n EXCEPT !.conn = f[n]]
      BY ZenonT(60), <2>1, <2>2
    <2> QED BY ZenonT(60), <2>3 DEF Relabel
  <1> HIDE DEF f
  <1> QED BY ZenonT(60), <1>1, <1>2
-----------------------------------------------------------------------------
(* The quiet actions.                                                      *)

\* A fault is counted.
LEMMA FaultType ==
    ASSUME TypeOK, Fault
    PROVE  used' \in Usage
  <1>1. used \in Usage
    BY ZenonT(60) DEF TypeOK
  <1> QED BY <1>1 DEF Fault, Usage

\* A server whose role, term, vote and counter stay is quiet.
LEMMA QuietUnchanged ==
    ASSUME term' = term, voted_for' = voted_for, votes_granted' = votes_granted
    PROVE  \A j \in Server : QuietServer(j)
  BY ZenonT(60) DEF QuietServer

\* request_prevote only recreates connections: no vote message is added or lost
\* from the count, so the invariant stands.
LEMMA RequestPrevoteInv ==
    ASSUME ServerSets, ElectionInv, NEW i \in Server, NEW J \in SUBSET Peers(i), RequestPrevote(i, J)
    PROVE  ElectionInv'
  <1> USE DEF RequestPrevote, voteVars, logVars
  <1>1. TypeOK /\ PeersOK /\ SavedCurrent /\ VoteMessagesOK /\ net \subseteq Message
    BY ZenonT(60) DEF ElectionInv, TypeOK
  <1>2. PICK f \in [net -> Conn] : net' \subseteq Relabel(f)
    BY ZenonT(60), <1>1, RecreateOK
  <1>3. /\ net' \subseteq Message
        /\ \A m \in net' : m.cli # m.srv
        /\ QuietNet
    <2>1. \A n \in net : n.cli # n.srv
      BY ZenonT(60), <1>1 DEF PeersOK
    <2> DEFINE A == {}
    <2>2. net' \subseteq Relabel(f) \cup A
      BY ZenonT(60), <1>2
    <2>3. \A a \in A : a \in Message /\ a.cli # a.srv /\ ~Counts(a)
      BY ZenonT(60)
    <2> HIDE DEF A
    <2> QED BY ZenonT(60), <1>1, <2>1, <2>2, <2>3, Relabelled
  <1>4. used' \in Usage
    BY ZenonT(60), <1>1, FaultType
  <1>5. TypeOK'
    BY ZenonT(60), <1>1, <1>3, <1>4 DEF TypeOK, Usage, Peers
  <1>6. PeersOK'
    BY ZenonT(90), <1>1, <1>3 DEF PeersOK, TypeOK, Peers
  <1>7. SavedCurrent'
    BY ZenonT(60), <1>1 DEF SavedCurrent
  <1>8. \A j \in Server : QuietServer(j)
    BY ZenonT(60), QuietUnchanged
  <1> QED BY ZenonT(60), <1>3, <1>5, <1>6, <1>7, <1>8, QuietStep DEF ElectionInv

\* Resigning changes the role only; votes and messages stay.
LEMMA ResignLeadershipInv ==
    ASSUME ServerSets, ElectionInv, NEW i \in Server, ResignLeadership(i)
    PROVE  ElectionInv'
  <1> USE DEF ResignLeadership, voteVars, logVars, peerVars
  <1>1. TypeOK /\ PeersOK /\ SavedCurrent /\ VoteMessagesOK
    BY ZenonT(60) DEF ElectionInv
  <1>2. used' \in Usage
    BY ZenonT(60), <1>1, FaultType
  <1>3. TypeOK'
    BY ZenonT(60), <1>1, <1>2 DEF TypeOK
  <1>4. PeersOK' /\ SavedCurrent'
    BY ZenonT(60), <1>1 DEF PeersOK, TypeOK, SavedCurrent
  <1>5. (\A j \in Server : QuietServer(j)) /\ QuietNet
    BY ZenonT(60), <1>1, QuietUnchanged, FewerVotes
  <1> QED BY ZenonT(60), <1>3, <1>4, <1>5, QuietStep DEF ElectionInv

\* handle_cli_req stores an entry of the leader's own non-zero term.
LEMMA ClientRequestInv ==
    ASSUME ServerSets, ElectionInv, NEW i \in Server, NEW c \in Command, ClientRequest(i, c)
    PROVE  ElectionInv'
  <1> USE DEF ClientRequest, stateVars, voteVars, peerVars
  <1>1. TypeOK /\ PeersOK /\ SavedCurrent /\ VoteMessagesOK
    BY ZenonT(60) DEF ElectionInv
  <1>2. used' \in Usage
    <2>1. used \in Usage
      BY ZenonT(60), <1>1 DEF TypeOK
    <2> QED BY SMTT(90), <2>1 DEF Usage
  <1>3. log' \in [Server -> Seq(Entry)]
    <2>1. term[i] \in Nat \ {0}
      BY ZenonT(60), <1>1 DEF TypeOK, PeersOK
    <2>2. [term |-> term[i], cmd |-> c] \in Entry
      BY ZenonT(60), <2>1 DEF Entry
    <2>3. log[i] \in Seq(Entry) /\ log \in [Server -> Seq(Entry)]
      BY ZenonT(60), <1>1 DEF TypeOK
    <2>4. Append(log[i], [term |-> term[i], cmd |-> c]) \in Seq(Entry)
      BY SMTT(90), <2>2, <2>3
    <2> QED BY ZenonT(60), <2>3, <2>4
  <1>4. precommit_index' \in [Server -> Nat]
    BY SMTT(90), <1>1 DEF TypeOK
  <1>5. TypeOK'
    BY ZenonT(60), <1>1, <1>2, <1>3, <1>4 DEF TypeOK
  <1>6. PeersOK' /\ SavedCurrent'
    BY ZenonT(60), <1>1 DEF PeersOK, SavedCurrent
  <1>7. (\A j \in Server : QuietServer(j)) /\ QuietNet
    BY ZenonT(60), <1>1, QuietUnchanged, FewerVotes
  <1> QED BY ZenonT(60), <1>5, <1>6, <1>7, QuietStep DEF ElectionInv

\* A heartbeat adds append requests only, which never count as votes.
LEMMA HeartbeatInv ==
    ASSUME ServerSets, ElectionInv, NEW i \in Server, NEW j \in Peers(i), Heartbeat(i, j)
    PROVE  ElectionInv'
  <1> USE DEF Heartbeat, stateVars, voteVars, logVars
  <1>1. TypeOK /\ PeersOK /\ SavedCurrent /\ VoteMessagesOK
    BY ZenonT(60) DEF ElectionInv
  <1>2. used' \in Usage
    <2>1. used \in Usage
      BY ZenonT(60), <1>1 DEF TypeOK
    <2> QED BY SMTT(90), <2>1 DEF Usage
  <1>3. /\ term[i] \in Nat /\ log[i] \in Seq(Entry) /\ quick_commit_index[i] \in Nat
        /\ next_log_idx[i] \in [Server -> Nat] /\ matched_idx[i] \in [Server -> Nat]
        /\ {j} \in SUBSET Peers(i)
    BY ZenonT(60), <1>1 DEF TypeOK
  <1>4. /\ next_log_idx' \in [Server -> [Server -> Nat]]
        /\ matched_idx' \in [Server -> [Server -> Nat]]
        /\ rpc' \in [Server -> SUBSET Server]
        /\ net' \subseteq Message
        /\ \A x \in Server : x \notin rpc'[x]
        /\ \A m \in net' : m.cli # m.srv
        /\ \A m \in net' : Counts(m) => m \in net
    BY ZenonT(60), <1>1, <1>3, RequestAppendOK
  <1>5. TypeOK'
    BY ZenonT(90), <1>1, <1>2, <1>4 DEF TypeOK
  <1>6. PeersOK' /\ SavedCurrent'
    BY ZenonT(60), <1>1, <1>4 DEF PeersOK, SavedCurrent
  <1>7. (\A x \in Server : QuietServer(x)) /\ QuietNet
    BY ZenonT(60), <1>1, <1>4, QuietUnchanged, FewerVotes
  <1> QED BY ZenonT(60), <1>5, <1>6, <1>7, QuietStep DEF ElectionInv

\* Replacing the RPC client of an inactive peer relabels the outstanding message
\* and adds an append request.
LEMMA ForceReconnectInv ==
    ASSUME ServerSets, ElectionInv, NEW i \in Server, NEW j \in Peers(i), ForceReconnect(i, j)
    PROVE  ElectionInv'
  <1> USE DEF ForceReconnect, stateVars, voteVars, logVars
  <1> DEFINE n == Len(log[i]) + 1
             a == AppendReq(i, j, term[i], log[i], n, quick_commit_index[i])
  <1>1. TypeOK /\ PeersOK /\ SavedCurrent /\ VoteMessagesOK /\ net \subseteq Message
    BY ZenonT(60) DEF ElectionInv, TypeOK
  <1>2. used' \in Usage
    BY ZenonT(60), <1>1, FaultType
  <1>3. /\ term[i] \in Nat /\ log[i] \in Seq(Entry) /\ quick_commit_index[i] \in Nat
        /\ n \in Nat \ {0} /\ j \in Server /\ i # j
        /\ next_log_idx[i] \in [Server -> Nat]
    <2> HIDE DEF ForceReconnect
    <2>1. /\ term[i] \in Nat /\ log[i] \in Seq(Entry) /\ quick_commit_index[i] \in Nat
          /\ next_log_idx[i] \in [Server -> Nat]
      BY ZenonT(60), <1>1 DEF TypeOK
    <2>2. n \in Nat \ {0}
      BY <2>1
    <2> QED BY ZenonT(60), <2>1, <2>2 DEF Peers
  <1>4. /\ next_log_idx' \in [Server -> [Server -> Nat]]
        /\ matched_idx' \in [Server -> [Server -> Nat]]
    <2>1. [next_log_idx[i] EXCEPT ![j] = n] \in [Server -> Nat]
      BY ZenonT(60), <1>3
    <2>2. [matched_idx[i] EXCEPT ![j] = 0] \in [Server -> Nat]
      BY ZenonT(60), <1>1 DEF TypeOK
    <2>3. next_log_idx' = [next_log_idx EXCEPT ![i] = [next_log_idx[i] EXCEPT ![j] = n]]
      BY ZenonT(60)
    <2>4. matched_idx' = [matched_idx EXCEPT ![i] = [matched_idx[i] EXCEPT ![j] = 0]]
      BY ZenonT(60)
    <2> HIDE DEF ForceReconnect
    <2> QED BY ZenonT(60), <1>1, <2>1, <2>2, <2>3, <2>4 DEF TypeOK
  <1>5. PICK f \in [net -> Conn] : Recreate(net, i, {j}) \subseteq Relabel(f)
    BY ZenonT(60), <1>1, RecreateOK
  <1>6. a \in Message /\ a.cli # a.srv /\ ~Counts(a)
    <2>1. a \in Message
      BY ZenonT(60), <1>3, AppendReqType
    <2>2. a.cli = i /\ a.srv = j /\ a.type = "append_req"
      BY ZenonT(60) DEF AppendReq
    <2> QED BY ZenonT(60), <1>3, <2>1, <2>2 DEF Counts
  <1>7. net' = Recreate(net, i, {j}) \cup {a}
    BY ZenonT(60), <1>1, <1>3
  <1> HIDE DEF a
  <1>8. net' \subseteq Message /\ (\A m \in net' : m.cli # m.srv) /\ QuietNet
    <2>1. \A x \in net : x.cli # x.srv
      BY ZenonT(60), <1>1 DEF PeersOK
    <2> DEFINE A == {a}
    <2>2. net' \subseteq Relabel(f) \cup A
      BY ZenonT(60), <1>5, <1>7
    <2>3. \A b \in A : b \in Message /\ b.cli # b.srv /\ ~Counts(b)
      BY ZenonT(60), <1>6
    <2> HIDE DEF A
    <2> QED BY ZenonT(60), <1>1, <2>1, <2>2, <2>3, Relabelled
  <1>9. TypeOK'
    BY ZenonT(60), <1>1, <1>2, <1>4, <1>8 DEF TypeOK
  <1>10. PeersOK' /\ SavedCurrent'
    BY ZenonT(90), <1>1, <1>8 DEF PeersOK, SavedCurrent
  <1>11. \A x \in Server : QuietServer(x)
    BY ZenonT(60), QuietUnchanged
  <1> QED BY ZenonT(60), <1>8, <1>9, <1>10, <1>11, QuietStep DEF ElectionInv

\* Freeing a peer before its response is handled relabels one message; it still
\* counts once.
LEMMA FreeBeforeHandlerInv ==
    ASSUME ServerSets, ElectionInv, NEW m \in net, FreeBeforeHandler(m)
    PROVE  ElectionInv'
  <1> USE DEF FreeBeforeHandler, stateVars, voteVars, logVars, peerVars
  <1>1. TypeOK /\ PeersOK /\ SavedCurrent /\ VoteMessagesOK /\ net \subseteq Message
    BY ZenonT(60) DEF ElectionInv, TypeOK
  <1>2. PICK f \in [net -> Conn] : net' \subseteq Relabel(f)
    BY ZenonT(60), <1>1, OneRelabelled DEF Conn
  <1>3. net' \subseteq Message /\ (\A n \in net' : n.cli # n.srv) /\ QuietNet
    <2>1. \A n \in net : n.cli # n.srv
      BY ZenonT(60), <1>1 DEF PeersOK
    <2> DEFINE A == {}
    <2>2. net' \subseteq Relabel(f) \cup A
      BY ZenonT(60), <1>2
    <2>3. \A a \in A : a \in Message /\ a.cli # a.srv /\ ~Counts(a)
      BY ZenonT(60)
    <2> HIDE DEF A
    <2> QED BY ZenonT(60), <1>1, <2>1, <2>2, <2>3, Relabelled
  <1>4. used' \in Usage
    BY ZenonT(60), <1>1, FaultType
  <1>5. TypeOK'
    BY ZenonT(60), <1>1, <1>3, <1>4 DEF TypeOK
  <1>6. PeersOK' /\ SavedCurrent'
    BY ZenonT(60), <1>1, <1>3 DEF PeersOK, SavedCurrent
  <1>7. \A x \in Server : QuietServer(x)
    BY ZenonT(60), QuietUnchanged
  <1> QED BY ZenonT(60), <1>3, <1>5, <1>6, <1>7, QuietStep DEF ElectionInv

\* A failed RPC loses or orphans one message: the votes that count can only
\* become fewer.
LEMMA RpcFailsInv ==
    ASSUME ServerSets, ElectionInv, NEW m \in net, RpcFails(m)
    PROVE  ElectionInv'
  <1> USE DEF RpcFails, stateVars, voteVars, logVars
  <1>1. TypeOK /\ PeersOK /\ SavedCurrent /\ VoteMessagesOK /\ net \subseteq Message
    BY ZenonT(60) DEF ElectionInv, TypeOK
  <1>2. PICK f \in [net -> Conn] : net' \subseteq Relabel(f)
    <2>1. "orphan" \in Conn
      BY ZenonT(60) DEF Conn
    <2>2. net' \subseteq (net \ {m}) \cup {[m EXCEPT !.conn = "orphan"]}
      BY ZenonT(60)
    <2> QED BY ZenonT(60), <1>1, <2>1, <2>2, OneRelabelled
  <1>3. net' \subseteq Message /\ (\A n \in net' : n.cli # n.srv) /\ QuietNet
    <2>1. \A n \in net : n.cli # n.srv
      BY ZenonT(60), <1>1 DEF PeersOK
    <2> DEFINE A == {}
    <2>2. net' \subseteq Relabel(f) \cup A
      BY ZenonT(60), <1>2
    <2>3. \A a \in A : a \in Message /\ a.cli # a.srv /\ ~Counts(a)
      BY ZenonT(60)
    <2> HIDE DEF A
    <2> QED BY ZenonT(60), <1>1, <2>1, <2>2, <2>3, Relabelled
  <1>4. used' \in Usage
    BY ZenonT(60), <1>1, FaultType
  <1>5. rpc' \in [Server -> SUBSET Server] /\ \A x \in Server : x \notin rpc'[x]
    BY ZenonT(60), <1>1 DEF TypeOK, PeersOK
  <1>6. TypeOK'
    BY ZenonT(90), <1>1, <1>3, <1>4, <1>5 DEF TypeOK
  <1>7. PeersOK' /\ SavedCurrent'
    BY ZenonT(60), <1>1, <1>3, <1>5 DEF PeersOK, SavedCurrent
  <1>8. \A x \in Server : QuietServer(x)
    BY ZenonT(60), QuietUnchanged
  <1> QED BY ZenonT(60), <1>3, <1>6, <1>7, <1>8, QuietStep DEF ElectionInv

\* A crash restores exactly the saved term and vote, and sets the counter of
\* votes to zero.
LEMMA RestartInv ==
    ASSUME ServerSets, ElectionInv, NEW i \in Server, NEW k \in 0..quick_commit_index[i], Restart(i, k)
    PROVE  ElectionInv'
  <1>1. TypeOK /\ PeersOK /\ SavedCurrent /\ VoteMessagesOK /\ net \subseteq Message
    BY ZenonT(60) DEF ElectionInv, TypeOK
  <1>2. PICK f \in [net -> Conn] : net' \subseteq Relabel(f)
    BY ZenonT(60), <1>1, SurvivorsOK DEF Restart
  <1>3. net' \subseteq Message /\ (\A n \in net' : n.cli # n.srv) /\ QuietNet
    <2>1. \A n \in net : n.cli # n.srv
      BY ZenonT(60), <1>1 DEF PeersOK
    <2> DEFINE A == {}
    <2>2. net' \subseteq Relabel(f) \cup A
      BY ZenonT(60), <1>2
    <2>3. \A a \in A : a \in Message /\ a.cli # a.srv /\ ~Counts(a)
      BY ZenonT(60)
    <2> HIDE DEF A
    <2> QED BY ZenonT(60), <1>1, <2>1, <2>2, <2>3, Relabelled
  <1>4. used' \in Usage
    BY ZenonT(60), <1>1, FaultType DEF Restart
  <1>5. /\ saved[i] = [term |-> term[i], voted_for |-> voted_for[i]]
        /\ term' = term /\ voted_for' = voted_for
    BY SMTT(90), <1>1 DEF Restart, SavedCurrent, TypeOK
  <1>6. rpc' \in [Server -> SUBSET Server] /\ \A x \in Server : x \notin rpc'[x]
    BY ZenonT(60), <1>1 DEF TypeOK, PeersOK, Restart, Peers
  <1>7. /\ precommit_index' \in [Server -> Nat]
        /\ quick_commit_index' \in [Server -> Nat]
    <2>1. Len(log[i]) \in Nat /\ k \in Nat
      BY <1>1 DEF TypeOK
    <2> QED BY ZenonT(60), <1>1, <2>1 DEF TypeOK, Restart
  <1>8. /\ next_log_idx' \in [Server -> [Server -> Nat]]
        /\ matched_idx' \in [Server -> [Server -> Nat]]
        /\ pending_commit' \in [Server -> SUBSET Server]
    BY ZenonT(60), <1>1 DEF TypeOK, Restart
  <1>9. /\ role' \in [Server -> {"follower", "candidate", "leader"}]
        /\ votes_granted' \in [Server -> Nat]
        /\ votes_responded' \in [Server -> Nat]
        /\ election_completed' \in [Server -> BOOLEAN]
        /\ \A x \in Server : role'[x] = "leader" => role[x] = "leader"
        /\ \A x \in Server : votes_granted'[x] \in {votes_granted[x], 0}
    BY ZenonT(60), <1>1 DEF TypeOK, Restart
  <1>10. TypeOK'
    <2>1. UNCHANGED <<saved, log, ballots, elected, committed>>
      BY ZenonT(60) DEF Restart
    <2> QED BY ZenonT(90), <2>1, <1>1, <1>3, <1>4, <1>5, <1>6, <1>7, <1>8, <1>9 DEF TypeOK
  <1>11. PeersOK' /\ SavedCurrent'
    BY ZenonT(60), <1>1, <1>3, <1>5, <1>6, <1>9 DEF PeersOK, SavedCurrent, Restart
  <1>12. \A x \in Server : QuietServer(x)
    BY ZenonT(60), <1>5, <1>9 DEF QuietServer
  <1> QED BY ZenonT(60), <1>3, <1>10, <1>11, <1>12, QuietStep DEF ElectionInv, Restart

\* update_term and the vote after it: a step to a higher term starts over, any
\* other changes nothing.
LEMMA UpdateTermQuiet ==
    ASSUME TypeOK, NEW i \in Server, NEW t \in Nat, UpdateTerm(i, t)
    PROVE  /\ role' \in [Server -> {"follower", "candidate", "leader"}]
           /\ term' \in [Server -> Nat]
           /\ votes_granted' \in [Server -> Nat]
           /\ votes_responded' \in [Server -> Nat]
           /\ election_completed' \in [Server -> BOOLEAN]
           /\ \A x \in Server : role'[x] = "leader" => role[x] = "leader" /\ term'[x] = term[x]
           /\ \A x \in Server : x # i => term'[x] = term[x] /\ votes_granted'[x] = votes_granted[x]
           /\ t > term[i] => term'[i] = t /\ votes_granted'[i] = 0
           /\ ~(t > term[i]) => term'[i] = term[i] /\ votes_granted'[i] = votes_granted[i]
  <1>1. CASE t > term[i]
    <2>1. /\ term' = [term EXCEPT ![i] = t]
          /\ role' = [role EXCEPT ![i] = "follower"]
          /\ election_completed' = [election_completed EXCEPT ![i] = FALSE]
          /\ votes_granted' = [votes_granted EXCEPT ![i] = 0]
          /\ votes_responded' = [votes_responded EXCEPT ![i] = 0]
      BY ZenonT(60), <1>1 DEF UpdateTerm
    <2>2. /\ role \in [Server -> {"follower", "candidate", "leader"}]
          /\ term \in [Server -> Nat]
          /\ votes_granted \in [Server -> Nat]
          /\ votes_responded \in [Server -> Nat]
          /\ election_completed \in [Server -> BOOLEAN]
      BY ZenonT(60) DEF TypeOK
    <2>3. /\ role' \in [Server -> {"follower", "candidate", "leader"}]
          /\ term' \in [Server -> Nat]
          /\ votes_granted' \in [Server -> Nat]
          /\ votes_responded' \in [Server -> Nat]
          /\ election_completed' \in [Server -> BOOLEAN]
      BY ZenonT(60), <2>1, <2>2
    <2> QED BY ZenonT(60), <1>1, <2>1, <2>2, <2>3
  <1>2. CASE ~(t > term[i])
    BY ZenonT(60), <1>2 DEF UpdateTerm, TypeOK, voteVars
  <1> QED BY ZenonT(60), <1>1, <1>2

\* A response of a higher term erases the vote and the counters of the old term.
LEMMA RespUpdatesTermInv ==
    ASSUME ServerSets, ElectionInv, NEW m \in net, RespUpdatesTerm(m)
    PROVE  ElectionInv'
  <1> DEFINE i == m.cli
  <1>1. TypeOK /\ PeersOK /\ SavedCurrent /\ VoteMessagesOK
    BY ZenonT(60) DEF ElectionInv
  <1>2. i \in Server /\ m.term \in Nat /\ m.term > term[i]
    BY ZenonT(60), <1>1, MessageFields DEF TypeOK, RespUpdatesTerm
  <1>3. /\ UpdateTerm(i, m.term)
        /\ voted_for' = [voted_for EXCEPT ![i] = Nil]
        /\ saved' = [saved EXCEPT ![i] = [term |-> m.term, voted_for |-> Nil]]
        /\ net' = net \ {m}
        /\ UNCHANGED <<logVars, peerVars, history>>
    BY ZenonT(60) DEF RespUpdatesTerm
  <1> HIDE DEF i
  <1>4. /\ role' \in [Server -> {"follower", "candidate", "leader"}]
        /\ term' \in [Server -> Nat]
        /\ votes_granted' \in [Server -> Nat]
        /\ votes_responded' \in [Server -> Nat]
        /\ election_completed' \in [Server -> BOOLEAN]
        /\ \A x \in Server : role'[x] = "leader" => role[x] = "leader" /\ term'[x] = term[x]
        /\ \A x \in Server : x # i => term'[x] = term[x] /\ votes_granted'[x] = votes_granted[x]
        /\ term'[i] = m.term /\ votes_granted'[i] = 0
    BY ZenonT(60), <1>1, <1>2, <1>3, UpdateTermQuiet
  <1>5. /\ voted_for' \in [Server -> Server \cup {Nil}]
        /\ saved' \in [Server -> [term : Nat, voted_for : Server \cup {Nil}]]
    <2> DEFINE T == [term : Nat, voted_for : Server \cup {Nil}]
    <2>1. [term |-> m.term, voted_for |-> Nil] \in T
      BY ZenonT(60), <1>2
    <2>2. saved \in [Server -> T] /\ voted_for \in [Server -> Server \cup {Nil}]
      BY ZenonT(60), <1>1 DEF TypeOK
    <2> HIDE DEF T
    <2>3. saved' \in [Server -> T] /\ voted_for' \in [Server -> Server \cup {Nil}]
      BY ZenonT(60), <1>3, <2>1, <2>2
    <2> QED BY ZenonT(60), <2>3 DEF T
  <1>6. TypeOK'
    BY ZenonT(90), <1>1, <1>3, <1>4, <1>5 DEF TypeOK, logVars, peerVars, history
  <1>7. PeersOK'
    BY ZenonT(60), <1>1, <1>3, <1>4 DEF PeersOK, peerVars
  <1>8. SavedCurrent'
    BY ZenonT(60), <1>1, <1>2, <1>3, <1>4 DEF SavedCurrent, TypeOK
  <1>9. \A x \in Server : QuietServer(x)
    BY ZenonT(90), <1>1, <1>2, <1>3, <1>4 DEF QuietServer, TypeOK
  <1>10. QuietNet
    BY ZenonT(60), <1>1, <1>3, FewerVotes
  <1> QED BY ZenonT(60), <1>3, <1>6, <1>7, <1>8, <1>9, <1>10, QuietStep DEF ElectionInv, history

\* Dropping a late vote response leaves every counter as it is.
LEMMA IgnoreVoteRespInv ==
    ASSUME ServerSets, ElectionInv, NEW m \in net, IgnoreVoteResp(m)
    PROVE  ElectionInv'
  <1>1. TypeOK /\ PeersOK /\ SavedCurrent /\ VoteMessagesOK
    BY ZenonT(60) DEF ElectionInv
  <1>2. net' = net \ {m} /\ UNCHANGED <<stateVars, voteVars, logVars, peerVars, history>>
    BY ZenonT(60) DEF IgnoreVoteResp
  <1> USE DEF stateVars, voteVars, logVars, peerVars, history
  <1>3. TypeOK'
    BY ZenonT(90), <1>1, <1>2 DEF TypeOK
  <1>4. PeersOK' /\ SavedCurrent'
    BY ZenonT(60), <1>1, <1>2 DEF PeersOK, SavedCurrent
  <1>5. (\A x \in Server : QuietServer(x)) /\ QuietNet
    BY ZenonT(60), <1>1, <1>2, QuietUnchanged, FewerVotes
  <1> QED BY ZenonT(60), <1>2, <1>3, <1>4, <1>5, QuietStep DEF ElectionInv

\* Committing entries of a log records pairs of an index and an entry.
LEMMA CommittedByType ==
    ASSUME NEW lg \in Seq(Entry), NEW ci \in Nat
    PROVE  CommittedBy(lg, ci) \subseteq Nat \X Entry
  <1>1. \A k \in 1..Min2(ci, Len(lg)) : k \in Nat /\ lg[k] \in Entry
    BY SMTT(90) DEF Min2
  <1> QED BY <1>1 DEF CommittedBy

\* handle_append_entries keeps log, commit index and history well typed, and
\* touches no vote.
LEMMA HandleAppendReqInv ==
    ASSUME ServerSets, SkipDefined, ElectionInv, NEW m \in net, HandleAppendReq(m)
    PROVE  ElectionInv'
  <1> DEFINE i == m.srv
             t == Max2(term[i], m.term)
             twin == m.term = term[i] /\ role[i] = "leader"
             ok == m.term = t /\ PrevOkay(m, log[i])
             target == m.last_log_idx + Len(m.entries)
             lg == Stored(m, log[i])
             ci == Max2(RolledBack(m, log[i], quick_commit_index[i]), CommitTarget(m))
             r == AppendResp(m, t, ok, IF ok THEN target + 1 ELSE Len(log[i]) + 1)
  <1>1. TypeOK /\ PeersOK /\ SavedCurrent /\ VoteMessagesOK /\ m \in Message
    BY ZenonT(90) DEF ElectionInv, TypeOK
  <1>2. /\ i \in Server /\ m.cli \in Server /\ m.term \in Nat /\ m.conn \in Conn
        /\ m.type = "append_req" /\ m.last_log_idx \in Nat /\ m.commit_idx \in Nat
        /\ m.entries \in Seq(Entry) /\ m.cli # m.srv
    BY ZenonT(60), <1>1, MessageFields DEF HandleAppendReq, PeersOK
  <1>3. /\ term[i] \in Nat /\ log[i] \in Seq(Entry) /\ quick_commit_index[i] \in Nat
        /\ t \in Nat /\ target \in Nat
    <2>1. term[i] \in Nat /\ log[i] \in Seq(Entry) /\ quick_commit_index[i] \in Nat
      BY ZenonT(60), <1>1, <1>2 DEF TypeOK
    <2>2. Len(m.entries) \in Nat
      BY SMTT(90), <1>2
    <2> QED BY SMTT(90), <1>2, <2>1, <2>2 DEF Max2
  <1>4. /\ IF m.term > term[i]
             THEN UpdateTerm(i, m.term)
             ELSE /\ role' = [role EXCEPT ![i] =
                         IF m.term = term[i] /\ @ = "candidate" THEN "follower" ELSE @]
                  /\ UNCHANGED <<term, voteVars>>
        /\ voted_for' = [voted_for EXCEPT ![i] = VoteAfter(i, m.term)]
        /\ saved' = [saved EXCEPT ![i] = IF m.term > term[i]
                                           THEN [term |-> t, voted_for |-> Nil] ELSE @]
        /\ IF twin \/ ~ok
             THEN UNCHANGED <<logVars, committed>>
             ELSE /\ log' = [log EXCEPT ![i] = lg]
                  /\ precommit_index' = [precommit_index EXCEPT ![i] = Max2(@, target)]
                  /\ quick_commit_index' = [quick_commit_index EXCEPT ![i] = ci]
                  /\ committed' = committed \cup CommittedBy(lg, ci)
        /\ net' = IF twin THEN net \ {m} ELSE Reply(net, m, r)
        /\ UNCHANGED <<peerVars, used, ballots, elected>>
    BY ZenonT(90) DEF HandleAppendReq
  <1>5. r \in Message /\ r.cli # r.srv /\ ~Counts(r)
    <2> DEFINE nx == IF ok THEN target + 1 ELSE Len(log[i]) + 1
    <2>1. r \in Message
      <3>1. ok \in BOOLEAN
        BY ZenonT(60)
      <3>2. nx \in Nat \ {0}
        <4>1. Len(log[i]) \in Nat
          BY SMTT(90), <1>3
        <4> HIDE DEF target, ok
        <4> QED BY SMTT(90), <1>3, <4>1
      <3> HIDE DEF ok, nx, t, target
      <3> QED BY ZenonT(60), <1>2, <1>3, <3>1, <3>2 DEF AppendResp, Message, nx, i
    <2>2. r.cli = m.cli /\ r.srv = m.srv /\ r.type = "append_resp"
      BY ZenonT(60) DEF AppendResp
    <2> QED BY ZenonT(90), <1>2, <2>1, <2>2 DEF Counts
  <1>6. ok => lg \in Seq(Entry)
    BY ZenonT(60), <1>1, <1>2, <1>3, StoredType
  <1>7. ci \in Nat
    <2>1. Skipped(m, log[i]) \in 0..Len(m.entries)
      BY ZenonT(60), <1>1, <1>2, <1>3 DEF SkipDefined
    <2>2. RolledBack(m, log[i], quick_commit_index[i]) \in Nat
      BY SMTT(90), <1>2, <1>3, <2>1 DEF RolledBack
    <2> QED BY ZenonT(60), <1>2, <1>3, <2>2 DEF Max2, Min2, CommitTarget
  <1> HIDE DEF r, ok, lg, ci, t, target, twin, i
  <1>8. /\ net' \subseteq Message /\ (\A n \in net' : n.cli # n.srv)
        /\ \A n \in net' : Counts(n) => n \in net
    <2>1. net' \subseteq net \cup {r}
      BY ZenonT(60), <1>4 DEF Reply
    <2> QED BY ZenonT(60), <1>1, <1>5, <2>1 DEF TypeOK, PeersOK
  <1>9. /\ log' \in [Server -> Seq(Entry)]
        /\ precommit_index' \in [Server -> Nat]
        /\ quick_commit_index' \in [Server -> Nat]
        /\ committed' \subseteq Nat \X Entry
    <2>1. /\ log \in [Server -> Seq(Entry)]
          /\ precommit_index \in [Server -> Nat]
          /\ quick_commit_index \in [Server -> Nat]
          /\ committed \subseteq Nat \X Entry
      BY ZenonT(60), <1>1 DEF TypeOK
    <2>2. CASE twin \/ ~ok
      BY ZenonT(60), <1>4, <2>1, <2>2 DEF logVars
    <2>3. CASE ~(twin \/ ~ok)
      <3>1. lg \in Seq(Entry)
        BY ZenonT(60), <1>6, <2>3
      <3>2. CommittedBy(lg, ci) \subseteq Nat \X Entry
        BY ZenonT(60), <3>1, <1>7, CommittedByType
      <3> QED BY ZenonT(90), <1>2, <1>3, <1>4, <1>7, <2>1, <2>3, <3>1, <3>2 DEF Max2
    <2> QED BY ZenonT(60), <2>2, <2>3
  <1>10. /\ role' \in [Server -> {"follower", "candidate", "leader"}]
         /\ term' \in [Server -> Nat]
         /\ votes_granted' \in [Server -> Nat]
         /\ votes_responded' \in [Server -> Nat]
         /\ election_completed' \in [Server -> BOOLEAN]
         /\ \A x \in Server : role'[x] = "leader" => role[x] = "leader" /\ term'[x] = term[x]
         /\ \A x \in Server : x # i => term'[x] = term[x] /\ votes_granted'[x] = votes_granted[x]
         /\ m.term > term[i] => term'[i] = m.term /\ votes_granted'[i] = 0
         /\ ~(m.term > term[i]) => term'[i] = term[i] /\ votes_granted'[i] = votes_granted[i]
    <2>1. CASE m.term > term[i]
      BY ZenonT(90), <1>1, <1>2, <1>4, <2>1, UpdateTermQuiet
    <2>2. CASE ~(m.term > term[i])
      <3>1. /\ role' = [role EXCEPT ![i] = IF m.term = term[i] /\ @ = "candidate" THEN "follower" ELSE @]
            /\ UNCHANGED <<term, voteVars>>
        BY ZenonT(60), <1>4, <2>2
      <3>2. role \in [Server -> {"follower", "candidate", "leader"}]
        BY ZenonT(60), <1>1 DEF TypeOK
      <3>3. /\ role' \in [Server -> {"follower", "candidate", "leader"}]
            /\ \A x \in Server : role'[x] = "leader" => role[x] = "leader"
        BY ZenonT(60), <3>1, <3>2, <1>2
      <3> QED BY ZenonT(60), <1>1, <2>2, <3>1, <3>3 DEF TypeOK, voteVars
    <2> QED BY ZenonT(60), <2>1, <2>2
  <1>11. /\ voted_for' \in [Server -> Server \cup {Nil}]
         /\ saved' \in [Server -> [term : Nat, voted_for : Server \cup {Nil}]]
    <2> DEFINE T == [term : Nat, voted_for : Server \cup {Nil}]
    <2>1. [term |-> t, voted_for |-> Nil] \in T
      BY ZenonT(60), <1>3
    <2>2. saved \in [Server -> T] /\ voted_for \in [Server -> Server \cup {Nil}]
      BY ZenonT(60), <1>1 DEF TypeOK
    <2>3. VoteAfter(i, m.term) \in Server \cup {Nil}
      BY ZenonT(60), <1>2, <2>2 DEF VoteAfter
    <2> HIDE DEF T
    <2>4. saved' \in [Server -> T] /\ voted_for' \in [Server -> Server \cup {Nil}]
      BY ZenonT(90), <1>2, <1>4, <2>1, <2>2, <2>3
    <2> QED BY ZenonT(60), <2>4 DEF T
  <1>12. TypeOK'
    BY ZenonT(90), <1>1, <1>4, <1>8, <1>9, <1>10, <1>11 DEF TypeOK, peerVars
  <1>13. PeersOK'
    BY ZenonT(90), <1>1, <1>4, <1>8, <1>10 DEF PeersOK, peerVars
  <1>14. SavedCurrent'
    <2>1. m.term > term[i] => t = m.term
      BY SMTT(90), <1>2, <1>3 DEF t, Max2
    <2>2. saved'[i] = [term |-> term'[i], voted_for |-> voted_for'[i]]
      <3>1. saved[i] = [term |-> term[i], voted_for |-> voted_for[i]]
        BY ZenonT(60), <1>1, <1>2 DEF SavedCurrent
      <3>2. /\ saved'[i] = IF m.term > term[i] THEN [term |-> t, voted_for |-> Nil] ELSE saved[i]
            /\ voted_for'[i] = VoteAfter(i, m.term)
        BY ZenonT(90), <1>1, <1>2, <1>4 DEF TypeOK
      <3> QED BY ZenonT(60), <1>10, <2>1, <3>1, <3>2 DEF VoteAfter
    <2>3. ASSUME NEW x \in Server, x # i
          PROVE  saved'[x] = [term |-> term'[x], voted_for |-> voted_for'[x]]
      <3>1. saved'[x] = saved[x] /\ voted_for'[x] = voted_for[x] /\ term'[x] = term[x]
        BY ZenonT(90), <1>1, <1>4, <1>10, <2>3 DEF TypeOK
      <3> QED BY ZenonT(60), <1>1, <3>1 DEF SavedCurrent
    <2> QED BY ZenonT(90), <2>2, <2>3 DEF SavedCurrent
  <1>15. \A x \in Server : QuietServer(x)
    BY ZenonT(90), <1>1, <1>2, <1>4, <1>10 DEF QuietServer, TypeOK, VoteAfter
  <1>16. QuietNet
    BY ZenonT(60), <1>1, <1>8, FewerVotes
  <1> QED BY ZenonT(60), <1>4, <1>12, <1>13, <1>14, <1>15, <1>16, QuietStep DEF ElectionInv

\* An accepted append response, of whatever term, moves indexes only.
LEMMA HandleAcceptedInv ==
    ASSUME ServerSets, ExpectedDefined, ElectionInv, NEW m \in net, HandleAccepted(m)
    PROVE  ElectionInv'
  <1> DEFINE i == m.cli
             p == m.srv
             n == net \ {m}
             nx == [next_log_idx[i] EXCEPT ![p] = m.next_idx]
             mt == [matched_idx[i] EXCEPT ![p] = m.next_idx - 1]
             target == ExpectedCommitted(i, mt)
             advance == target > quick_commit_index[i]
             ci == Max2(target, quick_commit_index[i])
             lead == role[i] = "leader"
             notified == IF advance /\ lead THEN Peers(i) ELSE {}
             pend == pending_commit[i] \cup (notified \ Reached(i, n, notified))
             catchup == p \in pend \/ m.next_idx < Len(log[i]) + 1
             J == notified \cup (IF catchup /\ lead THEN {p} ELSE {})
  <1>1. TypeOK /\ PeersOK /\ SavedCurrent /\ VoteMessagesOK /\ m \in Message
    BY ZenonT(60) DEF ElectionInv, TypeOK
  <1>2. /\ i \in Server /\ p \in Server /\ m.next_idx \in Nat \ {0} /\ i # p
    BY ZenonT(90), <1>1, MessageFields DEF HandleAccepted, PeersOK
  <1>3. /\ quick_commit_index' = [quick_commit_index EXCEPT ![i] = ci]
        /\ committed' = committed \cup (IF advance THEN CommittedBy(log[i], ci) ELSE {})
        /\ pending_commit' = [pending_commit EXCEPT ![i] = pend \ {p}]
        /\ RequestAppendEntries(i, term[i], log[i], ci, nx, mt, n, J)
        /\ UNCHANGED <<stateVars, voteVars, log, precommit_index, used, ballots, elected>>
    BY ZenonT(90) DEF HandleAccepted
  <1>4. /\ term[i] \in Nat /\ log[i] \in Seq(Entry) /\ quick_commit_index[i] \in Nat
        /\ next_log_idx[i] \in [Server -> Nat] /\ matched_idx[i] \in [Server -> Nat]
        /\ pending_commit[i] \in SUBSET Server
    BY ZenonT(60), <1>1, <1>2 DEF TypeOK
  <1>5. nx \in [Server -> Nat] /\ mt \in [Server -> Nat]
    BY <1>2, <1>4
  <1>6. notified \in SUBSET Peers(i) /\ J \in SUBSET Peers(i) /\ pend \in SUBSET Server
    BY ZenonT(60), <1>2, <1>4 DEF Peers
  <1> HIDE DEF i, p, nx, mt, notified, pend, J
  <1>7. ci \in Nat
    <2>1. target \in Nat
      BY ZenonT(60), <1>2, <1>5 DEF ExpectedDefined
    <2> HIDE DEF target
    <2> QED BY ZenonT(90), <1>4, <2>1 DEF Max2
  <1> HIDE DEF ci, target, advance
  <1>8. n \in SUBSET net
    BY ZenonT(60)
  <1> HIDE DEF n
  <1>9. /\ next_log_idx' \in [Server -> [Server -> Nat]]
        /\ matched_idx' \in [Server -> [Server -> Nat]]
        /\ rpc' \in [Server -> SUBSET Server]
        /\ net' \subseteq Message
        /\ \A x \in Server : x \notin rpc'[x]
        /\ \A x \in net' : x.cli # x.srv
        /\ \A x \in net' : Counts(x) => x \in n
    BY ZenonT(60), <1>1, <1>2, <1>3, <1>4, <1>5, <1>6, <1>7, <1>8, RequestAppendOK
  <1>10. /\ quick_commit_index' \in [Server -> Nat]
         /\ pending_commit' \in [Server -> SUBSET Server]
         /\ committed' \subseteq Nat \X Entry
    <2>1. CommittedBy(log[i], ci) \subseteq Nat \X Entry
      BY ZenonT(60), <1>4, <1>7, CommittedByType
    <2>2. committed' \subseteq Nat \X Entry
      BY ZenonT(60), <1>1, <1>3, <2>1 DEF TypeOK
    <2> QED BY ZenonT(90), <1>1, <1>2, <1>3, <1>6, <1>7, <2>2 DEF TypeOK
  <1>11. TypeOK'
    BY ZenonT(90), <1>1, <1>3, <1>9, <1>10 DEF TypeOK, stateVars, voteVars
  <1>12. PeersOK' /\ SavedCurrent'
    BY ZenonT(90), <1>1, <1>3, <1>9 DEF PeersOK, SavedCurrent, stateVars
  <1>13. (\A x \in Server : QuietServer(x)) /\ QuietNet
    BY ZenonT(90), <1>1, <1>3, <1>8, <1>9, QuietUnchanged, FewerVotes DEF stateVars, voteVars
  <1> QED BY ZenonT(90), <1>3, <1>11, <1>12, <1>13, QuietStep DEF ElectionInv

\* A new index for one peer.
LEMMA IndexSet ==
    ASSUME NEW f \in [Server -> Nat], NEW x \in Server, NEW k \in Nat
    PROVE  [f EXCEPT ![x] = k] \in [Server -> Nat]
  BY ZenonT(60)

\* A rejected append response moves the next index of one peer only.
LEMMA HandleRejectedInv ==
    ASSUME ServerSets, ElectionInv, NEW m \in net, HandleRejected(m)
    PROVE  ElectionInv'
  <1> DEFINE i == m.cli
             p == m.srv
             n == net \ {m}
             prev == next_log_idx[i][p]
             nx == [next_log_idx[i] EXCEPT ![p] =
                      IF m.next_idx > 0 /\ prev > m.next_idx THEN m.next_idx
                      ELSE IF prev > 0 THEN prev - 1 ELSE prev]
             J == IF role[i] = "leader" THEN {p} ELSE {}
  <1>1. TypeOK /\ PeersOK /\ SavedCurrent /\ VoteMessagesOK /\ m \in Message
    BY ZenonT(60) DEF ElectionInv, TypeOK
  <1>2. /\ i \in Server /\ p \in Server /\ m.next_idx \in Nat \ {0} /\ i # p
    <2>1. m.type = "append_resp"
      BY ZenonT(60) DEF HandleRejected
    <2>2. i # p
      BY ZenonT(60), <1>1 DEF PeersOK
    <2> QED BY ZenonT(60), <1>1, <2>1, <2>2, MessageFields
  <1>3. /\ RequestAppendEntries(i, term[i], log[i], quick_commit_index[i], nx,
                                 matched_idx[i], n, J)
        /\ UNCHANGED <<stateVars, voteVars, logVars, pending_commit, history>>
    BY ZenonT(90) DEF HandleRejected
  <1>4. /\ term[i] \in Nat /\ log[i] \in Seq(Entry) /\ quick_commit_index[i] \in Nat
        /\ next_log_idx[i] \in [Server -> Nat] /\ matched_idx[i] \in [Server -> Nat]
    BY ZenonT(60), <1>1, <1>2 DEF TypeOK
  <1>5. nx \in [Server -> Nat] /\ J \in SUBSET Peers(i) /\ n \in SUBSET net
    <2>1. prev \in Nat
      BY ZenonT(60), <1>2, <1>4
    <2> DEFINE v == IF m.next_idx > 0 /\ prev > m.next_idx THEN m.next_idx
                    ELSE IF prev > 0 THEN prev - 1 ELSE prev
    <2>2. v \in Nat
      <3> HIDE DEF prev
      <3> QED BY SMTT(90), <1>2, <2>1
    <2>3. nx \in [Server -> Nat]
      <3> HIDE DEF v, i, p
      <3>1. nx = [next_log_idx[i] EXCEPT ![p] = v]
        BY ZenonT(60) DEF v
      <3> HIDE DEF nx
      <3> QED BY ZenonT(60), <1>2, <1>4, <2>2, <3>1, IndexSet
    <2>4. J \in SUBSET Peers(i) /\ n \in SUBSET net
      BY ZenonT(60), <1>2 DEF Peers
    <2> QED BY ZenonT(60), <2>3, <2>4
  <1> HIDE DEF i, p, nx, J, n
  <1>6. /\ next_log_idx' \in [Server -> [Server -> Nat]]
        /\ matched_idx' \in [Server -> [Server -> Nat]]
        /\ rpc' \in [Server -> SUBSET Server]
        /\ net' \subseteq Message
        /\ \A x \in Server : x \notin rpc'[x]
        /\ \A x \in net' : x.cli # x.srv
        /\ \A x \in net' : Counts(x) => x \in n
    BY ZenonT(90), <1>1, <1>2, <1>3, <1>4, <1>5, RequestAppendOK
  <1> USE DEF stateVars, voteVars, logVars, history
  <1>7. TypeOK'
    BY ZenonT(90), <1>1, <1>3, <1>6 DEF TypeOK
  <1>8. PeersOK' /\ SavedCurrent'
    BY ZenonT(90), <1>1, <1>3, <1>6 DEF PeersOK, SavedCurrent
  <1>9. (\A x \in Server : QuietServer(x)) /\ QuietNet
    BY ZenonT(90), <1>1, <1>3, <1>5, <1>6, QuietUnchanged, FewerVotes
  <1> QED BY ZenonT(90), <1>3, <1>7, <1>8, <1>9, QuietStep DEF ElectionInv
-----------------------------------------------------------------------------
(* The actions that vote or count.                                         *)

\* More ballots keep every majority.
LEMMA MajoritiesStay ==
    ASSUME ServerSets, ElectedByMajority, ballots \subseteq ballots', elected' = elected
    PROVE  ElectedByMajority'
  <1> SUFFICES ASSUME NEW e \in elected
               PROVE  Cardinality(Voters(e[1], e[2])') >= QuorumSize + 1
    BY ZenonT(60) DEF ElectedByMajority
  <1>1. Voters(e[1], e[2]) \subseteq Voters(e[1], e[2])'
    BY ZenonT(60) DEF Voters
  <1>2. Voters(e[1], e[2])' \in SUBSET Server /\ Voters(e[1], e[2]) \in SUBSET Server
    BY ZenonT(60) DEF Voters
  <1>3. Cardinality(Voters(e[1], e[2])) <= Cardinality(Voters(e[1], e[2])')
    BY ZenonT(60), <1>1, <1>2 DEF ServerSets
  <1>4. Cardinality(Voters(e[1], e[2])) >= QuorumSize + 1
    BY ZenonT(60) DEF ElectedByMajority
  <1>5. /\ Cardinality(Voters(e[1], e[2])) \in Nat /\ Cardinality(Voters(e[1], e[2])') \in Nat
        /\ QuorumSize \in Nat
    BY ZenonT(60), <1>2 DEF ServerSets
  <1> QED BY SMTT(90), <1>3, <1>4, <1>5

\* A larger set of counted voters bounds what the smaller one did.
LEMMA CountedGrows ==
    ASSUME ServerSets, NEW x \in Server, votes_granted[x] \in Nat,
           votes_granted[x] <= Cardinality(Counted(x)),
           Counted(x) \subseteq Counted(x)', votes_granted'[x] = votes_granted[x]
    PROVE  votes_granted'[x] <= Cardinality(Counted(x)')
  <1>1. Counted(x) \in SUBSET Server /\ Counted(x)' \in SUBSET Server
    BY ZenonT(60) DEF Counted
  <1>2. Cardinality(Counted(x)) \in Nat /\ Cardinality(Counted(x)') \in Nat
    BY ZenonT(60), <1>1 DEF ServerSets
  <1>3. Cardinality(Counted(x)) <= Cardinality(Counted(x)')
    BY ZenonT(60), <1>1 DEF ServerSets
  <1> QED BY <1>2, <1>3

\* initiate_vote opens a term in which the server has not voted, and every
\* request of it is the only one to its voter.
LEMMA InitiateVoteInv ==
    ASSUME ServerSets, ElectionInv, NEW i \in Server, InitiateVote(i)
    PROVE  ElectionInv'
  <1> DEFINE t == term[i] + 1
             new == {VoteReq(i, j, t, log[i]) : j \in rpc[i] \ Busy(net, i)}
  <1>1. /\ TypeOK /\ PeersOK /\ SavedCurrent /\ BallotsKept /\ VoteOnce /\ VoteMessagesOK
        /\ VotesAreVoters /\ ElectedByMajority
    BY ZenonT(60) DEF ElectionInv
  <1>2. /\ used' = [used EXCEPT !.elections = @ + 1]
        /\ term' = [term EXCEPT ![i] = t]
        /\ role' = [role EXCEPT ![i] = "candidate"]
        /\ voted_for' = [voted_for EXCEPT ![i] = i]
        /\ saved' = [saved EXCEPT ![i] = [term |-> t, voted_for |-> i]]
        /\ ballots' = ballots \cup {<<t, i, i>>}
        /\ votes_granted' = [votes_granted EXCEPT ![i] = 1]
        /\ votes_responded' = [votes_responded EXCEPT ![i] = 1]
        /\ election_completed' = [election_completed EXCEPT ![i] = FALSE]
        /\ net' = net \cup new
        /\ UNCHANGED <<logVars, peerVars, elected, committed>>
    BY ZenonT(60), <1>1 DEF InitiateVote, TypeOK
  <1>3. term[i] \in Nat /\ t \in Nat \ {0} /\ t > term[i] /\ log[i] \in Seq(Entry)
    BY SMTT(90), <1>1 DEF TypeOK
  <1>4. ASSUME NEW m \in new
        PROVE  /\ m \in Message /\ m.cli = i /\ m.srv # i /\ m.term = t /\ m.type = "vote_req"
               /\ m = VoteReq(i, m.srv, t, log[i])
    <2>1. PICK j \in rpc[i] : m = VoteReq(i, j, t, log[i])
      BY ZenonT(60), <1>4
    <2>2. j \in Server /\ j # i
      BY ZenonT(60), <1>1 DEF TypeOK, PeersOK
    <2>3. m \in Message
      BY ZenonT(60), <1>3, <2>1, <2>2, VoteReqType
    <2>4. m.cli = i /\ m.srv = j /\ m.term = t /\ m.type = "vote_req"
      BY ZenonT(60), <2>1 DEF VoteReq
    <2> QED BY ZenonT(60), <2>1, <2>2, <2>3, <2>4
  <1> HIDE DEF new, t
  <1>5. TypeOK'
    <2>1. used' \in Usage
      <3>1. used \in Usage
        BY ZenonT(60), <1>1 DEF TypeOK
      <3> QED BY <1>2, <3>1 DEF Usage
    <2>2. saved' \in [Server -> [term : Nat, voted_for : Server \cup {Nil}]]
      <3> DEFINE T == [term : Nat, voted_for : Server \cup {Nil}]
      <3>1. [term |-> t, voted_for |-> i] \in T /\ saved \in [Server -> T]
        BY ZenonT(60), <1>1, <1>3 DEF TypeOK
      <3> HIDE DEF T
      <3>2. saved' \in [Server -> T]
        BY ZenonT(60), <1>2, <3>1
      <3> QED BY ZenonT(60), <3>2 DEF T
    <2>3. net' \subseteq Message /\ ballots' \subseteq Nat \X Server \X Server
      BY <1>1, <1>2, <1>3, <1>4 DEF TypeOK
    <2>4. /\ role' \in [Server -> {"follower", "candidate", "leader"}]
          /\ term' \in [Server -> Nat]
          /\ voted_for' \in [Server -> Server \cup {Nil}]
          /\ votes_granted' \in [Server -> Nat]
          /\ votes_responded' \in [Server -> Nat]
          /\ election_completed' \in [Server -> BOOLEAN]
      BY ZenonT(60), <1>1, <1>2, <1>3 DEF TypeOK
    <2> QED BY ZenonT(60), <1>1, <1>2, <2>1, <2>2, <2>3, <2>4 DEF TypeOK, logVars, peerVars
  <1>6. PeersOK'
    BY ZenonT(60), <1>1, <1>2, <1>3, <1>4 DEF PeersOK, TypeOK, peerVars
  <1>7. SavedCurrent'
    BY ZenonT(90), <1>1, <1>2 DEF SavedCurrent, TypeOK
  <1>8. /\ term'[i] = t /\ voted_for'[i] = i
        /\ \A x \in Server : x # i => term'[x] = term[x] /\ voted_for'[x] = voted_for[x]
        /\ \A x \in Server : term[x] \in Nat
    BY ZenonT(60), <1>1, <1>2 DEF TypeOK
  <1>9. \A b \in ballots : b[2] = i => b[1] # t
    BY <1>1, <1>3 DEF BallotsKept, TypeOK
  <1>10. BallotsKept'
    <2> SUFFICES ASSUME NEW b \in ballots'
                 PROVE  b[1] <= term'[b[2]] /\ (b[1] = term'[b[2]] => voted_for'[b[2]] = b[3])
      BY ZenonT(60) DEF BallotsKept
    <2>1. CASE b = <<t, i, i>>
      BY SMTT(90), <1>3, <1>8, <2>1
    <2>2. CASE b \in ballots
      <3>1. b[1] \in Nat /\ b[2] \in Server
        BY ZenonT(90), <1>1, <2>2 DEF TypeOK
      <3>2. b[1] <= term[b[2]] /\ (b[1] = term[b[2]] => voted_for[b[2]] = b[3])
        BY ZenonT(60), <1>1, <2>2 DEF BallotsKept
      <3> QED BY SMTT(90), <1>3, <1>8, <1>9, <2>2, <3>1, <3>2
    <2> QED BY ZenonT(60), <1>2, <2>1, <2>2
  <1>11. VoteOnce'
    BY <1>1, <1>2, <1>9 DEF VoteOnce
  <1>12. VoteMessagesOK'
    <2>1. ASSUME NEW m \in net', Counts(m)
          PROVE  m.term <= term'[m.cli] /\ (m.type = "vote_resp" => <<m.term, m.srv, m.cli>> \in ballots')
      <3>1. CASE m \in new
        BY SMTT(90), <1>3, <1>4, <1>8, <3>1
      <3>2. CASE m \in net
        <4>1. m.term <= term[m.cli] /\ (m.type = "vote_resp" => <<m.term, m.srv, m.cli>> \in ballots)
          BY ZenonT(60), <1>1, <2>1, <3>2 DEF VoteMessagesOK
        <4>2. m.cli \in Server /\ m.term \in Nat
          BY ZenonT(60), <1>1, <3>2, MessageFields DEF TypeOK
        <4> QED BY SMTT(90), <1>2, <1>3, <1>8, <4>1, <4>2
      <3> QED BY ZenonT(60), <1>2, <3>1, <3>2
    <2>2. ASSUME NEW m \in net, Counts(m), m.cli = i
          PROVE  m.term # t
      <3>1. m.term <= term[i] /\ m.term \in Nat
        BY ZenonT(90), <1>1, <2>2, MessageFields DEF VoteMessagesOK, TypeOK
      <3> QED BY SMTT(90), <1>3, <3>1
    <2>3. ASSUME NEW m \in net', NEW n \in net', Counts(m), Counts(n),
                 m.cli = n.cli, m.srv = n.srv, m.term = n.term
          PROVE  m = n
      <3>1. CASE m \in net /\ n \in net
        BY ZenonT(60), <1>1, <2>3, <3>1 DEF VoteMessagesOK
      <3>2. CASE m \in new /\ n \in new
        BY ZenonT(60), <1>4, <2>3, <3>2
      <3>3. CASE m \in new /\ n \in net
        BY ZenonT(60), <1>4, <2>2, <2>3, <3>3
      <3>4. CASE m \in net /\ n \in new
        BY ZenonT(60), <1>4, <2>2, <2>3, <3>4
      <3> QED BY ZenonT(60), <1>2, <3>1, <3>2, <3>3, <3>4
    <2> QED BY ZenonT(60), <2>1, <2>3 DEF VoteMessagesOK, Counts
  <1>13. VotesAreVoters'
    <2> SUFFICES ASSUME NEW x \in Server
                 PROVE  votes_granted'[x] <= Cardinality(Counted(x)')
      BY ZenonT(60) DEF VotesAreVoters
    <2>1. CASE x = i
      <3>1. {i} \subseteq Counted(i)'
        BY SMTT(90), <1>2, <1>6, <1>8 DEF Counted, PeersOK
      <3>2. Counted(i)' \in SUBSET Server /\ {i} \in SUBSET Server
        BY ZenonT(60) DEF Counted
      <3>3. Cardinality({i}) <= Cardinality(Counted(i)') /\ Cardinality({i}) = 1
        BY ZenonT(60), <3>1, <3>2 DEF ServerSets
      <3> QED BY ZenonT(60), <1>1, <1>2, <2>1, <3>3 DEF TypeOK
    <2>2. CASE x # i
      <3>1. \A m \in net' : m.cli = x => m \in net
        BY ZenonT(60), <1>2, <1>4, <2>2
      <3>2. Counted(x) \subseteq Counted(x)'
        BY SMTT(90), <1>2, <1>8, <2>2, <3>1 DEF Counted, Counts
      <3>3. /\ votes_granted'[x] = votes_granted[x] /\ votes_granted[x] \in Nat
            /\ votes_granted[x] <= Cardinality(Counted(x))
        BY ZenonT(60), <1>1, <1>2, <2>2 DEF TypeOK, VotesAreVoters
      <3> QED BY ZenonT(60), <3>2, <3>3, CountedGrows
    <2> QED BY ZenonT(60), <2>1, <2>2
  <1>14. ElectedByMajority'
    BY ZenonT(60), <1>1, <1>2, MajoritiesStay
  <1> QED BY ZenonT(60), <1>5, <1>6, <1>7, <1>10, <1>11, <1>12, <1>13, <1>14 DEF ElectionInv

\* handle_vote_req gives at most one vote in a term and turns a request that
\* counts into at most one response that counts.
LEMMA HandleVoteReqInv ==
    ASSUME ServerSets, ElectionInv, NEW m \in net, HandleVoteReq(m)
    PROVE  ElectionInv'
  <1> DEFINE i == m.srv
             t == Max2(term[i], m.term)
             v == VoteAfter(i, m.term)
             ok == Grant(m, i, t, v)
             v2 == IF ok THEN m.cli ELSE v
             r == VoteResp(m, t, ok)
  <1>1. /\ TypeOK /\ PeersOK /\ SavedCurrent /\ BallotsKept /\ VoteOnce /\ VoteMessagesOK
        /\ VotesAreVoters /\ ElectedByMajority /\ m \in Message
    BY ZenonT(90) DEF ElectionInv, TypeOK
  <1>2. /\ i \in Server /\ m.cli \in Server /\ m.cli # i /\ m.term \in Nat /\ m.term # 0
        /\ m.conn \in Conn /\ m.type = "vote_req" /\ Counts(m)
    BY ZenonT(60), <1>1, MessageFields DEF HandleVoteReq, PeersOK, Counts
  <1>3. /\ UpdateTerm(i, m.term)
        /\ voted_for' = [voted_for EXCEPT ![i] = v2]
        /\ saved' = [saved EXCEPT ![i] = IF ok \/ m.term > term[i]
                                           THEN [term |-> t, voted_for |-> v2] ELSE @]
        /\ ballots' = ballots \cup (IF ok THEN {<<t, i, m.cli>>} ELSE {})
        /\ net' = Reply(net, m, r)
        /\ UNCHANGED <<logVars, peerVars, used, elected, committed>>
    BY ZenonT(60) DEF HandleVoteReq
  <1>4. term[i] \in Nat /\ t \in Nat \ {0} /\ t >= term[i] /\ t >= m.term /\ (m.term > term[i] => t = m.term)
    <2>1. term[i] \in Nat
      BY ZenonT(60), <1>1, <1>2 DEF TypeOK
    <2> QED BY SMTT(90), <1>2, <2>1 DEF Max2
  <1>5. v \in Server \cup {Nil} /\ v2 \in Server \cup {Nil}
    BY ZenonT(90), <1>1, <1>2 DEF TypeOK, VoteAfter
  <1>6. ok \in BOOLEAN /\ (ok => m.term = t /\ v \in {m.cli, Nil})
    BY ZenonT(60) DEF Grant
  <1> HIDE DEF ok
  <1>7. /\ r \in Message /\ r.cli = m.cli /\ r.srv = i /\ r.term = t /\ r.type = "vote_resp"
        /\ r.accepted = ok
    <2>1. /\ r.cli = m.cli /\ r.srv = i /\ r.term = t /\ r.type = "vote_resp" /\ r.accepted = ok
      BY ZenonT(60) DEF VoteResp
    <2>2. r \in Message
      <3> HIDE DEF t
      <3> QED BY ZenonT(60), <1>2, <1>4, <1>6 DEF VoteResp, Message, i
    <2> QED BY ZenonT(60), <2>1, <2>2
  <1> HIDE DEF r, t, v2, i
  <1>8. net' \subseteq (net \ {m}) \cup {r}
    BY ZenonT(60), <1>3 DEF Reply
  <1>9. /\ role' \in [Server -> {"follower", "candidate", "leader"}]
        /\ term' \in [Server -> Nat]
        /\ votes_granted' \in [Server -> Nat]
        /\ votes_responded' \in [Server -> Nat]
        /\ election_completed' \in [Server -> BOOLEAN]
        /\ \A x \in Server : role'[x] = "leader" => role[x] = "leader" /\ term'[x] = term[x]
        /\ \A x \in Server : x # i => term'[x] = term[x] /\ votes_granted'[x] = votes_granted[x]
        /\ m.term > term[i] => term'[i] = m.term /\ votes_granted'[i] = 0
        /\ ~(m.term > term[i]) => term'[i] = term[i] /\ votes_granted'[i] = votes_granted[i]
    BY ZenonT(60), <1>1, <1>2, <1>3, UpdateTermQuiet
  <1>10. term'[i] = t
    BY SMTT(90), <1>2, <1>4, <1>9 DEF t, Max2
  <1>11. /\ voted_for'[i] = v2
         /\ \A x \in Server : x # i => voted_for'[x] = voted_for[x] /\ saved'[x] = saved[x]
         /\ saved'[i] = IF ok \/ m.term > term[i] THEN [term |-> t, voted_for |-> v2] ELSE saved[i]
    BY ZenonT(60), <1>1, <1>2, <1>3 DEF TypeOK
  <1>12. TypeOK'
    <2>1. saved' \in [Server -> [term : Nat, voted_for : Server \cup {Nil}]]
      <3> DEFINE T == [term : Nat, voted_for : Server \cup {Nil}]
      <3>1. [term |-> t, voted_for |-> v2] \in T /\ saved \in [Server -> T]
        BY ZenonT(60), <1>1, <1>4, <1>5 DEF TypeOK
      <3> HIDE DEF T
      <3>2. saved' \in [Server -> T]
        BY ZenonT(60), <1>2, <1>3, <3>1
      <3> QED BY ZenonT(60), <3>2 DEF T
    <2>2. net' \subseteq Message /\ ballots' \subseteq Nat \X Server \X Server
      <3>1. net \subseteq Message /\ ballots \subseteq Nat \X Server \X Server
        BY ZenonT(60), <1>1 DEF TypeOK
      <3>2. net' \subseteq Message
        BY ZenonT(60), <1>7, <1>8, <3>1
      <3>3. <<t, i, m.cli>> \in Nat \X Server \X Server
        BY ZenonT(60), <1>2, <1>4
      <3>4. ballots' \subseteq Nat \X Server \X Server
        BY ZenonT(60), <1>3, <3>1, <3>3
      <3> QED BY ZenonT(60), <3>2, <3>4
    <2>3. voted_for' \in [Server -> Server \cup {Nil}]
      BY ZenonT(60), <1>1, <1>2, <1>3, <1>5 DEF TypeOK
    <2> QED BY ZenonT(60), <1>1, <1>3, <1>9, <2>1, <2>2, <2>3 DEF TypeOK, logVars, peerVars
  <1>13. PeersOK'
    BY ZenonT(60), <1>1, <1>2, <1>3, <1>7, <1>8, <1>9 DEF PeersOK, peerVars
  <1>14. SavedCurrent'
    <2>1. saved'[i] = [term |-> term'[i], voted_for |-> voted_for'[i]]
      <3>1. CASE ok \/ m.term > term[i]
        BY ZenonT(60), <1>10, <1>11, <3>1
      <3>2. CASE ~(ok \/ m.term > term[i])
        <4>1. v2 = voted_for[i] /\ term'[i] = term[i]
          BY ZenonT(60), <1>9, <3>2 DEF v2, VoteAfter
        <4> QED BY ZenonT(60), <1>1, <1>2, <1>11, <3>2, <4>1 DEF SavedCurrent
      <3> QED BY ZenonT(60), <3>1, <3>2
    <2> QED BY ZenonT(60), <1>1, <1>9, <1>11, <2>1 DEF SavedCurrent
  <1>15. CASE ~ok
    <2>1. \A x \in Server : QuietServer(x)
      <3>1. v2 = v
        BY ZenonT(60), <1>15 DEF v2
      <3>2. ASSUME NEW x \in Server, x # i PROVE QuietServer(x)
        BY ZenonT(60), <1>9, <1>11, <3>2 DEF QuietServer
      <3>3. QuietServer(i)
        <4>1. CASE m.term > term[i]
          BY ZenonT(60), <1>9, <4>1 DEF QuietServer
        <4>2. CASE ~(m.term > term[i])
          BY ZenonT(60), <1>9, <1>11, <3>1, <4>2 DEF QuietServer, VoteAfter
        <4> QED BY ZenonT(60), <4>1, <4>2
      <3> QED BY ZenonT(60), <3>2, <3>3
    <2>2. QuietNet
      <3>1. ~Counts(r)
        BY ZenonT(60), <1>7, <1>15 DEF Counts
      <3> QED BY ZenonT(60), <1>1, <1>8, <3>1, FewerVotes
    <2>3. ballots' = ballots /\ elected' = elected
      BY ZenonT(60), <1>3, <1>15
    <2> QED BY ZenonT(60), <1>12, <1>13, <1>14, <2>1, <2>2, <2>3, QuietStep DEF ElectionInv
  <1>16. CASE ok
    <2>1. /\ ballots' = ballots \cup {<<t, i, m.cli>>} /\ v2 = m.cli /\ m.term = t
          /\ v \in {m.cli, Nil}
      BY ZenonT(60), <1>3, <1>6, <1>16 DEF v2
    <2>2. \A x \in Server : term[x] \in Nat /\ term'[x] \in Nat /\ term'[x] >= term[x]
      <3>1. \A x \in Server : term[x] \in Nat /\ term'[x] \in Nat
        BY ZenonT(60), <1>1, <1>9 DEF TypeOK
      <3> QED BY SMTT(90), <1>4, <1>9, <1>10, <3>1
    <2>3. ASSUME NEW b \in ballots, b[2] = i, b[1] = t
          PROVE  b[3] = m.cli
      <3>1. b[1] <= term[i] /\ (b[1] = term[i] => voted_for[i] = b[3]) /\ b[3] \in Server
        BY ZenonT(90), <1>1, <2>3 DEF BallotsKept, TypeOK
      <3>2. t = term[i] /\ voted_for[i] = b[3]
        BY <1>4, <2>3, <3>1
      <3>3. v = voted_for[i]
        BY <1>4, <2>1, <3>2 DEF VoteAfter
      <3> QED BY ZenonT(60), <2>1, <3>1, <3>2, <3>3, NilAssumption
    <2>4. BallotsKept'
      <3> SUFFICES ASSUME NEW b \in ballots'
                   PROVE  b[1] <= term'[b[2]] /\ (b[1] = term'[b[2]] => voted_for'[b[2]] = b[3])
        BY ZenonT(60) DEF BallotsKept
      <3>1. CASE b = <<t, i, m.cli>>
        BY ZenonT(60), <1>4, <1>10, <1>11, <2>1, <3>1
      <3>2. CASE b \in ballots
        <4>1. b[1] \in Nat /\ b[2] \in Server
          BY ZenonT(90), <1>1, <3>2 DEF TypeOK
        <4>2. b[1] <= term[b[2]] /\ (b[1] = term[b[2]] => voted_for[b[2]] = b[3])
          BY ZenonT(60), <1>1, <3>2 DEF BallotsKept
        <4>3. b[1] <= term'[b[2]]
          BY <2>2, <4>1, <4>2
        <4>4. CASE b[2] = i
          BY ZenonT(60), <1>10, <1>11, <2>1, <2>3, <3>2, <4>3, <4>4
        <4>5. CASE b[2] # i
          BY ZenonT(60), <1>9, <1>11, <4>1, <4>2, <4>5
        <4> QED BY ZenonT(60), <4>4, <4>5
      <3> QED BY ZenonT(60), <2>1, <3>1, <3>2
    <2>5. VoteOnce'
      BY SMTT(90), <1>1, <2>1, <2>3 DEF VoteOnce
    <2>6. VoteMessagesOK'
      <3>1. ASSUME NEW n \in net', Counts(n)
            PROVE  n.term <= term'[n.cli] /\ (n.type = "vote_resp" => <<n.term, n.srv, n.cli>> \in ballots')
        <4>1. CASE n = r
          <5>1. m.term <= term[m.cli]
            BY ZenonT(90), <1>1, <1>2 DEF VoteMessagesOK
          <5> QED BY ZenonT(60), <1>2, <1>7, <1>9, <2>1, <4>1, <5>1
        <4>2. CASE n \in net
          <5>1. n.term <= term[n.cli] /\ (n.type = "vote_resp" => <<n.term, n.srv, n.cli>> \in ballots)
            BY ZenonT(60), <1>1, <3>1, <4>2 DEF VoteMessagesOK
          <5>2. n.cli \in Server /\ n.term \in Nat /\ term'[n.cli] \in Nat
            BY ZenonT(60), <1>1, <1>12, <4>2, MessageFields DEF TypeOK
          <5> QED BY <2>1, <2>2, <5>1, <5>2
        <4> QED BY ZenonT(60), <1>8, <4>1, <4>2
      <3>2. ASSUME NEW n \in net \ {m}, Counts(n), n.cli = m.cli, n.srv = i, n.term = t
            PROVE  FALSE
        BY ZenonT(60), <1>1, <1>2, <2>1, <3>2 DEF VoteMessagesOK, i
      <3>3. ASSUME NEW a \in net', NEW n \in net', Counts(a), Counts(n),
                   a.cli = n.cli, a.srv = n.srv, a.term = n.term
            PROVE  a = n
        <4>1. CASE a = r /\ n = r
          BY ZenonT(60), <4>1
        <4>2. CASE a = r /\ n \in net \ {m}
          BY ZenonT(60), <1>7, <3>2, <3>3, <4>2
        <4>3. CASE n = r /\ a \in net \ {m}
          BY ZenonT(60), <1>7, <3>2, <3>3, <4>3
        <4>4. CASE a \in net /\ n \in net
          BY ZenonT(60), <1>1, <3>3, <4>4 DEF VoteMessagesOK
        <4> QED BY ZenonT(60), <1>8, <4>1, <4>2, <4>3, <4>4
      <3> QED BY ZenonT(60), <3>1, <3>3 DEF VoteMessagesOK, Counts
    <2>7. VotesAreVoters'
      <3> SUFFICES ASSUME NEW x \in Server
                   PROVE  votes_granted'[x] <= Cardinality(Counted(x)')
        BY ZenonT(60) DEF VotesAreVoters
      <3>1. CASE x = i /\ m.term > term[i]
        <4>1. Counted(x)' \in SUBSET Server
          BY ZenonT(60) DEF Counted
        <4>2. Cardinality(Counted(x)') \in Nat
          BY ZenonT(60), <4>1 DEF ServerSets
        <4> QED BY SMTT(90), <1>9, <3>1, <4>2
      <3>2. CASE ~(x = i /\ m.term > term[i])
        <4>1. term'[x] = term[x] /\ votes_granted'[x] = votes_granted[x]
          BY ZenonT(60), <1>9, <3>2
        <4>2. Counted(x) \subseteq Counted(x)'
          <5> SUFFICES ASSUME NEW j \in Counted(x), NEW n \in net',
                              n.cli = x, n.srv = j, n.term = term[x], Counts(n)
                       PROVE  FALSE
            BY ZenonT(60), <2>1, <4>1 DEF Counted, Counts
          <5>1. CASE n = r
            BY ZenonT(60), <1>2, <1>7, <2>1, <5>1 DEF Counted, i
          <5>2. CASE n \in net
            BY ZenonT(60), <5>2 DEF Counted
          <5> QED BY ZenonT(60), <1>8, <5>1, <5>2
        <4>3. votes_granted[x] \in Nat /\ votes_granted[x] <= Cardinality(Counted(x))
          BY ZenonT(60), <1>1 DEF TypeOK, VotesAreVoters
        <4> QED BY ZenonT(60), <4>1, <4>2, <4>3, CountedGrows
      <3> QED BY ZenonT(60), <3>1, <3>2
    <2>8. ElectedByMajority'
      BY ZenonT(60), <1>1, <1>3, <2>1, MajoritiesStay
    <2> QED BY ZenonT(60), <1>12, <1>13, <1>14, <2>4, <2>5, <2>6, <2>7, <2>8 DEF ElectionInv
  <1> QED BY ZenonT(60), <1>15, <1>16

\* A vote count no larger than a number of voters carries a majority over to it.
LEMMA CountReaches ==
  ASSUME NEW a \in Nat, NEW b \in Nat, NEW g \in Nat, NEW q \in Nat,
         b <= a, g <= b, g >= q + 1
  PROVE  a >= q + 1
  BY SMTT(90)

\* A granted answer that handle_vote_resp takes off the network was not counted
\* before, and is from then on.
LEMMA VoteArrives ==
    ASSUME VoteMessagesOK, NEW m \in net, m.type = "vote_resp", m.accepted,
           m.srv \in Server, m.term = term[m.cli],
           term' = term, ballots' = ballots,
           \A x \in net' : Counts(x) => x \in net \ {m}
    PROVE  m.srv \notin Counted(m.cli) /\ m.srv \in Counted(m.cli)'
  <1>1. Counts(m)
    BY ZenonT(60) DEF Counts
  <1>2. <<term[m.cli], m.srv, m.cli>> \in ballots
    BY ZenonT(60), <1>1 DEF VoteMessagesOK
  <1>3. m.srv \notin Counted(m.cli)
    BY ZenonT(60), <1>1 DEF Counted
  <1>4. ASSUME NEW n \in net', n.cli = m.cli, n.srv = m.srv, n.term = term[m.cli]
        PROVE  ~Counts(n)
    BY ZenonT(90), <1>1, <1>4 DEF VoteMessagesOK
  <1>5. m.srv \in Counted(m.cli)'
    BY ZenonT(90), <1>2, <1>4 DEF Counted, Counts
  <1> QED BY ZenonT(60), <1>3, <1>5

\* The voters that are counted are voters.
LEMMA WonByMajority ==
    ASSUME ServerSets, NEW i \in Server, NEW g \in Nat, term' = term, ballots' = ballots,
           g >= QuorumSize + 1, g <= Cardinality(Counted(i)')
    PROVE  Cardinality(Voters(term[i], i)) >= QuorumSize + 1
  <1>1. Counted(i)' \subseteq Voters(term[i], i)
    BY ZenonT(90) DEF Counted, Voters
  <1>2. Voters(term[i], i) \in SUBSET Server /\ Counted(i)' \in SUBSET Server
    BY ZenonT(60) DEF Voters, Counted
  <1>3. Cardinality(Counted(i)') <= Cardinality(Voters(term[i], i))
    BY ZenonT(60), <1>1, <1>2 DEF ServerSets
  <1>4. /\ Cardinality(Voters(term[i], i)) \in Nat
        /\ Cardinality(Counted(i)') \in Nat
        /\ QuorumSize \in Nat
    BY ZenonT(60), <1>2 DEF ServerSets
  <1> QED BY ZenonT(90), <1>3, <1>4, CountReaches

\* handle_vote_resp counts a voter that was not counted before; a leader that
\* reaches the quorum was therefore voted for by a majority.
LEMMA HandleVoteRespInv ==
    ASSUME ServerSets, ElectionInv, NEW m \in net, HandleVoteResp(m)
    PROVE  ElectionInv'
  <1> DEFINE i == m.cli
             granted == votes_granted[i] + (IF m.accepted THEN 1 ELSE 0)
             responded == votes_responded[i] + 1
             won == granted >= QuorumSize + 1
  <1>1. /\ TypeOK /\ PeersOK /\ SavedCurrent /\ BallotsKept /\ VoteOnce /\ VoteMessagesOK
        /\ VotesAreVoters /\ ElectedByMajority /\ m \in Message
    BY ZenonT(60) DEF ElectionInv, TypeOK
  <1>2. /\ i \in Server /\ m.srv \in Server /\ m.srv # i /\ m.term # 0
        /\ m.type = "vote_resp" /\ m.accepted \in BOOLEAN /\ m.term = term[i]
    BY ZenonT(60), <1>1, MessageFields DEF HandleVoteResp, PeersOK
  <1>3. /\ votes_responded' = [votes_responded EXCEPT ![i] = responded]
        /\ votes_granted' = [votes_granted EXCEPT ![i] = granted]
        /\ election_completed' = [election_completed EXCEPT ![i] =
               won \/ responded >= Cardinality(Server)]
        /\ IF won THEN BecomeLeader(i, net \ {m})
                  ELSE /\ net' = net \ {m}
                       /\ UNCHANGED <<role, logVars, peerVars, history>>
        /\ UNCHANGED <<term, voted_for, saved>>
    BY ZenonT(60) DEF HandleVoteResp
  <1>4. /\ votes_granted[i] \in Nat /\ votes_responded[i] \in Nat /\ term[i] \in Nat
        /\ log[i] \in Seq(Entry) /\ matched_idx[i] \in [Server -> Nat]
        /\ quick_commit_index[i] \in Nat
    BY ZenonT(60), <1>1, <1>2 DEF TypeOK
  <1>5. granted \in Nat /\ responded \in Nat
    BY SMTT(90), <1>4
  <1> HIDE DEF i, granted, responded
  <1>6. /\ votes_granted' \in [Server -> Nat]
        /\ votes_responded' \in [Server -> Nat]
        /\ election_completed' \in [Server -> BOOLEAN]
    <2>1. (won \/ responded >= Cardinality(Server)) \in BOOLEAN
      BY ZenonT(60)
    <2> HIDE DEF won
    <2> QED BY ZenonT(90), <1>1, <1>3, <1>5, <2>1 DEF TypeOK
  <1> HIDE DEF won
  <1>7. ASSUME ~won
        PROVE  TypeOK' /\ PeersOK' /\ SavedCurrent'
    <2>1. net' = net \ {m} /\ UNCHANGED <<role, logVars, peerVars, history, term, voted_for, saved>>
      BY ZenonT(60), <1>3, <1>7
    <2> USE DEF logVars, peerVars, history
    <2>2. TypeOK'
      BY ZenonT(90), <1>1, <1>6, <2>1 DEF TypeOK
    <2>3. PeersOK' /\ SavedCurrent'
      BY ZenonT(60), <1>1, <2>1 DEF PeersOK, SavedCurrent
    <2> QED BY ZenonT(60), <2>1, <2>2, <2>3
  <1>8. ASSUME won
        PROVE  /\ TypeOK' /\ PeersOK' /\ SavedCurrent'
               /\ \A x \in net' : Counts(x) => x \in net \ {m}
    <2> DEFINE e == [term |-> term[i], cmd |-> Conf]
               lg == Append(log[i], e)
               nx == [j \in Server |-> IF j = i THEN 0 ELSE Len(log[i]) + 1]
    <2>1. /\ role' = [role EXCEPT ![i] = "leader"]
          /\ log' = [log EXCEPT ![i] = lg]
          /\ precommit_index' = [precommit_index EXCEPT ![i] = Len(lg)]
          /\ elected' = elected \cup {<<term[i], i>>}
          /\ RequestAppendEntries(i, term[i], lg, quick_commit_index[i], nx,
                                  matched_idx[i], net \ {m}, Peers(i))
          /\ UNCHANGED <<quick_commit_index, pending_commit, used, ballots, committed>>
      BY ZenonT(90), <1>3, <1>8 DEF BecomeLeader
    <2>2. lg \in Seq(Entry) /\ Len(lg) \in Nat
      <3>1. e \in Entry
        BY ZenonT(60), <1>2, <1>4 DEF Entry
      <3> HIDE DEF e
      <3> QED BY SMTT(90), <1>4, <3>1
    <2>3. nx \in [Server -> Nat]
      <3>1. Len(log[i]) + 1 \in Nat
        BY SMTT(90), <1>4
      <3> QED BY ZenonT(60), <3>1
    <2> HIDE DEF lg, nx
    <2>4. /\ next_log_idx' \in [Server -> [Server -> Nat]]
          /\ matched_idx' \in [Server -> [Server -> Nat]]
          /\ rpc' \in [Server -> SUBSET Server]
          /\ net' \subseteq Message
          /\ \A x \in Server : x \notin rpc'[x]
          /\ \A x \in net' : x.cli # x.srv
          /\ \A x \in net' : Counts(x) => x \in net \ {m}
      <3> DEFINE n == net \ {m}
      <3>1. n \in SUBSET net /\ Peers(i) \in SUBSET Peers(i)
        BY ZenonT(60)
      <3>2. RequestAppendEntries(i, term[i], lg, quick_commit_index[i], nx, matched_idx[i], n, Peers(i))
        BY ZenonT(90), <2>1
      <3> HIDE DEF n
      <3>3. /\ next_log_idx' \in [Server -> [Server -> Nat]]
            /\ matched_idx' \in [Server -> [Server -> Nat]]
            /\ rpc' \in [Server -> SUBSET Server]
            /\ net' \subseteq Message
            /\ \A x \in Server : x \notin rpc'[x]
            /\ \A x \in net' : x.cli # x.srv
            /\ \A x \in net' : Counts(x) => x \in n
        BY ZenonT(90), <1>1, <1>2, <1>4, <2>2, <2>3, <3>1, <3>2, RequestAppendOK
      <3> QED BY ZenonT(60), <3>3 DEF n
    <2>5. /\ log' \in [Server -> Seq(Entry)]
          /\ precommit_index' \in [Server -> Nat]
          /\ role' \in [Server -> {"follower", "candidate", "leader"}]
          /\ elected' \subseteq Nat \X Server
      <3>1. /\ log \in [Server -> Seq(Entry)]
            /\ precommit_index \in [Server -> Nat]
            /\ role \in [Server -> {"follower", "candidate", "leader"}]
            /\ elected \subseteq Nat \X Server
        BY ZenonT(60), <1>1 DEF TypeOK
      <3>2. <<term[i], i>> \in Nat \X Server
        BY ZenonT(60), <1>2, <1>4
      <3>3. elected' \subseteq Nat \X Server
        BY ZenonT(60), <2>1, <3>1, <3>2
      <3> QED BY ZenonT(60), <1>2, <2>1, <2>2, <3>1, <3>3
    <2>6. TypeOK'
      BY ZenonT(90), <1>1, <1>3, <1>6, <2>1, <2>4, <2>5 DEF TypeOK
    <2>7. PeersOK' /\ SavedCurrent'
      BY ZenonT(90), <1>1, <1>2, <1>3, <2>1, <2>4 DEF PeersOK, SavedCurrent, TypeOK
    <2> QED BY ZenonT(60), <2>1, <2>4, <2>6, <2>7
  <1>9. /\ TypeOK' /\ PeersOK' /\ SavedCurrent' /\ ballots' = ballots
        /\ \A x \in net' : Counts(x) => x \in net \ {m}
        /\ elected' = elected \cup (IF won THEN {<<term[i], i>>} ELSE {})
    <2>1. CASE ~won
      BY ZenonT(60), <1>3, <1>7, <2>1 DEF history
    <2>2. CASE won
      <3>1. BecomeLeader(i, net \ {m})
        BY ZenonT(60), <1>3, <2>2
      <3> QED BY ZenonT(60), <1>8, <2>2, <3>1 DEF BecomeLeader
    <2> QED BY ZenonT(60), <2>1, <2>2
  <1>10. BallotsKept' /\ VoteOnce'
    BY ZenonT(60), <1>1, <1>3, <1>9 DEF BallotsKept, VoteOnce
  <1>11. VoteMessagesOK'
    BY ZenonT(90), <1>1, <1>3, <1>9 DEF VoteMessagesOK, Counts
  <1>12. \A x \in Server : Counted(x) \subseteq Counted(x)'
    BY ZenonT(60), <1>3, <1>9 DEF Counted, Counts
  <1>13. VotesAreVoters'
    <2> SUFFICES ASSUME NEW x \in Server
                 PROVE  votes_granted'[x] <= Cardinality(Counted(x)')
      BY ZenonT(60) DEF VotesAreVoters
    <2>1. votes_granted[x] \in Nat /\ votes_granted[x] <= Cardinality(Counted(x))
      BY ZenonT(60), <1>1 DEF TypeOK, VotesAreVoters
    <2>2. CASE x # i \/ ~m.accepted
      <3>1. votes_granted'[x] = votes_granted[x]
        BY SMTT(90), <1>1, <1>2, <1>3, <1>4, <2>2 DEF granted, TypeOK
      <3> QED BY ZenonT(60), <1>12, <2>1, <3>1, CountedGrows
    <2>3. CASE x = i /\ m.accepted
      <3>1. m.accepted /\ term' = term /\ ballots' = ballots
        BY ZenonT(60), <1>3, <1>9, <2>3
      <3>2. m.srv \notin Counted(i) /\ m.srv \in Counted(i)'
        BY ZenonT(90), <1>1, <1>2, <1>9, <3>1, VoteArrives DEF i
      <3>3. Counted(i) \cup {m.srv} \subseteq Counted(i)'
        BY ZenonT(60), <1>2, <1>12, <3>2
      <3>4. /\ Counted(i) \in SUBSET Server /\ Counted(i)' \in SUBSET Server
            /\ Counted(i) \cup {m.srv} \in SUBSET Server
        BY ZenonT(60), <1>2 DEF Counted
      <3>5. Cardinality(Counted(i) \cup {m.srv}) = Cardinality(Counted(i)) + 1
        BY ZenonT(60), <1>2, <3>2, <3>4 DEF ServerSets
      <3>6. Cardinality(Counted(i) \cup {m.srv}) <= Cardinality(Counted(i)')
        BY ZenonT(60), <3>3, <3>4 DEF ServerSets
      <3>7. votes_granted'[i] = votes_granted[i] + 1
        BY ZenonT(60), <1>1, <1>2, <1>3, <2>3 DEF granted, TypeOK
      <3>8. Cardinality(Counted(i)) \in Nat /\ Cardinality(Counted(i)') \in Nat
        BY ZenonT(60), <3>4 DEF ServerSets
      <3> QED BY SMTT(90), <2>1, <2>3, <3>5, <3>6, <3>7, <3>8
    <2> QED BY ZenonT(60), <2>2, <2>3
  <1>14. ElectedByMajority'
    <2>1. ASSUME NEW e \in elected'
          PROVE  Cardinality(Voters(e[1], e[2])') >= QuorumSize + 1
      <3>1. Voters(e[1], e[2])' = Voters(e[1], e[2])
        BY ZenonT(60), <1>9 DEF Voters
      <3>2. CASE e \in elected
        BY ZenonT(60), <1>1, <3>1, <3>2 DEF ElectedByMajority
      <3>3. CASE e \notin elected
        <4>1. won /\ e = <<term[i], i>>
          BY ZenonT(60), <1>9, <2>1, <3>3
        <4>2. votes_granted'[i] = granted /\ granted <= Cardinality(Counted(i)')
          BY ZenonT(60), <1>1, <1>2, <1>3, <1>13 DEF VotesAreVoters, TypeOK
        <4>3. granted >= QuorumSize + 1 /\ term' = term /\ ballots' = ballots
          BY ZenonT(60), <1>3, <1>9, <4>1 DEF won
        <4>4. Cardinality(Voters(term[i], i)) >= QuorumSize + 1
          BY ZenonT(90), <1>2, <1>5, <4>2, <4>3, WonByMajority
        <4> QED BY ZenonT(60), <3>1, <4>1, <4>4
      <3> QED BY ZenonT(60), <3>2, <3>3
    <2> QED BY ZenonT(60), <2>1 DEF ElectedByMajority
  <1> QED BY ZenonT(60), <1>9, <1>10, <1>11, <1>13, <1>14 DEF ElectionInv

\* The invariant holds when the servers start.
LEMMA InitElectionInv ==
    ASSUME ServerSets, Init
    PROVE  ElectionInv
  <1>1. TypeOK
    <2>1. /\ role \in [Server -> {"follower", "candidate", "leader"}]
          /\ term \in [Server -> Nat]
          /\ voted_for \in [Server -> Server \cup {Nil}]
          /\ saved \in [Server -> [term : Nat, voted_for : Server \cup {Nil}]]
      BY ZenonT(60) DEF Init, Start
    <2>2. /\ votes_granted \in [Server -> Nat]
          /\ votes_responded \in [Server -> Nat]
          /\ election_completed \in [Server -> BOOLEAN]
      BY ZenonT(60) DEF Init, Start
    <2>3. /\ log \in [Server -> Seq(Entry)]
          /\ precommit_index \in [Server -> Nat]
          /\ quick_commit_index \in [Server -> Nat]
      BY SMTT(90) DEF Init, Start
    <2>4. /\ next_log_idx \in [Server -> [Server -> Nat]]
          /\ matched_idx \in [Server -> [Server -> Nat]]
      BY ZenonT(60) DEF Init, Start
    <2>5. /\ pending_commit \in [Server -> SUBSET Server]
          /\ rpc \in [Server -> SUBSET Server]
      BY ZenonT(60) DEF Init, Start, Peers
    <2>6. used \in Usage
      BY ZenonT(60) DEF Init, Usage
    <2>7. net = {} /\ ballots = {} /\ elected = {} /\ committed = {}
      BY ZenonT(60) DEF Init, Start
    <2> QED BY ZenonT(60), <2>1, <2>2, <2>3, <2>4, <2>5, <2>6, <2>7 DEF TypeOK
  <1>2. PeersOK /\ SavedCurrent /\ BallotsKept /\ VoteOnce /\ VoteMessagesOK /\ ElectedByMajority
    BY ZenonT(60) DEF Init, Start, PeersOK, SavedCurrent, BallotsKept, VoteOnce, VoteMessagesOK, ElectedByMajority, Peers
  <1>3. VotesAreVoters
    <2> SUFFICES ASSUME NEW i \in Server PROVE 0 <= Cardinality(Counted(i))
      BY ZenonT(60) DEF Init, Start, VotesAreVoters
    <2>1. Counted(i) \in SUBSET Server
      BY ZenonT(60) DEF Counted
    <2>2. Cardinality(Counted(i)) \in Nat
      BY ZenonT(60), <2>1 DEF ServerSets
    <2> QED BY SMTT(90), <2>2
  <1> QED BY ZenonT(60), <1>1, <1>2, <1>3 DEF ElectionInv

\* The invariant is inductive: every action preserves it.
LEMMA NextElectionInv ==
    ASSUME ServerSets, SkipDefined, ExpectedDefined, ElectionInv, [Next]_vars
    PROVE  ElectionInv'
  <1>1. CASE UNCHANGED vars
    BY ZenonT(90), <1>1 DEF vars, stateVars, voteVars, logVars, peerVars, history, ElectionInv, TypeOK,
                PeersOK, SavedCurrent, BallotsKept, VoteOnce, VoteMessagesOK, VotesAreVoters,
                ElectedByMajority, Counted, Voters, Counts
  <1>2. ASSUME NEW i \in Server, NEW J \in {Peers(i), Peers(i) \ rpc[i]}, RequestPrevote(i, J)
        PROVE  ElectionInv'
    BY ZenonT(60), <1>2, RequestPrevoteInv
  <1>3. ASSUME NEW i \in Server, InitiateVote(i) PROVE ElectionInv'
    BY ZenonT(60), <1>3, InitiateVoteInv
  <1>4. ASSUME NEW i \in Server, ResignLeadership(i) PROVE ElectionInv'
    BY ZenonT(60), <1>4, ResignLeadershipInv
  <1>5. ASSUME NEW i \in Server, NEW c \in Command, ClientRequest(i, c) PROVE ElectionInv'
    BY ZenonT(60), <1>5, ClientRequestInv
  <1>6. ASSUME NEW i \in Server, NEW j \in Peers(i), Heartbeat(i, j) PROVE ElectionInv'
    BY ZenonT(60), <1>6, HeartbeatInv
  <1>7. ASSUME NEW i \in Server, NEW j \in Peers(i), ForceReconnect(i, j) PROVE ElectionInv'
    BY ZenonT(60), <1>7, ForceReconnectInv
  <1>8. ASSUME NEW i \in Server, NEW k \in 0..quick_commit_index[i], Restart(i, k) PROVE ElectionInv'
    BY ZenonT(60), <1>8, RestartInv
  <1>9. ASSUME NEW m \in net, Receive(m) PROVE ElectionInv'
    BY ZenonT(60), <1>9, HandleVoteReqInv, RespUpdatesTermInv, IgnoreVoteRespInv, HandleVoteRespInv,
       HandleAppendReqInv, HandleAcceptedInv, HandleRejectedInv DEF Receive
  <1>10. ASSUME NEW m \in net, FreeBeforeHandler(m) PROVE ElectionInv'
    BY ZenonT(60), <1>10, FreeBeforeHandlerInv
  <1>11. ASSUME NEW m \in net, RpcFails(m) PROVE ElectionInv'
    BY ZenonT(60), <1>11, RpcFailsInv
  <1> QED BY ZenonT(60), <1>1, <1>2, <1>3, <1>4, <1>5, <1>6, <1>7, <1>8, <1>9, <1>10, <1>11 DEF Next

-----------------------------------------------------------------------------
(* Entries with their index and the term before them.                      *)

\* A link is an index, an entry and a term.
LEMMA LinksType ==
    ASSUME NEW lo \in Nat, NEW lt \in Nat, NEW es \in Seq(Entry)
    PROVE  Links(lo, lt, es) \subseteq Nat \X Entry \X Nat
  <1>1. \A e \in Entry : e.term \in Nat
    BY ZenonT(60) DEF Entry
  <1> SUFFICES ASSUME NEW x \in 1..Len(es)
               PROVE  <<lo + x, es[x], IF x = 1 THEN lt ELSE es[x - 1].term>> \in Nat \X Entry \X Nat
    BY ZenonT(60) DEF Links
  <1>2. lo + x \in Nat /\ es[x] \in Entry /\ (x # 1 => es[x - 1] \in Entry)
    BY SMTT(60)
  <1> QED BY ZenonT(60), <1>1, <1>2

\* Log entry k of a log, as a link.
LEMMA LogLink ==
    ASSUME NEW lg \in Seq(Entry), NEW k \in 1..Len(lg)
    PROVE  <<k, lg[k], IF k = 1 THEN 0 ELSE lg[k - 1].term>> \in Links(0, 0, lg)
  <1>1. 0 + k = k
    BY SMTT(60)
  <1> QED BY ZenonT(60), <1>1 DEF Links

\* And every link of a log is one of those.
LEMMA LogLinkOf ==
    ASSUME NEW lg \in Seq(Entry), NEW a \in Links(0, 0, lg)
    PROVE  \E k \in 1..Len(lg) : a = <<k, lg[k], IF k = 1 THEN 0 ELSE lg[k - 1].term>>
  <1>1. PICK k \in 1..Len(lg) : a = <<0 + k, lg[k], IF k = 1 THEN 0 ELSE lg[k - 1].term>>
    BY ZenonT(60) DEF Links
  <1>2. 0 + k = k
    BY SMTT(60)
  <1> QED BY ZenonT(60), <1>1, <1>2

\* append adds one link, to the last entry.
LEMMA LinksAppend ==
    ASSUME NEW lg \in Seq(Entry), NEW e \in Entry
    PROVE  Links(0, 0, Append(lg, e)) \subseteq
             Links(0, 0, lg) \cup {<<Len(lg) + 1, e, LastTerm(lg)>>}
  <1> DEFINE ag == Append(lg, e)
  <1>1. ag \in Seq(Entry) /\ Len(ag) = Len(lg) + 1 /\ Len(lg) \in Nat
    BY SMTT(60)
  <1>2. /\ \A k \in 1..Len(lg) : ag[k] = lg[k]
        /\ ag[Len(lg) + 1] = e
    BY SMTT(60)
  <1> HIDE DEF ag
  <1> SUFFICES ASSUME NEW a \in Links(0, 0, ag)
               PROVE  a \in Links(0, 0, lg) \cup {<<Len(lg) + 1, e, LastTerm(lg)>>}
    BY ZenonT(60) DEF ag
  <1>3. PICK k \in 1..Len(ag) : a = <<k, ag[k], IF k = 1 THEN 0 ELSE ag[k - 1].term>>
    BY ZenonT(60), <1>1, LogLinkOf
  <1>4. CASE k = Len(lg) + 1
    <2>1. (IF k = 1 THEN 0 ELSE ag[k - 1].term) = LastTerm(lg)
      BY SMTT(60), <1>1, <1>2, <1>4 DEF LastTerm, TermForLog
    <2> QED BY ZenonT(60), <1>2, <1>3, <1>4, <2>1
  <1>5. CASE k # Len(lg) + 1
    <2>1. k \in 1..Len(lg) /\ (k # 1 => k - 1 \in 1..Len(lg))
      BY SMTT(60), <1>1, <1>5
    <2>2. a = <<k, lg[k], IF k = 1 THEN 0 ELSE lg[k - 1].term>>
      BY ZenonT(60), <1>2, <1>3, <2>1
    <2> QED BY ZenonT(60), <2>1, <2>2, LogLink
  <1> QED BY ZenonT(60), <1>4, <1>5

\* The request m carries links of S only, and nothing before the first entry.
Carries(m, S) ==
    /\ ReqLinks(m) \subseteq S
    /\ m.last_log_idx = 0 => m.last_log_term = 0

\* What create_append_entries_req copies are links of the log, the term of the
\* entry before the first one included.
LEMMA AppendReqLinks ==
    ASSUME NEW i, NEW j, NEW t, NEW lg \in Seq(Entry), NEW n \in Nat \ {0}, NEW ci
    PROVE  Carries(AppendReq(i, j, t, lg, n, ci), Links(0, 0, lg))
  <1> DEFINE m == AppendReq(i, j, t, lg, n, ci)
             h == Min2(Len(lg), n - 1 + MaxAppendSize)
             es == SubSeq(lg, n, h)
             lt == TermForLog(lg, n - 1)
  <1>1. m.last_log_idx = n - 1 /\ m.last_log_term = lt /\ m.entries = es
    BY ZenonT(60) DEF AppendReq
  <1> HIDE DEF m
  <1>2. h \in Int /\ h <= Len(lg) /\ Len(lg) \in Nat
    BY SMTT(60), AppendAssumption DEF Min2
  <1> HIDE DEF h
  <1>3. Len(es) = (IF n <= h THEN h - n + 1 ELSE 0)
    BY SMTT(60), <1>2
  <1>4. \A x \in 1..Len(es) : /\ n - 1 + x \in 1..Len(lg)
                              /\ es[x] = lg[n - 1 + x]
    BY SMTT(60), <1>2
  <1>5. n - 1 = 0 => lt = 0
    BY SMTT(60) DEF TermForLog
  <1> HIDE DEF es
  <1>6. ASSUME NEW a \in ReqLinks(m)
        PROVE  a \in Links(0, 0, lg)
    <2>1. PICK x \in 1..Len(es) : a = <<n - 1 + x, es[x], IF x = 1 THEN lt ELSE es[x - 1].term>>
      BY ZenonT(60), <1>1, <1>6 DEF ReqLinks, Links
    <2> DEFINE k == n - 1 + x
    <2>2. k \in 1..Len(lg) /\ es[x] = lg[k]
      BY ZenonT(60), <1>4
    <2>3. (IF x = 1 THEN lt ELSE es[x - 1].term) = (IF k = 1 THEN 0 ELSE lg[k - 1].term)
      <3>1. CASE x = 1
        BY SMTT(60), <2>2, <3>1 DEF TermForLog
      <3>2. CASE x # 1
        <4>1. x - 1 \in 1..Len(es) /\ n - 1 + (x - 1) = k - 1 /\ k # 1
          BY SMTT(60), <1>2, <1>3, <3>2
        <4> QED BY ZenonT(60), <1>4, <3>2, <4>1
      <3> QED BY ZenonT(60), <3>1, <3>2
    <2>4. a = <<k, lg[k], IF k = 1 THEN 0 ELSE lg[k - 1].term>>
      BY ZenonT(60), <2>1, <2>2, <2>3
    <2> HIDE DEF k
    <2> QED BY ZenonT(60), <2>2, <2>4, LogLink
  <1> QED BY ZenonT(60), <1>1, <1>5, <1>6 DEF m, Carries

\* Two parts of a log, one after the other.
LEMMA ConcatEntries ==
    ASSUME NEW A \in Seq(Entry), NEW B \in Seq(Entry)
    PROVE  /\ Len(A \o B) = Len(A) + Len(B)
           /\ \A x \in 1..Len(A) : (A \o B)[x] = A[x]
           /\ \A x \in (Len(A) + 1)..(Len(A) + Len(B)) : (A \o B)[x] = B[x - Len(A)]
  OBVIOUS

\* The log after an accepted request has no link that neither the log before it
\* nor the request had: the skip loop and the check of the previous entry see to
\* it that the seam is a link of the request.
LEMMA StoredLinks ==
    ASSUME SkipDefined, NEW m \in Message, m.type = "append_req", NEW lg \in Seq(Entry),
           PrevOkay(m, lg), m.last_log_idx = 0 => m.last_log_term = 0
    PROVE  Links(0, 0, Stored(m, lg)) \subseteq Links(0, 0, lg) \cup ReqLinks(m)
  <1> DEFINE k == Skipped(m, lg)
             p == m.last_log_idx
             lt == m.last_log_term
             es == m.entries
             st == Stored(m, lg)
  <1>1. p \in Nat /\ lt \in Nat /\ es \in Seq(Entry) /\ Len(lg) \in Nat /\ Len(es) \in Nat
    <2>1. p \in Nat /\ lt \in Nat /\ es \in Seq(Entry)
      BY ZenonT(60), MessageFields
    <2> HIDE DEF es
    <2> QED BY SMTT(60), <2>1
  <1>2. k \in 0..Len(es) /\ SameTerms(m, lg, k)
    BY ZenonT(60) DEF SkipDefined
  <1>3. \A x \in 1..k : /\ TermForLog(lg, p + x) = es[x].term
                        /\ es[x].term # 0
    <2> SUFFICES ASSUME NEW x \in 1..k
                 PROVE  TermForLog(lg, p + x) = es[x].term /\ es[x].term # 0
      BY ZenonT(60)
    <2>1. es[x] \in Entry
      BY SMTT(60), <1>1, <1>2
    <2> QED BY ZenonT(60), <1>2, <2>1 DEF SameTerms, Entry
  <1>4. st \in Seq(Entry)
    BY ZenonT(60), StoredType
  <1>5. k # Len(es) => st = SubSeq(lg, 1, p + k) \o SubSeq(es, k + 1, Len(es))
    BY ZenonT(60) DEF Stored
  <1>6. k = Len(es) => st = lg
    BY ZenonT(60) DEF Stored
  <1>7. p = 0 => lt = 0
    OBVIOUS
  <1>8. p # 0 => TermForLog(lg, p) # 0 /\ TermForLog(lg, p) = lt
    BY ZenonT(60) DEF PrevOkay
  <1>9. ReqLinks(m) = Links(p, lt, es)
    BY ZenonT(60) DEF ReqLinks
  <1> HIDE DEF k, p, lt, es, st
  <1>10. CASE k = Len(es)
    BY ZenonT(60), <1>6, <1>10 DEF st
  <1>11. CASE k # Len(es)
    <2>1. k < Len(es)
      BY SMTT(60), <1>1, <1>2, <1>11
    <2>2. p + k <= Len(lg)
      <3>1. CASE k = 0
        BY SMTT(60), <1>1, <1>8, <3>1 DEF TermForLog
      <3>2. CASE k # 0
        <4>1. k \in 1..k
          BY SMTT(60), <1>1, <1>2, <3>2
        <4>2. TermForLog(lg, p + k) # 0
          BY ZenonT(60), <1>3, <4>1
        <4> QED BY SMTT(60), <1>1, <1>2, <4>2 DEF TermForLog
      <3> QED BY ZenonT(60), <3>1, <3>2
    <2> DEFINE A == SubSeq(lg, 1, p + k)
               B == SubSeq(es, k + 1, Len(es))
    <2>3. /\ A \in Seq(Entry) /\ Len(A) = p + k
          /\ \A x \in 1..(p + k) : A[x] = lg[x]
      BY SMTT(60), <1>1, <1>2, <2>2
    <2>4. /\ B \in Seq(Entry) /\ Len(B) = Len(es) - k
          /\ \A x \in 1..(Len(es) - k) : B[x] = es[k + x]
      BY SMTT(60), <1>1, <1>2, <2>1
    <2>5. st = A \o B
      BY ZenonT(60), <1>5, <1>11
    <2> HIDE DEF A, B
    <2>6. /\ Len(st) = p + Len(es)
          /\ \A x \in 1..(p + k) : st[x] = lg[x]
          /\ \A x \in (p + k + 1)..(p + Len(es)) : st[x] = es[x - p]
      <3>1. /\ Len(st) = Len(A) + Len(B)
            /\ \A x \in 1..Len(A) : st[x] = A[x]
            /\ \A x \in (Len(A) + 1)..(Len(A) + Len(B)) : st[x] = B[x - Len(A)]
        BY ZenonT(60), <2>3, <2>4, <2>5, ConcatEntries
      <3>2. \A x \in 1..(p + k) : st[x] = A[x]
        BY ZenonT(60), <2>3, <3>1
      <3>3. \A x \in (p + k + 1)..(p + Len(es)) : st[x] = B[x - (p + k)]
        <4>1. p + k + (Len(es) - k) = p + Len(es)
          BY SMTT(60), <1>1, <1>2
        <4> QED BY ZenonT(60), <2>3, <2>4, <3>1, <4>1
      <3>4. ASSUME NEW x \in (p + k + 1)..(p + Len(es))
            PROVE  st[x] = es[x - p]
        <4>1. x - (p + k) \in 1..(Len(es) - k) /\ k + (x - (p + k)) = x - p
          BY SMTT(60), <1>1, <1>2
        <4> QED BY ZenonT(60), <2>4, <3>3, <4>1
      <3>5. Len(st) = p + Len(es)
        BY SMTT(60), <1>1, <1>2, <2>3, <2>4, <3>1
      <3> QED BY ZenonT(60), <2>3, <3>2, <3>4, <3>5
    <2> SUFFICES ASSUME NEW a \in Links(0, 0, st)
                 PROVE  a \in Links(0, 0, lg) \cup Links(p, lt, es)
      BY ZenonT(60), <1>9 DEF st
    <2>7. PICK x \in 1..Len(st) : a = <<x, st[x], IF x = 1 THEN 0 ELSE st[x - 1].term>>
      BY ZenonT(60), <1>4, LogLinkOf
    <2>8. CASE x <= p + k
      <3>1. x \in 1..(p + k) /\ x \in 1..Len(lg) /\ (x # 1 => x - 1 \in 1..(p + k))
        BY SMTT(60), <1>1, <1>2, <2>2, <2>8
      <3>2. a = <<x, lg[x], IF x = 1 THEN 0 ELSE lg[x - 1].term>>
        BY ZenonT(60), <2>6, <2>7, <3>1
      <3> QED BY ZenonT(60), <3>1, <3>2, LogLink
    <2>9. CASE x > p + k
      <3> DEFINE y == x - p
      <3>1. y \in 1..Len(es) /\ p + y = x /\ x \in (p + k + 1)..(p + Len(es)) /\ y > k
        BY SMTT(60), <1>1, <1>2, <2>6, <2>9
      <3>2. st[x] = es[y]
        BY ZenonT(60), <2>6, <3>1
      <3>3. (IF x = 1 THEN 0 ELSE st[x - 1].term) = (IF y = 1 THEN lt ELSE es[y - 1].term)
        <4>1. CASE x - 1 > p + k
          <5>1. x - 1 \in (p + k + 1)..(p + Len(es)) /\ (x - 1) - p = y - 1 /\ x # 1 /\ y # 1
            BY SMTT(60), <1>1, <1>2, <3>1, <4>1
          <5> QED BY ZenonT(60), <2>6, <5>1
        <4>2. CASE x - 1 <= p + k
          <5>1. x = p + k + 1 /\ y = k + 1 /\ x - 1 = p + k /\ y - 1 = k
            BY SMTT(60), <1>1, <1>2, <3>1, <4>2
          <5>2. CASE k = 0
            <6>1. CASE p = 0
              BY SMTT(60), <1>7, <5>1, <5>2, <6>1
            <6>2. CASE p # 0
              <7>1. x - 1 = p /\ p \in 1..(p + k) /\ p \in 1..Len(lg) /\ x # 1 /\ y = 1
                BY SMTT(60), <1>1, <2>2, <5>1, <5>2, <6>2
              <7>2. lg[p].term = lt
                BY ZenonT(60), <1>8, <6>2, <7>1 DEF TermForLog
              <7> QED BY ZenonT(60), <2>6, <7>1, <7>2
            <6> QED BY ZenonT(60), <6>1, <6>2
          <5>3. CASE k # 0
            <6>1. k \in 1..k /\ p + k \in 1..(p + k) /\ p + k \in 1..Len(lg) /\ x # 1 /\ y # 1
              BY SMTT(60), <1>1, <1>2, <2>2, <5>1, <5>3
            <6>2. lg[p + k].term = es[k].term
              BY ZenonT(60), <1>3, <6>1 DEF TermForLog
            <6> QED BY ZenonT(60), <2>6, <5>1, <6>1, <6>2
          <5> QED BY ZenonT(60), <5>2, <5>3
        <4> QED BY SMTT(60), <1>1, <1>2, <4>1, <4>2
      <3>4. a = <<p + y, es[y], IF y = 1 THEN lt ELSE es[y - 1].term>>
        BY ZenonT(60), <2>7, <3>1, <3>2, <3>3
      <3> HIDE DEF y
      <3> QED BY ZenonT(60), <3>1, <3>4 DEF Links
    <2> QED BY SMTT(60), <1>1, <1>2, <2>6, <2>8, <2>9
  <1> QED BY ZenonT(60), <1>10, <1>11

-----------------------------------------------------------------------------
(* Steps and the links they leave.                                         *)

\* Changing what the client side does with a request keeps its entries.
LEMMA ConnLinks ==
    ASSUME NEW m \in Message, m.type = "append_req", NEW c \in Conn
    PROVE  /\ ReqLinks([m EXCEPT !.conn = c]) = ReqLinks(m)
           /\ [m EXCEPT !.conn = c].last_log_idx = m.last_log_idx
           /\ [m EXCEPT !.conn = c].last_log_term = m.last_log_term
           /\ [m EXCEPT !.conn = c].term = m.term
           /\ [m EXCEPT !.conn = c].cli = m.cli
  <1>1. /\ [m EXCEPT !.conn = c].last_log_idx = m.last_log_idx
        /\ [m EXCEPT !.conn = c].last_log_term = m.last_log_term
        /\ [m EXCEPT !.conn = c].term = m.term
        /\ [m EXCEPT !.conn = c].cli = m.cli
        /\ [m EXCEPT !.conn = c].entries = m.entries
    BY ZenonT(60) DEF Message
  <1> QED BY ZenonT(60), <1>1 DEF ReqLinks

\* A request after the step is one from before it, or the leader of its term sends
\* it now, with links of its log.
Sent(m) ==
    \/ \E n \in AppendReqs : n.term = m.term /\ n.cli = m.cli /\ ReqLinks(n) = ReqLinks(m)
    \/ /\ m.cli \in Server /\ m.term = term'[m.cli]
       /\ <<m.term, m.cli>> \in elected'
       /\ ReqLinks(m) \subseteq Links(0, 0, log'[m.cli])

\* After the step, a request under way carries links of S only.
ReqsFrom(S) ==
    \A m \in AppendReqs' : Carries(m, S) /\ Sent(m)

\* A request that was under way before the step is no news.
LEMMA OldReqs ==
    ASSUME FirstHasNone, NEW m \in net, m.type = "append_req"
    PROVE  Carries(m, AllLinks) /\ Sent(m)
  <1>1. m \in AppendReqs
    BY ZenonT(60) DEF AppendReqs
  <1> QED BY ZenonT(60), <1>1 DEF Carries, AllLinks, FirstHasNone, Sent

\* Losing messages, or adding other ones, adds no link.
LEMMA FewerReqs ==
    ASSUME FirstHasNone, \A m \in net' : m.type = "append_req" => m \in net
    PROVE  ReqsFrom(AllLinks)
  BY ZenonT(60), OldReqs DEF ReqsFrom, AppendReqs

\* Nor does relabelling them.
LEMMA RelabelledReqs ==
    ASSUME net \subseteq Message, FirstHasNone, NEW f \in [net -> Conn], net' \subseteq Relabel(f)
    PROVE  ReqsFrom(AllLinks)
  <1> SUFFICES ASSUME NEW m \in net', m.type = "append_req"
               PROVE  Carries(m, AllLinks) /\ Sent(m)
    BY ZenonT(60) DEF ReqsFrom, AppendReqs
  <1>1. PICK n \in net : m = [n EXCEPT !.conn = f[n]]
    BY ZenonT(60) DEF Relabel
  <1>2. n \in Message /\ f[n] \in Conn
    BY ZenonT(60)
  <1>3. n.type = "append_req"
    BY ZenonT(60), <1>1, <1>2, ConnType
  <1>4. /\ ReqLinks(m) = ReqLinks(n)
        /\ m.last_log_idx = n.last_log_idx
        /\ m.last_log_term = n.last_log_term
        /\ m.term = n.term /\ m.cli = n.cli
    BY ZenonT(60), <1>1, <1>2, <1>3, ConnLinks
  <1>5. Carries(n, AllLinks) /\ Sent(n)
    BY ZenonT(60), <1>3, OldReqs
  <1> QED BY ZenonT(60), <1>4, <1>5 DEF Carries, Sent

\* request_append_entries sends links of the leader's log.
LEMMA RequestAppendReqs ==
    ASSUME TypeOK, TypeOK', FirstHasNone, NEW i \in Server, NEW t, NEW lg \in Seq(Entry),
           NEW ci, NEW nx, NEW mt, NEW n \in SUBSET net, NEW J \in SUBSET Server,
           RequestAppendEntries(i, t, lg, ci, nx, mt, n, J),
           t = term'[i], lg = log'[i], J # {} => <<t, i>> \in elected'
    PROVE  ReqsFrom(AllLinks \cup Links(0, 0, lg))
  <1> DEFINE lost == J \ rpc[i]
             to == Reached(i, n, J)
             nx2 == [j \in Server |-> IF j \in lost \/ (j \in to /\ nx[j] = 0)
                                         THEN Len(lg) + 1 ELSE nx[j]]
  <1>1. /\ net' = n \cup {AppendReq(i, j, t, lg, nx2[j], ci) : j \in to}
        /\ next_log_idx' = [next_log_idx EXCEPT ![i] = nx2]
    BY ZenonT(60) DEF RequestAppendEntries
  <1>2. Len(lg) + 1 # 0
    BY SMTT(60)
  <1>3. to \subseteq Server /\ (to # {} => <<t, i>> \in elected')
    BY ZenonT(60) DEF Reached
  <1>4. \A j \in to : nx2[j] \in Nat \ {0}
    <2>1. nx2 \in [Server -> Nat]
      BY ZenonT(60), <1>1 DEF TypeOK
    <2>2. \A j \in to : nx2[j] # 0
      BY ZenonT(60), <1>2, <1>3
    <2> HIDE DEF nx2, to
    <2> QED BY ZenonT(60), <1>3, <2>1, <2>2
  <1> HIDE DEF nx2, lost, to
  <1> SUFFICES ASSUME NEW m \in net', m.type = "append_req"
               PROVE  Carries(m, AllLinks \cup Links(0, 0, lg)) /\ Sent(m)
    BY ZenonT(60) DEF ReqsFrom, AppendReqs
  <1>5. CASE m \in n
    BY ZenonT(60), <1>5, OldReqs DEF Carries
  <1>6. CASE m \notin n
    <2>1. PICK j \in to : m = AppendReq(i, j, t, lg, nx2[j], ci)
      BY ZenonT(60), <1>1, <1>6
    <2>2. nx2[j] \in Nat \ {0}
      BY ZenonT(60), <1>4
    <2> DEFINE r == AppendReq(i, j, t, lg, nx2[j], ci)
    <2>3. Carries(r, Links(0, 0, lg))
      BY ZenonT(60), <2>2, AppendReqLinks
    <2>4. r.cli = i /\ r.term = t
      BY ZenonT(60) DEF AppendReq
    <2>5. m = r /\ <<t, i>> \in elected'
      BY ZenonT(60), <1>3, <2>1
    <2> HIDE DEF r
    <2> QED BY ZenonT(60), <2>3, <2>4, <2>5 DEF Carries, Sent
  <1> QED BY ZenonT(60), <1>5, <1>6

\* A link is an index, an entry and a term, wherever it is read.
LEMMA AllLinksType ==
    ASSUME TypeOK
    PROVE  AllLinks \subseteq Nat \X Entry \X Nat
  <1>1. ASSUME NEW i \in Server PROVE LogLinks(i) \subseteq Nat \X Entry \X Nat
    <2>1. log[i] \in Seq(Entry) /\ 0 \in Nat
      BY ZenonT(60) DEF TypeOK
    <2> QED BY ZenonT(60), <2>1, LinksType DEF LogLinks
  <1>2. ASSUME NEW m \in AppendReqs PROVE ReqLinks(m) \subseteq Nat \X Entry \X Nat
    <2>1. m \in Message /\ m.type = "append_req"
      BY ZenonT(60) DEF TypeOK, AppendReqs
    <2>2. m.last_log_idx \in Nat /\ m.last_log_term \in Nat /\ m.entries \in Seq(Entry)
      BY ZenonT(60), <2>1, MessageFields
    <2> QED BY ZenonT(60), <2>2, LinksType DEF ReqLinks
  <1> QED BY ZenonT(60), <1>1, <1>2 DEF AllLinks

\* The links after a step.
LEMMA LinksAfter ==
    ASSUME NEW S, \A i \in Server : Links(0, 0, log'[i]) \subseteq S, ReqsFrom(S)
    PROVE  AllLinks' \subseteq S /\ FirstHasNone'
  BY ZenonT(60) DEF AllLinks, LogLinks, ReqsFrom, Carries, FirstHasNone, ReqLinks

\* What a step that makes no entry may do to server j: stay, with its log if it
\* is a leader, or move to a higher term and not lead.
LogServer(j) ==
    \/ /\ term'[j] = term[j]
       /\ role'[j] = "leader" => role[j] = "leader" /\ log'[j] = log[j]
       /\ election_completed[j] => election_completed'[j]
    \/ term'[j] > term[j] /\ role'[j] # "leader"

\* The logs after such a step have no new links, and none of a later term than
\* their server.
LogsFrom ==
    \A i \in Server : /\ Links(0, 0, log'[i]) \subseteq AllLinks
                      /\ \A a \in Links(0, 0, log'[i]) : a[2].term <= term'[i]

\* The requests after a step, if no log is ahead of its server.
LEMMA RequestsLedAfter ==
    ASSUME NEW S, RequestsLed, elected \subseteq elected', ReqsFrom(S),
           \A i \in Server : \A a \in Links(0, 0, log'[i]) : a[2].term <= term'[i]
    PROVE  RequestsLed' /\ TermsReached'
  <1>1. ASSUME NEW m \in AppendReqs'
        PROVE  <<m.term, m.cli>> \in elected' /\ \A a \in ReqLinks(m) : a[2].term <= m.term
    <2>1. Sent(m)
      BY ZenonT(60), <1>1 DEF ReqsFrom
    <2> QED BY ZenonT(60), <2>1 DEF Sent, RequestsLed
  <1>2. RequestsLed'
    BY ZenonT(60), <1>1 DEF RequestsLed, ReqLinks
  <1>3. TermsReached'
    BY ZenonT(60) DEF TermsReached, LogLinks
  <1> QED BY ZenonT(60), <1>2, <1>3

\* A step that makes no entry keeps the log invariant.
LEMMA LogQuiet ==
    ASSUME TypeOK, TypeOK', LogInv, \A j \in Server : LogServer(j), elected' = elected,
           LogsFrom, ReqsFrom(AllLinks)
    PROVE  LogInv' /\ LeaderAppends
  <1>1. AllLinks' \subseteq AllLinks /\ FirstHasNone'
    BY ZenonT(60), LinksAfter DEF LogsFrom
  <1>2. /\ LinksAgree /\ TermsElected /\ LeaderIsAhead /\ ElectedOnce
        /\ RequestsLed /\ TermsReached /\ TermsAscend
    BY ZenonT(60) DEF LogInv
  <1>3. LinksAgree' /\ TermsElected' /\ TermsAscend'
    BY ZenonT(60), <1>1, <1>2 DEF LinksAgree, TermsElected, TermsAscend
  <1>4. LeaderIsAhead'
    BY ZenonT(60), <1>1, <1>2 DEF LeaderIsAhead, LogServer
  <1>5. ElectedOnce'
    <2>1. \A i \in Server : role'[i] = "leader" => <<term'[i], i>> \in elected
      BY ZenonT(60), <1>2 DEF ElectedOnce, LogServer
    <2>2. ASSUME NEW e \in elected
          PROVE  e[1] <= term'[e[2]] /\ (e[1] = term'[e[2]] => election_completed'[e[2]])
      <3>1. e[1] \in Nat /\ e[2] \in Server
        BY ZenonT(60) DEF TypeOK
      <3>2. term[e[2]] \in Nat /\ term'[e[2]] \in Nat
        BY ZenonT(60), <3>1 DEF TypeOK
      <3>3. e[1] <= term[e[2]] /\ (e[1] = term[e[2]] => election_completed[e[2]])
        BY ZenonT(60), <1>2 DEF ElectedOnce
      <3> QED BY SMTT(60), <3>1, <3>2, <3>3 DEF LogServer
    <2> QED BY ZenonT(60), <2>1, <2>2 DEF ElectedOnce
  <1>6. RequestsLed' /\ TermsReached'
    BY ZenonT(60), <1>2, RequestsLedAfter DEF LogsFrom
  <1>7. LeaderAppends
    <2> SUFFICES ASSUME NEW j \in Server
                 PROVE  /\ term[j] <= term'[j]
                        /\ role[j] = "leader" /\ role'[j] = "leader" =>
                             term'[j] = term[j] /\ log'[j] = log[j] /\ Len(log[j]) <= Len(log[j])
      BY ZenonT(60) DEF LeaderAppends
    <2>1. term[j] \in Nat /\ term'[j] \in Nat /\ log[j] \in Seq(Entry)
      BY ZenonT(60) DEF TypeOK
    <2>2. LogServer(j) /\ Len(log[j]) <= Len(log[j])
      BY SMTT(60), <2>1
    <2>3. term[j] <= term'[j]
      BY SMTT(60), <2>1, <2>2 DEF LogServer
    <2> QED BY ZenonT(60), <2>2, <2>3 DEF LogServer
  <1> QED BY ZenonT(60), <1>1, <1>3, <1>4, <1>5, <1>6, <1>7 DEF LogInv

\* The last entry of a log is no exception to a bound on its terms.
LEMMA LastTermReached ==
    ASSUME NEW lg \in Seq(Entry), NEW t \in Nat, \A a \in Links(0, 0, lg) : a[2].term <= t
    PROVE  LastTerm(lg) <= t
  <1>1. CASE Len(lg) \in 1..Len(lg)
    <2> DEFINE k == Len(lg)
               a == <<k, lg[k], IF k = 1 THEN 0 ELSE lg[k - 1].term>>
    <2>1. a \in Links(0, 0, lg) /\ a[2] = lg[k]
      BY ZenonT(60), <1>1, LogLink
    <2> HIDE DEF a
    <2> QED BY ZenonT(60), <1>1, <2>1 DEF LastTerm, TermForLog
  <1>2. CASE Len(lg) \notin 1..Len(lg)
    <2>1. 0 <= t
      BY SMTT(60)
    <2> QED BY ZenonT(60), <1>2, <2>1 DEF LastTerm, TermForLog
  <1> QED BY ZenonT(60), <1>1, <1>2

\* The leader i makes entry e, of its own term: the entry is new.
LEMMA LogGrows ==
    ASSUME TypeOK, TypeOK', LogInv, ElectionSafety', NEW i \in Server, NEW e \in Entry,
           e.term = term[i], term' = term,
           log' = [log EXCEPT ![i] = Append(@, e)],
           elected' = elected \cup {<<term[i], i>>},
           election_completed'[i],
           \A j \in Server \ {i} : /\ role'[j] = role[j]
                                   /\ election_completed'[j] = election_completed[j],
           \A a \in AllLinks : a[2].term = term[i] => a[1] <= Len(log[i]),
           ReqsFrom(AllLinks \cup Links(0, 0, Append(log[i], e)))
    PROVE  LogInv' /\ LeaderAppends
  <1> DEFINE new == <<Len(log[i]) + 1, e, LastTerm(log[i])>>
             lg == Append(log[i], e)
  <1>1. /\ log \in [Server -> Seq(Entry)]
        /\ log[i] \in Seq(Entry)
        /\ log'[i] = lg
        /\ \A j \in Server \ {i} : log'[j] = log[j]
    BY ZenonT(60) DEF TypeOK
  <1>2. Links(0, 0, lg) \subseteq Links(0, 0, log[i]) \cup {new}
    BY ZenonT(60), <1>1, LinksAppend
  <1>3. \A j \in Server : Links(0, 0, log[j]) \subseteq AllLinks
    BY ZenonT(60) DEF AllLinks, LogLinks
  <1>4. Len(log[i]) \in Nat /\ Len(lg) = Len(log[i]) + 1
    BY SMTT(60), <1>1
  <1>5. new[1] = Len(log[i]) + 1 /\ new[2] = e /\ new[3] = LastTerm(log[i])
    BY ZenonT(60)
  <1> HIDE DEF new, lg
  <1>6. AllLinks' \subseteq AllLinks \cup {new} /\ FirstHasNone'
    <2> DEFINE S == AllLinks \cup {new}
    <2>1. ASSUME NEW j \in Server PROVE Links(0, 0, log'[j]) \subseteq S
      <3>1. CASE j = i
        BY ZenonT(60), <1>1, <1>2, <1>3, <3>1
      <3>2. CASE j # i
        BY ZenonT(60), <1>1, <1>3, <3>2
      <3> QED BY ZenonT(60), <3>1, <3>2
    <2>2. ReqsFrom(S)
      <3>1. AllLinks \cup Links(0, 0, lg) \subseteq S
        BY ZenonT(60), <1>2, <1>3
      <3>2. ReqsFrom(AllLinks \cup Links(0, 0, lg))
        BY ZenonT(60) DEF lg
      <3> HIDE DEF S
      <3> QED BY ZenonT(60), <3>1, <3>2 DEF ReqsFrom, Carries
    <2> HIDE DEF S
    <2>3. AllLinks' \subseteq S /\ FirstHasNone'
      BY ZenonT(60), <2>1, <2>2, LinksAfter
    <2> QED BY ZenonT(60), <2>3 DEF S
  <1>7. /\ LinksAgree /\ TermsElected /\ LeaderIsAhead /\ ElectedOnce
        /\ RequestsLed /\ TermsReached /\ TermsAscend
    BY ZenonT(60) DEF LogInv
  <1>8. \A a \in AllLinks : ~(a[1] = new[1] /\ a[2].term = new[2].term)
    BY SMTT(60), <1>4, <1>5
  <1>9. LinksAgree'
    BY ZenonT(60), <1>6, <1>7, <1>8 DEF LinksAgree
  <1>10. TermsElected'
    <2>1. <<term[i], i>> \in elected' /\ <<term[i], i>>[1] = new[2].term
      BY ZenonT(60), <1>5
    <2> QED BY ZenonT(60), <1>6, <1>7, <2>1 DEF TermsElected
  <1>11. ElectedOnce'
    <2>1. ASSUME NEW j \in Server, role'[j] = "leader" PROVE <<term'[j], j>> \in elected'
      BY ZenonT(60), <1>7, <2>1 DEF ElectedOnce
    <2>2. ASSUME NEW x \in elected'
          PROVE  x[1] <= term'[x[2]] /\ (x[1] = term'[x[2]] => election_completed'[x[2]])
      <3>1. CASE x \in elected
        BY ZenonT(60), <1>7, <3>1 DEF ElectedOnce, TypeOK
      <3>2. CASE x = <<term[i], i>>
        <4>1. term[i] \in Nat
          BY ZenonT(60) DEF TypeOK
        <4>2. term[i] <= term[i]
          BY SMTT(60), <4>1
        <4> QED BY ZenonT(60), <3>2, <4>2
      <3> QED BY ZenonT(60), <2>2, <3>1, <3>2
    <2> QED BY ZenonT(60), <2>1, <2>2 DEF ElectedOnce
  <1>12. LeaderIsAhead'
    <2> SUFFICES ASSUME NEW j \in Server, role'[j] = "leader", NEW a \in AllLinks',
                        a[2].term = term'[j]
                 PROVE  a[1] <= Len(log'[j])
      BY ZenonT(60) DEF LeaderIsAhead
    <2>1. CASE j = i
      <3>1. CASE a \in AllLinks
        <4>1. a[1] \in Nat
          BY ZenonT(60), <3>1, AllLinksType
        <4>2. a[1] <= Len(log[i])
          BY ZenonT(60), <2>1, <3>1
        <4> QED BY SMTT(60), <1>1, <1>4, <2>1, <4>1, <4>2
      <3>2. CASE a = new
        BY SMTT(60), <1>1, <1>4, <1>5, <2>1, <3>2
      <3> QED BY ZenonT(60), <1>6, <3>1, <3>2
    <2>2. CASE j # i
      <3>1. a # new
        <4>1. <<term[j], j>> \in elected' /\ <<term[i], i>> \in elected'
          BY ZenonT(60), <1>11 DEF ElectedOnce
        <4>2. term[j] # term[i]
          BY ZenonT(60), <2>2, <4>1 DEF ElectionSafety
        <4> QED BY ZenonT(60), <1>5, <4>2
      <3> QED BY ZenonT(60), <1>1, <1>6, <1>7, <2>2, <3>1 DEF LeaderIsAhead
    <2> QED BY ZenonT(60), <2>1, <2>2
  <1>13. \A j \in Server : term[j] \in Nat /\ term[j] <= term[j]
    <2>1. \A n \in Nat : n <= n
      BY SMTT(60)
    <2> QED BY ZenonT(60), <2>1 DEF TypeOK
  <1>14. RequestsLed' /\ TermsReached'
    <2>1. \A j \in Server : \A a \in Links(0, 0, log[j]) : a[2].term <= term[j]
      BY ZenonT(60), <1>7 DEF TermsReached, LogLinks
    <2>2. new[2].term <= term[i]
      BY ZenonT(60), <1>5, <1>13
    <2>3. \A j \in Server : \A a \in Links(0, 0, log'[j]) : a[2].term <= term'[j]
      <3> SUFFICES ASSUME NEW j \in Server PROVE \A a \in Links(0, 0, log'[j]) : a[2].term <= term[j]
        BY ZenonT(60)
      <3>1. CASE j = i
        BY ZenonT(60), <1>1, <1>2, <2>1, <2>2, <3>1
      <3>2. CASE j # i
        BY ZenonT(60), <1>1, <2>1, <3>2
      <3> QED BY ZenonT(60), <3>1, <3>2
    <2>4. elected \subseteq elected' /\ ReqsFrom(AllLinks \cup Links(0, 0, lg))
      BY ZenonT(60) DEF lg
    <2> QED BY ZenonT(60), <1>7, <2>3, <2>4, RequestsLedAfter
  <1>15. TermsAscend'
    <2>1. LastTerm(log[i]) <= term[i]
      BY ZenonT(60), <1>1, <1>7, LastTermReached DEF TermsReached, LogLinks, TypeOK
    <2> QED BY ZenonT(60), <1>5, <1>6, <1>7, <2>1 DEF TermsAscend
  <1>16. LeaderAppends
    <2>1. /\ Len(log[i]) <= Len(lg)
          /\ \A k \in 1..Len(log[i]) : lg[k] = log[i][k]
      BY SMTT(60), <1>1, <1>4 DEF lg
    <2>2. \A j \in Server : Len(log[j]) <= Len(log[j])
      <3>1. \A s \in Seq(Entry) : Len(s) <= Len(s)
        BY SMTT(60)
      <3> QED BY ZenonT(60), <1>1, <3>1
    <2>3. ASSUME NEW j \in Server
          PROVE  /\ Len(log[j]) <= Len(log'[j])
                 /\ \A k \in 1..Len(log[j]) : log'[j][k] = log[j][k]
      <3>1. CASE j = i
        BY ZenonT(60), <1>1, <2>1, <3>1
      <3>2. CASE j # i
        BY ZenonT(60), <1>1, <2>2, <3>2
      <3> QED BY ZenonT(60), <3>1, <3>2
    <2> QED BY ZenonT(60), <1>13, <2>3 DEF LeaderAppends
  <1> QED BY ZenonT(60), <1>6, <1>9, <1>10, <1>11, <1>12, <1>14, <1>15, <1>16 DEF LogInv

\* Terms do not go back, so no log is ahead of its server after the step.
LEMMA OldTermsReached ==
    ASSUME TypeOK, TypeOK', LogInv, \A j \in Server : LogServer(j)
    PROVE  \A j \in Server : \A a \in Links(0, 0, log[j]) : a[2].term <= term'[j]
  <1> SUFFICES ASSUME NEW j \in Server, NEW a \in Links(0, 0, log[j])
               PROVE  a[2].term <= term'[j]
    BY ZenonT(60)
  <1>1. a \in AllLinks /\ a[2].term <= term[j]
    BY ZenonT(60) DEF AllLinks, LogLinks, LogInv, TermsReached
  <1>2. a[2].term \in Nat
    BY ZenonT(60), <1>1, AllLinksType DEF Entry
  <1>3. LogServer(j) /\ term[j] \in Nat /\ term'[j] \in Nat
    BY ZenonT(60) DEF TypeOK
  <1> QED BY SMTT(60), <1>1, <1>2, <1>3 DEF LogServer

\* A step that leaves the logs alone leaves their links.
LEMMA LogsKept ==
    ASSUME TypeOK, TypeOK', LogInv, log' = log, \A j \in Server : LogServer(j)
    PROVE  LogsFrom
  BY ZenonT(60), OldTermsReached DEF LogsFrom, AllLinks, LogLinks

\* A leader was elected in its term.
LEMMA LeaderElected ==
    ASSUME LogInv, NEW i \in Server, role[i] = "leader"
    PROVE  <<term[i], i>> \in elected
  BY ZenonT(60) DEF LogInv, ElectedOnce

\* update_term never makes a leader, and forgets the election only with its term.
LEMMA UpdateTermLog ==
    ASSUME TypeOK, NEW i \in Server, NEW t \in Nat, UpdateTerm(i, t),
           \A j \in Server : role'[j] = "leader" => log'[j] = log[j]
    PROVE  \A j \in Server : LogServer(j)
  <1>1. CASE t > term[i]
    <2>1. /\ term' = [term EXCEPT ![i] = t]
          /\ role' = [role EXCEPT ![i] = "follower"]
          /\ election_completed' = [election_completed EXCEPT ![i] = FALSE]
      BY ZenonT(60), <1>1 DEF UpdateTerm
    <2>2. term'[i] = t /\ role'[i] = "follower"
      BY ZenonT(60), <2>1 DEF TypeOK
    <2>3. \A j \in Server \ {i} : /\ term'[j] = term[j] /\ role'[j] = role[j]
                                  /\ election_completed'[j] = election_completed[j]
      BY ZenonT(60), <2>1 DEF TypeOK
    <2>4. LogServer(i)
      BY ZenonT(60), <1>1, <2>2 DEF LogServer
    <2>5. \A j \in Server \ {i} : LogServer(j)
      BY ZenonT(60), <2>3 DEF LogServer
    <2> QED BY ZenonT(60), <2>4, <2>5
  <1>2. CASE ~(t > term[i])
    BY ZenonT(60), <1>2 DEF UpdateTerm, LogServer, voteVars
  <1> QED BY ZenonT(60), <1>1, <1>2

-----------------------------------------------------------------------------
(* The actions and the log invariant.                                      *)

\* request_prevote makes a candidate and relabels messages.
LEMMA RequestPrevoteLog ==
    ASSUME TypeOK, TypeOK', LogInv, NEW i \in Server, NEW J \in SUBSET Peers(i), RequestPrevote(i, J)
    PROVE  LogInv' /\ LeaderAppends
  <1>1. net \subseteq Message /\ FirstHasNone
    BY ZenonT(60) DEF TypeOK, LogInv
  <1>2. PICK f \in [net -> Conn] : net' \subseteq Relabel(f)
    BY ZenonT(60), <1>1, RecreateOK DEF RequestPrevote
  <1>3. ReqsFrom(AllLinks)
    BY ZenonT(60), <1>1, <1>2, RelabelledReqs
  <1>4. log' = log /\ elected' = elected
    BY ZenonT(60) DEF RequestPrevote, logVars
  <1>5. \A j \in Server : LogServer(j)
    BY ZenonT(60) DEF RequestPrevote, LogServer, TypeOK, logVars, voteVars
  <1> QED BY ZenonT(60), <1>3, <1>4, <1>5, LogsKept, LogQuiet

\* initiate_vote moves to a higher term, as a candidate.
LEMMA InitiateVoteLog ==
    ASSUME TypeOK, TypeOK', LogInv, NEW i \in Server, InitiateVote(i)
    PROVE  LogInv' /\ LeaderAppends
  <1>1. \A m \in net' : m.type = "append_req" => m \in net
    <2>1. \A j, t, lg : VoteReq(i, j, t, lg).type # "append_req"
      BY ZenonT(60) DEF VoteReq
    <2>2. net' = net \cup {VoteReq(i, j, term[i] + 1, log[i]) : j \in rpc[i] \ Busy(net, i)}
      BY ZenonT(60) DEF InitiateVote
    <2> QED BY ZenonT(60), <2>1, <2>2
  <1>2. ReqsFrom(AllLinks)
    BY ZenonT(60), <1>1, FewerReqs DEF LogInv
  <1>3. log' = log /\ elected' = elected
    BY ZenonT(60) DEF InitiateVote, logVars
  <1>4. term[i] \in Nat /\ term' = [term EXCEPT ![i] = term[i] + 1]
    BY ZenonT(60) DEF InitiateVote, TypeOK
  <1>5. term'[i] > term[i]
    <2>1. term'[i] = term[i] + 1
      BY ZenonT(60), <1>4 DEF TypeOK
    <2> QED BY SMTT(60), <1>4, <2>1
  <1>6. \A j \in Server : LogServer(j)
    BY ZenonT(60), <1>3, <1>5 DEF InitiateVote, LogServer, TypeOK
  <1> QED BY ZenonT(60), <1>2, <1>3, <1>6, LogsKept, LogQuiet

\* Resigning ends leadership in the term: election_completed_ stays.
LEMMA ResignLeadershipLog ==
    ASSUME TypeOK, TypeOK', LogInv, NEW i \in Server, ResignLeadership(i)
    PROVE  LogInv' /\ LeaderAppends
  <1>1. log' = log /\ elected' = elected /\ net' = net
    BY ZenonT(60) DEF ResignLeadership, logVars
  <1>2. ReqsFrom(AllLinks)
    BY ZenonT(60), <1>1, FewerReqs DEF LogInv
  <1>3. \A j \in Server : LogServer(j)
    BY ZenonT(60), <1>1 DEF ResignLeadership, LogServer, TypeOK, voteVars
  <1> QED BY ZenonT(60), <1>1, <1>2, <1>3, LogsKept, LogQuiet

\* handle_cli_req makes an entry after all those of the leader's term.
LEMMA ClientRequestLog ==
    ASSUME TypeOK, TypeOK', PeersOK, LogInv, ElectionSafety', NEW i \in Server, NEW c \in Command,
           ClientRequest(i, c)
    PROVE  LogInv' /\ LeaderAppends
  <1> DEFINE e == [term |-> term[i], cmd |-> c]
  <1>1. e \in Entry
    BY ZenonT(60) DEF Entry, TypeOK, PeersOK, ClientRequest
  <1>2. /\ role[i] = "leader"
        /\ log' = [log EXCEPT ![i] = Append(@, e)]
        /\ role' = role /\ term' = term /\ election_completed' = election_completed
        /\ elected' = elected /\ net' = net
    BY ZenonT(60) DEF ClientRequest, stateVars, voteVars
  <1>3. LeaderIsAhead /\ ElectedOnce /\ FirstHasNone
    BY ZenonT(60) DEF LogInv
  <1>4. <<term[i], i>> \in elected
    BY ZenonT(60), <1>2, <1>3 DEF ElectedOnce
  <1>5. election_completed'[i]
    <2>1. <<term[i], i>>[1] = term[i] /\ <<term[i], i>>[2] = i
      BY ZenonT(60)
    <2> QED BY ZenonT(60), <1>2, <1>3, <1>4, <2>1 DEF ElectedOnce
  <1>6. elected' = elected \cup {<<term[i], i>>}
    BY ZenonT(60), <1>2, <1>4
  <1>7. ReqsFrom(AllLinks \cup Links(0, 0, Append(log[i], e)))
    <2>1. ReqsFrom(AllLinks)
      BY ZenonT(60), <1>2, <1>3, FewerReqs
    <2> HIDE DEF e
    <2> QED BY ZenonT(60), <2>1 DEF ReqsFrom, Carries
  <1>8. \A a \in AllLinks : a[2].term = term[i] => a[1] <= Len(log[i])
    BY ZenonT(60), <1>2, <1>3 DEF LeaderIsAhead
  <1>9. e.term = term[i]
    BY ZenonT(60)
  <1> HIDE DEF e
  <1> QED BY ZenonT(60), <1>1, <1>2, <1>5, <1>6, <1>7, <1>8, <1>9, LogGrows

\* A request with links of i's log has links that are known.
LEMMA OwnLinks ==
    ASSUME NEW i \in Server, ReqsFrom(AllLinks \cup Links(0, 0, log[i]))
    PROVE  ReqsFrom(AllLinks)
  <1>1. AllLinks \cup Links(0, 0, log[i]) = AllLinks
    BY ZenonT(60) DEF AllLinks, LogLinks
  <1> QED BY ZenonT(60), <1>1

\* A step that changes neither role, term nor log of any server.
LEMMA ServersKept ==
    ASSUME log' = log, term' = term, role' = role, election_completed' = election_completed
    PROVE  \A j \in Server : LogServer(j)
  BY ZenonT(60) DEF LogServer

\* A heartbeat sends entries of the leader's log.
LEMMA HeartbeatLog ==
    ASSUME TypeOK, TypeOK', LogInv, NEW i \in Server, NEW j \in Peers(i), Heartbeat(i, j)
    PROVE  LogInv' /\ LeaderAppends
  <1>1. log[i] \in Seq(Entry) /\ {j} \in SUBSET Server /\ net \in SUBSET net
    BY ZenonT(60) DEF TypeOK, Peers
  <1>2. RequestAppendEntries(i, term[i], log[i], quick_commit_index[i], next_log_idx[i],
                             matched_idx[i], net, {j})
    BY ZenonT(60) DEF Heartbeat
  <1>3. /\ log' = log /\ term' = term /\ role' = role
        /\ election_completed' = election_completed /\ elected' = elected
        /\ role[i] = "leader"
    BY ZenonT(60) DEF Heartbeat, logVars, stateVars, voteVars
  <1>4. ReqsFrom(AllLinks \cup Links(0, 0, log[i]))
    BY ZenonT(60), <1>1, <1>2, <1>3, LeaderElected, RequestAppendReqs DEF LogInv
  <1> QED BY ZenonT(60), <1>3, <1>4, OwnLinks, ServersKept, LogsKept, LogQuiet

\* So does the request on the new connection of an inactive peer.
LEMMA ForceReconnectLog ==
    ASSUME TypeOK, TypeOK', LogInv, NEW i \in Server, NEW j \in Peers(i), ForceReconnect(i, j)
    PROVE  LogInv' /\ LeaderAppends
  <1> DEFINE n == Len(log[i]) + 1
             r == AppendReq(i, j, term[i], log[i], n, quick_commit_index[i])
             R == Recreate(net, i, {j})
  <1>1. /\ net \subseteq Message /\ FirstHasNone
        /\ term[i] \in Nat /\ log[i] \in Seq(Entry) /\ quick_commit_index[i] \in Nat
        /\ j \in Server /\ next_log_idx[i] \in [Server -> Nat]
    BY ZenonT(60) DEF TypeOK, LogInv, Peers
  <1>2. n \in Nat \ {0}
    BY SMTT(60), <1>1
  <1>3. net' = R \cup {r}
    BY ZenonT(60), <1>1 DEF ForceReconnect
  <1>4. Carries(r, Links(0, 0, log[i]))
    BY ZenonT(60), <1>1, <1>2, AppendReqLinks
  <1>5. Links(0, 0, log[i]) \subseteq AllLinks
    BY ZenonT(60) DEF AllLinks, LogLinks
  <1> HIDE DEF r, R
  <1>6. ASSUME NEW m \in R, m.type = "append_req"
        PROVE  Carries(m, AllLinks) /\ Sent(m)
    <2>1. PICK f \in [net -> Conn] : R \subseteq Relabel(f)
      BY ZenonT(60), <1>1, RecreateOK DEF R
    <2>2. PICK x \in net : m = [x EXCEPT !.conn = f[x]]
      BY ZenonT(60), <2>1 DEF Relabel
    <2>3. x \in Message /\ f[x] \in Conn
      BY ZenonT(60), <1>1
    <2>4. x.type = "append_req"
      BY ZenonT(60), <1>6, <2>2, <2>3, ConnType
    <2>5. /\ ReqLinks(m) = ReqLinks(x)
          /\ m.last_log_idx = x.last_log_idx
          /\ m.last_log_term = x.last_log_term
          /\ m.term = x.term /\ m.cli = x.cli
      BY ZenonT(60), <2>2, <2>3, <2>4, ConnLinks
    <2>6. Carries(x, AllLinks) /\ Sent(x)
      BY ZenonT(60), <1>1, <2>4, OldReqs
    <2> QED BY ZenonT(60), <2>5, <2>6 DEF Carries, Sent
  <1>7. /\ log' = log /\ term' = term /\ role' = role
        /\ election_completed' = election_completed /\ elected' = elected
        /\ role[i] = "leader"
    BY ZenonT(60) DEF ForceReconnect, logVars, stateVars, voteVars
  <1>8. Carries(r, AllLinks) /\ Sent(r)
    <2>1. r.cli = i /\ r.term = term[i]
      BY ZenonT(60) DEF r, AppendReq
    <2>2. <<term[i], i>> \in elected
      BY ZenonT(60), <1>7, LeaderElected
    <2> QED BY ZenonT(60), <1>4, <1>5, <1>7, <2>1, <2>2 DEF Carries, Sent
  <1>9. ReqsFrom(AllLinks)
    BY ZenonT(60), <1>3, <1>6, <1>8 DEF ReqsFrom, AppendReqs
  <1> QED BY ZenonT(60), <1>7, <1>9, ServersKept, LogsKept, LogQuiet

\* Freeing a peer before its response is handled relabels one message.
LEMMA FreeBeforeHandlerLog ==
    ASSUME TypeOK, TypeOK', LogInv, NEW m \in net, FreeBeforeHandler(m)
    PROVE  LogInv' /\ LeaderAppends
  <1>1. net \subseteq Message /\ FirstHasNone /\ "detached" \in Conn
    BY ZenonT(60) DEF TypeOK, LogInv, Conn
  <1>2. PICK f \in [net -> Conn] : net' \subseteq Relabel(f)
    BY ZenonT(60), <1>1, OneRelabelled DEF FreeBeforeHandler
  <1>3. ReqsFrom(AllLinks)
    BY ZenonT(60), <1>1, <1>2, RelabelledReqs
  <1>4. /\ log' = log /\ term' = term /\ role' = role
        /\ election_completed' = election_completed /\ elected' = elected
    BY ZenonT(60) DEF FreeBeforeHandler, logVars, stateVars, voteVars
  <1> QED BY ZenonT(60), <1>3, <1>4, ServersKept, LogsKept, LogQuiet

\* A failed RPC loses or orphans one message.
LEMMA RpcFailsLog ==
    ASSUME TypeOK, TypeOK', LogInv, NEW m \in net, RpcFails(m)
    PROVE  LogInv' /\ LeaderAppends
  <1>1. net \subseteq Message /\ FirstHasNone /\ "orphan" \in Conn
    BY ZenonT(60) DEF TypeOK, LogInv, Conn
  <1>2. net' \subseteq (net \ {m}) \cup {[m EXCEPT !.conn = "orphan"]}
    BY ZenonT(60) DEF RpcFails
  <1>3. PICK f \in [net -> Conn] : net' \subseteq Relabel(f)
    BY ZenonT(60), <1>1, <1>2, OneRelabelled
  <1>4. ReqsFrom(AllLinks)
    BY ZenonT(60), <1>1, <1>3, RelabelledReqs
  <1>5. /\ log' = log /\ term' = term /\ role' = role
        /\ election_completed' = election_completed /\ elected' = elected
    BY ZenonT(60) DEF RpcFails, logVars, stateVars, voteVars
  <1> QED BY ZenonT(60), <1>4, <1>5, ServersKept, LogsKept, LogQuiet

\* A crash keeps the log and the saved term, and no server leads after it.
LEMMA RestartLog ==
    ASSUME TypeOK, TypeOK', SavedCurrent, LogInv, NEW i \in Server,
           NEW k \in 0..quick_commit_index[i], Restart(i, k)
    PROVE  LogInv' /\ LeaderAppends
  <1>1. net \subseteq Message /\ FirstHasNone
    BY ZenonT(60) DEF TypeOK, LogInv
  <1>2. PICK f \in [net -> Conn] : net' \subseteq Relabel(f)
    BY ZenonT(60), <1>1, SurvivorsOK DEF Restart
  <1>3. ReqsFrom(AllLinks)
    BY ZenonT(60), <1>1, <1>2, RelabelledReqs
  <1>4. log' = log /\ elected' = elected
    BY ZenonT(60) DEF Restart
  <1>5. saved[i].term = term[i]
    <2>1. saved[i] = [term |-> term[i], voted_for |-> voted_for[i]]
      BY ZenonT(60) DEF SavedCurrent
    <2> QED BY SMTT(60), <2>1
  <1>6. /\ term' = [term EXCEPT ![i] = term[i]]
        /\ role' = [role EXCEPT ![i] = "follower"]
        /\ election_completed' = [election_completed EXCEPT ![i] = TRUE]
    BY ZenonT(60), <1>5 DEF Restart
  <1>7. \A j \in Server : LogServer(j)
    BY ZenonT(60), <1>4, <1>6 DEF LogServer, TypeOK
  <1> QED BY ZenonT(60), <1>3, <1>4, <1>7, LogsKept, LogQuiet

\* A response of a higher term makes a follower.
LEMMA RespUpdatesTermLog ==
    ASSUME TypeOK, TypeOK', LogInv, NEW m \in net, RespUpdatesTerm(m)
    PROVE  LogInv' /\ LeaderAppends
  <1>1. m.cli \in Server /\ m.term \in Nat /\ FirstHasNone
    BY ZenonT(60), MessageFields DEF TypeOK, LogInv
  <1>2. /\ UpdateTerm(m.cli, m.term) /\ log' = log /\ elected' = elected
        /\ \A n \in net' : n \in net
    BY ZenonT(60) DEF RespUpdatesTerm, logVars, history
  <1>3. \A j \in Server : LogServer(j)
    BY ZenonT(60), <1>1, <1>2, UpdateTermLog
  <1>4. ReqsFrom(AllLinks)
    BY ZenonT(60), <1>1, <1>2, FewerReqs
  <1> QED BY ZenonT(60), <1>2, <1>3, <1>4, LogsKept, LogQuiet

\* A late vote response is dropped.
LEMMA IgnoreVoteRespLog ==
    ASSUME TypeOK, TypeOK', LogInv, NEW m \in net, IgnoreVoteResp(m)
    PROVE  LogInv' /\ LeaderAppends
  <1>1. /\ log' = log /\ term' = term /\ role' = role
        /\ election_completed' = election_completed /\ elected' = elected
        /\ \A n \in net' : n \in net
    BY ZenonT(60) DEF IgnoreVoteResp, logVars, stateVars, voteVars, history
  <1>2. ReqsFrom(AllLinks)
    BY ZenonT(60), <1>1, FewerReqs DEF LogInv
  <1> QED BY ZenonT(60), <1>1, <1>2, ServersKept, LogsKept, LogQuiet

\* handle_vote_req answers, and moves to a higher term at most.
LEMMA HandleVoteReqLog ==
    ASSUME TypeOK, TypeOK', LogInv, NEW m \in net, HandleVoteReq(m)
    PROVE  LogInv' /\ LeaderAppends
  <1>1. m.srv \in Server /\ m.term \in Nat /\ FirstHasNone
    BY ZenonT(60), MessageFields DEF TypeOK, LogInv
  <1>2. UpdateTerm(m.srv, m.term) /\ log' = log /\ elected' = elected
    BY ZenonT(60) DEF HandleVoteReq, logVars
  <1>3. \A j \in Server : LogServer(j)
    BY ZenonT(60), <1>1, <1>2, UpdateTermLog
  <1>4. \A n \in net' : n.type = "append_req" => n \in net
    <2>1. \A t, ok : VoteResp(m, t, ok).type # "append_req"
      BY ZenonT(60) DEF VoteResp
    <2>2. PICK t, ok : net' = Reply(net, m, VoteResp(m, t, ok))
      BY ZenonT(60) DEF HandleVoteReq
    <2> QED BY ZenonT(60), <2>1, <2>2 DEF Reply
  <1>5. ReqsFrom(AllLinks)
    BY ZenonT(60), <1>1, <1>4, FewerReqs
  <1> QED BY ZenonT(60), <1>2, <1>3, <1>5, LogsKept, LogQuiet

\* An accepted append response sends entries of the own log, at most.
LEMMA HandleAcceptedLog ==
    ASSUME TypeOK, TypeOK', LogInv, NEW m \in net, HandleAccepted(m)
    PROVE  LogInv' /\ LeaderAppends
  <1> DEFINE i == m.cli
             p == m.srv
             n == net \ {m}
             nx == [next_log_idx[i] EXCEPT ![p] = m.next_idx]
             mt == [matched_idx[i] EXCEPT ![p] = m.next_idx - 1]
             target == ExpectedCommitted(i, mt)
             advance == target > quick_commit_index[i]
             ci == Max2(target, quick_commit_index[i])
             lead == role[i] = "leader"
             notified == IF advance /\ lead THEN Peers(i) ELSE {}
             pend == pending_commit[i] \cup (notified \ Reached(i, n, notified))
             catchup == p \in pend \/ m.next_idx < Len(log[i]) + 1
             J == notified \cup (IF catchup /\ lead THEN {p} ELSE {})
  <1>1. i \in Server /\ p \in Server
    BY ZenonT(60), MessageFields DEF TypeOK
  <1>2. RequestAppendEntries(i, term[i], log[i], ci, nx, mt, n, J)
    BY ZenonT(60) DEF HandleAccepted
  <1>3. /\ log' = log /\ term' = term /\ role' = role
        /\ election_completed' = election_completed /\ elected' = elected
    BY ZenonT(60) DEF HandleAccepted, stateVars, voteVars
  <1>4. log[i] \in Seq(Entry) /\ n \in SUBSET net /\ J \in SUBSET Server
    <2>1. notified \subseteq Server
      BY ZenonT(60) DEF Peers
    <2> HIDE DEF notified, catchup, lead
    <2> QED BY ZenonT(60), <1>1, <2>1 DEF TypeOK
  <1>5. J # {} => role[i] = "leader"
    BY ZenonT(60)
  <1> HIDE DEF i, p, n, nx, mt, ci, J
  <1>6. ReqsFrom(AllLinks \cup Links(0, 0, log[i]))
    BY ZenonT(60), <1>1, <1>2, <1>3, <1>4, <1>5, LeaderElected, RequestAppendReqs DEF LogInv
  <1> QED BY ZenonT(60), <1>1, <1>3, <1>6, OwnLinks, ServersKept, LogsKept, LogQuiet

\* So does a rejected one.
LEMMA HandleRejectedLog ==
    ASSUME TypeOK, TypeOK', LogInv, NEW m \in net, HandleRejected(m)
    PROVE  LogInv' /\ LeaderAppends
  <1> DEFINE i == m.cli
             J == IF role[i] = "leader" THEN {m.srv} ELSE {}
             n == net \ {m}
  <1>1. i \in Server /\ m.srv \in Server
    BY ZenonT(60), MessageFields DEF TypeOK
  <1>2. PICK nx : RequestAppendEntries(i, term[i], log[i], quick_commit_index[i], nx,
                                       matched_idx[i], n, J)
    BY ZenonT(60) DEF HandleRejected
  <1>3. /\ log' = log /\ term' = term /\ role' = role
        /\ election_completed' = election_completed /\ elected' = elected
    BY ZenonT(60) DEF HandleRejected, stateVars, voteVars, logVars, history
  <1>4. log[i] \in Seq(Entry) /\ n \in SUBSET net /\ J \in SUBSET Server
    BY ZenonT(60), <1>1 DEF TypeOK
  <1>5. J # {} => role[i] = "leader"
    BY ZenonT(60)
  <1> HIDE DEF i, n, J
  <1>6. ReqsFrom(AllLinks \cup Links(0, 0, log[i]))
    BY ZenonT(60), <1>1, <1>2, <1>3, <1>4, <1>5, LeaderElected, RequestAppendReqs DEF LogInv
  <1> QED BY ZenonT(60), <1>1, <1>3, <1>6, OwnLinks, ServersKept, LogsKept, LogQuiet

\* handle_vote_resp: a server that wins leads for the first time in its term, so
\* its configuration entry is the first entry of the term.
LEMMA HandleVoteRespLog ==
    ASSUME TypeOK, TypeOK', PeersOK', LogInv, ElectionSafety', NEW m \in net, HandleVoteResp(m)
    PROVE  LogInv' /\ LeaderAppends
  <1> DEFINE i == m.cli
             granted == votes_granted[i] + (IF m.accepted THEN 1 ELSE 0)
             responded == votes_responded[i] + 1
             won == granted >= QuorumSize + 1
             done == won \/ responded >= Cardinality(Server)
  <1>1. i \in Server /\ term[i] \in Nat /\ log[i] \in Seq(Entry)
    BY ZenonT(60), MessageFields DEF TypeOK
  <1>2. /\ ~election_completed[i]
        /\ election_completed' = [election_completed EXCEPT ![i] = done]
        /\ IF won THEN BecomeLeader(i, net \ {m})
                  ELSE net' = net \ {m} /\ UNCHANGED <<role, logVars, peerVars, history>>
        /\ term' = term
    BY ZenonT(60) DEF HandleVoteResp
  <1>3. /\ election_completed'[i] = done
        /\ \A j \in Server \ {i} : election_completed'[j] = election_completed[j]
    BY ZenonT(60), <1>1, <1>2 DEF TypeOK
  <1>4. won => election_completed'[i]
    BY ZenonT(60), <1>3
  <1> HIDE DEF won, done, i
  <1>5. CASE ~won
    <2>1. /\ log' = log /\ role' = role /\ elected' = elected
          /\ \A n \in net' : n \in net
      BY ZenonT(60), <1>2, <1>5 DEF logVars, history
    <2>2. \A j \in Server : LogServer(j)
      BY ZenonT(60), <1>1, <1>2, <1>3, <2>1 DEF LogServer
    <2>3. ReqsFrom(AllLinks)
      BY ZenonT(60), <2>1, FewerReqs DEF LogInv
    <2> QED BY ZenonT(60), <2>1, <2>2, <2>3, LogsKept, LogQuiet
  <1>6. CASE won
    <2> DEFINE e == [term |-> term[i], cmd |-> Conf]
               lg == Append(log[i], e)
               n == net \ {m}
               J == Peers(i)
    <2>1. /\ role' = [role EXCEPT ![i] = "leader"]
          /\ log' = [log EXCEPT ![i] = lg]
          /\ elected' = elected \cup {<<term[i], i>>}
      BY ZenonT(60), <1>2, <1>6 DEF BecomeLeader
    <2>2. PICK nx : RequestAppendEntries(i, term[i], lg, quick_commit_index[i], nx,
                                         matched_idx[i], n, J)
      BY ZenonT(60), <1>2, <1>6 DEF BecomeLeader
    <2>3. role'[i] = "leader" /\ \A j \in Server \ {i} : role'[j] = role[j]
      BY ZenonT(60), <1>1, <2>1 DEF TypeOK
    <2>4. e \in Entry /\ e.term = term[i]
      <3>1. term[i] # 0
        BY ZenonT(60), <1>1, <1>2, <2>3 DEF PeersOK
      <3> QED BY ZenonT(60), <1>1, <3>1 DEF Entry
    <2>5. log' = [log EXCEPT ![i] = Append(@, e)]
      BY ZenonT(60), <2>1
    <2> HIDE DEF e
    <2>6. lg \in Seq(Entry)
      BY SMTT(60), <1>1, <2>4
    <2>7. n \in SUBSET net /\ J \in SUBSET Server
      BY ZenonT(60) DEF Peers
    <2>8. ReqsFrom(AllLinks \cup Links(0, 0, lg))
      <3>1. term[i] = term'[i] /\ lg = log'[i] /\ <<term[i], i>> \in elected'
        BY ZenonT(60), <1>1, <1>2, <2>1 DEF TypeOK
      <3> HIDE DEF lg, n, J
      <3> QED BY ZenonT(60), <1>1, <2>2, <2>6, <2>7, <3>1, RequestAppendReqs DEF LogInv
    <2>9. \A a \in AllLinks : a[2].term # term[i]
      <3> SUFFICES ASSUME NEW a \in AllLinks, a[2].term = term[i] PROVE FALSE
        BY ZenonT(60)
      <3>1. TermsElected /\ ElectedOnce
        BY ZenonT(60) DEF LogInv
      <3>2. PICK x \in elected : x[1] = term[i]
        BY ZenonT(60), <3>1 DEF TermsElected
      <3>3. <<term[i], i>> \in elected' /\ x \in elected' /\ <<term[i], i>>[1] = term[i] /\ <<term[i], i>>[2] = i
        BY ZenonT(60), <2>1
      <3>4. x[2] = i
        BY ZenonT(60), <3>2, <3>3 DEF ElectionSafety
      <3>5. election_completed[i]
        BY ZenonT(60), <3>1, <3>2, <3>4 DEF ElectedOnce
      <3> QED BY ZenonT(60), <1>2, <3>5
    <2> QED BY ZenonT(60), <1>1, <1>2, <1>3, <1>4, <1>6, <2>1, <2>3, <2>4, <2>5, <2>8, <2>9, LogGrows
  <1> QED BY ZenonT(60), <1>5, <1>6

\* handle_append_entries stores links of the request after links of its log; the
\* log of a leader is left alone.
LEMMA HandleAppendReqLog ==
    ASSUME SkipDefined, TypeOK, TypeOK', LogInv, NEW m \in net, HandleAppendReq(m)
    PROVE  LogInv' /\ LeaderAppends
  <1> DEFINE i == m.srv
             t == Max2(term[i], m.term)
             twin == m.term = term[i] /\ role[i] = "leader"
             ok == m.term = t /\ PrevOkay(m, log[i])
             lg == Stored(m, log[i])
  <1>1. /\ m \in Message /\ i \in Server /\ m.term \in Nat /\ term[i] \in Nat
        /\ log[i] \in Seq(Entry) /\ FirstHasNone
    BY ZenonT(60), MessageFields DEF TypeOK, LogInv
  <1>2. /\ m.type = "append_req"
        /\ IF m.term > term[i]
             THEN UpdateTerm(i, m.term)
             ELSE /\ role' = [role EXCEPT ![i] =
                         IF m.term = term[i] /\ @ = "candidate" THEN "follower" ELSE @]
                  /\ UNCHANGED <<term, voteVars>>
        /\ elected' = elected
    BY ZenonT(60) DEF HandleAppendReq
  <1>3. /\ twin \/ ~ok => log' = log
        /\ ~(twin \/ ~ok) => log' = [log EXCEPT ![i] = lg]
    BY ZenonT(60) DEF HandleAppendReq, logVars
  <1>4. \A n \in net' : n.type = "append_req" => n \in net
    <2>1. \A a, b, c : AppendResp(m, a, b, c).type # "append_req"
      BY ZenonT(60) DEF AppendResp
    <2>2. \/ net' = net \ {m}
          \/ \E a, b, c : net' = Reply(net, m, AppendResp(m, a, b, c))
      BY ZenonT(60) DEF HandleAppendReq
    <2>3. CASE net' = net \ {m}
      BY ZenonT(60), <2>3
    <2>4. CASE \E a, b, c : net' = Reply(net, m, AppendResp(m, a, b, c))
      <3>1. PICK a, b, c : net' = Reply(net, m, AppendResp(m, a, b, c))
        BY ZenonT(60), <2>4
      <3>2. net' \subseteq net \cup {AppendResp(m, a, b, c)}
        BY ZenonT(60), <3>1 DEF Reply
      <3> QED BY ZenonT(60), <2>1, <3>2
    <2> QED BY ZenonT(60), <2>2, <2>3, <2>4
  <1>5. ReqsFrom(AllLinks)
    BY ZenonT(60), <1>1, <1>4, FewerReqs
  <1>6. \A j \in Server : Links(0, 0, log[j]) \subseteq AllLinks
    BY ZenonT(60) DEF AllLinks, LogLinks
  <1>7. ok => Links(0, 0, lg) \subseteq Links(0, 0, log[i]) \cup (ReqLinks(m) \cap AllLinks)
    <2> SUFFICES ASSUME ok
                 PROVE  Links(0, 0, lg) \subseteq Links(0, 0, log[i]) \cup (ReqLinks(m) \cap AllLinks)
      BY ZenonT(60)
    <2>1. Carries(m, AllLinks)
      BY ZenonT(60), <1>1, <1>2, OldReqs
    <2>2. ReqLinks(m) \subseteq AllLinks /\ (m.last_log_idx = 0 => m.last_log_term = 0)
      BY ZenonT(60), <2>1 DEF Carries
    <2>3. PrevOkay(m, log[i])
      BY ZenonT(60)
    <2>4. Links(0, 0, lg) \subseteq Links(0, 0, log[i]) \cup ReqLinks(m)
      BY ZenonT(60), <1>1, <1>2, <2>2, <2>3, StoredLinks
    <2> QED BY ZenonT(60), <2>2, <2>4
  <1>8. \A j \in Server : Links(0, 0, log'[j]) \subseteq AllLinks
    <2> HIDE DEF lg, ok, twin
    <2> QED BY ZenonT(60), <1>1, <1>3, <1>6, <1>7 DEF TypeOK
  <1>9. ok => m.term >= term[i]
    BY SMTT(60), <1>1 DEF Max2
  <1>10. \A j \in Server \ {i} : log'[j] = log[j]
    <2> HIDE DEF lg, ok, twin
    <2> QED BY ZenonT(60), <1>1, <1>3 DEF TypeOK
  <1>11. \A j \in Server : LogServer(j)
    <2>1. CASE m.term > term[i]
      <3>1. role'[i] = "follower"
        <4>1. UpdateTerm(i, m.term)
          BY ZenonT(60), <1>2, <2>1
        <4>2. role' = [role EXCEPT ![i] = "follower"]
          BY ZenonT(60), <2>1, <4>1 DEF UpdateTerm
        <4>3. i \in DOMAIN role
          BY ZenonT(60), <1>1 DEF TypeOK
        <4> QED BY ZenonT(60), <4>2, <4>3
      <3>2. \A j \in Server : role'[j] = "leader" => log'[j] = log[j]
        BY ZenonT(60), <1>1, <1>10, <3>1
      <3> QED BY ZenonT(60), <1>1, <1>2, <2>1, <3>2, UpdateTermLog
    <2>2. CASE ~(m.term > term[i])
      <3>1. /\ term' = term /\ election_completed' = election_completed
            /\ \A j \in Server : role'[j] = "leader" => role[j] = "leader"
        BY ZenonT(60), <1>1, <1>2, <2>2 DEF voteVars, TypeOK
      <3>2. role'[i] = "leader" => log' = log
        <4>1. ok => m.term = term[i]
          BY SMTT(60), <1>1, <1>9, <2>2
        <4> QED BY ZenonT(60), <1>1, <1>3, <3>1, <4>1
      <3> QED BY ZenonT(60), <1>1, <1>10, <3>1, <3>2 DEF LogServer
    <2> QED BY ZenonT(60), <2>1, <2>2
  <1>12. LogsFrom
    <2>1. \A j \in Server : \A a \in Links(0, 0, log[j]) : a[2].term <= term'[j]
      BY ZenonT(60), <1>11, OldTermsReached
    <2>2. \A a \in ReqLinks(m) : a[2].term <= m.term
      BY ZenonT(60), <1>2 DEF LogInv, RequestsLed, AppendReqs
    <2>3. ok => term'[i] = m.term
      <3>1. CASE m.term > term[i]
        <4>1. UpdateTerm(i, m.term)
          BY ZenonT(60), <1>2, <3>1
        <4>2. term' = [term EXCEPT ![i] = m.term]
          BY ZenonT(60), <3>1, <4>1 DEF UpdateTerm
        <4> QED BY ZenonT(60), <1>1, <4>2 DEF TypeOK
      <3>2. CASE ~(m.term > term[i])
        <4>1. ok => m.term = term[i]
          BY SMTT(60), <1>1, <1>9, <3>2
        <4> QED BY ZenonT(60), <1>2, <3>2, <4>1
      <3> QED BY ZenonT(60), <3>1, <3>2
    <2> HIDE DEF lg, ok, twin
    <2>4. \A a \in Links(0, 0, log'[i]) : a[2].term <= term'[i]
      BY ZenonT(60), <1>1, <1>3, <1>7, <2>1, <2>2, <2>3 DEF TypeOK
    <2> QED BY ZenonT(60), <1>8, <1>10, <2>1, <2>4 DEF LogsFrom
  <1> QED BY ZenonT(60), <1>2, <1>5, <1>11, <1>12, LogQuiet

-----------------------------------------------------------------------------
(* The log invariant.                                                      *)

\* There is no entry when the servers start.
LEMMA InitLogInv ==
    ASSUME Init
    PROVE  LogInv
  <1>1. /\ net = {} /\ elected = {}
        /\ \A i \in Server : log[i] = <<>> /\ role[i] = "follower"
    BY ZenonT(60) DEF Init, Start
  <1>2. Links(0, 0, <<>>) = {}
    <2>1. 1..Len(<<>>) = {}
      BY SMTT(60)
    <2> QED BY ZenonT(60), <2>1 DEF Links
  <1>3. AllLinks = {}
    BY ZenonT(60), <1>1, <1>2 DEF AllLinks, LogLinks, AppendReqs
  <1>4. TermsReached
    BY ZenonT(60), <1>1, <1>2 DEF TermsReached, LogLinks
  <1> QED BY ZenonT(60), <1>1, <1>3, <1>4 DEF LogInv, LinksAgree, TermsElected, LeaderIsAhead,
                                        ElectedOnce, FirstHasNone, AppendReqs,
                                        RequestsLed, TermsAscend

\* Every action keeps it.
LEMMA NextLogInv ==
    ASSUME SkipDefined, ElectionInv, ElectionInv', ElectionSafety', LogInv, [Next]_vars
    PROVE  LogInv' /\ LeaderAppends
  <1>1. TypeOK /\ TypeOK' /\ PeersOK /\ PeersOK' /\ SavedCurrent
    BY ZenonT(60) DEF ElectionInv
  <1>2. CASE UNCHANGED vars
    <2>1. /\ log' = log /\ term' = term /\ role' = role
          /\ election_completed' = election_completed /\ elected' = elected /\ net' = net
      BY ZenonT(60), <1>2 DEF vars, stateVars, voteVars, logVars, history
    <2>2. ReqsFrom(AllLinks)
      BY ZenonT(60), <2>1, FewerReqs DEF LogInv
    <2> QED BY ZenonT(60), <1>1, <2>1, <2>2, ServersKept, LogsKept, LogQuiet
  <1>3. ASSUME NEW i \in Server, NEW J \in {Peers(i), Peers(i) \ rpc[i]}, RequestPrevote(i, J)
        PROVE  LogInv' /\ LeaderAppends
    BY ZenonT(60), <1>1, <1>3, RequestPrevoteLog
  <1>4. ASSUME NEW i \in Server, InitiateVote(i) PROVE LogInv' /\ LeaderAppends
    BY ZenonT(60), <1>1, <1>4, InitiateVoteLog
  <1>5. ASSUME NEW i \in Server, ResignLeadership(i) PROVE LogInv' /\ LeaderAppends
    BY ZenonT(60), <1>1, <1>5, ResignLeadershipLog
  <1>6. ASSUME NEW i \in Server, NEW c \in Command, ClientRequest(i, c) PROVE LogInv' /\ LeaderAppends
    BY ZenonT(60), <1>1, <1>6, ClientRequestLog
  <1>7. ASSUME NEW i \in Server, NEW j \in Peers(i), Heartbeat(i, j) PROVE LogInv' /\ LeaderAppends
    BY ZenonT(60), <1>1, <1>7, HeartbeatLog
  <1>8. ASSUME NEW i \in Server, NEW j \in Peers(i), ForceReconnect(i, j) PROVE LogInv' /\ LeaderAppends
    BY ZenonT(60), <1>1, <1>8, ForceReconnectLog
  <1>9. ASSUME NEW i \in Server, NEW k \in 0..quick_commit_index[i], Restart(i, k) PROVE LogInv' /\ LeaderAppends
    BY ZenonT(60), <1>1, <1>9, RestartLog
  <1>10. ASSUME NEW m \in net, Receive(m) PROVE LogInv' /\ LeaderAppends
    BY ZenonT(60), <1>1, <1>10, HandleVoteReqLog, RespUpdatesTermLog, IgnoreVoteRespLog,
       HandleVoteRespLog, HandleAppendReqLog, HandleAcceptedLog, HandleRejectedLog DEF Receive
  <1>11. ASSUME NEW m \in net, FreeBeforeHandler(m) PROVE LogInv' /\ LeaderAppends
    BY ZenonT(60), <1>1, <1>11, FreeBeforeHandlerLog
  <1>12. ASSUME NEW m \in net, RpcFails(m) PROVE LogInv' /\ LeaderAppends
    BY ZenonT(60), <1>1, <1>12, RpcFailsLog
  <1> QED BY ZenonT(60), <1>2, <1>3, <1>4, <1>5, <1>6, <1>7, <1>8, <1>9, <1>10, <1>11, <1>12 DEF Next

\* A leader that got a request of its own term would have sent it to itself.
LEMMA NoRequestOfOwnTerm ==
    ASSUME ElectionInv, ElectionSafety, LogInv
    PROVE  NoSecondLeader
  <1> SUFFICES ASSUME NEW m \in net, m.type = "append_req", m.term = term[m.srv],
                      role[m.srv] = "leader"
               PROVE  FALSE
    BY ZenonT(60) DEF NoSecondLeader
  <1>1. m \in AppendReqs /\ m.srv \in Server /\ m.cli # m.srv
    BY ZenonT(60), MessageFields DEF AppendReqs, ElectionInv, TypeOK, PeersOK
  <1>2. <<m.term, m.cli>> \in elected
    BY ZenonT(60), <1>1 DEF LogInv, RequestsLed
  <1>3. <<m.term, m.srv>> \in elected
    BY ZenonT(60), <1>1, LeaderElected
  <1> QED BY ZenonT(60), <1>1, <1>2, <1>3 DEF ElectionSafety

\* A log whose links ascend is ordered by terms.
LEMMA LinksOrder ==
    ASSUME NatInduces, TypeOK, TermsReached, TermsAscend
    PROVE  LogTermsOrdered
  <1> SUFFICES ASSUME NEW i \in Server, NEW k \in 1..Len(log[i])
               PROVE  /\ log[i][k].term <= term[i]
                      /\ \A j \in 1..k : log[i][j].term <= log[i][k].term
    BY ZenonT(60) DEF LogTermsOrdered
  <1> DEFINE a == log[i]
  <1>1. a \in Seq(Entry) /\ Links(0, 0, a) \subseteq AllLinks
    BY ZenonT(60) DEF TypeOK, AllLinks, LogLinks
  <1>2. \A x \in Links(0, 0, a) : x[2].term <= term[i]
    BY ZenonT(60) DEF TermsReached, LogLinks
  <1>3. k \in 1..Len(a)
    OBVIOUS
  <1> HIDE DEF a
  <1>4. \A x \in 1..Len(a) : a[x].term \in Nat
    <2>1. \A x \in 1..Len(a) : a[x] \in Entry
      BY SMTT(60), <1>1
    <2> QED BY ZenonT(60), <2>1 DEF Entry
  <1>5. ASSUME NEW x \in 1..Len(a)
        PROVE  a[x].term <= term[i] /\ (x # 1 => a[x - 1].term <= a[x].term)
    <2> DEFINE l == <<x, a[x], IF x = 1 THEN 0 ELSE a[x - 1].term>>
    <2>1. l \in Links(0, 0, a)
      BY ZenonT(60), <1>1, LogLink
    <2>2. l[2] = a[x] /\ (x # 1 => l[3] = a[x - 1].term)
      BY ZenonT(60)
    <2> HIDE DEF l
    <2> QED BY ZenonT(60), <1>1, <1>2, <2>1, <2>2 DEF TermsAscend
  <1> DEFINE D == {d \in Nat : d < k => a[k - d].term <= a[k].term}
  <1>6. k \in Nat \ {0} /\ k <= Len(a) /\ Len(a) \in Nat
    BY SMTT(60), <1>1, <1>3
  <1>7. D = Nat
    <2>1. 0 \in D
      <3>1. k - 0 = k /\ a[k].term <= a[k].term
        BY SMTT(60), <1>3, <1>4, <1>6
      <3> QED BY ZenonT(60), <3>1
    <2>2. ASSUME NEW d \in D PROVE d + 1 \in D
      <3>1. d \in Nat /\ d + 1 \in Nat
        BY SMTT(60)
      <3>2. ASSUME d + 1 < k PROVE a[k - (d + 1)].term <= a[k].term
        <4>1. /\ d < k /\ k - d \in 1..Len(a) /\ k - d # 1 /\ (k - d) - 1 = k - (d + 1)
              /\ k - (d + 1) \in 1..Len(a)
          BY SMTT(60), <1>6, <3>1, <3>2
        <4>2. a[k - d].term <= a[k].term
          BY ZenonT(60), <4>1
        <4>3. a[k - (d + 1)].term <= a[k - d].term
          BY ZenonT(60), <1>5, <4>1
        <4>4. a[k].term \in Nat /\ a[k - d].term \in Nat /\ a[k - (d + 1)].term \in Nat
          BY ZenonT(60), <1>3, <1>4, <4>1
        <4> QED BY SMTT(60), <4>2, <4>3, <4>4
      <3> QED BY ZenonT(60), <3>1, <3>2
    <2>3. D \in SUBSET Nat
      BY ZenonT(60)
    <2> HIDE DEF D
    <2> QED BY ZenonT(60), <2>1, <2>2, <2>3 DEF NatInduces
  <1>8. ASSUME NEW j \in 1..k PROVE a[j].term <= a[k].term
    <2>1. k - j \in Nat /\ k - j < k /\ k - (k - j) = j
      BY SMTT(60), <1>6
    <2> QED BY ZenonT(60), <1>7, <2>1
  <1> QED BY ZenonT(60), <1>3, <1>5, <1>8 DEF a

\* Logs whose links agree are equal up to every entry whose terms are.
LEMMA LinksMatch ==
    ASSUME NatInduces, TypeOK, LinksAgree
    PROVE  LogMatching
  <1> SUFFICES ASSUME NEW i \in Server, NEW j \in Server,
                      NEW k \in 1..Min2(Len(log[i]), Len(log[j])),
                      log[i][k].term = log[j][k].term
               PROVE  SubSeq(log[i], 1, k) = SubSeq(log[j], 1, k)
    BY ZenonT(60) DEF LogMatching
  <1> DEFINE a == log[i]
             b == log[j]
  <1>1. a \in Seq(Entry) /\ b \in Seq(Entry)
    BY ZenonT(60) DEF TypeOK
  <1>2. k \in Nat \ {0} /\ k <= Len(a) /\ k <= Len(b)
    BY SMTT(60), <1>1 DEF Min2
  <1>3. Links(0, 0, a) \subseteq AllLinks /\ Links(0, 0, b) \subseteq AllLinks
    BY ZenonT(60) DEF AllLinks, LogLinks
  <1>4. a[k].term = b[k].term
    OBVIOUS
  <1> HIDE DEF a, b
  <1>5. ASSUME NEW x \in 1..k, a[x].term = b[x].term
        PROVE  a[x] = b[x] /\ (x # 1 => a[x - 1].term = b[x - 1].term)
    <2> DEFINE la == <<x, a[x], IF x = 1 THEN 0 ELSE a[x - 1].term>>
               lb == <<x, b[x], IF x = 1 THEN 0 ELSE b[x - 1].term>>
    <2>1. x \in 1..Len(a) /\ x \in 1..Len(b)
      BY SMTT(60), <1>1, <1>2
    <2>2. la \in AllLinks /\ lb \in AllLinks
      BY ZenonT(60), <1>1, <1>3, <2>1, LogLink
    <2>3. la[1] = lb[1] /\ la[2].term = lb[2].term
      BY ZenonT(60), <1>5
    <2>4. la = lb
      <3> HIDE DEF la, lb
      <3> QED BY ZenonT(60), <2>2, <2>3 DEF LinksAgree
    <2> QED BY ZenonT(60), <2>4
  <1> DEFINE D == {d \in Nat : d < k => a[k - d].term = b[k - d].term}
  <1>6. D = Nat
    <2>1. 0 \in D
      <3>1. k - 0 = k
        BY SMTT(60), <1>2
      <3> QED BY ZenonT(60), <1>4, <3>1
    <2>2. ASSUME NEW d \in D PROVE d + 1 \in D
      <3>1. d \in Nat /\ d + 1 \in Nat
        BY SMTT(60)
      <3>2. ASSUME d + 1 < k PROVE a[k - (d + 1)].term = b[k - (d + 1)].term
        <4>1. d < k /\ k - d \in 1..k /\ k - d # 1 /\ (k - d) - 1 = k - (d + 1)
          BY SMTT(60), <1>2, <3>1, <3>2
        <4> QED BY ZenonT(60), <1>5, <4>1
      <3> QED BY ZenonT(60), <3>1, <3>2
    <2>3. D \in SUBSET Nat
      BY ZenonT(60)
    <2> HIDE DEF D
    <2> QED BY ZenonT(60), <2>1, <2>2, <2>3 DEF NatInduces
  <1>7. ASSUME NEW x \in 1..k PROVE a[x] = b[x]
    <2>1. k - x \in Nat /\ k - x < k /\ k - (k - x) = x
      BY SMTT(60), <1>2
    <2>2. a[x].term = b[x].term
      BY ZenonT(60), <1>6, <2>1
    <2> QED BY ZenonT(60), <1>5, <2>2
  <1> QED BY SMTT(60), <1>1, <1>2, <1>7 DEF a, b

-----------------------------------------------------------------------------
(* The hypotheses hold.                                                    *)

INSTANCE FiniteSetTheorems

-----------------------------------------------------------------------------
(* Facts about the largest element of a finite set of numbers.             *)

\* A set of numbers that dominates S and has no dominating part has one element.
LEMMA MaxExists ==
    ASSUME NEW S \in SUBSET Nat, IsFiniteSet(S), S # {}
    PROVE  \E x \in S : \A y \in S : y <= x
  <1> DEFINE Dom == {T \in SUBSET S : \A y \in S : \E x \in T : y <= x}
  <1>1. IsWellFoundedOn(StrictSubsetOrdering(S), SUBSET S)
    BY ZenonT(60), FS_StrictSubsetOrderingWellFounded, FS_FiniteSubsetsOfFinite
  <1>2. Dom \subseteq SUBSET S
    BY ZenonT(60)
  <1>3. S \in Dom
    OBVIOUS
  <1>4. PICK T \in Dom : \A U \in Dom : <<U, T>> \notin StrictSubsetOrdering(S)
    <2> HIDE DEF Dom
    <2> QED BY ZenonT(60), <1>1, <1>2, <1>3, WFMin
  <1>5. PICK x \in T : TRUE
    BY ZenonT(60), <1>4
  <1>6. \A z \in T : z <= x
    <2> SUFFICES ASSUME NEW z \in T, ~(z <= x) PROVE FALSE
      BY ZenonT(60)
    <2> DEFINE U == T \ {x}
    <2>1. x \in Nat /\ z \in Nat /\ x < z /\ z \in U
      BY <1>4
    <2>2. \A y \in S : \E w \in U : y <= w
      <3> SUFFICES ASSUME NEW y \in S PROVE \E w \in U : y <= w
        BY ZenonT(60)
      <3>1. PICK w \in T : y <= w
        BY ZenonT(60), <1>4
      <3>2. CASE w = x
        BY <2>1, <3>1, <3>2
      <3>3. CASE w # x
        BY ZenonT(60), <3>1, <3>3
      <3> QED BY ZenonT(60), <3>2, <3>3
    <2>3. U \in Dom
      BY ZenonT(60), <2>2, <1>4
    <2>4. <<U, T>> \in StrictSubsetOrdering(S)
      BY ZenonT(60), <1>4, <1>5 DEF StrictSubsetOrdering
    <2> QED BY ZenonT(60), <1>4, <2>3, <2>4
  <1>7. \A y \in S : y <= x
    <2> SUFFICES ASSUME NEW y \in S PROVE y <= x
      BY ZenonT(60)
    <2>1. PICK w \in T : y <= w
      BY ZenonT(60), <1>4
    <2>2. w <= x /\ w \in Nat /\ x \in Nat
      BY ZenonT(60), <1>6, <1>4
    <2> QED BY <2>1, <2>2
  <1> QED BY ZenonT(60), <1>4, <1>5, <1>7

\* The smallest element is the one farthest from the largest.
LEMMA MinExists ==
    ASSUME NEW S \in SUBSET Nat, IsFiniteSet(S), S # {}
    PROVE  \E x \in S : \A y \in S : x <= y
  <1>1. PICK b \in S : \A y \in S : y <= b
    BY ZenonT(60), MaxExists
  <1> DEFINE f == [y \in S |-> b - y]
             T == {b - y : y \in S}
  <1>2. T \in SUBSET Nat /\ T # {}
    <2>1. \A y \in S : b - y \in Nat
      BY <1>1
    <2>2. b - b \in T
      BY ZenonT(60)
    <2> QED BY ZenonT(60), <2>1, <2>2
  <1>3. f \in Surjection(S, T)
    <2>1. \A y \in S : b - y \in T /\ f[y] = b - y
      BY ZenonT(60)
    <2>2. \A t \in T : \E y \in S : t = b - y
      BY ZenonT(60)
    <2>3. f \in [S -> T]
      BY ZenonT(60), <2>1
    <2>4. \A t \in T : \E y \in S : f[y] = t
      BY ZenonT(60), <2>1, <2>2
    <2> HIDE DEF f, T
    <2> QED BY ZenonT(60), <2>3, <2>4 DEF Surjection
  <1>4. IsFiniteSet(T)
    <2> HIDE DEF f, T
    <2> QED BY ZenonT(60), <1>3, FS_Surjection
  <1>5. PICK d \in T : \A e \in T : e <= d
    <2> HIDE DEF T
    <2> QED BY ZenonT(60), <1>2, <1>4, MaxExists
  <1>6. PICK x \in S : d = b - x
    BY ZenonT(60), <1>5
  <1>7. ASSUME NEW y \in S PROVE x <= y
    <2>1. b - y <= b - x
      BY ZenonT(60), <1>5, <1>6
    <2>2. b \in Nat /\ x \in Nat /\ y \in Nat
      BY ZenonT(60), <1>1
    <2> QED BY <2>1, <2>2
  <1> QED BY ZenonT(60), <1>7

\* The skip loop stops at a position of the request.
LEMMA SkippedType ==
    ASSUME NEW m \in Message, m.type = "append_req", NEW lg \in Seq(Entry)
    PROVE  Skipped(m, lg) \in 0..Len(m.entries) /\ SameTerms(m, lg, Skipped(m, lg))
  <1> DEFINE S == {n \in 0..Len(m.entries) : SameTerms(m, lg, n)}
  <1>1. Len(m.entries) \in Nat
    BY MessageFields
  <1>2. S \in SUBSET Nat
    BY <1>1
  <1>3. IsFiniteSet(S)
    <2>1. IsFiniteSet(0..Len(m.entries))
      BY SMTT(90), <1>1, FS_Interval
    <2> QED BY ZenonT(60), <2>1, FS_Subset
  <1>4. 0 \in S
    BY <1>1 DEF SameTerms
  <1>5. PICK top \in S : \A k \in S : k <= top
    BY ZenonT(60), <1>2, <1>3, <1>4, MaxExists
  <1>6. \E n \in 0..Len(m.entries) :
            SameTerms(m, lg, n) /\ \A k \in 0..Len(m.entries) : SameTerms(m, lg, k) => k <= n
    BY ZenonT(60), <1>5
  <1> QED BY ZenonT(60), <1>6 DEF Skipped

\* get_expected_committed_log_idx is defined and one of the members' indexes.
LEMMA ExpectedCommittedType ==
    ASSUME NEW i \in Server, NEW mt \in [Server -> Nat],
           precommit_index \in [Server -> Nat]
    PROVE  ExpectedCommitted(i, mt) \in Nat /\ QuorumHas(i, mt, ExpectedCommitted(i, mt))
  <1> DEFINE A == {MemberIdx(i, mt, j) : j \in Server}
             S == {v \in A : QuorumHas(i, mt, v)}
  <1>1. A \in SUBSET Nat
    BY ZenonT(60) DEF MemberIdx
  <1>2. IsFiniteSet(A)
    <2> DEFINE f == [j \in Server |-> MemberIdx(i, mt, j)]
    <2>1. f \in Surjection(Server, A)
      BY ZenonT(60) DEF Surjection
    <2> QED BY ZenonT(60), <2>1, ServerAssumption, FS_Surjection DEF ExistsSurjection
  <1>3. IsFiniteSet(S)
    BY ZenonT(60), <1>2, FS_Subset
  <1>4. S # {}
    <2>1. A # {}
      BY ZenonT(60), ServerAssumption, FS_EmptySet
    <2>2. PICK lo \in A : \A v \in A : lo <= v
      BY ZenonT(60), <1>1, <1>2, <2>1, MinExists
    <2>3. {j \in Server : MemberIdx(i, mt, j) >= lo} = Server
      <3>1. \A j \in Server : MemberIdx(i, mt, j) \in A
        BY ZenonT(60)
      <3>2. \A v \in A : v >= lo
        BY ZenonT(60), <1>1, <2>2
      <3> QED BY ZenonT(60), <3>1, <3>2
    <2>4. QuorumHas(i, mt, lo)
      <3>1. Cardinality(Server) \in Nat
        BY ZenonT(60), ServerAssumption, FS_CardinalityType
      <3>2. Cardinality(Server) >= (Cardinality(Server) \div 2) + 1
        BY <3>1, ServerAssumption
      <3> QED BY ZenonT(60), <2>3, <3>2 DEF QuorumHas, QuorumSize
    <2> QED BY ZenonT(60), <2>2, <2>4
  <1>5. PICK v \in S : \A w \in S : w <= v
    BY ZenonT(60), <1>1, <1>3, <1>4, MaxExists
  <1>6. \E x \in A : QuorumHas(i, mt, x) /\ \A w \in A : QuorumHas(i, mt, w) => w <= x
    BY ZenonT(60), <1>5
  <1>7. ExpectedCommitted(i, mt) \in A /\ QuorumHas(i, mt, ExpectedCommitted(i, mt))
    BY ZenonT(60), <1>6 DEF ExpectedCommitted
  <1> QED BY ZenonT(60), <1>1, <1>7

\* A set of numbers that holds 0 and each successor is Nat.
LEMMA SetInduction ==
    ASSUME NEW S \in SUBSET Nat, 0 \in S, \A n \in S : n + 1 \in S
    PROVE  S = Nat
  <1> SUFFICES ASSUME NEW T, T = Nat \ S, T # {} PROVE FALSE
    BY ZenonT(60)
  <1>1. IsWellFoundedOn(OpToRel(<, Nat), Nat)
    BY NatLessThanWellFounded
  <1>2. PICK x \in T : \A y \in T : ~(<<y, x>> \in OpToRel(<, Nat))
    BY <1>1, WFMin
  <1>3. x \in Nat /\ x # 0
    BY ZenonT(60)
  <1>4. x - 1 \in Nat /\ x - 1 < x /\ (x - 1) + 1 = x
    BY SMTT(60), <1>3
  <1>5. x - 1 \in S
    BY ZenonT(60), <1>2, <1>3, <1>4 DEF OpToRel
  <1> QED BY ZenonT(60), <1>4, <1>5

-----------------------------------------------------------------------------
(* The hypotheses hold.                                                    *)

\* A fixed, finite membership: sets of servers have sizes.
LEMMA ServerSetsHold == ServerSets
  <1>1. IsFiniteSet(Server) /\ Cardinality(Server) \in Nat
    BY ZenonT(60), ServerAssumption, FS_CardinalityType
  <1>2. QuorumSize \in Nat
    BY SMTT(30), <1>1 DEF QuorumSize
  <1>3. ASSUME NEW S \in SUBSET Server
        PROVE  IsFiniteSet(S) /\ Cardinality(S) \in Nat
    <2>1. IsFiniteSet(S)
      BY ZenonT(60), <1>1, FS_Subset
    <2> QED BY ZenonT(60), <2>1, FS_CardinalityType
  <1>4. ASSUME NEW S \in SUBSET Server, NEW T \in SUBSET Server, S \subseteq T
        PROVE  Cardinality(S) <= Cardinality(T)
    BY ZenonT(60), <1>3, <1>4, FS_Subset
  <1>5. ASSUME NEW S \in SUBSET Server, NEW x \in Server \ S
        PROVE  Cardinality(S \cup {x}) = Cardinality(S) + 1
    BY ZenonT(60), <1>3, <1>5, FS_AddElement
  <1>6. ASSUME NEW x \in Server PROVE Cardinality({x}) = 1
    BY ZenonT(60), FS_Singleton
  <1> QED BY ZenonT(60), <1>2, <1>3, <1>4, <1>5, <1>6 DEF ServerSets

\* Induction, for the argument back along two logs.
LEMMA NatInducesHolds == NatInduces
  BY ZenonT(60), SetInduction DEF NatInduces

\* handle_append_entries always finds where to stop skipping.
LEMMA SkipDefinedHolds == SkipDefined
  BY ZenonT(60), SkippedType DEF SkipDefined

\* get_expected_committed_log_idx always finds an index.
LEMMA ExpectedDefinedHolds == TypeOK => ExpectedDefined
  <1> SUFFICES ASSUME TypeOK PROVE ExpectedDefined
    BY ZenonT(60)
  <1>1. precommit_index \in [Server -> Nat]
    BY ZenonT(60) DEF TypeOK
  <1> QED BY ZenonT(60), <1>1, ExpectedCommittedType DEF ExpectedDefined

-----------------------------------------------------------------------------
(* What the invariant says about leaders.                                  *)

\* The majorities of two leaders of a term have a voter in common.
LEMMA MajoritiesMeet ==
    ASSUME ElectionInv
    PROVE  ElectionSafety
  <1> SUFFICES ASSUME NEW a \in elected, NEW b \in elected, a[1] = b[1]
               PROVE  a[2] = b[2]
    BY ZenonT(60) DEF ElectionSafety
  <1> DEFINE S == Voters(a[1], a[2])
             T == Voters(b[1], b[2])
  <1>1. S \subseteq Server /\ T \subseteq Server
    BY ZenonT(60) DEF Voters
  <1>2. Cardinality(S) >= QuorumSize + 1 /\ Cardinality(T) >= QuorumSize + 1
    BY ZenonT(60) DEF ElectionInv, ElectedByMajority
  <1>3. IsFiniteSet(Server) /\ IsFiniteSet(S) /\ IsFiniteSet(T)
    BY ZenonT(60), <1>1, ServerAssumption, FS_Subset
  <1>4. Cardinality(Server) \in Nat /\ Cardinality(S) \in Nat /\ Cardinality(T) \in Nat
    BY ZenonT(60), <1>3, FS_CardinalityType
  <1>5. Cardinality(S) + Cardinality(T) > Cardinality(Server)
    BY SMTT(90), <1>2, <1>4 DEF QuorumSize
  <1> HIDE DEF S, T
  <1>6. PICK j \in S : j \in T
    BY ZenonT(60), <1>1, <1>3, <1>5, FS_MajoritiesIntersect
  <1>7. <<a[1], j, a[2]>> \in ballots /\ <<b[1], j, b[2]>> \in ballots
    BY ZenonT(60), <1>6 DEF S, T, Voters
  <1>8. VoteOnce
    BY ZenonT(60) DEF ElectionInv
  <1> QED BY ZenonT(60), <1>7, <1>8 DEF VoteOnce

-----------------------------------------------------------------------------
(* The theorems.                                                           *)

\* The election invariant holds in every reachable state.
THEOREM ElectionInvariant == Spec => []ElectionInv
  <1>1. Init => ElectionInv
    BY ZenonT(60), ServerSetsHold, InitElectionInv
  <1>2. ElectionInv /\ [Next]_vars => ElectionInv'
    <2>1. ElectionInv => ExpectedDefined
      BY ZenonT(60), ExpectedDefinedHolds DEF ElectionInv
    <2> QED BY ZenonT(60), <2>1, ServerSetsHold, SkipDefinedHolds, NextElectionInv
  <1> QED BY <1>1, <1>2, PTL DEF Spec

\* The members of raft_server, srv_state and peer keep their types.
THEOREM TypeCorrect == Spec => []TypeOK
  <1>1. ElectionInv => TypeOK
    BY ZenonT(60) DEF ElectionInv
  <1> QED BY <1>1, ElectionInvariant, PTL

\* handle_vote_req and initiate_vote give one vote per term, crashes included.
THEOREM VotesOnce == Spec => []VoteOnce
  <1>1. ElectionInv => VoteOnce
    BY ZenonT(60) DEF ElectionInv
  <1> QED BY <1>1, ElectionInvariant, PTL

\* become_leader runs on one server per term at most.
THEOREM OneLeaderPerTerm == Spec => []ElectionSafety
  <1>1. ElectionInv => ElectionSafety
    BY ZenonT(60), MajoritiesMeet
  <1> QED BY <1>1, ElectionInvariant, PTL

\* Entries, requests under way and elections agree in every reachable state.
THEOREM RaftInvariant == Spec => []RaftInv
  <1>1. Init => LogInv
    BY ZenonT(60), InitLogInv
  <1>2. ElectionInv /\ ElectionInv' /\ ElectionSafety' /\ LogInv /\ [Next]_vars => LogInv'
    BY ZenonT(60), SkipDefinedHolds, NextLogInv
  <1>3. RaftInv <=> ElectionInv /\ LogInv
    BY ZenonT(60) DEF RaftInv
  <1> QED BY <1>1, <1>2, <1>3, ElectionInvariant, OneLeaderPerTerm, PTL DEF Spec

\* Two logs that agree on the term of an entry agree up to it, however many
\* servers there are and however late requests arrive: handle_append_entries may
\* skip the entries whose terms are equal.
THEOREM LogsMatch == Spec => []LogMatching
  <1>1. RaftInv => LogMatching
    BY ZenonT(60), NatInducesHolds, LinksMatch DEF RaftInv, LogInv, ElectionInv
  <1> QED BY <1>1, RaftInvariant, PTL

\* No leader gets an append request of its own term from another server: the branch
\* of handle_append_entries that calls it a bug is never taken.
THEOREM OnlyOneLeads == Spec => []NoSecondLeader
  <1>1. RaftInv /\ ElectionSafety => NoSecondLeader
    BY ZenonT(60), NoRequestOfOwnTerm DEF RaftInv
  <1> QED BY <1>1, RaftInvariant, OneLeaderPerTerm, PTL

\* Logs are ordered by term and never ahead of their server's term, which lets
\* handle_vote_req compare last entries only.
THEOREM LogsOrdered == Spec => []LogTermsOrdered
  <1>1. RaftInv => LogTermsOrdered
    BY ZenonT(60), NatInducesHolds, LinksOrder DEF RaftInv, LogInv, ElectionInv
  <1> QED BY <1>1, RaftInvariant, PTL

\* A leader only appends to its log, and terms never go back, restarts included.
THEOREM LeadersAppend == Spec => LeaderAppendOnly
  <1>1. /\ RaftInv /\ RaftInv' /\ ElectionSafety' /\ [Next]_vars
        => LeaderAppends
    BY ZenonT(60), SkipDefinedHolds, NextLogInv DEF RaftInv
  <1>2. /\ RaftInv /\ RaftInv' /\ ElectionSafety' /\ [Next]_vars
        => [LeaderAppends]_vars
    BY ZenonT(60), <1>1
  <1> QED BY <1>2, RaftInvariant, OneLeaderPerTerm, PTL DEF Spec, LeaderAppendOnly

=============================================================================
