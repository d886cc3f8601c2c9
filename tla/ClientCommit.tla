---------------------------- MODULE ClientCommit ----------------------------
(***************************************************************************)
(* How one raft_server answers the requests of its clients: the threads    *)
(* that call append_entries (handle_cli_req and its callback), the commit  *)
(* thread (commit_in_bg_exec, commit_app_log), and the handlers that       *)
(* change the role, append a configuration or commit, all meeting in       *)
(* commit_ret_elems_.                                                      *)
(*                                                                         *)
(* The locks of the code: lock_ serialises the handlers (`handler`),       *)
(* cli_lock_ is the variable cli_lock, a section under                     *)
(* commit_ret_elems_lock_ is one step.  The commit thread holds neither of *)
(* the first two.  The other members of the cluster are what they may do   *)
(* to this log: commit a prefix of it, and overwrite the rest of it while  *)
(* this server is not the leader.                                          *)
(***************************************************************************)
EXTENDS Integers, Sequences, FiniteSets

CONSTANTS
    Client,          \* the threads that call append_entries once each
    BatchSize,       \* entries in a request
    ReturnMethod,    \* the values of raft_params::return_method_ considered
    Timeouts,        \* client_req_timeout_ is not zero
    None,            \* no thread
    Conf,            \* payload of a configuration entry
    Other,           \* payload of another leader's application entry
    MaxRoleChanges,  \* bound: calls of become_leader and update_term
    MaxOther,        \* bound: append requests of other leaders
    MaxConf          \* bound: configuration changes by this leader

ASSUME ClientAssumption == IsFiniteSet(Client) /\ {None, Conf, Other} \cap Client = {}
ASSUME LockAssumption == "handler" \notin Client \cup {None}
ASSUME BatchAssumption == BatchSize \in Nat \ {0}
ASSUME OptionAssumption ==
    ReturnMethod \subseteq {"blocking", "async_handler"} /\ Timeouts \in BOOLEAN
ASSUME BoundAssumption == {MaxRoleChanges, MaxOther, MaxConf} \subseteq Nat

VARIABLES
    return_method, \* raft_params::return_method_, the same for the life of the server
    leader,      \* role_ = srv_role::leader
    log,         \* log_store_: log[k] is the client whose entry is at k, or Conf, or Other
    precommit,   \* precommit_index_
    quick,       \* quick_commit_index_
    sm,          \* sm_commit_index_
    cli_lock,    \* the holder of cli_lock_: a client, "handler" or None
    handler,     \* what the handler that holds lock_ still has to do
    elem,        \* every commit_ret_elem made so far, by number
    elems,       \* commit_ret_elems_: log index -> number of an elem
    client,      \* per client: control state, entries written, elem, result
    committer,   \* the commit thread: control state and local variables
    used,        \* history: how much of each bound is used up
    precommitted,\* history: indexes that the state machine has pre-committed
    executed     \* history: <<index, entry>> that the state machine has committed

logVars == <<log, precommit, quick>>
vars == <<return_method, leader, logVars, sm, cli_lock, handler, elem, elems, client, committer,
          used, precommitted, executed>>

-----------------------------------------------------------------------------
Min2(a, b) == IF a <= b THEN a ELSE b
Max2(a, b) == IF a >= b THEN a ELSE b

Max(S) == CHOOSE x \in S : \A y \in S : y <= x

Async == return_method = "async_handler"

Code == {"OK", "TIMEOUT", "CANCELLED"}

\* commit_ret_elem: `value` says that ret_value_ is set, `ready` that awaiter_
\* was invoked, `async` what its async_result_ holds ("null" when there is none).
Elem(i, c, v, r, a) ==
    [idx |-> i, code |-> c, value |-> v, ready |-> r, async |-> a,
     callback_invoked |-> FALSE]

\* The map f with k -> v, and without k.
Put(f, k, v) == [x \in DOMAIN f \cup {k} |-> IF x = k THEN v ELSE f[x]]
Erase(f, k) == [x \in DOMAIN f \ {k} |-> f[x]]

Empty == [x \in {} |-> 0]

\* A handler between two of its steps: what is left to do, and an index for it.
Busy(what, i) == [todo |-> what, idx |-> i]
Free == Busy("nothing", 0)

Idle == [pc |-> "idle", need |-> FALSE, idx |-> 0, pc_idx |-> 0, todo |-> 0]

Init ==
    /\ return_method \in ReturnMethod
    /\ leader = FALSE
    /\ log = <<>>
    /\ precommit = 0
    /\ quick = 0
    /\ sm = 0
    /\ cli_lock = None
    /\ handler = Free
    /\ elem = <<>>
    /\ elems = Empty
    /\ client = [c \in Client |-> [pc |-> "idle", wrote |-> {}, batch |-> {}, elem |-> 0,
                                   value |-> FALSE, result |-> "none"]]
    /\ committer = Idle
    /\ used = [roles |-> 0, other |-> 0, conf |-> 0]
    /\ precommitted = {}
    /\ executed = {}

-----------------------------------------------------------------------------
(* A client's thread.                                                      *)

To(c, r) == client' = [client EXCEPT ![c] = r]

\* handle_cli_req on a server that is not the leader.
NotLeader(c) ==
    /\ client[c].pc = "idle"
    /\ cli_lock = None
    /\ ~leader
    /\ To(c, [client[c] EXCEPT !.pc = "done", !.result = "NOT_LEADER"])
    /\ UNCHANGED <<return_method, leader, logVars, sm, cli_lock, handler, elem, elems,
                   committer, used, precommitted, executed>>

\* handle_cli_req stores the next entry of its batch; the first one is stored
\* after cli_lock_ was taken and the role was checked.
StoreEntry(c) ==
    /\ \/ client[c].pc = "idle" /\ cli_lock = None /\ leader
       \/ client[c].pc = "store"
    /\ cli_lock' = c
    /\ log' = Append(log, c)
    /\ To(c, [client[c] EXCEPT !.pc = "stored", !.wrote = @ \cup {Len(log) + 1}])
    /\ UNCHANGED <<return_method, leader, precommit, quick, sm, handler, elem, elems,
                   committer, used, precommitted, executed>>

\* handle_cli_req pre-commits the entry; after the last one it ends the batch
\* and moves precommit_index_.
PreCommitEntry(c) ==
    LET r == client[c]
        last == Max(r.wrote)
        n == Cardinality(r.wrote)
    IN  /\ r.pc = "stored"
        /\ precommitted' = precommitted \cup {last}
        /\ IF n < BatchSize
             THEN To(c, [r EXCEPT !.pc = "store"]) /\ UNCHANGED precommit
             ELSE /\ To(c, [r EXCEPT !.pc = "insert", !.batch = last - n + 1 .. last])
                  /\ precommit' = Max2(precommit, last)
        /\ UNCHANGED <<return_method, leader, log, quick, sm, cli_lock, handler, elem, elems,
                       committer, used, executed>>

\* Mutant of NewElem: result_code_ keeps the default of its constructor.
NewElemOk(i) == Elem(i, "OK", FALSE, FALSE, IF Async THEN "empty" ELSE "null")

\* The elem of a client that the commit thread has not overtaken.
NewElem(i) == Elem(i, "TIMEOUT", FALSE, FALSE, IF Async THEN "empty" ELSE "null")

\* The end of handle_cli_req: the elem for the last index, which the commit
\* thread may have made already, and the release of cli_lock_.
InsertElem(c) ==
    LET r == client[c]
        i == Max(r.wrote)
        e == IF i \in DOMAIN elems THEN elems[i] ELSE Len(elem) + 1
    IN  /\ r.pc = "insert"
        /\ IF i \in DOMAIN elems
             THEN elem' = [elem EXCEPT ![e].async =
                             IF Async /\ @ = "null" THEN "empty" ELSE @]
                  /\ UNCHANGED elems
             ELSE /\ elem' = Append(elem, NewElem(i))
                  /\ elems' = Put(elems, i, e)
        /\ cli_lock' = None
        /\ To(c, [r EXCEPT !.pc = "wait", !.elem = e])
        /\ UNCHANGED <<return_method, leader, logVars, sm, handler, committer, used,
                       precommitted, executed>>

\* handle_cli_req_callback: the awaiter was invoked, or the wait timed out.
Wake(c) ==
    LET r == client[c]
    IN  /\ r.pc = "wait"
        /\ ~Async
        /\ elem[r.elem].ready \/ Timeouts
        /\ To(c, [r EXCEPT !.pc = "awake"])
        /\ UNCHANGED <<return_method, leader, logVars, sm, cli_lock, handler, elem, elems,
                       committer, used, precommitted, executed>>

\* The section of handle_cli_req_callback under commit_ret_elems_lock_.
TakeResult(c) ==
    LET r == client[c]
        e == elem[r.elem]
    IN  /\ r.pc = "awake"
        /\ elem' = [elem EXCEPT ![r.elem].callback_invoked = TRUE]
        /\ elems' = IF e.code # "TIMEOUT" THEN Erase(elems, e.idx) ELSE elems
        /\ To(c, [r EXCEPT !.pc = "leave", !.value = e.value])
        /\ UNCHANGED <<return_method, leader, logVars, sm, cli_lock, handler, committer, used,
                       precommitted, executed>>

\* The end of handle_cli_req_callback: result_code_ is read without the lock.
Return(c) ==
    LET r == client[c]
    IN  /\ r.pc = "leave"
        /\ To(c, [r EXCEPT !.pc = "done", !.result = elem[r.elem].code])
        /\ UNCHANGED <<return_method, leader, logVars, sm, cli_lock, handler, elem, elems,
                       committer, used, precommitted, executed>>

\* when_ready of the async result: the handler runs once there is a result.
RunHandler(c) ==
    LET r == client[c]
    IN  /\ r.pc = "wait"
        /\ Async
        /\ elem[r.elem].async \in {"OK", "CANCELLED"}
        /\ To(c, [r EXCEPT !.pc = "done", !.result = elem[r.elem].async])
        /\ UNCHANGED <<return_method, leader, logVars, sm, cli_lock, handler, elem, elems,
                       committer, used, precommitted, executed>>

-----------------------------------------------------------------------------
(* The commit thread.                                                      *)

\* commit_in_bg_exec starts; whether results matter is decided here, once.
StartExec ==
    /\ committer.pc = "idle"
    /\ sm < quick
    /\ sm < Len(log)
    /\ committer' = [Idle EXCEPT !.pc = "loop", !.need = leader]
    /\ UNCHANGED <<return_method, leader, logVars, sm, cli_lock, handler, elem, elems, client,
                   used, precommitted, executed>>

\* The loop ends when everything committed was executed.
EndExec ==
    /\ committer.pc = "loop"
    /\ ~(sm < quick /\ sm < Len(log))
    /\ committer' = Idle
    /\ UNCHANGED <<return_method, leader, logVars, sm, cli_lock, handler, elem, elems, client,
                   used, precommitted, executed>>

\* commit_app_log up to commit_ext, or commit_conf.
Execute ==
    /\ committer.pc = "loop"
    /\ sm < quick
    /\ sm < Len(log)
    /\ executed' = executed \cup {<<sm + 1, log[sm + 1]>>}
    /\ committer' = [committer EXCEPT
                       !.pc = IF log[sm + 1] # Conf /\ committer.need
                                THEN "answer" ELSE "advance",
                       !.idx = sm + 1,
                       !.pc_idx = precommit]
    /\ UNCHANGED <<return_method, leader, logVars, sm, cli_lock, handler, elem, elems, client,
                   used, precommitted>>

\* The section of commit_app_log that finds an elem of the index i.  A client
\* that has timed out left its elem behind; an asynchronous result is set
\* later, outside the lock.
AnswerFound(i) ==
    LET e == elems[i]
        gone == elem[e].callback_invoked
    IN  /\ elem' = [elem EXCEPT ![e] = [elem[e] EXCEPT
                                  !.code = "OK", !.value = TRUE,
                                  !.ready = elem[e].ready \/ ~(Async \/ gone)]]
        /\ elems' = IF Async \/ gone THEN Erase(elems, i) ELSE elems
        /\ committer' = IF Async THEN [committer EXCEPT !.pc = "notify", !.todo = e]
                        ELSE [committer EXCEPT !.pc = "advance"]

\* The elem that the commit thread makes when it is ahead of the client.
EarlyElem(i) == Elem(i, "OK", TRUE, ~Async, IF Async THEN "OK" ELSE "null")

\* Mutant of AnswerAbsent: the commit thread leaves the elem to the client.
AnswerNobody(i) ==
    /\ committer' = [committer EXCEPT !.pc = "advance"]
    /\ UNCHANGED <<elem, elems>>

\* The section of commit_app_log that finds none: if the index is the last
\* pre-committed one, its client may come later.
AnswerAbsent(i) ==
    /\ committer' = [committer EXCEPT !.pc = "advance"]
    /\ IF i = committer.pc_idx
         THEN /\ elem' = Append(elem, EarlyElem(i))
              /\ elems' = Put(elems, i, Len(elem) + 1)
         ELSE UNCHANGED <<elem, elems>>

Answer ==
    /\ committer.pc = "answer"
    /\ IF committer.idx \in DOMAIN elems THEN AnswerFound(committer.idx)
                                         ELSE AnswerAbsent(committer.idx)
    /\ UNCHANGED <<return_method, leader, logVars, sm, cli_lock, handler, client, used,
                   precommitted, executed>>

\* The end of commit_app_log: the handlers are called outside the lock.
Notify ==
    /\ committer.pc = "notify"
    /\ elem' = [elem EXCEPT ![committer.todo].async = "OK"]
    /\ committer' = [committer EXCEPT !.pc = "advance", !.todo = 0]
    /\ UNCHANGED <<return_method, leader, logVars, sm, cli_lock, handler, elems, client, used,
                   precommitted, executed>>

\* sm_commit_index_ moves by compare-and-exchange.
Advance ==
    /\ committer.pc = "advance"
    /\ sm' = IF sm = committer.idx - 1 THEN committer.idx ELSE sm
    /\ committer' = [committer EXCEPT !.pc = "loop"]
    /\ UNCHANGED <<return_method, leader, logVars, cli_lock, handler, elem, elems, client,
                   used, precommitted, executed>>

-----------------------------------------------------------------------------
(* The handlers, under lock_.                                              *)

Use(what, bound) ==
    /\ used[what] < bound
    /\ used' = [used EXCEPT ![what] = @ + 1]

\* become_leader takes the role and, still under cli_lock_, appends a
\* configuration: two steps, for the commit thread may run between them.
BecomeLeader ==
    /\ handler = Free
    /\ cli_lock = None
    /\ ~leader
    /\ Use("roles", MaxRoleChanges)
    /\ leader' = TRUE
    /\ precommit' = Len(log)
    /\ cli_lock' = "handler"
    /\ handler' = Busy("append_conf", 0)
    /\ UNCHANGED <<return_method, log, quick, sm, elem, elems, client, committer, precommitted,
                   executed>>

AppendLeaderConf ==
    /\ handler.todo = "append_conf"
    /\ log' = Append(log, Conf)
    /\ precommit' = Len(log) + 1
    /\ precommitted' = precommitted \cup {Len(log) + 1}
    /\ cli_lock' = None
    /\ handler' = Free
    /\ UNCHANGED <<return_method, leader, quick, sm, elem, elems, client, committer, used,
                   executed>>

\* update_term gives the role up under cli_lock_ ...
UpdateTerm ==
    /\ handler = Free
    /\ cli_lock = None
    /\ Use("roles", MaxRoleChanges)
    /\ leader' = FALSE
    /\ handler' = Busy("drop", 0)
    /\ UNCHANGED <<return_method, logVars, sm, cli_lock, elem, elems, client, committer,
                   precommitted, executed>>

\* Mutant of Cancelled: the elems are only forgotten.
CancelledSilently(e) == e

\* An elem of drop_all_pending_commit_elems.
Cancelled(e) ==
    IF Async THEN [e EXCEPT !.async = "CANCELLED"]
    ELSE [e EXCEPT !.code = "CANCELLED", !.value = FALSE, !.ready = TRUE]

\* ... and become_follower drops every pending elem.
BecomeFollower ==
    /\ handler.todo = "drop"
    /\ cli_lock = None
    /\ elem' = [n \in DOMAIN elem |->
                  IF \E i \in DOMAIN elems : elems[i] = n THEN Cancelled(elem[n]) ELSE elem[n]]
    /\ elems' = Empty
    /\ handler' = Free
    /\ UNCHANGED <<return_method, leader, logVars, sm, cli_lock, client, committer, used,
                   precommitted, executed>>

\* A configuration change of the leader: store_log_entry appends it without
\* cli_lock_ ...
StoreConf ==
    /\ handler = Free
    /\ leader
    /\ Use("conf", MaxConf)
    /\ log' = Append(log, Conf)
    /\ precommitted' = precommitted \cup {Len(log) + 1}
    /\ handler' = Busy("precommit", Len(log) + 1)
    /\ UNCHANGED <<return_method, leader, precommit, quick, sm, cli_lock, elem, elems, client,
                   committer, executed>>

\* Mutant of PreCommitConf: cli_lock_ is not waited for.
PreCommitConfUnlocked ==
    /\ handler.todo = "precommit"
    /\ precommit' = Max2(precommit, handler.idx)
    /\ handler' = Free
    /\ UNCHANGED <<return_method, leader, log, quick, sm, cli_lock, elem, elems, client,
                   committer, used, precommitted, executed>>

\* ... and takes it before it moves precommit_index_.
PreCommitConf ==
    /\ handler.todo = "precommit"
    /\ cli_lock = None
    /\ precommit' = Max2(precommit, handler.idx)
    /\ handler' = Free
    /\ UNCHANGED <<return_method, leader, log, quick, sm, cli_lock, elem, elems, client,
                   committer, used, precommitted, executed>>

\* handle_append_entries of another leader's request: what is not committed
\* may be overwritten.
AppendOther(k) ==
    /\ handler = Free
    /\ ~leader
    /\ k \in quick..Len(log)
    /\ Use("other", MaxOther)
    /\ log' = Append(SubSeq(log, 1, k), Other)
    /\ precommitted' = {i \in precommitted : i <= k} \cup {k + 1}
    /\ precommit' = Max2(precommit, k + 1)
    /\ UNCHANGED <<return_method, leader, quick, sm, cli_lock, handler, elem, elems, client,
                   committer, executed>>

\* commit(): a quorum has the log up to k.  Nothing beyond precommit_index_ is
\* ever sent.
Commit(k) ==
    /\ handler = Free
    /\ k \in quick + 1 .. Min2(precommit, Len(log))
    /\ quick' = k
    /\ UNCHANGED <<return_method, leader, log, precommit, sm, cli_lock, handler, elem, elems,
                   client, committer, used, precommitted, executed>>

-----------------------------------------------------------------------------
ClientStep(c) ==
    \/ NotLeader(c)
    \/ StoreEntry(c)
    \/ PreCommitEntry(c)
    \/ InsertElem(c)
    \/ Wake(c)
    \/ TakeResult(c)
    \/ Return(c)
    \/ RunHandler(c)

CommitterStep == StartExec \/ EndExec \/ Execute \/ Answer \/ Notify \/ Advance

\* What a handler that holds lock_ does until it releases it.
HandlerStep == AppendLeaderConf \/ BecomeFollower \/ PreCommitConf

Next ==
    \/ \E c \in Client : ClientStep(c)
    \/ CommitterStep
    \/ HandlerStep
    \/ BecomeLeader
    \/ UpdateTerm
    \/ StoreConf
    \/ \E k \in 0..Len(log) : AppendOther(k) \/ Commit(k)

Spec == Init /\ [][Next]_vars

\* Threads run when they can.  Nothing is assumed of elections or of the
\* other members.
FairSpec ==
    /\ Spec
    /\ \A c \in Client : WF_vars(ClientStep(c))
    /\ WF_vars(CommitterStep)
    /\ WF_vars(HandlerStep)

-----------------------------------------------------------------------------
(* Properties.                                                             *)

ClientState == {"idle", "store", "stored", "insert", "wait", "awake", "leave", "done"}

ElemType == [idx : Nat \ {0}, code : Code, value : BOOLEAN, ready : BOOLEAN,
             async : {"null", "empty", "OK", "CANCELLED"}, callback_invoked : BOOLEAN]

ClientType == [pc : ClientState, wrote : SUBSET Nat, batch : SUBSET Int, elem : Nat,
               value : BOOLEAN, result : Code \cup {"none", "NOT_LEADER"}]

CommitterType == [pc : {"idle", "loop", "answer", "notify", "advance"}, need : BOOLEAN,
                  idx : Nat, pc_idx : Nat, todo : Nat]

HandlerType == [todo : {"nothing", "append_conf", "drop", "precommit"}, idx : Nat]

\* Type invariant of commit_ret_elems_, its elems and the threads around it.
TypeOK ==
    /\ return_method \in ReturnMethod
    /\ leader \in BOOLEAN
    /\ log \in Seq(Client \cup {Conf, Other})
    /\ precommit \in Nat /\ quick \in Nat /\ sm \in Nat
    /\ cli_lock \in Client \cup {"handler", None}
    /\ handler \in HandlerType
    /\ elem \in Seq(ElemType)
    /\ \A i \in DOMAIN elems : elems[i] \in DOMAIN elem /\ elem[elems[i]].idx = i
    /\ client \in [Client -> ClientType]
    /\ committer \in CommitterType
    /\ committer.todo \in 0..Len(elem)

\* A request is answered OK only when the state machine of this server has
\* committed that very request at its index (handle_cli_req_callback and
\* commit_app_log find each other by index alone, and indexes are used again
\* after a rollback).
OkMeansExecuted ==
    \A c \in Client : client[c].result = "OK" => <<Max(client[c].wrote), c>> \in executed

\* The state machine commits an entry only after its pre_commit (the race of
\* client appends and configuration changes that store_log_entry describes).
PreCommitFirst ==
    committer.pc \in {"answer", "notify", "advance"} =>
        committer.idx \in precommitted /\ committer.idx <= precommit

\* No step of the commit thread or of become_follower is lost on a client that
\* waits: its elem is in commit_ret_elems_, or the answer is there or on its way.
WaiterReachable ==
    \A c \in Client : client[c].pc = "wait" =>
        LET e == client[c].elem
        IN  \/ \E i \in DOMAIN elems : elems[i] = e
            \/ elem[e].ready
            \/ elem[e].async \in {"OK", "CANCELLED"}
            \/ committer.pc = "notify" /\ committer.todo = e

\* "will return after it is committed in leader node" (raft_params,
\* return_method_type): once the entry of a client is executed, the client gets
\* an answer, in the asynchronous mode as well as in the blocking one.
CommittedIsAnswered ==
    \A c \in Client :
        (client[c].wrote # {} /\ <<Max(client[c].wrote), c>> \in executed)
            ~> client[c].pc = "done"

\* "Null `ret_value`, most likely timeout" (handle_cli_req_callback): an answer
\* OK carries the value that the state machine returned.
OkHasValue ==
    \A c \in Client : ~Async /\ client[c].result = "OK" => client[c].value

\* "Drain all pending callback functions" (become_follower): only a pending
\* result is cancelled; one that the client was given stays what it is.
ResultStays ==
    [][\A n \in DOMAIN elem : elem[n].async = "OK" => elem'[n].async = "OK"]_vars

\* "Invoked after a batch of logs is written": end_of_append_batch is told of
\* the entries that the request wrote (log_store.h: start and cnt).
BatchIsWhatWasWritten ==
    \A c \in Client : client[c].batch # {} => client[c].batch = client[c].wrote

-----------------------------------------------------------------------------
(* Why OkMeansExecuted and PreCommitFirst hold.                            *)

Writing == {"store", "stored", "insert"}
Waiting == {"wait", "awake", "leave"}
Executing == {"answer", "notify", "advance"}

\* Who is inside handle_cli_req holds cli_lock_, so does become_leader, and the
\* role does not change under them.
LockInv ==
    /\ \A c \in Client : cli_lock = c <=> client[c].pc \in Writing
    /\ cli_lock = "handler" <=> handler.todo = "append_conf"
    /\ cli_lock # None => leader

\* What the thread of handle_cli_req knows of the entries it has stored.
WroteInv(c) ==
    LET r == client[c]
    IN  /\ r.pc = "idle" => r.wrote = {}
        /\ r.pc \in Writing => r.wrote \subseteq 1..Len(log)
        /\ r.pc \in {"stored", "insert"} =>
             Max(r.wrote) \in 1..Len(log) /\ log[Max(r.wrote)] = c
        /\ r.pc = "stored" => precommit < Max(r.wrote)

\* The index i is pre-committed, or a client is about to do that.
Covered(i) ==
    \/ i \in precommitted
    \/ \E c \in Client : client[c].pc = "stored" /\ Max(client[c].wrote) = i

\* What is stored is pre-committed, but for the entry that a client has just
\* stored, and that one is above precommit_index_, hence not committed.
PreCommitInv ==
    /\ quick <= precommit /\ quick <= Len(log)
    /\ leader => precommit <= Len(log)
    /\ handler.todo = "precommit" => handler.idx <= Len(log)
    /\ \A c \in Client : WroteInv(c)
    /\ \A i \in 1..Len(log) : Covered(i)
    /\ committer.pc \in Executing => committer.idx \in 1..quick

\* The commit thread has answered, or is about to answer, through the elem e.
Answered(e) ==
    \/ elem[e].code = "OK"
    \/ elem[e].async = "OK"
    \/ committer.pc = "notify" /\ committer.todo = e

\* An elem of commit_ret_elems_ belongs to the client whose entry is at its
\* index, and is answered only after that entry was executed.
ElemInv(i) ==
    /\ \A c \in Client : client[c].elem = elems[i] => log[i] = c /\ Max(client[c].wrote) = i
    /\ Answered(elems[i]) => i <= quick /\ <<i, log[i]>> \in executed

\* A client that waits is answered only after its entry was executed.
WaiterInv(c) ==
    LET r == client[c]
    IN  /\ r.elem <= Len(elem)
        /\ r.pc \in {"idle"} \cup Writing => r.elem = 0 /\ r.result = "none"
        /\ r.pc \in Waiting =>
             /\ r.elem \in 1..Len(elem)
             /\ Answered(r.elem) => <<Max(r.wrote), c>> \in executed

\* An index stays in commit_ret_elems_ only as long as its entry stays in the
\* log: what another leader overwrites was dropped by become_follower.
AnswerInv ==
    /\ DOMAIN elems \subseteq 1..Len(log)
    /\ ~leader /\ handler.todo # "drop" => DOMAIN elems \subseteq 1..quick
    /\ committer.pc \in Executing => <<committer.idx, log[committer.idx]>> \in executed
    /\ \A i \in DOMAIN elems : ElemInv(i)
    /\ \A c \in Client : WaiterInv(c)

\* Inductive.
ClientInv == TypeOK /\ LockInv /\ PreCommitInv /\ AnswerInv /\ OkMeansExecuted

=============================================================================
