--------------------------- MODULE SerialExecutor ---------------------------
(***************************************************************************)
(* What a strand promises: the handlers given to it run one at a time, in  *)
(* the order they were given, each at most once.  A handler that is        *)
(* dispatched from inside the strand runs at once, within the one that     *)
(* dispatches it.                                                          *)
(***************************************************************************)
EXTENDS Sequences

CONSTANTS Handler, None

VARIABLES
    pending,    \* the handlers given and not yet started, in their order
    running,    \* the handler that runs, or None
    given,      \* every handler that was given so far
    closed      \* the strand accepts no handlers any more

serialVars == <<pending, running, given, closed>>

SerialInit ==
    /\ pending = <<>>
    /\ running = None
    /\ given = {}
    /\ closed = FALSE

Give(h) ==
    /\ ~ closed
    /\ h \notin given
    /\ given' = given \cup {h}
    /\ pending' = Append(pending, h)
    /\ UNCHANGED <<running, closed>>

\* The running handler dispatches h.
RunInside(h) ==
    /\ running # None
    /\ h \notin given
    /\ given' = given \cup {h}
    /\ UNCHANGED <<pending, running, closed>>

Refuse(h) ==
    /\ closed
    /\ h \notin given
    /\ given' = given \cup {h}
    /\ UNCHANGED <<pending, running, closed>>

Start ==
    /\ running = None
    /\ pending # <<>>
    /\ running' = Head(pending)
    /\ pending' = Tail(pending)
    /\ UNCHANGED <<given, closed>>

Finish ==
    /\ running # None
    /\ running' = None
    /\ UNCHANGED <<pending, given, closed>>

\* Nothing runs when the strand is shut down; what is pending is destroyed.
Close ==
    /\ running = None
    /\ closed' = TRUE
    /\ pending' = <<>>
    /\ UNCHANGED <<running, given>>

SerialNext ==
    \/ \E h \in Handler : Give(h) \/ RunInside(h) \/ Refuse(h)
    \/ Start \/ Finish \/ Close

SerialSpec == SerialInit /\ [][SerialNext]_serialVars

=============================================================================
