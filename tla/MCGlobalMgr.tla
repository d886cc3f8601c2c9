---------------------------- MODULE MCGlobalMgr ----------------------------
(***************************************************************************)
(* Instances of GlobalMgr.                                                 *)
(***************************************************************************)
EXTENDS GlobalMgr

\* Two commit workers, and two commits of a server.
TwoCommits ==
    { [commit_threads |-> 2, append_threads |-> 0, commits |-> 2, appends |-> 0,
       pauses |-> 0, closes |-> 0] }

\* The same; a commit and a pause; a worker of each kind until shutdown; appends.
MCConfig ==
    TwoCommits \cup
    { [commit_threads |-> 2, append_threads |-> 0, commits |-> 1, appends |-> 0,
       pauses |-> 1, closes |-> 0],
      [commit_threads |-> 1, append_threads |-> 1, commits |-> 1, appends |-> 1,
       pauses |-> 0, closes |-> 1],
      [commit_threads |-> 0, append_threads |-> 1, commits |-> 0, appends |-> 2,
       pauses |-> 0, closes |-> 0] }

=============================================================================
