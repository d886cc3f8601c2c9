--------------------------- MODULE MCCommitThread ---------------------------
(* CommitThread on small instances: threads and watchers are named here so *)
(* that every instance says which of them it has.                          *)
EXTENDS CommitThread

CONSTANTS i1, i2, u1, u2, w1, w2

=============================================================================
