--------------------------- MODULE MCClientCommit ---------------------------
(* ClientCommit on small instances: the clients are interchangeable.       *)
EXTENDS ClientCommit, TLC

Symmetric == Permutations(Client)

=============================================================================
