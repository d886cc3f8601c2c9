----------------------------- MODULE MCRaftCore -----------------------------
(* RaftCore on small instances: the servers are interchangeable, and the   *)
(* messages in flight are bounded.                                         *)
EXTENDS RaftCore, TLC

CONSTANT MaxInFlight

InFlight == Cardinality(net) <= MaxInFlight

\* A behaviour has client requests and heartbeats, or it has faults: the bound of
\* the others is used up from the start.
FaultsOrRequests ==
    /\ Start
    /\ \/ used = [elections |-> 0, requests |-> 0, heartbeats |-> 0, faults |-> MaxFaults]
       \/ used = [elections |-> 0, requests |-> MaxRequests, heartbeats |-> MaxHeartbeats,
                  faults |-> 0]

FaultsOrRequestsSpec == FaultsOrRequests /\ [][Next]_vars

\* Nothing is committed before the third reign, and most elections succeed: where
\* to look for an entry of an old term that is committed late.
ThirdReignCommits ==
    /\ committed # {} => Cardinality(elected) >= 3
    /\ used.elections <= Cardinality(elected) + 2

Symmetric == Permutations(Server)

=============================================================================
