--------------------------- MODULE MCConnectionPool ---------------------------
(* Instances of ConnectionPool for TLC. *)
EXTENDS ConnectionPool, TLC

(* Addresses, peer objects and the nodes other than ours are each          *)
(* interchangeable.                                                        *)
Symmetry == Permutations(Peers) \cup Permutations(Addrs)
                \cup Permutations(Nodes \ {Self})
=============================================================================
