------------------------ MODULE MCShutdownCoordinator ------------------------
(* Small instances of ShutdownCoordinator for TLC. *)
EXTENDS ShutdownCoordinator, TLC

Symmetry == Permutations(Windows) \union Permutations(Attempts)

(* At most two calls of the coordinator are suspended together. *)
TwoCalls == Cardinality(calls) <= 2

(* Runs that explore safe closing leave Force Quit and rejected inspections  *)
(* out, and take one call at a time once a restoration was rejected.          *)
Unforced == /\ TwoCalls
            /\ unrestored => Cardinality(calls) <= 1
            /\ \A a \in Attempts : ~att[a].forced /\ ~att[a].rejected

=============================================================================
