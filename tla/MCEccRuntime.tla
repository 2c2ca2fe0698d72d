---------------------------- MODULE MCEccRuntime ----------------------------
(* Instances of EccRuntime for TLC. *)
EXTENDS EccRuntime, TLC

(* Bound of EccAdopt: cancel and rerun are explored by EccRefresh only. *)
NoCancelNoRerun == planning = {} /\ \A t \in Trackers : ~trk[t].cancel

Symmetry == Permutations(Runs) \union Permutations(Trackers)
=============================================================================
