---------------------------- MODULE MCFlockTable ----------------------------
(* Instances of FlockTable for TLC. *)
EXTENDS FlockTableProps

Symmetry == Permutations(Devices \ Drones)

=============================================================================
