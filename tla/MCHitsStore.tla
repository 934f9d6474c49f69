----------------------------- MODULE MCHitsStore -----------------------------
(* Instances of HitsStore for TLC. *)
EXTENDS HitsStoreProps

\* Addresses that report the same way are interchangeable.
Symmetry == Permutations(Devices \ Drones)

=============================================================================
