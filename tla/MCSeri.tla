------------------------------ MODULE MCSeri ------------------------------
(* Model checking of SeriDriver: the processes are interchangeable.        *)
EXTENDS SeriDriver, TLC

Symmetry == Permutations(Readers) \cup Permutations(Writers)
=============================================================================
