---------------------------- MODULE MCBandRunner ----------------------------
(* Instances of BandRunner for TLC: the rooms are interchangeable. *)
EXTENDS BandRunner, TLC

Symmetry == Permutations(Rooms)
=============================================================================
