------------------------------ MODULE MCClips ------------------------------
(* Small instances of Clips.                                                 *)
EXTENDS Clips, TLC

Symmetry == Permutations(Callers)
=============================================================================
