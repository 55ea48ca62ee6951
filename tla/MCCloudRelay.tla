---------------------------- MODULE MCCloudRelay ----------------------------
(* CloudRelay with a few callers, which are interchangeable. *)
EXTENDS CloudRelay, TLC

CallerSymmetry == Permutations(Callers)
=============================================================================
