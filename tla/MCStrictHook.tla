---------------------------- MODULE MCStrictHook ---------------------------
(***************************************************************************)
(* Values for model checking StrictHook.                                   *)
(***************************************************************************)
EXTENDS StrictHook, TLC

CONSTANTS s1, s2

Symmetry == Permutations({s1, s2})
============================================================================
