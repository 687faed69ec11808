---------------------------- MODULE MCDlLoader -----------------------------
(***************************************************************************)
(* Values for model checking DlLoader.                                     *)
(***************************************************************************)
EXTENDS DlLoader, TLC

CONSTANTS h1, h2, h3, old, new, other

\* Two versions of one function and another function.
Wrappers == [lib \in {old, new, other} |-> IF lib = other THEN 2 ELSE 1]

Symmetry == Permutations({h1, h2, h3})
============================================================================
