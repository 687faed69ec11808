----------------------------- MODULE MCFnCache -----------------------------
(***************************************************************************)
(* Values for model checking FnCache.                                      *)
(***************************************************************************)
EXTENDS FnCache, TLC

CONSTANTS s1, s2, f1, a, b, l1, l2, unsafe_code, leaky

NoLints == {{}}
WithOrWithoutUnsafe == {{}, {unsafe_code}}
UpToLeaky == WithOrWithoutUnsafe \cup {{unsafe_code, leaky}}

LibSymmetry == Permutations({l1, l2})
Symmetry == Permutations({s1, s2}) \cup Permutations({a, b}) \cup Permutations({l1, l2})
============================================================================
