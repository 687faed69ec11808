----------------------------- MODULE LoadedCode ----------------------------
(***************************************************************************)
(* What the function cache takes a loaded library for: the code of the     *)
(* bytes it was loaded from, which is there until it is closed, whatever   *)
(* else is loaded and closed.  Only a library that dlclose() has left      *)
(* mapped may turn up again, and only for a function of its own symbol.    *)
(* There are no descriptors, names or counts here.                         *)
(***************************************************************************)
CONSTANTS
    Handles,
    Libraries,
    SymbolOf    \* the function a library is of

VARIABLES
    loaded,     \* per handle, the set of at most one: the bytes and the code it enters
    left        \* libraries that dlclose() has left mapped

Init ==
    /\ loaded = [h \in Handles |-> {}]
    /\ left = {}

Load(h, lib) ==
    /\ loaded[h] = {}
    /\ \E code \in {lib} \cup left :
          /\ SymbolOf[code] = SymbolOf[lib]
          /\ loaded' = [loaded EXCEPT ![h] = {[wants |-> lib, code |-> code]}]
    /\ UNCHANGED left

Close(h) ==
    /\ loaded[h] # {}
    /\ loaded' = [loaded EXCEPT ![h] = {}]
    /\ left' \subseteq left \cup {entry.code : entry \in loaded[h]}

\* What was left is unmapped after all.
Unmap ==
    /\ left' \subseteq left
    /\ UNCHANGED loaded

Next ==
    \/ \E h \in Handles : Close(h) \/ \E lib \in Libraries : Load(h, lib)
    \/ Unmap

Spec == Init /\ [][Next]_<<loaded, left>>
============================================================================
