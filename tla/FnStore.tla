------------------------------ MODULE FnStore ------------------------------
(***************************************************************************)
(* What CREATE FUNCTION ... LANGUAGE plrust promises to everyone else: the *)
(* prosrc of a function changes in one step, to one that has a library of  *)
(* its own source for every target the server compiles for, whatever the   *)
(* user submitted and whatever compilers, catalog updates and failures     *)
(* went into it.  Nothing is promised of libraries for other targets.      *)
(***************************************************************************)
CONSTANTS Fns, Targets, Host, NoBody

VARIABLES
    published,   \* the prosrc of each function, or NoBody
    compiled     \* the targets the server compiles for

\* A library built for target from the source beside it, that exports the
\* symbol and was built under the lints that prosrc records.
Faithful(body, target) ==
    LET library == body.lib[target]
    IN  /\ library.bytes.target = target
        /\ library.bytes.src = body.src
        /\ library.bytes.symbol = library.symbol
        /\ library.bytes.lints = library.lints

SetsOfTargets == {some \in SUBSET Targets : Host \in some}

Init ==
    /\ published = [f \in Fns |-> NoBody]
    /\ compiled \in SetsOfTargets

\* CREATE FUNCTION.
Publish(f) ==
    /\ published'[f] # NoBody
    /\ compiled \subseteq DOMAIN published'[f].lib
    /\ \A target \in compiled : Faithful(published'[f], target)
    /\ published' = [published EXCEPT ![f] = published'[f]]
    /\ UNCHANGED compiled

\* CREATE DATABASE from a template.
Copy(f, new) ==
    /\ published[f] # NoBody /\ published[new] = NoBody
    /\ published' = [published EXCEPT ![new] = published[f]]
    /\ UNCHANGED compiled

\* A restart with other settings.
Configure == compiled' \in SetsOfTargets /\ UNCHANGED published

Next == Configure \/ \E f \in Fns : Publish(f) \/ \E new \in Fns : Copy(f, new)

Spec == Init /\ [][Next]_<<published, compiled>>
============================================================================
