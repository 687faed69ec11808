------------------------------ MODULE FnCalls ------------------------------
(***************************************************************************)
(* What calling LANGUAGE plrust functions promises to a session: a call    *)
(* runs the version the session sees when it is made and keeps it to its   *)
(* end, whatever the session or others do to the function meanwhile, and   *)
(* nobody else's steps are felt.  There are no libraries, no caches, no    *)
(* reference counts and no generation numbers here.                        *)
(***************************************************************************)
EXTENDS Integers, Sequences

CONSTANTS
    Sessions,
    Fns,
    Versions   \* what can be told apart of two versions of a function

VARIABLES
    visible,   \* per session and function, the set of its at most one version
    running    \* per session, the calls in progress, outermost first

Definitions == [Fns -> {{}} \cup {{v} : v \in Versions}]

Init ==
    /\ visible = [s \in Sessions |-> [f \in Fns |-> {}]]
    /\ running = [s \in Sessions |-> <<>>]

\* A call made by a query, or by the innermost call in progress.
Call(s, f) ==
    /\ visible[s][f] # {}
    /\ running'[s] = Append(running[s], [fn |-> f, version |-> visible[s][f]])
    /\ visible'[s] = visible[s]

Return(s) ==
    /\ running[s] # <<>>
    /\ running'[s] = SubSeq(running[s], 1, Len(running[s]) - 1)
    /\ visible'[s] = visible[s]

\* The session defines functions, or takes note of what others have committed.
Redefine(s) ==
    /\ visible'[s] \in Definitions
    /\ running'[s] = running[s]

\* An error ends the calls above the one that catches it, or all of them, as does
\* the end of the session.
Unwind(s) ==
    /\ visible'[s] \in Definitions
    /\ \E n \in 0..Len(running[s]) : running'[s] = SubSeq(running[s], 1, n)

Alone(s) ==
    /\ visible' = [visible EXCEPT ![s] = visible'[s]]
    /\ running' = [running EXCEPT ![s] = running'[s]]

Next ==
    \E s \in Sessions :
        /\ Alone(s)
        /\ (\E f \in Fns : Call(s, f)) \/ Return(s) \/ Redefine(s) \/ Unwind(s)

Spec == Init /\ [][Next]_<<visible, running>>
============================================================================
