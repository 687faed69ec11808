---------------------------- MODULE MCCompileFn ----------------------------
(***************************************************************************)
(* Values for model checking CompileFn.                                    *)
(***************************************************************************)
EXTENDS CompileFn, TLC

CONSTANTS s1, s2, f1, f2, other, a, host, cross, unsafe_code, v1, v2

SetsOfLints == {{}, {unsafe_code}}

Setting(lints, version, others) ==
    [lints |-> lints, version |-> version, targets |-> others]

HostOnly == {Setting({}, v1, <<>>)}

\* All settings change from one command to the next.
HostAndCross ==
    {Setting({}, v1, <<>>), Setting({unsafe_code}, v2, <<host, cross, cross>>)}

ChangingTargets == {Setting({}, v1, <<cross>>), Setting({unsafe_code}, v1, <<>>)}

\* An entry of another cluster, edited to have its library under both targets and
\* with lints it was not built with.
Foreign == [bytes |-> [src |-> a, lints |-> {}, version |-> v1, target |-> cross,
                       symbol |-> other],
            symbol |-> other, lints |-> {unsafe_code}]

ForeignEntry == {[src |-> a, trusted_pgx_version |-> v1,
                  lib |-> (host :> Foreign @@ cross :> Foreign)]}

Symmetry == Permutations({s1, s2}) \cup Permutations({f1, f2})
============================================================================
