--------------------------- MODULE MCAllowedDeps ---------------------------
(***************************************************************************)
(* Values for model checking AllowedDeps.                                  *)
(***************************************************************************)
EXTENDS AllowedDeps, TLC

CONSTANTS s1, s2, f1, host, cross, pgx, owo, tokio

HostAndCross == <<host, cross>>

\* pgx = "=1", as trusted_pgx_version has it.
PgxOnly == pgx :> {1}

\* Nothing; "owo = *"; "owo = 2"; two crates; a requirement that does not parse;
\* a table.
Written ==
    {<<>>, owo :> {1, 2}, owo :> {2}, owo :> {1, 2} @@ tokio :> {1},
     owo :> BadReq, owo :> NotString}

\* Two crates; one of them at its new version; a mistake.
Edited == {owo :> 1 @@ tokio :> 1, owo :> 2, owo :> Malformed}

Moving == {<<owo, 1>>, <<owo, 2>>}

SomeOwo == owo :> {1, 2}

Symmetry == Permutations({s1, s2})
============================================================================
