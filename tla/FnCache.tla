------------------------------ MODULE FnCache ------------------------------
(***************************************************************************)
(* The per-session cache of loaded PL/Rust functions (LOADED_SYMBOLS in    *)
(* plrust.rs) against the rows of pg_catalog.pg_proc.                      *)
(*                                                                         *)
(* A Postgres backend (a session) keeps, per function oid, an Rc to a      *)
(* dlopen()ed library and the "generation number" of the pg_proc row the   *)
(* library was read from.  Each call compares that number with the row the *)
(* session sees now and reloads when they differ.  CREATE OR REPLACE runs  *)
(* the validator, which drops the cached library before it compiles.       *)
(* Calls nest, because a running function may call or replace functions    *)
(* through SPI, and a library is closed when its last Rc goes.             *)
(*                                                                         *)
(* Row versions, transactions, savepoints and the syscache belong to       *)
(* Postgres and are modelled from how plrust relies on them.  Compilation  *)
(* is one atomic part of Replace; CompileFn opens it.                      *)
(***************************************************************************)
EXTENDS Integers, Sequences, FiniteSets

CONSTANTS
    Sessions,        \* backends
    Fns,             \* function oids
    SetReturning,    \* the oids whose function is RETURNS SETOF
    Codes,           \* bodies a user may submit
    CompileLints,    \* the values plrust.compile_lints takes, sets of lints
    RequiredLints,   \* the values plrust.required_lints takes, sets of lints
    Targets,         \* compilation targets: one pg_proc update each
    DlcloseMayFail,  \* whether dlclose() may report an error
    Libs,            \* handles for the libraries a session has mapped (bound)
    MaxXid,          \* bound on transaction ids
    MaxCid,          \* bound on command ids within one transaction
    MaxLevel,        \* bound on the transaction and its nested savepoints
    MaxDepth,        \* bound on nested calls
    Gone,            \* no such pg_proc row
    Unwritten,       \* not written by this transaction
    Closed,          \* an unused handle
    NoLib            \* no handle

ASSUME FnCacheAssumption ==
    /\ SetReturning \subseteq Fns
    /\ IsFiniteSet(Targets) /\ Targets # {}
    /\ DlcloseMayFail \in BOOLEAN
    /\ MaxXid \in Nat /\ MaxCid \in Nat /\ MaxLevel \in Nat /\ MaxDepth \in Nat
    /\ NoLib \notin Libs

VARIABLES
    committed,   \* the latest committed pg_proc row of each function
    fresh,       \* oids never handed out
    nextXid,     \* next transaction id
    xact,        \* per session, its transaction and savepoints, outermost first
    cid,         \* per session, the current command id
    combo,       \* per session, the number of combo command ids handed out
    view,        \* per session, the committed rows its syscache would return
    required,    \* per session, plrust.required_lints as last read
    cache,       \* per session, LOADED_SYMBOLS: oid -> library handle
    libs,        \* per session, the libraries mapped into the backend
    frames,      \* per session, the plrust calls in progress, outermost first
    iters,       \* per session, the library that made the open SETOF iterator
    opened       \* per session, the level that declared that iterator's cursor

catalog == <<committed, fresh, nextXid>>
xactVars == <<xact, cid, combo>>
loaderVars == <<cache, libs, frames, iters, opened>>
vars == <<catalog, xactVars, view, required, loaderVars>>

----------------------------------------------------------------------------
(* pg_proc rows and transactions.                                          *)

\* A row version: the transaction and the command field of its tuple header,
\* and what its prosrc holds: the code and the lints it was compiled with.
Row == [xid : 1..MaxXid, cid : 0..MaxCid, code : Codes, lints : CompileLints]

ASSUME RowAssumption ==
    Gone \notin Row /\ Unwritten \notin Row /\ Gone # Unwritten

\* PgProc::generation_number, (xmin << 32) | t_cid.
Generation(row) == <<row.xid, row.cid>>

Content(row) == <<row.code, row.lints>>

\* A level of a transaction: its xid (0 until it writes), the rows that it and
\* the levels around it have written, and how many calls it began inside of.
Level ==
    [xid : 0..MaxXid, rows : [Fns -> Row \cup {Gone, Unwritten}], calls : Nat]

NTargets == Cardinality(Targets)

InXact(s) == xact[s] # <<>>
Top(s) == xact[s][Len(xact[s])]
Pop(q) == SubSeq(q, 1, Len(q) - 1)
Idle(s) == frames[s] = <<>>

Wrote(s, f) == InXact(s) /\ Top(s).rows[f] # Unwritten

\* Mutant: a lookup that sees other sessions' uncommitted rows.
VisibleDirty(s, f) ==
    IF \E t \in Sessions : Wrote(t, f)
    THEN Top(CHOOSE t \in Sessions : Wrote(t, f)).rows[f]
    ELSE view[s][f]

\* SearchSysCache1(PROCOID, f): the session's own write, or the committed row
\* as of the last invalidation message the session has processed.
Visible(s, f) == IF Wrote(s, f) THEN Top(s).rows[f] ELSE view[s][f]

----------------------------------------------------------------------------
(* Libraries: an Rc<UserCrate<FnReady>> with its strong count.             *)

Library == [fn : Fns, row : Row, rc : Int]

ASSUME LibraryAssumption == Closed \notin Library

NoLibs == [f \in Fns |-> NoLib]
NotOpened == [f \in Fns |-> 0]

\* What dlclose() may answer.
CloseResults == IF DlcloseMayFail THEN BOOLEAN ELSE {TRUE}

\* Dropping one Rc to l: the last one closes the library, if dlclose() agrees.
DropRef(lb, l, closes) ==
    IF lb[l].rc = 1 /\ closes THEN [lb EXCEPT ![l] = Closed]
    ELSE [lb EXCEPT ![l].rc = @ - 1]

\* Mutant: running on a borrowed reference.
CloneBorrows(lb, l) == lb

Clone(lb, l) == [lb EXCEPT ![l].rc = @ + 1]

References(fr, l) == Cardinality({i \in DOMAIN fr : fr[i].lib = l})

Entries(c, l) == Cardinality({f \in Fns : c[f] = l})

\* Mutant: an ERROR that jumps over the frames without unwinding them.
DropFramesJumps(lb, fr, closes) == lb

\* Unwinding the frames fr drops every Rc they hold.
DropFrames(lb, fr, closes) ==
    [l \in Libs |->
        IF References(fr, l) = 0 THEN lb[l]
        ELSE IF lb[l].rc = References(fr, l) /\ closes THEN Closed
        ELSE [lb[l] EXCEPT !.rc = @ - References(fr, l)]]

\* The frames above the first n.
Above(fr, n) == [i \in (n + 1)..Len(fr) |-> fr[i]]

\* Handles nothing refers to.
FreeLibs(s) ==
    {l \in Libs : /\ libs[s][l] = Closed
                  /\ \A f \in Fns : iters[s][f] # l
                  /\ \A i \in DOMAIN frames[s] : frames[s][i].resumes # l}

----------------------------------------------------------------------------
(* Transaction control (Postgres).                                         *)

\* A transaction starts on a fresh catalog.
Begin(s) ==
    /\ ~InXact(s)
    /\ xact' = [xact EXCEPT ![s] =
          <<[xid |-> 0, rows |-> [f \in Fns |-> Unwritten], calls |-> 0]>>]
    /\ view' = [view EXCEPT ![s] = committed]
    /\ UNCHANGED <<catalog, cid, combo, required, loaderVars>>

\* SAVEPOINT, or the start of a PL/pgSQL block with an EXCEPTION clause that a
\* running function has reached through SPI.
Savepoint(s) ==
    /\ InXact(s)
    /\ Len(xact[s]) < MaxLevel
    /\ xact' = [xact EXCEPT ![s] =
          Append(@, [xid |-> 0, rows |-> Top(s).rows, calls |-> Len(frames[s])])]
    /\ UNCHANGED <<catalog, cid, combo, view, required, loaderVars>>

\* The level around takes over the rows and the cursors.
ReleaseSavepoint(s) ==
    LET n == Len(xact[s])
    IN  /\ n > 1
        /\ Len(frames[s]) = Top(s).calls
        /\ xact' = [xact EXCEPT
              ![s] = [Pop(xact[s]) EXCEPT ![n - 1].rows = Top(s).rows]]
        /\ opened' = [opened EXCEPT ![s] =
              [f \in Fns |-> IF @[f] = n THEN n - 1 ELSE @[f]]]
        /\ UNCHANGED <<catalog, cid, combo, view, required,
                       cache, libs, frames, iters>>

\* Other sessions see the rows once they process the invalidation messages.
Commit(s) ==
    /\ Len(xact[s]) = 1 /\ Idle(s)
    /\ committed' = [f \in Fns |-> IF Wrote(s, f) THEN Top(s).rows[f]
                                   ELSE committed[f]]
    /\ view' = [view EXCEPT ![s] = [f \in Fns |-> IF Wrote(s, f) THEN Top(s).rows[f]
                                                  ELSE view[s][f]]]
    /\ xact' = [xact EXCEPT ![s] = <<>>]
    /\ cid' = [cid EXCEPT ![s] = 0]
    /\ combo' = [combo EXCEPT ![s] = 0]
    /\ iters' = [iters EXCEPT ![s] = NoLibs]
    /\ opened' = [opened EXCEPT ![s] = NotOpened]
    /\ UNCHANGED <<fresh, nextXid, required, cache, libs, frames>>

\* An ERROR unwinds the frames above the first n, lb being the libraries before
\* that.
Unwind(s, n, lb) ==
    /\ \E closes \in CloseResults :
          libs' = [libs EXCEPT ![s] = DropFrames(lb, Above(frames[s], n), closes)]
    /\ frames' = [frames EXCEPT ![s] = SubSeq(@, 1, n)]

\* A call above the first n was fetching from the cursor over f.
FetchUnwound(s, f, n) ==
    \E i \in (n + 1)..Len(frames[s]) :
        frames[s][i].fn = f /\ frames[s][i].resumes # NoLib

\* A rollback of the innermost level closes the cursors declared in it and one
\* whose fetch failed.  Others stay open.
LosesCursor(s, f) ==
    opened[s][f] = Len(xact[s]) \/ FetchUnwound(s, f, Top(s).calls)

\* What a rollback of the innermost level does to the calls made inside it.
UnwindLevel(s, lb) ==
    /\ Unwind(s, Top(s).calls, lb)
    /\ iters' = [iters EXCEPT ![s] =
          [f \in Fns |-> IF LosesCursor(s, f) THEN NoLib ELSE @[f]]]
    /\ opened' = [opened EXCEPT ![s] =
          [f \in Fns |-> IF LosesCursor(s, f) THEN 0 ELSE @[f]]]

\* Command ids start again with the next transaction.
Unless0(s, n) == IF Len(xact[s]) = 1 THEN 0 ELSE n

\* The innermost level is rolled back, after an ERROR or by ROLLBACK [TO].
\* What it wrote is looked up anew.
AbortTop(s) ==
    /\ UnwindLevel(s, libs[s])
    /\ xact' = [xact EXCEPT ![s] = Pop(@)]
    /\ view' = [view EXCEPT ![s] = [f \in Fns |-> IF Wrote(s, f) THEN committed[f]
                                                  ELSE view[s][f]]]
    /\ cid' = [cid EXCEPT ![s] = Unless0(s, @)]
    /\ combo' = [combo EXCEPT ![s] = Unless0(s, @)]
    /\ UNCHANGED <<catalog, required, cache>>

\* ROLLBACK, ROLLBACK TO, a failing command, or a user function that panics
\* or raises an ERROR; evaluate's FFI guard turns the latter two into an
\* unwinding panic, so that every frame up to the level's drops its Rc.
Abort(s) == InXact(s) /\ AbortTop(s)

\* A function catches what the calls it made raised (PgTryBuilder), and runs
\* on.  Nothing is rolled back.
Catch(s) ==
    /\ InXact(s)
    /\ \E n \in (Top(s).calls + 1)..(Len(frames[s]) - 1) : Unwind(s, n, libs[s])
    /\ UNCHANGED <<catalog, xactVars, view, required, cache, iters, opened>>

\* The session processes pending invalidation messages.
AcceptInvalidations(s) ==
    /\ view[s] # committed
    /\ view' = [view EXCEPT ![s] = committed]
    /\ UNCHANGED <<catalog, xactVars, required, loaderVars>>

\* SIGHUP, handled between commands.
ReloadConfig(s) ==
    /\ Idle(s)
    /\ \E lints \in RequiredLints \ {required[s]} :
          required' = [required EXCEPT ![s] = lints]
    /\ UNCHANGED <<catalog, xactVars, view, loaderVars>>

\* The backend exits, cleanly or not, and a new one takes its place.
Restart(s) ==
    /\ xact' = [xact EXCEPT ![s] = <<>>]
    /\ cid' = [cid EXCEPT ![s] = 0]
    /\ combo' = [combo EXCEPT ![s] = 0]
    /\ view' = [view EXCEPT ![s] = committed]
    /\ cache' = [cache EXCEPT ![s] = NoLibs]
    /\ libs' = [libs EXCEPT ![s] = [l \in Libs |-> Closed]]
    /\ frames' = [frames EXCEPT ![s] = <<>>]
    /\ iters' = [iters EXCEPT ![s] = NoLibs]
    /\ opened' = [opened EXCEPT ![s] = NotOpened]
    /\ UNCHANGED <<catalog, required>>

----------------------------------------------------------------------------
(* Writing pg_proc.                                                        *)

\* A writer waits for the other writers of the row.
CanWrite(s, f) ==
    /\ InXact(s)
    /\ \A t \in Sessions \ {s} : ~Wrote(t, f)

XidOf(s) == IF Top(s).xid = 0 THEN nextXid ELSE Top(s).xid

\* Updating a tuple overwrites the t_cid its header shows: with the updater's
\* command id, or, when the same transaction made the tuple, with a combo id.
Stamp(row, n) == IF row \in Row THEN [row EXCEPT !.cid = n] ELSE row

\* A command of s writes f, and the transaction has an xid from then on.
Writes(s, updates) ==
    /\ XidOf(s) <= MaxXid
    /\ cid[s] + updates <= MaxCid
    /\ nextXid' = IF Top(s).xid = 0 THEN nextXid + 1 ELSE nextXid

\* The levels of s once row is its version of f.  The version it supersedes is
\* stamped wherever it lives: in the outer levels that would restore it, and
\* on disk.
LevelsWith(s, f, row) ==
    LET n == Len(xact[s])
        rows == Top(s).rows
        old == rows[f]
    IN  [i \in 1..n |->
            IF i = n THEN [xid |-> XidOf(s), rows |-> [rows EXCEPT ![f] = row],
                           calls |-> Top(s).calls]
            ELSE IF old # Unwritten /\ xact[s][i].rows[f] = old
            THEN [xact[s][i] EXCEPT !.rows[f] = Stamp(old, combo[s])]
            ELSE xact[s][i]]

StampCommitted(s, f) ==
    committed' = [committed EXCEPT ![f] =
        IF Wrote(s, f) THEN @ ELSE Stamp(@, cid[s])]

CombosOf(s, f, updates) == updates + IF Top(s).rows[f] \in Row THEN 1 ELSE 0

\* One command of s that leaves row as the version of f, written `updates`
\* commands into it.
WriteRow(s, f, row, updates) ==
    /\ Writes(s, updates)
    /\ xact' = [xact EXCEPT ![s] = LevelsWith(s, f, row)]
    /\ StampCommitted(s, f)
    /\ view' = [view EXCEPT ![s] = committed]
    /\ cid' = [cid EXCEPT ![s] = @ + updates + 1]
    /\ combo' = [combo EXCEPT ![s] = @ + CombosOf(s, f, updates)]

\* One command of s that fails `updates` commands after it wrote f: its level is
\* rolled back, but what it stamped stays stamped.
WriteUndone(s, f, updates) ==
    /\ Writes(s, updates)
    /\ xact' = [xact EXCEPT ![s] = Pop(LevelsWith(s, f, Gone))]
    /\ StampCommitted(s, f)
    /\ view' = [view EXCEPT ![s] = committed']
    /\ cid' = [cid EXCEPT ![s] = Unless0(s, @ + updates + 1)]
    /\ combo' = [combo EXCEPT ![s] = Unless0(s, @ + CombosOf(s, f, updates))]

\* The row as the session's next command finds it.
Current(s, f) == IF Wrote(s, f) THEN Top(s).rows[f] ELSE committed[f]

\* ALTER FUNCTION, of an attribute other than STRICT.
Alter(s, f) ==
    /\ CanWrite(s, f)
    /\ Current(s, f) # Gone
    /\ WriteRow(s, f, [Current(s, f) EXCEPT !.xid = XidOf(s), !.cid = cid[s]], 0)
    /\ UNCHANGED <<fresh, required, loaderVars>>

\* DROP FUNCTION.  plrust is not told: a cached library stays.
DropFunction(s, f) ==
    /\ CanWrite(s, f)
    /\ Current(s, f) # Gone
    /\ WriteRow(s, f, Gone, 0)
    /\ UNCHANGED <<fresh, required, loaderVars>>

----------------------------------------------------------------------------
(* CREATE [OR REPLACE] FUNCTION: Postgres writes the row and runs          *)
(* plrust_validator, which unloads, compiles and stores one library per    *)
(* target.                                                                 *)

Submittable(s, f) == CanWrite(s, f) /\ (f \in fresh \/ Current(s, f) # Gone)

\* unload_function: remove the entry; close the library if nobody else has it.
Unloaded(s, f, closes) ==
    IF cache[s][f] = NoLib THEN libs[s] ELSE DropRef(libs[s], cache[s][f], closes)

\* close().unwrap() panics when the last reference cannot be dlclose()d.
UnloadPanics(s, f, closes) ==
    cache[s][f] # NoLib /\ libs[s][cache[s][f]].rc = 1 /\ ~closes

\* Mutant: a validator that does not unload.
ReplaceKeepsCache(s, f) ==
    /\ Submittable(s, f)
    /\ \E code \in Codes, lints \in CompileLints :
          WriteRow(s, f, [xid |-> XidOf(s), cid |-> cid[s] + NTargets,
                          code |-> code, lints |-> lints], NTargets)
    /\ fresh' = fresh \ {f}
    /\ UNCHANGED <<required, loaderVars>>

\* Mutant: recording the lints that are required to run, not those compiled with.
ReplaceRecordsRequired(s, f) ==
    /\ Submittable(s, f)
    /\ \E closes \in CloseResults :
          /\ ~UnloadPanics(s, f, closes)
          /\ libs' = [libs EXCEPT ![s] = Unloaded(s, f, closes)]
    /\ cache' = [cache EXCEPT ![s][f] = NoLib]
    /\ \E code \in Codes :
          WriteRow(s, f, [xid |-> XidOf(s), cid |-> cid[s] + NTargets,
                          code |-> code, lints |-> required[s]], NTargets)
    /\ fresh' = fresh \ {f}
    /\ UNCHANGED <<required, frames, iters, opened>>

Replace(s, f) ==
    /\ Submittable(s, f)
    /\ \E closes \in CloseResults :
          /\ ~UnloadPanics(s, f, closes)
          /\ libs' = [libs EXCEPT ![s] = Unloaded(s, f, closes)]
    /\ cache' = [cache EXCEPT ![s][f] = NoLib]
    /\ \E code \in Codes, lints \in CompileLints :
          WriteRow(s, f, [xid |-> XidOf(s), cid |-> cid[s] + NTargets,
                          code |-> code, lints |-> lints], NTargets)
    /\ fresh' = fresh \ {f}
    /\ UNCHANGED <<required, frames, iters, opened>>

\* The library could not be closed, the code did not compile, or a library
\* could not be stored.  The cached one is gone all the same.
ReplaceFails(s, f) ==
    /\ Submittable(s, f)
    /\ \E closes \in CloseResults : UnwindLevel(s, Unloaded(s, f, closes))
    /\ cache' = [cache EXCEPT ![s][f] = NoLib]
    /\ \E updates \in 0..NTargets : WriteUndone(s, f, updates)
    /\ fresh' = fresh \ {f}
    /\ UNCHANGED required

----------------------------------------------------------------------------
(* plrust_call_handler, evaluate_function.                                 *)

CachedLib(s, f) == libs[s][cache[s][f]]

\* Mutant: no generation check.
UpToDateUnchecked(s, f) == Visible(s, f) # Gone /\ cache[s][f] # NoLib

\* Mutant: the number is compared with that of the committed row.
UpToDateCommitted(s, f) ==
    /\ Visible(s, f) # Gone
    /\ cache[s][f] # NoLib
    /\ view[s][f] # Gone
    /\ Generation(CachedLib(s, f).row) = Generation(view[s][f])

\* The cached library was read from the row the session sees.
UpToDate(s, f) ==
    /\ Visible(s, f) # Gone
    /\ cache[s][f] # NoLib
    /\ Generation(CachedLib(s, f).row) = Generation(Visible(s, f))

\* The call runs in l, holding an Rc of its own.
Enter(s, f, l, resumes) ==
    frames' = [frames EXCEPT ![s] = Append(@, [fn |-> f, lib |-> l, resumes |-> resumes])]

RunCached(s, f, resumes) ==
    /\ UpToDate(s, f)
    /\ Enter(s, f, cache[s][f], resumes)
    /\ libs' = [libs EXCEPT ![s] = Clone(@, cache[s][f])]
    /\ UNCHANGED cache

\* Mutant: a library that replaces a cached one is not asked for its lints.
MayReload(s, f) == cache[s][f] # NoLib \/ required[s] \subseteq Visible(s, f).lints

\* prosrc::load's gate: FnValidate::new.
MayLoad(s, f) == required[s] \subseteq Visible(s, f).lints

\* Mutant: a reload closes the old library and runs the new one, but the entry
\* is not swapped.
LoadAndRunUnswapped(s, f, resumes) ==
    /\ ~UpToDate(s, f)
    /\ MayLoad(s, f)
    /\ \E l \in FreeLibs(s), closes \in CloseResults :
          /\ libs' = [libs EXCEPT ![s] =
                [Unloaded(s, f, closes) EXCEPT
                    ![l] = [fn |-> f, row |-> Visible(s, f),
                            rc |-> IF cache[s][f] = NoLib THEN 2 ELSE 1]]]
          /\ cache' = [cache EXCEPT ![s][f] = IF @ = NoLib THEN l ELSE @]
          /\ Enter(s, f, l, resumes)

\* Mutant: a reload updates the library it finds, under the calls in it.
LoadAndRunInPlace(s, f, resumes) ==
    /\ ~UpToDate(s, f)
    /\ MayLoad(s, f)
    /\ \E l \in IF cache[s][f] = NoLib THEN FreeLibs(s) ELSE {cache[s][f]} :
          /\ libs' = [libs EXCEPT ![s][l] =
                [fn |-> f, row |-> Visible(s, f),
                 rc |-> IF cache[s][f] = NoLib THEN 2 ELSE @.rc + 1]]
          /\ cache' = [cache EXCEPT ![s][f] = l]
          /\ Enter(s, f, l, resumes)

\* prosrc::load into handle l, then mem::replace: the entry's Rc and the
\* caller's make two.  The old library is closed if no frame still runs it, and
\* a failing dlclose() is only logged.
LoadAndRun(s, f, resumes) ==
    /\ ~UpToDate(s, f)
    /\ MayLoad(s, f)
    /\ \E l \in FreeLibs(s), closes \in CloseResults :
          /\ libs' = [libs EXCEPT ![s] =
                [Unloaded(s, f, closes) EXCEPT
                    ![l] = [fn |-> f, row |-> Visible(s, f), rc |-> 2]]]
          /\ cache' = [cache EXCEPT ![s][f] = l]
          /\ Enter(s, f, l, resumes)

Evaluate(s, f, resumes) ==
    /\ InXact(s)
    /\ Len(frames[s]) < MaxDepth
    /\ Visible(s, f) # Gone
    /\ RunCached(s, f, resumes) \/ LoadAndRun(s, f, resumes)
    /\ UNCHANGED <<catalog, xactVars, view, required, iters, opened>>

\* A call from a query, or from a running function through SPI.
Call(s, f) == Evaluate(s, f, NoLib)

\* The next row of an open SETOF iterator, which lives in fcinfo.
Fetch(s, f) ==
    /\ iters[s][f] # NoLib
    /\ Idle(s)
    /\ Evaluate(s, f, iters[s][f])

\* The row is gone, prosrc::load refuses the lints, or the dlopen() fails: the
\* cached entry, if any, is left as it was and the command aborts.
CallFails(s, f) ==
    /\ InXact(s)
    /\ ~UpToDate(s, f)
    /\ AbortTop(s)

Frame(s) == frames[s][Len(frames[s])]

\* The innermost call returns, what it began being over, and its Rc is dropped.
Leave(s) ==
    /\ InXact(s) /\ Len(frames[s]) > Top(s).calls
    /\ \E closes \in CloseResults :
          libs' = [libs EXCEPT ![s] = DropRef(@, Frame(s).lib, closes)]
    /\ frames' = [frames EXCEPT ![s] = Pop(@)]
    /\ UNCHANGED <<catalog, xactVars, view, required, cache>>

\* It returned its value, or the end of its set.
Return(s) ==
    /\ Leave(s)
    /\ IF Frame(s).resumes = NoLib THEN UNCHANGED <<iters, opened>>
       ELSE /\ iters' = [iters EXCEPT ![s][Frame(s).fn] = NoLib]
            /\ opened' = [opened EXCEPT ![s][Frame(s).fn] = 0]

\* It returned a row of its set; its iterator waits for the next fetch, in a
\* cursor that some level of the transaction declared.
Yield(s) ==
    /\ Len(frames[s]) = 1
    /\ Frame(s).fn \in SetReturning
    /\ iters[s][Frame(s).fn] = Frame(s).resumes
    /\ Leave(s)
    /\ IF Frame(s).resumes # NoLib THEN UNCHANGED <<iters, opened>>
       ELSE /\ iters' = [iters EXCEPT ![s][Frame(s).fn] = Frame(s).lib]
            /\ \E level \in 1..Len(xact[s]) :
                  opened' = [opened EXCEPT ![s][Frame(s).fn] = level]

----------------------------------------------------------------------------
Init ==
    /\ committed = [f \in Fns |-> Gone]
    /\ fresh = Fns
    /\ nextXid = 1
    /\ xact = [s \in Sessions |-> <<>>]
    /\ cid = [s \in Sessions |-> 0]
    /\ combo = [s \in Sessions |-> 0]
    /\ view = [s \in Sessions |-> committed]
    /\ required \in [Sessions -> RequiredLints]
    /\ cache = [s \in Sessions |-> NoLibs]
    /\ libs = [s \in Sessions |-> [l \in Libs |-> Closed]]
    /\ frames = [s \in Sessions |-> <<>>]
    /\ iters = [s \in Sessions |-> NoLibs]
    /\ opened = [s \in Sessions |-> NotOpened]

Transact(s) ==
    \/ Begin(s) \/ Savepoint(s) \/ ReleaseSavepoint(s) \/ Commit(s) \/ Abort(s)
    \/ Catch(s) \/ AcceptInvalidations(s) \/ ReloadConfig(s) \/ Restart(s)

Define(s, f) ==
    Alter(s, f) \/ DropFunction(s, f) \/ Replace(s, f) \/ ReplaceFails(s, f)

Execute(s, f) == Call(s, f) \/ Fetch(s, f) \/ CallFails(s, f)

Next ==
    \E s \in Sessions :
        \/ Transact(s)
        \/ \E f \in Fns : Define(s, f) \/ Execute(s, f)
        \/ Return(s) \/ Yield(s)

Spec == Init /\ [][Next]_vars

----------------------------------------------------------------------------
(* Properties.                                                             *)

\* A call of plrust in progress; resumes is the library whose iterator it
\* continues.
FrameType == [fn : Fns, lib : Libs, resumes : Libs \cup {NoLib}]

\* Every variable keeps its shape.
TypeOK ==
    /\ committed \in [Fns -> Row \cup {Gone}]
    /\ fresh \subseteq Fns
    /\ nextXid \in 1..(MaxXid + 1)
    /\ xact \in [Sessions -> Seq(Level)]
    /\ cid \in [Sessions -> 0..(MaxCid + 1)]
    /\ combo \in [Sessions -> Nat]
    /\ view \in [Sessions -> [Fns -> Row \cup {Gone}]]
    /\ required \in [Sessions -> RequiredLints]
    /\ cache \in [Sessions -> [Fns -> Libs \cup {NoLib}]]
    /\ libs \in [Sessions -> [Libs -> Library \cup {Closed}]]
    /\ frames \in [Sessions -> Seq(FrameType)]
    /\ iters \in [Sessions -> [Fns -> Libs \cup {NoLib}]]
    /\ opened \in [Sessions -> [Fns -> Nat]]

\* The strong count of every mapped library is the number of calls running in
\* it, plus one if the cache holds it: the Rc's of evaluate_function, over
\* nested calls, reloads and unloads from inside a running function, and
\* unwinding.
CountsHolders ==
    \A s \in Sessions : \A l \in Libs :
        libs[s][l] # Closed =>
            libs[s][l].rc = References(frames[s], l) + Entries(cache[s], l)

\* No library is unmapped under a call that runs in it, or left in the cache
\* after it is unmapped, and it is the library of the function called.
HeldLibrariesMapped ==
    \A s \in Sessions :
        /\ \A i \in DOMAIN frames[s] :
              /\ libs[s][frames[s][i].lib] # Closed
              /\ libs[s][frames[s][i].lib].fn = frames[s][i].fn
        /\ \A f \in Fns :
              cache[s][f] # NoLib =>
                  /\ CachedLib(s, f) # Closed
                  /\ CachedLib(s, f).fn = f

\* A library nobody can reach is unmapped, as long as dlclose() works: calls,
\* reloads, failed replaces and aborted calls leave nothing behind.
NothingLeaks ==
    ~DlcloseMayFail =>
        \A s \in Sessions : \A l \in Libs :
            libs[s][l] # Closed =>
                \/ \E i \in DOMAIN frames[s] : frames[s][i].lib = l
                \/ \E f \in Fns : cache[s][f] = l

\* A session never has a library of a row version that another session has
\* written and not committed.
UncommittedIsPrivate ==
    \A s, t \in Sessions : \A l \in Libs :
        (s # t /\ libs[s][l] # Closed) =>
            \A i \in DOMAIN xact[t] : \A f \in Fns :
                xact[t][i].rows[f] \notin {Gone, Unwritten}
                    => libs[s][l].row.xid # xact[t][i].rows[f].xid

\* The generation number is a sound cache key: whenever the cached number
\* equals that of the row the session sees, the cached library is that row's,
\* after any commits, aborts and rollbacks to savepoints, and although
\* Postgres rewrites the t_cid that is half of the number.
SameGenerationSameCode ==
    \A s \in Sessions : \A f \in Fns :
        UpToDate(s, f) =>
            Content(CachedLib(s, f).row) = Content(Visible(s, f))

\* The version a call executes is the one its session sees when it is made.
RunsVisible ==
    \A s \in Sessions :
        Len(frames'[s]) > Len(frames[s]) =>
            LET call == frames'[s][Len(frames'[s])]
            IN  /\ Visible(s, call.fn) # Gone
                /\ Content(libs'[s][call.lib].row) = Content(Visible(s, call.fn))
CallsRunVisibleVersion == [][RunsVisible]_vars

\* The version a row defines, if there is a row.
VersionOf(row) == IF row = Gone THEN {} ELSE {Content(row)}

\* What a frame runs: nothing, should its library be unmapped under it.
Running(s, frame) ==
    [fn |-> frame.fn,
     version |-> IF libs[s][frame.lib] = Closed THEN {}
                 ELSE VersionOf(libs[s][frame.lib].row)]

SeenBy(s) == [f \in Fns |-> VersionOf(Visible(s, f))]
RunBy(s) == [i \in DOMAIN frames[s] |-> Running(s, frames[s][i])]

Calls == INSTANCE FnCalls WITH
    Versions <- Codes \X CompileLints,
    visible <- [s \in Sessions |-> SeenBy(s)],
    running <- [s \in Sessions |-> RunBy(s)]

\* FnCache implements FnCalls.  A call in progress keeps the version it was
\* made with while the function is replaced, dropped, altered, rolled back or
\* reloaded by a nested call, its handle never coming to mean another library;
\* and no step of one session changes what another sees or runs.
ImplementsFnCalls == Calls!Spec

\* plrust.required_lints names the lints a function must have been compiled
\* with before PL/Rust will execute it (gucs.rs, config-lints.md): every call
\* in progress runs code that has them.
RunningCodeHasRequiredLints ==
    \A s \in Sessions : \A i \in DOMAIN frames[s] :
        required[s] \subseteq libs[s][frames[s][i].lib].row.lints

\* Only a reload of the configuration that adds a lint can leave a session with
\* code that lacks one: while it adds none, every way a library is loaded goes
\* through prosrc::load's gate, nested calls, fetches and new versions included.
LoadedCodeHasRequiredLints(s) ==
    \A l \in Libs : libs[s][l] # Closed => required[s] \subseteq libs[s][l].row.lints
KeepsLints ==
    \A s \in Sessions :
        LoadedCodeHasRequiredLints(s) /\ required'[s] \subseteq required[s]
            => LoadedCodeHasRequiredLints(s)'
OnlyNewLintsOutdateCode == [][KeepsLints]_vars

\* A function that compiles will not crash (plrust.md): the iterator of a
\* set-returning function is only ever resumed by the library that made it,
\* whose code and vtables it points to.
IteratorResumedByItsLibrary ==
    \A s \in Sessions : \A i \in DOMAIN frames[s] :
        frames[s][i].resumes # NoLib => frames[s][i].lib = frames[s][i].resumes

\* A call of f is in progress or its iterator is open.
InUse(s, f) ==
    iters[s][f] # NoLib \/ \E i \in DOMAIN frames[s] : frames[s][i].fn = f

\* All that is in use of f is the one library that the next call will run.
Settled(s, f) ==
    InUse(s, f) =>
        /\ UpToDate(s, f)
        /\ iters[s][f] \in {NoLib, cache[s][f]}
        /\ \A i \in DOMAIN frames[s] : frames[s][i].fn = f =>
              /\ frames[s][i].lib = cache[s][f]
              /\ frames[s][i].resumes \in {NoLib, cache[s][f]}

\* The session goes on seeing the same row of f, and this is no CREATE OR REPLACE
\* of f, not even one that fails.
Undisturbed(s, f) ==
    Visible(s, f)' = Visible(s, f) /\ ~Replace(s, f) /\ ~ReplaceFails(s, f)

KeepsSettled ==
    \A s \in Sessions, f \in Fns :
        Settled(s, f) /\ (InUse(s, f) /\ InUse(s, f)' => Undisturbed(s, f)) => Settled(s, f)'

\* Nothing but another row of a function in use, or a CREATE OR REPLACE of it that
\* unloads its library and may then fail, can set a call on another library than
\* the iterator it resumes: not a rollback under an open cursor, a caught error,
\* nested calls, other functions' reloads, freed handles or failing dlclose().
OnlyRedefinitionStrands == [][KeepsSettled]_vars
============================================================================
