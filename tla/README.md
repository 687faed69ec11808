# Verifying PL/Rust

PL/Rust is a procedural language for Postgres: `CREATE FUNCTION ... LANGUAGE
plrust` turns a function body into a crate, has cargo build it, stores the
shared object in the catalog, and every backend that calls the function maps
that object and jumps into it. This directory has TLA+ modules of the parts that
decide *which code runs, and whether it is still there*, TLC runs over small
instances of them, and proofs checked by TLAPS.

Paths below are relative to `src/plrust/src/` unless they start with `src/`.

## The system

| Component | State | Operations | Talks to |
|---|---|---|---|
| Call handler and function cache (`lib.rs`, `plrust.rs`, `pgproc.rs`) | `LOADED_SYMBOLS`, a thread-local map from function oid to `Rc<UserCrate<FnReady>>` | `evaluate_function`, `unload_function` | reads `pg_proc` through the syscache; calls the loader |
| Validator and compiler (`lib.rs`, `plrust.rs`, `user_crate/{mod,crating,verify,build,loading,cargo}.rs`) | a `UserCrate` typestate; on disk `plrust.work_dir/<crate>` and `plrust.work_dir/target` | `plrust_validator`, `compile_function` | cargo child processes; `prosrc.rs` |
| prosrc entries (`prosrc.rs`) | the JSON in `pg_proc.prosrc`: source, version, one library per target with its lints | `create_or_replace_function`, `load`, `maybe_extract_source_from_json` | catalog updates; the lint gate |
| Lint gate (`user_crate/{validate,lint}.rs`) | none | `FnValidate::new`, `compile_lints`, `required_lints` | GUCs |
| Library loader (`user_crate/ready.rs`) | a `Library`, its symbol and its memfd per loaded function | `load`, `evaluate`, `close` | `memfd_create`, `dlopen`, `dlclose` |
| ALTER FUNCTION hook (`hooks.rs`) | the previous `ProcessUtility` hook | `plrust_process_utility_hook`, `handle_alter_function` | other hooks, the catalog |
| Dependency allow-list (`gucs.rs`, `user_crate/{mod,crating,build}.rs`) | `PLRUST_ALLOWED_DEPENDENCIES_CONTENTS`, a `Lazy` per backend; `Cargo.toml` and `Cargo.lock` in the crate directory | `parse_source_and_deps`, `check_dependencies_against_allowed`, `cargo_toml` | the file `plrust.allowed_dependencies` names; cargo's registry |
| Configuration (`gucs.rs`, `target.rs`) | GUCs | `compilation_targets`, `compile_lints` ... | everything above |
| Code generation (`user_crate/{crating,crate_variant}.rs`) | none | source, types and settings to `lib.rs` and `Cargo.toml` | compiler |
| plrustc and its lints (`src/plrustc/`) | none | a rustc driver | run by cargo |

How they meet: the validator runs inside the user's transaction, after Postgres
wrote the row. It drops the cached library, compiles, and updates the row once
per target. Other sessions learn of the new row when the transaction commits and
they process the invalidation message. A call compares the generation number of
its cached library, `(xmin << 32) | t_cid`, with that of the row it sees. All
sessions of all databases share `work_dir`. The hook guards the one attribute,
`STRICT`, that compiled code depends on.

What is hard here:

* **Stale state.** The cache key is made of two header fields that Postgres
  itself rewrites: `t_cid` of a row becomes the updater's command id (or a combo
  id) when the row is updated, even by a transaction that aborts. The iterator
  of a set-returning function lives across calls while the library that made it
  is held only during one.
* **Reentrancy.** A running function can call, replace or drop functions, itself
  included, through SPI; errors unwind any number of frames.
* **Shared and surviving state.** Crate directories, cargo's target directory,
  and cargo processes belong to no transaction and outlive failures and crashes;
  after a crash transaction ids, and so crate names, may be used again.
* **Names that are reused.** The dynamic linker knows a library by
  `/proc/self/fd/N`, and `N` comes back.
* **What is asked, what is allowed, what is built.** The allow-list admits a
  requirement; cargo resolves it later, once for each target, against a registry
  that changes, and every backend has its own copy of the list.
* **Check and use.** The hook resolves a name after Postgres did; the language
  is looked up before the statement runs.

`PROJECT.json` lists each such hazard at its line with the property that watches
it, or the reason that none does.

## The modules

| Module | Models | Properties |
|---|---|---|
| `FnCache` | the function cache against `pg_proc` | implements `FnCalls`; reference counts, lifetime of libraries, cache key, isolation, lints, iterators |
| `FnCalls` | abstract: a call runs the visible version and keeps it; sessions do not feel each other | |
| `FnCacheProofs` | theorems of `FnCache`: types, counts, lifetimes | |
| `FnCacheVersionProofs` | theorems of `FnCache`: cache key, isolation, versions, lints | |
| `FnCallsProofs` | theorems of `FnCache`: the refinement of `FnCalls`, iterators | |
| `FnStore` | abstract: `prosrc` changes in one step, to one with a faithful library for each target compiled now | |
| `CompileFn` | `compile_function`, the directories, cargo, crashes | implements `FnStore`; builds what was asked; no command spoils another's; advances and ends |
| `CompileFnProofs` | theorems of `CompileFn`, the refinement of `FnStore` among them | |
| `AllowedDeps` | dependencies: the check, the list, what cargo settles on | targets agree; built as required; admitted by one list; one verdict per backend |
| `AllowedDepsProofs` | theorems of `AllowedDeps` | |
| `LoadedCode` | abstract: the code of a loaded library is there, and the same, until it is closed | |
| `DlLoader` | `FnReady` against the linker and the descriptor table | implements `LoadedCode`; right bytes, own mappings |
| `DlLoaderProofs` | theorems of `DlLoader`, the refinement of `LoadedCode` among them | |
| `StrictHook` | the hook on `ALTER FUNCTION` | `STRICT` as compiled |
| `StrictHookProofs` | theorems of `StrictHook` | |
| `MC*` | values for TLC | |

`FnCache` takes compilation as one atomic step (`Replace`) and loading as
something that works or fails and gives it a handle of its own; `CompileFn`
opens the former and `DlLoader` the latter, which implements what `FnCache`
takes a handle for (`LoadedCode`). `AllowedDeps` opens another step of
`CompileFn`, the one in `Generate` that reads the dependencies, and what a build
does with them. The operators marked *Mutant* in the modules are not part of any
specification: each is a plausible bug in the code of the definition that
follows it, and shows that the property it goes with can fail.

### FnCache

`cache`, `libs`, `frames` are `LOADED_SYMBOLS`, the mapped libraries with their
strong counts, and the calls in progress, per session. `committed`, `view`,
`xact`, `cid`, `combo`, `nextXid` are what Postgres keeps: the committed row
versions, what the session's syscache returns, its transaction with one level
per savepoint, and its command counters. `iters` is the iterator a set-returning
function has left in `fcinfo`, `opened` the level that declared the cursor it
belongs to.

| Code | Action |
|---|---|
| `evaluate_function`, hit | `RunCached`: clone the `Rc`, run |
| `evaluate_function`, miss or changed | `LoadAndRun`: load, swap the entry, close the old library when nobody runs it |
| the same, failing in `get_lang`, `FnValidate::new` or `dlopen` | `CallFails`: the old entry stays |
| return of the user function | `Return`, or `Yield` for a row of a set |
| panic or ERROR in it | `Abort`: the innermost level is rolled back, the calls begun in it unwind |
| the same, caught by a function that made the call (`PgTryBuilder`) | `Catch`: the calls above that function unwind, nothing is rolled back |
| `plrust_validator` | `Replace`, `ReplaceFails`, with `unload_function` first; a failure rolls back the level but not the unload |
| other DDL on the row | `Alter`, `DropFunction`: plrust is not told |
| the rest of Postgres | `Begin`, `Savepoint`, `ReleaseSavepoint`, `Commit`, `AcceptInvalidations`, `ReloadConfig`, `Restart` |

Postgres is external: these actions are written from what plrust relies on.
`WriteRow` does what `heap_update` does to the header that plrust reads: the new
version has the writer's xid and command id, and the version it supersedes gets
its `t_cid` overwritten wherever it lives, on disk and in the levels a rollback
restores. That is why the generation alone is *not* a key for a row version:
`SameGenerationSameCode` holds because all versions of a function by one
transaction that differ in code go through the validator, and that unloads. The
mutant without the unload shows the collision.

A rollback ends one level. A savepoint may begin between commands or inside a
running function, as a PL/pgSQL block with an EXCEPTION clause does that the
function reaches through SPI; `Level.calls` is the number of calls that were
running then. Rolling the level back unwinds the calls above that number and
leaves those around it, with their libraries (`UnwindLevel`). A cursor is closed
by the rollback of the level that declared it, or by its own failing fetch
(`LosesCursor`); one that was declared before the savepoint stays open, also
when the function was replaced, or failed to be replaced, inside. A replace that
fails has stamped the `t_cid` of the row it meant to supersede all the same
(`WriteUndone`).

Abstractions: a row always has a library for this host (`CompileFn` shows that a
committed one does); the two syscache lookups in a call are one, since no
invalidation is processed in between with the lock the executor holds; a
function has at most one open cursor per session, and rows are fetched from it
between commands; the level that declares a cursor is any level of the
transaction at its first row. A failing command that is caught without a
savepoint after it has written is left out: `Catch` covers failing calls.

### CompileFn and FnStore

One `job` per session walks through `generate`, `provision`, `validate`,
`build`, `cargo`, `read`, `build` again for each further target, then one
catalog update per library, the removal of the crate, and the end of the
transaction. Each step has its failure beside it, and the failures differ in
what they leave: only a failing cargo (`CargoFails`) and the end of a successful
compilation (`Cleanup`) remove the crate directory.

cargo is a process of its own. It waits for the lock on the target directory
(`CargoStarts`), reads what the crate directory says *then*, writes the library
and lets go (`CargoSucceeds`). `Crash` ends every backend, keeps any subset of
the cargo processes, keeps both directories, and takes `nextGen` back to any
value above the committed rows. `Restart` changes `plrust.compilation_targets`,
which only the postmaster reads; the other settings may differ from one command
to the next.

`CopyDatabase` is `CREATE DATABASE ... TEMPLATE`, the one way a row gets under a
key it was not compiled for: the function of the new database has libraries and
a symbol that carry the template's names. The loader looks the symbol up by the
name that is recorded in the entry, which is why *faithful* (below) compares
symbols inside an entry and not with the function the entry belongs to. The step
is taken while nobody works in either database, as Postgres has it, and only for
a new database, one no crate, artifact or cargo process has the name of (oids
are not used again before they wrap).

What a user may submit (`Submissions`) is bare source, the prosrc of a row as
`pg_dump` writes it, or any other JSON that parses as an entry (`Entries`): a
dump of another cluster, or one that somebody edited. The code takes them all
(`prosrc.rs:99`, `user_crate/mod.rs:301`) and checks nothing in them, so their
libraries may be of other source, under another target, with a symbol or lints
that they do not have. A library is recorded by what went into it (source,
lints, version, target, symbol), so code generation and rustc are one record
construction, and the properties compare those records.

`FnStore` is what the rest of the system may assume: prosrc of a function
changes in one step, to an entry that has a faithful library for each target the
server compiles for now. Faithful means built from the source beside it, for the
target it is filed under, with the symbol and the lints recorded. It promises
nothing of libraries for other targets: those stay as they were submitted.
`PublishesFaithfulLibraries` is the refinement, with the committed rows as
`published` and the targets of the running server as `compiled`; a restart
changes the latter (`Configure`). `PublishesWhatWasAsked` is what the abstract
specification cannot say: the libraries of a commit are the ones *this*
command's settings and source ask for, whatever the restored entry had.

### AllowedDeps

| Code | Action or operator |
|---|---|
| `plrust_validator`, up to the crate | `Create` |
| `parse_source_and_deps`, dependencies accepted | `Admit` (the code may still not parse) |
| the same, refused by an error or a panic | `Refuse` |
| `check_user_dependencies` | `OnlyStrings` |
| `check_dependencies_against_allowed` | `Supported`, with `defined` for "the setting is there at all" |
| `Lazy` `PLRUST_ALLOWED_DEPENDENCIES_CONTENTS` | `contents`, `Forced`: read when first needed, and poisoned for good if that fails |
| `cargo_toml` | `CargoToml`: the template's dependencies, the user's over them |
| `provision` | `Provision`: `Cargo.toml` is written over, a `Cargo.lock` that is there stays |
| `build_internal` per target | `Build`: `Resolutions` keeps locked versions that still satisfy, and writes the lock |
| any failure from there on | `Fail` |
| the rest | `Edit` of the file, `Release` or yank of a version, `Reconnect`, `Restart` of the server in any state |

A requirement is the set of versions it matches, and the registry is the set of
versions cargo may choose of each crate. The list itself names one version of a
crate; a requirement that matches it also matches others, so a commit is
*admitted* without the allowed version being the one that is built (`mod.rs:375`
says no more than that it matches). `BuiltAsRequired` and `AdmittedByAList`
therefore speak of requirements, and `TargetsAgree` of versions.

Simplifications: features and other keys of list entries are not read by the
code and not modelled; the order of the targets is a constant (`BuildOrder`),
settings changing is `CompileFn`'s; the cargo processes and directories that
failed commands leave are in `CompileFn` only; here a crash leaves, for each
function, the directory of a command that was building, to be met again under
the same name. `held` and `verdicts` are history variables that the code does
not have.

### DlLoader

`files` is the descriptor table as far as memfds go, `foreign` the descriptors
the rest of the backend opens and closes, `mapped` the linker's list by name,
`ready` the `FnReady` values. `Load` writes a memfd on the lowest free
descriptor, opens its `/proc/self/fd` name, and finds the wrapper by name in
whatever the linker answered. `Close` calls `dlclose()` first and then lets the
memfd go, in either case. `Dlclose` may leave the library mapped (it failed, or
thread-local destructors are pending); `kept` remembers it.

`LoadedCode` is the same without descriptors, names and counts. A handle enters
the code of its bytes, or of a library of that function that an earlier
`dlclose()` left, and no step of another handle changes which.
`ImplementsLoadedCode` looks the code up in the linker's list *now*, so it fails
also when a mapping goes, or its name comes to mean another library, while a
loaded function still points there.

### StrictHook

`rows` has the language, the flag and the flag it was `built` for; `alters` the
statements in execution, at the stage before or after the previous hook ran.
Another hook may rewrite the statement. The functions are all those of one name
and argument list in the order of `search_path`. The extension is installed and
dropped, each time with a new language oid; with `InstallAnytime` also while
ALTER FUNCTION runs.

The hook checks and uses at two points: it reads the language oid before the
statement and resolves the name again after it. `QuietSpec` says what it takes
for granted in between, of everyone else: the extension is not installed during
an ALTER FUNCTION (`hooks.rs:86`; it may be dropped), and between the update and
the second lookup no function of the name appears earlier in `search_path`
(`hooks.rs:183`). Without the first TLC finds `StrictMatchesBuild` violated, and
`strict_shadow` shows what happens without the second.

## The runs

TLC, with the bounds that are in the `.cfg` files. "Pass" runs explore all
states.

| Run | Shows | Bounds |
|---|---|---|
| `cache_nested` | refinement of `FnCalls`: calls run the version their session sees and keep it; no session ever has another's uncommitted version; nothing leaks | 2 sessions, 1 function, 2 codes, 3 xids, command ids up to 2, 2 nested calls, 2 libraries |
| `cache_savepoints` | the generation is a sound key; counts are exact; nothing held is unmapped; when code can lack required lints, or an iterator lose its library | 1 session, 1 function, versions that differ in their lints, savepoint depth 2, savepoints inside calls, errors caught, command ids up to 2, set-returning function with cursor, `required_lints` changing, `dlclose()` failing |
| `compile_shared` | refinement of `FnStore`; right libraries; crates of committed functions are gone; no command is failed or set back by another | 2 sessions, 2 functions, 2 settings, 2 targets, an edited entry of another cluster, a crash |
| `compile_ends` | every CREATE FUNCTION ends | 2 sessions, orphans |
| `deps` | what is built is required, admitted and the same for every target | 2 sessions, 1 function, 2 targets, 3 crates with 2 versions, 6 manifests, 3 lists, 2 events around the commands |
| `loader` | refinement of `LoadedCode`; right bytes, own mappings, nothing left | 3 handles, 3 libraries of 2 functions, 4 descriptors |
| `strict` | the flag is the one compiled for; only PL/Rust functions are refused | 2 sessions, 2 functions, 2 installations at any time `Quiet` leaves |

Why these are enough to be interesting. Two sessions give every order of write,
commit, invalidation and call; a third would only repeat one of the roles. Two
levels of savepoint suffice for a superseded row in an outer level that a
rollback brings back. Three xids allow a version, its replacement and a third
one after an abort. Two nested calls and two library handles let a running
function be reloaded under itself; when there are no free handles a load waits
for one, which only prunes longer histories. Three descriptors for functions
plus one leave room for a foreign descriptor in any place. In `compile_shared`
two generations and one crash include a second command under a name that the
first left on disk; the entry from elsewhere has a library of another function,
with lints it was not built with, under both targets, one of them the wrong one.
In `deps` two targets are what a release between builds needs; two events cover
an edit before and after a verdict, a crash with a release after it, and a
reconnect with an edit; the manifests and lists have each way to pass and to
fail. `strict` has two functions of a name, one hiding the other. With one
function, `cache_savepoints` cannot have the reload of one function touch the
iterator of another; the theorem covers that.

Deadlock is checked everywhere but in the `CompileFn` runs, where the
generations run out (`MaxGen`).

### Where the code and its texts part

These runs check one statement of the repository's own documentation or comments
each, and TLC finds a behaviour of the code without it.

| Run | Statement | What happens |
|---|---|---|
| `cache_stale_lints` | `required_lints` must have been applied "before PL/Rust will execute it" (`gucs.rs:110`) | they are compared when a library is loaded; a cached one runs on after SIGHUP |
| `cache_stale_iterator` | a function that compiles will not "crash" (`src/doc/src/plrust.md:75-76`) | a set-returning function is replaced and called between two fetches of a cursor; the next fetch enters the new library with an iterator of the closed one |
| `compile_foreign_libs` | "We ignore everything else that was there" (`user_crate/mod.rs:295-297`) | a restored entry keeps its libraries of other targets, and the `trusted_pgx_version` it names |
| `loader_lingers` | the memfd is kept lest `dlopen()` "won't open the new library" (`user_crate/ready.rs:81-83`) | a library that stays mapped is found under its reused name, and an old version runs |
| `strict_shadow` | "block any attempted change to the `STRICT` property" (`hooks.rs:174`) | a function committed earlier in `search_path` meanwhile is what the second lookup finds |

### Fairness

Only `compile_ends` needs it (`FairSpec`): a backend keeps working on its
command (WF per session: it is straight-line code that blocks only in
`command.output()`); a cargo that has the lock ends (WF: assumes rustc
terminates, which nothing in plrust enforces); a cargo that waits for the lock
gets it (SF, since others come and go before it: the lock is an `flock()` queue
in the kernel). Without the strong form a stream of other sessions' builds
starves one. The other modules claim safety only.

## The proofs

`tlapm` checks the seven proof modules from nothing, for all values of the
constants that satisfy the modules' named assumptions. Every safety property
that a passing run checks is a theorem. Each statement that a run above refutes
in general has a theorem that says under which condition it does hold:

| Refuted in | Theorem | Condition |
|---|---|---|
| `cache_stale_lints` | `RunningCodeIsLinted` | no session's `required_lints` gain a lint |
| `cache_stale_iterator` | `IteratorsSurviveOtherwise` | no session sees another row of a function in use, or submits a CREATE OR REPLACE of it, not even one that fails |
| `compile_foreign_libs` | `TargetsKeptLibrariesOwn` | no restart takes out a target, and no entry from elsewhere has libraries of others |
| `loader_lingers` | `OldBytesNeedALeftover` | what stays mapped is the only library of its function |
| `strict_shadow` | `StrictStaysAsBuilt` | `QuietSpec` |

**FnCacheProofs.** `RcInvariance` proves `RcInv` and `CallsNest` inductive. The
latter says how savepoints lie in calls: each level of a transaction began among
calls that are still in progress, and no earlier than the levels around it. So
rolling one back leaves frames that are whole, and a call returns only when the
levels it began are over. `RcInv` is the types of all variables, `combo <= cid`
in every session (without it `combo` has no bound and the stamp leaves the
type), and `SessionOK` for every session. `SessionOK` says of each mapped
library that its count equals the frames in it plus its cache entries, and of
each frame and entry that its library is mapped and is the right function's.
They are needed at once: that a count is exact is what makes `rc = 1` mean
"nobody else", so that a reload or an unload closes nothing that runs; that a
library belongs to one function is what makes an entry appear once in the count.
The lemmas about `References` and `Entries` (cardinalities of frames and
entries) carry the arithmetic. From it: `TypeCorrect`, `CountsAreExact`,
`LibrariesOutliveTheirCalls`. `NothingIsLeaked` adds that while `dlclose()`
works every mapped library has a positive count (`AllLive`, inductive relative
to `RcInv`); counts being exact, somebody holds it.

**FnCacheVersionProofs.** `VersionInvariance` adds two parts to those. `XidsOK`:
a transaction in progress is known to its own session only, whether by a row of
one of its levels or by a loaded library. `VersionsOK`: row versions of one
transaction that a session can come to see agree in code. They may stand in its
savepoint levels (`LevelsOK`), its view and the committed rows, and a cached
library agrees with all of those (`CacheOK`, `Follows`). `Follows` is the heart:
if a cached library is of a level's transaction, that level and every level
inside it has the same code or has dropped the function, because whoever writes
other code is the validator, which drops the entry first. So a rollback to a
savepoint only ever uncovers rows that the entry agrees with. The argument does
not use `t_cid`: the half of the generation that Postgres rewrites could be left
out and the theorems would still hold, while without the unload in the validator
they do not (`ReplaceKeepsCache`). From it: `UncommittedStaysPrivate`,
`GenerationsAreSound`, `CallsRunWhatTheySee`.

Its last part is about lints. Every loaded library got there through
`prosrc::load`, in `LoadAndRun`, the only action after which a handle means
another library (`OnlyLoadsLoad`). So a session whose libraries all have the
required lints keeps that until its configuration gains one
(`NewLintsAloneOutdateCode`), and where none is ever gained
`RunningCodeIsLinted`: the statement that `cache_stale_lints` refutes in
general.

**FnCallsProofs.** `CallsImplemented`: `FnCache` implements `FnCalls`, whose
`running` is what the handles in `frames` mean. An abstract call keeps its
version by having it; a concrete one has a handle, so the proof is that handles
keep their meaning. One that a frame holds is mapped before the step and, if the
frame stays, after it (`SessionOK`, on both sides), and no step changes the row
of a handle that is mapped on both sides (`RowsStay`, from the lemmas `*Keeps`
on `DropRef`, `Unloaded` ...). That a new frame runs the visible version is
`EvaluateRunsVisible`, from `VersionInv`.

Its second part is about iterators. `Settled` says of a function of a session
that all that is in use of it, open iterator and running calls, is the one
cached library, and that this is up to date. A step that neither changes the row
the session sees nor is a CREATE OR REPLACE of the function keeps that, since a
reload happens only when the entry is not up to date
(`OnlyRedefinitionUnsettles`). The replace counts also when it fails: inside a
savepoint that is rolled back it leaves the row as it was and the cursor open,
but not the entry, and the next fetch loads the library anew. Where nothing of
that happens to a function in use, all functions are always settled:
`IteratorsSurviveOtherwise`, the statement `cache_stale_iterator` refutes in
general.

**CompileFnProofs.** `CompileInvariance` goes from locks to files. `LocksOK`:
two commands never have the same function, and a command's generation is above
its function's committed one; so crate names differ and none is a committed
function's. `CrateOK`: from provision on, the crate directory says what the
command generated. `CargosOK`: a process with an owner builds what the owner
waits for, there is one per owner, and one at most has the lock. `ReadOK`: what
is about to be read was built from the command's own crate, and an orphan of the
same name that has the lock has read that same crate. Orphans from before a
crash are the reason for the last clause: one that had the lock when the new
command provisioned has to let go before the command's own cargo can read and
write, and one that gets it later finds the new files. `JobOK` carries the
libraries from there to the row, and keeps count of which targets are still to
be built, stored, or in the entry with the command's own library (`Own`), which
whatever was submitted for that target has been replaced by. From it:
`TypeCorrect`, `CratesAreRemoved`, `CommitsWhatWasAsked`, and
`ImplementsFnStore`, where `Commit`, `CopyDatabase` and `Restart` are the steps
of `FnStore` and all others stutter; it needs that a command in progress has the
targets of the running server (`TargetsInvariance`), since the server restarts
only when nobody compiles. `OnlyOwnErrorsFail` reads off the same invariant that
a command that builds has its crate, one that reads has its artifact, and one
that cleans up has its directory. `CommandsDoAdvance` bounds `CreateEnds` from
the safety side: `Work`, the targets left and the steps left of the present one,
is a natural number that each step of the command or its cargo lowers and no
other step raises. Three assumptions are technical: that what `Entries` holds
parses as an entry (`EntriesAssumption`), that the list of other targets is a
sequence of targets (`CompileFnAssumption` says it of `OtherTargets`, which is
`SelectSeq`, a recursive definition the prover cannot unfold; TLC evaluates it),
and that the values that stand for "none" are no jobs or rows
(`NoneAssumption`).

Its last parts are about libraries of targets that are not compiled, which come
from the submitted entry. If all JSON from elsewhere is whole (`WholeEntries`),
as what a PL/Rust wrote and nobody edited is, so is every row: `RowsStayWhole`.
And an entry brings such a library only if it was written under settings that
had the target. While targets are only added (`NoTargetDropped`) and entries
from elsewhere have none but those compiled now (`EntriesCompiled`), every
library in a row, in what is being submitted or restored, and in a command is of
a target compiled now (`OwnLibs`), hence `TargetsKeptLibrariesOwn`.

**AllowedDepsProofs.** `DepsInvariance`: a command past the check was let
through by the list its backend holds (`JobOK`), which is sound since the
backend's copy does not change while it lives; one that builds does so from its
own `Cargo.toml`, and each library it has has exactly what `Cargo.lock` has
(`Locked`), since locked versions that satisfy the requirement are kept by the
next build; a row has one resolution for all targets (`RowOK`); recorded
verdicts are the ones the backend's list gives (`VerdictOK`). From it:
`TypeCorrect`, `TargetsBuiltAlike`, `BuiltFromOwnToml`, `CommitsAreAdmitted`,
`VerdictsAreFinal`.

**DlLoaderProofs.** `LinkerInvariance` ties the three tables together: a loaded
function has its memfd and its mapping open, once, and alone; any other mapping
lingers and is open to nobody. So the lowest free descriptor never names a
mapping that is in use. From it: `FunctionsRunTheirBytes`,
`FunctionsOwnTheirMappings`, `ClosedLibrariesUnmap`. For `LoaderImplementsCode`
the abstract state is read off the linker's list, which a step may change at
many names. The invariant says that it is also what each function found when it
was loaded (`CodeFound`), which only its own `Load` and `Close` change; so each
step is one abstract step on one handle, a failed load an `Unmap` at most.
`OldBytesNeedALeftover` needs no more than that a leftover is the only library
there is of its function: nothing else can then be found under its name.
`TypeCorrect` assumes a finite number of `FnReady` values, without which "how
often a name is open" has no bound.

**StrictHookProofs.** `HookInvariance`: a PL/Rust row has the language as
installed now; a statement in execution knows that language, and once it has
updated a row it has that row to itself and holds what it made of it. So the row
the hook examines is the one Postgres altered, and a change to it that is let
through either leaves a PL/Rust row as it was or is not about one. That no
function shows up earlier in `search_path`, and no new language oid meanwhile,
is what `Quiet` grants; dropping the extension needs no assumption. From it:
`StrictStaysAsBuilt`, `OthersAreNotRefused`, `TypeCorrect`, all of `QuietSpec`.
`OneFunctionIsQuiet` discharges the assumption for `Spec` itself where a name
means one function and the extension stays during an ALTER FUNCTION.

Model-checked only: `CreateEnds`, as liveness under fairness is beyond the
prover (its safety part, `CommandsAdvance`, is proved), and the five
counterexamples.

## Not modelled, and why

* Code generation, type mapping, plrustc and its lints: translations of program
  text whose inputs are syntax trees. The models record what they depend on.
* plrustc's driver: each run is a process of its own that keeps nothing; it
  turns arguments and environment into arguments of rustc and decides which
  files may be included. A model would say the same again, with no step of
  another actor in between.
* cargo's environment (`cargo.rs`): that putting it together may fail is in
  `SpawnFails`; the variables themselves are one assignment each.
* semver: a requirement is the set of versions it matches.
* Compression and base64 of libraries: bytes go through unchanged.
* The loader on other platforms, where a temporary file replaces the memfd.
* Wraparound of the 32-bit xid in the generation number.
* `plrust_validator` called directly by a user, which compiles again under the
  same crate name.
* A CREATE OR REPLACE that fails inside a running function and is caught there
  without a savepoint: its writes would stay, which Postgres does not provide
  for.
* Crate directories left by errors between provisioning and the end of a
  compilation: they are in the model (`crates`) and harmless to later commands,
  which is what is checked; that they are never removed is visible in
  `ValidateFails`, `SpawnFails`, `ReadArtifactFails` and `StoreFails`.
* NULL arguments in a query that cached the `STRICT` flag before a replace.
* Error formatting, logging, build scripts, CI.

* `FnCache` over `DlLoader` as one state machine. The two meet in three calls
  (load, evaluate, close), and what `FnCache` takes a handle for, code that is
  there and the same until it is closed, is `LoadedCode`, which `DlLoader` is
  proved to implement. Their state spaces multiply, and the one behaviour that
  crosses the border (a library that stays mapped) is `loader_lingers`.
* Replication: a standby runs what the primary stored; that its target has a
  library of the same sources and versions is `PublishesWhatWasAsked` and
  `TargetsAgree`.

## What is left

Every component with state has its module, and every safety property of a
passing run its theorem. What could be added: the loader of other platforms,
whose temporary file has no name that comes back; the executor's cached `STRICT`
flag.
