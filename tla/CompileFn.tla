----------------------------- MODULE CompileFn -----------------------------
(***************************************************************************)
(* CREATE [OR REPLACE] FUNCTION ... LANGUAGE plrust from the validator to  *)
(* the commit (compile_function in plrust.rs and the UserCrate states it   *)
(* walks through).                                                         *)
(*                                                                         *)
(* A session generates a crate, writes it under plrust.work_dir, has cargo *)
(* build it for the host and then for each cross compilation target, adds  *)
(* one library after another to pg_proc.prosrc and removes the crate.  The *)
(* row belongs to the session's transaction; the crate directory, cargo's  *)
(* target directory and the cargo processes do not.  All sessions share    *)
(* them, and they survive a failed command and a crash.                    *)
(*                                                                         *)
(* Postgres, cargo and the file system are modelled from how plrust uses   *)
(* them.  A generation stands for (xmin, cmin) of the row Postgres wrote.  *)
(***************************************************************************)
EXTENDS Integers, Sequences, FiniteSets

CONSTANTS
    Sessions,    \* backends of the cluster
    Fns,         \* functions: a database and an oid
    Srcs,        \* user code with its [dependencies]
    Symbols,     \* names that libraries export; that of a function is the function
    Entries,     \* ProSrcEntry values a user may write out as JSON
    Configs,     \* settings postgresql.conf may hold, see Config
    Host,        \* the target triple plrust was built for
    Targets,     \* all target triples
    LintSets,    \* sets of lints
    Versions,    \* versions of plrust-trusted-pgx
    MaxGen,      \* bound on the generations of rows
    MaxCrashes,  \* bound on crashes of the cluster
    NoRow,       \* no pg_proc row
    Raw,         \* prosrc holds bare source code
    NoJob,       \* the session runs no CREATE FUNCTION
    Unread,      \* cargo has not read the crate yet
    Nobody       \* a cargo process whose backend is gone

\* plrust.compile_lints, plrust.trusted_pgx_version, plrust.compilation_targets.
Config == [lints : LintSets, version : Versions, targets : Seq(Targets)]

OtherTargets(config) == SelectSeq(config.targets, LAMBDA target : target # Host)

\* The host, whatever is configured, then the other targets in their order.
CompilationTargets(config) == <<Host>> \o OtherTargets(config)

ASSUME CompileFnAssumption ==
    /\ Configs \subseteq Config
    /\ \A config \in Configs : OtherTargets(config) \in Seq(Targets)
    /\ Host \in Targets
    /\ Fns \subseteq Symbols
    /\ MaxGen \in Nat
    /\ MaxCrashes \in Nat
    /\ Nobody \notin Sessions
    /\ Raw \notin Versions

VARIABLES
    targets,     \* plrust.compilation_targets of the running server
    committed,   \* the committed pg_proc row of each function
    nextGen,     \* the generation of the next row version
    job,         \* per session, the CREATE FUNCTION it runs
    crates,      \* plrust.work_dir: crate name -> what its files say
    artifacts,   \* plrust.work_dir/target: <<crate name, target>> -> library
    cargos,      \* running cargo processes
    crashes      \* the number of crashes so far

vars == <<targets, committed, nextGen, job, crates, artifacts, cargos, crashes>>

----------------------------------------------------------------------------
(* Data.                                                                   *)

\* What lib.rs and Cargo.toml say.
Crate == [src : Srcs, lints : LintSets, version : Versions]

\* A shared object, by what it was made from.
Artifact ==
    [src : Srcs, lints : LintSets, version : Versions, target : Targets, symbol : Symbols]

SharedLibrary == [bytes : Artifact, symbol : Symbols, lints : LintSets]

PartialFunctions(S, T) == UNION {[D -> T] : D \in SUBSET S}

\* prosrc: bare code, or the JSON of a ProSrcEntry.
ProSrcEntry ==
    [src : Srcs, trusted_pgx_version : Versions \cup {Raw},
     lib : PartialFunctions(Targets, SharedLibrary)]

Source(src) == [src |-> src, trusted_pgx_version |-> Raw, lib |-> <<>>]

IsJson(body) == body.trusted_pgx_version # Raw

\* Any JSON that serde takes for an entry: the prosrc of another cluster or of an
\* old row, or text somebody edited, whose libraries need not be what they claim.
ASSUME EntriesAssumption ==
    \A entry \in Entries : entry \in ProSrcEntry /\ IsJson(entry)

\* Mutant: a crate name that leaves the generation out.
CrateNameOfFn(f, gen) == <<f, 0>>

\* crate_name, plrust_fn_oid_<db>_<fn>_<generation>.
CrateName(f, gen) == <<f, gen>>

Put(function, key, value) ==
    [k \in DOMAIN function \cup {key} |-> IF k = key THEN value ELSE function[k]]

Without(function, key) == [k \in DOMAIN function \ {key} |-> function[k]]

Busy(s) == job[s] # NoJob
At(s, pc) == Busy(s) /\ job[s].pc = pc
NameOf(s) == CrateName(job[s].fn, job[s].gen)

\* lib_rs and cargo_toml: the source and the settings of the session.
Generated(s) == [src |-> job[s].body.src, lints |-> job[s].config.lints,
                 version |-> job[s].config.version]

Command(pc, f, gen, config, body, todo, built) ==
    [pc |-> pc, fn |-> f, gen |-> gen, config |-> config, body |-> body,
     todo |-> todo, built |-> built]

Goto(s, pc) == job' = [job EXCEPT ![s].pc = pc]

\* The command fails and its transaction with it.
Fail(s) == job' = [job EXCEPT ![s] = NoJob]

----------------------------------------------------------------------------
(* The command.                                                            *)

\* What the user may write after AS: code, any JSON that is an entry, the prosrc
\* of a row of this cluster for one, as pg_dump wrote it out.
Submissions ==
    {Source(src) : src \in Srcs} \cup Entries
        \cup {committed[f].body : f \in {g \in Fns : committed[g] # NoRow}}

\* Postgres writes the row, which locks it, and calls plrust_validator.  The
\* GUCs that SIGHUP may change do so between commands only.
Create(s, f) ==
    /\ ~Busy(s)
    /\ \A t \in Sessions : Busy(t) => job[t].fn # f
    /\ nextGen <= MaxGen
    /\ \E body \in Submissions, config \in {c \in Configs : c.targets = targets} :
          job' = [job EXCEPT ![s] = Command("generate", f, nextGen, config, body,
                                            CompilationTargets(config), <<>>)]
    /\ nextGen' = nextGen + 1
    /\ UNCHANGED <<targets, committed, crates, artifacts, cargos, crashes>>

\* UserCrate::try_from_fn_oid: only the source counts, JSON or not.
Generate(s) ==
    /\ At(s, "generate")
    /\ Goto(s, "provision")
    /\ UNCHANGED <<targets, committed, nextGen, crates, artifacts, cargos, crashes>>

\* The code or its dependencies do not parse or are not allowed, or an
\* argument type is not supported.
GenerateFails(s) ==
    /\ At(s, "generate")
    /\ Fail(s)
    /\ UNCHANGED <<targets, committed, nextGen, crates, artifacts, cargos, crashes>>

\* Mutant: a crate directory found in place is taken as it is.
ProvisionReuses(s) ==
    /\ At(s, "provision")
    /\ crates' = IF NameOf(s) \in DOMAIN crates THEN crates
                 ELSE Put(crates, NameOf(s), Generated(s))
    /\ Goto(s, "validate")
    /\ UNCHANGED <<targets, committed, nextGen, artifacts, cargos, crashes>>

\* provision: make the directory unless it exists, write over lib.rs, with the
\* lints of plrust.compile_lints, and Cargo.toml.
Provision(s) ==
    /\ At(s, "provision")
    /\ crates' = Put(crates, NameOf(s), Generated(s))
    /\ Goto(s, "validate")
    /\ UNCHANGED <<targets, committed, nextGen, artifacts, cargos, crashes>>

\* It fails before or after the directory is there.
ProvisionFails(s) ==
    /\ At(s, "provision")
    /\ \/ UNCHANGED crates
       \/ crates' = Put(crates, NameOf(s), Generated(s))
    /\ Fail(s)
    /\ UNCHANGED <<targets, committed, nextGen, artifacts, cargos, crashes>>

\* validate: `cargo --version` works.
Validate(s) ==
    /\ At(s, "validate")
    /\ Goto(s, "build")
    /\ UNCHANGED <<targets, committed, nextGen, crates, artifacts, cargos, crashes>>

\* It does not.  The crate directory stays.
ValidateFails(s) ==
    /\ At(s, "validate")
    /\ Fail(s)
    /\ UNCHANGED <<targets, committed, nextGen, crates, artifacts, cargos, crashes>>

----------------------------------------------------------------------------
(* build_internal, once per target, and the cargo process it runs.         *)

Spawn(s) ==
    /\ At(s, "build") /\ job[s].todo # <<>>
    /\ cargos' = cargos \cup {[crate |-> NameOf(s), target |-> Head(job[s].todo),
                               owner |-> s, read |-> Unread]}
    /\ Goto(s, "cargo")
    /\ UNCHANGED <<targets, committed, nextGen, crates, artifacts, crashes>>

\* The command cannot be put together or started.  The crate directory stays.
SpawnFails(s) ==
    /\ At(s, "build") /\ job[s].todo # <<>>
    /\ Fail(s)
    /\ UNCHANGED <<targets, committed, nextGen, crates, artifacts, cargos, crashes>>

Holds(c) == c.read # Unread

\* cargo locks the target directory, finds the crate changed since it was last
\* built, if it was, and reads it.
CargoStarts(c) ==
    /\ \A d \in cargos : ~Holds(d)
    /\ c.crate \in DOMAIN crates
    /\ cargos' = (cargos \ {c}) \cup {[c EXCEPT !.read = crates[c.crate]]}
    /\ UNCHANGED <<targets, committed, nextGen, job, crates, artifacts, crashes>>

\* It writes the library and releases the lock; its backend, if any, goes on.
CargoSucceeds(c) ==
    /\ Holds(c)
    /\ artifacts' = Put(artifacts, <<c.crate, c.target>>,
                        [src |-> c.read.src, lints |-> c.read.lints,
                         version |-> c.read.version, target |-> c.target,
                         symbol |-> c.crate[1]])
    /\ cargos' = cargos \ {c}
    /\ IF c.owner = Nobody THEN UNCHANGED job ELSE Goto(c.owner, "read")
    /\ UNCHANGED <<targets, committed, nextGen, crates, crashes>>

\* Mutant: a failed build is tried again.
CargoFailsRetries(c) ==
    /\ cargos' = cargos \ {c}
    /\ IF c.owner = Nobody THEN UNCHANGED job ELSE Goto(c.owner, "build")
    /\ UNCHANGED <<targets, committed, nextGen, crates, artifacts, crashes>>

\* The code does not compile, cargo is killed, or the crate is not there.  The
\* backend removes the crate directory, if that works, and fails.
CargoFails(c) ==
    /\ cargos' = cargos \ {c}
    /\ IF c.owner = Nobody THEN UNCHANGED <<crates, job>>
       ELSE /\ crates' \in {crates, Without(crates, c.crate)}
            /\ Fail(c.owner)
    /\ UNCHANGED <<targets, committed, nextGen, artifacts, crashes>>

\* target/<triple>/release/lib<crate>.so, read after cargo let go of its lock.
ReadArtifact(s) ==
    /\ At(s, "read")
    /\ <<NameOf(s), Head(job[s].todo)>> \in DOMAIN artifacts
    /\ LET target == Head(job[s].todo)
           library == [target |-> target, bytes |-> artifacts[<<NameOf(s), target>>]]
       IN  job' = [job EXCEPT ![s] =
              Command("build", job[s].fn, job[s].gen, job[s].config, job[s].body,
                      Tail(job[s].todo), Append(job[s].built, library))]
    /\ UNCHANGED <<targets, committed, nextGen, crates, artifacts, cargos, crashes>>

\* The read fails.  The crate directory stays.
ReadArtifactFails(s) ==
    /\ At(s, "read")
    /\ Fail(s)
    /\ UNCHANGED <<targets, committed, nextGen, crates, artifacts, cargos, crashes>>

----------------------------------------------------------------------------
(* create_or_replace_function, once per library, and the end.              *)

\* Bare code becomes a ProSrcEntry; JSON keeps what it says.
EntryOf(body, version) ==
    IF IsJson(body) THEN body ELSE [body EXCEPT !.trusted_pgx_version = version]

\* Mutant: a library the restored prosrc has already is kept.
WithLibraryKept(entry, target, library) ==
    IF target \in DOMAIN entry.lib THEN entry
    ELSE [entry EXCEPT !.lib = Put(entry.lib, target, library)]

WithLibrary(entry, target, library) ==
    [entry EXCEPT !.lib = Put(entry.lib, target, library)]

\* One catalog update inside the transaction.
Store(s) ==
    /\ At(s, "build") /\ job[s].todo = <<>> /\ job[s].built # <<>>
    /\ LET built == Head(job[s].built)
           library == [bytes |-> built.bytes, symbol |-> job[s].fn,
                       lints |-> job[s].config.lints]
       IN  job' = [job EXCEPT ![s] =
              Command("build", job[s].fn, job[s].gen, job[s].config,
                      WithLibrary(EntryOf(job[s].body, job[s].config.version),
                                  built.target, library),
                      job[s].todo, Tail(job[s].built))]
    /\ UNCHANGED <<targets, committed, nextGen, crates, artifacts, cargos, crashes>>

\* The update raises an ERROR or is cancelled.  The crate directory stays.
StoreFails(s) ==
    /\ At(s, "build") /\ job[s].todo = <<>> /\ job[s].built # <<>>
    /\ Fail(s)
    /\ UNCHANGED <<targets, committed, nextGen, crates, artifacts, cargos, crashes>>

\* Mutant: plrust.work_dir is emptied.
CleanupEmptiesWorkDir(s) ==
    /\ At(s, "build") /\ job[s].todo = <<>> /\ job[s].built = <<>>
    /\ NameOf(s) \in DOMAIN crates
    /\ crates' = <<>>
    /\ Goto(s, "done")
    /\ UNCHANGED <<targets, committed, nextGen, artifacts, cargos, crashes>>

\* "cleanup after ourselves".
Cleanup(s) ==
    /\ At(s, "build") /\ job[s].todo = <<>> /\ job[s].built = <<>>
    /\ NameOf(s) \in DOMAIN crates
    /\ crates' = Without(crates, NameOf(s))
    /\ Goto(s, "done")
    /\ UNCHANGED <<targets, committed, nextGen, artifacts, cargos, crashes>>

\* Mutant: a directory that cannot be removed is only logged.
CleanupLogs(s) ==
    /\ At(s, "build") /\ job[s].todo = <<>> /\ job[s].built = <<>>
    /\ Goto(s, "done")
    /\ UNCHANGED <<targets, committed, nextGen, crates, artifacts, cargos, crashes>>

\* The directory cannot be removed, or is not there: the command fails even
\* though everything was built.
CleanupFails(s) ==
    /\ At(s, "build") /\ job[s].todo = <<>> /\ job[s].built = <<>>
    /\ Fail(s)
    /\ UNCHANGED <<targets, committed, nextGen, crates, artifacts, cargos, crashes>>

\* The transaction ends.
Commit(s) ==
    /\ At(s, "done")
    /\ committed' = [committed EXCEPT
                       ![job[s].fn] = [gen |-> job[s].gen, body |-> job[s].body]]
    /\ job' = [job EXCEPT ![s] = NoJob]
    /\ UNCHANGED <<targets, nextGen, crates, artifacts, cargos, crashes>>

Rollback(s) ==
    /\ At(s, "done")
    /\ Fail(s)
    /\ UNCHANGED <<targets, committed, nextGen, crates, artifacts, cargos, crashes>>

\* A backend dies, so Postgres restarts them all.  Their cargo processes may
\* live on.  Transaction ids that never reached the disk are used again.
Crash ==
    /\ crashes < MaxCrashes
    /\ \E s \in Sessions : Busy(s)
    /\ job' = [s \in Sessions |-> NoJob]
    /\ cargos' \in SUBSET {[c EXCEPT !.owner = Nobody] : c \in cargos}
    /\ nextGen' \in
          {n \in 1..nextGen : \A f \in Fns : committed[f] # NoRow => committed[f].gen < n}
    /\ crashes' = crashes + 1
    /\ UNCHANGED <<targets, committed, crates, artifacts>>

\* The server is shut down and started again, which compilation_targets needs to
\* change.
Restart ==
    /\ \A s \in Sessions : ~Busy(s)
    /\ targets' \in {config.targets : config \in Configs} \ {targets}
    /\ UNCHANGED <<committed, nextGen, job, crates, artifacts, cargos, crashes>>

\* CREATE DATABASE with the database of f as its template, where nobody works:
\* the function of the new database has the row, its generation, and libraries
\* that go by the name they were compiled under.
CopyDatabase(f, new) ==
    /\ committed[f] # NoRow /\ committed[new] = NoRow
    /\ \A s \in Sessions : Busy(s) => job[s].fn \notin {f, new}
    /\ \A name \in DOMAIN crates \cup {path[1] : path \in DOMAIN artifacts}
                        \cup {c.crate : c \in cargos} : name[1] # new
    /\ committed' = [committed EXCEPT ![new] = committed[f]]
    /\ UNCHANGED <<targets, nextGen, job, crates, artifacts, cargos, crashes>>

----------------------------------------------------------------------------
Init ==
    /\ targets \in {config.targets : config \in Configs}
    /\ committed = [f \in Fns |-> NoRow]
    /\ nextGen = 1
    /\ job = [s \in Sessions |-> NoJob]
    /\ crates = <<>>
    /\ artifacts = <<>>
    /\ cargos = {}
    /\ crashes = 0

Prepare(s) ==
    \/ Generate(s) \/ GenerateFails(s) \/ Provision(s) \/ ProvisionFails(s)
    \/ Validate(s) \/ ValidateFails(s)

Build(s) ==
    Spawn(s) \/ SpawnFails(s) \/ ReadArtifact(s) \/ ReadArtifactFails(s)

Finish(s) ==
    \/ Store(s) \/ StoreFails(s) \/ Cleanup(s) \/ CleanupFails(s)
    \/ Commit(s) \/ Rollback(s)

\* Whatever the session does next of its own accord.
Proceed(s) == Prepare(s) \/ Build(s) \/ Finish(s)

Cargo(c) == CargoStarts(c) \/ CargoSucceeds(c) \/ CargoFails(c)

Next ==
    \/ \E s \in Sessions : Proceed(s) \/ \E f \in Fns : Create(s, f)
    \/ \E c \in cargos : Cargo(c)
    \/ \E f, new \in Fns : CopyDatabase(f, new)
    \/ Crash \/ Restart

Spec == Init /\ [][Next]_vars

\* cargo ends once it has the lock, a waiting cargo gets the lock in the end,
\* and a backend keeps working.
Ends(owner) ==
    \E c \in cargos : c.owner = owner /\ Holds(c) /\ (CargoSucceeds(c) \/ CargoFails(c))
Starts(owner) == \E c \in cargos : c.owner = owner /\ CargoStarts(c)

FairSpec ==
    /\ Spec
    /\ WF_vars(Ends(Nobody))
    /\ \A s \in Sessions :
          WF_vars(Proceed(s)) /\ WF_vars(Ends(s)) /\ SF_vars(Starts(s))

----------------------------------------------------------------------------
(* Properties.                                                             *)

Job ==
    [pc : {"generate", "provision", "validate", "build", "cargo", "read", "done"},
     fn : Fns, gen : 1..MaxGen, config : Configs, body : ProSrcEntry,
     todo : Seq(Targets), built : Seq([target : Targets, bytes : Artifact])]

CargoProcess == [crate : Fns \X (1..MaxGen), target : Targets,
                 owner : Sessions \cup {Nobody}, read : Crate \cup {Unread}]

Row == [gen : 1..MaxGen, body : ProSrcEntry]

ASSUME NoneAssumption == NoJob \notin Job /\ NoRow \notin Row /\ NoRow \notin ProSrcEntry

\* Every variable keeps its shape.
TypeOK ==
    /\ targets \in {config.targets : config \in Configs}
    /\ committed \in [Fns -> Row \cup {NoRow}]
    /\ nextGen \in 1..(MaxGen + 1)
    /\ job \in [Sessions -> Job \cup {NoJob}]
    /\ DOMAIN crates \subseteq Fns \X (1..MaxGen)
    /\ \A name \in DOMAIN crates : crates[name] \in Crate
    /\ DOMAIN artifacts \subseteq (Fns \X (1..MaxGen)) \X Targets
    /\ \A path \in DOMAIN artifacts : artifacts[path] \in Artifact
    /\ cargos \subseteq CargoProcess
    /\ crashes \in 0..MaxCrashes

\* What CREATE FUNCTION compiles for under the present settings.
Compiled ==
    LET all == CompilationTargets([targets |-> targets])
    IN  {all[i] : i \in 1..Len(all)}

Abstract == INSTANCE FnStore WITH
    NoBody <- NoRow,
    compiled <- Compiled,
    published <- [f \in Fns |-> IF committed[f] = NoRow THEN NoRow
                               ELSE committed[f].body]

\* CREATE FUNCTION is atomic, and whatever was submitted, what it publishes has for
\* each target compiled now a library that is what it claims, over several builds
\* and catalog updates, with other sessions in the same directories, and with what
\* a crash left on disk and running.
PublishesFaithfulLibraries == Abstract!Spec

\* A committed CREATE FUNCTION has, for every target configured when it ran, a
\* library built from its source with its settings and no others.
PublishesWhatWasAsked ==
    [][\A s \in Sessions : Commit(s) =>
          \A i \in DOMAIN CompilationTargets(job[s].config) :
              LET target == CompilationTargets(job[s].config)[i]
                  lib == committed'[job[s].fn].body.lib
              IN  /\ target \in DOMAIN lib
                  /\ lib[target].bytes =
                        [src |-> job[s].body.src, lints |-> job[s].config.lints,
                         version |-> job[s].config.version, target |-> target,
                         symbol |-> job[s].fn]]_vars

\* Once a function is committed its crate directory is gone.
CommittedCratesRemoved ==
    \A f \in Fns : committed[f] # NoRow =>
        CrateName(f, committed[f].gen) \notin DOMAIN crates

Owned(s) == {c \in cargos : c.owner = s}
Holding(s) == \E c \in Owned(s) : Holds(c)

\* The steps that a command still takes, at most: a target takes five, from the start
\* of its cargo to the catalog update.
StepsLeft(s) ==
    CASE job[s].pc = "generate"  -> 7
      [] job[s].pc = "provision" -> 6
      [] job[s].pc = "validate"  -> 5
      [] job[s].pc = "build"     -> 4
      [] job[s].pc = "cargo"     -> IF Holding(s) THEN 2 ELSE 3
      [] job[s].pc = "read"      -> 1
      [] job[s].pc = "done"      -> 0

Work(s) == 5 * Len(job[s].todo) + Len(job[s].built) + StepsLeft(s)

\* A command never goes back and never changes what it compiles: each step of its
\* own or of its cargo leaves it less to do, and no other session, orphan or crash
\* gives it more.
CommandsAdvance ==
    [][\A s \in Sessions : Busy(s) /\ Busy(s)' =>
          /\ job'[s].fn = job[s].fn /\ job'[s].gen = job[s].gen
          /\ job'[s].config = job[s].config /\ job'[s].body.src = job[s].body.src
          /\ job'[s] # job[s] \/ Holding(s)' # Holding(s) =>
                Work(s)' \in 0..(Work(s) - 1)]_vars

\* Only its own errors can fail a command.  Its cargo runs, and has or finds the crate;
\* the library that cargo has built is there to be read, and the crate directory there to
\* be removed, whatever the others in plrust.work_dir do.
NoCommandIsDoomed ==
    \A s \in Sessions :
        /\ At(s, "cargo") => \E c \in Owned(s) : Holds(c) \/ c.crate \in DOMAIN crates
        /\ At(s, "read") => <<NameOf(s), Head(job[s].todo)>> \in DOMAIN artifacts
        /\ At(s, "build") => NameOf(s) \in DOMAIN crates

\* No CREATE FUNCTION runs forever, whoever else compiles and whatever a crash
\* left running.
CreateEnds == \A s \in Sessions : Busy(s) ~> ~Busy(s)

\* "We ignore everything else that was there and ultimately do a full
\* compilation based on the current state of the Postgres database, taking into
\* account current GUC values" (user_crate/mod.rs:295-297): a committed command
\* leaves no library that it did not build.
OnlyOwnLibraries ==
    [][\A s \in Sessions : Commit(s) =>
          \A target \in DOMAIN committed'[job[s].fn].body.lib :
              \E i \in DOMAIN CompilationTargets(job[s].config) :
                  CompilationTargets(job[s].config)[i] = target]_vars
============================================================================
