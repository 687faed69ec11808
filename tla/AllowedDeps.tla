---------------------------- MODULE AllowedDeps ----------------------------
(***************************************************************************)
(* The crates a PL/Rust function depends on: what the user's               *)
(* [dependencies] ask for, what the list named by                          *)
(* plrust.allowed_dependencies admits, and what cargo builds in the end.   *)
(*                                                                         *)
(* Each backend reads the list once, when it first needs it; the           *)
(* administrator edits the file at any time.  cargo resolves a requirement *)
(* when it builds, against a registry that changes meanwhile, once for     *)
(* each compilation target of the command.                                 *)
(*                                                                         *)
(* Simplifications.  A requirement is the set of versions it matches.      *)
(* plrust.compilation_targets stays the same; CompileFn lets it change.    *)
(* What CompileFn has in detail (the steps of a build, their failures, the *)
(* catalog updates) is one step here for each target and one for the end.  *)
(* A cargo process that outlives its backend, and a directory that a       *)
(* failing command left, are in CompileFn only: here a later command comes *)
(* upon what a crash interrupted, with cargo done.                         *)
(***************************************************************************)
EXTENDS Integers, Sequences

CONSTANTS
    Sessions,     \* backends of the cluster
    Fns,          \* functions: a database and an oid
    BuildOrder,   \* the compilation targets, the host first
    Names,        \* names of crates
    Versions,     \* their versions
    Template,     \* [dependencies] of cargo_toml_template
    Manifests,    \* what users write under [dependencies]
    Watched,      \* one of them, whose verdicts are recorded
    MaxEvents,    \* bound on the changes around the commands
    Releases,     \* <<crate, version>> that may be published or yanked
    Lists,        \* what the administrator writes into the file
    Unreadable,   \* no file, or not a TOML table
    Unforced,     \* the backend has not read the list yet
    Poisoned,     \* the backend failed to read it
    NotString,    \* a dependency written as a table or a number
    BadReq,       \* a string that is no version requirement
    Malformed,    \* an entry of the list without a version
    NoJob,        \* the session runs no CREATE FUNCTION
    NoRow         \* no committed pg_proc row

PartialFunctions(S, T) == UNION {[D -> T] : D \in SUBSET S}

Targets == {BuildOrder[i] : i \in DOMAIN BuildOrder}

Requirement == {BadReq} \cup SUBSET Versions

AllowList == PartialFunctions(Names, {Malformed} \cup Versions)

ASSUME AllowedDepsAssumption ==
    /\ BuildOrder \in Seq(Targets)
    /\ Template \in PartialFunctions(Names, Requirement)
    /\ Manifests \subseteq PartialFunctions(Names, {NotString} \cup Requirement)
    /\ MaxEvents \in Nat
    /\ Releases \subseteq Names \X Versions
    /\ Lists \subseteq AllowList
    /\ \A list \in Lists : list # Unreadable /\ list # Poisoned /\ list # Unforced
    /\ Unforced # Poisoned
    /\ \A requirement \in Requirement : requirement # NotString
    /\ \A versions \in SUBSET Versions : versions # BadReq
    /\ Malformed \notin Versions

VARIABLES
    defined,     \* plrust.allowed_dependencies is set in the running server
    file,        \* what the file it names holds
    contents,    \* PLRUST_ALLOWED_DEPENDENCIES_CONTENTS of each backend
    registry,    \* the versions of each crate that cargo can choose
    job,         \* per session, the CREATE FUNCTION it runs
    left,        \* per function, the crate directory that a crash left
    committed,   \* per function, the dependencies and libraries in its row
    held,        \* history: what the file has held since the server started
    verdicts,    \* history: how each backend has judged Watched
    events       \* how often the surroundings have changed

vars == <<defined, file, contents, registry, job, left, committed,
          held, verdicts, events>>

----------------------------------------------------------------------------
(* Data.                                                                   *)

Put(function, key, value) ==
    [k \in DOMAIN function \cup {key} |-> IF k = key THEN value ELSE function[k]]

\* cargo_toml: the dependencies of the template, and over them the user's with
\* the requirements as the user wrote them.
CargoToml(deps) ==
    [d \in DOMAIN Template \cup DOMAIN deps |->
        IF d \in DOMAIN deps THEN deps[d] ELSE Template[d]]

\* A crate directory as far as dependencies go.  Without a build there is no
\* Cargo.lock, which is the same as one that locks nothing.
Crate(toml, lock) == [toml |-> toml, lock |-> lock]
NoLock == <<>>

\* What cargo may settle on: it keeps a locked version that still satisfies the
\* requirement, and chooses among the published ones for every other crate.
Resolutions(toml, lock) ==
    {r \in [DOMAIN toml -> Versions] :
        \A d \in DOMAIN toml :
            /\ toml[d] # BadReq /\ r[d] \in toml[d]
            /\ IF d \in DOMAIN lock /\ lock[d] \in toml[d]
               THEN r[d] = lock[d] ELSE r[d] \in registry[d]}

Busy(s) == job[s] # NoJob
At(s, pc) == Busy(s) /\ job[s].pc = pc

Job(pc, f, deps, crate, todo, libs) ==
    [pc |-> pc, fn |-> f, deps |-> deps, crate |-> crate, todo |-> todo, libs |-> libs]

Finish(s) == job' = [job EXCEPT ![s] = NoJob]

----------------------------------------------------------------------------
(* The check of the dependencies.                                          *)

OnlyStrings(deps) == \A d \in DOMAIN deps : deps[d] # NotString

\* Mutant: a crate that the list does not name is not looked at.
SupportedWhereListed(list, deps) ==
    \A d \in DOMAIN deps \cap DOMAIN list :
        deps[d] # BadReq /\ list[d] # Malformed /\ list[d] \in deps[d]

\* Every dependency is listed, and the listed version satisfies the requirement
\* for it.  Anything that does not parse fails the command like a refusal does.
Supported(list, deps) ==
    \A d \in DOMAIN deps :
        /\ d \in DOMAIN list
        /\ deps[d] # BadReq /\ list[d] # Malformed
        /\ list[d] \in deps[d]

\* Mutant: the file is read for every command.
ReadAgain(s) == IF file = Unreadable THEN Poisoned ELSE file

\* Mutant: the reason for the failure is what the backend keeps.
ReadRaw(s) == IF contents[s] = Unforced THEN file ELSE contents[s]

\* The Lazy: the file when it is first forced, and a panic then is for ever.
Forced(s) ==
    IF contents[s] # Unforced THEN contents[s]
    ELSE IF file = Unreadable THEN Poisoned ELSE file

\* The list is needed even if there are no dependencies, but not if the
\* setting is missing or a dependency is not a string.
Needed(deps) == defined /\ OnlyStrings(deps)

Admits(s, deps) ==
    /\ OnlyStrings(deps)
    /\ defined => Forced(s) # Poisoned /\ Supported(Forced(s), deps)

ForceList(s) ==
    contents' = IF Needed(job[s].deps) THEN [contents EXCEPT ![s] = Forced(s)]
                ELSE contents

Record(s, verdict) ==
    verdicts' = IF job[s].deps = Watched
                THEN [verdicts EXCEPT ![s] = @ \cup {verdict}] ELSE verdicts

----------------------------------------------------------------------------
(* The command.                                                            *)

\* Postgres locks the row of the function and calls the validator.  A restored
\* prosrc counts for its source alone, so it is no other case.
Create(s, f, deps) ==
    /\ ~Busy(s)
    /\ \A t \in Sessions : Busy(t) => job[t].fn # f
    /\ job' = [job EXCEPT
                 ![s] = Job("generate", f, deps, Crate(<<>>, NoLock), BuildOrder, <<>>)]
    /\ UNCHANGED <<defined, file, contents, registry, left, committed,
                   held, verdicts, events>>

\* The dependencies pass.  The code is parsed after them and may fail.
Admit(s) ==
    /\ At(s, "generate")
    /\ Admits(s, job[s].deps)
    /\ ForceList(s)
    /\ Record(s, "admitted")
    /\ \/ job' = [job EXCEPT ![s] = Job("provision", job[s].fn, job[s].deps,
                                        job[s].crate, job[s].todo, job[s].libs)]
       \/ Finish(s)
    /\ UNCHANGED <<defined, file, registry, left, committed, held, events>>

\* They do not: an error or a panic, which ends the command all the same.
Refuse(s) ==
    /\ At(s, "generate")
    /\ ~Admits(s, job[s].deps)
    /\ ForceList(s)
    /\ Record(s, "refused")
    /\ Finish(s)
    /\ UNCHANGED <<defined, file, registry, left, committed, held, events>>

\* Mutant: a Cargo.toml found in the directory is left as it is.
ProvisionReuses(s) ==
    /\ At(s, "provision")
    /\ \E crate \in left[job[s].fn] \cup {Crate(CargoToml(job[s].deps), NoLock)} :
          job' = [job EXCEPT ![s] = Job("build", job[s].fn, job[s].deps,
                                        crate, job[s].todo, job[s].libs)]
    /\ UNCHANGED <<defined, file, contents, registry, left, committed,
                   held, verdicts, events>>

\* The directory is new, or one that a crash left under the name that comes up
\* again.  Cargo.toml is written over; nothing removes Cargo.lock.
Provision(s) ==
    /\ At(s, "provision")
    /\ \E lock \in {crate.lock : crate \in left[job[s].fn]} \cup {NoLock} :
          job' = [job EXCEPT ![s] = Job("build", job[s].fn, job[s].deps,
                                        Crate(CargoToml(job[s].deps), lock),
                                        job[s].todo, job[s].libs)]
    /\ UNCHANGED <<defined, file, contents, registry, left, committed,
                   held, verdicts, events>>

\* Mutant: each target is built in a directory of its own.
BuildApart(s) ==
    /\ At(s, "build") /\ job[s].todo # <<>>
    /\ \E r \in Resolutions(job[s].crate.toml, job[s].crate.lock) :
          job' = [job EXCEPT ![s] = Job("build", job[s].fn, job[s].deps, job[s].crate,
                                        Tail(job[s].todo),
                                        Put(job[s].libs, Head(job[s].todo), r))]
    /\ UNCHANGED <<defined, file, contents, registry, left, committed,
                   held, verdicts, events>>

\* cargo rustc for the next target, which resolves, writes Cargo.lock and builds.
Build(s) ==
    /\ At(s, "build") /\ job[s].todo # <<>>
    /\ \E r \in Resolutions(job[s].crate.toml, job[s].crate.lock) :
          job' = [job EXCEPT ![s] = Job("build", job[s].fn, job[s].deps,
                                        Crate(job[s].crate.toml, r),
                                        Tail(job[s].todo),
                                        Put(job[s].libs, Head(job[s].todo), r))]
    /\ UNCHANGED <<defined, file, contents, registry, left, committed,
                   held, verdicts, events>>

\* No version will do, the registry is out of reach, the code does not compile,
\* or any other step of the command fails.
Fail(s) ==
    /\ At(s, "provision") \/ At(s, "build")
    /\ Finish(s)
    /\ UNCHANGED <<defined, file, contents, registry, left, committed,
                   held, verdicts, events>>

\* The libraries are in the row and the transaction commits.
Commit(s) ==
    /\ At(s, "build") /\ job[s].todo = <<>>
    /\ committed' = [committed EXCEPT
                       ![job[s].fn] = [deps |-> job[s].deps, libs |-> job[s].libs]]
    /\ Finish(s)
    /\ UNCHANGED <<defined, file, contents, registry, left, held, verdicts, events>>

----------------------------------------------------------------------------
(* Everything else.                                                        *)

Event == events < MaxEvents /\ events' = events + 1

\* A client disconnects and another gets the session: a new backend.
Reconnect(s) ==
    /\ ~Busy(s)
    /\ Event
    /\ contents' = [contents EXCEPT ![s] = Unforced]
    /\ verdicts' = [verdicts EXCEPT ![s] = {}]
    /\ UNCHANGED <<defined, file, registry, job, left, committed, held>>

Edit ==
    /\ Event
    /\ file' \in Lists \cup {Unreadable}
    /\ held' = held \cup {file'}
    /\ UNCHANGED <<defined, contents, registry, job, left, committed,
                   verdicts>>

\* A version is published or yanked.
Release(name, version) ==
    /\ Event
    /\ registry' \in {[registry EXCEPT ![name] = @ \cup {version}],
                       [registry EXCEPT ![name] = @ \ {version}]}
    /\ UNCHANGED <<defined, file, contents, job, left, committed,
                   held, verdicts>>

\* The server goes down, in whatever state the backends are, and comes up
\* again, which plrust.allowed_dependencies needs to change.
Restart ==
    /\ Event
    /\ defined' \in BOOLEAN
    /\ contents' = [s \in Sessions |-> Unforced]
    /\ job' = [s \in Sessions |-> NoJob]
    /\ left' = [f \in Fns |->
                  LET crates == {job[s].crate : s \in {t \in Sessions :
                                                At(t, "build") /\ job[t].fn = f}}
                  IN  IF crates = {} THEN left[f] ELSE crates]
    /\ held' = {file}
    /\ verdicts' = [s \in Sessions |-> {}]
    /\ UNCHANGED <<file, registry, committed>>

----------------------------------------------------------------------------
Init ==
    /\ defined \in BOOLEAN
    /\ file \in Lists \cup {Unreadable}
    /\ contents = [s \in Sessions |-> Unforced]
    /\ registry = [d \in Names |-> Versions]
    /\ job = [s \in Sessions |-> NoJob]
    /\ left = [f \in Fns |-> {}]
    /\ committed = [f \in Fns |-> NoRow]
    /\ held = {file}
    /\ verdicts = [s \in Sessions |-> {}]
    /\ events = 0

Compile(s) ==
    \/ \E f \in Fns, deps \in Manifests : Create(s, f, deps)
    \/ Admit(s) \/ Refuse(s) \/ Provision(s) \/ Build(s) \/ Fail(s) \/ Commit(s)

Environment == Edit \/ (\E r \in Releases : Release(r[1], r[2])) \/ Restart

Next == (\E s \in Sessions : Compile(s) \/ Reconnect(s)) \/ Environment

Spec == Init /\ [][Next]_vars

----------------------------------------------------------------------------
(* Properties.                                                             *)

Toml == PartialFunctions(Names, Requirement)
Resolution == PartialFunctions(Names, Versions)
Libraries == PartialFunctions(Targets, Resolution)

Jobs == [pc : {"generate", "provision", "build"}, fn : Fns, deps : Manifests,
         crate : [toml : Toml, lock : Resolution], todo : Seq(Targets),
         libs : Libraries]

\* Every variable keeps its shape; in particular a backend holds a list that the
\* file has held, or the fact that it could not be read.
TypeOK ==
    /\ defined \in BOOLEAN
    /\ held \subseteq Lists \cup {Unreadable}
    /\ file \in held
    /\ contents \in [Sessions -> (held \ {Unreadable}) \cup {Unforced, Poisoned}]
    /\ registry \in [Names -> SUBSET Versions]
    /\ job \in [Sessions -> Jobs \cup {NoJob}]
    /\ left \in [Fns -> SUBSET [toml : Toml, lock : Resolution]]
    /\ committed \in [Fns -> [deps : Manifests, libs : Libraries] \cup {NoRow}]
    /\ verdicts \in [Sessions -> SUBSET {"admitted", "refused"}]
    /\ events \in 0..MaxEvents

\* The libraries of one function, built for each target on its own, have the
\* same versions of the same crates in them, whatever is published or yanked
\* between the builds: primary and standby run the same code.
TargetsAgree ==
    \A f \in Fns : committed[f] # NoRow =>
        \A t, u \in DOMAIN committed[f].libs :
            committed[f].libs[t] = committed[f].libs[u]

\* They have the versions that this function's Cargo.toml requires, also when
\* the directory had been left by an earlier command with other dependencies.
BuiltAsRequired ==
    \A f \in Fns : committed[f] # NoRow =>
        LET toml == CargoToml(committed[f].deps)
        IN  \A target \in DOMAIN committed[f].libs :
                /\ DOMAIN committed[f].libs[target] = DOMAIN toml
                /\ \A d \in DOMAIN toml :
                      toml[d] # BadReq /\ committed[f].libs[target][d] \in toml[d]

\* While plrust.allowed_dependencies is set, whatever is committed has each of its
\* crates in one readable list that the file has held in this run of the server,
\* at a version its requirement matches: not in a mixture of lists, nor where
\* there never was one.
AdmittedByAList ==
    [][defined => \A s \in Sessions : Commit(s) =>
          \E list \in held \ {Unreadable} :
              \A d \in DOMAIN job[s].deps :
                  /\ d \in DOMAIN list
                  /\ list[d] \in Versions \cap job[s].deps[d]]_vars

\* One backend judges the same dependencies the same way as long as it lives,
\* however the file is edited in between.
OneVerdictPerBackend ==
    \A s \in Sessions : ~("admitted" \in verdicts[s] /\ "refused" \in verdicts[s])
============================================================================
