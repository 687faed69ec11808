------------------------- MODULE AllowedDepsProofs -------------------------
(***************************************************************************)
(* What a function is built from, for any sessions, targets, crates, lists *)
(* and releases: one resolution for all its targets, within the            *)
(* requirements of its own Cargo.toml, which one list has admitted, by a   *)
(* verdict that its backend does not change.                               *)
(***************************************************************************)
EXTENDS AllowedDeps, TLAPS

----------------------------------------------------------------------------
(* Data.                                                                   *)

LEMMA PartialIntro ==
    ASSUME NEW S, NEW T, NEW D \in SUBSET S, NEW f \in [D -> T]
    PROVE  f \in PartialFunctions(S, T)
  BY DEF PartialFunctions

LEMMA PartialElim ==
    ASSUME NEW S, NEW T, NEW f \in PartialFunctions(S, T)
    PROVE  DOMAIN f \in SUBSET S /\ f \in [DOMAIN f -> T]
  BY DEF PartialFunctions

LEMMA EmptyPartial ==
    ASSUME NEW S, NEW T
    PROVE  <<>> \in PartialFunctions(S, T) /\ DOMAIN <<>> = {}
<1>1. <<>> \in [{} -> T] /\ DOMAIN <<>> = {}
  OBVIOUS
<1> QED
  BY <1>1, PartialIntro

LEMMA PutPartial ==
    ASSUME NEW S, NEW T, NEW f \in PartialFunctions(S, T), NEW k \in S, NEW v \in T
    PROVE  Put(f, k, v) \in PartialFunctions(S, T)
<1>1. DOMAIN f \cup {k} \in SUBSET S
  BY PartialElim
<1>2. Put(f, k, v) \in [DOMAIN f \cup {k} -> T]
  BY PartialElim DEF Put
<1> QED
  BY <1>1, <1>2, PartialIntro

\* The generated Cargo.toml asks for versions only, once no table is among the
\* user's dependencies.
LEMMA TomlType ==
    ASSUME NEW deps \in Manifests, OnlyStrings(deps)
    PROVE  CargoToml(deps) \in Toml
<1>1. deps \in PartialFunctions(Names, {NotString} \cup Requirement)
  BY AllowedDepsAssumption
<1>2. /\ DOMAIN deps \in SUBSET Names
      /\ \A d \in DOMAIN deps : deps[d] \in {NotString} \cup Requirement
  BY <1>1, PartialElim
<1>3. /\ DOMAIN Template \in SUBSET Names
      /\ \A d \in DOMAIN Template : Template[d] \in Requirement
  BY AllowedDepsAssumption, PartialElim
<1>4. DOMAIN Template \cup DOMAIN deps \in SUBSET Names
  BY <1>2, <1>3
<1>5. CargoToml(deps) \in [DOMAIN Template \cup DOMAIN deps -> Requirement]
  BY <1>2, <1>3 DEF CargoToml, OnlyStrings
<1> QED
  BY <1>4, <1>5, PartialIntro DEF Toml

\* A resolution that has what toml requires.
Fits(r, toml) ==
    /\ r \in [DOMAIN toml -> Versions]
    /\ \A d \in DOMAIN toml : toml[d] # BadReq /\ r[d] \in toml[d]

\* Whatever cargo settles on fits, and is what it settled on before.
LEMMA ResolutionFits ==
    ASSUME NEW toml, NEW lock, NEW r \in Resolutions(toml, lock)
    PROVE  Fits(r, toml) /\ (Fits(lock, toml) => r = lock)
<1>1. Fits(r, toml)
  BY DEF Resolutions, Fits
<1>2. ASSUME Fits(lock, toml)  PROVE r = lock
  <2>1. \A d \in DOMAIN toml : r[d] = lock[d]
    BY <1>2 DEF Resolutions, Fits
  <2>2. r \in [DOMAIN toml -> Versions] /\ lock \in [DOMAIN toml -> Versions]
    BY <1>1, <1>2 DEF Fits
  <2> QED
    BY <2>1, <2>2
<1> QED
  BY <1>1, <1>2

LEMMA FitsType ==
    ASSUME NEW toml \in Toml, NEW r, Fits(r, toml)
    PROVE  r \in Resolution
<1>1. DOMAIN toml \in SUBSET Names
  BY PartialElim DEF Toml
<1> QED
  BY <1>1, PartialIntro DEF Fits, Resolution

----------------------------------------------------------------------------
(* The inductive invariant.                                                *)

\* The libraries so far have the versions that Cargo.lock has.
Locked(crate, libs) ==
    \A target \in DOMAIN libs : libs[target] = crate.lock /\ Fits(crate.lock, crate.toml)

\* A command that is past the check was let through by the list its backend
\* holds; one that builds does so from its own Cargo.toml.
JobOK(s) ==
    Busy(s) =>
        /\ job[s].pc # "build" => DOMAIN job[s].libs = {}
        /\ job[s].pc # "generate" =>
              /\ OnlyStrings(job[s].deps)
              /\ defined => /\ contents[s] \notin {Unforced, Poisoned}
                            /\ Supported(contents[s], job[s].deps)
        /\ job[s].pc = "build" =>
              /\ job[s].crate.toml = CargoToml(job[s].deps)
              /\ Locked(job[s].crate, job[s].libs)

RowOK(f) ==
    committed[f] # NoRow =>
        \E lock : /\ Fits(lock, CargoToml(committed[f].deps)) \/ DOMAIN committed[f].libs = {}
                  /\ \A target \in DOMAIN committed[f].libs :
                        committed[f].libs[target] = lock

\* How the list that a backend holds judges the watched dependencies.
Judgement(s) ==
    OnlyStrings(Watched)
        /\ (defined => contents[s] # Poisoned /\ Supported(contents[s], Watched))

VerdictOK(s) ==
    /\ Needed(Watched) /\ contents[s] = Unforced => verdicts[s] = {}
    /\ "admitted" \in verdicts[s] => Judgement(s)
    /\ "refused" \in verdicts[s] => ~Judgement(s)

DepsInv ==
    /\ TypeOK
    /\ \A s \in Sessions : JobOK(s) /\ VerdictOK(s)
    /\ \A f \in Fns : RowOK(f)

----------------------------------------------------------------------------
(* Types.                                                                  *)

LEMMA BuildOrderType == BuildOrder \in Seq(Targets)
  BY AllowedDepsAssumption

LEMMA ForcedType ==
    ASSUME TypeOK, NEW s \in Sessions
    PROVE  Forced(s) \in (held \ {Unreadable}) \cup {Poisoned}
  BY DEF TypeOK, Forced

LEMMA ForceType ==
    ASSUME TypeOK, NEW s \in Sessions, ForceList(s)
    PROVE  contents' \in [Sessions -> (held \ {Unreadable}) \cup {Unforced, Poisoned}]
<1>1. contents \in [Sessions -> (held \ {Unreadable}) \cup {Unforced, Poisoned}]
  BY DEF TypeOK
<1> QED
  BY <1>1, ForcedType DEF ForceList

LEMMA RecordType ==
    ASSUME TypeOK, NEW s \in Sessions, NEW verdict \in {"admitted", "refused"},
           Record(s, verdict)
    PROVE  verdicts' \in [Sessions -> SUBSET {"admitted", "refused"}]
  BY DEF TypeOK, Record

LEMMA JobType ==
    ASSUME TypeOK, NEW s \in Sessions, Busy(s)
    PROVE  job[s] \in Jobs
  BY DEF TypeOK, Busy

LEMMA TypeStep == DepsInv /\ [Next]_vars => TypeOK'
<1> SUFFICES ASSUME DepsInv, [Next]_vars  PROVE TypeOK'
  OBVIOUS
<1>0. TypeOK
  BY DEF DepsInv
<1>1. ASSUME NEW s \in Sessions, NEW f \in Fns, NEW deps \in Manifests, Create(s, f, deps)
      PROVE  TypeOK'
  <2>1. Job("generate", f, deps, Crate(<<>>, NoLock), BuildOrder, <<>>) \in Jobs
    BY EmptyPartial, BuildOrderType DEF Job, Jobs, Crate, NoLock, Toml, Resolution, Libraries
  <2> QED
    BY <1>0, <1>1, <2>1 DEF TypeOK, Create
<1>2. ASSUME NEW s \in Sessions, Admit(s)  PROVE TypeOK'
  <2>1. job[s] \in Jobs
    BY <1>0, <1>2, JobType DEF Admit, At
  <2>2. Job("provision", job[s].fn, job[s].deps, job[s].crate, job[s].todo, job[s].libs)
          \in Jobs
    BY <2>1 DEF Job, Jobs
  <2>3. job' \in [Sessions -> Jobs \cup {NoJob}]
    BY <1>0, <1>2, <2>2 DEF TypeOK, Admit, Finish
  <2>4. Record(s, "admitted") /\ ForceList(s)
    BY <1>2 DEF Admit
  <2> QED
    BY <1>0, <1>2, <2>3, <2>4, RecordType, ForceType DEF TypeOK, Admit
<1>3. ASSUME NEW s \in Sessions, Refuse(s)  PROVE TypeOK'
  <2>3. job' \in [Sessions -> Jobs \cup {NoJob}]
    BY <1>0, <1>3 DEF TypeOK, Refuse, Finish
  <2>4. Record(s, "refused") /\ ForceList(s)
    BY <1>3 DEF Refuse
  <2> QED
    BY <1>0, <1>3, <2>3, <2>4, RecordType, ForceType DEF TypeOK, Refuse
<1>4. ASSUME NEW s \in Sessions, Provision(s)  PROVE TypeOK'
  <2>1. job[s] \in Jobs /\ job[s].pc = "provision" /\ Busy(s)
    BY <1>0, <1>4, JobType DEF Provision, At
  <2>2. PICK lock \in {crate.lock : crate \in left[job[s].fn]} \cup {NoLock} :
          job' = [job EXCEPT ![s] = Job("build", job[s].fn, job[s].deps,
                                        Crate(CargoToml(job[s].deps), lock),
                                        job[s].todo, job[s].libs)]
    BY <1>4 DEF Provision
  <2>3. left[job[s].fn] \in SUBSET [toml : Toml, lock : Resolution]
    BY <1>0, <2>1 DEF TypeOK, Jobs
  <2>4. lock \in Resolution
    BY <2>2, <2>3, EmptyPartial DEF NoLock, Resolution
  <2>5. CargoToml(job[s].deps) \in Toml
    BY <2>1, TomlType DEF DepsInv, JobOK, Jobs
  <2>6. Job("build", job[s].fn, job[s].deps, Crate(CargoToml(job[s].deps), lock),
            job[s].todo, job[s].libs) \in Jobs
    BY <2>1, <2>4, <2>5 DEF Job, Jobs, Crate
  <2> QED
    BY <1>0, <1>4, <2>2, <2>6 DEF TypeOK, Provision
<1>5. ASSUME NEW s \in Sessions, Build(s)  PROVE TypeOK'
  <2>1. job[s] \in Jobs /\ job[s].todo # <<>>
    BY <1>0, <1>5, JobType DEF Build, At
  <2>2. PICK r \in Resolutions(job[s].crate.toml, job[s].crate.lock) :
          job' = [job EXCEPT ![s] = Job("build", job[s].fn, job[s].deps,
                                        Crate(job[s].crate.toml, r),
                                        Tail(job[s].todo),
                                        Put(job[s].libs, Head(job[s].todo), r))]
    BY <1>5 DEF Build
  <2>3. job[s].crate.toml \in Toml
    BY <2>1 DEF Jobs
  <2>4. r \in Resolution
    BY <2>2, <2>3, ResolutionFits, FitsType
  <2>5. job[s].todo \in Seq(Targets)
    BY <2>1 DEF Jobs
  <2>6. Head(job[s].todo) \in Targets /\ Tail(job[s].todo) \in Seq(Targets)
    BY <2>1, <2>5
  <2>7. Put(job[s].libs, Head(job[s].todo), r) \in Libraries
    BY <2>1, <2>4, <2>6, PutPartial DEF Jobs, Libraries
  <2>8. Job("build", job[s].fn, job[s].deps, Crate(job[s].crate.toml, r),
            Tail(job[s].todo), Put(job[s].libs, Head(job[s].todo), r)) \in Jobs
    BY <2>1, <2>3, <2>4, <2>6, <2>7 DEF Job, Jobs, Crate
  <2> QED
    BY <1>0, <1>5, <2>2, <2>8 DEF TypeOK, Build
<1>6. ASSUME NEW s \in Sessions, Fail(s)  PROVE TypeOK'
  BY <1>0, <1>6 DEF TypeOK, Fail, Finish
<1>7. ASSUME NEW s \in Sessions, Commit(s)  PROVE TypeOK'
  <2>1. job[s] \in Jobs
    BY <1>0, <1>7, JobType DEF Commit, At
  <2>2. [deps |-> job[s].deps, libs |-> job[s].libs] \in [deps : Manifests, libs : Libraries]
    BY <2>1 DEF Jobs
  <2> QED
    BY <1>0, <1>7, <2>2 DEF TypeOK, Commit, Finish
<1>8. ASSUME NEW s \in Sessions, Reconnect(s)  PROVE TypeOK'
  BY <1>0, <1>8, AllowedDepsAssumption DEF TypeOK, Reconnect, Event
<1>9. CASE Edit
  <2>1. contents \in [Sessions -> (held' \ {Unreadable}) \cup {Unforced, Poisoned}]
    BY <1>0, <1>9 DEF TypeOK, Edit
  <2> QED
    BY <1>0, <1>9, <2>1, AllowedDepsAssumption DEF TypeOK, Edit, Event
<1>10. ASSUME NEW p \in Releases, Release(p[1], p[2])  PROVE TypeOK'
  <2>1. p[1] \in Names /\ p[2] \in Versions
    BY AllowedDepsAssumption
  <2>2. registry' \in [Names -> SUBSET Versions]
    BY <1>0, <1>10, <2>1 DEF TypeOK, Release
  <2> QED
    BY <1>0, <1>10, <2>2, AllowedDepsAssumption DEF TypeOK, Release, Event
<1>11. CASE Restart
  <2>1. \A s \in Sessions : At(s, "build") => job[s].crate \in [toml : Toml, lock : Resolution]
    BY <1>0, JobType DEF At, Jobs
  <2>2. ASSUME NEW f \in Fns
        PROVE  left'[f] \in SUBSET [toml : Toml, lock : Resolution]
    <3> DEFINE crates == {job[s].crate : s \in {t \in Sessions :
                                            At(t, "build") /\ job[t].fn = f}}
    <3>1. crates \in SUBSET [toml : Toml, lock : Resolution]
      BY <2>1
    <3>2. left'[f] = IF crates = {} THEN left[f] ELSE crates
      BY <1>11 DEF Restart
    <3>3. left[f] \in SUBSET [toml : Toml, lock : Resolution]
      BY <1>0 DEF TypeOK
    <3> QED
      BY <3>1, <3>2, <3>3
  <2>3. left' \in [Fns -> SUBSET [toml : Toml, lock : Resolution]]
    <3>1. left' = [f \in Fns |-> left'[f]]
      BY <1>11 DEF Restart
    <3> QED
      BY <2>2, <3>1
  <2>4. /\ defined' \in BOOLEAN
        /\ held' \subseteq Lists \cup {Unreadable} /\ file' \in held'
        /\ contents' \in [Sessions -> (held' \ {Unreadable}) \cup {Unforced, Poisoned}]
        /\ registry' \in [Names -> SUBSET Versions]
        /\ job' \in [Sessions -> Jobs \cup {NoJob}]
    BY <1>0, <1>11 DEF TypeOK, Restart
  <2>5. /\ committed' \in [Fns -> [deps : Manifests, libs : Libraries] \cup {NoRow}]
        /\ verdicts' \in [Sessions -> SUBSET {"admitted", "refused"}]
        /\ events' \in 0..MaxEvents
    BY <1>0, <1>11, AllowedDepsAssumption DEF TypeOK, Restart, Event
  <2> QED
    BY <2>3, <2>4, <2>5 DEF TypeOK
<1>12. CASE UNCHANGED vars
  BY <1>0, <1>12 DEF TypeOK, vars
<1> QED
  BY <1>1, <1>2, <1>3, <1>4, <1>5, <1>6, <1>7, <1>8, <1>9, <1>10, <1>11, <1>12
  DEF Next, Compile, Environment

----------------------------------------------------------------------------
(* The steps of a command.                                                 *)

\* Other backends' commands and verdicts depend on nothing that one of them changes.
LEMMA OthersKeep ==
    ASSUME NEW s \in Sessions, NEW t \in Sessions, JobOK(t), VerdictOK(t),
           job'[t] = job[t], contents'[t] = contents[t], verdicts'[t] = verdicts[t],
           defined' = defined
    PROVE  JobOK(t)' /\ VerdictOK(t)'
  BY DEF JobOK, VerdictOK, Busy, Judgement, Needed

\* So do those of a backend whose command ends.
LEMMA FinishKeeps ==
    ASSUME NEW s \in Sessions, TypeOK, Finish(s),
           \A t \in Sessions : JobOK(t) /\ VerdictOK(t),
           UNCHANGED <<defined, contents, verdicts>>
    PROVE  \A t \in Sessions : JobOK(t)' /\ VerdictOK(t)'
<1> TAKE t \in Sessions
<1>1. CASE t = s
  <2>1. job'[s] = NoJob
    BY DEF TypeOK, Finish
  <2> QED
    BY <1>1, <2>1 DEF JobOK, VerdictOK, Busy, Judgement, Needed
<1>2. CASE t # s
  <2>1. job'[t] = job[t]
    BY <1>2 DEF TypeOK, Finish
  <2> QED
    BY <2>1, OthersKeep
<1> QED
  BY <1>1, <1>2

LEMMA CreateStep ==
    ASSUME DepsInv, NEW s \in Sessions, NEW f \in Fns, NEW deps \in Manifests,
           Create(s, f, deps)
    PROVE  \A t \in Sessions : JobOK(t)' /\ VerdictOK(t)'
<1> TAKE t \in Sessions
<1>1. JobOK(t) /\ VerdictOK(t) /\ TypeOK
  BY DEF DepsInv
<1>2. UNCHANGED <<defined, contents, verdicts>>
  BY DEF Create
<1>3. CASE t = s
  <2>1. job'[s] = Job("generate", f, deps, Crate(<<>>, NoLock), BuildOrder, <<>>)
    BY <1>1 DEF Create, TypeOK
  <2>2. job'[s].pc = "generate" /\ DOMAIN job'[s].libs = {}
    BY <2>1, EmptyPartial DEF Job
  <2>3. JobOK(s)'
    BY <2>2 DEF JobOK
  <2> QED
    BY <1>1, <1>2, <1>3, <2>3 DEF VerdictOK, Judgement, Needed
<1>4. CASE t # s
  <2>1. job'[t] = job[t]
    BY <1>1, <1>4 DEF TypeOK, Create
  <2> QED
    BY <1>1, <1>2, <2>1, OthersKeep
<1> QED
  BY <1>3, <1>4

\* The check: what the backend holds afterwards is what it judged by.
LEMMA AdmitStep ==
    ASSUME DepsInv, NEW s \in Sessions, Admit(s)
    PROVE  \A t \in Sessions : JobOK(t)' /\ VerdictOK(t)'
<1> TAKE t \in Sessions
<1>1. JobOK(t) /\ VerdictOK(t) /\ TypeOK /\ JobOK(s) /\ VerdictOK(s)
  BY DEF DepsInv
<1>2. defined' = defined
  BY DEF Admit
<1>3. CASE t = s
  <2>1. /\ OnlyStrings(job[s].deps)
        /\ defined => Forced(s) # Poisoned /\ Supported(Forced(s), job[s].deps)
    BY DEF Admit, Admits
  <2>2. contents'[s] = IF defined THEN Forced(s) ELSE contents[s]
    BY <1>1, <2>1 DEF Admit, ForceList, Needed, TypeOK
  <2>3. Forced(s) # Unforced
    BY <1>1, ForcedType, AllowedDepsAssumption DEF TypeOK
  <2>4. DOMAIN job[s].libs = {}
    BY <1>1 DEF JobOK, Admit, At
  <2>5. \/ job'[s] = NoJob
        \/ job'[s] = Job("provision", job[s].fn, job[s].deps, job[s].crate,
                         job[s].todo, job[s].libs)
    BY <1>1 DEF Admit, Finish, TypeOK
  <2>6. JobOK(s)'
    <3>1. CASE job'[s] = NoJob
      BY <3>1 DEF JobOK, Busy
    <3>2. CASE job'[s] = Job("provision", job[s].fn, job[s].deps, job[s].crate,
                             job[s].todo, job[s].libs)
      <4>1. /\ job'[s].pc = "provision" /\ job'[s].deps = job[s].deps
            /\ job'[s].libs = job[s].libs
        BY <3>2 DEF Job
      <4> QED
        BY <4>1, <2>1, <2>2, <2>3, <2>4, <1>2 DEF JobOK
    <3> QED
      BY <2>5, <3>1, <3>2
  <2>7. VerdictOK(s)'
    <3>1. CASE job[s].deps = Watched
      <4>1. verdicts'[s] = verdicts[s] \cup {"admitted"}
        BY <1>1, <3>1 DEF Admit, Record, TypeOK
      <4>2. Judgement(s)'
        BY <2>1, <2>2, <3>1, <1>2 DEF Judgement
      <4>3. "refused" \in verdicts[s] => ~Judgement(s) /\ (defined => contents[s] # Unforced)
        BY <1>1, <2>1, <3>1 DEF VerdictOK, Needed
      <4>4. "refused" \notin verdicts[s]
        BY <4>3, <2>1, <3>1 DEF Judgement, Forced
      <4>5. ~(Needed(Watched) /\ contents[s] = Unforced)'
        BY <2>2, <2>3, <1>2 DEF Needed
      <4> QED
        BY <4>1, <4>2, <4>4, <4>5 DEF VerdictOK
    <3>2. CASE job[s].deps # Watched
      <4>1. verdicts'[s] = verdicts[s]
        BY <3>2 DEF Admit, Record
      <4>2. CASE contents'[s] = contents[s]
        BY <4>1, <4>2, <1>1, <1>2 DEF VerdictOK, Judgement, Needed
      <4>3. CASE contents'[s] # contents[s]
        <5>1. defined /\ contents[s] = Unforced /\ contents'[s] # Unforced
          BY <4>3, <2>2, <2>3 DEF Forced
        <5> QED
          BY <4>1, <5>1, <1>1, <1>2 DEF VerdictOK, Judgement, Needed
      <4> QED
        BY <4>2, <4>3
    <3> QED
      BY <3>1, <3>2
  <2> QED
    BY <1>3, <2>6, <2>7
<1>4. CASE t # s
  <2>1. job'[t] = job[t] /\ contents'[t] = contents[t] /\ verdicts'[t] = verdicts[t]
    BY <1>1, <1>4 DEF TypeOK, Admit, ForceList, Record, Finish
  <2> QED
    BY <1>1, <1>2, <2>1, OthersKeep
<1> QED
  BY <1>3, <1>4

LEMMA RefuseStep ==
    ASSUME DepsInv, NEW s \in Sessions, Refuse(s)
    PROVE  \A t \in Sessions : JobOK(t)' /\ VerdictOK(t)'
<1> TAKE t \in Sessions
<1>1. JobOK(t) /\ VerdictOK(t) /\ TypeOK /\ VerdictOK(s)
  BY DEF DepsInv
<1>2. defined' = defined
  BY DEF Refuse
<1>3. CASE t = s
  <2>1. job'[s] = NoJob
    BY <1>1 DEF Refuse, Finish, TypeOK
  <2>2. contents'[s] = IF Needed(job[s].deps) THEN Forced(s) ELSE contents[s]
    BY <1>1 DEF Refuse, ForceList, TypeOK
  <2>3. Forced(s) # Unforced
    BY <1>1, ForcedType, AllowedDepsAssumption DEF TypeOK
  <2>4. VerdictOK(s)'
    <3>1. CASE job[s].deps = Watched
      <4>1. verdicts'[s] = verdicts[s] \cup {"refused"}
        BY <1>1, <3>1 DEF Refuse, Record, TypeOK
      <4>2. ~Admits(s, Watched)
        BY <3>1 DEF Refuse
      <4>3. ~Judgement(s)'
        BY <4>2, <2>2, <3>1, <1>2 DEF Judgement, Admits, Needed
      <4>4. "admitted" \notin verdicts[s]
        <5> SUFFICES ASSUME "admitted" \in verdicts[s]  PROVE FALSE
          OBVIOUS
        <5>1. Judgement(s) /\ (Needed(Watched) => contents[s] # Unforced)
          BY <1>1 DEF VerdictOK
        <5> QED
          BY <4>2, <5>1 DEF Judgement, Admits, Needed, Forced
      <4>5. ~(Needed(Watched) /\ contents[s] = Unforced)'
        BY <2>2, <2>3, <3>1, <1>2 DEF Needed
      <4> QED
        BY <4>1, <4>3, <4>4, <4>5 DEF VerdictOK
    <3>2. CASE job[s].deps # Watched
      <4>1. verdicts'[s] = verdicts[s]
        BY <3>2 DEF Refuse, Record
      <4>2. CASE contents'[s] = contents[s]
        BY <4>1, <4>2, <1>1, <1>2 DEF VerdictOK, Judgement, Needed
      <4>3. CASE contents'[s] # contents[s]
        <5>1. defined /\ contents[s] = Unforced /\ contents'[s] # Unforced
          BY <4>3, <2>2, <2>3 DEF Forced, Needed
        <5> QED
          BY <4>1, <5>1, <1>1, <1>2 DEF VerdictOK, Judgement, Needed
      <4> QED
        BY <4>2, <4>3
    <3> QED
      BY <3>1, <3>2
  <2> QED
    BY <1>3, <2>1, <2>4 DEF JobOK, Busy
<1>4. CASE t # s
  <2>1. job'[t] = job[t] /\ contents'[t] = contents[t] /\ verdicts'[t] = verdicts[t]
    BY <1>1, <1>4 DEF TypeOK, Refuse, ForceList, Record, Finish
  <2> QED
    BY <1>1, <1>2, <2>1, OthersKeep
<1> QED
  BY <1>3, <1>4

\* A step that changes nothing but one command.
LEMMA JobStep ==
    ASSUME DepsInv, NEW s \in Sessions, NEW j, job' = [job EXCEPT ![s] = j],
           UNCHANGED <<defined, contents, verdicts>>, JobOK(s)'
    PROVE  \A t \in Sessions : JobOK(t)' /\ VerdictOK(t)'
<1> TAKE t \in Sessions
<1>1. JobOK(t) /\ VerdictOK(t) /\ TypeOK
  BY DEF DepsInv
<1>2. CASE t = s
  BY <1>1, <1>2 DEF VerdictOK, Judgement, Needed
<1>3. CASE t # s
  <2>1. job'[t] = job[t]
    BY <1>1, <1>3 DEF TypeOK
  <2> QED
    BY <1>1, <2>1, OthersKeep
<1> QED
  BY <1>2, <1>3

LEMMA ProvisionStep ==
    ASSUME DepsInv, NEW s \in Sessions, Provision(s)
    PROVE  \A t \in Sessions : JobOK(t)' /\ VerdictOK(t)'
<1>1. JobOK(s) /\ TypeOK /\ Busy(s) /\ job[s].pc = "provision"
  BY DEF DepsInv, Provision, At
<1>2. UNCHANGED <<defined, contents, verdicts>>
  BY DEF Provision
<1>3. PICK lock : job' = [job EXCEPT ![s] = Job("build", job[s].fn, job[s].deps,
                                                Crate(CargoToml(job[s].deps), lock),
                                                job[s].todo, job[s].libs)]
  BY DEF Provision
<1>4. job'[s] = Job("build", job[s].fn, job[s].deps, Crate(CargoToml(job[s].deps), lock),
                    job[s].todo, job[s].libs)
  BY <1>1, <1>3 DEF TypeOK
<1>5. /\ job'[s].pc = "build" /\ job'[s].deps = job[s].deps /\ job'[s].libs = job[s].libs
      /\ job'[s].crate.toml = CargoToml(job[s].deps)
  BY <1>4 DEF Job, Crate
<1>6. JobOK(s)'
  BY <1>1, <1>2, <1>5 DEF JobOK, Locked
<1> QED
  BY <1>2, <1>3, <1>6, JobStep

\* The first target settles the lock, and the others find it settled.
LEMMA BuildStep ==
    ASSUME DepsInv, NEW s \in Sessions, Build(s)
    PROVE  \A t \in Sessions : JobOK(t)' /\ VerdictOK(t)'
<1>1. JobOK(s) /\ TypeOK /\ Busy(s) /\ job[s].pc = "build"
  BY DEF DepsInv, Build, At
<1>2. UNCHANGED <<defined, contents, verdicts>>
  BY DEF Build
<1>3. PICK r \in Resolutions(job[s].crate.toml, job[s].crate.lock) :
        job' = [job EXCEPT ![s] = Job("build", job[s].fn, job[s].deps,
                                      Crate(job[s].crate.toml, r), Tail(job[s].todo),
                                      Put(job[s].libs, Head(job[s].todo), r))]
  BY DEF Build
<1>4. /\ job'[s].pc = "build" /\ job'[s].deps = job[s].deps
      /\ job'[s].crate.toml = job[s].crate.toml /\ job'[s].crate.lock = r
      /\ job'[s].libs = Put(job[s].libs, Head(job[s].todo), r)
  BY <1>1, <1>3 DEF TypeOK, Job, Crate
<1>5. Fits(r, job[s].crate.toml)
  BY <1>3, ResolutionFits
<1>6. \A target \in DOMAIN job[s].libs : job[s].libs[target] = r
  BY <1>1, <1>3, ResolutionFits DEF JobOK, Locked
<1>7. Locked(job'[s].crate, job'[s].libs)
  BY <1>4, <1>5, <1>6 DEF Locked, Put
<1>8. JobOK(s)'
  BY <1>1, <1>2, <1>4, <1>7 DEF JobOK
<1> QED
  BY <1>2, <1>3, <1>8, JobStep

\* The row takes over what the command has built.
LEMMA CommitStep ==
    ASSUME DepsInv, NEW s \in Sessions, Commit(s)
    PROVE  \A f \in Fns : RowOK(f)'
<1> TAKE f \in Fns
<1>1. JobOK(s) /\ RowOK(f) /\ TypeOK /\ Busy(s) /\ job[s].pc = "build"
  BY DEF DepsInv, Commit, At
<1>2. CASE f = job[s].fn
  <2>1. committed'[f].deps = job[s].deps /\ committed'[f].libs = job[s].libs
    BY <1>1, <1>2 DEF Commit, TypeOK
  <2>2. job[s].crate.toml = CargoToml(job[s].deps) /\ Locked(job[s].crate, job[s].libs)
    BY <1>1 DEF JobOK
  <2>3. Fits(job[s].crate.lock, CargoToml(job[s].deps)) \/ DOMAIN job[s].libs = {}
    BY <2>2 DEF Locked
  <2>4. \A target \in DOMAIN job[s].libs : job[s].libs[target] = job[s].crate.lock
    BY <2>2 DEF Locked
  <2> QED
    BY <2>1, <2>3, <2>4 DEF RowOK
<1>3. CASE f # job[s].fn
  <2>1. committed'[f] = committed[f]
    BY <1>1, <1>3 DEF Commit, TypeOK
  <2> QED
    BY <1>1, <2>1 DEF RowOK
<1> QED
  BY <1>2, <1>3

LEMMA ReconnectStep ==
    ASSUME DepsInv, NEW s \in Sessions, Reconnect(s)
    PROVE  \A t \in Sessions : JobOK(t)' /\ VerdictOK(t)'
<1> TAKE t \in Sessions
<1>1. JobOK(t) /\ VerdictOK(t) /\ TypeOK
  BY DEF DepsInv
<1>2. CASE t = s
  <2>1. ~Busy(s)' /\ verdicts'[s] = {}
    BY <1>1 DEF Reconnect, TypeOK, Busy
  <2> QED
    BY <1>2, <2>1 DEF JobOK, VerdictOK
<1>3. CASE t # s
  <2>1. /\ job'[t] = job[t] /\ contents'[t] = contents[t]
        /\ verdicts'[t] = verdicts[t] /\ defined' = defined
    BY <1>1, <1>3 DEF TypeOK, Reconnect
  <2> QED
    BY <1>1, <2>1, OthersKeep
<1> QED
  BY <1>2, <1>3

LEMMA RestartStep ==
    ASSUME Restart, NEW t \in Sessions
    PROVE  JobOK(t)' /\ VerdictOK(t)'
<1>1. ~Busy(t)' /\ verdicts'[t] = {}
  BY DEF Restart, Busy
<1> QED
  BY <1>1 DEF JobOK, VerdictOK

\* Only Commit writes rows.
LEMMA RowsKeep ==
    ASSUME \A f \in Fns : RowOK(f), UNCHANGED committed
    PROVE  \A f \in Fns : RowOK(f)'
  BY DEF RowOK

----------------------------------------------------------------------------
(* The invariant holds.                                                    *)

LEMMA InitInv == Init => DepsInv
<1> SUFFICES ASSUME Init  PROVE DepsInv
  OBVIOUS
<1>1. TypeOK
  BY AllowedDepsAssumption DEF Init, TypeOK
<1>2. \A s \in Sessions : JobOK(s) /\ VerdictOK(s)
  BY DEF Init, JobOK, VerdictOK, Busy
<1>3. \A f \in Fns : RowOK(f)
  BY DEF Init, RowOK
<1> QED
  BY <1>1, <1>2, <1>3 DEF DepsInv

LEMMA StepInv == DepsInv /\ [Next]_vars => DepsInv'
<1> SUFFICES ASSUME DepsInv, [Next]_vars  PROVE DepsInv'
  OBVIOUS
<1>0. /\ TypeOK /\ \A f \in Fns : RowOK(f)
      /\ \A t \in Sessions : JobOK(t) /\ VerdictOK(t)
  BY DEF DepsInv
<1> DEFINE SessionsOK == \A t \in Sessions : JobOK(t)' /\ VerdictOK(t)'
           RowsOK == \A f \in Fns : RowOK(f)'
<1>1. ASSUME NEW s \in Sessions, NEW f \in Fns, NEW deps \in Manifests, Create(s, f, deps)
      PROVE  SessionsOK /\ RowsOK
  BY <1>0, <1>1, CreateStep, RowsKeep DEF Create
<1>2. ASSUME NEW s \in Sessions, Admit(s)  PROVE SessionsOK /\ RowsOK
  BY <1>0, <1>2, AdmitStep, RowsKeep DEF Admit
<1>3. ASSUME NEW s \in Sessions, Refuse(s)  PROVE SessionsOK /\ RowsOK
  BY <1>0, <1>3, RefuseStep, RowsKeep DEF Refuse
<1>4. ASSUME NEW s \in Sessions, Provision(s)  PROVE SessionsOK /\ RowsOK
  BY <1>0, <1>4, ProvisionStep, RowsKeep DEF Provision
<1>5. ASSUME NEW s \in Sessions, Build(s)  PROVE SessionsOK /\ RowsOK
  BY <1>0, <1>5, BuildStep, RowsKeep DEF Build
<1>6. ASSUME NEW s \in Sessions, Fail(s)  PROVE SessionsOK /\ RowsOK
  BY <1>0, <1>6, FinishKeeps, RowsKeep DEF Fail
<1>7. ASSUME NEW s \in Sessions, Commit(s)  PROVE SessionsOK /\ RowsOK
  BY <1>0, <1>7, FinishKeeps, CommitStep DEF Commit
<1>8. ASSUME NEW s \in Sessions, Reconnect(s)  PROVE SessionsOK /\ RowsOK
  BY <1>0, <1>8, ReconnectStep, RowsKeep DEF Reconnect
<1>9. ASSUME UNCHANGED <<defined, contents, job, committed, verdicts>>
      PROVE  SessionsOK /\ RowsOK
  BY <1>0, <1>9, OthersKeep, RowsKeep
<1>10. ASSUME Edit  PROVE SessionsOK /\ RowsOK
  BY <1>9, <1>10 DEF Edit
<1>11. ASSUME NEW p \in Releases, Release(p[1], p[2])  PROVE SessionsOK /\ RowsOK
  BY <1>9, <1>11 DEF Release
<1>12. ASSUME Restart  PROVE SessionsOK /\ RowsOK
  BY <1>0, <1>12, RestartStep, RowsKeep DEF Restart
<1>13. ASSUME UNCHANGED vars  PROVE SessionsOK /\ RowsOK
  BY <1>9, <1>13 DEF vars
<1>14. SessionsOK /\ RowsOK
  BY <1>1, <1>2, <1>3, <1>4, <1>5, <1>6, <1>7, <1>8, <1>10, <1>11, <1>12, <1>13
  DEF Next, Compile, Environment
<1> QED
  BY <1>14, TypeStep DEF DepsInv

\* DepsInv holds throughout.
THEOREM DepsInvariance == Spec => []DepsInv
  BY InitInv, StepInv, PTL DEF Spec

----------------------------------------------------------------------------
(* The properties.                                                         *)

\* Every variable keeps its shape.
THEOREM TypeCorrect == Spec => []TypeOK
<1>1. DepsInv => TypeOK
  BY DEF DepsInv
<1> QED
  BY <1>1, DepsInvariance, PTL

\* All libraries of a function, for whatever targets, have the same versions of
\* the same crates in them, whatever is released between their builds.
THEOREM TargetsBuiltAlike == Spec => []TargetsAgree
<1>1. DepsInv => TargetsAgree
  BY DEF DepsInv, RowOK, TargetsAgree
<1> QED
  BY <1>1, DepsInvariance, PTL

\* And those are what the function's own Cargo.toml requires, whatever was left in
\* the directory it was built in.
THEOREM BuiltFromOwnToml == Spec => []BuiltAsRequired
<1>1. DepsInv => BuiltAsRequired
  <2> SUFFICES ASSUME DepsInv, NEW f \in Fns, committed[f] # NoRow,
                      NEW target \in DOMAIN committed[f].libs
               PROVE  /\ DOMAIN committed[f].libs[target] = DOMAIN CargoToml(committed[f].deps)
                      /\ \A d \in DOMAIN CargoToml(committed[f].deps) :
                            /\ CargoToml(committed[f].deps)[d] # BadReq
                            /\ committed[f].libs[target][d]
                                   \in CargoToml(committed[f].deps)[d]
    BY DEF BuiltAsRequired
  <2>1. Fits(committed[f].libs[target], CargoToml(committed[f].deps))
    BY DEF DepsInv, RowOK
  <2> QED
    BY <2>1 DEF Fits
<1> QED
  BY <1>1, DepsInvariance, PTL

\* A committed function's dependencies were admitted as a whole by one list that
\* the file held since the server started.
THEOREM CommitsAreAdmitted == Spec => AdmittedByAList
<1>1. DepsInv /\ [Next]_vars =>
        [defined => \A s \in Sessions : Commit(s) =>
            \E list \in held \ {Unreadable} :
                \A d \in DOMAIN job[s].deps :
                    /\ d \in DOMAIN list
                    /\ list[d] \in Versions \cap job[s].deps[d]]_vars
  <2> SUFFICES ASSUME DepsInv, defined, NEW s \in Sessions, Commit(s)
               PROVE  \E list \in held \ {Unreadable} :
                         \A d \in DOMAIN job[s].deps :
                             /\ d \in DOMAIN list
                             /\ list[d] \in Versions \cap job[s].deps[d]
    OBVIOUS
  <2>1. contents[s] \notin {Unforced, Poisoned} /\ Supported(contents[s], job[s].deps)
    BY DEF DepsInv, JobOK, Commit, At
  <2>2. contents[s] \in held \ {Unreadable} /\ contents[s] \in Lists
    BY <2>1 DEF DepsInv, TypeOK
  <2>3. \A d \in DOMAIN contents[s] : contents[s][d] \in {Malformed} \cup Versions
    BY <2>2, AllowedDepsAssumption, PartialElim DEF AllowList
  <2>4. \A d \in DOMAIN job[s].deps :
           d \in DOMAIN contents[s] /\ contents[s][d] \in Versions \cap job[s].deps[d]
    BY <2>1, <2>3 DEF Supported
  <2> QED
    BY <2>2, <2>4
<1> QED
  BY <1>1, DepsInvariance, PTL DEF Spec, AdmittedByAList

\* A backend's verdict on the same dependencies is the same for its whole life.
THEOREM VerdictsAreFinal == Spec => []OneVerdictPerBackend
<1>1. DepsInv => OneVerdictPerBackend
  BY DEF DepsInv, VerdictOK, OneVerdictPerBackend
<1> QED
  BY <1>1, DepsInvariance, PTL
============================================================================
