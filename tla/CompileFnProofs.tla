-------------------------- MODULE CompileFnProofs --------------------------
(***************************************************************************)
(* What CREATE FUNCTION commits, for any sessions, functions, settings and *)
(* targets and any number of crashes: CompileFn implements FnStore, and a  *)
(* committed function has what its own command built.                      *)
(***************************************************************************)
EXTENDS CompileFn, SequenceTheorems, TLAPS

----------------------------------------------------------------------------
(* The inductive invariant.                                                *)

Elements(seq) == {seq[i] : i \in 1..Len(seq)}

\* The library that the command j asks for.
Asked(j, target) ==
    [src |-> j.body.src, lints |-> j.config.lints, version |-> j.config.version,
     target |-> target, symbol |-> j.fn]

\* What it makes of that library in prosrc.
Own(j, target) ==
    [bytes |-> Asked(j, target), symbol |-> j.fn, lints |-> j.config.lints]

\* Whatever is built or stored so far was built from the command's own source
\* and settings, and no target has been lost on the way.
JobOK(j) ==
    /\ j.pc \in {"cargo", "read"} => j.todo # <<>>
    /\ j.pc = "done" => j.todo = <<>> /\ j.built = <<>>
    /\ \A i \in 1..Len(j.built) : j.built[i].bytes = Asked(j, j.built[i].target)
    /\ \A target \in Elements(CompilationTargets(j.config)) :
          \/ target \in Elements(j.todo)
          \/ \E i \in 1..Len(j.built) : j.built[i].target = target
          \/ /\ target \in DOMAIN j.body.lib
             /\ j.body.lib[target] = Own(j, target)

\* From provision on, the crate directory is the command's own.
CrateOK(s) ==
    /\ job[s].pc \in {"validate", "build", "cargo", "read"} =>
          NameOf(s) \in DOMAIN crates /\ crates[NameOf(s)] = Generated(s)
    /\ job[s].pc = "done" => NameOf(s) \notin DOMAIN crates

\* The library to be read is the one asked for, and an orphan that could still
\* replace it has read the same crate.
ReadOK(s) ==
    job[s].pc = "read" =>
        /\ <<NameOf(s), Head(job[s].todo)>> \in DOMAIN artifacts
        /\ artifacts[<<NameOf(s), Head(job[s].todo)>>]
              = Asked(job[s], Head(job[s].todo))
        /\ \A c \in cargos : c.crate = NameOf(s) /\ Holds(c) => c.read = Generated(s)

\* A cargo process with an owner builds what the owner waits for.
OwnerOK(c) ==
    c.owner # Nobody =>
        /\ At(c.owner, "cargo")
        /\ c.crate = NameOf(c.owner) /\ c.target = Head(job[c.owner].todo)
        /\ Holds(c) => c.read = Generated(c.owner)

CargosOK ==
    /\ \A c \in cargos : OwnerOK(c)
    /\ \A c, d \in cargos : Holds(c) /\ Holds(d) => c = d
    /\ \A c, d \in cargos : c.owner = d.owner /\ c.owner # Nobody => c = d

\* The row locks, and generations that only grow while they last.
LocksOK ==
    /\ \A s, t \in Sessions : Busy(s) /\ Busy(t) /\ job[s].fn = job[t].fn => s = t
    /\ \A s \in Sessions : Busy(s) =>
          /\ job[s].gen < nextGen
          /\ committed[job[s].fn] # NoRow => committed[job[s].fn].gen < job[s].gen
    /\ \A f \in Fns : committed[f] # NoRow => committed[f].gen < nextGen

SessionOK(s) == Busy(s) => JobOK(job[s]) /\ CrateOK(s) /\ ReadOK(s)

CompileInv ==
    /\ TypeOK
    /\ LocksOK
    /\ CargosOK
    /\ \A s \in Sessions : SessionOK(s)
    /\ CommittedCratesRemoved

----------------------------------------------------------------------------
(* Data.                                                                   *)

LEMMA PartialIntro ==
    ASSUME NEW S, NEW T, NEW D \in SUBSET S, NEW f \in [D -> T]
    PROVE  f \in PartialFunctions(S, T)
  BY DEF PartialFunctions

LEMMA PartialElim ==
    ASSUME NEW S, NEW T, NEW f \in PartialFunctions(S, T)
    PROVE  DOMAIN f \in SUBSET S /\ f \in [DOMAIN f -> T]
  BY DEF PartialFunctions

LEMMA PutPartial ==
    ASSUME NEW S, NEW T, NEW f \in PartialFunctions(S, T), NEW k \in S, NEW v \in T
    PROVE  Put(f, k, v) \in PartialFunctions(S, T)
<1>1. DOMAIN f \cup {k} \in SUBSET S
  BY PartialElim
<1>2. Put(f, k, v) \in [DOMAIN f \cup {k} -> T]
  BY PartialElim DEF Put
<1> QED
  BY <1>1, <1>2, PartialIntro

LEMMA EmptyPartial ==
    ASSUME NEW S, NEW T
    PROVE  <<>> \in PartialFunctions(S, T) /\ DOMAIN <<>> = {}
<1>1. <<>> \in [{} -> T] /\ DOMAIN <<>> = {}
  OBVIOUS
<1> QED
  BY <1>1, PartialIntro

LEMMA WithoutApplied ==
    ASSUME NEW f, NEW k
    PROVE  /\ DOMAIN Without(f, k) = DOMAIN f \ {k}
           /\ \A x \in DOMAIN f : x # k => Without(f, k)[x] = f[x]
  BY DEF Without

\* A sequence holds its head and what its tail holds.
LEMMA ElementsOfTail ==
    ASSUME NEW S, NEW seq \in Seq(S), seq # <<>>
    PROVE  /\ Head(seq) \in S /\ Tail(seq) \in Seq(S)
           /\ Elements(seq) = {Head(seq)} \cup Elements(Tail(seq))
           /\ Elements(seq) \subseteq S
<1>1. /\ Head(seq) \in S /\ Tail(seq) \in Seq(S)
      /\ Len(seq) \in Nat /\ Len(Tail(seq)) = Len(seq) - 1 /\ Len(seq) > 0
      /\ \A i \in 1..Len(Tail(seq)) : Tail(seq)[i] = seq[i + 1]
      /\ Head(seq) = seq[1]
      /\ \A i \in 1..Len(seq) : seq[i] \in S
  BY HeadTailProperties, Z3
<1>2. ASSUME NEW i \in 1..Len(seq), i # 1
      PROVE  i - 1 \in 1..Len(Tail(seq)) /\ Tail(seq)[i - 1] = seq[i]
  <2>1. i - 1 \in 1..Len(Tail(seq)) /\ (i - 1) + 1 = i
    BY <1>1, <1>2
  <2> QED
    BY <1>1, <2>1
<1>3. \A i \in 1..Len(Tail(seq)) : i + 1 \in 1..Len(seq)
  BY <1>1
<1>4. 1 \in 1..Len(seq)
  BY <1>1
<1>5. Elements(seq) \subseteq {Head(seq)} \cup Elements(Tail(seq))
  BY <1>1, <1>2 DEF Elements
<1>6. {Head(seq)} \cup Elements(Tail(seq)) \subseteq Elements(seq)
  BY <1>1, <1>3, <1>4 DEF Elements
<1> QED
  BY <1>1, <1>5, <1>6 DEF Elements

LEMMA TargetsOfCommand ==
    ASSUME NEW config \in Configs
    PROVE  /\ CompilationTargets(config) \in Seq(Targets)
           /\ Host \in Elements(CompilationTargets(config))
           /\ CompilationTargets(config) # <<>>
<1> DEFINE others == OtherTargets(config)
<1>1. others \in Seq(Targets) /\ <<Host>> \in Seq(Targets)
  BY CompileFnAssumption
<1> HIDE DEF others
<1>2. /\ <<Host>> \o others \in Seq(Targets)
      /\ Len(<<Host>> \o others) = 1 + Len(others) /\ Len(others) \in Nat
      /\ (<<Host>> \o others)[1] = Host
  BY <1>1
<1>3. 1 \in 1..Len(<<Host>> \o others)
  BY <1>2
<1> QED
  BY <1>2, <1>3 DEF CompilationTargets, Elements, others

----------------------------------------------------------------------------
(* Changes of a job.                                                       *)

Pcs == {"generate", "provision", "validate", "build", "cargo", "read", "done"}

LEMMA JobFields ==
    ASSUME TypeOK, NEW s \in Sessions, Busy(s)
    PROVE  /\ job[s] \in Job
           /\ job[s].fn \in Fns /\ job[s].gen \in 1..MaxGen /\ job[s].config \in Configs
           /\ job[s].body \in ProSrcEntry /\ job[s].body.src \in Srcs
           /\ job[s].body.lib \in PartialFunctions(Targets, SharedLibrary)
           /\ job[s].config.lints \in LintSets /\ job[s].config.version \in Versions
           /\ job[s].todo \in Seq(Targets)
           /\ job[s].built \in Seq([target : Targets, bytes : Artifact])
<1>1. job[s] \in Job
  BY DEF TypeOK, Busy
<1>2. job[s].config \in Config
  BY <1>1, CompileFnAssumption DEF Job
<1> QED
  BY <1>1, <1>2 DEF Job, ProSrcEntry, Config

\* What Goto leaves alone.
SameButPc(j, k) ==
    /\ k.fn = j.fn /\ k.gen = j.gen /\ k.config = j.config /\ k.body = j.body
    /\ k.todo = j.todo /\ k.built = j.built

LEMMA GotoStep ==
    ASSUME TypeOK, NEW s \in Sessions, Busy(s), NEW pc \in Pcs, Goto(s, pc)
    PROVE  /\ job' \in [Sessions -> Job \cup {NoJob}]
           /\ job'[s] \in Job /\ Busy(s)'
           /\ job'[s].pc = pc /\ SameButPc(job[s], job'[s])
           /\ \A t \in Sessions : t # s => job'[t] = job[t]
<1>1. job \in [Sessions -> Job \cup {NoJob}] /\ job[s] \in Job
  BY DEF TypeOK, Busy
<1>2. job' = [job EXCEPT ![s] = [job[s] EXCEPT !.pc = pc]]
  BY DEF Goto
<1>3. [job[s] EXCEPT !.pc = pc] \in Job
  BY <1>1 DEF Job, Pcs
<1>4. /\ job'[s] = [job[s] EXCEPT !.pc = pc]
      /\ \A t \in Sessions : t # s => job'[t] = job[t]
      /\ job' \in [Sessions -> Job \cup {NoJob}]
  BY <1>1, <1>2, <1>3
<1>5. /\ [job[s] EXCEPT !.pc = pc].pc = pc
      /\ SameButPc(job[s], [job[s] EXCEPT !.pc = pc])
  BY <1>1 DEF Job, SameButPc
<1> QED
  BY <1>3, <1>4, <1>5, NoneAssumption DEF Busy

LEMMA FailStep ==
    ASSUME TypeOK, NEW s \in Sessions, Fail(s)
    PROVE  /\ job' \in [Sessions -> Job \cup {NoJob}]
           /\ ~Busy(s)'
           /\ \A t \in Sessions : t # s => job'[t] = job[t]
  BY DEF TypeOK, Fail, Busy

----------------------------------------------------------------------------
(* What a step leaves alone.                                               *)

\* No two commands have the same crate.
LEMMA NamesDiffer ==
    ASSUME TypeOK, LocksOK, NEW s \in Sessions, NEW t \in Sessions, s # t,
           Busy(s), Busy(t)
    PROVE  NameOf(s) # NameOf(t)
<1>1. job[s].fn # job[t].fn
  BY DEF LocksOK
<1> QED
  BY <1>1 DEF NameOf, CrateName

LEMMA LocksFrame ==
    ASSUME LocksOK, UNCHANGED <<committed, nextGen>>,
           \A t \in Sessions : Busy(t)' =>
               Busy(t) /\ job'[t].fn = job[t].fn /\ job'[t].gen = job[t].gen
    PROVE  LocksOK'
<1>1. ASSUME NEW s \in Sessions, NEW t \in Sessions, Busy(s)', Busy(t)',
             job'[s].fn = job'[t].fn
      PROVE  s = t
  BY <1>1 DEF LocksOK
<1>2. ASSUME NEW s \in Sessions, Busy(s)'
      PROVE  /\ job'[s].gen < nextGen'
             /\ committed'[job'[s].fn] # NoRow => committed'[job'[s].fn].gen < job'[s].gen
  BY <1>2 DEF LocksOK
<1>3. ASSUME NEW f \in Fns, committed'[f] # NoRow
      PROVE  committed'[f].gen < nextGen'
  BY <1>3 DEF LocksOK
<1> QED
  BY <1>1, <1>2, <1>3 DEF LocksOK

\* A command whose files nobody touches stays sound.  Orphans may read its crate
\* as it is.
LEMMA SessionFrame ==
    ASSUME NEW t \in Sessions, SessionOK(t), job'[t] = job[t],
           Busy(t) =>
              /\ NameOf(t) \in DOMAIN crates' <=> NameOf(t) \in DOMAIN crates
              /\ NameOf(t) \in DOMAIN crates =>
                    crates'[NameOf(t)] = crates[NameOf(t)]
              /\ \A target : <<NameOf(t), target>> \in DOMAIN artifacts =>
                    /\ <<NameOf(t), target>> \in DOMAIN artifacts'
                    /\ artifacts'[<<NameOf(t), target>>] = artifacts[<<NameOf(t), target>>]
              /\ \A c \in cargos' : c.crate = NameOf(t) /\ c.read # Unread =>
                    c \in cargos \/ c.read = crates[NameOf(t)]
    PROVE  SessionOK(t)'
<1> SUFFICES ASSUME Busy(t)'
             PROVE  JobOK(job'[t]) /\ CrateOK(t)' /\ ReadOK(t)'
  BY DEF SessionOK, JobOK
<1>1. Busy(t) /\ JobOK(job[t]) /\ CrateOK(t) /\ ReadOK(t)
  BY DEF Busy, SessionOK
<1>2. NameOf(t)' = NameOf(t) /\ Generated(t)' = Generated(t)
  BY DEF NameOf, Generated
<1>3. CrateOK(t)'
  BY <1>1, <1>2 DEF CrateOK
<1>4. ASSUME job'[t].pc = "read"
      PROVE  /\ <<NameOf(t), Head(job[t].todo)>> \in DOMAIN artifacts'
             /\ artifacts'[<<NameOf(t), Head(job[t].todo)>>]
                   = Asked(job[t], Head(job[t].todo))
             /\ \A c \in cargos' : c.crate = NameOf(t) /\ c.read # Unread =>
                   c.read = Generated(t)
  <2>1. job[t].pc = "read"
    BY <1>4
  <2>2. crates[NameOf(t)] = Generated(t)
    BY <1>1, <2>1 DEF CrateOK
  <2> QED
    BY <1>1, <2>1, <2>2 DEF ReadOK, Holds
<1>5. ReadOK(t)'
  BY <1>2, <1>4 DEF ReadOK, Holds, Asked
<1> QED
  BY <1>1, <1>3, <1>5

LEMMA CargosFrame ==
    ASSUME TypeOK, CargosOK, NEW s \in Sessions, ~At(s, "cargo"), UNCHANGED cargos,
           \A t \in Sessions : t # s => job'[t] = job[t]
    PROVE  CargosOK'
<1>1. ASSUME NEW c \in cargos, c.owner # Nobody
      PROVE  /\ At(c.owner, "cargo")'
             /\ c.crate = NameOf(c.owner)'
             /\ c.target = Head(job'[c.owner].todo)
             /\ c.read # Unread => c.read = Generated(c.owner)'
  <2>1. c.owner \in Sessions
    BY <1>1 DEF TypeOK, CargoProcess
  <2>2. /\ At(c.owner, "cargo") /\ c.crate = NameOf(c.owner)
        /\ c.target = Head(job[c.owner].todo)
        /\ c.read # Unread => c.read = Generated(c.owner)
    BY <1>1 DEF CargosOK, OwnerOK, Holds
  <2>3. job'[c.owner] = job[c.owner]
    BY <2>1, <2>2
  <2> QED
    BY <2>2, <2>3 DEF At, Busy, NameOf, Generated
<1>2. \A c \in cargos' : OwnerOK(c)'
  BY <1>1 DEF OwnerOK, Holds
<1> QED
  BY <1>2 DEF CargosOK, Holds

\* A step of session s that works on its own job and its own crate directory.
LEMMA SessionStep ==
    ASSUME CompileInv, NEW s \in Sessions, Busy(s), ~At(s, "cargo"),
           job' \in [Sessions -> Job \cup {NoJob}],
           \A t \in Sessions : t # s => job'[t] = job[t],
           Busy(s)' => job'[s].fn = job[s].fn /\ job'[s].gen = job[s].gen,
           \A name \in DOMAIN crates' :
               IF name = NameOf(s) THEN crates'[name] \in Crate
               ELSE name \in DOMAIN crates /\ crates'[name] = crates[name],
           \A name \in DOMAIN crates : name # NameOf(s) => name \in DOMAIN crates',
           UNCHANGED <<targets, committed, nextGen, artifacts, cargos, crashes>>,
           SessionOK(s)'
    PROVE  CompileInv'
<1>0. TypeOK /\ LocksOK /\ CargosOK /\ CommittedCratesRemoved
  BY DEF CompileInv
<1>1. NameOf(s) \in Fns \X (1..MaxGen)
  BY <1>0, JobFields DEF NameOf, CrateName
<1>2. TypeOK'
  <2>1. DOMAIN crates' \subseteq Fns \X (1..MaxGen)
    BY <1>0, <1>1 DEF TypeOK
  <2>2. \A name \in DOMAIN crates' : crates'[name] \in Crate
    BY <1>0 DEF TypeOK
  <2> QED
    BY <1>0, <2>1, <2>2 DEF TypeOK
<1>3. LocksOK'
  <2>1. \A t \in Sessions : Busy(t)' =>
            Busy(t) /\ job'[t].fn = job[t].fn /\ job'[t].gen = job[t].gen
    BY DEF Busy
  <2> QED
    BY <1>0, <2>1, LocksFrame
<1>4. CargosOK'
  BY <1>0, CargosFrame
<1>5. ASSUME NEW t \in Sessions  PROVE SessionOK(t)'
  <2>1. CASE t = s
    BY <2>1
  <2>2. CASE t # s
    <3>1. SessionOK(t) /\ job'[t] = job[t]
      BY <2>2 DEF CompileInv
    <3>2. Busy(t) => NameOf(t) # NameOf(s)
      BY <1>0, <2>2, NamesDiffer
    <3> QED
      BY <3>1, <3>2, SessionFrame
  <2> QED
    BY <2>1, <2>2
<1>6. CommittedCratesRemoved'
  <2>1. ASSUME NEW f \in Fns, committed[f] # NoRow
        PROVE  CrateName(f, committed[f].gen) \notin DOMAIN crates'
    <3>1. CrateName(f, committed[f].gen) \notin DOMAIN crates
      BY <1>0, <2>1 DEF CommittedCratesRemoved
    <3>2. CrateName(f, committed[f].gen) # NameOf(s)
      <4>1. /\ committed[job[s].fn] # NoRow => committed[job[s].fn].gen < job[s].gen
            /\ job[s].gen \in Int
        BY <1>0, JobFields DEF LocksOK
      <4>2. f = job[s].fn => committed[f].gen # job[s].gen
        BY <2>1, <4>1, <1>0 DEF TypeOK, Row
      <4> QED
        BY <4>2 DEF NameOf, CrateName
    <3> QED
      BY <3>1, <3>2
  <2> QED
    BY <2>1 DEF CommittedCratesRemoved
<1> QED
  BY <1>2, <1>3, <1>4, <1>5, <1>6 DEF CompileInv

----------------------------------------------------------------------------
(* The steps of a command other than those with cargo.                     *)

LEMMA JobSameButPc ==
    ASSUME NEW j, NEW k, JobOK(j), SameButPc(j, k),
           k.pc \in {"cargo", "read"} => j.todo # <<>>,
           k.pc = "done" => j.todo = <<>> /\ j.built = <<>>
    PROVE  JobOK(k)
<1>1. \A target : Asked(k, target) = Asked(j, target) /\ Own(k, target) = Own(j, target)
  BY DEF Asked, Own, SameButPc
<1>2. k.config = j.config /\ k.body = j.body /\ k.todo = j.todo /\ k.built = j.built
  BY DEF SameButPc
<1> QED
  BY <1>1, <1>2 DEF JobOK

LEMMA OwnFields ==
    ASSUME NEW j, NEW target
    PROVE  /\ Own(j, target).bytes = Asked(j, target)
           /\ Own(j, target).symbol = j.fn /\ Own(j, target).lints = j.config.lints
           /\ Asked(j, target).src = j.body.src /\ Asked(j, target).target = target
           /\ Asked(j, target).symbol = j.fn /\ Asked(j, target).lints = j.config.lints
  BY DEF Own, Asked

LEMMA SameCrate ==
    ASSUME NEW s \in Sessions, SameButPc(job[s], job'[s])
    PROVE  NameOf(s)' = NameOf(s) /\ Generated(s)' = Generated(s)
  BY DEF SameButPc, NameOf, Generated

LEMMA GeneratedType ==
    ASSUME TypeOK, NEW s \in Sessions, Busy(s)
    PROVE  Generated(s) \in Crate
  BY JobFields DEF Generated, Crate

\* The command fails, with its crate directory there or not.
LEMMA FailPreserves ==
    ASSUME CompileInv, NEW s \in Sessions, Busy(s), ~At(s, "cargo"), Fail(s),
           crates' \in {crates, Put(crates, NameOf(s), Generated(s))},
           UNCHANGED <<targets, committed, nextGen, artifacts, cargos, crashes>>
    PROVE  CompileInv'
<1>0. TypeOK
  BY DEF CompileInv
<1>1. /\ job' \in [Sessions -> Job \cup {NoJob}] /\ ~Busy(s)'
      /\ \A t \in Sessions : t # s => job'[t] = job[t]
  BY <1>0, FailStep
<1>2. /\ \A name \in DOMAIN crates' :
            IF name = NameOf(s) THEN crates'[name] \in Crate
            ELSE name \in DOMAIN crates /\ crates'[name] = crates[name]
      /\ \A name \in DOMAIN crates : name # NameOf(s) => name \in DOMAIN crates'
  <2>1. CASE crates' = crates
    BY <1>0, <2>1 DEF TypeOK
  <2>2. CASE crates' = Put(crates, NameOf(s), Generated(s))
    BY <1>0, <2>2, GeneratedType, SMT DEF Put
  <2> QED
    BY <2>1, <2>2
<1>3. SessionOK(s)'
  BY <1>1 DEF SessionOK
<1> QED
  BY <1>1, <1>2, <1>3, SessionStep

LEMMA GeneratePreserves ==
    ASSUME CompileInv, NEW s \in Sessions, Generate(s)
    PROVE  CompileInv'
<1>0. TypeOK /\ Busy(s) /\ ~At(s, "cargo") /\ SessionOK(s)
  BY DEF CompileInv, Generate, At
<1>1. /\ job' \in [Sessions -> Job \cup {NoJob}]
      /\ job'[s].pc = "provision" /\ SameButPc(job[s], job'[s])
      /\ \A t \in Sessions : t # s => job'[t] = job[t]
  BY <1>0, GotoStep DEF Generate, Pcs
<1>2. JobOK(job'[s])
  BY <1>0, <1>1, JobSameButPc DEF SessionOK
<1>3. SessionOK(s)'
  BY <1>1, <1>2 DEF SessionOK, CrateOK, ReadOK, JobOK
<1>4. \A name \in DOMAIN crates : crates[name] \in Crate
  BY <1>0 DEF TypeOK
<1> QED
  BY <1>0, <1>1, <1>3, <1>4, SessionStep DEF Generate, SameButPc

LEMMA ProvisionPreserves ==
    ASSUME CompileInv, NEW s \in Sessions, Provision(s)
    PROVE  CompileInv'
<1>0. TypeOK /\ Busy(s) /\ ~At(s, "cargo") /\ SessionOK(s)
  BY DEF CompileInv, Provision, At
<1>1. /\ job' \in [Sessions -> Job \cup {NoJob}]
      /\ job'[s].pc = "validate" /\ SameButPc(job[s], job'[s])
      /\ \A t \in Sessions : t # s => job'[t] = job[t]
  BY <1>0, GotoStep DEF Provision, Pcs
<1>2. JobOK(job'[s])
  BY <1>0, <1>1, JobSameButPc DEF SessionOK
<1>3. /\ DOMAIN crates' = DOMAIN crates \cup {NameOf(s)}
      /\ crates'[NameOf(s)] = Generated(s)
      /\ \A name \in DOMAIN crates : name # NameOf(s) => crates'[name] = crates[name]
  BY DEF Provision, Put
<1>4. CrateOK(s)' /\ ReadOK(s)'
  BY <1>1, <1>3, SameCrate DEF CrateOK, ReadOK
<1>5. SessionOK(s)'
  BY <1>2, <1>4 DEF SessionOK, JobOK
<1>6. \A name \in DOMAIN crates' :
         IF name = NameOf(s) THEN crates'[name] \in Crate
         ELSE name \in DOMAIN crates /\ crates'[name] = crates[name]
  BY <1>0, <1>3, GeneratedType
<1> QED
  BY <1>0, <1>1, <1>3, <1>5, <1>6, SessionStep DEF Provision, SameButPc

LEMMA ValidatePreserves ==
    ASSUME CompileInv, NEW s \in Sessions, Validate(s)
    PROVE  CompileInv'
<1>0. TypeOK /\ Busy(s) /\ ~At(s, "cargo") /\ SessionOK(s)
  BY DEF CompileInv, Validate, At
<1>1. /\ job' \in [Sessions -> Job \cup {NoJob}]
      /\ job'[s].pc = "build" /\ SameButPc(job[s], job'[s])
      /\ \A t \in Sessions : t # s => job'[t] = job[t]
  BY <1>0, GotoStep DEF Validate, Pcs
<1>2. JobOK(job'[s])
  BY <1>0, <1>1, JobSameButPc DEF SessionOK
<1>3. NameOf(s) \in DOMAIN crates /\ crates[NameOf(s)] = Generated(s)
  BY <1>0 DEF Validate, At, SessionOK, CrateOK
<1>4. crates' = crates
  BY DEF Validate
<1>5. CrateOK(s)' /\ ReadOK(s)'
  BY <1>1, <1>3, <1>4, SameCrate DEF CrateOK, ReadOK
<1>6. SessionOK(s)'
  BY <1>2, <1>5 DEF SessionOK, JobOK
<1>7. \A name \in DOMAIN crates : crates[name] \in Crate
  BY <1>0 DEF TypeOK
<1> QED
  BY <1>0, <1>1, <1>4, <1>6, <1>7, SessionStep DEF Validate, SameButPc

LEMMA CleanupPreserves ==
    ASSUME CompileInv, NEW s \in Sessions, Cleanup(s)
    PROVE  CompileInv'
<1>0. TypeOK /\ Busy(s) /\ ~At(s, "cargo") /\ SessionOK(s)
  BY DEF CompileInv, Cleanup, At
<1>1. /\ job' \in [Sessions -> Job \cup {NoJob}]
      /\ job'[s].pc = "done" /\ SameButPc(job[s], job'[s])
      /\ \A t \in Sessions : t # s => job'[t] = job[t]
  BY <1>0, GotoStep DEF Cleanup, Pcs
<1>2. JobOK(job'[s])
  BY <1>0, <1>1, JobSameButPc DEF SessionOK, Cleanup
<1>3. /\ DOMAIN crates' = DOMAIN crates \ {NameOf(s)}
      /\ \A name \in DOMAIN crates : name # NameOf(s) => crates'[name] = crates[name]
  BY WithoutApplied DEF Cleanup
<1>4. CrateOK(s)' /\ ReadOK(s)'
  BY <1>1, <1>3, SameCrate DEF CrateOK, ReadOK
<1>5. SessionOK(s)'
  BY <1>2, <1>4 DEF SessionOK, JobOK
<1>6. \A name \in DOMAIN crates' :
         IF name = NameOf(s) THEN crates'[name] \in Crate
         ELSE name \in DOMAIN crates /\ crates'[name] = crates[name]
  BY <1>3
<1> QED
  BY <1>0, <1>1, <1>3, <1>5, <1>6, SessionStep DEF Cleanup, SameButPc

\* What the body and the library of a row become.
LEMMA EntryType ==
    ASSUME NEW body \in ProSrcEntry, NEW version \in Versions
    PROVE  /\ EntryOf(body, version) \in ProSrcEntry
           /\ EntryOf(body, version).src = body.src
           /\ EntryOf(body, version).lib = body.lib
  BY DEF ProSrcEntry, EntryOf

LEMMA BodyAfterStore ==
    ASSUME NEW entry \in ProSrcEntry, NEW target \in Targets, NEW library \in SharedLibrary
    PROVE  /\ WithLibrary(entry, target, library) \in ProSrcEntry
           /\ WithLibrary(entry, target, library).src = entry.src
           /\ WithLibrary(entry, target, library).lib = Put(entry.lib, target, library)
<1>1. Put(entry.lib, target, library) \in PartialFunctions(Targets, SharedLibrary)
  BY PutPartial DEF ProSrcEntry
<1> HIDE DEF ProSrcEntry
<1>2. \A lib \in PartialFunctions(Targets, SharedLibrary) :
        /\ [entry EXCEPT !.lib = lib] \in ProSrcEntry
        /\ [entry EXCEPT !.lib = lib].src = entry.src
        /\ [entry EXCEPT !.lib = lib].lib = lib
  BY DEF ProSrcEntry
<1> QED
  BY <1>1, <1>2 DEF WithLibrary

LEMMA AppendedLibrary ==
    ASSUME NEW S, NEW seq \in Seq(S), NEW x \in S
    PROVE  /\ Append(seq, x) \in Seq(S)
           /\ Len(seq) \in Nat /\ Len(Append(seq, x)) = Len(seq) + 1
           /\ \A i \in 1..Len(seq) : Append(seq, x)[i] = seq[i]
           /\ Append(seq, x)[Len(Append(seq, x))] = x
<1>1. Len(seq) \in Nat
  OBVIOUS
<1> QED
  BY <1>1, AppendProperties

LEMMA ReadArtifactPreserves ==
    ASSUME CompileInv, NEW s \in Sessions, ReadArtifact(s)
    PROVE  CompileInv'
<1> DEFINE target == Head(job[s].todo)
           library == [target |-> target, bytes |-> artifacts[<<NameOf(s), target>>]]
           todo == Tail(job[s].todo)
           built == Append(job[s].built, library)
<1>0. TypeOK /\ Busy(s) /\ ~At(s, "cargo") /\ SessionOK(s) /\ job[s].pc = "read"
  BY DEF CompileInv, ReadArtifact, At
<1>1. /\ JobOK(job[s])
      /\ NameOf(s) \in DOMAIN crates /\ crates[NameOf(s)] = Generated(s)
      /\ artifacts[<<NameOf(s), target>>] = Asked(job[s], target)
      /\ job[s].todo # <<>>
  BY <1>0 DEF SessionOK, CrateOK, ReadOK, JobOK
<1>2. /\ target \in Targets /\ todo \in Seq(Targets)
      /\ Elements(job[s].todo) = {target} \cup Elements(todo)
  BY <1>0, <1>1, JobFields, ElementsOfTail
<1>3. library \in [target : Targets, bytes : Artifact]
  BY <1>0, <1>2 DEF ReadArtifact, TypeOK
<1>4. /\ built \in Seq([target : Targets, bytes : Artifact])
      /\ Len(job[s].built) \in Nat /\ Len(built) = Len(job[s].built) + 1
      /\ \A i \in 1..Len(job[s].built) : built[i] = job[s].built[i]
      /\ built[Len(built)] = library
  <2> DEFINE S == [target : Targets, bytes : Artifact]
  <2>1. job[s].built \in Seq(S) /\ library \in S
    BY <1>0, <1>3, JobFields
  <2> HIDE DEF S, library
  <2>2. /\ built \in Seq(S)
        /\ Len(job[s].built) \in Nat /\ Len(built) = Len(job[s].built) + 1
        /\ \A i \in 1..Len(job[s].built) : built[i] = job[s].built[i]
        /\ built[Len(built)] = library
    BY <2>1, AppendedLibrary
  <2> QED
    BY <2>2 DEF S
<1>5. /\ job' \in [Sessions -> Job \cup {NoJob}]
      /\ job'[s] = Command("build", job[s].fn, job[s].gen, job[s].config, job[s].body,
                           todo, built)
      /\ \A t \in Sessions : t # s => job'[t] = job[t]
      /\ UNCHANGED <<targets, committed, nextGen, crates, artifacts, cargos, crashes>>
  <2>1. Command("build", job[s].fn, job[s].gen, job[s].config, job[s].body,
                todo, built) \in Job
    BY <1>0, <1>2, <1>4, JobFields DEF Command, Job
  <2>2. /\ job' = [job EXCEPT ![s] = Command("build", job[s].fn, job[s].gen,
                                   job[s].config, job[s].body, todo, built)]
        /\ UNCHANGED <<targets, committed, nextGen, crates, artifacts, cargos, crashes>>
    BY DEF ReadArtifact
  <2> QED
    BY <1>0, <2>1, <2>2 DEF TypeOK
<1>6. /\ job'[s].pc = "build" /\ job'[s].fn = job[s].fn /\ job'[s].gen = job[s].gen
      /\ job'[s].config = job[s].config /\ job'[s].body = job[s].body
      /\ job'[s].todo = todo /\ job'[s].built = built
  BY <1>5 DEF Command
<1>7. library.bytes = Asked(job[s], library.target) /\ library.target = target
  BY <1>1
<1> HIDE DEF target, library, todo, built
<1>8. \A t : Asked(job'[s], t) = Asked(job[s], t) /\ Own(job'[s], t) = Own(job[s], t)
  BY <1>6 DEF Asked, Own
<1>9. JobOK(job'[s])
  <2>1. \A i \in 1..Len(built) : built[i].bytes = Asked(job[s], built[i].target)
    <3>1. \A i \in 1..Len(job[s].built) :
              job[s].built[i].bytes = Asked(job[s], job[s].built[i].target)
      BY <1>1 DEF JobOK
    <3>2. ASSUME NEW i \in 1..Len(built)
          PROVE  i = Len(built) \/ i \in 1..Len(job[s].built)
      BY <1>4
    <3>3. built[Len(built)].bytes = Asked(job[s], built[Len(built)].target)
      BY <1>4, <1>7
    <3>4. ASSUME NEW i \in 1..Len(job[s].built)
          PROVE  built[i].bytes = Asked(job[s], built[i].target)
      BY <1>4, <3>1
    <3> QED
      BY <3>2, <3>3, <3>4
  <2>2. ASSUME NEW t \in Elements(CompilationTargets(job[s].config))
        PROVE  \/ t \in Elements(todo)
               \/ \E i \in 1..Len(built) : built[i].target = t
               \/ t \in DOMAIN job[s].body.lib /\ job[s].body.lib[t] = Own(job[s], t)
    <3>1. CASE t \in Elements(job[s].todo)
      <4>1. Len(built) \in 1..Len(built)
        BY <1>4
      <4> QED
        BY <3>1, <4>1, <1>2, <1>4, <1>7
    <3>2. CASE \E i \in 1..Len(job[s].built) : job[s].built[i].target = t
      <4>1. \A i \in 1..Len(job[s].built) : i \in 1..Len(built)
        BY <1>4
      <4> QED
        BY <3>2, <4>1, <1>4
    <3> QED
      BY <3>1, <3>2, <1>1 DEF JobOK
  <2> QED
    BY <2>1, <2>2, <1>1, <1>6, <1>8 DEF JobOK
<1>10. CrateOK(s)' /\ ReadOK(s)'
  BY <1>1, <1>5, <1>6 DEF CrateOK, ReadOK, NameOf, Generated
<1>11. SessionOK(s)'
  BY <1>9, <1>10 DEF SessionOK, JobOK
<1>12. \A name \in DOMAIN crates : crates[name] \in Crate
  BY <1>0 DEF TypeOK
<1> QED
  BY <1>0, <1>5, <1>6, <1>11, <1>12, SessionStep

LEMMA HeadAndTail ==
    ASSUME NEW S, NEW seq \in Seq(S), seq # <<>>
    PROVE  /\ Head(seq) \in S /\ Tail(seq) \in Seq(S)
           /\ 1 \in 1..Len(seq) /\ Head(seq) = seq[1]
           /\ \A i \in 1..Len(Tail(seq)) :
                 i + 1 \in 1..Len(seq) /\ Tail(seq)[i] = seq[i + 1]
           /\ \A i \in 1..Len(seq) : i # 1 =>
                 i - 1 \in 1..Len(Tail(seq)) /\ Tail(seq)[i - 1] = seq[i]
<1>1. /\ Head(seq) \in S /\ Tail(seq) \in Seq(S)
      /\ Len(seq) \in Nat /\ Len(Tail(seq)) = Len(seq) - 1 /\ Len(seq) > 0
      /\ \A i \in 1..Len(Tail(seq)) : Tail(seq)[i] = seq[i + 1]
      /\ Head(seq) = seq[1]
  BY HeadTailProperties, Z3
<1>2. ASSUME NEW i \in 1..Len(seq), i # 1
      PROVE  i - 1 \in 1..Len(Tail(seq)) /\ Tail(seq)[i - 1] = seq[i]
  <2>1. i - 1 \in 1..Len(Tail(seq)) /\ (i - 1) + 1 = i
    BY <1>1, <1>2
  <2> QED
    BY <1>1, <2>1
<1>3. \A i \in 1..Len(Tail(seq)) : i + 1 \in 1..Len(seq)
  BY <1>1
<1>4. 1 \in 1..Len(seq)
  BY <1>1
<1> QED
  BY <1>1, <1>2, <1>3, <1>4

LEMMA StorePreserves ==
    ASSUME CompileInv, NEW s \in Sessions, Store(s)
    PROVE  CompileInv'
<1> DEFINE head == Head(job[s].built)
           library == [bytes |-> head.bytes, symbol |-> job[s].fn,
                       lints |-> job[s].config.lints]
           entry == EntryOf(job[s].body, job[s].config.version)
           body == WithLibrary(entry, head.target, library)
           built == Tail(job[s].built)
<1>0. TypeOK /\ Busy(s) /\ ~At(s, "cargo") /\ SessionOK(s) /\ job[s].pc = "build"
  BY DEF CompileInv, Store, At
<1>1. /\ JobOK(job[s])
      /\ NameOf(s) \in DOMAIN crates /\ crates[NameOf(s)] = Generated(s)
      /\ job[s].todo = <<>> /\ job[s].built # <<>>
  BY <1>0 DEF SessionOK, CrateOK, JobOK, Store
<1>2. /\ head \in [target : Targets, bytes : Artifact]
      /\ built \in Seq([target : Targets, bytes : Artifact])
      /\ 1 \in 1..Len(job[s].built) /\ head = job[s].built[1]
      /\ \A i \in 1..Len(built) :
            i + 1 \in 1..Len(job[s].built) /\ built[i] = job[s].built[i + 1]
      /\ \A i \in 1..Len(job[s].built) : i # 1 =>
            i - 1 \in 1..Len(built) /\ built[i - 1] = job[s].built[i]
  <2> DEFINE S == [target : Targets, bytes : Artifact]
  <2>1. job[s].built \in Seq(S) /\ job[s].built # <<>>
    BY <1>0, <1>1, JobFields
  <2> HIDE DEF S
  <2>2. /\ head \in S /\ built \in Seq(S)
        /\ 1 \in 1..Len(job[s].built) /\ head = job[s].built[1]
        /\ \A i \in 1..Len(built) :
              i + 1 \in 1..Len(job[s].built) /\ built[i] = job[s].built[i + 1]
        /\ \A i \in 1..Len(job[s].built) : i # 1 =>
              i - 1 \in 1..Len(built) /\ built[i - 1] = job[s].built[i]
    BY <2>1, HeadAndTail
  <2> QED
    BY <2>2 DEF S
<1>3. head.target \in Targets /\ library \in SharedLibrary
  BY <1>0, <1>2, JobFields, CompileFnAssumption DEF SharedLibrary
<1>4. entry \in ProSrcEntry /\ entry.src = job[s].body.src /\ entry.lib = job[s].body.lib
  BY <1>0, JobFields, EntryType
<1>5. /\ body \in ProSrcEntry /\ body.src = job[s].body.src
      /\ body.lib = Put(job[s].body.lib, head.target, library)
  BY <1>3, <1>4, BodyAfterStore
<1>6. /\ job' \in [Sessions -> Job \cup {NoJob}]
      /\ job'[s] = Command("build", job[s].fn, job[s].gen, job[s].config, body,
                           job[s].todo, built)
      /\ \A t \in Sessions : t # s => job'[t] = job[t]
      /\ UNCHANGED <<targets, committed, nextGen, crates, artifacts, cargos, crashes>>
  <2>1. Command("build", job[s].fn, job[s].gen, job[s].config, body,
                job[s].todo, built) \in Job
    BY <1>0, <1>2, <1>5, JobFields DEF Command, Job
  <2>2. /\ job' = [job EXCEPT ![s] = Command("build", job[s].fn, job[s].gen,
                                   job[s].config, body, job[s].todo, built)]
        /\ UNCHANGED <<targets, committed, nextGen, crates, artifacts, cargos, crashes>>
    BY DEF Store
  <2> QED
    BY <1>0, <2>1, <2>2 DEF TypeOK
<1>7. /\ job'[s].pc = "build" /\ job'[s].fn = job[s].fn /\ job'[s].gen = job[s].gen
      /\ job'[s].config = job[s].config /\ job'[s].body = body
      /\ job'[s].todo = job[s].todo /\ job'[s].built = built
  BY <1>6 DEF Command
<1>8. /\ head.bytes = Asked(job[s], head.target)
      /\ library = Own(job[s], head.target)
  BY <1>1, <1>2 DEF JobOK, Own
<1>9. /\ DOMAIN body.lib = DOMAIN job[s].body.lib \cup {head.target}
      /\ body.lib[head.target] = library
      /\ \A t \in DOMAIN job[s].body.lib :
            t # head.target => body.lib[t] = job[s].body.lib[t]
  BY <1>5 DEF Put
<1> HIDE DEF head, library, entry, body, built
<1>10. \A t : Asked(job'[s], t) = Asked(job[s], t) /\ Own(job'[s], t) = Own(job[s], t)
  BY <1>5, <1>7 DEF Asked, Own
<1>11. JobOK(job'[s])
  <2>1. \A i \in 1..Len(built) : built[i].bytes = Asked(job[s], built[i].target)
    BY <1>1, <1>2 DEF JobOK
  <2>2. ASSUME NEW t \in Elements(CompilationTargets(job[s].config))
        PROVE  \/ t \in Elements(job[s].todo)
               \/ \E i \in 1..Len(built) : built[i].target = t
               \/ t \in DOMAIN body.lib /\ body.lib[t] = Own(job[s], t)
    <3>1. CASE t = head.target
      BY <3>1, <1>8, <1>9
    <3>2. CASE t # head.target /\ \E i \in 1..Len(job[s].built) : job[s].built[i].target = t
      BY <3>2, <1>2
    <3>3. CASE /\ t # head.target /\ t \in DOMAIN job[s].body.lib
               /\ job[s].body.lib[t] = Own(job[s], t)
      BY <3>3, <1>9
    <3> QED
      BY <3>1, <3>2, <3>3, <1>1 DEF JobOK
  <2> QED
    BY <2>1, <2>2, <1>7, <1>10 DEF JobOK
<1>12. CrateOK(s)' /\ ReadOK(s)'
  BY <1>1, <1>5, <1>6, <1>7 DEF CrateOK, ReadOK, NameOf, Generated
<1>13. SessionOK(s)'
  BY <1>11, <1>12 DEF SessionOK, JobOK
<1>14. \A name \in DOMAIN crates : crates[name] \in Crate
  BY <1>0 DEF TypeOK
<1> QED
  BY <1>0, <1>6, <1>7, <1>13, <1>14, SessionStep

----------------------------------------------------------------------------
(* The beginning and the end of a command.                                 *)

LEMMA SubmissionsAreEntries ==
    ASSUME TypeOK, NEW body \in Submissions
    PROVE  body \in ProSrcEntry
<1>1. ASSUME NEW src \in Srcs PROVE Source(src) \in ProSrcEntry
  <2>1. <<>> \in PartialFunctions(Targets, SharedLibrary)
    BY EmptyPartial
  <2> QED
    BY <2>1 DEF Source, ProSrcEntry
<1>2. \A f \in Fns : committed[f] # NoRow => committed[f].body \in ProSrcEntry
  BY DEF TypeOK, Row
<1> QED
  BY <1>1, <1>2, EntriesAssumption DEF Submissions

LEMMA CreatePreserves ==
    ASSUME CompileInv, NEW s \in Sessions, NEW f \in Fns, Create(s, f)
    PROVE  CompileInv'
<1>0. TypeOK /\ LocksOK /\ CargosOK /\ CommittedCratesRemoved
  BY DEF CompileInv
<1>1. PICK body \in Submissions, config \in Configs :
        job' = [job EXCEPT ![s] = Command("generate", f, nextGen, config, body,
                                          CompilationTargets(config), <<>>)]
  BY DEF Create
<1> DEFINE new == Command("generate", f, nextGen, config, body,
                          CompilationTargets(config), <<>>)
<1>2. /\ ~Busy(s) /\ \A t \in Sessions : Busy(t) => job[t].fn # f
      /\ nextGen \in 1..MaxGen /\ nextGen' = nextGen + 1
      /\ UNCHANGED <<targets, committed, crates, artifacts, cargos, crashes>>
  BY <1>0, CompileFnAssumption DEF Create, TypeOK
<1>3. body \in ProSrcEntry
  BY <1>0, SubmissionsAreEntries
<1>4. CompilationTargets(config) \in Seq(Targets)
  BY TargetsOfCommand
<1>5. new \in Job
  BY <1>2, <1>3, <1>4 DEF Command, Job
<1>6. /\ job' \in [Sessions -> Job \cup {NoJob}] /\ job'[s] = new
      /\ \A t \in Sessions : t # s => job'[t] = job[t]
  BY <1>0, <1>1, <1>5 DEF TypeOK
<1>7. /\ new.pc = "generate" /\ new.fn = f /\ new.gen = nextGen /\ new.config = config
      /\ new.body = body /\ new.todo = CompilationTargets(config) /\ new.built = <<>>
  BY DEF Command
<1> HIDE DEF new
<1>8. TypeOK'
  <2>1. nextGen' \in 1..(MaxGen + 1)
    BY <1>2, CompileFnAssumption
  <2> QED
    BY <1>0, <1>2, <1>6, <2>1 DEF TypeOK
<1>9. LocksOK'
  <2>1. \A g \in Fns : committed[g] # NoRow => committed[g].gen < nextGen /\ committed[g].gen \in Int
    BY <1>0 DEF LocksOK, TypeOK, Row
  <2>2. \A t \in Sessions : Busy(t) =>
           /\ job[t].gen < nextGen /\ job[t].gen \in Int
           /\ committed[job[t].fn] # NoRow => committed[job[t].fn].gen < job[t].gen
    BY <1>0, JobFields DEF LocksOK
  <2>3. \A t \in Sessions : t # s => (Busy(t)' <=> Busy(t))
    BY <1>6 DEF Busy
  <2>4. ASSUME NEW t \in Sessions, NEW u \in Sessions, Busy(t)', Busy(u)',
               job'[t].fn = job'[u].fn
        PROVE  t = u
    BY <2>3, <2>4, <1>0, <1>2, <1>6, <1>7 DEF LocksOK
  <2>5. ASSUME NEW t \in Sessions, Busy(t)'
        PROVE  /\ job'[t].gen < nextGen'
               /\ committed'[job'[t].fn] # NoRow => committed'[job'[t].fn].gen < job'[t].gen
    <3>1. CASE t = s
      BY <3>1, <1>2, <1>6, <1>7, <2>1
    <3>2. CASE t # s
      BY <3>2, <2>2, <2>3, <2>5, <1>2, <1>6
    <3> QED
      BY <3>1, <3>2
  <2>6. \A g \in Fns : committed'[g] # NoRow => committed'[g].gen < nextGen'
    BY <2>1, <1>2
  <2> QED
    BY <2>4, <2>5, <2>6 DEF LocksOK
<1>10. CargosOK'
  BY <1>0, <1>2, <1>6, CargosFrame DEF At
<1>11. ASSUME NEW t \in Sessions  PROVE SessionOK(t)'
  <2>1. CASE t = s
    <3>1. JobOK(new)
      BY <1>3, <1>7 DEF JobOK
    <3> QED
      BY <2>1, <3>1, <1>6, <1>7 DEF SessionOK, CrateOK, ReadOK, JobOK
  <2>2. CASE t # s
    <3>1. SessionOK(t) /\ job'[t] = job[t]
      BY <2>2, <1>6 DEF CompileInv
    <3> QED
      BY <3>1, <1>2, SessionFrame
  <2> QED
    BY <2>1, <2>2
<1>12. CommittedCratesRemoved'
  BY <1>0, <1>2 DEF CommittedCratesRemoved
<1> QED
  BY <1>8, <1>9, <1>10, <1>11, <1>12 DEF CompileInv

\* A finished command has a library of its own making for every target.
LEMMA DoneIsComplete ==
    ASSUME NEW j, JobOK(j), j.pc = "done"
    PROVE  \A target \in Elements(CompilationTargets(j.config)) :
              /\ target \in DOMAIN j.body.lib
              /\ j.body.lib[target] = Own(j, target)
<1>1. j.todo = <<>> /\ j.built = <<>>
  BY DEF JobOK
<1>2. Elements(j.todo) = {} /\ 1..Len(j.built) = {}
  BY <1>1 DEF Elements
<1> QED
  BY <1>2 DEF JobOK

LEMMA CommitPreserves ==
    ASSUME CompileInv, NEW s \in Sessions, Commit(s)
    PROVE  CompileInv'
<1>0. /\ TypeOK /\ LocksOK /\ CargosOK /\ CommittedCratesRemoved
      /\ Busy(s) /\ job[s].pc = "done" /\ SessionOK(s)
  BY DEF CompileInv, Commit, At
<1> DEFINE f == job[s].fn
           row == [gen |-> job[s].gen, body |-> job[s].body]
<1>1. f \in Fns /\ job[s].gen \in 1..MaxGen /\ job[s].body \in ProSrcEntry
  BY <1>0, JobFields
<1>2. row \in Row /\ row.gen = job[s].gen /\ row.body = job[s].body
  BY <1>1 DEF Row
<1>3. /\ committed' \in [Fns -> Row \cup {NoRow}] /\ committed'[f] = row
      /\ \A g \in Fns : g # f => committed'[g] = committed[g]
      /\ UNCHANGED <<targets, nextGen, crates, artifacts, cargos, crashes>>
  BY <1>0, <1>1, <1>2 DEF Commit, TypeOK
<1>4. /\ job' \in [Sessions -> Job \cup {NoJob}] /\ ~Busy(s)'
      /\ \A t \in Sessions : t # s => job'[t] = job[t]
  BY <1>0 DEF Commit, TypeOK, Busy
<1> HIDE DEF row
<1>5. TypeOK'
  BY <1>0, <1>3, <1>4 DEF TypeOK
<1>6. LocksOK'
  <2>1. \A t \in Sessions : Busy(t)' => Busy(t) /\ t # s /\ job'[t] = job[t]
    BY <1>4 DEF Busy
  <2>2. ASSUME NEW t \in Sessions, Busy(t)'
        PROVE  committed'[job'[t].fn] = committed[job[t].fn]
    <3>1. Busy(t) /\ t # s /\ job'[t] = job[t]
      BY <2>1, <2>2
    <3>2. job[t].fn # f /\ job[t].fn \in Fns
      BY <1>0, <3>1, JobFields DEF LocksOK
    <3> QED
      BY <3>1, <3>2, <1>3
  <2>3. ASSUME NEW g \in Fns, committed'[g] # NoRow
        PROVE  committed'[g].gen < nextGen
    BY <2>3, <1>0, <1>2, <1>3 DEF LocksOK
  <2> QED
    BY <2>1, <2>2, <2>3, <1>0, <1>3 DEF LocksOK
<1>7. CargosOK'
  BY <1>0, <1>3, <1>4, CargosFrame DEF At
<1>8. ASSUME NEW t \in Sessions  PROVE SessionOK(t)'
  <2>1. CASE t = s
    BY <2>1, <1>4 DEF SessionOK
  <2>2. CASE t # s
    <3>1. SessionOK(t) /\ job'[t] = job[t]
      BY <2>2, <1>4 DEF CompileInv
    <3> QED
      BY <3>1, <1>3, SessionFrame
  <2> QED
    BY <2>1, <2>2
<1>10. CommittedCratesRemoved'
  <2>1. CrateName(f, job[s].gen) \notin DOMAIN crates
    BY <1>0 DEF SessionOK, CrateOK, NameOf
  <2> QED
    BY <2>1, <1>0, <1>2, <1>3 DEF CommittedCratesRemoved
<1> QED
  BY <1>5, <1>6, <1>7, <1>8, <1>10 DEF CompileInv

LEMMA CopyDatabasePreserves ==
    ASSUME CompileInv, NEW f \in Fns, NEW new \in Fns, CopyDatabase(f, new)
    PROVE  CompileInv'
<1>0. TypeOK /\ LocksOK /\ CargosOK /\ CommittedCratesRemoved
  BY DEF CompileInv
<1>1. /\ committed[f] # NoRow
      /\ committed' \in [Fns -> Row \cup {NoRow}] /\ committed'[new] = committed[f]
      /\ \A g \in Fns : g # new => committed'[g] = committed[g]
      /\ \A s \in Sessions : Busy(s) => job[s].fn # new
      /\ \A name \in DOMAIN crates : name[1] # new
      /\ UNCHANGED <<targets, nextGen, job, crates, artifacts, cargos, crashes>>
  BY <1>0 DEF CopyDatabase, TypeOK
<1>2. TypeOK'
  BY <1>0, <1>1 DEF TypeOK
<1>3. LocksOK'
  <2>1. \A g \in Fns : committed'[g] # NoRow => committed'[g].gen < nextGen
    BY <1>0, <1>1 DEF LocksOK
  <2>2. \A s \in Sessions : Busy(s) => committed'[job[s].fn] = committed[job[s].fn]
    BY <1>0, <1>1, JobFields
  <2> QED
    BY <2>1, <2>2, <1>0, <1>1 DEF LocksOK, Busy
<1>4. CargosOK'
  BY <1>0, <1>1 DEF CargosOK, OwnerOK, At, Busy, NameOf, Generated, Holds
<1>5. ASSUME NEW t \in Sessions  PROVE SessionOK(t)'
  <2>1. SessionOK(t)
    BY DEF CompileInv
  <2> QED
    BY <2>1, <1>1, SessionFrame
<1>6. CommittedCratesRemoved'
  <2>1. CrateName(new, committed[f].gen)[1] = new
    BY DEF CrateName
  <2> QED
    BY <2>1, <1>0, <1>1 DEF CommittedCratesRemoved
<1> QED
  BY <1>2, <1>3, <1>4, <1>5, <1>6 DEF CompileInv

----------------------------------------------------------------------------
(* cargo, crashes and restarts.                                            *)

LEMMA SpawnPreserves ==
    ASSUME CompileInv, NEW s \in Sessions, Spawn(s)
    PROVE  CompileInv'
<1> DEFINE new == [crate |-> NameOf(s), target |-> Head(job[s].todo),
                   owner |-> s, read |-> Unread]
<1>0. /\ TypeOK /\ LocksOK /\ CargosOK /\ CommittedCratesRemoved
      /\ Busy(s) /\ job[s].pc = "build" /\ job[s].todo # <<>> /\ SessionOK(s)
  BY DEF CompileInv, Spawn, At
<1>1. /\ job' \in [Sessions -> Job \cup {NoJob}] /\ Busy(s)'
      /\ job'[s].pc = "cargo" /\ SameButPc(job[s], job'[s])
      /\ \A t \in Sessions : t # s => job'[t] = job[t]
  BY <1>0, GotoStep DEF Spawn, Pcs
<1>2. /\ cargos' = cargos \cup {new}
      /\ UNCHANGED <<targets, committed, nextGen, crates, artifacts, crashes>>
  BY DEF Spawn
<1>3. /\ new.crate = NameOf(s) /\ new.target = Head(job[s].todo)
      /\ new.owner = s /\ new.read = Unread
  OBVIOUS
<1>4. new \in CargoProcess
  <2>1. Head(job[s].todo) \in Targets
    BY <1>0, JobFields, ElementsOfTail
  <2>2. NameOf(s) \in Fns \X (1..MaxGen)
    BY <1>0, JobFields DEF NameOf, CrateName
  <2> QED
    BY <2>1, <2>2 DEF CargoProcess
<1> HIDE DEF new
<1>5. TypeOK'
  BY <1>0, <1>1, <1>2, <1>4 DEF TypeOK
<1>6. LocksOK'
  <2>1. \A t \in Sessions : Busy(t)' =>
            Busy(t) /\ job'[t].fn = job[t].fn /\ job'[t].gen = job[t].gen
    BY <1>0, <1>1 DEF Busy, SameButPc
  <2> QED
    BY <1>0, <1>2, <2>1, LocksFrame
<1>7. \A c \in cargos : c.owner # s
  BY <1>0, CompileFnAssumption DEF CargosOK, OwnerOK, At
<1>8. CargosOK'
  <2>1. ASSUME NEW c \in cargos, c.owner # Nobody
        PROVE  /\ At(c.owner, "cargo")'
               /\ c.crate = NameOf(c.owner)'
               /\ c.target = Head(job'[c.owner].todo)
               /\ c.read # Unread => c.read = Generated(c.owner)'
    <3>1. c.owner \in Sessions /\ c.owner # s
      BY <1>0, <1>7, <2>1 DEF TypeOK, CargoProcess
    <3>2. /\ At(c.owner, "cargo") /\ c.crate = NameOf(c.owner)
          /\ c.target = Head(job[c.owner].todo)
          /\ c.read # Unread => c.read = Generated(c.owner)
      BY <1>0, <2>1 DEF CargosOK, OwnerOK, Holds
    <3>3. job'[c.owner] = job[c.owner]
      BY <3>1, <1>1
    <3> QED
      BY <3>2, <3>3 DEF At, Busy, NameOf, Generated
  <2>2. At(s, "cargo")' /\ NameOf(s)' = NameOf(s) /\ job'[s].todo = job[s].todo
    BY <1>1, SameCrate DEF At, SameButPc
  <2>3. \A c \in cargos' : OwnerOK(c)'
    BY <2>1, <2>2, <1>2, <1>3 DEF OwnerOK, Holds
  <2>4. \A c, d \in cargos' : c.read # Unread /\ d.read # Unread => c = d
    BY <1>0, <1>2, <1>3 DEF CargosOK, Holds
  <2>5. \A c, d \in cargos' : c.owner = d.owner /\ c.owner # Nobody => c = d
    BY <1>0, <1>2, <1>3, <1>7 DEF CargosOK
  <2> QED
    BY <2>3, <2>4, <2>5 DEF CargosOK, Holds
<1>9. ASSUME NEW t \in Sessions  PROVE SessionOK(t)'
  <2>1. CASE t = s
    <3>1. JobOK(job'[s])
      BY <1>0, <1>1, JobSameButPc DEF SessionOK
    <3>2. CrateOK(s)' /\ ReadOK(s)'
      BY <1>0, <1>1, <1>2, SameCrate DEF SessionOK, CrateOK, ReadOK
    <3> QED
      BY <2>1, <3>1, <3>2 DEF SessionOK, JobOK
  <2>2. CASE t # s
    <3>1. SessionOK(t) /\ job'[t] = job[t]
      BY <2>2, <1>1 DEF CompileInv
    <3>2. \A c \in cargos' : c.read # Unread => c \in cargos
      BY <1>2, <1>3
    <3> QED
      BY <3>1, <3>2, <1>2, SessionFrame
  <2> QED
    BY <2>1, <2>2
<1>10. CommittedCratesRemoved'
  BY <1>0, <1>2 DEF CommittedCratesRemoved
<1> QED
  BY <1>5, <1>6, <1>8, <1>9, <1>10 DEF CompileInv

\* A process that reads a crate reads what its command generated.
LEMMA CargoStartsPreserves ==
    ASSUME CompileInv, NEW c \in cargos, CargoStarts(c)
    PROVE  CompileInv'
<1> DEFINE new == [c EXCEPT !.read = crates[c.crate]]
<1>0. /\ TypeOK /\ LocksOK /\ CargosOK /\ CommittedCratesRemoved
      /\ c \in CargoProcess
  BY DEF CompileInv, TypeOK
<1>1. /\ \A d \in cargos : d.read = Unread
      /\ crates[c.crate] \in Crate
      /\ cargos' = (cargos \ {c}) \cup {new}
      /\ UNCHANGED <<targets, committed, nextGen, job, crates, artifacts, crashes>>
  BY <1>0 DEF CargoStarts, Holds, TypeOK
<1>2. /\ new \in CargoProcess /\ new.crate = c.crate /\ new.target = c.target
      /\ new.owner = c.owner /\ new.read = crates[c.crate]
  BY <1>0, <1>1 DEF CargoProcess
<1> HIDE DEF new
<1>3. TypeOK'
  BY <1>0, <1>1, <1>2 DEF TypeOK
<1>4. LocksOK'
  BY <1>0, <1>1 DEF LocksOK, Busy
<1>5. CargosOK'
  <2>1. ASSUME NEW d \in cargos, d.owner # Nobody
        PROVE  /\ At(d.owner, "cargo")
               /\ d.crate = NameOf(d.owner) /\ d.target = Head(job[d.owner].todo)
    BY <2>1, <1>0 DEF CargosOK, OwnerOK
  <2>2. c.owner # Nobody => crates[c.crate] = Generated(c.owner)
    <3>1. SUFFICES ASSUME c.owner # Nobody
                   PROVE  crates[c.crate] = Generated(c.owner)
      OBVIOUS
    <3>2. c.owner \in Sessions
      BY <1>0, <3>1 DEF CargoProcess
    <3>3. SessionOK(c.owner)
      BY <3>2 DEF CompileInv
    <3> QED
      BY <3>1, <3>3, <2>1 DEF SessionOK, CrateOK, At
  <2>3. ASSUME NEW d \in cargos', d.owner # Nobody
        PROVE  /\ At(d.owner, "cargo")
               /\ d.crate = NameOf(d.owner) /\ d.target = Head(job[d.owner].todo)
               /\ d.read # Unread => d.read = Generated(d.owner)
    BY <2>1, <2>2, <2>3, <1>1, <1>2
  <2>4. \A d \in cargos' : OwnerOK(d)'
    BY <2>3, <1>1 DEF OwnerOK, Holds, At, Busy, NameOf, Generated
  <2>5. \A d, e \in cargos' : d.read # Unread /\ e.read # Unread => d = e
    BY <1>1
  <2>6. \A d, e \in cargos' : d.owner = e.owner /\ d.owner # Nobody => d = e
    <3>1. \A d, e \in cargos : d.owner = e.owner /\ d.owner # Nobody => d = e
      BY <1>0 DEF CargosOK
    <3> QED
      BY <3>1, <1>1, <1>2
  <2> QED
    BY <2>4, <2>5, <2>6 DEF CargosOK, Holds
<1>6. ASSUME NEW t \in Sessions  PROVE SessionOK(t)'
  <2>1. SessionOK(t)
    BY DEF CompileInv
  <2>2. \A d \in cargos' : d.read # Unread => d.read = crates[d.crate]
    BY <1>1, <1>2
  <2> QED
    BY <2>1, <2>2, <1>1, SessionFrame
<1>7. CommittedCratesRemoved'
  BY <1>0, <1>1 DEF CommittedCratesRemoved
<1> QED
  BY <1>3, <1>4, <1>5, <1>6, <1>7 DEF CompileInv

\* The processes that are left, when c ends and its owner, if any, goes on.
LEMMA OtherCargos ==
    ASSUME TypeOK, CargosOK, NEW c \in cargos, cargos' = cargos \ {c},
           \A t \in Sessions : t # c.owner => job'[t] = job[t]
    PROVE  CargosOK'
<1>1. ASSUME NEW d \in cargos', d.owner # Nobody
      PROVE  /\ At(d.owner, "cargo")'
             /\ d.crate = NameOf(d.owner)'
             /\ d.target = Head(job'[d.owner].todo)
             /\ d.read # Unread => d.read = Generated(d.owner)'
  <2>1. d.owner \in Sessions /\ d.owner # c.owner
    BY <1>1 DEF TypeOK, CargoProcess, CargosOK
  <2>2. /\ At(d.owner, "cargo") /\ d.crate = NameOf(d.owner)
        /\ d.target = Head(job[d.owner].todo)
        /\ d.read # Unread => d.read = Generated(d.owner)
    BY <1>1 DEF CargosOK, OwnerOK, Holds
  <2>3. job'[d.owner] = job[d.owner]
    BY <2>1
  <2> QED
    BY <2>2, <2>3 DEF At, Busy, NameOf, Generated
<1>2. \A d \in cargos' : OwnerOK(d)'
  BY <1>1 DEF OwnerOK, Holds
<1>3. \A d, e \in cargos' : d.read # Unread /\ e.read # Unread => d = e
  BY DEF CargosOK, Holds
<1>4. \A d, e \in cargos' : d.owner = e.owner /\ d.owner # Nobody => d = e
  BY DEF CargosOK
<1> QED
  BY <1>2, <1>3, <1>4 DEF CargosOK, Holds

LEMMA CargoSucceedsPreserves ==
    ASSUME CompileInv, NEW c \in cargos, CargoSucceeds(c)
    PROVE  CompileInv'
<1> DEFINE path == <<c.crate, c.target>>
           library == [src |-> c.read.src, lints |-> c.read.lints,
                       version |-> c.read.version, target |-> c.target,
                       symbol |-> c.crate[1]]
<1>0. /\ TypeOK /\ LocksOK /\ CargosOK /\ CommittedCratesRemoved
      /\ c \in CargoProcess /\ c.read # Unread
  BY DEF CompileInv, TypeOK, CargoSucceeds, Holds
<1>1. /\ c.read \in Crate /\ c.target \in Targets /\ c.crate \in Fns \X (1..MaxGen)
      /\ c.crate[1] \in Fns
  BY <1>0 DEF CargoProcess
<1>2. library \in Artifact
  BY <1>1, CompileFnAssumption DEF Crate, Artifact
<1>3. /\ artifacts' = Put(artifacts, path, library) /\ cargos' = cargos \ {c}
      /\ UNCHANGED <<targets, committed, nextGen, crates, crashes>>
      /\ IF c.owner = Nobody THEN job' = job ELSE Goto(c.owner, "read")
  BY DEF CargoSucceeds
<1> HIDE DEF library
<1>4. /\ DOMAIN artifacts' = DOMAIN artifacts \cup {path}
      /\ artifacts'[path] = library
      /\ \A p \in DOMAIN artifacts : p # path => artifacts'[p] = artifacts[p]
  BY <1>3 DEF Put
<1>5. c.owner # Nobody =>
        /\ c.owner \in Sessions /\ Busy(c.owner) /\ job[c.owner].pc = "cargo"
        /\ c.crate = NameOf(c.owner) /\ c.target = Head(job[c.owner].todo)
        /\ c.read = Generated(c.owner)
  BY <1>0 DEF CargosOK, OwnerOK, Holds, At, CargoProcess
<1>6. c.owner # Nobody =>
        /\ job' \in [Sessions -> Job \cup {NoJob}] /\ Busy(c.owner)'
        /\ job'[c.owner].pc = "read" /\ SameButPc(job[c.owner], job'[c.owner])
        /\ \A t \in Sessions : t # c.owner => job'[t] = job[t]
  BY <1>0, <1>3, <1>5, GotoStep DEF Pcs
<1>7. /\ job' \in [Sessions -> Job \cup {NoJob}]
      /\ \A t \in Sessions : t # c.owner => job'[t] = job[t]
  BY <1>0, <1>3, <1>6 DEF TypeOK
<1>8. TypeOK'
  <2>1. /\ DOMAIN artifacts' \subseteq (Fns \X (1..MaxGen)) \X Targets
        /\ \A p \in DOMAIN artifacts' : artifacts'[p] \in Artifact
    BY <1>0, <1>1, <1>2, <1>4 DEF TypeOK
  <2> QED
    BY <1>0, <1>3, <1>7, <2>1 DEF TypeOK
<1>9. LocksOK'
  <2>1. \A t \in Sessions : Busy(t)' =>
            Busy(t) /\ job'[t].fn = job[t].fn /\ job'[t].gen = job[t].gen
    BY <1>3, <1>5, <1>6, <1>7 DEF Busy, SameButPc
  <2> QED
    BY <1>0, <1>3, <2>1, LocksFrame
<1>10. CargosOK'
  BY <1>0, <1>3, <1>7, OtherCargos
\* Nobody else is writing, so what the command reads next is its own.
<1>11. ASSUME c.owner # Nobody
       PROVE  SessionOK(c.owner)'
  <2> DEFINE s == c.owner
  <2>1. /\ s \in Sessions /\ Busy(s) /\ job[s].pc = "cargo" /\ SessionOK(s)
        /\ c.crate = NameOf(s) /\ c.target = Head(job[s].todo)
        /\ c.read = Generated(s)
    BY <1>5, <1>11 DEF CompileInv
  <2>2. JobOK(job[s]) /\ CrateOK(s) /\ job[s].todo # <<>>
    BY <2>1 DEF SessionOK, JobOK
  <2>3. job'[s].pc = "read" /\ SameButPc(job[s], job'[s])
    BY <1>6, <1>11
  <2>4. JobOK(job'[s])
    BY <2>2, <2>3, JobSameButPc
  <2>5. NameOf(s)' = NameOf(s) /\ Generated(s)' = Generated(s)
    BY <2>1, <2>3, SameCrate
  <2>6. CrateOK(s)'
    BY <2>1, <2>2, <2>3, <2>5, <1>3 DEF CrateOK
  <2>7. library = Asked(job[s], Head(job[s].todo))
    BY <2>1 DEF library, Asked, Generated, NameOf, CrateName
  <2>8. Asked(job'[s], Head(job'[s].todo)) = Asked(job[s], Head(job[s].todo))
    BY <2>3 DEF Asked, SameButPc
  <2>9. /\ <<NameOf(s), Head(job[s].todo)>> \in DOMAIN artifacts'
        /\ artifacts'[<<NameOf(s), Head(job[s].todo)>>] = library
    BY <2>1, <1>4
  <2>10. \A d \in cargos' : d.read = Unread
    BY <1>0, <1>3 DEF CargosOK, Holds
  <2>11. ReadOK(s)'
    BY <2>3, <2>5, <2>7, <2>8, <2>9, <2>10 DEF ReadOK, Holds, SameButPc
  <2> QED
    BY <2>4, <2>6, <2>11 DEF SessionOK, JobOK
\* An orphan's library is the one its command name's crate asks for, if a command of
\* that name is about to read it.
<1>12. ASSUME NEW t \in Sessions, t # c.owner
       PROVE  SessionOK(t)'
  <2>1. SessionOK(t) /\ job'[t] = job[t]
    BY <1>7, <1>12 DEF CompileInv
  <2>2. CASE ~Busy(t)
    BY <2>1, <2>2 DEF SessionOK, Busy
  <2>3. CASE Busy(t) /\ c.crate # NameOf(t)
    <3>1. \A target : <<NameOf(t), target>> # path
      BY <2>3
    <3> QED
      BY <2>1, <3>1, <1>3, <1>4, SessionFrame
  <2>4. CASE Busy(t) /\ c.crate = NameOf(t)
    <3>1. JobOK(job[t]) /\ CrateOK(t) /\ ReadOK(t)
      BY <2>1, <2>4 DEF SessionOK
    <3>2. NameOf(t)' = NameOf(t) /\ Generated(t)' = Generated(t) /\ Busy(t)'
      BY <2>1, <2>4 DEF NameOf, Generated, Busy
    <3>3. CrateOK(t)'
      BY <2>1, <3>1, <3>2, <1>3 DEF CrateOK
    <3>4. ASSUME job[t].pc = "read"
          PROVE  /\ <<NameOf(t), Head(job[t].todo)>> \in DOMAIN artifacts'
                 /\ artifacts'[<<NameOf(t), Head(job[t].todo)>>]
                       = Asked(job[t], Head(job[t].todo))
                 /\ \A d \in cargos' : d.crate = NameOf(t) /\ d.read # Unread =>
                       d.read = Generated(t)
      <4>1. /\ <<NameOf(t), Head(job[t].todo)>> \in DOMAIN artifacts
            /\ artifacts[<<NameOf(t), Head(job[t].todo)>>] = Asked(job[t], Head(job[t].todo))
            /\ \A d \in cargos : d.crate = NameOf(t) /\ d.read # Unread =>
                  d.read = Generated(t)
        BY <3>1, <3>4 DEF ReadOK, Holds
      <4>2. c.read = Generated(t)
        BY <4>1, <2>4, <1>0
      <4>3. c.target = Head(job[t].todo) => library = Asked(job[t], Head(job[t].todo))
        BY <4>2, <2>4 DEF library, Asked, Generated, NameOf, CrateName
      <4>4. \A d \in cargos' : d.crate = NameOf(t) /\ d.read # Unread =>
                d.read = Generated(t)
        BY <4>1, <1>3
      <4>5. CASE c.target = Head(job[t].todo)
        <5>1. <<NameOf(t), Head(job[t].todo)>> = path
          BY <4>5, <2>4
        <5> QED
          BY <4>3, <4>4, <4>5, <5>1, <1>4
      <4>6. CASE c.target # Head(job[t].todo)
        <5> DEFINE own == <<NameOf(t), Head(job[t].todo)>>
        <5>1. own # path /\ own \in DOMAIN artifacts
          BY <4>1, <4>6
        <5> HIDE DEF path, own
        <5>2. own \in DOMAIN artifacts' /\ artifacts'[own] = artifacts[own]
          BY <5>1, <1>4
        <5>3. artifacts[own] = Asked(job[t], Head(job[t].todo))
          BY <4>1 DEF own
        <5>4. own \in DOMAIN artifacts'
              /\ artifacts'[own] = Asked(job[t], Head(job[t].todo))
          BY <5>2, <5>3
        <5> USE DEF own
        <5> QED
          BY <5>4, <4>4, Zenon
      <4> QED
        BY <4>5, <4>6
    <3>5. ReadOK(t)'
      BY <2>1, <3>2, <3>4 DEF ReadOK, Holds, Asked
    <3>6. JobOK(job[t])'
      BY <2>1, <3>1 DEF JobOK
    <3> QED
      BY <3>3, <3>5, <3>6 DEF SessionOK
  <2> QED
    BY <2>2, <2>3, <2>4
<1>13. \A t \in Sessions : SessionOK(t)'
  BY <1>5, <1>11, <1>12, CompileFnAssumption
<1>14. CommittedCratesRemoved'
  BY <1>0, <1>3 DEF CommittedCratesRemoved
<1> QED
  BY <1>8, <1>9, <1>10, <1>13, <1>14 DEF CompileInv

LEMMA CargoFailsPreserves ==
    ASSUME CompileInv, NEW c \in cargos, CargoFails(c)
    PROVE  CompileInv'
<1>0. /\ TypeOK /\ LocksOK /\ CargosOK /\ CommittedCratesRemoved
      /\ c \in CargoProcess
  BY DEF CompileInv, TypeOK
<1>1. /\ cargos' = cargos \ {c}
      /\ UNCHANGED <<targets, committed, nextGen, artifacts, crashes>>
      /\ IF c.owner = Nobody THEN crates' = crates /\ job' = job
         ELSE crates' \in {crates, Without(crates, c.crate)} /\ Fail(c.owner)
  BY DEF CargoFails
<1>2. c.owner # Nobody =>
        c.owner \in Sessions /\ Busy(c.owner) /\ c.crate = NameOf(c.owner)
  BY <1>0 DEF CargosOK, OwnerOK, At, CargoProcess
<1>3. c.owner # Nobody =>
        /\ job' \in [Sessions -> Job \cup {NoJob}] /\ ~Busy(c.owner)'
        /\ \A t \in Sessions : t # c.owner => job'[t] = job[t]
  BY <1>0, <1>1, <1>2, FailStep
<1>4. /\ job' \in [Sessions -> Job \cup {NoJob}]
      /\ \A t \in Sessions : t # c.owner => job'[t] = job[t]
  BY <1>0, <1>1, <1>3 DEF TypeOK
<1>5. \A name \in DOMAIN crates' : name \in DOMAIN crates /\ crates'[name] = crates[name]
  BY <1>1 DEF Without
<1>6. \A name \in DOMAIN crates :
         c.owner = Nobody \/ name # c.crate => name \in DOMAIN crates'
  BY <1>1 DEF Without
<1>7. TypeOK'
  <2>1. DOMAIN crates' \subseteq Fns \X (1..MaxGen)
    BY <1>0, <1>5 DEF TypeOK
  <2>2. \A name \in DOMAIN crates' : crates'[name] \in Crate
    BY <1>0, <1>5 DEF TypeOK
  <2> QED
    BY <1>0, <1>1, <1>4, <2>1, <2>2 DEF TypeOK
<1>8. LocksOK'
  <2>1. \A t \in Sessions : Busy(t)' =>
            Busy(t) /\ job'[t].fn = job[t].fn /\ job'[t].gen = job[t].gen
    BY <1>1, <1>3, <1>4 DEF Busy
  <2> QED
    BY <1>0, <1>1, <2>1, LocksFrame
<1>9. CargosOK'
  BY <1>0, <1>1, <1>4, OtherCargos
<1>10. ASSUME NEW t \in Sessions  PROVE SessionOK(t)'
  <2>1. CASE t = c.owner
    <3>1. ~Busy(t)'
      BY <2>1, <1>3, CompileFnAssumption
    <3> QED
      BY <3>1 DEF SessionOK
  <2>2. CASE t # c.owner
    <3>1. SessionOK(t) /\ job'[t] = job[t]
      BY <2>2, <1>4 DEF CompileInv
    <3>2. Busy(t) => c.owner = Nobody \/ NameOf(t) # c.crate
      BY <2>2, <1>0, <1>2, NamesDiffer
    <3> QED
      BY <3>1, <3>2, <1>1, <1>5, <1>6, SessionFrame
  <2> QED
    BY <2>1, <2>2
<1>11. CommittedCratesRemoved'
  BY <1>0, <1>1, <1>5 DEF CommittedCratesRemoved
<1> QED
  BY <1>7, <1>8, <1>9, <1>10, <1>11 DEF CompileInv

\* After a crash nobody is at work, and no row's generation comes up again.
LEMMA CrashPreserves ==
    ASSUME CompileInv, Crash
    PROVE  CompileInv'
<1>0. TypeOK /\ LocksOK /\ CargosOK /\ CommittedCratesRemoved
  BY DEF CompileInv
<1>1. /\ job' = [s \in Sessions |-> NoJob] /\ \A s \in Sessions : ~Busy(s)'
      /\ cargos' \in SUBSET {[c EXCEPT !.owner = Nobody] : c \in cargos}
      /\ nextGen' \in 1..nextGen
      /\ \A f \in Fns : committed[f] # NoRow => committed[f].gen < nextGen'
      /\ crashes' = crashes + 1 /\ crashes < MaxCrashes
      /\ UNCHANGED <<targets, committed, crates, artifacts>>
  BY DEF Crash, Busy
<1>2. ASSUME NEW d \in cargos'
      PROVE  /\ d \in CargoProcess /\ d.owner = Nobody
             /\ \E c \in cargos : c.read = d.read /\ d = [c EXCEPT !.owner = Nobody]
  <2>1. PICK c \in cargos : d = [c EXCEPT !.owner = Nobody]
    BY <1>1
  <2>2. c \in CargoProcess
    BY <1>0 DEF TypeOK
  <2>3. d \in CargoProcess /\ d.owner = Nobody /\ d.read = c.read
    BY <2>1, <2>2 DEF CargoProcess
  <2> QED
    BY <2>1, <2>3
<1>3. TypeOK'
  <2>1. nextGen' \in 1..(MaxGen + 1) /\ crashes' \in 0..MaxCrashes
    BY <1>0, <1>1, CompileFnAssumption DEF TypeOK
  <2>2. job' \in [Sessions -> Job \cup {NoJob}]
    BY <1>1
  <2> QED
    BY <1>0, <1>1, <1>2, <2>1, <2>2 DEF TypeOK
<1>4. LocksOK'
  BY <1>1 DEF LocksOK
<1>5. CargosOK'
  <2>1. \A d \in cargos' : OwnerOK(d)'
    BY <1>2 DEF OwnerOK
  <2>2. \A d, e \in cargos' : d.read # Unread /\ e.read # Unread => d = e
    <3> SUFFICES ASSUME NEW d \in cargos', NEW e \in cargos',
                        d.read # Unread, e.read # Unread
                 PROVE  d = e
      OBVIOUS
    <3>1. PICK c \in cargos : c.read = d.read /\ d = [c EXCEPT !.owner = Nobody]
      BY <1>2
    <3>2. PICK b \in cargos : b.read = e.read /\ e = [b EXCEPT !.owner = Nobody]
      BY <1>2
    <3>3. b = c
      BY <3>1, <3>2, <1>0 DEF CargosOK, Holds
    <3> QED
      BY <3>1, <3>2, <3>3
  <2>3. \A d, e \in cargos' : d.owner = e.owner /\ d.owner # Nobody => d = e
    BY <1>2
  <2> QED
    BY <2>1, <2>2, <2>3 DEF CargosOK, Holds
<1>6. \A t \in Sessions : SessionOK(t)'
  BY <1>1 DEF SessionOK
<1>7. CommittedCratesRemoved'
  BY <1>0, <1>1 DEF CommittedCratesRemoved
<1> QED
  BY <1>3, <1>4, <1>5, <1>6, <1>7 DEF CompileInv

LEMMA UnchangedPreserves ==
    ASSUME CompileInv, targets' \in {config.targets : config \in Configs},
           UNCHANGED <<committed, nextGen, job, crates, artifacts, cargos, crashes>>
    PROVE  CompileInv'
<1>0. TypeOK /\ LocksOK /\ CargosOK /\ CommittedCratesRemoved
  BY DEF CompileInv
<1>1. TypeOK'
  BY <1>0 DEF TypeOK
<1>2. LocksOK'
  BY <1>0 DEF LocksOK, Busy
<1>3. CargosOK'
  BY <1>0 DEF CargosOK, OwnerOK, At, Busy, NameOf, Generated, Holds
<1>4. ASSUME NEW t \in Sessions  PROVE SessionOK(t)'
  <2>1. SessionOK(t)
    BY DEF CompileInv
  <2> QED
    BY <2>1, SessionFrame
<1>5. CommittedCratesRemoved'
  BY <1>0 DEF CommittedCratesRemoved
<1> QED
  BY <1>1, <1>2, <1>3, <1>4, <1>5 DEF CompileInv

----------------------------------------------------------------------------
(* The theorems.                                                           *)

LEMMA InitHolds == Init => CompileInv
<1> SUFFICES ASSUME Init  PROVE CompileInv
  OBVIOUS
<1>1. /\ job = [s \in Sessions |-> NoJob] /\ committed = [f \in Fns |-> NoRow]
      /\ cargos = {} /\ nextGen = 1 /\ crashes = 0
      /\ crates = <<>> /\ artifacts = <<>>
      /\ targets \in {config.targets : config \in Configs}
  BY DEF Init
<1>2. DOMAIN <<>> = {}
  BY EmptyPartial
<1>3. TypeOK
  <2>1. nextGen \in 1..(MaxGen + 1) /\ crashes \in 0..MaxCrashes
    BY <1>1, CompileFnAssumption
  <2>2. /\ DOMAIN crates \subseteq Fns \X (1..MaxGen)
        /\ \A name \in DOMAIN crates : crates[name] \in Crate
        /\ DOMAIN artifacts \subseteq (Fns \X (1..MaxGen)) \X Targets
        /\ \A path \in DOMAIN artifacts : artifacts[path] \in Artifact
    BY <1>1, <1>2
  <2> QED
    BY <1>1, <2>1, <2>2 DEF TypeOK
<1>4. \A s \in Sessions : ~Busy(s)
  BY <1>1 DEF Busy
<1> QED
  BY <1>1, <1>3, <1>4
  DEF CompileInv, LocksOK, CargosOK, SessionOK, CommittedCratesRemoved

LEMMA ProceedPreserves ==
    ASSUME CompileInv, NEW s \in Sessions, Proceed(s)
    PROVE  CompileInv'
<1>1. CASE Generate(s)
  BY <1>1, GeneratePreserves
<1>2. CASE Provision(s)
  BY <1>2, ProvisionPreserves
<1>3. CASE Validate(s)
  BY <1>3, ValidatePreserves
<1>4. CASE Spawn(s)
  BY <1>4, SpawnPreserves
<1>5. CASE ReadArtifact(s)
  BY <1>5, ReadArtifactPreserves
<1>6. CASE Store(s)
  BY <1>6, StorePreserves
<1>7. CASE Cleanup(s)
  BY <1>7, CleanupPreserves
<1>8. CASE Commit(s)
  BY <1>8, CommitPreserves
<1>9. CASE ProvisionFails(s)
  BY <1>9, FailPreserves DEF ProvisionFails, At
<1>10. CASE \/ GenerateFails(s) \/ ValidateFails(s) \/ SpawnFails(s)
            \/ ReadArtifactFails(s) \/ StoreFails(s) \/ CleanupFails(s) \/ Rollback(s)
  BY <1>10, FailPreserves
  DEF GenerateFails, ValidateFails, SpawnFails, ReadArtifactFails, StoreFails,
      CleanupFails, Rollback, At
<1> QED
  BY <1>1, <1>2, <1>3, <1>4, <1>5, <1>6, <1>7, <1>8, <1>9, <1>10
  DEF Proceed, Prepare, Build, Finish

\* The inductive invariant holds.
THEOREM CompileInvariance == Spec => []CompileInv
<1>1. CompileInv /\ [Next]_vars => CompileInv'
  <2> SUFFICES ASSUME CompileInv, [Next]_vars  PROVE CompileInv'
    OBVIOUS
  <2>1. ASSUME NEW s \in Sessions, Proceed(s)  PROVE CompileInv'
    BY <2>1, ProceedPreserves
  <2>2. ASSUME NEW s \in Sessions, NEW f \in Fns, Create(s, f)  PROVE CompileInv'
    BY <2>2, CreatePreserves
  <2>3. ASSUME NEW c \in cargos, Cargo(c)  PROVE CompileInv'
    BY <2>3, CargoStartsPreserves, CargoSucceedsPreserves, CargoFailsPreserves DEF Cargo
  <2>4. ASSUME NEW f \in Fns, NEW new \in Fns, CopyDatabase(f, new)  PROVE CompileInv'
    BY <2>4, CopyDatabasePreserves
  <2>5. CASE Crash
    BY <2>5, CrashPreserves
  <2>6. CASE Restart
    BY <2>6, UnchangedPreserves DEF Restart
  <2>7. CASE UNCHANGED vars
    <3>1. targets' \in {config.targets : config \in Configs}
      BY <2>7 DEF vars, CompileInv, TypeOK
    <3> QED
      BY <2>7, <3>1, UnchangedPreserves DEF vars
  <2> QED
    BY <2>1, <2>2, <2>3, <2>4, <2>5, <2>6, <2>7 DEF Next
<1> QED
  BY <1>1, InitHolds, PTL DEF Spec

\* Every variable of CompileFn keeps its shape.
THEOREM TypeCorrect == Spec => []TypeOK
<1>1. CompileInv => TypeOK
  BY DEF CompileInv
<1> QED
  BY <1>1, CompileInvariance, PTL

\* The crate directory of a committed function is gone, whatever other commands,
\* crashes and reused transaction ids have left under other names.
THEOREM CratesAreRemoved == Spec => []CommittedCratesRemoved
<1>1. CompileInv => CommittedCratesRemoved
  BY DEF CompileInv
<1> QED
  BY <1>1, CompileInvariance, PTL

\* A committed function has for each target configured when it was created the
\* library its own command built, from its own source and settings.
THEOREM CommitsWhatWasAsked == Spec => PublishesWhatWasAsked
<1>1. CompileInv /\ [Next]_vars =>
        [\A s \in Sessions : Commit(s) =>
          \A i \in DOMAIN CompilationTargets(job[s].config) :
              LET target == CompilationTargets(job[s].config)[i]
                  lib == committed'[job[s].fn].body.lib
              IN  /\ target \in DOMAIN lib
                  /\ lib[target].bytes =
                        [src |-> job[s].body.src, lints |-> job[s].config.lints,
                         version |-> job[s].config.version, target |-> target,
                         symbol |-> job[s].fn]]_vars
  <2> SUFFICES ASSUME CompileInv, NEW s \in Sessions, Commit(s),
                      NEW i \in DOMAIN CompilationTargets(job[s].config)
               PROVE  LET target == CompilationTargets(job[s].config)[i]
                          lib == committed'[job[s].fn].body.lib
                      IN  /\ target \in DOMAIN lib
                          /\ lib[target].bytes = Asked(job[s], target)
    BY DEF Asked
  <2>1. /\ TypeOK /\ Busy(s) /\ JobOK(job[s]) /\ job[s].pc = "done"
        /\ job[s].fn \in Fns /\ job[s].config \in Configs
    BY JobFields DEF CompileInv, Commit, At, SessionOK
  <2>2. CompilationTargets(job[s].config)[i] \in Elements(CompilationTargets(job[s].config))
    <3>1. CompilationTargets(job[s].config) \in Seq(Targets)
      BY <2>1, TargetsOfCommand
    <3> QED
      BY <3>1 DEF Elements
  <2>3. committed'[job[s].fn].body = job[s].body
    BY <2>1 DEF Commit, TypeOK
  <2> QED
    BY <2>1, <2>2, <2>3, DoneIsComplete, OwnFields
<1> QED
  BY <1>1, CompileInvariance, PTL DEF Spec, PublishesWhatWasAsked

----------------------------------------------------------------------------
(* Progress.                                                               *)

\* A backend that waits for cargo has a cargo process.
Waits == \A s \in Sessions : At(s, "cargo") => Owned(s) # {}

LEMMA ProceedWaits ==
    ASSUME CompileInv, Waits, NEW s \in Sessions, Proceed(s)
    PROVE  Waits'
<1>0. TypeOK
  BY DEF CompileInv
<1>1. CASE Spawn(s)
  <2> DEFINE new == [crate |-> NameOf(s), target |-> Head(job[s].todo),
                     owner |-> s, read |-> Unread]
  <2>1. cargos' = cargos \cup {new} /\ new.owner = s
    BY <1>1 DEF Spawn
  <2>2. \A t \in Sessions : t # s => job'[t] = job[t]
    BY <1>0, <1>1, GotoStep DEF Spawn, At, Pcs
  <2> HIDE DEF new
  <2> QED
    BY <2>1, <2>2 DEF Waits, Owned, At, Busy
<1>2. CASE ~Spawn(s)
  <2>1. UNCHANGED cargos
    BY <1>2 DEF Proceed, Prepare, Build, Finish, Generate, GenerateFails, Provision,
       ProvisionFails, Validate, ValidateFails, SpawnFails, ReadArtifact,
       ReadArtifactFails, Store, StoreFails, Cleanup, CleanupFails, Commit, Rollback
  <2>2. ~At(s, "cargo")' /\ \A t \in Sessions : t # s => job'[t] = job[t]
    <3>1. CASE \/ GenerateFails(s) \/ ProvisionFails(s) \/ ValidateFails(s)
               \/ SpawnFails(s) \/ ReadArtifactFails(s) \/ StoreFails(s)
               \/ CleanupFails(s) \/ Rollback(s)
      <4>1. Fail(s)
        BY <3>1 DEF GenerateFails, ProvisionFails, ValidateFails, SpawnFails,
           ReadArtifactFails, StoreFails, CleanupFails, Rollback
      <4> QED
        BY <1>0, <4>1, FailStep DEF At
    <3>2. CASE Generate(s) \/ Provision(s) \/ Validate(s) \/ Cleanup(s)
      <4>1. Busy(s) /\ \E pc \in Pcs \ {"cargo"} : Goto(s, pc)
        BY <3>2 DEF Generate, Provision, Validate, Cleanup, At, Pcs
      <4> QED
        BY <1>0, <4>1, GotoStep DEF At
    <3>3. CASE Store(s) \/ ReadArtifact(s)
      <4>1. PICK body, todo, built :
              job' = [job EXCEPT ![s] = Command("build", job[s].fn, job[s].gen,
                                                job[s].config, body, todo, built)]
        BY <3>3 DEF Store, ReadArtifact
      <4> QED
        BY <1>0, <4>1 DEF At, TypeOK, Command
    <3>4. CASE Commit(s)
      BY <1>0, <3>4 DEF Commit, At, Busy, TypeOK
    <3> QED
      BY <1>2, <3>1, <3>2, <3>3, <3>4 DEF Proceed, Prepare, Build, Finish
  <2> QED
    BY <2>1, <2>2 DEF Waits, Owned, At, Busy
<1> QED
  BY <1>1, <1>2

LEMMA CargoWaits ==
    ASSUME CompileInv, Waits, NEW c \in cargos, Cargo(c)
    PROVE  Waits'
<1>0. TypeOK /\ CargosOK /\ c \in CargoProcess
  BY DEF CompileInv, TypeOK
<1>1. CASE CargoStarts(c)
  <2> DEFINE new == [c EXCEPT !.read = crates[c.crate]]
  <2>1. cargos' = (cargos \ {c}) \cup {new} /\ job' = job
    BY <1>1 DEF CargoStarts
  <2>2. new.owner = c.owner
    BY <1>0 DEF CargoProcess
  <2> HIDE DEF new
  <2> QED
    BY <2>1, <2>2 DEF Waits, Owned, At, Busy
<1>2. CASE CargoSucceeds(c) \/ CargoFails(c)
  <2>1. cargos' = cargos \ {c}
    BY <1>2 DEF CargoSucceeds, CargoFails
  <2>2. c.owner # Nobody => c.owner \in Sessions /\ Busy(c.owner)
    BY <1>0 DEF CargosOK, OwnerOK, At, CargoProcess
  <2>3. c.owner # Nobody => ~At(c.owner, "cargo")'
    BY <1>0, <1>2, <2>2, GotoStep, FailStep DEF CargoSucceeds, CargoFails, Pcs, At
  <2>4. \A t \in Sessions : t # c.owner => job'[t] = job[t]
    BY <1>0, <1>2, <2>2, GotoStep, FailStep DEF CargoSucceeds, CargoFails, Pcs
  <2> QED
    BY <2>1, <2>3, <2>4, CompileFnAssumption DEF Waits, Owned, At, Busy
<1> QED
  BY <1>1, <1>2 DEF Cargo

LEMMA WaitsHolds == Spec => []Waits
<1>1. Init => Waits
  BY DEF Init, Waits, At, Busy
<1>2. CompileInv /\ Waits /\ [Next]_vars => Waits'
  <2> SUFFICES ASSUME CompileInv, Waits, [Next]_vars  PROVE Waits'
    OBVIOUS
  <2>1. ASSUME NEW s \in Sessions, Proceed(s)  PROVE Waits'
    BY <2>1, ProceedWaits
  <2>2. ASSUME NEW s \in Sessions, NEW f \in Fns, Create(s, f)  PROVE Waits'
    <3>1. UNCHANGED cargos /\ ~At(s, "cargo")'
          /\ \A t \in Sessions : t # s => job'[t] = job[t]
      BY <2>2 DEF Create, CompileInv, TypeOK, At, Command
    <3> QED
      BY <3>1 DEF Waits, Owned, At, Busy
  <2>3. ASSUME NEW c \in cargos, Cargo(c)  PROVE Waits'
    BY <2>3, CargoWaits
  <2>4. CASE Crash
    BY <2>4 DEF Crash, Waits, At, Busy
  <2>5. CASE UNCHANGED <<job, cargos>>
    BY <2>5 DEF Waits, Owned, At, Busy
  <2>6. ASSUME NEW f \in Fns, NEW new \in Fns, CopyDatabase(f, new)
        PROVE  UNCHANGED <<job, cargos>>
    BY <2>6 DEF CopyDatabase
  <2>7. Restart \/ UNCHANGED vars => UNCHANGED <<job, cargos>>
    BY DEF Restart, vars
  <2> QED
    BY <2>1, <2>2, <2>3, <2>4, <2>5, <2>6, <2>7 DEF Next
<1> QED
  BY <1>1, <1>2, CompileInvariance, PTL DEF Spec

\* The next step of a command other than to fail is never barred by another session, an
\* orphan or what a crash has left: its cargo exists and finds the crate, and the library
\* and the directory it expects are there.
THEOREM OnlyOwnErrorsFail == Spec => []NoCommandIsDoomed
<1>1. CompileInv /\ Waits => NoCommandIsDoomed
  <2> SUFFICES ASSUME CompileInv, Waits, NEW s \in Sessions, Busy(s)
               PROVE  /\ job[s].pc = "cargo" =>
                            \E c \in Owned(s) : Holds(c) \/ c.crate \in DOMAIN crates
                      /\ job[s].pc = "read" =>
                            <<NameOf(s), Head(job[s].todo)>> \in DOMAIN artifacts
                      /\ job[s].pc = "build" => NameOf(s) \in DOMAIN crates
    BY DEF NoCommandIsDoomed, At
  <2>1. CrateOK(s) /\ ReadOK(s) /\ CargosOK
    BY DEF CompileInv, SessionOK
  <2>2. \A c \in Owned(s) : c.crate = NameOf(s)
    BY <2>1, CompileFnAssumption DEF Owned, CargosOK, OwnerOK
  <2>3. job[s].pc = "cargo" => Owned(s) # {}
    BY DEF Waits, At
  <2> QED
    BY <2>1, <2>2, <2>3 DEF CrateOK, ReadOK
<1> QED
  BY <1>1, CompileInvariance, WaitsHolds, PTL

\* What CommandsAdvance says of one session.
Advances(s) ==
    Busy(s) /\ Busy(s)' =>
        /\ job'[s].fn = job[s].fn /\ job'[s].gen = job[s].gen
        /\ job'[s].config = job[s].config /\ job'[s].body.src = job[s].body.src
        /\ job'[s] # job[s] \/ Holding(s)' # Holding(s) =>
              Work(s)' \in 0..(Work(s) - 1)

LEMMA Sums ==
    ASSUME NEW i \in Nat, NEW k \in Nat, NEW m \in 0..7
    PROVE  /\ 5 * i + k + m \in Nat
           /\ \A n \in 0..7 : n < m => 5 * i + k + n \in 0..(5 * i + k + m - 1)
           /\ i > 0 => 5 * (i - 1) + (k + 1) + 4 = 5 * i + k + 1 - 1
           /\ k > 0 => 5 * i + (k - 1) + m = 5 * i + k + m - 1
<1> DEFINE j == 5 * i
<1>1. j \in Nat /\ 5 * (i - 1) = j - 5
  OBVIOUS
<1> HIDE DEF j
<1>2. /\ j + k + m \in Nat
      /\ \A n \in 0..7 : n < m => j + k + n \in 0..(j + k + m - 1)
      /\ (j - 5) + (k + 1) + 4 = j + k + 1 - 1
      /\ k > 0 => j + (k - 1) + m = j + k + m - 1
  BY <1>1
<1> QED
  BY <1>1, <1>2 DEF j

LEMMA JobLengths ==
    ASSUME NEW j \in Job
    PROVE  Len(j.todo) \in Nat /\ Len(j.built) \in Nat /\ j.pc \in Pcs
<1>1. /\ j.todo \in Seq(Targets) /\ j.built \in Seq([target : Targets, bytes : Artifact])
      /\ j.pc \in Pcs
  BY DEF Job, Pcs
<1> QED
  BY <1>1

\* Work is a natural number, whatever the session is at, before a step and after it.
LEMMA WorkType ==
    ASSUME TypeOK, TypeOK', NEW s \in Sessions, Busy(s), Busy(s)'
    PROVE  /\ Len(job[s].todo) \in Nat /\ Len(job[s].built) \in Nat
           /\ StepsLeft(s) \in 0..7 /\ StepsLeft(s)' \in 0..7
           /\ Work(s) \in Nat /\ Work(s)' \in Nat
<1>1. job[s] \in Job /\ job'[s] \in Job
  BY DEF TypeOK, Busy
<1>2. /\ Len(job[s].todo) \in Nat /\ Len(job[s].built) \in Nat /\ job[s].pc \in Pcs
      /\ Len(job'[s].todo) \in Nat /\ Len(job'[s].built) \in Nat /\ job'[s].pc \in Pcs
  BY <1>1, JobLengths
<1>3. StepsLeft(s) \in 0..7 /\ StepsLeft(s)' \in 0..7
  BY <1>2 DEF StepsLeft, Pcs
<1>4. Work(s) \in Nat /\ Work(s)' \in Nat
  BY <1>2, <1>3, Sums DEF Work
<1> QED
  BY <1>2, <1>3, <1>4

\* A command that goes on with the same list of targets and nearer to its end.
LEMMA NearerAdvances ==
    ASSUME TypeOK, TypeOK', NEW s \in Sessions, Busy(s), Busy(s)',
           SameButPc(job[s], job'[s]), StepsLeft(s)' < StepsLeft(s)
    PROVE  Advances(s)
<1> DEFINE i == Len(job[s].todo)
           k == Len(job[s].built)
<1>1. /\ i \in Nat /\ k \in Nat
      /\ StepsLeft(s) \in 0..7 /\ StepsLeft(s)' \in 0..7
  BY WorkType
<1>2. /\ Work(s) = 5 * i + k + StepsLeft(s)
      /\ Work(s)' = 5 * i + k + StepsLeft(s)'
  BY DEF SameButPc, Work
<1> HIDE DEF i, k
<1>3. Work(s)' \in 0..(Work(s) - 1)
  BY <1>1, <1>2, Sums
<1> QED
  BY <1>3 DEF Advances, SameButPc

\* A command that goes on with one step of work less.
LEMMA OneLess ==
    ASSUME TypeOK, TypeOK', NEW s \in Sessions, Busy(s), Busy(s)',
           Work(s)' = Work(s) - 1
    PROVE  Work(s)' \in 0..(Work(s) - 1)
<1>1. Work(s) \in Nat /\ Work(s)' \in Nat
  BY WorkType
<1> QED
  BY <1>1

\* A session nobody works for.
LEMMA OthersAdvance ==
    ASSUME NEW t \in Sessions, job'[t] = job[t], Holding(t)' = Holding(t)
    PROVE  Advances(t)
  BY DEF Advances

LEMMA ProceedAdvances ==
    ASSUME CompileInv, CompileInv', NEW s \in Sessions, Proceed(s)
    PROVE  Advances(s)
<1>0. TypeOK /\ TypeOK'
  BY DEF CompileInv
<1>1. CASE \/ GenerateFails(s) \/ ProvisionFails(s) \/ ValidateFails(s)
           \/ SpawnFails(s) \/ ReadArtifactFails(s) \/ StoreFails(s)
           \/ CleanupFails(s) \/ Rollback(s)
  <2>1. Fail(s)
    BY <1>1 DEF GenerateFails, ProvisionFails, ValidateFails, SpawnFails,
       ReadArtifactFails, StoreFails, CleanupFails, Rollback
  <2> QED
    BY <1>0, <2>1, FailStep DEF Advances
<1>2. CASE Commit(s)
  BY <1>0, <1>2 DEF Commit, Advances, Busy, TypeOK
<1>3. CASE Generate(s) \/ Provision(s) \/ Validate(s) \/ Spawn(s) \/ Cleanup(s)
  <2>1. Busy(s) /\ \E pc \in Pcs : Goto(s, pc)
    BY <1>3 DEF Generate, Provision, Validate, Spawn, Cleanup, At, Pcs
  <2>2. Busy(s)' /\ SameButPc(job[s], job'[s])
    BY <1>0, <2>1, GotoStep
  <2>3. \A pc \in Pcs : Goto(s, pc) => job'[s].pc = pc
    BY <1>0, <2>1, GotoStep
  <2>4. \/ job[s].pc = "generate" /\ job'[s].pc = "provision"
        \/ job[s].pc = "provision" /\ job'[s].pc = "validate"
        \/ job[s].pc = "validate" /\ job'[s].pc = "build"
        \/ job[s].pc = "build" /\ job'[s].pc = "cargo"
        \/ job[s].pc = "build" /\ job'[s].pc = "done"
    BY <1>3, <2>3 DEF Generate, Provision, Validate, Spawn, Cleanup, At, Pcs
  <2>5. StepsLeft(s)' < StepsLeft(s)
    BY <2>4 DEF StepsLeft
  <2> QED
    BY <1>0, <2>1, <2>2, <2>5, NearerAdvances
<1>4. CASE ReadArtifact(s)
  <2> DEFINE library == [target |-> Head(job[s].todo),
                         bytes |-> artifacts[<<NameOf(s), Head(job[s].todo)>>]]
  <2>1. /\ Busy(s) /\ job[s].pc = "read" /\ job[s].todo # <<>>
        /\ job[s].todo \in Seq(Targets)
    BY <1>0, <1>4, JobFields DEF ReadArtifact, At, CompileInv, SessionOK, JobOK
  <2>2. job'[s] = Command("build", job[s].fn, job[s].gen, job[s].config, job[s].body,
                          Tail(job[s].todo), Append(job[s].built, library))
    BY <1>0, <1>4 DEF ReadArtifact, TypeOK
  <2>3. /\ job'[s].pc = "build" /\ job'[s].fn = job[s].fn
        /\ job'[s].gen = job[s].gen /\ job'[s].config = job[s].config
        /\ job'[s].body = job[s].body /\ job'[s].todo = Tail(job[s].todo)
        /\ job'[s].built = Append(job[s].built, library)
    BY <2>2 DEF Command
  <2>4. Len(Tail(job[s].todo)) = Len(job[s].todo) - 1 /\ Len(job[s].todo) > 0
    BY <2>1, HeadTailProperties
  <2>5. Len(Append(job[s].built, library)) = Len(job[s].built) + 1
    <3>1. job[s].built \in Seq([target : Targets, bytes : Artifact])
      BY <1>0, <2>1, JobFields
    <3> HIDE DEF library
    <3> QED
      BY <3>1
  <2>6. StepsLeft(s) = 1 /\ StepsLeft(s)' = 4
    BY <2>1, <2>3 DEF StepsLeft
  <2> HIDE DEF library
  <2> SUFFICES ASSUME Busy(s)'
               PROVE  Work(s)' \in 0..(Work(s) - 1)
    BY <2>3 DEF Advances
  <2>7. Work(s)' = Work(s) - 1
    <3> DEFINE i == Len(job[s].todo)
               k == Len(job[s].built)
    <3>1. i \in Nat /\ i > 0 /\ k \in Nat /\ 1 \in 0..7
      BY <1>0, <2>1, <2>4, WorkType
    <3>2. Work(s) = 5 * i + k + 1 /\ Work(s)' = 5 * (i - 1) + (k + 1) + 4
      BY <2>3, <2>4, <2>5, <2>6 DEF Work
    <3> HIDE DEF i, k
    <3> QED
      BY <3>1, <3>2, Sums
  <2> QED
    BY <1>0, <2>1, <2>7, OneLess
<1>5. CASE Store(s)
  <2>1. Busy(s) /\ job[s].pc = "build" /\ job[s].built # <<>>
    BY <1>5 DEF Store, At
  <2> DEFINE library == [bytes |-> Head(job[s].built).bytes, symbol |-> job[s].fn,
                         lints |-> job[s].config.lints]
             entry == EntryOf(job[s].body, job[s].config.version)
             body == WithLibrary(entry, Head(job[s].built).target, library)
  <2>2. job'[s] = Command("build", job[s].fn, job[s].gen, job[s].config, body,
                          job[s].todo, Tail(job[s].built))
    BY <1>0, <1>5 DEF Store, TypeOK
  <2>3. /\ job'[s].pc = "build" /\ job'[s].fn = job[s].fn
        /\ job'[s].gen = job[s].gen /\ job'[s].config = job[s].config
        /\ job'[s].body = body /\ job'[s].todo = job[s].todo
        /\ job'[s].built = Tail(job[s].built)
    BY <2>2 DEF Command
  <2>4. body.src = job[s].body.src
    <3>1. Head(job[s].built) \in [target : Targets, bytes : Artifact]
      BY <1>0, <2>1, JobFields, HeadAndTail
    <3>2. library \in SharedLibrary /\ Head(job[s].built).target \in Targets
      BY <1>0, <2>1, <3>1, JobFields, CompileFnAssumption DEF SharedLibrary
    <3>3. entry \in ProSrcEntry /\ entry.src = job[s].body.src
      BY <1>0, <2>1, JobFields, EntryType
    <3> HIDE DEF library, entry
    <3> QED
      BY <3>2, <3>3, BodyAfterStore
  <2>5. Len(Tail(job[s].built)) = Len(job[s].built) - 1 /\ Len(job[s].built) > 0
    BY <1>0, <2>1, JobFields, HeadTailProperties
  <2>6. StepsLeft(s) = 4 /\ StepsLeft(s)' = 4
    BY <2>1, <2>3 DEF StepsLeft
  <2> HIDE DEF library, entry, body
  <2> SUFFICES ASSUME Busy(s)'
               PROVE  Work(s)' \in 0..(Work(s) - 1)
    BY <2>3, <2>4 DEF Advances
  <2>7. Work(s)' = Work(s) - 1
    <3> DEFINE i == Len(job[s].todo)
               k == Len(job[s].built)
    <3>1. i \in Nat /\ k \in Nat /\ k > 0 /\ 4 \in 0..7
      BY <1>0, <2>1, <2>5, WorkType
    <3>2. Work(s) = 5 * i + k + 4 /\ Work(s)' = 5 * i + (k - 1) + 4
      BY <2>3, <2>5, <2>6 DEF Work
    <3> HIDE DEF i, k
    <3> QED
      BY <3>1, <3>2, Sums
  <2> QED
    BY <1>0, <2>1, <2>7, OneLess
<1> QED
  BY <1>1, <1>2, <1>3, <1>4, <1>5 DEF Proceed, Prepare, Build, Finish

\* A step of a session is none of the others' cargo processes.
LEMMA ProceedLeavesOthers ==
    ASSUME TypeOK, NEW s \in Sessions, Proceed(s), NEW t \in Sessions, t # s
    PROVE  job'[t] = job[t] /\ Holding(t)' = Holding(t)
<1>1. job'[t] = job[t]
  BY DEF TypeOK, Proceed, Prepare, Build, Finish, Generate, GenerateFails, Provision,
     ProvisionFails, Validate, ValidateFails, Spawn, SpawnFails, ReadArtifact,
     ReadArtifactFails, Store, StoreFails, Cleanup, CleanupFails, Commit, Rollback,
     Goto, Fail
<1>2. CASE Spawn(s)
  <2> DEFINE new == [crate |-> NameOf(s), target |-> Head(job[s].todo),
                     owner |-> s, read |-> Unread]
  <2>1. cargos' = cargos \cup {new} /\ new.owner # t
    BY <1>2 DEF Spawn
  <2> HIDE DEF new
  <2>2. Owned(t)' = Owned(t)
    BY <2>1 DEF Owned
  <2> QED
    BY <1>1, <2>2 DEF Holding, Holds
<1>3. CASE ~Spawn(s)
  <2>1. UNCHANGED cargos
    BY <1>3 DEF Proceed, Prepare, Build, Finish, Generate, GenerateFails, Provision,
       ProvisionFails, Validate, ValidateFails, SpawnFails, ReadArtifact,
       ReadArtifactFails, Store, StoreFails, Cleanup, CleanupFails, Commit, Rollback
  <2> QED
    BY <1>1, <2>1 DEF Holding, Owned, Holds
<1> QED
  BY <1>2, <1>3

LEMMA CargoAdvances ==
    ASSUME CompileInv, CompileInv', NEW c \in cargos, Cargo(c), NEW t \in Sessions
    PROVE  Advances(t)
<1>0. TypeOK /\ TypeOK' /\ CargosOK /\ c \in CargoProcess
  BY DEF CompileInv, TypeOK
<1>1. c.owner = t => Busy(t) /\ job[t].pc = "cargo"
  BY <1>0, CompileFnAssumption DEF CargosOK, OwnerOK, At
<1>2. CASE CargoStarts(c)
  <2> DEFINE new == [c EXCEPT !.read = crates[c.crate]]
  <2>1. /\ cargos' = (cargos \ {c}) \cup {new} /\ job' = job
        /\ \A d \in cargos : ~Holds(d)
        /\ crates[c.crate] \in Crate
    BY <1>0, <1>2 DEF CargoStarts, TypeOK
  <2>2. new.owner = c.owner /\ new.read = crates[c.crate]
    BY <1>0 DEF CargoProcess
  <2> HIDE DEF new
  <2>3. CASE c.owner # t
    <3>1. Owned(t)' = Owned(t)
      BY <2>1, <2>2, <2>3 DEF Owned
    <3> QED
      BY <2>1, <3>1, OthersAdvance DEF Holding, Holds
  <2>4. CASE c.owner = t
    <3>1. ~Holding(t)
      BY <2>1 DEF Holding, Owned
    <3>2. new.read # Unread => Holding(t)'
      BY <2>1, <2>2, <2>4 DEF Holding, Owned, Holds
    <3>3. new.read = Unread => ~Holding(t)'
      BY <2>1 DEF Holding, Owned, Holds
    <3>4. CASE new.read = Unread
      <4>1. Holding(t) = FALSE /\ Holding(t)' = FALSE
        BY <3>1, <3>3, <3>4 DEF Holding
      <4> QED
        BY <2>1, <4>1, OthersAdvance
    <3>5. CASE new.read # Unread
      <4>1. StepsLeft(t) = 3 /\ StepsLeft(t)' = 2
        BY <1>1, <2>1, <2>4, <3>1, <3>2, <3>5 DEF StepsLeft
      <4>2. Busy(t) /\ Busy(t)' /\ SameButPc(job[t], job'[t])
        BY <1>1, <2>1, <2>4 DEF Busy, SameButPc
      <4> QED
        BY <1>0, <4>1, <4>2, NearerAdvances
    <3> QED
      BY <3>4, <3>5
  <2> QED
    BY <2>3, <2>4
<1>3. CASE CargoSucceeds(c) \/ CargoFails(c)
  <2>1. cargos' = cargos \ {c}
    BY <1>3 DEF CargoSucceeds, CargoFails
  <2>2. CASE c.owner # t
    <3>1. Owned(t)' = Owned(t)
      BY <2>1, <2>2 DEF Owned
    <3>2. c.owner # Nobody => c.owner \in Sessions /\ Busy(c.owner)
      BY <1>0 DEF CargosOK, OwnerOK, At, CargoProcess
    <3>3. job'[t] = job[t]
      BY <1>0, <1>3, <2>2, <3>2, GotoStep, FailStep DEF CargoSucceeds, CargoFails, Pcs
    <3> QED
      BY <3>1, <3>3, OthersAdvance DEF Holding, Holds
  <2>3. CASE c.owner = t /\ CargoSucceeds(c)
    <3>1. Goto(t, "read")
      BY <2>3, CompileFnAssumption DEF CargoSucceeds
    <3>2. Busy(t)' /\ job'[t].pc = "read" /\ SameButPc(job[t], job'[t])
      BY <1>0, <1>1, <2>3, <3>1, GotoStep DEF Pcs
    <3>3. StepsLeft(t)' < StepsLeft(t)
      BY <1>1, <2>3, <3>2 DEF StepsLeft
    <3> QED
      BY <1>0, <1>1, <2>3, <3>2, <3>3, NearerAdvances
  <2>4. CASE c.owner = t /\ CargoFails(c)
    <3>1. Fail(t)
      BY <2>4, CompileFnAssumption DEF CargoFails
    <3> QED
      BY <1>0, <3>1, FailStep DEF Advances
  <2> QED
    BY <1>3, <2>2, <2>3, <2>4
<1> QED
  BY <1>2, <1>3 DEF Cargo

LEMMA StepAdvances ==
    ASSUME CompileInv, CompileInv', Next, NEW t \in Sessions
    PROVE  Advances(t)
<1>0. TypeOK
  BY DEF CompileInv
<1>1. ASSUME NEW s \in Sessions, Proceed(s)  PROVE Advances(t)
  BY <1>0, <1>1, ProceedAdvances, ProceedLeavesOthers, OthersAdvance
<1>2. ASSUME NEW s \in Sessions, NEW f \in Fns, Create(s, f)  PROVE Advances(t)
  <2>1. ~Busy(s) /\ UNCHANGED cargos /\ \A u \in Sessions : u # s => job'[u] = job[u]
    BY <1>0, <1>2 DEF Create, TypeOK
  <2>2. Holding(t)' = Holding(t)
    BY <2>1 DEF Holding, Owned, Holds
  <2> QED
    BY <2>1, <2>2, OthersAdvance DEF Advances
<1>3. ASSUME NEW c \in cargos, Cargo(c)  PROVE Advances(t)
  BY <1>3, CargoAdvances
<1>4. CASE UNCHANGED <<job, cargos>>
  BY <1>4, OthersAdvance DEF Holding, Owned, Holds
<1>5. ASSUME NEW f \in Fns, NEW new \in Fns, CopyDatabase(f, new)
      PROVE  UNCHANGED <<job, cargos>>
  BY <1>5 DEF CopyDatabase
<1>6. Restart => UNCHANGED <<job, cargos>>
  BY DEF Restart
<1>7. CASE Crash
  BY <1>7 DEF Crash, Advances, Busy
<1> QED
  BY <1>1, <1>2, <1>3, <1>4, <1>5, <1>6, <1>7 DEF Next

\* Every step of a command or of its cargo brings the command nearer to its end, and no
\* other step sets it back, so that with the fairness of FairSpec it ends.
THEOREM CommandsDoAdvance == Spec => CommandsAdvance
<1>1. CompileInv /\ CompileInv' /\ [Next]_vars =>
        [\A s \in Sessions : Busy(s) /\ Busy(s)' =>
          /\ job'[s].fn = job[s].fn /\ job'[s].gen = job[s].gen
          /\ job'[s].config = job[s].config /\ job'[s].body.src = job[s].body.src
          /\ job'[s] # job[s] \/ Holding(s)' # Holding(s) =>
                Work(s)' \in 0..(Work(s) - 1)]_vars
  BY StepAdvances DEF Advances
<1> QED
  BY <1>1, CompileInvariance, PTL DEF Spec, CommandsAdvance

----------------------------------------------------------------------------
(* The abstract specification.                                             *)

\* plrust.compilation_targets does not change under a command.
TargetsKept == \A s \in Sessions : Busy(s) => job[s].config.targets = targets

LEMMA StepKeepsTargets ==
    ASSUME CompileInv, CompileInv', TargetsKept, [Next]_vars
    PROVE  TargetsKept'
<1>0. TypeOK
  BY DEF CompileInv
<1>1. CASE \E s \in Sessions, f \in Fns : Create(s, f)
  <2>1. PICK s \in Sessions, f \in Fns : Create(s, f)
    BY <1>1
  <2>2. PICK body \in Submissions, config \in {c \in Configs : c.targets = targets} :
          job' = [job EXCEPT ![s] = Command("generate", f, nextGen, config, body,
                                            CompilationTargets(config), <<>>)]
    BY <2>1 DEF Create
  <2>3. /\ job'[s].config.targets = targets /\ targets' = targets
        /\ \A t \in Sessions : t # s => job'[t] = job[t]
    BY <1>0, <2>1, <2>2 DEF Create, Command, TypeOK
  <2> QED
    BY <2>3 DEF TargetsKept, Busy
<1>2. CASE Next /\ ~Restart /\ ~\E s \in Sessions, f \in Fns : Create(s, f)
  <2>1. \A t \in Sessions : Busy(t)' => Busy(t)
    <3>1. ASSUME NEW s \in Sessions, Proceed(s), NEW t \in Sessions, Busy(t)' PROVE Busy(t)
      <4>1. Busy(s) /\ (t # s => job'[t] = job[t])
        BY <1>0, <3>1, ProceedLeavesOthers
           DEF Proceed, Prepare, Build, Finish, Generate, GenerateFails, Provision,
           ProvisionFails, Validate, ValidateFails, Spawn, SpawnFails, ReadArtifact,
           ReadArtifactFails, Store, StoreFails, Cleanup, CleanupFails, Commit,
           Rollback, At
      <4> QED
        BY <3>1, <4>1 DEF Busy
    <3>2. ASSUME NEW c \in cargos, Cargo(c), NEW t \in Sessions, Busy(t)' PROVE Busy(t)
      <4>1. c.owner # Nobody => c.owner \in Sessions /\ Busy(c.owner)
        BY <3>2 DEF CompileInv, TypeOK, CargosOK, OwnerOK, At, CargoProcess
      <4>2. c.owner # t => job'[t] = job[t]
        BY <1>0, <3>2, <4>1 DEF Cargo, CargoStarts, CargoSucceeds, CargoFails, Goto,
           Fail, TypeOK
      <4> QED
        BY <3>2, <4>1, <4>2, CompileFnAssumption DEF Busy
    <3> QED
      BY <1>2, <3>1, <3>2 DEF Next, CopyDatabase, Crash, Busy
  <2>2. \A t \in Sessions : Busy(t) /\ Busy(t)' => job'[t].config = job[t].config
    BY <1>2, StepAdvances DEF Advances
  <2>3. UNCHANGED targets
    BY <1>2 DEF Next, CopyDatabase, Crash, Cargo, CargoStarts, CargoSucceeds, CargoFails,
       Proceed, Prepare, Build, Finish, Generate, GenerateFails, Provision,
       ProvisionFails, Validate, ValidateFails, Spawn, SpawnFails, ReadArtifact,
       ReadArtifactFails, Store, StoreFails, Cleanup, CleanupFails, Commit, Rollback
  <2> QED
    BY <2>1, <2>2, <2>3 DEF TargetsKept
<1>3. Restart \/ UNCHANGED vars => TargetsKept'
  BY DEF Restart, vars, TargetsKept, Busy
<1> QED
  BY <1>1, <1>2, <1>3

LEMMA CompiledFor ==
    ASSUME NEW config \in Configs, config.targets = targets
    PROVE  Compiled = Elements(CompilationTargets(config))
<1>1. CompilationTargets([targets |-> targets]) = CompilationTargets(config)
  BY DEF CompilationTargets, OtherTargets
<1> QED
  BY <1>1 DEF Compiled, Elements

LEMMA CommandsHaveSetsOfTargets ==
    ASSUME NEW config \in Configs
    PROVE  Elements(CompilationTargets(config)) \in Abstract!SetsOfTargets
<1>1. CompilationTargets(config) \in Seq(Targets) /\ Host \in Elements(CompilationTargets(config))
  BY TargetsOfCommand
<1>2. Elements(CompilationTargets(config)) \subseteq Targets
  BY <1>1 DEF Elements
<1> QED
  BY <1>1, <1>2 DEF Abstract!SetsOfTargets

LEMMA CompiledIsSetOfTargets ==
    ASSUME TypeOK
    PROVE  Compiled \in Abstract!SetsOfTargets
<1>1. PICK config \in Configs : config.targets = targets
  BY DEF TypeOK
<1> QED
  BY <1>1, CompiledFor, CommandsHaveSetsOfTargets

\* A commit has a faithful library for every target compiled now.
LEMMA CommitIsFaithful ==
    ASSUME CompileInv, TargetsKept, NEW s \in Sessions, Commit(s)
    PROVE  /\ job[s].fn \in Fns /\ job[s].gen \in 1..MaxGen /\ job[s].body \in ProSrcEntry
           /\ Compiled \subseteq DOMAIN job[s].body.lib
           /\ \A target \in Compiled : Abstract!Faithful(job[s].body, target)
<1>1. TypeOK /\ Busy(s) /\ JobOK(job[s]) /\ job[s].pc = "done"
  BY DEF CompileInv, Commit, At, SessionOK
<1>2. /\ job[s].config \in Configs /\ job[s].config.targets = targets
      /\ job[s].fn \in Fns /\ job[s].gen \in 1..MaxGen /\ job[s].body \in ProSrcEntry
  BY <1>1, JobFields DEF TargetsKept
<1>3. \A target \in Compiled :
        target \in DOMAIN job[s].body.lib /\ job[s].body.lib[target] = Own(job[s], target)
  <2>1. Compiled = Elements(CompilationTargets(job[s].config))
    <3>1. PICK config \in Configs : config = job[s].config
      BY <1>2
    <3> QED
      BY <1>2, <3>1, CompiledFor
  <2>2. \A target \in Elements(CompilationTargets(job[s].config)) :
          target \in DOMAIN job[s].body.lib /\ job[s].body.lib[target] = Own(job[s], target)
    BY <1>1, DoneIsComplete
  <2> QED
    BY <2>1, <2>2
<1>4. ASSUME NEW target \in Compiled PROVE Abstract!Faithful(job[s].body, target)
  <2>1. job[s].body.lib[target] = Own(job[s], target)
    BY <1>3
  <2> QED
    BY <2>1, OwnFields DEF Abstract!Faithful
<1> QED
  BY <1>2, <1>3, <1>4

\* What FnStore sees of the rows.
Published ==
    [f \in Fns |-> IF committed[f] = NoRow THEN NoRow ELSE committed[f].body]

LEMMA RowPublished ==
    ASSUME NEW f \in Fns, NEW row \in Row, TypeOK,
           committed' = [committed EXCEPT ![f] = row]
    PROVE  /\ Published' = [Published EXCEPT ![f] = row.body]
           /\ Published'[f] = row.body /\ row.body # NoRow
<1>1. row # NoRow /\ row.body \in ProSrcEntry
  BY NoneAssumption DEF Row
<1>2. row.body # NoRow
  BY <1>1, NoneAssumption
<1>3. committed'[f] = row /\ \A g \in Fns : g # f => committed'[g] = committed[g]
  BY DEF TypeOK
<1>4. Published' = [Published EXCEPT ![f] = row.body]
  <2> DEFINE now == [Published EXCEPT ![f] = row.body]
  <2>1. Published' = [g \in Fns |-> IF committed'[g] = NoRow THEN NoRow
                                    ELSE committed'[g].body]
    BY DEF Published
  <2>2. now = [g \in Fns |-> IF g = f THEN row.body ELSE Published[g]]
    BY DEF Published
  <2>3. \A g \in Fns : (IF committed'[g] = NoRow THEN NoRow ELSE committed'[g].body)
                          = IF g = f THEN row.body ELSE Published[g]
    BY <1>1, <1>3 DEF Published
  <2> HIDE DEF now
  <2> QED
    BY <2>1, <2>2, <2>3, Zenon DEF now
<1>5. Published'[f] = row.body
  BY <1>4 DEF Published
<1> QED
  BY <1>2, <1>4, <1>5

LEMMA ProceedPublishes ==
    ASSUME NEW s \in Sessions, Proceed(s), ~Commit(s)
    PROVE  UNCHANGED <<committed, targets>>
  BY DEF Proceed, Prepare, Build, Finish, Generate, GenerateFails, Provision,
         ProvisionFails, Validate, ValidateFails, Spawn, SpawnFails, ReadArtifact,
         ReadArtifactFails, Store, StoreFails, Cleanup, CleanupFails, Rollback

LEMMA CommitPublishes ==
    ASSUME CompileInv, TargetsKept, NEW s \in Sessions, Commit(s)
    PROVE  Abstract!Next
<1>0. TypeOK /\ UNCHANGED targets
  BY DEF CompileInv, Commit
<1>1. /\ job[s].fn \in Fns /\ job[s].gen \in 1..MaxGen /\ job[s].body \in ProSrcEntry
      /\ Compiled \subseteq DOMAIN job[s].body.lib
      /\ \A target \in Compiled : Abstract!Faithful(job[s].body, target)
  BY CommitIsFaithful
<1>2. [gen |-> job[s].gen, body |-> job[s].body] \in Row
  BY <1>1 DEF Row
<1>3. PICK f \in Fns, row \in Row :
         f = job[s].fn /\ row = [gen |-> job[s].gen, body |-> job[s].body]
  BY <1>1, <1>2
<1>4. committed' = [committed EXCEPT ![f] = row] /\ row.body = job[s].body
  BY <1>3 DEF Commit
<1>5. /\ Published' = [Published EXCEPT ![f] = row.body]
      /\ Published'[f] = row.body /\ row.body # NoRow
  BY <1>0, <1>4, RowPublished
<1>6. Compiled' = Compiled
  BY <1>0 DEF Compiled
<1>7. /\ Compiled \subseteq DOMAIN Published'[f].lib
      /\ \A target \in Compiled : Abstract!Faithful(Published'[f], target)
  BY <1>1, <1>4, <1>5
<1>8. Published' = [Published EXCEPT ![f] = Published'[f]] /\ Published'[f] # NoRow
  BY <1>5
<1>9. Abstract!Publish(f)
  BY <1>6, <1>7, <1>8 DEF Abstract!Publish, Published, Abstract!Faithful
<1> QED
  BY <1>9 DEF Abstract!Next

LEMMA CopyPublishes ==
    ASSUME TypeOK, NEW f \in Fns, NEW new \in Fns, CopyDatabase(f, new)
    PROVE  Abstract!Next
<1>1. /\ committed[f] # NoRow /\ committed[new] = NoRow /\ UNCHANGED targets
      /\ committed' = [committed EXCEPT ![new] = committed[f]]
  BY DEF CopyDatabase
<1>2. PICK row \in Row : row = committed[f]
  BY <1>1 DEF TypeOK
<1>3. /\ Published' = [Published EXCEPT ![new] = row.body] /\ row.body # NoRow
  BY <1>1, <1>2, RowPublished
<1>4. Published[f] = row.body /\ Published[new] = NoRow /\ Compiled' = Compiled
  BY <1>1, <1>2 DEF Published, Compiled
<1>5. Published' = [Published EXCEPT ![new] = Published[f]] /\ Published[f] # NoRow
  BY <1>3, <1>4
<1>6. Abstract!Copy(f, new)
  BY <1>4, <1>5 DEF Abstract!Copy, Published
<1> QED
  BY <1>6 DEF Abstract!Next

LEMMA StepPublishes ==
    ASSUME CompileInv, CompileInv', TargetsKept, [Next]_vars
    PROVE  Abstract!Next \/ UNCHANGED <<Published, Compiled>>
<1>0. TypeOK /\ Compiled' \in Abstract!SetsOfTargets
  <2>1. PICK config \in Configs : config.targets = targets'
    BY DEF CompileInv, TypeOK
  <2>2. Compiled' = Elements(CompilationTargets(config))
    <3>1. CompilationTargets([targets |-> targets']) = CompilationTargets(config)
      BY <2>1 DEF CompilationTargets, OtherTargets
    <3> QED
      BY <3>1 DEF Compiled, Elements
  <2> QED
    BY <2>2, CommandsHaveSetsOfTargets DEF CompileInv
<1>1. ASSUME NEW s \in Sessions, Commit(s)
      PROVE  Abstract!Next
  BY <1>1, CommitPublishes
<1>2. ASSUME NEW f \in Fns, NEW new \in Fns, CopyDatabase(f, new)
      PROVE  Abstract!Next
  BY <1>0, <1>2, CopyPublishes
<1>3. CASE UNCHANGED <<committed, targets>>
  BY <1>3 DEF Published, Compiled
<1>4. ASSUME NEW s \in Sessions, Proceed(s) \/ (\E f \in Fns : Create(s, f)), ~Commit(s)
      PROVE  UNCHANGED <<committed, targets>>
  BY <1>4, ProceedPublishes DEF Create
<1>5. ASSUME NEW c \in cargos, Cargo(c)
      PROVE  UNCHANGED <<committed, targets>>
  BY <1>5 DEF Cargo, CargoStarts, CargoSucceeds, CargoFails
<1>6. Crash \/ UNCHANGED vars => UNCHANGED <<committed, targets>>
  BY DEF Crash, vars
<1>7. CASE Restart
  <2>1. Published' = Published
    BY <1>7 DEF Restart, Published
  <2> QED
    BY <1>0, <2>1 DEF Abstract!Next, Abstract!Configure, Published, Abstract!SetsOfTargets
<1> QED
  BY <1>1, <1>2, <1>3, <1>4, <1>5, <1>6, <1>7 DEF Next

LEMMA TargetsInvariance == Spec => []TargetsKept
<1>1. Init => TargetsKept
  BY DEF Init, TargetsKept, Busy
<1>2. CompileInv /\ CompileInv' /\ TargetsKept /\ [Next]_vars => TargetsKept'
  BY StepKeepsTargets
<1> QED
  BY <1>1, <1>2, CompileInvariance, PTL DEF Spec

\* CREATE FUNCTION implements FnStore: what everyone else sees of a function changes in
\* one step, to an entry with a faithful library for each target compiled now, even
\* where the submitted one came from elsewhere or claims what is not so.
THEOREM ImplementsFnStore == Spec => PublishesFaithfulLibraries
<1>1. Init => Abstract!Init
  <2> SUFFICES ASSUME Init PROVE Abstract!Init
    OBVIOUS
  <2>1. Published = [f \in Fns |-> NoRow]
    BY DEF Init, Published
  <2>2. TypeOK
    BY InitHolds DEF CompileInv
  <2> QED
    BY <2>1, <2>2, CompiledIsSetOfTargets DEF Abstract!Init, Published
<1>2. CompileInv /\ CompileInv' /\ TargetsKept /\ [Next]_vars =>
        [Abstract!Next]_<<Published, Compiled>>
  BY StepPublishes
<1> QED
  BY <1>1, <1>2, CompileInvariance, TargetsInvariance, PTL
  DEF Spec, PublishesFaithfulLibraries, Abstract!Spec, Published

----------------------------------------------------------------------------
(* Whole entries.                                                          *)

\* Every library of the entry is what it claims.
AllFaithful(body) == \A target \in DOMAIN body.lib : Abstract!Faithful(body, target)

\* What comes from elsewhere was written by a PL/Rust that kept to this.
WholeEntries == \A entry \in Entries : AllFaithful(entry)

\* A prosrc that this host can load, every library of which is what it claims.
RowsWhole ==
    \A f \in Fns : committed[f] # NoRow =>
        Host \in DOMAIN committed[f].body.lib /\ AllFaithful(committed[f].body)

NothingFalse ==
    /\ RowsWhole
    /\ \A s \in Sessions : Busy(s) => AllFaithful(job[s].body)

\* A step that commits nothing and leaves each command its entry or a faithful one.
LEMMA WholeFrame ==
    ASSUME NothingFalse, UNCHANGED committed,
           \A s \in Sessions : Busy(s)' =>
               \/ Busy(s) /\ job'[s].body = job[s].body
               \/ AllFaithful(job'[s].body)
    PROVE  NothingFalse'
<1>1. ASSUME NEW s \in Sessions, Busy(s)' PROVE AllFaithful(job'[s].body)
  BY <1>1 DEF NothingFalse
<1>2. ASSUME NEW f \in Fns, committed'[f] # NoRow
      PROVE  Host \in DOMAIN committed'[f].body.lib /\ AllFaithful(committed'[f].body)
  BY <1>2 DEF NothingFalse, RowsWhole
<1> QED
  BY <1>1, <1>2 DEF NothingFalse, RowsWhole, AllFaithful, Abstract!Faithful

LEMMA CreateWhole ==
    ASSUME TypeOK, WholeEntries, NothingFalse, NEW s \in Sessions, NEW f \in Fns, Create(s, f)
    PROVE  NothingFalse'
<1>1. PICK body \in Submissions, config \in Configs :
        job' = [job EXCEPT ![s] = Command("generate", f, nextGen, config, body,
                                          CompilationTargets(config), <<>>)]
  BY DEF Create
<1>2. /\ job'[s].body = body /\ \A t \in Sessions : t # s => job'[t] = job[t]
      /\ UNCHANGED committed
  BY <1>1 DEF Create, Command, TypeOK
<1>3. ASSUME NEW src \in Srcs PROVE AllFaithful(Source(src))
  <2>1. Source(src).lib = <<>>
    BY DEF Source
  <2> QED
    BY <2>1, EmptyPartial DEF AllFaithful
<1>4. AllFaithful(body)
  BY <1>3 DEF Submissions, WholeEntries, NothingFalse, RowsWhole
<1> QED
  BY <1>2, <1>4, WholeFrame DEF Busy

LEMMA StoreWhole ==
    ASSUME CompileInv, NothingFalse, NEW s \in Sessions, Store(s)
    PROVE  NothingFalse'
<1> DEFINE head == Head(job[s].built)
           library == [bytes |-> head.bytes, symbol |-> job[s].fn,
                       lints |-> job[s].config.lints]
           entry == EntryOf(job[s].body, job[s].config.version)
           body == WithLibrary(entry, head.target, library)
<1>1. /\ TypeOK /\ Busy(s) /\ JobOK(job[s]) /\ job[s].built # <<>>
      /\ job[s].built \in Seq([target : Targets, bytes : Artifact])
      /\ AllFaithful(job[s].body) /\ UNCHANGED committed
      /\ \A t \in Sessions : t # s => job'[t] = job[t]
  BY JobFields DEF Store, At, CompileInv, SessionOK, NothingFalse, TypeOK
<1>2. /\ head \in [target : Targets, bytes : Artifact]
      /\ 1 \in 1..Len(job[s].built) /\ head = job[s].built[1]
  <2> DEFINE S == [target : Targets, bytes : Artifact]
  <2>1. job[s].built \in Seq(S) /\ job[s].built # <<>>
    BY <1>1
  <2> HIDE DEF S
  <2>2. head \in S /\ 1 \in 1..Len(job[s].built) /\ head = job[s].built[1]
    BY <2>1, HeadAndTail
  <2> QED
    BY <2>2 DEF S
<1>3. /\ head.target \in Targets /\ library \in SharedLibrary
      /\ library = Own(job[s], head.target)
  BY <1>1, <1>2, JobFields, CompileFnAssumption DEF SharedLibrary, JobOK, Own
<1>4. entry \in ProSrcEntry /\ entry.src = job[s].body.src /\ entry.lib = job[s].body.lib
  BY <1>1, JobFields, EntryType
<1>5. body.src = job[s].body.src /\ body.lib = Put(job[s].body.lib, head.target, library)
  BY <1>3, <1>4, BodyAfterStore
<1>6. job'[s] = Command("build", job[s].fn, job[s].gen, job[s].config, body,
                        job[s].todo, Tail(job[s].built))
  BY <1>1 DEF Store, TypeOK
<1> HIDE DEF head, library, entry, body
<1>7. job'[s].body = body
  BY <1>6 DEF Command
<1>8. /\ DOMAIN body.lib = DOMAIN job[s].body.lib \cup {head.target}
      /\ body.lib[head.target] = library
      /\ \A t \in DOMAIN job[s].body.lib :
            t # head.target => body.lib[t] = job[s].body.lib[t]
  BY <1>5 DEF Put
<1>9. Abstract!Faithful(body, head.target)
  BY <1>3, <1>5, <1>8, OwnFields DEF Abstract!Faithful
<1>10. ASSUME NEW t \in DOMAIN job[s].body.lib, t # head.target
       PROVE  Abstract!Faithful(body, t)
  BY <1>1, <1>5, <1>8, <1>10 DEF AllFaithful, Abstract!Faithful
<1>11. AllFaithful(body)
  BY <1>8, <1>9, <1>10 DEF AllFaithful
<1> QED
  BY <1>1, <1>7, <1>11, WholeFrame DEF Busy

\* The steps of a command that leave the entry alone, and the others' steps.
LEMMA ProceedKeepsBody ==
    ASSUME CompileInv, NEW s \in Sessions, Proceed(s), ~Store(s), ~Commit(s)
    PROVE  /\ UNCHANGED committed
           /\ \A t \in Sessions : Busy(t)' => Busy(t) /\ job'[t].body = job[t].body
<1>0. TypeOK /\ Busy(s)
  BY DEF CompileInv, Proceed, Prepare, Build, Finish, Generate, GenerateFails, Provision,
     ProvisionFails, Validate, ValidateFails, Spawn, SpawnFails, ReadArtifact,
     ReadArtifactFails, StoreFails, Cleanup, CleanupFails, Rollback, At
<1>1. UNCHANGED committed
  BY ProceedPublishes
<1>2. \A t \in Sessions : t # s => job'[t] = job[t]
  BY <1>0, ProceedLeavesOthers
<1>3. CASE \/ GenerateFails(s) \/ ProvisionFails(s) \/ ValidateFails(s)
           \/ SpawnFails(s) \/ ReadArtifactFails(s) \/ StoreFails(s)
           \/ CleanupFails(s) \/ Rollback(s)
  <2>1. ~Busy(s)'
    BY <1>0, <1>3, FailStep DEF GenerateFails, ProvisionFails, ValidateFails, SpawnFails,
       ReadArtifactFails, StoreFails, CleanupFails, Rollback
  <2> QED
    BY <1>1, <1>2, <2>1 DEF Busy
<1>4. CASE Generate(s) \/ Provision(s) \/ Validate(s) \/ Spawn(s) \/ Cleanup(s)
  <2>1. PICK pc \in Pcs : Goto(s, pc)
    BY <1>4 DEF Generate, Provision, Validate, Spawn, Cleanup, Pcs
  <2>2. job'[s].body = job[s].body
    BY <1>0, <2>1, GotoStep DEF SameButPc
  <2> QED
    BY <1>0, <1>1, <1>2, <2>2 DEF Busy
<1>5. CASE ReadArtifact(s)
  <2>1. job'[s].body = job[s].body
    BY <1>0, <1>5 DEF ReadArtifact, Command, TypeOK
  <2> QED
    BY <1>0, <1>1, <1>2, <2>1 DEF Busy
<1> QED
  BY <1>3, <1>4, <1>5 DEF Proceed, Prepare, Build, Finish

LEMMA CargoKeepsBody ==
    ASSUME CompileInv, NEW c \in cargos, Cargo(c)
    PROVE  /\ UNCHANGED committed
           /\ \A t \in Sessions : Busy(t)' => Busy(t) /\ job'[t].body = job[t].body
<1>1. /\ TypeOK /\ UNCHANGED committed
      /\ c.owner # Nobody => c.owner \in Sessions /\ Busy(c.owner)
  BY DEF CompileInv, TypeOK, CargosOK, OwnerOK, At, CargoProcess,
     Cargo, CargoStarts, CargoSucceeds, CargoFails
<1>2. CASE UNCHANGED job
  BY <1>1, <1>2 DEF Busy
<1>3. CASE c.owner # Nobody /\ CargoSucceeds(c)
  <2>1. "read" \in Pcs /\ Goto(c.owner, "read")
    BY <1>3 DEF CargoSucceeds, Pcs
  <2>2. /\ SameButPc(job[c.owner], job'[c.owner])
        /\ \A t \in Sessions : t # c.owner => job'[t] = job[t]
    BY <1>1, <1>3, <2>1, GotoStep
  <2> QED
    BY <1>1, <1>3, <2>2 DEF SameButPc, Busy
<1>4. CASE c.owner # Nobody /\ CargoFails(c)
  BY <1>1, <1>4, FailStep DEF CargoFails, Busy
<1> QED
  BY <1>2, <1>3, <1>4 DEF Cargo, CargoStarts, CargoSucceeds, CargoFails

LEMMA StepWhole ==
    ASSUME WholeEntries, CompileInv, TargetsKept, NothingFalse, [Next]_vars
    PROVE  NothingFalse'
<1>0. TypeOK
  BY DEF CompileInv
<1>1. ASSUME NEW s \in Sessions, Commit(s) PROVE NothingFalse'
  <2>1. /\ job[s].fn \in Fns /\ Busy(s) /\ Compiled \subseteq DOMAIN job[s].body.lib
        /\ AllFaithful(job[s].body)
    BY <1>1, CommitIsFaithful DEF Commit, At, NothingFalse
  <2>2. Host \in Compiled
    BY <1>0, CompiledIsSetOfTargets DEF Abstract!SetsOfTargets
  <2>3. /\ committed'[job[s].fn].body = job[s].body
        /\ \A f \in Fns : f # job[s].fn => committed'[f] = committed[f]
        /\ ~Busy(s)' /\ \A t \in Sessions : t # s => job'[t] = job[t]
    BY <1>0, <1>1, <2>1 DEF Commit, TypeOK, Busy
  <2>4. ASSUME NEW f \in Fns, committed'[f] # NoRow
        PROVE  Host \in DOMAIN committed'[f].body.lib /\ AllFaithful(committed'[f].body)
    BY <2>1, <2>2, <2>3, <2>4 DEF NothingFalse, RowsWhole
  <2>5. \A t \in Sessions : Busy(t)' => AllFaithful(job'[t].body)
    BY <2>3 DEF NothingFalse, Busy
  <2> QED
    BY <2>4, <2>5 DEF NothingFalse, RowsWhole, AllFaithful, Abstract!Faithful
<1>2. ASSUME NEW f \in Fns, NEW new \in Fns, CopyDatabase(f, new) PROVE NothingFalse'
  <2>1. /\ UNCHANGED job /\ committed[f] # NoRow
        /\ \A g \in Fns : committed'[g] \in {committed[g], committed[f]}
    BY <1>0, <1>2 DEF CopyDatabase, TypeOK
  <2>2. ASSUME NEW g \in Fns, committed'[g] # NoRow
        PROVE  Host \in DOMAIN committed'[g].body.lib /\ AllFaithful(committed'[g].body)
    BY <2>1, <2>2 DEF NothingFalse, RowsWhole
  <2>3. \A t \in Sessions : Busy(t)' => AllFaithful(job'[t].body)
    BY <2>1 DEF NothingFalse, Busy
  <2> QED
    BY <2>2, <2>3 DEF NothingFalse, RowsWhole, AllFaithful, Abstract!Faithful
<1>3. ASSUME NEW s \in Sessions, Proceed(s) PROVE NothingFalse'
  BY <1>1, <1>3, StoreWhole, ProceedKeepsBody, WholeFrame
<1>4. ASSUME NEW c \in cargos, Cargo(c) PROVE NothingFalse'
  BY <1>4, CargoKeepsBody, WholeFrame
<1>5. CASE Crash \/ Restart \/ UNCHANGED vars
  BY <1>5, WholeFrame DEF Crash, Restart, vars, Busy
<1> QED
  BY <1>0, <1>1, <1>2, <1>3, <1>4, <1>5, CreateWhole DEF Next

\* Where all JSON that comes from elsewhere is whole, as a dump of any cluster is, so is
\* every row, with the libraries it keeps for targets that are not compiled here.
THEOREM RowsStayWhole == WholeEntries => (Spec => []RowsWhole)
<1> SUFFICES ASSUME WholeEntries PROVE Spec => []RowsWhole
  OBVIOUS
<1>1. Init => NothingFalse
  BY DEF Init, NothingFalse, RowsWhole, Busy
<1>2. CompileInv /\ TargetsKept /\ NothingFalse /\ [Next]_vars => NothingFalse'
  BY StepWhole
<1>3. NothingFalse => RowsWhole
  BY DEF NothingFalse
<1> QED
  BY <1>1, <1>2, <1>3, CompileInvariance, TargetsInvariance, PTL DEF Spec

----------------------------------------------------------------------------
(* Libraries of other targets.                                             *)

\* No restart takes a target out of plrust.compilation_targets.
NoTargetDropped == Compiled \subseteq Compiled'

\* No JSON from elsewhere has a library of a target that is not compiled here.
EntriesCompiled == \A entry \in Entries : DOMAIN entry.lib \subseteq Compiled

\* A command has and makes libraries for those targets only.
HasOwn(j) ==
    /\ Elements(j.todo) \subseteq Compiled
    /\ \A i \in 1..Len(j.built) : j.built[i].target \in Compiled
    /\ DOMAIN j.body.lib \subseteq Compiled

OwnLibs ==
    /\ \A f \in Fns : committed[f] # NoRow => DOMAIN committed[f].body.lib \subseteq Compiled
    /\ \A s \in Sessions : Busy(s) => HasOwn(job[s])

\* A step of one command.
LEMMA OwnStep ==
    ASSUME OwnLibs, UNCHANGED <<targets, committed>>, NEW s \in Sessions,
           \A t \in Sessions : t # s => job'[t] = job[t],
           Busy(s)' => HasOwn(job[s])'
    PROVE  OwnLibs'
<1>1. Compiled' = Compiled
  BY DEF Compiled
<1>2. ASSUME NEW t \in Sessions, Busy(t)' PROVE HasOwn(job[t])'
  <2>1. CASE t = s
    BY <1>2, <2>1
  <2>2. CASE t # s
    <3>1. job'[t] = job[t] /\ HasOwn(job[t])
      BY <1>2, <2>2 DEF OwnLibs, Busy
    <3> QED
      BY <1>1, <3>1 DEF HasOwn
  <2> QED
    BY <2>1, <2>2
<1>3. \A f \in Fns : committed'[f] # NoRow => DOMAIN committed'[f].body.lib \subseteq Compiled'
  BY <1>1 DEF OwnLibs
<1> QED
  BY <1>2, <1>3 DEF OwnLibs

LEMMA GotoOwn ==
    ASSUME TypeOK, OwnLibs, UNCHANGED <<targets, committed>>,
           NEW s \in Sessions, Busy(s), NEW pc \in Pcs, Goto(s, pc)
    PROVE  OwnLibs'
<1>1. SameButPc(job[s], job'[s]) /\ \A t \in Sessions : t # s => job'[t] = job[t]
  BY GotoStep
<1>2. HasOwn(job[s])
  BY DEF OwnLibs
<1>3. HasOwn(job[s])'
  BY <1>1, <1>2 DEF HasOwn, SameButPc, Compiled
<1> QED
  BY <1>1, <1>3, OwnStep

LEMMA FailOwn ==
    ASSUME TypeOK, OwnLibs, UNCHANGED <<targets, committed>>, NEW s \in Sessions, Fail(s)
    PROVE  OwnLibs'
  BY FailStep, OwnStep

LEMMA ReadArtifactOwn ==
    ASSUME CompileInv, OwnLibs, NEW s \in Sessions, ReadArtifact(s)
    PROVE  OwnLibs'
<1> DEFINE library == [target |-> Head(job[s].todo),
                       bytes |-> artifacts[<<NameOf(s), Head(job[s].todo)>>]]
<1>1. /\ TypeOK /\ Busy(s) /\ job[s].todo # <<>> /\ job[s].todo \in Seq(Targets)
      /\ job[s].built \in Seq([target : Targets, bytes : Artifact])
      /\ HasOwn(job[s]) /\ UNCHANGED <<targets, committed>>
      /\ \A t \in Sessions : t # s => job'[t] = job[t]
  BY JobFields DEF ReadArtifact, At, CompileInv, SessionOK, JobOK, OwnLibs, TypeOK
<1>2. job'[s] = Command("build", job[s].fn, job[s].gen, job[s].config, job[s].body,
                        Tail(job[s].todo), Append(job[s].built, library))
  BY <1>1 DEF ReadArtifact, TypeOK
<1>3. /\ job'[s].config = job[s].config /\ job'[s].body = job[s].body
      /\ job'[s].todo = Tail(job[s].todo) /\ job'[s].built = Append(job[s].built, library)
  BY <1>2 DEF Command
<1>4. Elements(job[s].todo) = {Head(job[s].todo)} \cup Elements(Tail(job[s].todo))
  BY <1>1, ElementsOfTail
<1>5. library.target = Head(job[s].todo) /\ Compiled' = Compiled
  BY <1>1 DEF Compiled
<1> HIDE DEF library
<1>6. ASSUME NEW i \in 1..Len(Append(job[s].built, library))
      PROVE  Append(job[s].built, library)[i].target \in Compiled
  <2>1. \/ i \in 1..Len(job[s].built) /\ Append(job[s].built, library)[i] = job[s].built[i]
        \/ Append(job[s].built, library)[i] = library
    BY <1>1
  <2> QED
    BY <1>1, <1>4, <1>5, <2>1 DEF HasOwn
<1>7. HasOwn(job[s])'
  BY <1>1, <1>3, <1>4, <1>5, <1>6 DEF HasOwn
<1> QED
  BY <1>1, <1>7, OwnStep

LEMMA StoreOwn ==
    ASSUME CompileInv, OwnLibs, NEW s \in Sessions, Store(s)
    PROVE  OwnLibs'
<1> DEFINE head == Head(job[s].built)
           library == [bytes |-> head.bytes, symbol |-> job[s].fn,
                       lints |-> job[s].config.lints]
           entry == EntryOf(job[s].body, job[s].config.version)
           body == WithLibrary(entry, head.target, library)
           built == Tail(job[s].built)
<1>1. /\ TypeOK /\ Busy(s) /\ job[s].built # <<>>
      /\ job[s].built \in Seq([target : Targets, bytes : Artifact])
      /\ HasOwn(job[s]) /\ UNCHANGED <<targets, committed>>
      /\ \A t \in Sessions : t # s => job'[t] = job[t]
  BY JobFields DEF Store, At, CompileInv, OwnLibs, TypeOK
<1>2. /\ head \in [target : Targets, bytes : Artifact]
      /\ 1 \in 1..Len(job[s].built) /\ head = job[s].built[1]
      /\ \A i \in 1..Len(built) :
            i + 1 \in 1..Len(job[s].built) /\ built[i] = job[s].built[i + 1]
  <2> DEFINE S == [target : Targets, bytes : Artifact]
  <2>1. job[s].built \in Seq(S) /\ job[s].built # <<>>
    BY <1>1
  <2> HIDE DEF S
  <2>2. /\ head \in S /\ 1 \in 1..Len(job[s].built) /\ head = job[s].built[1]
        /\ \A i \in 1..Len(built) :
              i + 1 \in 1..Len(job[s].built) /\ built[i] = job[s].built[i + 1]
    BY <2>1, HeadAndTail
  <2> QED
    BY <2>2 DEF S
<1>3. head.target \in Targets /\ library \in SharedLibrary
  BY <1>1, <1>2, JobFields, CompileFnAssumption DEF SharedLibrary
<1>4. entry \in ProSrcEntry /\ entry.lib = job[s].body.lib
  BY <1>1, JobFields, EntryType
<1>5. body.lib = Put(job[s].body.lib, head.target, library)
  BY <1>3, <1>4, BodyAfterStore
<1>6. DOMAIN body.lib = DOMAIN job[s].body.lib \cup {head.target}
  BY <1>5 DEF Put
<1>7. job'[s] = Command("build", job[s].fn, job[s].gen, job[s].config, body,
                        job[s].todo, built)
  BY <1>1 DEF Store, TypeOK
<1> HIDE DEF head, library, entry, body, built
<1>8. /\ job'[s].config = job[s].config /\ job'[s].body = body
      /\ job'[s].todo = job[s].todo /\ job'[s].built = built
  BY <1>7 DEF Command
<1>9. Compiled' = Compiled
  BY <1>1 DEF Compiled
<1>10. HasOwn(job[s])'
  BY <1>1, <1>2, <1>6, <1>8, <1>9 DEF HasOwn
<1> QED
  BY <1>1, <1>10, OwnStep

LEMMA CommitOwn ==
    ASSUME TypeOK, OwnLibs, NEW s \in Sessions, Commit(s)
    PROVE  OwnLibs'
<1>1. /\ Busy(s) /\ HasOwn(job[s]) /\ job[s].fn \in Fns
      /\ targets' = targets /\ Compiled' = Compiled
  BY JobFields DEF Commit, At, OwnLibs, Compiled
<1>2. /\ committed'[job[s].fn].body = job[s].body
      /\ \A f \in Fns : f # job[s].fn => committed'[f] = committed[f]
      /\ ~Busy(s)' /\ \A t \in Sessions : t # s => job'[t] = job[t]
  BY <1>1 DEF Commit, TypeOK, Busy
<1>3. \A f \in Fns : committed'[f] # NoRow => DOMAIN committed'[f].body.lib \subseteq Compiled'
  BY <1>1, <1>2 DEF OwnLibs, HasOwn
<1>4. ASSUME NEW t \in Sessions, Busy(t)' PROVE HasOwn(job[t])'
  <2>1. job'[t] = job[t] /\ HasOwn(job[t])
    BY <1>2, <1>4 DEF OwnLibs, Busy
  <2> QED
    BY <1>1, <2>1 DEF HasOwn
<1> QED
  BY <1>3, <1>4 DEF OwnLibs

LEMMA CreateOwn ==
    ASSUME TypeOK, OwnLibs, EntriesCompiled,
           NEW s \in Sessions, NEW f \in Fns, Create(s, f)
    PROVE  OwnLibs'
<1>1. PICK body \in Submissions, config \in {c \in Configs : c.targets = targets} :
        job' = [job EXCEPT ![s] = Command("generate", f, nextGen, config, body,
                                          CompilationTargets(config), <<>>)]
  BY DEF Create
<1>2. /\ UNCHANGED <<targets, committed>> /\ Compiled' = Compiled
      /\ Compiled = Elements(CompilationTargets(config))
      /\ job'[s] = Command("generate", f, nextGen, config, body,
                           CompilationTargets(config), <<>>)
      /\ \A t \in Sessions : t # s => job'[t] = job[t]
  BY <1>1, CompiledFor DEF Create, Compiled, TypeOK
<1>3. /\ job'[s].config = config /\ job'[s].body = body
      /\ job'[s].todo = CompilationTargets(config) /\ job'[s].built = <<>>
  BY <1>2 DEF Command
<1>4. DOMAIN body.lib \subseteq Compiled
  <2>1. CASE \E src \in Srcs : body = Source(src)
    <3>1. body.lib = <<>>
      BY <2>1 DEF Source
    <3> QED
      BY <3>1, EmptyPartial
  <2>2. CASE \E g \in Fns : committed[g] # NoRow /\ body = committed[g].body
    BY <2>2 DEF OwnLibs
  <2>3. CASE body \in Entries
    BY <2>3 DEF EntriesCompiled
  <2> QED
    BY <2>1, <2>2, <2>3 DEF Submissions
<1>5. HasOwn(job[s])'
  BY <1>1, <1>2, <1>3, <1>4 DEF HasOwn
<1> QED
  BY <1>2, <1>5, OwnStep

LEMMA ProceedOwn ==
    ASSUME CompileInv, OwnLibs, NEW s \in Sessions, Proceed(s)
    PROVE  OwnLibs'
<1>0. TypeOK
  BY DEF CompileInv
<1>1. CASE \/ GenerateFails(s) \/ ProvisionFails(s) \/ ValidateFails(s)
           \/ SpawnFails(s) \/ ReadArtifactFails(s) \/ StoreFails(s)
           \/ CleanupFails(s) \/ Rollback(s)
  <2>1. Fail(s) /\ UNCHANGED <<targets, committed>>
    BY <1>1 DEF GenerateFails, ProvisionFails, ValidateFails, SpawnFails,
       ReadArtifactFails, StoreFails, CleanupFails, Rollback
  <2> QED
    BY <1>0, <2>1, FailOwn
<1>2. CASE Generate(s) \/ Provision(s) \/ Validate(s) \/ Spawn(s) \/ Cleanup(s)
  <2>1. Busy(s) /\ UNCHANGED <<targets, committed>> /\ \E pc \in Pcs : Goto(s, pc)
    BY <1>2 DEF Generate, Provision, Validate, Spawn, Cleanup, At, Pcs
  <2> QED
    BY <1>0, <2>1, GotoOwn
<1> QED
  BY <1>0, <1>1, <1>2, ReadArtifactOwn, StoreOwn, CommitOwn
  DEF Proceed, Prepare, Build, Finish

LEMMA CargoOwn ==
    ASSUME CompileInv, OwnLibs, NEW c \in cargos, Cargo(c)
    PROVE  OwnLibs'
<1>1. /\ TypeOK /\ UNCHANGED <<targets, committed>>
      /\ c.owner # Nobody => c.owner \in Sessions /\ Busy(c.owner)
  BY DEF CompileInv, TypeOK, CargosOK, OwnerOK, At, CargoProcess,
     Cargo, CargoStarts, CargoSucceeds, CargoFails
<1>2. CASE UNCHANGED job
  <2>1. Compiled' = Compiled
    BY <1>1 DEF Compiled
  <2> QED
    BY <1>1, <1>2, <2>1 DEF OwnLibs, HasOwn, Busy
<1>3. CASE c.owner # Nobody /\ CargoSucceeds(c)
  BY <1>1, <1>3, GotoOwn DEF CargoSucceeds, Pcs
<1>4. CASE c.owner # Nobody /\ CargoFails(c)
  BY <1>1, <1>4, FailOwn DEF CargoFails
<1> QED
  BY <1>2, <1>3, <1>4 DEF Cargo, CargoStarts, CargoSucceeds, CargoFails

LEMMA StepOwn ==
    ASSUME CompileInv, OwnLibs, EntriesCompiled, [Next]_vars, [NoTargetDropped]_vars
    PROVE  OwnLibs'
<1>1. ASSUME NEW s \in Sessions, NEW f \in Fns, Create(s, f) PROVE OwnLibs'
  BY <1>1, CreateOwn DEF CompileInv
<1>2. ASSUME NEW f \in Fns, NEW new \in Fns, CopyDatabase(f, new) PROVE OwnLibs'
  <2>1. /\ UNCHANGED <<targets, job>> /\ committed[f] # NoRow
        /\ \A g \in Fns : committed'[g] \in {committed[g], committed[f]}
    BY <1>2 DEF CopyDatabase, CompileInv, TypeOK
  <2>2. Compiled' = Compiled
    BY <2>1 DEF Compiled
  <2>3. \A g \in Fns : committed'[g] # NoRow => DOMAIN committed'[g].body.lib \subseteq Compiled'
    BY <2>1, <2>2 DEF OwnLibs
  <2>4. \A s \in Sessions : Busy(s)' => HasOwn(job[s])'
    BY <2>1, <2>2 DEF OwnLibs, HasOwn, Busy
  <2> QED
    BY <2>3, <2>4 DEF OwnLibs
<1>3. CASE Crash
  BY <1>3 DEF Crash, OwnLibs, Busy, Compiled
<1>4. CASE Restart
  <2>1. UNCHANGED <<committed, job>> /\ \A s \in Sessions : ~Busy(s)
    BY <1>4 DEF Restart
  <2>2. NoTargetDropped \/ Compiled' = Compiled
    BY DEF vars, Compiled
  <2>3. \A f \in Fns : committed'[f] # NoRow => DOMAIN committed'[f].body.lib \subseteq Compiled'
    BY <2>1, <2>2 DEF OwnLibs, NoTargetDropped
  <2> QED
    BY <2>1, <2>3 DEF OwnLibs, Busy
<1>5. CASE UNCHANGED vars
  <2>1. Compiled' = Compiled /\ UNCHANGED <<job, committed>>
    BY <1>5 DEF vars, Compiled
  <2> QED
    BY <2>1 DEF OwnLibs, HasOwn, Busy
<1> QED
  BY <1>1, <1>2, <1>3, <1>4, <1>5, ProceedOwn, CargoOwn DEF Next

\* As long as no restart takes a target out of plrust.compilation_targets, and no JSON
\* from elsewhere has other targets than those, what is committed has libraries of the
\* targets compiled now and no others, though entries are restored with all they have.
THEOREM TargetsKeptLibrariesOwn ==
    Spec /\ [][NoTargetDropped]_vars /\ []EntriesCompiled => OnlyOwnLibraries
<1>1. Init => OwnLibs
  BY DEF Init, OwnLibs, Busy
<1>2. CompileInv /\ TargetsKept /\ OwnLibs /\ [Next]_vars =>
        [\A s \in Sessions : Commit(s) =>
          \A target \in DOMAIN committed'[job[s].fn].body.lib :
              \E i \in DOMAIN CompilationTargets(job[s].config) :
                  CompilationTargets(job[s].config)[i] = target]_vars
  <2> SUFFICES ASSUME CompileInv, TargetsKept, OwnLibs, NEW s \in Sessions, Commit(s),
                      NEW target \in DOMAIN committed'[job[s].fn].body.lib
               PROVE  \E i \in DOMAIN CompilationTargets(job[s].config) :
                         CompilationTargets(job[s].config)[i] = target
    OBVIOUS
  <2>1. /\ TypeOK /\ Busy(s) /\ HasOwn(job[s])
        /\ job[s].fn \in Fns /\ job[s].config \in Configs
        /\ job[s].config.targets = targets
    BY JobFields DEF CompileInv, Commit, At, OwnLibs, TargetsKept
  <2>2. committed'[job[s].fn].body = job[s].body
    BY <2>1 DEF Commit, TypeOK
  <2>3. target \in Elements(CompilationTargets(job[s].config))
    BY <2>1, <2>2, CompiledFor DEF HasOwn
  <2>4. CompilationTargets(job[s].config) \in Seq(Targets)
    BY <2>1, TargetsOfCommand
  <2> QED
    BY <2>3, <2>4 DEF Elements
<1>3. CompileInv /\ OwnLibs /\ EntriesCompiled /\ [Next]_vars /\ [NoTargetDropped]_vars
        => OwnLibs'
  BY StepOwn
<1> QED
  BY <1>1, <1>2, <1>3, CompileInvariance, TargetsInvariance, PTL DEF Spec, OnlyOwnLibraries
============================================================================
