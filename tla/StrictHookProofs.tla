-------------------------- MODULE StrictHookProofs -------------------------
(***************************************************************************)
(* The STRICT flag of a PL/Rust function stays the one it was compiled     *)
(* for, with any number of sessions, functions of one name, other hooks    *)
(* and installations, as long as the rest of the system is Quiet.          *)
(***************************************************************************)
EXTENDS StrictHook, TLAPS

\* The row of a PL/Rust function is of the language as it is installed now.
CurrentLang ==
    /\ installed => installs > 0
    /\ \A f \in Fns : IsPlrust(f) => installed /\ rows[f].lang = installs

\* A statement in execution knows the language, if there is one; once it has updated a
\* row, the name still means that row, and it holds what it makes of it.
StatementOK(s) ==
    Altering(s) =>
        /\ installed => alters[s].lang = installs
        /\ alters[s].lang # Invalid => alters[s].lang = installs /\ installs > 0
        /\ alters[s].stage = "previous" => alters[s].fn = None
        /\ alters[s].stage = "handle" =>
              /\ alters[s].fn \in Fns
              /\ Resolves(alters[s].fn)
              /\ alters[s].row = Altered(rows[alters[s].fn], alters[s].strict)

\* A row is locked by one statement.
Exclusive ==
    \A s, t \in Sessions : \A f \in Fns : Locks(s, f) /\ Locks(t, f) => s = t

HookInv ==
    /\ TypeOK
    /\ CurrentLang
    /\ \A s \in Sessions : StatementOK(s)
    /\ Exclusive
    /\ StrictMatchesBuild

LEMMA AlteredType ==
    ASSUME NEW row \in Row, NEW strict \in {{}, {TRUE}, {FALSE}}
    PROVE  Altered(row, strict) \in Row /\ Altered(row, strict).lang = row.lang
<1>1. CASE strict = {}
  BY <1>1 DEF Altered
<1>2. CASE strict # {}
  <2>1. (CHOOSE value \in strict : TRUE) \in BOOLEAN
    BY <1>2
  <2> QED
    BY <1>2, <2>1 DEF Altered, Row
<1> QED
  BY <1>1, <1>2

\* The name means one function.
LEMMA ResolvesOnce ==
    ASSUME NEW f \in Fns, NEW g \in Fns, Resolves(f), Resolves(g)
    PROVE  f = g
<1>1. f <= g /\ g <= f
  BY DEF Resolves
<1> QED
  BY <1>1, StrictHookAssumption DEF Fns

\* A statement whose row nobody touches stays sound, unless the extension is installed
\* meanwhile or an earlier function of the name appears.
LEMMA StatementFrame ==
    ASSUME HookInv, NEW t \in Sessions, alters'[t] = alters[t],
           installs' = installs, installed' => installed,
           AtStage(t, "handle") =>
              /\ rows'[alters[t].fn] = rows[alters[t].fn]
              /\ \A f \in Fns : f < alters[t].fn /\ rows[f] = NoFn => rows'[f] = NoFn
    PROVE  StatementOK(t)'
<1> SUFFICES ASSUME Altering(t)'
             PROVE  /\ installed' => alters[t].lang = installs
                    /\ alters[t].lang # Invalid => alters[t].lang = installs /\ installs > 0
                    /\ alters[t].stage = "previous" => alters[t].fn = None
                    /\ alters[t].stage = "handle" =>
                          /\ alters[t].fn \in Fns
                          /\ Resolves(alters[t].fn)'
                          /\ alters[t].row = Altered(rows'[alters[t].fn], alters[t].strict)
  BY DEF StatementOK, Resolves, Altered
<1>1. Altering(t) /\ StatementOK(t)
  BY DEF HookInv, Altering
<1>2. ASSUME alters[t].stage = "handle"
      PROVE  Resolves(alters[t].fn)'
  <2>1. /\ alters[t].fn \in Fns /\ rows[alters[t].fn] # NoFn
        /\ \A g \in Fns : rows[g] # NoFn => alters[t].fn <= g
        /\ rows'[alters[t].fn] = rows[alters[t].fn]
        /\ \A f \in Fns : f < alters[t].fn /\ rows[f] = NoFn => rows'[f] = NoFn
    BY <1>1, <1>2 DEF StatementOK, Resolves, AtStage
  <2>2. \A g \in Fns : ~(alters[t].fn <= g) => g < alters[t].fn
    BY <2>1, StrictHookAssumption DEF Fns
  <2> QED
    BY <2>1, <2>2 DEF Resolves
<1> QED
  BY <1>1, <1>2 DEF StatementOK, AtStage

\* A statement that ends, in whatever way that leaves the rows alone.
LEMMA EndKeeps ==
    ASSUME HookInv, NEW s \in Sessions, alters' = [alters EXCEPT ![s] = None],
           UNCHANGED <<rows, installs, installed>>
    PROVE  HookInv'
<1>1. TypeOK'
  BY DEF HookInv, TypeOK
<1>2. ~Altering(s)' /\ \A t \in Sessions : t # s => alters'[t] = alters[t]
  BY DEF HookInv, TypeOK, Altering
<1>3. \A t \in Sessions : StatementOK(t)'
  <2>1. StatementOK(s)'
    BY <1>2 DEF StatementOK
  <2>2. ASSUME NEW t \in Sessions, t # s  PROVE StatementOK(t)'
    BY <1>2, <2>2, StatementFrame
  <2> QED
    BY <2>1, <2>2
<1>4. Exclusive'
  BY <1>2 DEF HookInv, Exclusive, Locks, Altering
<1>5. CurrentLang' /\ StrictMatchesBuild'
  BY DEF HookInv, CurrentLang, StrictMatchesBuild, IsPlrust
<1> QED
  BY <1>1, <1>3, <1>4, <1>5 DEF HookInv

LEMMA InstallKeeps ==
    ASSUME HookInv, Quiet, InstallExtension
    PROVE  HookInv'
<1>1. /\ ~installed /\ installed' = TRUE /\ installs < MaxInstalls /\ installs' = installs + 1
      /\ rows' = rows /\ alters' = alters /\ installs \in Nat
  BY DEF InstallExtension, HookInv, TypeOK
<1>2. \A s \in Sessions : ~Altering(s)
  BY <1>1 DEF Quiet
<1>3. \A f \in Fns : ~IsPlrust(f)
  BY <1>1 DEF HookInv, CurrentLang
<1>4. TypeOK'
  BY <1>1, StrictHookAssumption DEF HookInv, TypeOK
<1>5. \A f \in Fns : ~IsPlrust(f)'
  BY <1>1, <1>3 DEF IsPlrust
<1>6. \A s \in Sessions : ~Altering(s)'
  BY <1>1, <1>2 DEF Altering
<1>7. installs' > 0
  BY <1>1
<1> QED
  BY <1>4, <1>5, <1>6, <1>7
  DEF HookInv, CurrentLang, StatementOK, Exclusive, Locks, StrictMatchesBuild

LEMMA DropKeeps ==
    ASSUME HookInv, Quiet, DropExtension
    PROVE  HookInv'
<1>1. /\ installed' = FALSE /\ installs' = installs /\ alters' = alters
      /\ rows' = [f \in Fns |-> IF IsPlrust(f) THEN NoFn ELSE rows[f]]
      /\ \A f \in Fns : IsPlrust(f) => ~Locked(f)
  BY DEF DropExtension
<1>2. TypeOK'
  BY <1>1 DEF HookInv, TypeOK
<1>3. \A f \in Fns : ~IsPlrust(f)'
  BY <1>1 DEF IsPlrust
<1>4. ASSUME NEW t \in Sessions  PROVE StatementOK(t)'
  <2>1. AtStage(t, "handle") => rows'[alters[t].fn] = rows[alters[t].fn]
    BY <1>1 DEF HookInv, StatementOK, AtStage, Locked, Locks
  <2> QED
    BY <1>1, <2>1, StatementFrame DEF Quiet
<1>5. Exclusive'
  BY <1>1 DEF HookInv, Exclusive, Locks, Altering
<1> QED
  BY <1>1, <1>2, <1>3, <1>4, <1>5 DEF HookInv, CurrentLang, StrictMatchesBuild

LEMMA CreateKeeps ==
    ASSUME HookInv, Quiet, NEW f \in Fns, CreateOrReplace(f)
    PROVE  HookInv'
<1>1. PICK strict \in BOOLEAN, lang \in {OtherLang, PlrustLang} \ {Invalid} :
        rows' = [rows EXCEPT ![f] = [lang |-> lang, strict |-> strict, built |-> strict]]
  BY DEF CreateOrReplace
<1>2. /\ ~Locked(f)
      /\ UNCHANGED <<installs, installed, alters>>
  BY DEF CreateOrReplace
<1> DEFINE r == [lang |-> lang, strict |-> strict, built |-> strict]
<1>3. lang = OtherLang \/ (installed /\ lang = installs)
  BY DEF PlrustLang
<1>4. r \in Row
  BY <1>3, StrictHookAssumption DEF HookInv, TypeOK, Row, Langs, OtherLang
<1>5. rows'[f] = r /\ \A g \in Fns : g # f => rows'[g] = rows[g]
  BY <1>1 DEF HookInv, TypeOK
<1>6. TypeOK'
  BY <1>1, <1>2, <1>4 DEF HookInv, TypeOK
<1>7. CurrentLang'
  <2>1. IsPlrust(f)' => installed' /\ rows'[f].lang = installs'
    BY <1>2, <1>3, <1>5 DEF IsPlrust
  <2> QED
    BY <1>2, <1>5, <2>1 DEF HookInv, CurrentLang, IsPlrust
<1>8. ASSUME NEW t \in Sessions  PROVE StatementOK(t)'
  <2>1. AtStage(t, "handle") => rows'[alters[t].fn] = rows[alters[t].fn]
    BY <1>2, <1>5 DEF HookInv, StatementOK, AtStage, Locked, Locks
  <2> QED
    BY <1>2, <2>1, StatementFrame DEF Quiet
<1>9. Exclusive'
  BY <1>2 DEF HookInv, Exclusive, Locks, Altering
<1>10. StrictMatchesBuild'
  BY <1>5 DEF HookInv, StrictMatchesBuild, IsPlrust
<1> QED
  BY <1>6, <1>7, <1>8, <1>9, <1>10 DEF HookInv

LEMMA AlterKeeps ==
    ASSUME HookInv, NEW s \in Sessions, Alter(s)
    PROVE  HookInv'
<1>1. PICK strict \in {{}, {TRUE}, {FALSE}} :
        alters' = [alters EXCEPT
            ![s] = [stage |-> "previous", lang |-> PlrustLang, strict |-> strict,
                    fn |-> None, row |-> NoFn]]
  BY DEF Alter
<1>2. UNCHANGED <<rows, installs, installed>>
  BY DEF Alter
<1> DEFINE a == [stage |-> "previous", lang |-> PlrustLang, strict |-> strict,
                 fn |-> None, row |-> NoFn]
<1>3. PlrustLang \in Langs \cup {Invalid}
  BY DEF HookInv, TypeOK, PlrustLang, Langs
<1>4. a \in AlterStatement
  BY <1>3 DEF AlterStatement
<1>5. alters'[s] = a /\ \A t \in Sessions : t # s => alters'[t] = alters[t]
  BY <1>1 DEF HookInv, TypeOK
<1>6. TypeOK'
  BY <1>1, <1>2, <1>4 DEF HookInv, TypeOK
<1>7. StatementOK(s)'
  BY <1>2, <1>5 DEF StatementOK, PlrustLang, HookInv, CurrentLang
<1>8. ASSUME NEW t \in Sessions, t # s  PROVE StatementOK(t)'
  BY <1>2, <1>5, <1>8, StatementFrame
<1>9. Exclusive'
  <2>1. \A f \in Fns : ~Locks(s, f)'
    BY <1>5, StrictHookAssumption DEF Locks, Fns
  <2> QED
    BY <2>1, <1>5 DEF HookInv, Exclusive, Locks, Altering
<1>10. CurrentLang' /\ StrictMatchesBuild'
  BY <1>2 DEF HookInv, CurrentLang, StrictMatchesBuild, IsPlrust
<1> QED
  BY <1>6, <1>7, <1>8, <1>9, <1>10 DEF HookInv

LEMMA CallPreviousKeeps ==
    ASSUME HookInv, NEW s \in Sessions, CallPrevious(s)
    PROVE  HookInv'
<1>1. PICK f \in Fns, strict \in Rewrites(alters[s].strict) :
        /\ Resolves(f) /\ ~Locked(f)
        /\ alters' = [alters EXCEPT
              ![s] = [stage |-> "handle", lang |-> alters[s].lang, strict |-> strict,
                      fn |-> f, row |-> Altered(rows[f], strict)]]
  BY DEF CallPrevious
<1>2. UNCHANGED <<rows, installs, installed>> /\ Altering(s)
  BY DEF CallPrevious, AtStage
<1>3. alters[s] \in AlterStatement
  BY <1>2 DEF HookInv, TypeOK, Altering
<1>4. strict \in {{}, {TRUE}, {FALSE}}
  BY <1>1, <1>3 DEF Rewrites, AlterStatement
<1>5. rows[f] # NoFn /\ rows[f] \in Row
  BY <1>1 DEF Resolves, HookInv, TypeOK
<1> DEFINE row == Altered(rows[f], strict)
<1> DEFINE a == [stage |-> "handle", lang |-> alters[s].lang, strict |-> strict,
                 fn |-> f, row |-> row]
<1>6. row \in Row
  BY <1>4, <1>5, AlteredType
<1>7. a \in AlterStatement
  <2> HIDE DEF row
  <2> QED
    BY <1>3, <1>4, <1>6 DEF AlterStatement
<1>8. alters' = [alters EXCEPT ![s] = a]
  BY <1>1
<1>9. alters'[s] = a /\ \A t \in Sessions : t # s => alters'[t] = alters[t]
  BY <1>8 DEF HookInv, TypeOK
<1>10. TypeOK'
  BY <1>2, <1>7, <1>8 DEF HookInv, TypeOK
<1>11. StatementOK(s)'
  <2>1. StatementOK(s)
    BY DEF HookInv
  <2>2. Resolves(f)'
    BY <1>1, <1>2 DEF Resolves
  <2> QED
    BY <1>2, <1>9, <2>1, <2>2 DEF StatementOK, Altered
<1>12. ASSUME NEW t \in Sessions, t # s  PROVE StatementOK(t)'
  BY <1>2, <1>9, <1>12, StatementFrame
<1>13. Exclusive'
  <2>1. \A t \in Sessions : t # s => ~Locks(t, f)'
    BY <1>1, <1>9 DEF Locked, Locks, Altering
  <2>2. \A g \in Fns : g # f => ~Locks(s, g)'
    BY <1>9 DEF Locks
  <2>3. \A t \in Sessions, g \in Fns : t # s /\ Locks(t, g)' => Locks(t, g)
    BY <1>9 DEF Locks, Altering
  <2> QED
    BY <2>1, <2>2, <2>3 DEF HookInv, Exclusive
<1>14. CurrentLang' /\ StrictMatchesBuild'
  BY <1>2 DEF HookInv, CurrentLang, StrictMatchesBuild, IsPlrust
<1> QED
  BY <1>10, <1>11, <1>12, <1>13, <1>14 DEF HookInv

\* An update that the hook lets pass: the row is not PL/Rust's, or unchanged.
LEMMA CompleteKeeps ==
    ASSUME HookInv, Quiet, NEW s \in Sessions, Complete(s)
    PROVE  HookInv'
<1> DEFINE f == alters[s].fn
<1>1. /\ AtStage(s, "handle") /\ ~Refuses(s)
      /\ rows' = [rows EXCEPT ![f] = alters[s].row]
      /\ alters' = [alters EXCEPT ![s] = None]
      /\ UNCHANGED <<installs, installed>>
  BY DEF Complete
<1>2. /\ installed => alters[s].lang = installs
      /\ f \in Fns /\ Resolves(f) /\ rows[f] # NoFn
      /\ alters[s].row = Altered(rows[f], alters[s].strict)
  BY <1>1 DEF HookInv, StatementOK, AtStage, Resolves
<1>3. alters[s].strict \in {{}, {TRUE}, {FALSE}}
  BY <1>1 DEF HookInv, TypeOK, AtStage, Altering, AlterStatement
<1>4. rows[f] \in Row /\ alters[s].row \in Row /\ alters[s].row.lang = rows[f].lang
  <2>1. rows[f] \in Row
    BY <1>2 DEF HookInv, TypeOK
  <2> QED
    BY <1>2, <1>3, <2>1, AlteredType
<1>5. IsPlrust(f) => alters[s].row = rows[f]
  <2> SUFFICES ASSUME IsPlrust(f) PROVE alters[s].row = rows[f]
    OBVIOUS
  <2>1. alters[s].lang = installs /\ rows[f].lang = alters[s].lang
    BY <1>2 DEF HookInv, CurrentLang
  <2>2. alters[s].lang # Invalid
    BY <2>1 DEF HookInv, TypeOK, Invalid
  <2>3. alters[s].strict = {}
    BY <1>1, <1>2, <2>1, <2>2 DEF Refuses
  <2> QED
    BY <1>2, <2>3 DEF Altered
<1>6. rows'[f] = alters[s].row /\ \A g \in Fns : g # f => rows'[g] = rows[g]
  BY <1>1, <1>2 DEF HookInv, TypeOK
<1>7. \A g \in Fns : IsPlrust(g)' => IsPlrust(g) /\ rows'[g] = rows[g]
  BY <1>2, <1>4, <1>5, <1>6 DEF IsPlrust
<1>8. TypeOK'
  BY <1>1, <1>4 DEF HookInv, TypeOK
<1>9. CurrentLang' /\ StrictMatchesBuild'
  BY <1>1, <1>7 DEF HookInv, CurrentLang, StrictMatchesBuild
<1>10. ~Altering(s)' /\ \A t \in Sessions : t # s => alters'[t] = alters[t]
  BY <1>1 DEF HookInv, TypeOK, Altering
<1>11. ASSUME NEW t \in Sessions  PROVE StatementOK(t)'
  <2>1. CASE t = s
    BY <1>10, <2>1 DEF StatementOK
  <2>2. CASE t # s
    <3>1. AtStage(t, "handle") => alters[t].fn \in Fns /\ alters[t].fn # f
      BY <1>1, <1>2, <2>2 DEF HookInv, StatementOK, Exclusive, Locks, AtStage
    <3>2. AtStage(t, "handle") => rows'[alters[t].fn] = rows[alters[t].fn]
      BY <1>6, <3>1
    <3> QED
      BY <1>1, <1>10, <2>2, <3>2, StatementFrame DEF Quiet
  <2> QED
    BY <2>1, <2>2
<1>12. Exclusive'
  BY <1>10 DEF HookInv, Exclusive, Locks, Altering
<1> QED
  BY <1>8, <1>9, <1>11, <1>12 DEF HookInv

LEMMA HookInit == Init => HookInv
<1> SUFFICES ASSUME Init PROVE HookInv
  OBVIOUS
<1>1. /\ \A f \in Fns : rows[f] = NoFn
      /\ \A s \in Sessions : alters[s] = None
      /\ installed = FALSE
  BY DEF Init
<1>2. TypeOK
  <2>1. 0 \in 0..MaxInstalls
    BY StrictHookAssumption
  <2> QED
    BY <2>1 DEF Init, TypeOK
<1> QED
  BY <1>1, <1>2 DEF HookInv, CurrentLang, StatementOK, Exclusive, Locks, Altering,
                    StrictMatchesBuild, IsPlrust

LEMMA HookStep == HookInv /\ [Next /\ Quiet]_vars => HookInv'
<1> SUFFICES ASSUME HookInv, [Next /\ Quiet]_vars
             PROVE  HookInv'
  OBVIOUS
<1>1. CASE Quiet /\ (InstallExtension \/ DropExtension)
  BY <1>1, InstallKeeps, DropKeeps
<1>2. ASSUME Quiet, NEW f \in Fns, CreateOrReplace(f)
      PROVE  HookInv'
  BY <1>2, CreateKeeps
<1>3. ASSUME NEW s \in Sessions, Alter(s)
      PROVE  HookInv'
  BY <1>3, AlterKeeps
<1>4. ASSUME NEW s \in Sessions, CallPrevious(s)
      PROVE  HookInv'
  BY <1>4, CallPreviousKeeps
<1>5. ASSUME Quiet, NEW s \in Sessions, Complete(s)
      PROVE  HookInv'
  BY <1>5, CompleteKeeps
<1>6. ASSUME NEW s \in Sessions, Refuse(s) \/ Abort(s)
      PROVE  HookInv'
  BY <1>6, EndKeeps DEF Refuse, Abort
<1>7. CASE UNCHANGED vars
  BY <1>7 DEF vars, HookInv, TypeOK, CurrentLang, StatementOK, Exclusive, Locks,
              Altering, StrictMatchesBuild, IsPlrust, Resolves, Altered
<1> QED
  BY <1>1, <1>2, <1>3, <1>4, <1>5, <1>6, <1>7 DEF Next

\* Rows, statements and the installed language stay in step.
THEOREM HookInvariance == QuietSpec => []HookInv
  BY HookInit, HookStep, PTL DEF QuietSpec

\* The STRICT flag of a PL/Rust function is the one it was compiled for: no statement,
\* nor any hook that rewrites it, changes the one without the other.
THEOREM StrictStaysAsBuilt == QuietSpec => []StrictMatchesBuild
<1>1. HookInv => StrictMatchesBuild
  BY DEF HookInv
<1> QED
  BY <1>1, HookInvariance, PTL

\* Every variable keeps its shape: in particular what a statement in execution
\* holds of a row is a row.
THEOREM TypeCorrect == QuietSpec => []TypeOK
<1>1. HookInv => TypeOK
  BY DEF HookInv
<1> QED
  BY <1>1, HookInvariance, PTL

\* Only ALTER FUNCTION on a PL/Rust function is refused.
THEOREM OthersAreNotRefused == QuietSpec => OnlyPlrustRefused
<1>1. HookInv /\ [Next /\ Quiet]_vars =>
        [\A s \in Sessions : Refuse(s) => IsPlrust(alters[s].fn)]_vars
  <2> SUFFICES ASSUME HookInv, NEW s \in Sessions, Refuse(s)
               PROVE  IsPlrust(alters[s].fn)
    OBVIOUS
  <2>1. /\ alters[s].fn \in Fns /\ Resolves(alters[s].fn) /\ rows[alters[s].fn] # NoFn
        /\ alters[s].lang # Invalid => alters[s].lang = installs /\ installs > 0
    BY DEF HookInv, StatementOK, Refuse, AtStage, Resolves
  <2>2. PICK f \in Fns : Resolves(f) /\ rows[f].lang = alters[s].lang
    BY DEF Refuse, Refuses
  <2>3. f = alters[s].fn
    BY <2>1, <2>2, ResolvesOnce
  <2>4. alters[s].lang # Invalid
    BY DEF Refuse, Refuses
  <2>5. alters[s].lang # OtherLang
    BY <2>1, <2>4 DEF HookInv, TypeOK, OtherLang
  <2> QED
    BY <2>1, <2>2, <2>3, <2>5 DEF IsPlrust
<1> QED
  BY <1>1, HookInvariance, PTL DEF QuietSpec, OnlyPlrustRefused

\* Where the name means one function and the extension stays as it is during an ALTER
\* FUNCTION, every behaviour is quiet, and nothing is left to take for granted.
THEOREM OneFunctionIsQuiet ==
    ASSUME NumFns = 1, ~InstallAnytime
    PROVE  Spec => QuietSpec /\ []StrictMatchesBuild
<1>1. HookInv /\ Next => Quiet
  <2> SUFFICES ASSUME HookInv, Next  PROVE Quiet
    OBVIOUS
  <2>1. installs' # installs => InstallExtension
    BY DEF Next, InstallExtension, DropExtension, CreateOrReplace, Alter, CallPrevious,
           Complete, Refuse, Abort
  <2>2. InstallExtension => \A s \in Sessions : ~Altering(s)
    BY DEF InstallExtension, MayInstall
  <2>3. ASSUME NEW s \in Sessions, AtStage(s, "handle"), NEW f \in Fns, f < alters[s].fn
        PROVE  FALSE
    BY <2>3 DEF HookInv, StatementOK, AtStage, Fns
  <2> QED
    BY <2>1, <2>2, <2>3 DEF Quiet
<1>2. HookInv /\ [Next]_vars => [Next /\ Quiet]_vars
  BY <1>1
<1>3. HookInv => StrictMatchesBuild
  BY DEF HookInv
<1> QED
  BY <1>2, <1>3, HookInit, HookStep, PTL DEF Spec, QuietSpec
============================================================================
