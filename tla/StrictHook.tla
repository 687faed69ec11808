----------------------------- MODULE StrictHook ----------------------------
(***************************************************************************)
(* Keeping a function's STRICT flag and its library in step (hooks.rs).    *)
(*                                                                         *)
(* The arguments of a PL/Rust function are T or Option<T> depending on     *)
(* whether it was STRICT when it was compiled, and Postgres decides by the *)
(* flag whether to call it with a NULL.  CREATE OR REPLACE compiles for    *)
(* the flag it sets.  ALTER FUNCTION would change the flag alone, so the   *)
(* ProcessUtility hook lets Postgres do it, looks the function up again    *)
(* and raises an ERROR that undoes it.                                     *)
(*                                                                         *)
(* Functions here have one name and one list of argument types, in         *)
(* different schemas: the name means the first that exists in search_path. *)
(***************************************************************************)
EXTENDS Integers, FiniteSets

CONSTANTS
    Sessions,        \* backends
    NumFns,          \* functions of that name, in search_path order
    MaxInstalls,     \* bound on the times the extension is installed
    HookMayAlter,    \* whether another ProcessUtility hook may rewrite statements
    InstallAnytime,  \* whether the extension comes and goes during ALTER FUNCTION
    NoFn,            \* no pg_proc row
    None             \* the session is not executing such a statement

ASSUME StrictHookAssumption ==
    /\ NumFns \in Nat /\ MaxInstalls \in Nat
    /\ HookMayAlter \in BOOLEAN /\ InstallAnytime \in BOOLEAN
    /\ None \notin 1..NumFns

Fns == 1..NumFns

\* Languages by oid: each installation of the extension makes a new one.
OtherLang == 0
Invalid == -1
Langs == 0..MaxInstalls

VARIABLES
    rows,       \* committed pg_proc rows
    installs,   \* how often the extension was installed
    installed,  \* whether it is now
    alters      \* per session, the ALTER FUNCTION it executes

vars == <<rows, installs, installed, alters>>

\* built: compiled with T rather than Option<T>, for a PL/Rust function.
Row == [lang : Langs, strict : BOOLEAN, built : BOOLEAN]

\* An ALTER FUNCTION: what plrust_lang_oid answered, what the statement lists,
\* and, once the previous hook has run, the row it made.
AlterStatement ==
    [stage : {"previous", "handle"}, lang : Langs \cup {Invalid},
     strict : {{}, {TRUE}, {FALSE}}, fn : Fns \cup {None}, row : Row \cup {NoFn}]

ASSUME RecordAssumption == NoFn \notin Row /\ None \notin AlterStatement

IsPlrust(f) == rows[f] # NoFn /\ rows[f].lang # OtherLang

PlrustLang == IF installed THEN installs ELSE Invalid

\* LookupFuncWithArgs.
Resolves(f) == rows[f] # NoFn /\ \A g \in Fns : rows[g] # NoFn => f <= g

Altering(s) == alters[s] # None
AtStage(s, stage) == Altering(s) /\ alters[s].stage = stage

\* The ALTER of s has updated the row of f and holds its lock.
Locks(s, f) == Altering(s) /\ alters[s].fn = f
Locked(f) == \E s \in Sessions : Locks(s, f)

----------------------------------------------------------------------------
(* Other statements, each committed at once.                               *)

MayInstall == InstallAnytime \/ \A s \in Sessions : ~Altering(s)

InstallExtension ==
    /\ MayInstall
    /\ ~installed /\ installs < MaxInstalls
    /\ installed' = TRUE
    /\ installs' = installs + 1
    /\ UNCHANGED <<rows, alters>>

\* DROP EXTENSION plrust CASCADE takes the functions along.
DropExtension ==
    /\ MayInstall
    /\ installed
    /\ \A f \in Fns : IsPlrust(f) => ~Locked(f)
    /\ installed' = FALSE
    /\ rows' = [f \in Fns |-> IF IsPlrust(f) THEN NoFn ELSE rows[f]]
    /\ UNCHANGED <<installs, alters>>

\* Mutant: a function whose language does not exist.
CreateOrReplaceUninstalled(f) ==
    /\ ~Locked(f)
    /\ \E strict \in BOOLEAN, lang \in {OtherLang, PlrustLang} :
          rows' = [rows EXCEPT ![f] = [lang |-> lang, strict |-> strict, built |-> strict]]
    /\ UNCHANGED <<installs, installed, alters>>

\* CREATE OR REPLACE FUNCTION, in any language: CrateVariant::function types
\* the arguments by the flag.
CreateOrReplace(f) ==
    /\ ~Locked(f)
    /\ \E strict \in BOOLEAN, lang \in {OtherLang, PlrustLang} \ {Invalid} :
          rows' = [rows EXCEPT ![f] = [lang |-> lang, strict |-> strict, built |-> strict]]
    /\ UNCHANGED <<installs, installed, alters>>

----------------------------------------------------------------------------
(* plrust_process_utility_hook on ALTER FUNCTION.                          *)

\* What the statement lists: the STRICT property, or something else.
Alter(s) ==
    /\ ~Altering(s)
    /\ \E strict \in {{}, {TRUE}, {FALSE}} :
          alters' = [alters EXCEPT
              ![s] = [stage |-> "previous", lang |-> PlrustLang, strict |-> strict,
                      fn |-> None, row |-> NoFn]]
    /\ UNCHANGED <<rows, installs, installed>>

\* The statements the hooks before ours may make of one.
Rewrites(strict) == {strict} \cup IF HookMayAlter THEN {{TRUE}, {FALSE}} ELSE {}

\* The row that a statement makes of row.
Altered(row, strict) ==
    IF strict = {} THEN row
    ELSE [row EXCEPT !.strict = CHOOSE value \in strict : TRUE]

\* Mutant: the statement is examined as it was before the previous hook.
CallPreviousUnseen(s) ==
    /\ AtStage(s, "previous")
    /\ \E f \in Fns, strict \in Rewrites(alters[s].strict) :
          /\ Resolves(f) /\ ~Locked(f)
          /\ alters' = [alters EXCEPT ![s].stage = "handle", ![s].fn = f,
                                      ![s].row = Altered(rows[f], strict)]
    /\ UNCHANGED <<rows, installs, installed>>

\* call_prev_hook: the statement, perhaps rewritten, updates the row, once
\* whoever else does has ended.
CallPrevious(s) ==
    /\ AtStage(s, "previous")
    /\ \E f \in Fns, strict \in Rewrites(alters[s].strict) :
          /\ Resolves(f) /\ ~Locked(f)
          /\ alters' = [alters EXCEPT
                ![s] = [stage |-> "handle", lang |-> alters[s].lang, strict |-> strict,
                        fn |-> f, row |-> Altered(rows[f], strict)]]
    /\ UNCHANGED <<rows, installs, installed>>

\* Mutant: the language is not looked at.
RefusesAnyLanguage(s) == alters[s].lang # Invalid /\ alters[s].strict # {}

\* handle_alter_function: whether the function the name means now is PL/Rust's
\* and the statement lists "strict".
Refuses(s) ==
    /\ alters[s].lang # Invalid
    /\ \E f \in Fns : Resolves(f) /\ rows[f].lang = alters[s].lang
    /\ alters[s].strict # {}

\* The update becomes visible at commit.
Complete(s) ==
    /\ AtStage(s, "handle")
    /\ ~Refuses(s)
    /\ rows' = [rows EXCEPT ![alters[s].fn] = alters[s].row]
    /\ alters' = [alters EXCEPT ![s] = None]
    /\ UNCHANGED <<installs, installed>>

Refuse(s) ==
    /\ AtStage(s, "handle")
    /\ Refuses(s)
    /\ alters' = [alters EXCEPT ![s] = None]
    /\ UNCHANGED <<rows, installs, installed>>

\* Another ERROR.
Abort(s) ==
    /\ Altering(s)
    /\ alters' = [alters EXCEPT ![s] = None]
    /\ UNCHANGED <<rows, installs, installed>>

----------------------------------------------------------------------------
Init ==
    /\ rows = [f \in Fns |-> NoFn]
    /\ installs = 0
    /\ installed = FALSE
    /\ alters = [s \in Sessions |-> None]

Next ==
    \/ InstallExtension \/ DropExtension
    \/ \E f \in Fns : CreateOrReplace(f)
    \/ \E s \in Sessions :
          Alter(s) \/ CallPrevious(s) \/ Complete(s) \/ Refuse(s) \/ Abort(s)

Spec == Init /\ [][Next]_vars

\* What the hook takes for granted of everyone else.  The extension is not installed
\* during an ALTER FUNCTION, and between the update and the second lookup no function
\* of the name appears earlier in search_path.
Quiet ==
    /\ installs' # installs => \A s \in Sessions : ~Altering(s)
    /\ \A s \in Sessions : AtStage(s, "handle") =>
          \A f \in Fns : f < alters[s].fn /\ rows[f] = NoFn => rows'[f] = NoFn

QuietSpec == Init /\ [][Next /\ Quiet]_vars

----------------------------------------------------------------------------
(* Properties.                                                             *)

\* Every variable keeps its shape.
TypeOK ==
    /\ rows \in [Fns -> Row \cup {NoFn}]
    /\ installs \in 0..MaxInstalls
    /\ installed \in BOOLEAN
    /\ alters \in [Sessions -> AlterStatement \cup {None}]

\* The hook is to "block any attempted change to the `STRICT` property"
\* (hooks.rs:174) of a PL/Rust function: its flag is the one it was compiled for,
\* whatever other hooks, sessions and statements do.
StrictMatchesBuild == \A f \in Fns : IsPlrust(f) => rows[f].strict = rows[f].built

\* The hook refuses nothing but changes to PL/Rust functions.
OnlyPlrustRefused == [][\A s \in Sessions : Refuse(s) => IsPlrust(alters[s].fn)]_vars
============================================================================
