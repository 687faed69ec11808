--------------------------- MODULE FnCallsProofs ---------------------------
(***************************************************************************)
(* FnCache implements FnCalls, for any number of sessions, functions,      *)
(* libraries and nested calls.                                             *)
(*                                                                         *)
(* A handle that a frame holds is mapped before and after every step       *)
(* (SessionOK, on both sides), and no step changes the row of a handle     *)
(* that is mapped on both sides (RowsStay): so a frame that stays keeps    *)
(* its version.  A frame that is pushed runs what its session sees         *)
(* (EvaluateRunsVisible), which rests on VersionInv.                       *)
(*                                                                         *)
(* The last part is about iterators: what of a function is in use is one   *)
(* library, the one the next call runs (Settled), until it is redefined.   *)
(***************************************************************************)
EXTENDS FnCacheVersionProofs

----------------------------------------------------------------------------
(* Sequences.                                                              *)

LEMMA SequenceOver ==
  ASSUME NEW q, NEW r, NEW S, NEW T, q \in Seq(S), r \in [DOMAIN q -> T]
  PROVE  r \in Seq(T) /\ Len(r) = Len(q)
<1>1. DOMAIN q = 1..Len(q) /\ Len(q) \in Nat
  OBVIOUS
<1>2. r \in Seq(T)
  BY <1>1, SeqDef
<1>3. Len(r) \in Nat /\ DOMAIN r = 1..Len(r)
  BY <1>2, LenProperties
<1> QED
  BY <1>1, <1>2, <1>3

LEMMA SameAppend ==
  ASSUME NEW S, NEW q \in Seq(S), NEW e \in S, NEW r \in Seq(S),
         Len(r) = Len(q) + 1, r[Len(q) + 1] = e,
         \A i \in DOMAIN q : r[i] = q[i]
  PROVE  r = Append(q, e)
<1>1. /\ Append(q, e) \in Seq(S) /\ Len(Append(q, e)) = Len(q) + 1
      /\ \A i \in 1..Len(q) : Append(q, e)[i] = q[i]
      /\ Append(q, e)[Len(q) + 1] = e
  BY AppendProperties
<1>2. DOMAIN q = 1..Len(q) /\ Len(q) \in Nat
  OBVIOUS
<1>3. \A i \in 1..Len(r) : i \in 1..Len(q) \/ i = Len(q) + 1
  BY <1>2
<1>4. \A i \in 1..Len(r) : r[i] = Append(q, e)[i]
  BY <1>1, <1>2, <1>3
<1> QED
  BY <1>1, <1>4, SeqEqual

LEMMA SameFront ==
  ASSUME NEW S, NEW q \in Seq(S), NEW r \in Seq(S), NEW n \in 0..Len(q),
         Len(r) = n, \A i \in DOMAIN r : r[i] = q[i]
  PROVE  r = SubSeq(q, 1, n)
<1>1. Len(q) \in Nat /\ DOMAIN r = 1..n
  OBVIOUS
<1> DEFINE p == SubSeq(q, 1, n)
<1>2. p \in Seq(S) /\ Len(p) = n /\ \A i \in 1..n : p[i] = q[i]
  BY <1>1
<1> HIDE DEF p
<1>3. p = r
  BY <1>1, <1>2, SeqEqual
<1> QED
  BY <1>3 DEF p

----------------------------------------------------------------------------
(* What the sessions see and run.                                          *)

Version == {{}} \cup {{v} : v \in Codes \X CompileLints}
FrameRun == [fn : Fns, version : Version]

LEMMA VersionOfType ==
  ASSUME NEW row \in Row \cup {Gone}
  PROVE  VersionOf(row) \in Version
  BY DEF VersionOf, Version, Content, Row

LEMMA SeenTyped ==
  VersionInv => \A s \in Sessions : SeenBy(s) \in Calls!Definitions
<1> SUFFICES ASSUME VersionInv, NEW s \in Sessions
             PROVE  SeenBy(s) \in Calls!Definitions
  OBVIOUS
<1>1. TypeOK
  BY RcInvParts DEF VersionInv
<1>2. \A f \in Fns : VersionOf(Visible(s, f)) \in Version
  BY <1>1, VisibleType, VersionOfType
<1> QED
  BY <1>2 DEF SeenBy, Calls!Definitions, Version

\* A frame runs the version of its library, which is mapped.
RunsLibrary(s) ==
    \A i \in DOMAIN frames[s] :
        /\ frames[s][i].lib \in Libs
        /\ libs[s][frames[s][i].lib] # Closed
        /\ Running(s, frames[s][i]) =
              [fn |-> frames[s][i].fn,
               version |-> {Content(libs[s][frames[s][i].lib].row)}]

RunTyped(s) ==
    /\ RunsLibrary(s)
    /\ RunBy(s) \in Seq(FrameRun)
    /\ Len(RunBy(s)) = Len(frames[s])
    /\ Len(frames[s]) \in Nat
    /\ DOMAIN RunBy(s) = DOMAIN frames[s]

LEMMA RunsTyped == VersionInv => \A s \in Sessions : RunTyped(s)
<1> SUFFICES ASSUME VersionInv, NEW s \in Sessions
             PROVE  RunTyped(s)
  OBVIOUS
<1>1. /\ frames[s] \in Seq(FrameType)
      /\ libs[s] \in [Libs -> Library \cup {Closed}]
      /\ SessionOK(libs[s], cache[s], frames[s])
  BY DEF VersionInv, RcInv, LoaderInv
<1>2. ASSUME NEW i \in DOMAIN frames[s]
      PROVE  /\ frames[s][i].lib \in Libs /\ frames[s][i].fn \in Fns
             /\ libs[s][frames[s][i].lib] # Closed
             /\ libs[s][frames[s][i].lib].row \in Row
  <2>1. frames[s][i].lib \in Libs /\ frames[s][i].fn \in Fns
    BY <1>1, FrameLib
  <2>2. libs[s][frames[s][i].lib] # Closed
    BY <1>1 DEF SessionOK
  <2>3. libs[s][frames[s][i].lib] \in Library
    BY <1>1, <2>1, <2>2
  <2> QED
    BY <2>1, <2>2, <2>3 DEF Library
<1>3. RunsLibrary(s)
  BY <1>2, RowAssumption DEF RunsLibrary, Running, VersionOf
<1>4. ASSUME NEW i \in DOMAIN frames[s] PROVE Running(s, frames[s][i]) \in FrameRun
  <2> DEFINE row == libs[s][frames[s][i].lib].row
  <2>1. row \in Row /\ frames[s][i].fn \in Fns
    BY <1>2
  <2>2. Content(row) \in Codes \X CompileLints
    BY <2>1 DEF Content, Row
  <2>3. Running(s, frames[s][i]) = [fn |-> frames[s][i].fn, version |-> {Content(row)}]
    BY <1>3 DEF RunsLibrary
  <2> HIDE DEF row
  <2> QED
    BY <2>1, <2>2, <2>3 DEF FrameRun, Version
<1>5. RunBy(s) \in [DOMAIN frames[s] -> FrameRun]
  BY <1>4 DEF RunBy
<1>6. RunBy(s) \in Seq(FrameRun) /\ Len(RunBy(s)) = Len(frames[s])
  BY <1>1, <1>5, SequenceOver
<1>7. Len(frames[s]) \in Nat /\ DOMAIN RunBy(s) = DOMAIN frames[s]
  BY <1>1 DEF RunBy
<1> QED
  BY <1>3, <1>6, <1>7 DEF RunTyped

----------------------------------------------------------------------------
(* A step of session s, from what it does to the rows and the frames of s. *)

Apart(s) ==
    \A t \in Sessions \ {s} : /\ xact'[t] = xact[t] /\ view'[t] = view[t]
                              /\ libs'[t] = libs[t] /\ frames'[t] = frames[t]

\* No handle comes to mean another library while it is mapped.
RowsStay(s) ==
    \A l \in Libs :
        libs[s][l] # Closed /\ libs'[s][l] # Closed => libs'[s][l].row = libs[s][l].row

\* The frames that are left are as they were.
Shrinks(s) ==
    \A i \in DOMAIN frames'[s] : i \in DOMAIN frames[s] /\ frames'[s][i] = frames[s][i]

LEMMA ApartAlone ==
  ASSUME NEW s \in Sessions, Apart(s)
  PROVE  Calls!Alone(s)
<1>1. ASSUME NEW t \in Sessions \ {s}
      PROVE  SeenBy(t)' = SeenBy(t) /\ RunBy(t)' = RunBy(t)
  <2>1. /\ xact'[t] = xact[t] /\ view'[t] = view[t]
        /\ libs'[t] = libs[t] /\ frames'[t] = frames[t]
    BY DEF Apart
  <2>2. \A f \in Fns : Visible(t, f)' = Visible(t, f)
    BY <2>1 DEF Visible, Wrote, InXact, Top
  <2> QED
    BY <2>1, <2>2 DEF SeenBy, RunBy, Running, VersionOf
<1> QED
  BY <1>1 DEF Calls!Alone

LEMMA KeepsRowsStay ==
  ASSUME NEW s \in Sessions, KeepsRows(libs'[s], libs[s])
  PROVE  RowsStay(s)
  BY DEF KeepsRows, RowsStay

LEMMA FrameKeepsVersion ==
  ASSUME NEW s \in Sessions, RunTyped(s), RunTyped(s)', RowsStay(s),
         NEW i \in DOMAIN frames[s], i \in DOMAIN frames'[s],
         frames'[s][i] = frames[s][i]
  PROVE  RunBy(s)'[i] = RunBy(s)[i]
<1>1. /\ frames[s][i].lib \in Libs
      /\ libs[s][frames[s][i].lib] # Closed
      /\ libs'[s][frames[s][i].lib] # Closed
  BY DEF RunTyped, RunsLibrary
<1>2. libs'[s][frames[s][i].lib].row = libs[s][frames[s][i].lib].row
  BY <1>1 DEF RowsStay
<1>3. RunBy(s)[i] = Running(s, frames[s][i])
  BY DEF RunBy
<1>4. RunBy(s)'[i] = Running(s, frames[s][i])'
  BY DEF RunBy, Running
<1> QED
  BY <1>1, <1>2, <1>3, <1>4 DEF Running, VersionOf

LEMMA KeptFramesRedefine ==
  ASSUME NEW s \in Sessions, RunTyped(s), RunTyped(s)', RowsStay(s),
         SeenBy(s)' \in Calls!Definitions, frames'[s] = frames[s]
  PROVE  Calls!Redefine(s)
<1>1. \A i \in DOMAIN frames[s] : RunBy(s)'[i] = RunBy(s)[i]
  BY FrameKeepsVersion
<1>2. RunBy(s)' = RunBy(s)
  BY <1>1 DEF RunBy
<1> QED
  BY <1>2 DEF Calls!Redefine

LEMMA FewerFramesUnwind ==
  ASSUME NEW s \in Sessions, RunTyped(s), RunTyped(s)', RowsStay(s), Shrinks(s),
         NEW n \in 0..Len(frames[s]), Len(frames'[s]) = n,
         SeenBy(s)' \in Calls!Definitions
  PROVE  Calls!Unwind(s)
<1>1. /\ RunBy(s) \in Seq(FrameRun) /\ RunBy(s)' \in Seq(FrameRun)
      /\ Len(RunBy(s)) = Len(frames[s]) /\ Len(RunBy(s)') = n
      /\ DOMAIN RunBy(s)' = DOMAIN frames'[s]
  BY DEF RunTyped
<1>2. \A i \in DOMAIN RunBy(s)' : RunBy(s)'[i] = RunBy(s)[i]
  BY <1>1, FrameKeepsVersion DEF Shrinks
<1>3. PICK q, r : q = RunBy(s) /\ r = RunBy(s)'
  OBVIOUS
<1>4. r = SubSeq(q, 1, n)
  BY <1>1, <1>2, <1>3, SameFront
<1>5. n \in 0..Len(RunBy(s)) /\ RunBy(s)' = SubSeq(RunBy(s), 1, n)
  BY <1>1, <1>3, <1>4
<1> QED
  BY <1>5 DEF Calls!Unwind

LEMMA PoppedFrameReturns ==
  ASSUME VersionInv, NEW s \in Sessions, RunTyped(s), RunTyped(s)', RowsStay(s),
         frames[s] # <<>>, frames'[s] = Pop(frames[s]),
         UNCHANGED <<xact, view>>
  PROVE  Calls!Return(s)
<1>1. frames[s] \in Seq(FrameType)
  BY DEF VersionInv, RcInv, LoaderInv
<1>2. /\ DOMAIN frames'[s] = 1..(Len(frames[s]) - 1)
      /\ \A i \in DOMAIN frames'[s] : i \in DOMAIN frames[s] /\ frames'[s][i] = frames[s][i]
      /\ Len(frames[s]) \in 1..Len(frames[s])
  BY <1>1, PopThenPush
<1>3. /\ RunBy(s) \in Seq(FrameRun) /\ RunBy(s)' \in Seq(FrameRun)
      /\ Len(RunBy(s)) = Len(frames[s]) /\ Len(RunBy(s)') = Len(frames[s]) - 1
      /\ DOMAIN RunBy(s)' = DOMAIN frames'[s]
      /\ Len(frames[s]) \in Nat
  <2>1. Len(frames'[s]) = Len(frames[s]) - 1
    BY <1>1, <1>2 DEF Pop
  <2> QED
    BY <2>1 DEF RunTyped
<1>4. \A i \in DOMAIN RunBy(s)' : RunBy(s)'[i] = RunBy(s)[i]
  BY <1>2, <1>3, FrameKeepsVersion
<1>5. RunBy(s) # <<>>
  BY <1>1, <1>3
<1>6. RunBy(s)' = SubSeq(RunBy(s), 1, Len(RunBy(s)) - 1)
  <2>1. PICK q, r : q = RunBy(s) /\ r = RunBy(s)'
    OBVIOUS
  <2>2. Len(q) - 1 \in 0..Len(q)
    BY <1>2, <1>3, <2>1
  <2>3. r = SubSeq(q, 1, Len(q) - 1)
    BY <1>3, <1>4, <2>1, <2>2, SameFront
  <2> QED
    BY <2>1, <2>3
<1>7. SeenBy(s)' = SeenBy(s)
  BY DEF SeenBy, Visible, Wrote, InXact, Top, VersionOf
<1> QED
  BY <1>5, <1>6, <1>7 DEF Calls!Return

LEMMA PushedFrameCalls ==
  ASSUME VersionInv, NEW s \in Sessions, NEW f \in Fns, NEW e \in FrameType,
         RunTyped(s), RunTyped(s)', RowsStay(s), RunsVisible,
         Visible(s, f) # Gone, e.fn = f, frames'[s] = Append(frames[s], e),
         UNCHANGED <<xact, view>>
  PROVE  Calls!Call(s, f)
<1>1. frames[s] \in Seq(FrameType) /\ Len(frames[s]) \in Nat
  BY DEF VersionInv, RcInv, LoaderInv
<1> DEFINE n == Len(frames[s]) + 1
<1>2. /\ DOMAIN frames[s] = 1..(n - 1) /\ DOMAIN frames'[s] = 1..n
      /\ \A i \in DOMAIN frames[s] : i \in DOMAIN frames'[s] /\ frames'[s][i] = frames[s][i]
      /\ Len(frames'[s]) = n /\ frames'[s][n] = e
  BY <1>1, AppendProperties
<1>3. /\ RunBy(s) \in Seq(FrameRun) /\ RunBy(s)' \in Seq(FrameRun)
      /\ Len(RunBy(s)) = n - 1 /\ Len(RunBy(s)') = n
      /\ DOMAIN RunBy(s) = DOMAIN frames[s] /\ n \in DOMAIN frames'[s]
  BY <1>1, <1>2 DEF RunTyped
<1>4. \A i \in DOMAIN RunBy(s) : RunBy(s)'[i] = RunBy(s)[i]
  BY <1>2, <1>3, FrameKeepsVersion
<1>5. RunBy(s)'[n] = [fn |-> f, version |-> VersionOf(Visible(s, f))]
  <2>1. Content(libs'[s][e.lib].row) = Content(Visible(s, f))
    BY <1>1, <1>2 DEF RunsVisible
  <2>2. RunBy(s)'[n] = Running(s, e)'
    BY <1>2, <1>3 DEF RunBy, Running
  <2>3. Running(s, e)' = [fn |-> f, version |-> {Content(libs'[s][e.lib].row)}]
    BY <1>2, <1>3 DEF RunTyped, RunsLibrary, Running
  <2> QED
    BY <2>1, <2>2, <2>3 DEF VersionOf
<1>6. /\ SeenBy(s)[f] = VersionOf(Visible(s, f)) /\ SeenBy(s)[f] # {}
      /\ SeenBy(s)' = SeenBy(s)
  BY DEF SeenBy, Visible, Wrote, InXact, Top, VersionOf
<1>7. RunBy(s)' = Append(RunBy(s), [fn |-> f, version |-> SeenBy(s)[f]])
  <2>1. RunBy(s)'[n] \in FrameRun /\ Len(RunBy(s)) + 1 = n
    BY <1>1, <1>3
  <2> QED
    BY <1>3, <1>4, <1>5, <1>6, <2>1, SameAppend
<1> QED
  BY <1>6, <1>7 DEF Calls!Call

----------------------------------------------------------------------------
(* Every action of FnCache is an action of FnCalls.                        *)

Shapes ==
    /\ xact \in [Sessions -> Seq(Level)]
    /\ view \in [Sessions -> [Fns -> Row \cup {Gone}]]
    /\ libs \in [Sessions -> [Libs -> Library \cup {Closed}]]
    /\ frames \in [Sessions -> Seq(FrameType)]

LEMMA ShapesHold ==
  ASSUME VersionInv
  PROVE  Shapes /\ LoaderInv
  BY DEF VersionInv, RcInv, LoaderInv, CatalogTypes, Shapes

\* What the lemmas on the actions of s assume of the states around a step.
Around(s) ==
    /\ VersionInv /\ RunTyped(s) /\ RunTyped(s)'
    /\ SeenBy(s)' \in Calls!Definitions

\* An ERROR, lb being the libraries before it.
LEMMA UnwindCalls ==
  ASSUME NEW s \in Sessions, Around(s), NEW n \in 0..Len(frames[s]), NEW lb, NEW c,
         SessionOK(lb, c, frames[s]), KeepsRows(lb, libs[s]), Unwind(s, n, lb)
  PROVE  /\ RowsStay(s) /\ Shrinks(s) /\ Calls!Unwind(s)
         /\ \A t \in Sessions \ {s} : libs'[t] = libs[t] /\ frames'[t] = frames[t]
<1>1. Shapes /\ LoaderInv
  BY ShapesHold DEF Around
<1>2. /\ KeepsRows(libs'[s], libs[s])
      /\ \A t \in Sessions \ {s} : libs'[t] = libs[t]
  BY <1>1, UnwindKeeps
<1>3. RowsStay(s)
  BY <1>2, KeepsRowsStay
<1>4. /\ frames'[s] = SubSeq(frames[s], 1, n)
      /\ \A t \in Sessions \ {s} : frames'[t] = frames[t]
  BY <1>1 DEF Unwind, Shapes
<1>5. /\ Len(SubSeq(frames[s], 1, n)) = n /\ DOMAIN SubSeq(frames[s], 1, n) = 1..n
      /\ \A i \in 1..n :
            i \in DOMAIN frames[s] /\ SubSeq(frames[s], 1, n)[i] = frames[s][i]
  BY <1>1, FramesSplit DEF Shapes
<1>6. Shrinks(s) /\ Len(frames'[s]) = n
  BY <1>4, <1>5 DEF Shrinks
<1> QED
  BY <1>2, <1>3, <1>4, <1>6, FewerFramesUnwind DEF Around

LEMMA UnwindLevelCalls ==
  ASSUME NEW s \in Sessions, Around(s), InXact(s), NEW lb, NEW c,
         SessionOK(lb, c, frames[s]), KeepsRows(lb, libs[s]), UnwindLevel(s, lb)
  PROVE  /\ RowsStay(s) /\ Shrinks(s) /\ Calls!Unwind(s)
         /\ \A t \in Sessions \ {s} : libs'[t] = libs[t] /\ frames'[t] = frames[t]
         /\ \A t \in Sessions \ {s} : iters'[t] = iters[t]
         /\ \A f \in Fns : iters'[s][f] \in {NoLib, iters[s][f]}
<1>1. Top(s).calls \in 0..Len(frames[s])
  BY LevelCalls DEF Around, VersionInv
<1>2. PICK n \in 0..Len(frames[s]) : Unwind(s, n, lb)
  BY <1>1 DEF UnwindLevel
<1>3. iters \in [Sessions -> [Fns -> Libs \cup {NoLib}]]
  BY DEF Around, VersionInv, RcInv, CatalogTypes
<1>4. /\ \A t \in Sessions \ {s} : iters'[t] = iters[t]
      /\ \A f \in Fns : iters'[s][f] \in {NoLib, iters[s][f]}
  BY <1>3 DEF UnwindLevel
<1> QED
  BY <1>2, <1>4, UnwindCalls

LEMMA AbortUnwinds ==
  ASSUME NEW s \in Sessions, Around(s), InXact(s), AbortTop(s)
  PROVE  Apart(s) /\ Calls!Unwind(s)
<1>1. Shapes /\ SessionOK(libs[s], cache[s], frames[s])
  BY ShapesHold, LoaderFacts DEF Around
<1>2. /\ Calls!Unwind(s)
      /\ \A t \in Sessions \ {s} : libs'[t] = libs[t] /\ frames'[t] = frames[t]
  BY <1>1, KeepsRefl, UnwindLevelCalls DEF AbortTop
<1>3. \A t \in Sessions \ {s} : xact'[t] = xact[t] /\ view'[t] = view[t]
  BY <1>1 DEF AbortTop, Shapes
<1> QED
  BY <1>2, <1>3 DEF Apart

LEMMA QuietRedefines ==
  ASSUME NEW s \in Sessions, Around(s), UNCHANGED <<libs, frames>>,
         \A t \in Sessions \ {s} : xact'[t] = xact[t] /\ view'[t] = view[t]
  PROVE  Apart(s) /\ Calls!Redefine(s)
<1>1. RowsStay(s)
  BY DEF RowsStay
<1> QED
  BY <1>1, KeptFramesRedefine DEF Around, Apart

LEMMA CaughtWithin ==
  ASSUME NEW s \in Sessions, Around(s), Catch(s)
  PROVE  \E n \in 0..Len(frames[s]) : Unwind(s, n, libs[s])
<1>1. PICK n \in (Top(s).calls + 1)..(Len(frames[s]) - 1) : Unwind(s, n, libs[s])
  BY DEF Catch
<1>2. Top(s).calls \in 0..Len(frames[s]) /\ Len(frames[s]) \in Nat
  BY LevelCalls DEF Around, VersionInv, RunTyped, Catch
<1>3. n \in 0..Len(frames[s])
  BY <1>1, <1>2
<1> QED
  BY <1>1, <1>3

LEMMA TransactCalls ==
  ASSUME NEW s \in Sessions, Around(s), Transact(s)
  PROVE  Apart(s) /\ (Calls!Redefine(s) \/ Calls!Unwind(s))
<1>1. Shapes
  BY ShapesHold DEF Around
<1>2. CASE Begin(s)
  BY <1>1, <1>2, QuietRedefines DEF Begin, Shapes, loaderVars
<1>3. CASE Savepoint(s)
  BY <1>1, <1>3, QuietRedefines DEF Savepoint, Shapes, loaderVars
<1>4. CASE ReleaseSavepoint(s)
  BY <1>1, <1>4, QuietRedefines DEF ReleaseSavepoint, Shapes
<1>5. CASE Commit(s)
  BY <1>1, <1>5, QuietRedefines DEF Commit, Shapes
<1>6. CASE Abort(s)
  BY <1>6, AbortUnwinds DEF Abort
<1>7. CASE AcceptInvalidations(s)
  BY <1>1, <1>7, QuietRedefines DEF AcceptInvalidations, Shapes, loaderVars, xactVars
<1>8. CASE ReloadConfig(s)
  BY <1>8, QuietRedefines DEF ReloadConfig, loaderVars, xactVars
<1>9. CASE Restart(s)
  <2>1. /\ xact' = [xact EXCEPT ![s] = <<>>]
        /\ view' = [view EXCEPT ![s] = committed]
        /\ libs' = [libs EXCEPT ![s] = [l \in Libs |-> Closed]]
        /\ frames' = [frames EXCEPT ![s] = <<>>]
    BY <1>9 DEF Restart
  <2>2. /\ Apart(s) /\ frames'[s] = <<>> /\ Len(frames'[s]) = 0 /\ DOMAIN frames'[s] = {}
        /\ \A l \in Libs : libs'[s][l] = Closed
    BY <1>1, <2>1 DEF Apart, Shapes
  <2>3. RowsStay(s) /\ Shrinks(s)
    BY <2>2 DEF RowsStay, Shrinks
  <2>4. 0 \in 0..Len(frames[s])
    BY DEF Around, RunTyped
  <2> QED
    BY <2>2, <2>3, <2>4, FewerFramesUnwind DEF Around
<1>10. CASE Catch(s)
  <2>1. PICK n \in 0..Len(frames[s]) : Unwind(s, n, libs[s])
    BY <1>10, CaughtWithin
  <2>2. SessionOK(libs[s], cache[s], frames[s]) /\ UNCHANGED <<xact, view>>
    BY <1>10, ShapesHold, LoaderFacts DEF Around, Catch, xactVars
  <2> QED
    BY <2>1, <2>2, KeepsRefl, UnwindCalls DEF Apart
<1> QED
  BY <1>2, <1>3, <1>4, <1>5, <1>6, <1>7, <1>8, <1>9, <1>10 DEF Transact

\* Writing a row leaves what the other sessions see.
LEMMA WriteRowApart ==
  ASSUME NEW s \in Sessions, Shapes, NEW f, NEW row, NEW n, WriteRow(s, f, row, n)
  PROVE  \A t \in Sessions \ {s} : xact'[t] = xact[t] /\ view'[t] = view[t]
<1>1. view' = [view EXCEPT ![s] = committed]
  BY DEF WriteRow
<1>2. PICK q : xact' = [xact EXCEPT ![s] = q]
  BY DEF WriteRow
<1> QED
  BY <1>1, <1>2 DEF Shapes

LEMMA DefineCalls ==
  ASSUME NEW s \in Sessions, NEW f \in Fns, Around(s), Define(s, f)
  PROVE  Apart(s) /\ (Calls!Redefine(s) \/ Calls!Unwind(s))
<1>1. Shapes /\ LoaderInv
  BY ShapesHold DEF Around
<1>2. CASE Alter(s, f)
  <2>1. PICK row, n : WriteRow(s, f, row, n)
    BY <1>2 DEF Alter
  <2> QED
    BY <1>1, <1>2, <2>1, WriteRowApart, QuietRedefines DEF Alter, loaderVars
<1>3. CASE DropFunction(s, f)
  <2>1. PICK row, n : WriteRow(s, f, row, n)
    BY <1>3 DEF DropFunction
  <2> QED
    BY <1>1, <1>3, <2>1, WriteRowApart, QuietRedefines DEF DropFunction, loaderVars
<1>4. CASE Replace(s, f)
  <2>1. PICK row, n : WriteRow(s, f, row, n)
    BY <1>4 DEF Replace
  <2>2. PICK closes \in CloseResults :
          libs' = [libs EXCEPT ![s] = Unloaded(s, f, closes)]
    BY <1>4 DEF Replace
  <2>3. /\ libs'[s] = Unloaded(s, f, closes) /\ frames' = frames
        /\ \A t \in Sessions \ {s} : libs'[t] = libs[t]
    BY <1>1, <1>4, <2>2 DEF Replace, Shapes
  <2>4. RowsStay(s)
    BY <1>1, <2>3, CloseResultsType, UnloadedKeeps, KeepsRowsStay
  <2>5. Apart(s)
    BY <1>1, <2>1, <2>3, WriteRowApart DEF Apart
  <2> QED
    BY <2>3, <2>4, <2>5, KeptFramesRedefine DEF Around
<1>5. CASE ReplaceFails(s, f)
  <2>1. InXact(s) /\ \E closes \in CloseResults : UnwindLevel(s, Unloaded(s, f, closes))
    BY <1>5 DEF ReplaceFails, Submittable, CanWrite
  <2>2. /\ Calls!Unwind(s)
        /\ \A t \in Sessions \ {s} : libs'[t] = libs[t] /\ frames'[t] = frames[t]
    BY <1>1, <2>1, CloseResultsType, UnloadedKeeps, UnloadOK, UnwindLevelCalls
  <2>3. \A t \in Sessions \ {s} : xact'[t] = xact[t] /\ view'[t] = view[t]
    <3>1. PICK q, seen : xact' = [xact EXCEPT ![s] = q] /\ view' = [view EXCEPT ![s] = seen]
      BY <1>5 DEF ReplaceFails, WriteUndone
    <3> QED
      BY <1>1, <3>1 DEF Shapes
  <2> QED
    BY <2>2, <2>3 DEF Apart
<1> QED
  BY <1>2, <1>3, <1>4, <1>5 DEF Define

LEMMA EvaluateCalls ==
  ASSUME NEW s \in Sessions, NEW f \in Fns, NEW resumes \in Libs \cup {NoLib},
         Around(s), Evaluate(s, f, resumes)
  PROVE  Apart(s) /\ Calls!Call(s, f)
<1>1. Shapes /\ LoaderInv /\ SessionOK(libs[s], cache[s], frames[s])
  BY ShapesHold DEF Around, LoaderInv
<1>2. /\ UNCHANGED <<xact, view>> /\ Visible(s, f) # Gone
      /\ RunsVisible
  BY EvaluateRunsVisible DEF Evaluate, xactVars, Around
<1>3. ASSUME NEW l \in Libs, Enter(s, f, l, resumes), RowsStay(s),
             \A t \in Sessions \ {s} : libs'[t] = libs[t]
      PROVE  Apart(s) /\ Calls!Call(s, f)
  <2> DEFINE e == [fn |-> f, lib |-> l, resumes |-> resumes]
  <2>1. e \in FrameType /\ e.fn = f
    BY DEF FrameType
  <2>2. /\ frames'[s] = Append(frames[s], e)
        /\ \A t \in Sessions \ {s} : frames'[t] = frames[t]
    BY <1>1, <1>3 DEF Enter, Shapes
  <2>3. Apart(s)
    BY <1>2, <1>3, <2>2 DEF Apart
  <2> HIDE DEF e
  <2> QED
    BY <1>2, <1>3, <2>1, <2>2, <2>3, PushedFrameCalls DEF Around
<1>4. CASE RunCached(s, f, resumes)
  <2>1. /\ cache[s][f] \in Libs /\ libs[s][cache[s][f]] # Closed
        /\ libs[s] \in [Libs -> Library \cup {Closed}]
    BY <1>1, <1>4 DEF RunCached, UpToDate, SessionOK
  <2>2. /\ libs'[s] = Clone(libs[s], cache[s][f])
        /\ \A t \in Sessions \ {s} : libs'[t] = libs[t]
    BY <1>1, <1>4 DEF RunCached, Shapes
  <2>3. RowsStay(s)
    BY <2>1, <2>2, CloneKeeps, KeepsRowsStay
  <2> QED
    BY <1>3, <1>4, <2>1, <2>2, <2>3 DEF RunCached
<1>5. CASE LoadAndRun(s, f, resumes)
  <2>1. PICK l \in FreeLibs(s), closes \in CloseResults :
          /\ libs' = [libs EXCEPT ![s] =
                [Unloaded(s, f, closes) EXCEPT
                    ![l] = [fn |-> f, row |-> Visible(s, f), rc |-> 2]]]
          /\ Enter(s, f, l, resumes)
    BY <1>5 DEF LoadAndRun
  <2> DEFINE lb == Unloaded(s, f, closes)
  <2>2. l \in Libs /\ libs[s][l] = Closed /\ KeepsRows(lb, libs[s])
    BY <1>1, CloseResultsType, UnloadedKeeps DEF FreeLibs
  <2>3. lb \in [Libs -> Library \cup {Closed}]
    BY <1>1, CloseResultsType, UnloadOK DEF SessionOK
  <2>4. /\ libs'[s] = [lb EXCEPT ![l] = [fn |-> f, row |-> Visible(s, f), rc |-> 2]]
        /\ \A t \in Sessions \ {s} : libs'[t] = libs[t]
    BY <1>1, <2>1 DEF Shapes
  <2> HIDE DEF lb
  <2>5. \A k \in Libs \ {l} : libs'[s][k] = lb[k]
    BY <2>3, <2>4
  <2>6. RowsStay(s)
    BY <2>2, <2>5 DEF RowsStay, KeepsRows
  <2> QED
    BY <1>3, <2>1, <2>2, <2>4, <2>6
<1> QED
  BY <1>4, <1>5 DEF Evaluate

LEMMA LeaveReturns ==
  ASSUME NEW s \in Sessions, Around(s), Leave(s)
  PROVE  Apart(s) /\ Calls!Return(s)
<1>1. /\ Shapes /\ SessionOK(libs[s], cache[s], frames[s])
      /\ frames[s] \in Seq(FrameType) /\ frames[s] # <<>>
  BY ShapesHold, LeaveFrames DEF Around, VersionInv, LoaderInv, Shapes, Idle
<1>2. PICK closes \in CloseResults :
        libs' = [libs EXCEPT ![s] = DropRef(libs[s], Frame(s).lib, closes)]
  BY DEF Leave
<1>3. Len(frames[s]) \in DOMAIN frames[s]
  BY <1>1
<1>4. /\ Frame(s).lib \in Libs /\ libs[s][Frame(s).lib] # Closed
      /\ libs[s] \in [Libs -> Library \cup {Closed}]
  BY <1>1, <1>3, FrameLib DEF SessionOK, Frame
<1>5. /\ libs'[s] = DropRef(libs[s], Frame(s).lib, closes)
      /\ \A t \in Sessions \ {s} : libs'[t] = libs[t]
  BY <1>1, <1>2 DEF Shapes
<1>6. RowsStay(s)
  BY <1>4, <1>5, CloseResultsType, DropRefKeeps, KeepsRowsStay
<1>7. /\ frames'[s] = Pop(frames[s]) /\ UNCHANGED <<xact, view>>
      /\ \A t \in Sessions \ {s} : frames'[t] = frames[t]
  BY <1>1 DEF Leave, xactVars, Shapes
<1>8. Apart(s)
  BY <1>5, <1>7 DEF Apart
<1> QED
  BY <1>1, <1>6, <1>7, <1>8, PoppedFrameReturns DEF Around

LEMMA StepCalls ==
  ASSUME VersionInv, \A s \in Sessions : Around(s), Next
  PROVE  Calls!Next
<1>1. ASSUME NEW s \in Sessions, Apart(s),
             (\E f \in Fns : Calls!Call(s, f)) \/ Calls!Return(s)
                \/ Calls!Redefine(s) \/ Calls!Unwind(s)
      PROVE  Calls!Next
  BY <1>1, ApartAlone DEF Calls!Next
<1>2. ASSUME NEW s \in Sessions, Transact(s) PROVE Calls!Next
  BY <1>1, <1>2, TransactCalls
<1>3. ASSUME NEW s \in Sessions, NEW f \in Fns, Define(s, f) PROVE Calls!Next
  BY <1>1, <1>3, DefineCalls
<1>4. ASSUME NEW s \in Sessions, NEW f \in Fns, Execute(s, f) PROVE Calls!Next
  <2>1. CASE CallFails(s, f)
    <3>1. Apart(s) /\ Calls!Unwind(s)
      BY <2>1, AbortUnwinds DEF CallFails
    <3> QED
      BY <1>1, <3>1
  <2>2. CASE Call(s, f) \/ Fetch(s, f)
    <3>1. iters[s][f] \in Libs \cup {NoLib}
      BY DEF VersionInv, RcInv, CatalogTypes
    <3>2. PICK resumes \in Libs \cup {NoLib} : Evaluate(s, f, resumes)
      BY <2>2, <3>1 DEF Call, Fetch
    <3>3. Apart(s) /\ Calls!Call(s, f)
      BY <3>2, EvaluateCalls
    <3> QED
      BY <1>1, <3>3
  <2> QED
    BY <1>4, <2>1, <2>2 DEF Execute
<1>5. ASSUME NEW s \in Sessions, Return(s) \/ Yield(s) PROVE Calls!Next
  <2>1. Apart(s) /\ Calls!Return(s)
    BY <1>5, LeaveReturns DEF Return, Yield
  <2> QED
    BY <1>1, <2>1
<1> QED
  BY <1>2, <1>3, <1>4, <1>5 DEF Next

\* What the sessions see and run, the variables of FnCalls.
Seen == [s \in Sessions |-> SeenBy(s)]
Ran == [s \in Sessions |-> RunBy(s)]

LEMMA StutterCalls ==
  ASSUME UNCHANGED vars
  PROVE  UNCHANGED <<Seen, Ran>>
  BY DEF vars, xactVars, loaderVars, Seen, Ran, SeenBy, RunBy, Running, Visible,
         Wrote, InXact, Top, VersionOf

LEMMA InitCalls == Init => Calls!Init
<1> SUFFICES ASSUME Init PROVE Calls!Init
  OBVIOUS
<1>1. ASSUME NEW s \in Sessions
      PROVE  SeenBy(s) = [f \in Fns |-> {}] /\ RunBy(s) = <<>>
  <2>1. xact[s] = <<>> /\ frames[s] = <<>> /\ \A f \in Fns : view[s][f] = Gone
    BY DEF Init
  <2>2. \A f \in Fns : Visible(s, f) = Gone
    BY <2>1 DEF Visible, Wrote, InXact
  <2>3. RunBy(s) = <<>>
    BY <2>1 DEF RunBy
  <2> QED
    BY <2>2, <2>3 DEF SeenBy, VersionOf
<1> QED
  BY <1>1 DEF Calls!Init

\* FnCache implements FnCalls: a call runs the version its session sees when it
\* is made and keeps it to its end, over replacements, drops, rollbacks, late
\* invalidations and reloads in nested calls that reuse handles; and no step of
\* one session changes what another sees or runs.
THEOREM CallsImplemented == Spec => ImplementsFnCalls
<1>1. VersionInv /\ VersionInv' /\ [Next]_vars
        /\ (\A s \in Sessions : RunTyped(s)) /\ (\A s \in Sessions : RunTyped(s))'
        /\ (\A s \in Sessions : SeenBy(s) \in Calls!Definitions)'
        => [Calls!Next]_<<Seen, Ran>>
  <2> SUFFICES ASSUME VersionInv, [Next]_vars,
                      \A s \in Sessions : RunTyped(s),
                      (\A s \in Sessions : RunTyped(s))',
                      (\A s \in Sessions : SeenBy(s) \in Calls!Definitions)'
               PROVE  Calls!Next \/ UNCHANGED <<Seen, Ran>>
    OBVIOUS
  <2>1. \A s \in Sessions : Around(s)
    BY DEF Around
  <2> QED
    BY <2>1, StepCalls, StutterCalls
<1> QED
  BY <1>1, InitCalls, SeenTyped, RunsTyped, VersionInvariance, PTL
  DEF Spec, ImplementsFnCalls, Calls!Spec, Seen, Ran

----------------------------------------------------------------------------
(* Iterators.  While all that is in use of a function is the library the   *)
(* next call will run, a step that redefines nothing keeps it so.          *)

Kept(s, f) ==
    Settled(s, f) /\ (InUse(s, f) /\ InUse(s, f)' => Undisturbed(s, f)) => Settled(s, f)'

Rest(s) == \A t \in Sessions \ {s} : cache'[t] = cache[t] /\ iters'[t] = iters[t]

\* What the lemmas on the actions of s prove of its functions.
Keeps(s) == Rest(s) /\ \A f \in Fns : Kept(s, f)

LEMMA OthersSettled ==
  ASSUME NEW s \in Sessions, Apart(s), Keeps(s)
  PROVE  KeepsSettled
<1> SUFFICES ASSUME NEW t \in Sessions, NEW f \in Fns
             PROVE  Kept(t, f)
  BY Zenon DEF KeepsSettled, Kept
<1>1. CASE t = s
  BY <1>1 DEF Keeps
<1>2. CASE t # s
  <2>1. /\ xact'[t] = xact[t] /\ view'[t] = view[t] /\ libs'[t] = libs[t]
        /\ frames'[t] = frames[t] /\ cache'[t] = cache[t] /\ iters'[t] = iters[t]
    BY <1>2 DEF Apart, Keeps, Rest
  <2>2. Visible(t, f)' = Visible(t, f)
    BY <2>1 DEF Visible, Wrote, InXact, Top
  <2>3. Settled(t, f)' <=> Settled(t, f)
    BY <2>1, <2>2 DEF Settled, InUse, UpToDate, CachedLib
  <2> QED
    BY <2>3 DEF Kept
<1> QED
  BY <1>1, <1>2

\* The same entry, of the same version, for what remains in use.
LEMMA SettledKept ==
  ASSUME RcInv, RcInv', NEW s \in Sessions, NEW f \in Fns, RowsStay(s),
         Settled(s, f), InUse(s, f), Visible(s, f)' = Visible(s, f),
         cache'[s][f] = cache[s][f],
         iters'[s][f] \in {NoLib, iters[s][f], cache[s][f]},
         \A i \in DOMAIN frames'[s] : frames'[s][i].fn = f =>
            /\ frames'[s][i].lib = cache[s][f]
            /\ frames'[s][i].resumes \in {NoLib, cache[s][f]}
  PROVE  Settled(s, f)'
<1>1. /\ UpToDate(s, f) /\ iters[s][f] \in {NoLib, cache[s][f]}
  BY DEF Settled
<1>2. cache[s][f] # NoLib /\ cache[s][f] \in Libs
  BY <1>1 DEF UpToDate, RcInv, LoaderInv
<1>3. libs[s][cache[s][f]] # Closed /\ libs'[s][cache[s][f]] # Closed
  BY <1>2 DEF RcInv, LoaderInv, SessionOK
<1>4. CachedLib(s, f)'.row = CachedLib(s, f).row
  BY <1>2, <1>3 DEF RowsStay, CachedLib
<1>5. UpToDate(s, f)'
  BY <1>1, <1>4 DEF UpToDate
<1> QED
  BY <1>1, <1>5 DEF Settled

\* Nothing is left in use.
LEMMA StoppedKeeps ==
  ASSUME NEW s \in Sessions, Shapes, frames' = [frames EXCEPT ![s] = <<>>],
         iters' = [iters EXCEPT ![s] = NoLibs], iters \in [Sessions -> [Fns -> Libs \cup {NoLib}]],
         \A t \in Sessions \ {s} : cache'[t] = cache[t]
  PROVE  Keeps(s)
<1>1. /\ frames'[s] = <<>> /\ \A f \in Fns : iters'[s][f] = NoLib
      /\ \A t \in Sessions \ {s} : iters'[t] = iters[t]
  BY DEF Shapes, NoLibs
<1>2. \A f \in Fns : ~InUse(s, f)'
  BY <1>1 DEF InUse
<1>3. \A f \in Fns : Settled(s, f)'
  BY <1>2, Zenon DEF Settled
<1> QED
  BY <1>1, <1>3 DEF Keeps, Rest, Kept

\* A step in which nothing is called and calls at most end.
LEMMA QuietKeeps ==
  ASSUME RcInv, RcInv', NEW s \in Sessions, RowsStay(s), Shrinks(s), Rest(s),
         \A f \in Fns : iters'[s][f] \in {NoLib, iters[s][f]},
         \A f \in Fns : cache'[s][f] = cache[s][f] \/ ~Undisturbed(s, f)
  PROVE  Keeps(s)
<1> SUFFICES ASSUME NEW f \in Fns, Settled(s, f),
                    InUse(s, f) /\ InUse(s, f)' => Undisturbed(s, f)
             PROVE  Settled(s, f)'
  BY DEF Keeps, Kept
<1>1. CASE ~InUse(s, f)'
  BY <1>1, Zenon DEF Settled
<1>2. CASE InUse(s, f)'
  <2>1. InUse(s, f)
    BY <1>2 DEF InUse, Shrinks
  <2>2. Undisturbed(s, f)
    BY <1>2, <2>1
  <2>3. cache'[s][f] = cache[s][f] /\ Visible(s, f)' = Visible(s, f)
    BY <2>2 DEF Undisturbed
  <2>4. \A i \in DOMAIN frames'[s] : frames'[s][i].fn = f =>
           /\ frames'[s][i].lib = cache[s][f]
           /\ frames'[s][i].resumes \in {NoLib, cache[s][f]}
    BY <2>1 DEF Settled, Shrinks
  <2> QED
    BY <2>1, <2>3, <2>4, SettledKept
<1> QED
  BY <1>1, <1>2

\* What QuietKeeps and StoppedKeeps need of the states around a step.
LEMMA AroundShapes ==
  ASSUME NEW s \in Sessions, Around(s)
  PROVE  /\ RcInv /\ Shapes /\ LoaderInv
         /\ iters \in [Sessions -> [Fns -> Libs \cup {NoLib}]]
         /\ cache \in [Sessions -> [Fns -> Libs \cup {NoLib}]]
  BY ShapesHold DEF Around, VersionInv, RcInv, CatalogTypes, LoaderInv

\* A rollback leaves the cursors declared outside of its level, and their
\* iterators their library.
LEMMA AbortKeeps ==
  ASSUME NEW s \in Sessions, Around(s), RcInv', InXact(s), AbortTop(s)
  PROVE  Keeps(s)
<1>1. RcInv /\ SessionOK(libs[s], cache[s], frames[s]) /\ UNCHANGED cache
  BY AroundShapes, LoaderFacts DEF AbortTop
<1>2. /\ RowsStay(s) /\ Shrinks(s)
      /\ \A t \in Sessions \ {s} : iters'[t] = iters[t]
      /\ \A f \in Fns : iters'[s][f] \in {NoLib, iters[s][f]}
  BY <1>1, KeepsRefl, UnwindLevelCalls DEF AbortTop
<1>3. Rest(s)
  BY <1>1, <1>2 DEF Rest
<1> QED
  BY <1>1, <1>2, <1>3, QuietKeeps

LEMMA TransactKeeps ==
  ASSUME NEW s \in Sessions, Around(s), RcInv', Transact(s)
  PROVE  Keeps(s)
<1>1. /\ RcInv /\ Shapes
      /\ iters \in [Sessions -> [Fns -> Libs \cup {NoLib}]]
      /\ cache \in [Sessions -> [Fns -> Libs \cup {NoLib}]]
  BY AroundShapes
<1>2. ASSUME UNCHANGED <<cache, libs, frames>>, iters' \in {iters, [iters EXCEPT ![s] = NoLibs]}
      PROVE  Keeps(s)
  <2>1. RowsStay(s) /\ Shrinks(s)
    BY <1>2 DEF RowsStay, Shrinks
  <2>2. Rest(s) /\ \A f \in Fns : iters'[s][f] \in {NoLib, iters[s][f]}
    BY <1>1, <1>2 DEF Rest, NoLibs
  <2> QED
    BY <1>1, <1>2, <2>1, <2>2, QuietKeeps
<1>3. CASE Begin(s) \/ Savepoint(s) \/ ReleaseSavepoint(s) \/ Commit(s)
             \/ AcceptInvalidations(s) \/ ReloadConfig(s)
  BY <1>2, <1>3 DEF Begin, Savepoint, ReleaseSavepoint, Commit, AcceptInvalidations,
                    ReloadConfig, loaderVars
<1>4. CASE Abort(s)
  BY <1>4, AbortKeeps DEF Abort
<1>5. CASE Restart(s)
  BY <1>1, <1>5, StoppedKeeps DEF Restart
<1>6. CASE Catch(s)
  <2>1. PICK n \in 0..Len(frames[s]) : Unwind(s, n, libs[s])
    BY <1>6, CaughtWithin
  <2>2. SessionOK(libs[s], cache[s], frames[s]) /\ UNCHANGED <<cache, iters>>
    BY <1>6, ShapesHold, LoaderFacts DEF Around, Catch
  <2>3. RowsStay(s) /\ Shrinks(s)
    BY <2>1, <2>2, KeepsRefl, UnwindCalls
  <2>4. Rest(s)
    BY <2>2 DEF Rest
  <2> QED
    BY <1>1, <2>2, <2>3, <2>4, QuietKeeps
<1> QED
  BY <1>3, <1>4, <1>5, <1>6 DEF Transact

LEMMA DefineKeeps ==
  ASSUME NEW s \in Sessions, NEW f \in Fns, Around(s), RcInv', Define(s, f)
  PROVE  Keeps(s)
<1>1. /\ RcInv /\ Shapes /\ LoaderInv
      /\ iters \in [Sessions -> [Fns -> Libs \cup {NoLib}]]
      /\ cache \in [Sessions -> [Fns -> Libs \cup {NoLib}]]
  BY AroundShapes
<1>2. CASE Alter(s, f) \/ DropFunction(s, f)
  <2>1. UNCHANGED <<cache, libs, frames, iters>>
    BY <1>2 DEF Alter, DropFunction, loaderVars
  <2>2. RowsStay(s) /\ Shrinks(s) /\ Rest(s)
    BY <2>1 DEF RowsStay, Shrinks, Rest
  <2> QED
    BY <1>1, <2>1, <2>2, QuietKeeps
<1>3. CASE Replace(s, f)
  <2>1. PICK closes \in CloseResults :
          libs' = [libs EXCEPT ![s] = Unloaded(s, f, closes)]
    BY <1>3 DEF Replace
  <2>2. /\ cache' = [cache EXCEPT ![s][f] = NoLib]
        /\ UNCHANGED <<frames, iters>>
    BY <1>3 DEF Replace
  <2>3. libs'[s] = Unloaded(s, f, closes)
    BY <1>1, <2>1 DEF Shapes
  <2>4. RowsStay(s)
    BY <1>1, <2>3, CloseResultsType, UnloadedKeeps, KeepsRowsStay
  <2>5. /\ \A t \in Sessions \ {s} : cache'[t] = cache[t]
        /\ \A g \in Fns \ {f} : cache'[s][g] = cache[s][g]
    BY <1>1, <2>2
  <2>6. ~Undisturbed(s, f)
    BY <1>3 DEF Undisturbed
  <2>7. \A g \in Fns : cache'[s][g] = cache[s][g] \/ ~Undisturbed(s, g)
    BY <2>5, <2>6
  <2>8. Shrinks(s) /\ Rest(s)
    BY <2>2, <2>5 DEF Shrinks, Rest
  <2> QED
    BY <1>1, <2>2, <2>4, <2>7, <2>8, QuietKeeps
<1>4. CASE ReplaceFails(s, f)
  <2>1. /\ InXact(s) /\ cache' = [cache EXCEPT ![s][f] = NoLib]
        /\ \E closes \in CloseResults : UnwindLevel(s, Unloaded(s, f, closes))
    BY <1>4 DEF ReplaceFails, Submittable, CanWrite
  <2>2. /\ \A t \in Sessions \ {s} : cache'[t] = cache[t]
        /\ \A g \in Fns \ {f} : cache'[s][g] = cache[s][g]
    BY <1>1, <2>1
  <2>3. /\ RowsStay(s) /\ Shrinks(s)
        /\ \A t \in Sessions \ {s} : iters'[t] = iters[t]
        /\ \A g \in Fns : iters'[s][g] \in {NoLib, iters[s][g]}
    BY <1>1, <2>1, CloseResultsType, UnloadedKeeps, UnloadOK, UnwindLevelCalls
  <2>4. ~Undisturbed(s, f)
    BY <1>4 DEF Undisturbed
  <2>5. \A g \in Fns : cache'[s][g] = cache[s][g] \/ ~Undisturbed(s, g)
    BY <2>2, <2>4
  <2>6. Rest(s)
    BY <2>2, <2>3 DEF Rest
  <2> QED
    BY <1>1, <2>3, <2>5, <2>6, QuietKeeps
<1> QED
  BY <1>2, <1>3, <1>4 DEF Define

LEMMA LeaveKeeps ==
  ASSUME NEW s \in Sessions, Around(s), RcInv', Return(s) \/ Yield(s)
  PROVE  Keeps(s)
<1>1. /\ RcInv /\ Shapes /\ LoaderInv
      /\ iters \in [Sessions -> [Fns -> Libs \cup {NoLib}]]
      /\ frames[s] \in Seq(FrameType) /\ frames[s] # <<>>
      /\ SessionOK(libs[s], cache[s], frames[s])
  <2>1. Leave(s)
    BY DEF Return, Yield
  <2> QED
    BY <2>1, AroundShapes, LeaveFrames DEF Around, VersionInv, Shapes, Idle, LoaderInv
<1>2. Leave(s)
  BY DEF Return, Yield
<1>3. /\ Len(frames[s]) \in DOMAIN frames[s] /\ Frame(s) = frames[s][Len(frames[s])]
      /\ Frame(s) \in FrameType
  BY <1>1, PopThenPush DEF Frame
<1>4. RowsStay(s)
  <2>1. PICK closes \in CloseResults :
          libs' = [libs EXCEPT ![s] = DropRef(libs[s], Frame(s).lib, closes)]
    BY <1>2 DEF Leave
  <2>2. /\ Frame(s).lib \in Libs /\ libs[s][Frame(s).lib] # Closed
        /\ libs[s] \in [Libs -> Library \cup {Closed}]
    BY <1>1, <1>3, FrameLib DEF SessionOK
  <2>3. libs'[s] = DropRef(libs[s], Frame(s).lib, closes)
    BY <1>1, <2>1 DEF Shapes
  <2> QED
    BY <2>2, <2>3, CloseResultsType, DropRefKeeps, KeepsRowsStay
<1>5. /\ frames'[s] = Pop(frames[s]) /\ UNCHANGED <<xact, view, cache>>
      /\ \A i \in DOMAIN frames'[s] : i \in DOMAIN frames[s] /\ frames'[s][i] = frames[s][i]
  <2>1. frames'[s] = Pop(frames[s]) /\ UNCHANGED <<xact, view, cache>>
    BY <1>1, <1>2 DEF Leave, xactVars, Shapes
  <2> QED
    BY <1>1, <2>1, PopThenPush
<1>6. /\ \A t \in Sessions \ {s} : iters'[t] = iters[t]
      /\ \A f \in Fns : f # Frame(s).fn => iters'[s][f] = iters[s][f]
      /\ iters'[s][Frame(s).fn] \in {NoLib, iters[s][Frame(s).fn], Frame(s).lib}
  <2>1. Frame(s).fn \in Fns
    BY <1>3 DEF FrameType
  <2>2. PICK l \in {NoLib, Frame(s).lib} :
          iters' = iters \/ iters' = [iters EXCEPT ![s][Frame(s).fn] = l]
    BY DEF Return, Yield
  <2> QED
    BY <1>1, <2>1, <2>2
<1>7. ASSUME NEW f \in Fns, Settled(s, f) PROVE Settled(s, f)'
  <2>1. CASE InUse(s, f)
    <3>1. Visible(s, f)' = Visible(s, f)
      BY <1>5 DEF Visible, Wrote, InXact, Top
    <3>2. /\ iters[s][f] \in {NoLib, cache[s][f]}
          /\ \A i \in DOMAIN frames[s] : frames[s][i].fn = f =>
                /\ frames[s][i].lib = cache[s][f]
                /\ frames[s][i].resumes \in {NoLib, cache[s][f]}
      BY <1>7, <2>1 DEF Settled
    <3>3. f = Frame(s).fn => Frame(s).lib = cache[s][f]
      BY <1>3, <3>2
    <3>4. iters'[s][f] \in {NoLib, iters[s][f], cache[s][f]}
      BY <1>6, <3>3
    <3>5. \A i \in DOMAIN frames'[s] : frames'[s][i].fn = f =>
             /\ frames'[s][i].lib = cache[s][f]
             /\ frames'[s][i].resumes \in {NoLib, cache[s][f]}
      BY <1>5, <3>2
    <3>6. cache'[s][f] = cache[s][f]
      BY <1>5
    <3> QED
      BY <1>1, <1>4, <1>7, <2>1, <3>1, <3>4, <3>5, <3>6, SettledKept
  <2>2. CASE ~InUse(s, f)
    <3>1. iters[s][f] = NoLib /\ \A i \in DOMAIN frames[s] : frames[s][i].fn # f
      BY <2>2 DEF InUse
    <3>2. f # Frame(s).fn
      BY <1>3, <3>1
    <3>3. iters'[s][f] = NoLib /\ \A i \in DOMAIN frames'[s] : frames'[s][i].fn # f
      BY <1>5, <1>6, <3>1, <3>2
    <3>4. ~InUse(s, f)'
      BY <3>3 DEF InUse
    <3> QED
      BY <3>4, Zenon DEF Settled
  <2> QED
    BY <2>1, <2>2
<1> QED
  BY <1>5, <1>6, <1>7 DEF Keeps, Rest, Kept

LEMMA EvaluateKeeps ==
  ASSUME NEW s \in Sessions, NEW f \in Fns, NEW resumes \in {NoLib, iters[s][f]},
         Around(s), RcInv', Evaluate(s, f, resumes)
  PROVE  Keeps(s)
<1>1. /\ RcInv /\ Shapes /\ LoaderInv
      /\ iters \in [Sessions -> [Fns -> Libs \cup {NoLib}]]
      /\ cache \in [Sessions -> [Fns -> Libs \cup {NoLib}]]
      /\ frames[s] \in Seq(FrameType)
      /\ SessionOK(libs[s], cache[s], frames[s])
  BY AroundShapes DEF Shapes, LoaderInv
<1>2. UNCHANGED <<xact, view, iters>>
  BY DEF Evaluate, xactVars
<1>3. \A g \in Fns : Visible(s, g)' = Visible(s, g)
  BY <1>2 DEF Visible, Wrote, InXact, Top
\* The frame of the call, on either path.
<1>4. ASSUME NEW l \in Libs, Enter(s, f, l, resumes), RowsStay(s),
             cache'[s][f] = l, UpToDate(s, f)',
             \A g \in Fns : g # f => cache'[s][g] = cache[s][g],
             \A t \in Sessions \ {s} : cache'[t] = cache[t],
             InUse(s, f) => cache[s][f] = l \/ ~Settled(s, f)
      PROVE  Keeps(s)
  <2> DEFINE e == [fn |-> f, lib |-> l, resumes |-> resumes]
  <2>1. frames'[s] = Append(frames[s], e)
    BY <1>1, <1>4 DEF Enter, Shapes
  <2>2. e \in FrameType
    BY <1>1 DEF FrameType
  <2>3. \A i \in DOMAIN frames'[s] :
           \/ i \in DOMAIN frames[s] /\ frames'[s][i] = frames[s][i]
           \/ frames'[s][i] = e
    <3> HIDE DEF e
    <3>1. /\ Len(frames'[s]) = Len(frames[s]) + 1 /\ frames'[s] \in Seq(FrameType)
          /\ \A i \in 1..Len(frames[s]) : frames'[s][i] = frames[s][i]
          /\ frames'[s][Len(frames[s]) + 1] = e
      BY <1>1, <2>1, <2>2, AppendProperties
    <3>2. /\ DOMAIN frames'[s] = 1..(Len(frames[s]) + 1)
          /\ DOMAIN frames[s] = 1..Len(frames[s]) /\ Len(frames[s]) \in Nat
      BY <1>1, <3>1
    <3> QED
      BY <3>1, <3>2
  <2>4. e.fn = f /\ e.lib = l /\ e.resumes = resumes
    OBVIOUS
  <2> HIDE DEF e
  <2>5. ASSUME NEW g \in Fns, Settled(s, g) PROVE Settled(s, g)'
    <3>1. CASE g # f /\ ~InUse(s, g)
      <4>1. iters'[s][g] = NoLib /\ \A i \in DOMAIN frames'[s] : frames'[s][i].fn # g
        BY <1>2, <2>3, <2>4, <3>1 DEF InUse
      <4>2. ~InUse(s, g)'
        BY <4>1 DEF InUse
      <4> QED
        BY <4>2, Zenon DEF Settled
    <3>2. CASE InUse(s, g)
      <4>1. /\ iters[s][g] \in {NoLib, cache[s][g]} /\ cache'[s][g] = cache[s][g]
            /\ \A i \in DOMAIN frames[s] : frames[s][i].fn = g =>
                  /\ frames[s][i].lib = cache[s][g]
                  /\ frames[s][i].resumes \in {NoLib, cache[s][g]}
        BY <1>4, <2>5, <3>2 DEF Settled
      <4>2. e.fn = g => e.lib = cache[s][g] /\ e.resumes \in {NoLib, cache[s][g]}
        BY <1>4, <2>4, <3>2, <4>1
      <4>3. \A i \in DOMAIN frames'[s] : frames'[s][i].fn = g =>
               /\ frames'[s][i].lib = cache[s][g]
               /\ frames'[s][i].resumes \in {NoLib, cache[s][g]}
        BY <2>3, <4>1, <4>2
      <4>4. iters'[s][g] = iters[s][g]
        BY <1>2
      <4> QED
        BY <1>1, <1>3, <1>4, <2>5, <3>2, <4>1, <4>3, <4>4, SettledKept
    <3>3. CASE g = f /\ ~InUse(s, f)
      <4>1. iters[s][f] = NoLib /\ \A i \in DOMAIN frames[s] : frames[s][i].fn # f
        BY <3>3 DEF InUse
      <4>2. \A i \in DOMAIN frames'[s] : frames'[s][i].fn = f => frames'[s][i] = e
        BY <2>3, <4>1
      <4>3. e.lib = cache'[s][f] /\ e.resumes = NoLib /\ iters'[s][f] = NoLib
        BY <1>2, <1>4, <2>4, <4>1
      <4>4. Settled(s, f)'
        BY <1>4, <4>2, <4>3 DEF Settled
      <4> QED
        BY <3>3, <4>4
    <3> QED
      BY <3>1, <3>2, <3>3
  <2>6. Rest(s)
    BY <1>2, <1>4 DEF Rest
  <2> QED
    BY <2>5, <2>6 DEF Keeps, Kept
<1>5. CASE RunCached(s, f, resumes)
  <2>1. /\ cache[s][f] \in Libs /\ libs[s][cache[s][f]] # Closed
        /\ libs[s] \in [Libs -> Library \cup {Closed}] /\ UpToDate(s, f)
    BY <1>1, <1>5 DEF RunCached, UpToDate, SessionOK
  <2>2. libs'[s] = Clone(libs[s], cache[s][f]) /\ cache' = cache
    BY <1>1, <1>5 DEF RunCached, Shapes
  <2>3. RowsStay(s)
    BY <2>1, <2>2, CloneKeeps, KeepsRowsStay
  <2>4. libs'[s][cache[s][f]] # Closed
    BY <2>1, <2>2 DEF RcInv, LoaderInv, SessionOK, UpToDate
  <2>5. CachedLib(s, f)'.row = CachedLib(s, f).row
    BY <2>1, <2>2, <2>3, <2>4 DEF RowsStay, CachedLib
  <2>6. UpToDate(s, f)'
    BY <1>3, <2>1, <2>2, <2>5 DEF UpToDate
  <2> QED
    BY <1>4, <1>5, <2>1, <2>2, <2>3, <2>6 DEF RunCached
\* A function in use is reloaded only if it is not settled.
<1>6. CASE LoadAndRun(s, f, resumes)
  <2>1. PICK l \in FreeLibs(s), closes \in CloseResults :
          /\ libs' = [libs EXCEPT ![s] =
                [Unloaded(s, f, closes) EXCEPT
                    ![l] = [fn |-> f, row |-> Visible(s, f), rc |-> 2]]]
          /\ cache' = [cache EXCEPT ![s][f] = l]
          /\ Enter(s, f, l, resumes)
    BY <1>6 DEF LoadAndRun
  <2> DEFINE lb == Unloaded(s, f, closes)
  <2>2. l \in Libs /\ libs[s][l] = Closed /\ KeepsRows(lb, libs[s])
    BY <1>1, CloseResultsType, UnloadedKeeps DEF FreeLibs
  <2>3. lb \in [Libs -> Library \cup {Closed}]
    BY <1>1, CloseResultsType, UnloadOK DEF SessionOK
  <2>4. libs'[s] = [lb EXCEPT ![l] = [fn |-> f, row |-> Visible(s, f), rc |-> 2]]
    BY <1>1, <2>1 DEF Shapes
  <2> HIDE DEF lb
  <2>5. /\ \A k \in Libs \ {l} : libs'[s][k] = lb[k]
        /\ libs'[s][l].row = Visible(s, f)
    BY <2>2, <2>3, <2>4
  <2>6. RowsStay(s)
    BY <2>2, <2>5 DEF RowsStay, KeepsRows
  <2>7. /\ cache'[s][f] = l /\ \A t \in Sessions \ {s} : cache'[t] = cache[t]
        /\ \A g \in Fns : g # f => cache'[s][g] = cache[s][g]
    BY <1>1, <2>1
  <2>8. UpToDate(s, f)'
    <3>1. CachedLib(s, f)'.row = Visible(s, f)
      BY <2>5, <2>7 DEF CachedLib
    <3>2. Visible(s, f) # Gone /\ l # NoLib
      BY <2>2, FnCacheAssumption DEF Evaluate
    <3> QED
      BY <1>3, <2>7, <3>1, <3>2 DEF UpToDate
  <2>9. InUse(s, f) => ~Settled(s, f)
    BY <1>6 DEF LoadAndRun, Settled
  <2> QED
    BY <1>4, <1>6, <2>1, <2>2, <2>6, <2>7, <2>8, <2>9
<1> QED
  BY <1>5, <1>6 DEF Evaluate

LEMMA StepKeeps ==
  ASSUME VersionInv, RcInv', \A s \in Sessions : Around(s), Next
  PROVE  KeepsSettled
<1>1. ASSUME NEW s \in Sessions, Transact(s) PROVE KeepsSettled
  BY <1>1, TransactCalls, TransactKeeps, OthersSettled
<1>2. ASSUME NEW s \in Sessions, NEW f \in Fns, Define(s, f) PROVE KeepsSettled
  BY <1>2, DefineCalls, DefineKeeps, OthersSettled
<1>3. ASSUME NEW s \in Sessions, NEW f \in Fns, Execute(s, f) PROVE KeepsSettled
  <2>1. CASE CallFails(s, f)
    <3>1. Apart(s)
      BY <2>1, AbortUnwinds DEF CallFails
    <3>2. Keeps(s)
      BY <2>1, AbortKeeps DEF CallFails
    <3> QED
      BY <3>1, <3>2, OthersSettled
  <2>2. CASE Call(s, f) \/ Fetch(s, f)
    <3>1. iters[s][f] \in Libs \cup {NoLib}
      BY DEF VersionInv, RcInv, CatalogTypes
    <3>2. PICK resumes \in {NoLib, iters[s][f]} : Evaluate(s, f, resumes)
      BY <2>2 DEF Call, Fetch
    <3>3. Apart(s)
      BY <3>1, <3>2, EvaluateCalls
    <3>4. Keeps(s)
      BY <3>2, EvaluateKeeps
    <3> QED
      BY <3>3, <3>4, OthersSettled
  <2> QED
    BY <1>3, <2>1, <2>2 DEF Execute
<1>4. ASSUME NEW s \in Sessions, Return(s) \/ Yield(s) PROVE KeepsSettled
  <2>1. Apart(s)
    BY <1>4, LeaveReturns DEF Return, Yield
  <2> QED
    BY <1>4, <2>1, LeaveKeeps, OthersSettled
<1> QED
  BY <1>1, <1>2, <1>3, <1>4 DEF Next

LEMMA StutterSettled ==
  ASSUME UNCHANGED vars
  PROVE  \A s \in Sessions, f \in Fns : Settled(s, f)' <=> Settled(s, f)
<1>1. \A s \in Sessions, f \in Fns : Visible(s, f)' = Visible(s, f)
  BY DEF vars, xactVars, Visible, Wrote, InXact, Top
<1> QED
  BY <1>1 DEF vars, loaderVars, Settled, InUse, UpToDate, CachedLib

\* Only another row of a function in use, or a CREATE OR REPLACE of it, be it one
\* that fails and leaves the row as it was, sets a call on another library than the
\* iterator it resumes: with any number of functions, nested calls, cursors that
\* rollbacks leave open, and errors caught.
THEOREM OnlyRedefinitionUnsettles == Spec => OnlyRedefinitionStrands
<1>1. VersionInv /\ VersionInv' /\ [Next]_vars
        /\ (\A s \in Sessions : RunTyped(s)) /\ (\A s \in Sessions : RunTyped(s))'
        /\ (\A s \in Sessions : SeenBy(s) \in Calls!Definitions)'
        => KeepsSettled
  <2> SUFFICES ASSUME VersionInv, VersionInv', [Next]_vars,
                      \A s \in Sessions : RunTyped(s),
                      (\A s \in Sessions : RunTyped(s))',
                      (\A s \in Sessions : SeenBy(s) \in Calls!Definitions)'
               PROVE  KeepsSettled
    OBVIOUS
  <2>1. \A s \in Sessions : Around(s)
    BY DEF Around
  <2>2. RcInv'
    BY DEF VersionInv
  <2> QED
    BY <2>1, <2>2, StepKeeps, StutterSettled DEF KeepsSettled
<1> QED
  BY <1>1, SeenTyped, RunsTyped, VersionInvariance, PTL
  DEF Spec, OnlyRedefinitionStrands

\* No step changes the row of a function, or is a CREATE OR REPLACE of it that
\* succeeds or fails, while calls of it are in progress or iterators of it open,
\* and leaves any of them so.
NothingInUseRedefined ==
    \A s \in Sessions, f \in Fns : InUse(s, f) /\ InUse(s, f)' => Undisturbed(s, f)

AllSettled == \A s \in Sessions, f \in Fns : Settled(s, f)

\* Sessions in which nothing in use is redefined resume every iterator in the
\* library that made it.
THEOREM IteratorsSurviveOtherwise ==
  Spec /\ [][NothingInUseRedefined]_vars => []IteratorResumedByItsLibrary
<1>1. Init => AllSettled
  BY DEF Init, AllSettled, Settled, InUse, NoLibs
<1>2. AllSettled /\ [KeepsSettled]_vars /\ [NothingInUseRedefined]_vars => AllSettled'
  <2>1. CASE UNCHANGED vars
    BY <2>1, StutterSettled DEF AllSettled
  <2>2. CASE KeepsSettled /\ NothingInUseRedefined
    BY <2>2 DEF AllSettled, KeepsSettled, NothingInUseRedefined
  <2> QED
    BY <2>1, <2>2
<1>3. VersionInv /\ AllSettled => IteratorResumedByItsLibrary
  <2> SUFFICES ASSUME VersionInv, AllSettled, NEW s \in Sessions,
                      NEW i \in DOMAIN frames[s], frames[s][i].resumes # NoLib
               PROVE  frames[s][i].lib = frames[s][i].resumes
    BY DEF IteratorResumedByItsLibrary
  <2>1. frames[s] \in Seq(FrameType)
    BY ShapesHold DEF Shapes
  <2>2. frames[s][i].fn \in Fns
    BY <2>1, FrameLib DEF FrameType
  <2>3. InUse(s, frames[s][i].fn)
    BY DEF InUse
  <2> QED
    BY <2>2, <2>3 DEF AllSettled, Settled
<1> QED
  BY <1>1, <1>2, <1>3, OnlyRedefinitionUnsettles, VersionInvariance, PTL
  DEF Spec, OnlyRedefinitionStrands
============================================================================
