--------------------------- MODULE FnCacheProofs ---------------------------
(***************************************************************************)
(* Theorems about FnCache.                                                 *)
(***************************************************************************)
EXTENDS FnCache, FiniteSetTheorems, SequenceTheorems, TLAPS

----------------------------------------------------------------------------
(* Types of the operators.                                                 *)

LEMMA NTargetsType == NTargets \in Nat
  BY FnCacheAssumption, FS_CardinalityType DEF NTargets

LEMMA TopType ==
  ASSUME TypeOK, NEW s \in Sessions, InXact(s)
  PROVE  /\ Len(xact[s]) \in Nat \ {0}
         /\ \A i \in 1..Len(xact[s]) : xact[s][i] \in Level
         /\ Top(s) \in Level
         /\ Top(s).xid \in 0..MaxXid
         /\ Top(s).rows \in [Fns -> Row \cup {Gone, Unwritten}]
<1>1. xact[s] \in Seq(Level)
  BY DEF TypeOK
<1>2. xact[s] # <<>>
  BY DEF InXact
<1>3. Len(xact[s]) \in Nat \ {0}
  BY <1>1, <1>2
<1>4. \A i \in 1..Len(xact[s]) : xact[s][i] \in Level
  BY <1>1
<1>5. Top(s) \in Level
  BY <1>3, <1>4 DEF Top
<1> QED
  BY <1>3, <1>4, <1>5 DEF Level

LEMMA PopType ==
  ASSUME TypeOK, NEW s \in Sessions, InXact(s)
  PROVE  Pop(xact[s]) \in Seq(Level)
  BY TopType DEF TypeOK, InXact, Pop

LEMMA VisibleType ==
  ASSUME TypeOK, NEW s \in Sessions, NEW f \in Fns
  PROVE  Visible(s, f) \in Row \cup {Gone}
  BY TopType DEF TypeOK, Visible, Wrote

LEMMA CurrentType ==
  ASSUME TypeOK, NEW s \in Sessions, NEW f \in Fns
  PROVE  Current(s, f) \in Row \cup {Gone}
  BY TopType DEF TypeOK, Current, Wrote

LEMMA XidOfType ==
  ASSUME TypeOK, NEW s \in Sessions, InXact(s), XidOf(s) <= MaxXid
  PROVE  XidOf(s) \in 1..MaxXid
  BY TopType, FnCacheAssumption DEF TypeOK, XidOf

LEMMA StampType ==
  ASSUME NEW row \in Row \cup {Gone, Unwritten}, NEW n \in 0..MaxCid
  PROVE  /\ Stamp(row, n) \in Row \cup {Gone, Unwritten}
         /\ row \in Row \cup {Gone} => Stamp(row, n) \in Row \cup {Gone}
  BY RowAssumption DEF Stamp, Row

LEMMA FiniteReferences ==
  ASSUME NEW fr, IsFiniteSet(DOMAIN fr), NEW l
  PROVE  /\ References(fr, l) \in Nat
         /\ IsFiniteSet({i \in DOMAIN fr : fr[i].lib = l})
         /\ References(fr, l) = 0 <=> \A i \in DOMAIN fr : fr[i].lib # l
<1>1. IsFiniteSet({i \in DOMAIN fr : fr[i].lib = l})
  BY FS_Subset
<1>2. References(fr, l) \in Nat
  BY <1>1, FS_CardinalityType DEF References
<1>3. References(fr, l) = 0 <=> {i \in DOMAIN fr : fr[i].lib = l} = {}
  BY <1>1, FS_EmptySet DEF References
<1> QED
  BY <1>1, <1>2, <1>3

LEMMA FiniteFrames ==
  ASSUME NEW fr \in Seq(FrameType)
  PROVE  DOMAIN fr = 1..Len(fr) /\ Len(fr) \in Nat /\ IsFiniteSet(DOMAIN fr)
<1>1. DOMAIN fr = 1..Len(fr) /\ Len(fr) \in Nat
  OBVIOUS
<1> QED
  BY <1>1, FS_Interval

LEMMA ReferencesType ==
  ASSUME NEW fr \in Seq(FrameType), NEW l
  PROVE  /\ References(fr, l) \in Nat
         /\ IsFiniteSet({i \in DOMAIN fr : fr[i].lib = l})
  BY FiniteFrames, FiniteReferences

LEMMA FrameLib ==
  ASSUME NEW fr \in Seq(FrameType), NEW i \in DOMAIN fr
  PROVE  fr[i] \in FrameType /\ fr[i].lib \in Libs /\ fr[i].fn \in Fns
<1>1. fr[i] \in FrameType
  OBVIOUS
<1> QED
  BY <1>1 DEF FrameType

LEMMA DropRefType ==
  ASSUME NEW lb \in [Libs -> Library \cup {Closed}], NEW l \in Libs,
         lb[l] # Closed, NEW closes \in BOOLEAN
  PROVE  DropRef(lb, l, closes) \in [Libs -> Library \cup {Closed}]
  BY DEF DropRef, Library

LEMMA CountType ==
  ASSUME NEW lib \in Library, NEW n \in Int
  PROVE  [lib EXCEPT !.rc = n] \in Library
  BY DEF Library

LEMMA NoReferences ==
  ASSUME NEW fr \in Seq(FrameType), NEW l
  PROVE  References(fr, l) = 0 <=> \A i \in DOMAIN fr : fr[i].lib # l
  BY FiniteFrames, FiniteReferences

\* The first n frames, and those above them.
LEMMA FramesSplit ==
  ASSUME NEW fr \in Seq(FrameType), NEW n \in 0..Len(fr)
  PROVE  /\ SubSeq(fr, 1, n) \in Seq(FrameType) /\ Len(SubSeq(fr, 1, n)) = n
         /\ DOMAIN SubSeq(fr, 1, n) = 1..n
         /\ \A i \in 1..n : i \in DOMAIN fr /\ SubSeq(fr, 1, n)[i] = fr[i]
         /\ DOMAIN Above(fr, n) = (n + 1)..Len(fr)
         /\ IsFiniteSet(DOMAIN Above(fr, n))
         /\ \A i \in DOMAIN Above(fr, n) : i \in DOMAIN fr /\ Above(fr, n)[i] = fr[i]
<1>1. /\ DOMAIN fr = 1..Len(fr) /\ Len(fr) \in Nat /\ n \in Nat
      /\ \A i \in 1..n : i \in DOMAIN fr /\ fr[i] \in FrameType
  BY FiniteFrames, FrameLib
<1>2. /\ SubSeq(fr, 1, n) \in Seq(FrameType)
      /\ Len(SubSeq(fr, 1, n)) = IF 1 <= n THEN n - 1 + 1 ELSE 0
      /\ \A i \in 1..(n - 1 + 1) : SubSeq(fr, 1, n)[i] = fr[1 + i - 1]
  BY <1>1, SubSeqProperties
<1>3. Len(SubSeq(fr, 1, n)) = n /\ \A i \in 1..n : SubSeq(fr, 1, n)[i] = fr[i]
  BY <1>1, <1>2
<1>4. DOMAIN Above(fr, n) = (n + 1)..Len(fr)
  BY DEF Above
<1>5. IsFiniteSet((n + 1)..Len(fr))
  BY <1>1, FS_Interval
<1>6. \A i \in (n + 1)..Len(fr) : i \in DOMAIN fr /\ Above(fr, n)[i] = fr[i]
  BY <1>1 DEF Above
<1> QED
  BY <1>1, <1>2, <1>3, <1>4, <1>5, <1>6

LEMMA ReferencesSplit ==
  ASSUME NEW fr \in Seq(FrameType), NEW n \in 0..Len(fr), NEW l
  PROVE  References(fr, l) = References(SubSeq(fr, 1, n), l) + References(Above(fr, n), l)
<1> DEFINE R(q) == {i \in DOMAIN q : q[i].lib = l}
           low == SubSeq(fr, 1, n)
           high == Above(fr, n)
<1>1. IsFiniteSet(R(low)) /\ IsFiniteSet(R(high))
  <2>1. low \in Seq(FrameType) /\ IsFiniteSet(DOMAIN high)
    BY FramesSplit
  <2> HIDE DEF low, high
  <2>2. IsFiniteSet(R(low))
    BY <2>1, ReferencesType
  <2>3. IsFiniteSet(R(high))
    BY <2>1, FiniteReferences
  <2> QED
    BY <2>2, <2>3
<1>2. R(fr) = R(low) \cup R(high) /\ R(low) \cap R(high) = {}
  <2>1. DOMAIN fr = 1..Len(fr) /\ Len(fr) \in Nat
    OBVIOUS
  <2>2. /\ DOMAIN low = 1..n /\ DOMAIN high = (n + 1)..Len(fr)
        /\ \A i \in DOMAIN low : i \in DOMAIN fr /\ low[i] = fr[i]
        /\ \A i \in DOMAIN high : i \in DOMAIN fr /\ high[i] = fr[i]
    BY FramesSplit
  <2>3. /\ DOMAIN fr = DOMAIN low \cup DOMAIN high
        /\ DOMAIN low \cap DOMAIN high = {}
    BY <2>1, <2>2
  <2> HIDE DEF low, high
  <2> QED
    BY <2>2, <2>3
<1>3. Cardinality(R(low) \cup R(high))
        = Cardinality(R(low)) + Cardinality(R(high)) - Cardinality(R(low) \cap R(high))
  BY <1>1, FS_Union
<1>4. Cardinality(R(low) \cap R(high)) = 0
  BY <1>2, FS_EmptySet
<1>5. Cardinality(R(low)) \in Nat /\ Cardinality(R(high)) \in Nat
  BY <1>1, FS_CardinalityType
<1>6. /\ References(fr, l) = Cardinality(R(fr))
      /\ References(low, l) = Cardinality(R(low))
      /\ References(high, l) = Cardinality(R(high))
  BY DEF References
<1> HIDE DEF R, low, high
<1>7. References(fr, l) = References(low, l) + References(high, l)
  BY <1>2, <1>3, <1>4, <1>5, <1>6
<1> QED
  BY <1>7 DEF low, high

LEMMA DropFramesType ==
  ASSUME NEW lb \in [Libs -> Library \cup {Closed}], NEW fr, IsFiniteSet(DOMAIN fr),
         \A i \in DOMAIN fr : lb[fr[i].lib] # Closed, NEW closes \in BOOLEAN
  PROVE  DropFrames(lb, fr, closes) \in [Libs -> Library \cup {Closed}]
<1>1. ASSUME NEW l \in Libs, References(fr, l) # 0
      PROVE  [lb[l] EXCEPT !.rc = lb[l].rc - References(fr, l)] \in Library
  <2>1. PICK i \in DOMAIN fr : fr[i].lib = l
    BY <1>1, FiniteReferences
  <2>2. lb[l] \in Library
    BY <2>1
  <2>3. lb[l].rc - References(fr, l) \in Int
    <3>1. lb[l].rc \in Int
      BY <2>2 DEF Library
    <3>2. References(fr, l) \in Nat
      BY FiniteReferences
    <3> QED
      BY <3>1, <3>2
  <2> QED
    BY <2>2, <2>3, CountType
<1> QED
  BY <1>1, Zenon DEF DropFrames

LEMMA UnloadedType ==
  ASSUME TypeOK, HeldLibrariesMapped, NEW s \in Sessions, NEW f \in Fns,
         NEW closes \in BOOLEAN
  PROVE  Unloaded(s, f, closes) \in [Libs -> Library \cup {Closed}]
<1>1. libs[s] \in [Libs -> Library \cup {Closed}] /\ cache[s][f] \in Libs \cup {NoLib}
  BY DEF TypeOK
<1>2. ASSUME cache[s][f] # NoLib
      PROVE  DropRef(libs[s], cache[s][f], closes) \in [Libs -> Library \cup {Closed}]
  BY <1>1, <1>2, DropRefType DEF HeldLibrariesMapped, CachedLib
<1> QED
  BY <1>1, <1>2 DEF Unloaded

\* No transaction has handed out more combo ids than it has run commands.
ComboBound == \A s \in Sessions : combo[s] <= cid[s]

LEMMA LevelsWithCalls ==
  ASSUME TypeOK, NEW s \in Sessions, InXact(s), NEW f, NEW row
  PROVE  /\ Len(LevelsWith(s, f, row)) = Len(xact[s])
         /\ \A i \in 1..Len(xact[s]) :
               LevelsWith(s, f, row)[i].calls = xact[s][i].calls
<1> DEFINE n == Len(xact[s])
           new == LevelsWith(s, f, row)
           top == [xid |-> XidOf(s), rows |-> [Top(s).rows EXCEPT ![f] = row],
                   calls |-> Top(s).calls]
           below(i) == [xact[s][i] EXCEPT !.rows[f] = Stamp(Top(s).rows[f], combo[s])]
<1>1. n \in Nat /\ \A i \in 1..n : xact[s][i] \in Level
  BY TopType
<1>2. top.calls = xact[s][n].calls /\ \A i \in 1..n : below(i).calls = xact[s][i].calls
  BY <1>1 DEF Level, Top
<1>3. new = [i \in 1..n |->
               IF i = n THEN top
               ELSE IF Top(s).rows[f] # Unwritten /\ xact[s][i].rows[f] = Top(s).rows[f]
               THEN below(i) ELSE xact[s][i]]
  BY DEF LevelsWith
<1> HIDE DEF new, n, top, below
<1>4. DOMAIN new = 1..n /\ \A i \in 1..n : new[i].calls = xact[s][i].calls
  BY <1>2, <1>3
<1>5. Len(new) = n
  BY <1>1, <1>3
<1> QED
  BY <1>4, <1>5 DEF new, n

\* What a write that succeeds and one that is undone have in common.
LEMMA WrittenTypes ==
  ASSUME TypeOK, ComboBound, NEW s \in Sessions, NEW f \in Fns, InXact(s),
         NEW row \in Row \cup {Gone}, NEW updates \in Nat,
         Writes(s, updates), StampCommitted(s, f)
  PROVE  /\ committed' \in [Fns -> Row \cup {Gone}]
         /\ nextXid' \in 1..(MaxXid + 1)
         /\ LevelsWith(s, f, row) \in Seq(Level)
         /\ cid[s] + updates + 1 \in 0..(MaxCid + 1)
         /\ combo[s] + CombosOf(s, f, updates) \in Nat
         /\ combo[s] + CombosOf(s, f, updates) <= cid[s] + updates + 1
<1> DEFINE n == Len(xact[s])
           rows == Top(s).rows
           old == rows[f]
           new == LevelsWith(s, f, row)
<1>1. /\ XidOf(s) \in 1..MaxXid
      /\ cid[s] + updates <= MaxCid
      /\ cid[s] \in 0..MaxCid /\ combo[s] \in 0..MaxCid /\ combo[s] <= cid[s]
  <2>1. XidOf(s) <= MaxXid /\ cid[s] + updates <= MaxCid
    BY DEF Writes
  <2>2. cid[s] \in 0..(MaxCid + 1) /\ combo[s] \in Nat /\ combo[s] <= cid[s]
    BY DEF TypeOK, ComboBound
  <2> QED
    BY <2>1, <2>2, XidOfType, FnCacheAssumption
<1>2. committed' \in [Fns -> Row \cup {Gone}]
  <2>1. committed[f] \in Row \cup {Gone}
    BY DEF TypeOK
  <2>2. Stamp(committed[f], cid[s]) \in Row \cup {Gone}
    BY <1>1, <2>1, StampType
  <2>3. committed' = [committed EXCEPT ![f] =
                        IF Wrote(s, f) THEN @ ELSE Stamp(committed[f], cid[s])]
    BY DEF StampCommitted
  <2> QED
    BY <2>1, <2>2, <2>3 DEF TypeOK
<1>3. nextXid' \in 1..(MaxXid + 1)
  <2>1. nextXid' = IF Top(s).xid = 0 THEN nextXid + 1 ELSE nextXid
    BY DEF Writes
  <2>2. nextXid \in 1..(MaxXid + 1) /\ (Top(s).xid = 0 => XidOf(s) = nextXid)
    BY DEF TypeOK, XidOf
  <2> QED
    BY <1>1, <2>1, <2>2, FnCacheAssumption
<1>4. new \in Seq(Level)
  <2> DEFINE top == [xid |-> XidOf(s), rows |-> [rows EXCEPT ![f] = row],
                     calls |-> Top(s).calls]
             below(i) == [xact[s][i] EXCEPT !.rows[f] = Stamp(old, combo[s])]
  <2>1. n \in Nat \ {0} /\ \A i \in 1..n : xact[s][i] \in Level
    BY TopType
  <2>2. top \in Level
    BY <1>1, TopType, FnCacheAssumption DEF Level
  <2>3. ASSUME NEW i \in 1..n
        PROVE  below(i) \in Level
    <3>1. Stamp(old, combo[s]) \in Row \cup {Gone, Unwritten}
      BY <1>1, TopType, StampType
    <3> QED
      BY <2>1, <3>1 DEF Level
  <2>4. new = [i \in 1..n |->
                 IF i = n THEN top
                 ELSE IF old # Unwritten /\ xact[s][i].rows[f] = old THEN below(i)
                 ELSE xact[s][i]]
    BY DEF LevelsWith
  <2> HIDE DEF new, n, top, below
  <2>5. new \in [1..n -> Level]
    BY <2>1, <2>2, <2>3, <2>4
  <2> QED
    BY <2>1, <2>5
<1>5. cid[s] + updates + 1 \in 0..(MaxCid + 1)
  BY <1>1, FnCacheAssumption
<1>6. /\ combo[s] + CombosOf(s, f, updates) \in Nat
      /\ combo[s] + CombosOf(s, f, updates) <= cid[s] + updates + 1
  <2> DEFINE one == IF old \in Row THEN 1 ELSE 0
  <2>1. one \in 0..1
    OBVIOUS
  <2>2. CombosOf(s, f, updates) = updates + one
    BY DEF CombosOf
  <2> HIDE DEF one
  <2> QED
    BY <1>1, <2>1, <2>2
<1> QED
  BY <1>2, <1>3, <1>4, <1>5, <1>6

LEMMA WriteRowType ==
  ASSUME TypeOK, ComboBound, NEW s \in Sessions, NEW f \in Fns, InXact(s),
         NEW row \in Row \cup {Gone}, NEW updates \in Nat,
         WriteRow(s, f, row, updates)
  PROVE  /\ committed' \in [Fns -> Row \cup {Gone}]
         /\ nextXid' \in 1..(MaxXid + 1)
         /\ xact' \in [Sessions -> Seq(Level)]
         /\ cid' \in [Sessions -> 0..(MaxCid + 1)]
         /\ combo' \in [Sessions -> Nat]
         /\ view' \in [Sessions -> [Fns -> Row \cup {Gone}]]
         /\ ComboBound'
<1> DEFINE commands == cid[s] + updates + 1
           combos == combo[s] + CombosOf(s, f, updates)
<1>1. /\ Writes(s, updates) /\ StampCommitted(s, f)
      /\ xact' = [xact EXCEPT ![s] = LevelsWith(s, f, row)]
      /\ view' = [view EXCEPT ![s] = committed]
      /\ cid' = [cid EXCEPT ![s] = commands]
      /\ combo' = [combo EXCEPT ![s] = combos]
  BY DEF WriteRow
<1>2. /\ committed' \in [Fns -> Row \cup {Gone}] /\ nextXid' \in 1..(MaxXid + 1)
      /\ LevelsWith(s, f, row) \in Seq(Level)
      /\ commands \in 0..(MaxCid + 1) /\ combos \in Nat /\ combos <= commands
  BY <1>1, WrittenTypes
<1> HIDE DEF commands, combos
<1> QED
  BY <1>1, <1>2 DEF TypeOK, ComboBound

----------------------------------------------------------------------------
(* One session's libraries lb, cache c and frames fr, and what a single    *)
(* step does to them.                                                      *)

SessionOK(lb, c, fr) ==
    /\ lb \in [Libs -> Library \cup {Closed}]
    /\ c \in [Fns -> Libs \cup {NoLib}]
    /\ fr \in Seq(FrameType)
    /\ \A l \in Libs : lb[l] # Closed => lb[l].rc = References(fr, l) + Entries(c, l)
    /\ \A i \in DOMAIN fr : lb[fr[i].lib] # Closed /\ lb[fr[i].lib].fn = fr[i].fn
    /\ \A f \in Fns : c[f] # NoLib => lb[c[f]] # Closed /\ lb[c[f]].fn = f

LEMMA ReferencesEmpty ==
  ASSUME NEW l
  PROVE  References(<<>>, l) = 0
<1>1. {i \in DOMAIN <<>> : <<>>[i].lib = l} = {}
  OBVIOUS
<1> QED
  BY <1>1, FS_EmptySet DEF References

LEMMA ReferencesPush ==
  ASSUME NEW fr \in Seq(FrameType), NEW e \in FrameType, NEW l
  PROVE  References(Append(fr, e), l) = References(fr, l) + IF e.lib = l THEN 1 ELSE 0
<1> DEFINE R(q) == {i \in DOMAIN q : q[i].lib = l}
           n == Len(fr)
           new == Append(fr, e)
<1>1. /\ n \in Nat /\ Len(new) = n + 1
      /\ DOMAIN fr = 1..n /\ DOMAIN new = 1..(n + 1)
      /\ new[n + 1] = e /\ \A i \in 1..n : new[i] = fr[i]
  OBVIOUS
<1>2. IsFiniteSet(R(fr)) /\ Cardinality(R(fr)) \in Nat
  BY ReferencesType, FS_CardinalityType
<1>3. n + 1 \notin R(fr)
  BY <1>1
<1>4. CASE e.lib = l
  <2>1. R(new) = R(fr) \cup {n + 1}
    BY <1>1, <1>4
  <2>2. Cardinality(R(fr) \cup {n + 1}) = Cardinality(R(fr)) + 1
    BY <1>2, <1>3, FS_AddElement
  <2> QED
    BY <1>4, <2>1, <2>2 DEF References
<1>5. CASE e.lib # l
  <2>1. R(new) = R(fr)
    BY <1>1, <1>5
  <2>2. References(new, l) = Cardinality(R(fr)) /\ References(fr, l) = Cardinality(R(fr))
    BY <2>1 DEF References
  <2> QED
    BY <1>2, <1>5, <2>2
<1> QED
  BY <1>4, <1>5

LEMMA PopThenPush ==
  ASSUME NEW fr \in Seq(FrameType), fr # <<>>
  PROVE  /\ Len(fr) \in 1..Len(fr) /\ fr[Len(fr)] \in FrameType
         /\ Pop(fr) \in Seq(FrameType)
         /\ DOMAIN Pop(fr) = 1..(Len(fr) - 1)
         /\ \A i \in DOMAIN Pop(fr) : i \in DOMAIN fr /\ Pop(fr)[i] = fr[i]
         /\ fr = Append(Pop(fr), fr[Len(fr)])
<1>1. Len(fr) \in Nat \ {0} /\ DOMAIN fr = 1..Len(fr) /\ \A i \in 1..Len(fr) : fr[i] \in FrameType
  OBVIOUS
<1>2. /\ Pop(fr) \in Seq(FrameType)
      /\ Len(Pop(fr)) = Len(fr) - 1
      /\ \A i \in 1..(Len(fr) - 1) : Pop(fr)[i] = fr[i]
  BY <1>1 DEF Pop
<1>3. DOMAIN Pop(fr) = 1..(Len(fr) - 1)
  BY <1>2
<1>4. fr = Append(Pop(fr), fr[Len(fr)])
  <2> DEFINE new == Append(Pop(fr), fr[Len(fr)])
  <2>1. /\ new \in Seq(FrameType) /\ Len(new) = Len(fr) - 1 + 1
        /\ \A i \in 1..(Len(fr) - 1) : new[i] = fr[i]
        /\ new[Len(fr) - 1 + 1] = fr[Len(fr)]
    <3> DEFINE p == Pop(fr)
               e == fr[Len(fr)]
    <3>1. p \in Seq(FrameType) /\ e \in FrameType
      BY <1>1, <1>2
    <3> HIDE DEF p, e
    <3>2. /\ Append(p, e) \in Seq(FrameType) /\ Len(Append(p, e)) = Len(p) + 1
          /\ \A i \in 1..Len(p) : Append(p, e)[i] = p[i]
          /\ Append(p, e)[Len(p) + 1] = e
      BY <3>1, AppendProperties
    <3> QED
      BY <1>2, <3>2 DEF p, e
  <2>2. Len(fr) - 1 + 1 = Len(fr)
    BY <1>1
  <2>3. \A i \in 1..Len(fr) : new[i] = fr[i]
    BY <1>1, <2>1, <2>2
  <2> QED
    <3>1. Len(fr) = Len(new) /\ new \in Seq(FrameType)
      BY <2>1, <2>2
    <3> HIDE DEF new
    <3>2. fr = new
      BY <2>3, <3>1, SeqEqual
    <3> QED
      BY <3>2 DEF new
<1>5. \A i \in DOMAIN Pop(fr) : i \in DOMAIN fr /\ Pop(fr)[i] = fr[i]
  BY <1>1, <1>2, <1>3
<1>6. Len(fr) \in 1..Len(fr) /\ fr[Len(fr)] \in FrameType
  BY <1>1
<1> QED
  BY <1>2, <1>3, <1>4, <1>5, <1>6

LEMMA ReferencesPop ==
  ASSUME NEW fr \in Seq(FrameType), fr # <<>>, NEW l
  PROVE  References(fr, l)
           = References(Pop(fr), l) + IF fr[Len(fr)].lib = l THEN 1 ELSE 0
<1>1. References(Append(Pop(fr), fr[Len(fr)]), l)
        = References(Pop(fr), l) + IF fr[Len(fr)].lib = l THEN 1 ELSE 0
  BY PopThenPush, ReferencesPush
<1> QED
  BY <1>1, PopThenPush

LEMMA EntriesCount ==
  ASSUME NEW c \in [Fns -> Libs \cup {NoLib}], NEW l
  PROVE  /\ (\A f \in Fns : c[f] # l) => Entries(c, l) = 0
         /\ \A f \in Fns : (c[f] = l /\ \A g \in Fns : c[g] = l => g = f)
                              => Entries(c, l) = 1
<1>1. ASSUME \A f \in Fns : c[f] # l PROVE Entries(c, l) = 0
  <2>1. {f \in Fns : c[f] = l} = {}
    BY <1>1
  <2> QED
    BY <2>1, FS_EmptySet DEF Entries
<1>2. ASSUME NEW f \in Fns, c[f] = l, \A g \in Fns : c[g] = l => g = f
      PROVE  Entries(c, l) = 1
  <2>1. {g \in Fns : c[g] = l} = {f}
    BY <1>2
  <2> QED
    BY <2>1, FS_Singleton DEF Entries
<1> QED
  BY <1>1, <1>2


\* Dropping one of the references to l that makes counts come out right.
LEMMA DropRefCount ==
  ASSUME NEW lb \in [Libs -> Library \cup {Closed}], NEW l \in Libs,
         lb[l] # Closed, NEW closes \in BOOLEAN
  PROVE  /\ DropRef(lb, l, closes) \in [Libs -> Library \cup {Closed}]
         /\ \A k \in Libs : k # l => DropRef(lb, l, closes)[k] = lb[k]
         /\ DropRef(lb, l, closes)[l] # Closed =>
               /\ DropRef(lb, l, closes)[l].rc = lb[l].rc - 1
               /\ DropRef(lb, l, closes)[l].fn = lb[l].fn
         /\ DropRef(lb, l, closes)[l] = Closed => lb[l].rc = 1
<1>1. DropRef(lb, l, closes) \in [Libs -> Library \cup {Closed}]
  BY DropRefType
<1>2. lb[l] \in Library /\ [lb[l] EXCEPT !.rc = lb[l].rc - 1] \in Library
  BY CountType DEF Library
<1>3. CASE lb[l].rc = 1 /\ closes
  BY <1>1, <1>3 DEF DropRef
<1>4. CASE ~(lb[l].rc = 1 /\ closes)
  <2>1. DropRef(lb, l, closes) = [lb EXCEPT ![l] = [lb[l] EXCEPT !.rc = lb[l].rc - 1]]
    BY <1>4 DEF DropRef
  <2>2. DropRef(lb, l, closes)[l] = [lb[l] EXCEPT !.rc = lb[l].rc - 1]
    BY <2>1
  <2>3. DropRef(lb, l, closes)[l] # Closed
    BY <1>2, <2>2, LibraryAssumption
  <2>4. /\ [lb[l] EXCEPT !.rc = lb[l].rc - 1].rc = lb[l].rc - 1
        /\ [lb[l] EXCEPT !.rc = lb[l].rc - 1].fn = lb[l].fn
    BY <1>2 DEF Library
  <2> QED
    BY <1>1, <2>1, <2>2, <2>3, <2>4
<1> QED
  BY <1>3, <1>4

LEMMA DropCached ==
  ASSUME NEW lb, NEW c, NEW fr, SessionOK(lb, c, fr),
         NEW f \in Fns, c[f] # NoLib, NEW closes \in BOOLEAN
  PROVE  SessionOK(DropRef(lb, c[f], closes), [c EXCEPT ![f] = NoLib], fr)
<1> DEFINE l == c[f]
           new == DropRef(lb, l, closes)
           d == [c EXCEPT ![f] = NoLib]
<1>1. /\ lb \in [Libs -> Library \cup {Closed}] /\ c \in [Fns -> Libs \cup {NoLib}]
      /\ fr \in Seq(FrameType) /\ d \in [Fns -> Libs \cup {NoLib}]
      /\ l \in Libs /\ lb[l] # Closed /\ lb[l].fn = f
  BY DEF SessionOK
<1>2. /\ \A g \in Fns : c[g] = l => g = f
      /\ \A g \in Fns : d[g] # l
      /\ \A g \in Fns : g # f => d[g] = c[g]
  BY <1>1, FnCacheAssumption DEF SessionOK
<1>3. Entries(c, l) = 1 /\ Entries(d, l) = 0
  BY <1>1, <1>2, EntriesCount
<1>4. \A k \in Libs : k # l => Entries(d, k) = Entries(c, k)
  <2> SUFFICES ASSUME NEW k \in Libs, k # l
               PROVE  {g \in Fns : d[g] = k} = {g \in Fns : c[g] = k}
    BY DEF Entries
  <2> QED
    BY <1>1, <1>2, FnCacheAssumption
<1>5. References(fr, l) \in Nat /\ lb[l].rc = References(fr, l) + 1
  BY <1>1, <1>3, ReferencesType DEF SessionOK
<1>6. /\ new \in [Libs -> Library \cup {Closed}]
      /\ \A k \in Libs : k # l => new[k] = lb[k]
      /\ new[l] # Closed => new[l].rc = lb[l].rc - 1 /\ new[l].fn = f
      /\ new[l] = Closed => References(fr, l) = 0
  BY <1>1, <1>5, DropRefCount
<1>7. \A k \in Libs : new[k] # Closed => new[k].rc = References(fr, k) + Entries(d, k)
  <2>1. ASSUME NEW k \in Libs, new[k] # Closed, k = l
        PROVE  new[k].rc = References(fr, k) + Entries(d, k)
    <3>1. new[l].rc = lb[l].rc - 1
      BY <1>6, <2>1
    <3> QED
      BY <1>3, <1>5, <2>1, <3>1
  <2>2. ASSUME NEW k \in Libs, new[k] # Closed, k # l
        PROVE  new[k].rc = References(fr, k) + Entries(d, k)
    <3>1. new[k] = lb[k]
      BY <1>6, <2>2
    <3>2. lb[k].rc = References(fr, k) + Entries(c, k)
      BY <2>2, <3>1 DEF SessionOK
    <3> QED
      BY <1>4, <2>2, <3>1, <3>2
  <2> QED
    BY <2>1, <2>2
<1>8. ASSUME NEW i \in DOMAIN fr
      PROVE  new[fr[i].lib] # Closed /\ new[fr[i].lib].fn = fr[i].fn
  <2>1. fr[i].lib \in Libs /\ lb[fr[i].lib] # Closed /\ lb[fr[i].lib].fn = fr[i].fn
    BY <1>1, FrameLib DEF SessionOK
  <2>2. CASE fr[i].lib = l
    <3>1. References(fr, l) # 0
      BY <1>1, <2>2, NoReferences
    <3> QED
      BY <1>1, <1>6, <2>1, <2>2, <3>1
  <2>3. CASE fr[i].lib # l
    BY <1>6, <2>1, <2>3
  <2> QED
    BY <2>2, <2>3
<1>9. ASSUME NEW g \in Fns, d[g] # NoLib
      PROVE  new[d[g]] # Closed /\ new[d[g]].fn = g
  <2>1. g # f /\ d[g] = c[g] /\ d[g] \in Libs /\ d[g] # l
    BY <1>1, <1>2, <1>9
  <2>2. lb[c[g]] # Closed /\ lb[c[g]].fn = g
    BY <1>9, <2>1 DEF SessionOK
  <2> QED
    BY <1>6, <2>1, <2>2
<1> HIDE DEF new, d
<1> QED
  BY <1>1, <1>6, <1>7, <1>8, <1>9 DEF SessionOK, new, d

LEMMA EntriesOK ==
  ASSUME NEW lb, NEW c, NEW fr, SessionOK(lb, c, fr), NEW l \in Libs
  PROVE  /\ Entries(c, l) \in {0, 1}
         /\ (\A f \in Fns : c[f] # l) => Entries(c, l) = 0
         /\ \A f \in Fns : c[f] = l => Entries(c, l) = 1
<1>1. c \in [Fns -> Libs \cup {NoLib}]
  BY DEF SessionOK
<1>2. ASSUME NEW f \in Fns, NEW g \in Fns, c[f] = l, c[g] = l
      PROVE  f = g
  BY <1>2, FnCacheAssumption DEF SessionOK
<1> QED
  BY <1>1, <1>2, EntriesCount

LEMMA CountsType ==
  ASSUME NEW lb, NEW c, NEW fr, SessionOK(lb, c, fr), NEW l \in Libs
  PROVE  References(fr, l) \in Nat /\ Entries(c, l) \in Nat
<1>1. fr \in Seq(FrameType)
  BY DEF SessionOK
<1>2. References(fr, l) \in Nat
  BY <1>1, ReferencesType
<1>3. Entries(c, l) \in Nat
  BY EntriesOK
<1> QED
  BY <1>2, <1>3

LEMMA PopCached ==
  ASSUME NEW lb, NEW c, NEW fr, SessionOK(lb, c, fr), fr # <<>>, NEW closes \in BOOLEAN
  PROVE  SessionOK(DropRef(lb, fr[Len(fr)].lib, closes), c, Pop(fr))
<1> DEFINE l == fr[Len(fr)].lib
           new == DropRef(lb, l, closes)
           p == Pop(fr)
<1>1. /\ lb \in [Libs -> Library \cup {Closed}] /\ c \in [Fns -> Libs \cup {NoLib}]
      /\ fr \in Seq(FrameType)
  BY DEF SessionOK
<1>2. /\ p \in Seq(FrameType) /\ Len(fr) \in DOMAIN fr
      /\ \A i \in DOMAIN p : i \in DOMAIN fr /\ p[i] = fr[i]
  BY <1>1, PopThenPush
<1>3. l \in Libs /\ lb[l] # Closed
  BY <1>1, <1>2, FrameLib DEF SessionOK
<1>4. \A k \in Libs : References(fr, k) = References(p, k) + IF l = k THEN 1 ELSE 0
  BY <1>1, ReferencesPop
<1>5. References(p, l) \in Nat /\ Entries(c, l) \in Nat
  <2>1. Entries(c, l) \in Nat
    BY <1>3, EntriesOK
  <2> QED
    BY <1>2, <2>1, ReferencesType
<1>6. lb[l].rc = References(p, l) + 1 + Entries(c, l)
  BY <1>3, <1>4 DEF SessionOK
<1>7. /\ new \in [Libs -> Library \cup {Closed}]
      /\ \A k \in Libs : k # l => new[k] = lb[k]
      /\ new[l] # Closed => new[l].rc = lb[l].rc - 1 /\ new[l].fn = lb[l].fn
      /\ new[l] = Closed => lb[l].rc = 1
  BY <1>1, <1>3, DropRefCount
<1>8. new[l] = Closed => References(p, l) = 0 /\ Entries(c, l) = 0
  BY <1>5, <1>6, <1>7
<1>9. \A k \in Libs : new[k] # Closed => new[k].rc = References(p, k) + Entries(c, k)
  <2>1. ASSUME NEW k \in Libs, new[k] # Closed, k = l
        PROVE  new[k].rc = References(p, k) + Entries(c, k)
    <3>1. new[l].rc = lb[l].rc - 1
      BY <1>7, <2>1
    <3> QED
      BY <1>5, <1>6, <2>1, <3>1
  <2>2. ASSUME NEW k \in Libs, new[k] # Closed, k # l
        PROVE  new[k].rc = References(p, k) + Entries(c, k)
    <3>1. new[k] = lb[k]
      BY <1>7, <2>2
    <3>2. lb[k].rc = References(fr, k) + Entries(c, k)
      BY <2>2, <3>1 DEF SessionOK
    <3>3. References(fr, k) = References(p, k) + 0 /\ References(p, k) \in Nat
      BY <1>2, <1>4, <2>2, ReferencesType
    <3> QED
      BY <3>1, <3>2, <3>3
  <2> QED
    BY <2>1, <2>2
<1>10. ASSUME NEW i \in DOMAIN p
       PROVE  new[p[i].lib] # Closed /\ new[p[i].lib].fn = p[i].fn
  <2>1. p[i].lib \in Libs /\ lb[p[i].lib] # Closed /\ lb[p[i].lib].fn = p[i].fn
    BY <1>1, <1>2, FrameLib DEF SessionOK
  <2>2. CASE p[i].lib = l
    <3>1. References(p, l) # 0
      BY <1>2, <2>2, NoReferences
    <3> QED
      BY <1>7, <1>8, <2>1, <2>2, <3>1
  <2>3. CASE p[i].lib # l
    BY <1>7, <2>1, <2>3
  <2> QED
    BY <2>2, <2>3
<1>11. ASSUME NEW g \in Fns, c[g] # NoLib
       PROVE  new[c[g]] # Closed /\ new[c[g]].fn = g
  <2>1. c[g] \in Libs /\ lb[c[g]] # Closed /\ lb[c[g]].fn = g
    BY <1>1, <1>11 DEF SessionOK
  <2>2. CASE c[g] = l
    <3>1. \A h \in Fns : c[h] = l => h = g
      BY <1>3, <2>1, <2>2, FnCacheAssumption DEF SessionOK
    <3>2. Entries(c, l) = 1
      BY <1>1, <2>2, <3>1, EntriesCount
    <3> QED
      BY <1>7, <1>8, <2>1, <2>2, <3>2
  <2>3. CASE c[g] # l
    BY <1>7, <2>1, <2>3
  <2> QED
    BY <2>2, <2>3
<1> HIDE DEF new, p
<1> QED
  BY <1>1, <1>2, <1>7, <1>9, <1>10, <1>11 DEF SessionOK, new, p


LEMMA DropAbove ==
  ASSUME NEW lb, NEW c, NEW fr, SessionOK(lb, c, fr), NEW n \in 0..Len(fr),
         NEW closes \in BOOLEAN
  PROVE  SessionOK(DropFrames(lb, Above(fr, n), closes), c, SubSeq(fr, 1, n))
<1> DEFINE high == Above(fr, n)
           low == SubSeq(fr, 1, n)
           new == DropFrames(lb, high, closes)
<1>1. /\ lb \in [Libs -> Library \cup {Closed}] /\ c \in [Fns -> Libs \cup {NoLib}]
      /\ fr \in Seq(FrameType)
      /\ \A i \in DOMAIN fr : lb[fr[i].lib] # Closed
  BY DEF SessionOK
<1>2. /\ low \in Seq(FrameType) /\ IsFiniteSet(DOMAIN high)
      /\ \A i \in DOMAIN low : i \in DOMAIN fr /\ low[i] = fr[i]
      /\ \A i \in DOMAIN high : i \in DOMAIN fr /\ high[i] = fr[i]
  BY <1>1, FramesSplit
<1>3. \A l \in Libs : /\ References(fr, l) = References(low, l) + References(high, l)
                      /\ References(low, l) \in Nat /\ References(high, l) \in Nat
  <2>1. \A l \in Libs : References(fr, l) = References(low, l) + References(high, l)
    BY <1>1, ReferencesSplit
  <2> HIDE DEF low, high
  <2>2. \A l \in Libs : References(low, l) \in Nat /\ References(high, l) \in Nat
    BY <1>2, ReferencesType, FiniteReferences
  <2> QED
    BY <2>1, <2>2
<1>4. new \in [Libs -> Library \cup {Closed}]
  BY <1>1, <1>2, DropFramesType
<1>5. ASSUME NEW l \in Libs
      PROVE  /\ new[l] # Closed => /\ lb[l] # Closed
                                   /\ new[l].rc = lb[l].rc - References(high, l)
                                   /\ new[l].fn = lb[l].fn
             /\ (new[l] = Closed /\ lb[l] # Closed) => lb[l].rc = References(high, l)
  <2>1. CASE References(high, l) = 0
    <3>1. new[l] = lb[l]
      BY <2>1 DEF DropFrames
    <3>2. ASSUME lb[l] # Closed PROVE lb[l].rc \in Int
      <4>1. lb[l] \in Library
        BY <1>1, <3>2
      <4> QED
        BY <4>1 DEF Library
    <3> QED
      BY <2>1, <3>1, <3>2
  <2>2. CASE References(high, l) # 0 /\ lb[l].rc = References(high, l) /\ closes
    <3>1. new[l] = Closed
      BY <2>2 DEF DropFrames
    <3> QED
      BY <2>2, <3>1
  <2>3. CASE References(high, l) # 0 /\ ~(lb[l].rc = References(high, l) /\ closes)
    <3>1. new[l] = [lb[l] EXCEPT !.rc = lb[l].rc - References(high, l)]
      BY <2>3 DEF DropFrames
    <3>2. PICK i \in DOMAIN high : high[i].lib = l
      <4> HIDE DEF high
      <4>1. CASE \E i \in DOMAIN high : high[i].lib = l
        BY <4>1
      <4>2. CASE \A i \in DOMAIN high : high[i].lib # l
        <5>1. References(high, l) = 0
          BY <1>2, <4>2, FiniteReferences
        <5> QED
          BY <2>3, <5>1
      <4> QED
        BY <4>1, <4>2
    <3>3. lb[l] # Closed
      BY <1>1, <1>2, <3>2
    <3>4. lb[l] \in Library
      BY <1>1, <3>3
    <3>5. lb[l].rc \in Int /\ References(high, l) \in Nat
      BY <1>3, <3>4 DEF Library
    <3>6. lb[l].rc - References(high, l) \in Int
      BY <3>5
    <3>7. [lb[l] EXCEPT !.rc = lb[l].rc - References(high, l)] \in Library
      BY <3>4, <3>6, CountType
    <3>8. /\ new[l].rc = lb[l].rc - References(high, l)
          /\ new[l].fn = lb[l].fn
      BY <3>1, <3>4 DEF Library
    <3> QED
      BY <3>1, <3>3, <3>7, <3>8, LibraryAssumption
  <2> QED
    BY <2>1, <2>2, <2>3
<1>6. ASSUME NEW l \in Libs, new[l] # Closed
      PROVE  new[l].rc = References(low, l) + Entries(c, l)
  <2>1. /\ new[l].rc = lb[l].rc - References(high, l)
        /\ lb[l].rc = References(fr, l) + Entries(c, l)
    BY <1>5, <1>6 DEF SessionOK
  <2>2. Entries(c, l) \in Nat
    BY CountsType
  <2> QED
    BY <1>3, <2>1, <2>2
<1>7. ASSUME NEW l \in Libs, lb[l] # Closed,
             References(low, l) # 0 \/ Entries(c, l) # 0
      PROVE  new[l] # Closed /\ new[l].fn = lb[l].fn
  <2>1. lb[l].rc = References(fr, l) + Entries(c, l) /\ Entries(c, l) \in Nat
    BY <1>7, CountsType DEF SessionOK
  <2>2. lb[l].rc # References(high, l)
    BY <1>3, <1>7, <2>1
  <2> QED
    BY <1>5, <1>7, <2>2
<1>8. ASSUME NEW i \in DOMAIN low
      PROVE  new[low[i].lib] # Closed /\ new[low[i].lib].fn = low[i].fn
  <2>1. /\ low[i].lib \in Libs /\ lb[low[i].lib] # Closed
        /\ lb[low[i].lib].fn = low[i].fn
    BY <1>1, <1>2, FrameLib DEF SessionOK
  <2>2. References(low, low[i].lib) # 0
    BY <1>2, NoReferences
  <2> QED
    BY <1>7, <2>1, <2>2
<1>9. ASSUME NEW g \in Fns, c[g] # NoLib
      PROVE  new[c[g]] # Closed /\ new[c[g]].fn = g
  <2>1. c[g] \in Libs /\ lb[c[g]] # Closed /\ lb[c[g]].fn = g
    BY <1>1, <1>9 DEF SessionOK
  <2>2. Entries(c, c[g]) = 1
    BY <2>1, EntriesOK
  <2> QED
    BY <1>7, <2>1, <2>2
<1> HIDE DEF new, low, high
<1> QED
  BY <1>1, <1>2, <1>4, <1>6, <1>8, <1>9 DEF SessionOK, new, low, high

LEMMA PushFrame ==
  ASSUME NEW fr \in Seq(FrameType), NEW e \in FrameType
  PROVE  /\ Append(fr, e) \in Seq(FrameType)
         /\ \A i \in DOMAIN Append(fr, e) :
               Append(fr, e)[i] = e \/ (i \in DOMAIN fr /\ Append(fr, e)[i] = fr[i])
  OBVIOUS

LEMMA RunCachedOK ==
  ASSUME NEW lb, NEW c, NEW fr, SessionOK(lb, c, fr), NEW f \in Fns, c[f] # NoLib,
         NEW e \in FrameType, e.fn = f, e.lib = c[f]
  PROVE  SessionOK(Clone(lb, c[f]), c, Append(fr, e))
<1> DEFINE l == c[f]
           new == Clone(lb, l)
           q == Append(fr, e)
<1>1. /\ lb \in [Libs -> Library \cup {Closed}] /\ c \in [Fns -> Libs \cup {NoLib}]
      /\ fr \in Seq(FrameType) /\ l \in Libs /\ lb[l] # Closed /\ lb[l].fn = f
  BY DEF SessionOK
<1>2. lb[l] \in Library
  BY <1>1
<1>3. lb[l].rc + 1 \in Int
  BY <1>2 DEF Library
<1>4. [lb[l] EXCEPT !.rc = lb[l].rc + 1] \in Library
  BY <1>2, <1>3, CountType
<1>5. new = [lb EXCEPT ![l] = [lb[l] EXCEPT !.rc = lb[l].rc + 1]]
  BY DEF Clone
<1>6. /\ new \in [Libs -> Library \cup {Closed}]
      /\ new[l] = [lb[l] EXCEPT !.rc = lb[l].rc + 1]
      /\ \A k \in Libs : k # l => new[k] = lb[k]
  BY <1>1, <1>4, <1>5
<1>7. new[l] # Closed /\ new[l].rc = lb[l].rc + 1 /\ new[l].fn = f
  <2>1. new[l].rc = lb[l].rc + 1 /\ new[l].fn = lb[l].fn
    BY <1>2, <1>6 DEF Library
  <2> QED
    BY <1>1, <1>4, <1>6, <2>1, LibraryAssumption
<1>8. q \in Seq(FrameType)
  BY <1>1, PushFrame
<1>9. ASSUME NEW k \in Libs, new[k] # Closed
      PROVE  new[k].rc = References(q, k) + Entries(c, k)
  <2>1. References(q, k) = References(fr, k) + IF l = k THEN 1 ELSE 0
    BY <1>1, ReferencesPush
  <2>2. References(fr, k) \in Nat /\ Entries(c, k) \in Nat
    BY CountsType
  <2>3. CASE k = l
    <3>1. lb[l].rc = References(fr, l) + Entries(c, l)
      BY <1>1 DEF SessionOK
    <3> QED
      BY <1>7, <2>1, <2>2, <2>3, <3>1
  <2>4. CASE k # l
    <3>1. new[k] = lb[k] /\ lb[k].rc = References(fr, k) + Entries(c, k)
      BY <1>6, <1>9, <2>4 DEF SessionOK
    <3> QED
      BY <2>1, <2>2, <2>4, <3>1
  <2> QED
    BY <2>3, <2>4
<1>10. ASSUME NEW k \in Libs, lb[k] # Closed
       PROVE  new[k] # Closed /\ new[k].fn = lb[k].fn
  BY <1>1, <1>6, <1>7, <1>10
<1>11. ASSUME NEW i \in DOMAIN q
       PROVE  new[q[i].lib] # Closed /\ new[q[i].lib].fn = q[i].fn
  <2>1. CASE q[i] = e
    BY <1>7, <2>1
  <2>2. CASE i \in DOMAIN fr /\ q[i] = fr[i]
    <3>1. fr[i].lib \in Libs /\ lb[fr[i].lib] # Closed /\ lb[fr[i].lib].fn = fr[i].fn
      BY <1>1, <2>2, FrameLib DEF SessionOK
    <3> QED
      BY <1>10, <2>2, <3>1
  <2> QED
    BY <1>1, <2>1, <2>2, PushFrame
<1>12. ASSUME NEW g \in Fns, c[g] # NoLib
       PROVE  new[c[g]] # Closed /\ new[c[g]].fn = g
  BY <1>1, <1>10, <1>12 DEF SessionOK
<1> HIDE DEF new, q
<1> QED
  BY <1>1, <1>6, <1>8, <1>9, <1>11, <1>12 DEF SessionOK, new, q


LEMMA LoadOK ==
  ASSUME NEW lb, NEW c, NEW fr, SessionOK(lb, c, fr), NEW f \in Fns, c[f] = NoLib,
         NEW l \in Libs, lb[l] = Closed, NEW row \in Row,
         NEW e \in FrameType, e.fn = f, e.lib = l
  PROVE  SessionOK([lb EXCEPT ![l] = [fn |-> f, row |-> row, rc |-> 2]],
                   [c EXCEPT ![f] = l], Append(fr, e))
<1> DEFINE lib == [fn |-> f, row |-> row, rc |-> 2]
           new == [lb EXCEPT ![l] = lib]
           d == [c EXCEPT ![f] = l]
           q == Append(fr, e)
<1>1. /\ lb \in [Libs -> Library \cup {Closed}] /\ c \in [Fns -> Libs \cup {NoLib}]
      /\ fr \in Seq(FrameType)
      /\ \A g \in Fns : c[g] # l
      /\ \A i \in DOMAIN fr : fr[i].lib # l
  BY FnCacheAssumption DEF SessionOK
<1>2. lib \in Library /\ lib # Closed
  BY LibraryAssumption DEF Library
<1>3. /\ new \in [Libs -> Library \cup {Closed}] /\ new[l] = lib
      /\ \A k \in Libs : k # l => new[k] = lb[k]
      /\ d \in [Fns -> Libs \cup {NoLib}] /\ d[f] = l
      /\ \A g \in Fns : g # f => d[g] = c[g]
  BY <1>1, <1>2
<1>4. q \in Seq(FrameType)
  BY <1>1, PushFrame
<1>5. References(fr, l) = 0
  BY <1>1, NoReferences
<1>6. Entries(d, l) = 1
  <2>1. d[f] = l /\ \A g \in Fns : d[g] = l => g = f
    BY <1>1, <1>3
  <2> HIDE DEF d
  <2>2. d \in [Fns -> Libs \cup {NoLib}]
    BY <1>3
  <2> QED
    BY <2>1, <2>2, EntriesCount
<1>7. \A k \in Libs : k # l => Entries(d, k) = Entries(c, k)
  <2> SUFFICES ASSUME NEW k \in Libs, k # l
               PROVE  {g \in Fns : d[g] = k} = {g \in Fns : c[g] = k}
    BY DEF Entries
  <2> QED
    BY <1>1, <1>3, FnCacheAssumption
<1>8. ASSUME NEW k \in Libs, new[k] # Closed
      PROVE  new[k].rc = References(q, k) + Entries(d, k)
  <2>1. References(q, k) = References(fr, k) + IF l = k THEN 1 ELSE 0
    BY <1>1, ReferencesPush
  <2>2. CASE k = l
    BY <1>3, <1>5, <1>6, <2>1, <2>2
  <2>3. CASE k # l
    <3>1. new[k] = lb[k] /\ lb[k].rc = References(fr, k) + Entries(c, k)
      BY <1>3, <1>8, <2>3 DEF SessionOK
    <3>2. References(fr, k) \in Nat
      BY CountsType
    <3>3. References(q, k) = References(fr, k)
      BY <2>1, <2>3, <3>2
    <3>4. Entries(d, k) = Entries(c, k)
      BY <1>7, <2>3
    <3> QED
      BY <3>1, <3>3, <3>4
  <2> QED
    BY <2>2, <2>3
<1>9. ASSUME NEW i \in DOMAIN q
      PROVE  new[q[i].lib] # Closed /\ new[q[i].lib].fn = q[i].fn
  <2>1. CASE q[i] = e
    BY <1>2, <1>3, <2>1
  <2>2. CASE i \in DOMAIN fr /\ q[i] = fr[i]
    <3>1. fr[i].lib \in Libs /\ lb[fr[i].lib] # Closed /\ lb[fr[i].lib].fn = fr[i].fn
      BY <1>1, <2>2, FrameLib DEF SessionOK
    <3> QED
      BY <1>1, <1>3, <2>2, <3>1
  <2> QED
    BY <1>1, <2>1, <2>2, PushFrame
<1>10. ASSUME NEW g \in Fns, d[g] # NoLib
       PROVE  new[d[g]] # Closed /\ new[d[g]].fn = g
  <2>1. CASE g = f
    BY <1>2, <1>3, <2>1
  <2>2. CASE g # f
    <3>1. c[g] \in Libs /\ c[g] # l /\ lb[c[g]] # Closed /\ lb[c[g]].fn = g
      BY <1>1, <1>3, <1>10, <2>2 DEF SessionOK
    <3> QED
      BY <1>3, <2>2, <3>1
  <2> QED
    BY <2>1, <2>2
<1> HIDE DEF new, d, q
<1> QED
  BY <1>3, <1>4, <1>8, <1>9, <1>10 DEF SessionOK, new, d, q

LEMMA EmptyOK == SessionOK([l \in Libs |-> Closed], NoLibs, <<>>)
<1>1. <<>> \in Seq(FrameType) /\ DOMAIN <<>> = {}
  OBVIOUS
<1>2. /\ [l \in Libs |-> Closed] \in [Libs -> Library \cup {Closed}]
      /\ NoLibs \in [Fns -> Libs \cup {NoLib}]
      /\ \A f \in Fns : NoLibs[f] = NoLib
      /\ \A l \in Libs : [k \in Libs |-> Closed][l] = Closed
  BY DEF NoLibs
<1> QED
  BY <1>1, <1>2 DEF SessionOK


----------------------------------------------------------------------------
(* The inductive invariant behind TypeOK, CountsHolders and                *)
(* HeldLibrariesMapped: none of them is inductive alone, since a reference *)
(* may only be dropped from a mapped library whose count is exact.         *)

CatalogTypes ==
    /\ committed \in [Fns -> Row \cup {Gone}]
    /\ fresh \subseteq Fns
    /\ nextXid \in 1..(MaxXid + 1)
    /\ xact \in [Sessions -> Seq(Level)]
    /\ cid \in [Sessions -> 0..(MaxCid + 1)]
    /\ combo \in [Sessions -> Nat]
    /\ view \in [Sessions -> [Fns -> Row \cup {Gone}]]
    /\ required \in [Sessions -> RequiredLints]
    /\ iters \in [Sessions -> [Fns -> Libs \cup {NoLib}]]
    /\ opened \in [Sessions -> [Fns -> Nat]]
    /\ ComboBound

LoaderInv ==
    /\ libs \in [Sessions -> [Libs -> Library \cup {Closed}]]
    /\ cache \in [Sessions -> [Fns -> Libs \cup {NoLib}]]
    /\ frames \in [Sessions -> Seq(FrameType)]
    /\ \A s \in Sessions : SessionOK(libs[s], cache[s], frames[s])

RcInv == CatalogTypes /\ LoaderInv

\* Levels q of a transaction with n calls in progress: each level began among
\* calls that are still in progress, and no earlier than those around it.
Nest(q, n) ==
    /\ \A i \in 1..Len(q) : q[i].calls <= n
    /\ \A i, j \in 1..Len(q) : i <= j => q[i].calls <= q[j].calls

CallsNest == \A s \in Sessions : Nest(xact[s], Len(frames[s]))

\* Calls come and go above the innermost level only.
LEMMA NestTop ==
  ASSUME NEW q \in Seq(Level), NEW n \in Nat, NEW m \in Nat, Nest(q, n),
         q # <<>> => q[Len(q)].calls <= m
  PROVE  Nest(q, m)
<1>1. /\ \A i \in 1..Len(q) : q[i] \in Level
      /\ Len(q) \in Nat /\ (q # <<>> => Len(q) \in 1..Len(q)) /\ (q = <<>> => Len(q) = 0)
  OBVIOUS
<1>2. ASSUME NEW i \in 1..Len(q) PROVE q[i].calls <= m
  <2>1. q # <<>> /\ i <= Len(q)
    BY <1>1
  <2>2. q[i].calls <= q[Len(q)].calls
    BY <1>1, <2>1 DEF Nest
  <2>3. q[i].calls \in Nat /\ q[Len(q)].calls \in Nat
    BY <1>1, <2>1 DEF Level
  <2> QED
    BY <2>1, <2>2, <2>3
<1> QED
  BY <1>2 DEF Nest

LEMMA NestSame ==
  ASSUME NEW q \in Seq(Level), NEW r \in Seq(Level), NEW n, Nest(q, n),
         Len(r) = Len(q), \A i \in 1..Len(q) : r[i].calls = q[i].calls
  PROVE  Nest(r, n)
  BY DEF Nest

LEMMA NestPush ==
  ASSUME NEW q \in Seq(Level), NEW n \in Nat, Nest(q, n), NEW e \in Level, e.calls = n
  PROVE  Nest(Append(q, e), n)
<1> DEFINE r == Append(q, e)
<1>1. /\ Len(r) = Len(q) + 1 /\ Len(q) \in Nat
      /\ r[Len(q) + 1] = e /\ \A i \in 1..Len(q) : r[i] = q[i]
  OBVIOUS
<1>2. \A i \in 1..Len(r) : i \in 1..Len(q) \/ i = Len(q) + 1
  BY <1>1
<1> HIDE DEF r
<1>3. \A i \in 1..Len(r) : r[i].calls <= n
  BY <1>1, <1>2 DEF Nest
<1>4. ASSUME NEW i \in 1..Len(r), NEW j \in 1..Len(r), i <= j
      PROVE  r[i].calls <= r[j].calls
  <2>1. CASE j = Len(q) + 1
    BY <1>1, <1>3, <2>1
  <2>2. CASE j \in 1..Len(q)
    <3>1. i \in 1..Len(q)
      BY <1>1, <1>2, <1>4, <2>2
    <3> QED
      BY <1>1, <1>4, <2>2, <3>1 DEF Nest
  <2> QED
    BY <1>2, <2>1, <2>2
<1> QED
  BY <1>3, <1>4 DEF Nest, r

\* A rollback leaves the calls that the level began inside of.
LEMMA NestPop ==
  ASSUME NEW q \in Seq(Level), NEW n \in Nat, Nest(q, n), q # <<>>
  PROVE  /\ q[Len(q)].calls \in 0..n
         /\ Nest(Pop(q), q[Len(q)].calls)
         /\ Nest(Pop(q), n)
<1>1. /\ Len(q) \in Nat \ {0} /\ Len(q) \in 1..Len(q)
      /\ Len(Pop(q)) = Len(q) - 1 /\ \A i \in 1..(Len(q) - 1) : Pop(q)[i] = q[i]
      /\ \A i \in 1..Len(q) : q[i] \in Level
  <2>1. /\ Len(q) \in Nat \ {0} /\ Len(q) \in 1..Len(q)
        /\ \A i \in 1..Len(q) : q[i] \in Level
    OBVIOUS
  <2>2. Pop(q) = [i \in 1..(Len(q) - 1) |-> q[i]]
    BY <2>1 DEF Pop
  <2>3. Len(q) - 1 \in Nat
    BY <2>1
  <2>4. Len(Pop(q)) = Len(q) - 1
    BY <2>2, <2>3
  <2> QED
    BY <2>1, <2>2, <2>4
<1>2. q[Len(q)].calls \in 0..n
  BY <1>1 DEF Nest, Level
<1>3. \A i \in 1..Len(Pop(q)) : i \in 1..Len(q) /\ i <= Len(q) /\ Pop(q)[i] = q[i]
  BY <1>1
<1> QED
  BY <1>1, <1>2, <1>3 DEF Nest

LEMMA RcInvParts ==
  RcInv <=> TypeOK /\ ComboBound /\ CountsHolders /\ HeldLibrariesMapped
<1>1. ASSUME TypeOK
      PROVE  (CountsHolders /\ HeldLibrariesMapped)
               <=> \A s \in Sessions : SessionOK(libs[s], cache[s], frames[s])
  <2>1. \A s \in Sessions : /\ libs[s] \in [Libs -> Library \cup {Closed}]
                            /\ cache[s] \in [Fns -> Libs \cup {NoLib}]
                            /\ frames[s] \in Seq(FrameType)
    BY <1>1 DEF TypeOK
  <2> QED
    BY <2>1 DEF CountsHolders, HeldLibrariesMapped, CachedLib, SessionOK
<1>2. RcInv => TypeOK
  BY DEF RcInv, CatalogTypes, LoaderInv, TypeOK
<1>3. TypeOK /\ ComboBound => CatalogTypes
  BY DEF CatalogTypes, TypeOK
<1> QED
  BY <1>1, <1>2, <1>3 DEF RcInv, CatalogTypes, LoaderInv, TypeOK

\* A step of one session's loader.
LEMMA LoaderStep ==
  ASSUME LoaderInv, NEW s \in Sessions, NEW lb, NEW c, NEW fr,
         SessionOK(lb, c, fr),
         libs' = [libs EXCEPT ![s] = lb],
         cache' = [cache EXCEPT ![s] = c],
         frames' = [frames EXCEPT ![s] = fr]
  PROVE  LoaderInv'
<1>1. /\ lb \in [Libs -> Library \cup {Closed}] /\ c \in [Fns -> Libs \cup {NoLib}]
      /\ fr \in Seq(FrameType)
  BY DEF SessionOK
<1>2. /\ libs' \in [Sessions -> [Libs -> Library \cup {Closed}]]
      /\ cache' \in [Sessions -> [Fns -> Libs \cup {NoLib}]]
      /\ frames' \in [Sessions -> Seq(FrameType)]
  BY <1>1 DEF LoaderInv
<1>3. ASSUME NEW t \in Sessions
      PROVE  SessionOK(libs'[t], cache'[t], frames'[t])
  <2>1. CASE t = s
    <3>1. libs'[t] = lb /\ cache'[t] = c /\ frames'[t] = fr
      BY <2>1 DEF LoaderInv
    <3> QED
      BY <3>1
  <2>2. CASE t # s
    <3>1. libs'[t] = libs[t] /\ cache'[t] = cache[t] /\ frames'[t] = frames[t]
      BY <2>2 DEF LoaderInv
    <3> QED
      BY <3>1 DEF LoaderInv
  <2> QED
    BY <2>1, <2>2
<1>4. \A t \in Sessions : SessionOK(libs'[t], cache'[t], frames'[t])
  BY <1>3
<1> QED
  BY <1>2, <1>4 DEF LoaderInv, SessionOK

LEMMA LoaderUnchanged ==
  ASSUME LoaderInv, UNCHANGED <<cache, libs, frames>>
  PROVE  LoaderInv'
  BY DEF LoaderInv, SessionOK

LEMMA LoaderFacts ==
  ASSUME LoaderInv, NEW s \in Sessions
  PROVE  /\ SessionOK(libs[s], cache[s], frames[s])
         /\ libs = [libs EXCEPT ![s] = libs[s]]
         /\ cache = [cache EXCEPT ![s] = cache[s]]
         /\ frames = [frames EXCEPT ![s] = frames[s]]
  BY DEF LoaderInv

\* Unloading function f of session s.
LEMMA UnloadOK ==
  ASSUME LoaderInv, NEW s \in Sessions, NEW f \in Fns, NEW closes \in BOOLEAN
  PROVE  SessionOK(Unloaded(s, f, closes), [cache[s] EXCEPT ![f] = NoLib], frames[s])
<1>1. SessionOK(libs[s], cache[s], frames[s]) /\ cache[s] \in [Fns -> Libs \cup {NoLib}]
  BY DEF LoaderInv
<1>2. CASE cache[s][f] = NoLib
  <2>1. [cache[s] EXCEPT ![f] = NoLib] = cache[s] /\ Unloaded(s, f, closes) = libs[s]
    BY <1>1, <1>2 DEF Unloaded
  <2> QED
    BY <1>1, <2>1
<1>3. CASE cache[s][f] # NoLib
  <2>1. Unloaded(s, f, closes) = DropRef(libs[s], cache[s][f], closes)
    BY <1>3 DEF Unloaded
  <2> QED
    BY <1>1, <1>3, <2>1, DropCached
<1> QED
  BY <1>2, <1>3

LEMMA CloseResultsType == CloseResults \subseteq BOOLEAN
  BY FnCacheAssumption DEF CloseResults


----------------------------------------------------------------------------
(* Every action keeps RcInv.                                               *)

LEMMA RcInit == Init => RcInv
<1> SUFFICES ASSUME Init PROVE RcInv
  OBVIOUS
<1>1. CatalogTypes
  <2>1. /\ committed \in [Fns -> Row \cup {Gone}]
        /\ iters \in [Sessions -> [Fns -> Libs \cup {NoLib}]]
        /\ opened \in [Sessions -> [Fns -> Nat]]
    BY DEF Init, NoLibs, NotOpened
  <2>2. xact \in [Sessions -> Seq(Level)]
    BY DEF Init
  <2> QED
    BY <2>1, <2>2, FnCacheAssumption DEF Init, CatalogTypes, ComboBound
<1>2. LoaderInv
  <2>1. \A s \in Sessions : /\ libs[s] = [l \in Libs |-> Closed]
                            /\ cache[s] = NoLibs
                            /\ frames[s] = <<>>
    BY DEF Init
  <2>2. \A s \in Sessions : SessionOK(libs[s], cache[s], frames[s])
    BY <2>1, EmptyOK
  <2>3. /\ libs \in [Sessions -> [Libs -> Library \cup {Closed}]]
        /\ cache \in [Sessions -> [Fns -> Libs \cup {NoLib}]]
        /\ frames \in [Sessions -> Seq(FrameType)]
    BY DEF Init, NoLibs
  <2> QED
    BY <2>2, <2>3 DEF LoaderInv
<1> QED
  BY <1>1, <1>2 DEF RcInv

LEMMA RcBegin ==
  ASSUME RcInv, NEW s \in Sessions, Begin(s)
  PROVE  RcInv'
<1>1. [xid |-> 0, rows |-> [f \in Fns |-> Unwritten], calls |-> 0] \in Level
  BY FnCacheAssumption DEF Level
<1>2. <<[xid |-> 0, rows |-> [f \in Fns |-> Unwritten], calls |-> 0]>> \in Seq(Level)
  BY <1>1
<1>3. xact' \in [Sessions -> Seq(Level)]
  BY <1>2 DEF RcInv, CatalogTypes, Begin
<1>4. view' \in [Sessions -> [Fns -> Row \cup {Gone}]]
  BY DEF RcInv, CatalogTypes, Begin
<1>5. CatalogTypes'
  BY <1>3, <1>4 DEF RcInv, CatalogTypes, ComboBound, Begin, catalog, loaderVars
<1>6. LoaderInv'
  BY LoaderUnchanged DEF RcInv, Begin, loaderVars
<1> QED
  BY <1>5, <1>6 DEF RcInv

LEMMA RcSavepoint ==
  ASSUME RcInv, NEW s \in Sessions, Savepoint(s)
  PROVE  RcInv'
<1>1. TypeOK
  BY RcInvParts
<1>2. [xid |-> 0, rows |-> Top(s).rows, calls |-> Len(frames[s])] \in Level
  <2>1. Len(frames[s]) \in Nat
    BY <1>1 DEF TypeOK
  <2> QED
    BY <1>1, <2>1, TopType, FnCacheAssumption DEF Level, Savepoint
<1>3. Append(xact[s], [xid |-> 0, rows |-> Top(s).rows, calls |-> Len(frames[s])])
        \in Seq(Level)
  BY <1>1, <1>2 DEF TypeOK
<1>4. xact' \in [Sessions -> Seq(Level)]
  BY <1>3 DEF RcInv, CatalogTypes, Savepoint
<1>5. CatalogTypes'
  BY <1>4 DEF RcInv, CatalogTypes, ComboBound, Savepoint, catalog, loaderVars
<1>6. LoaderInv'
  BY LoaderUnchanged DEF RcInv, Savepoint, loaderVars
<1> QED
  BY <1>5, <1>6 DEF RcInv

LEMMA RcReleaseSavepoint ==
  ASSUME RcInv, NEW s \in Sessions, ReleaseSavepoint(s)
  PROVE  RcInv'
<1> DEFINE n == Len(xact[s])
           q == [Pop(xact[s]) EXCEPT ![n - 1].rows = Top(s).rows]
<1>1. TypeOK /\ n > 1 /\ xact[s] \in Seq(Level) /\ n \in Nat
  BY RcInvParts DEF ReleaseSavepoint, TypeOK
<1>2. InXact(s)
  BY <1>1 DEF InXact
<1>3. Top(s).rows \in [Fns -> Row \cup {Gone, Unwritten}]
  BY <1>1, <1>2, TopType
<1>4. Pop(xact[s]) \in Seq(Level) /\ Len(Pop(xact[s])) = n - 1
  BY <1>1 DEF Pop
<1>5. n - 1 \in 1..Len(Pop(xact[s])) /\ Pop(xact[s])[n - 1] \in Level
  BY <1>1, <1>4
<1>6. [Pop(xact[s])[n - 1] EXCEPT !.rows = Top(s).rows] \in Level
  BY <1>3, <1>5 DEF Level
<1>7. q \in Seq(Level)
  BY <1>4, <1>5, <1>6, ExceptSeq
<1>8. xact' \in [Sessions -> Seq(Level)]
  BY <1>7 DEF RcInv, CatalogTypes, ReleaseSavepoint
<1>9. opened' \in [Sessions -> [Fns -> Nat]]
  <2>1. opened' = [opened EXCEPT ![s] =
          [f \in Fns |-> IF opened[s][f] = n THEN n - 1 ELSE opened[s][f]]]
    BY DEF ReleaseSavepoint
  <2>2. [f \in Fns |-> IF opened[s][f] = n THEN n - 1 ELSE opened[s][f]] \in [Fns -> Nat]
    BY <1>1 DEF TypeOK
  <2> HIDE DEF n
  <2> QED
    BY <1>1, <2>1, <2>2 DEF TypeOK
<1>10. CatalogTypes'
  BY <1>8, <1>9 DEF RcInv, CatalogTypes, ComboBound, ReleaseSavepoint, catalog
<1>11. LoaderInv'
  BY LoaderUnchanged DEF RcInv, ReleaseSavepoint
<1> QED
  BY <1>10, <1>11 DEF RcInv

LEMMA WroteType ==
  ASSUME TypeOK, NEW s \in Sessions, NEW f \in Fns, Wrote(s, f)
  PROVE  Top(s).rows[f] \in Row \cup {Gone}
  BY TopType DEF Wrote

LEMMA RcCommit ==
  ASSUME RcInv, NEW s \in Sessions, Commit(s)
  PROVE  RcInv'
<1>1. TypeOK
  BY RcInvParts
<1>2. \A f \in Fns : /\ (IF Wrote(s, f) THEN Top(s).rows[f] ELSE committed[f]) \in Row \cup {Gone}
                     /\ (IF Wrote(s, f) THEN Top(s).rows[f] ELSE view[s][f]) \in Row \cup {Gone}
  BY <1>1, WroteType DEF TypeOK
<1>3. committed' \in [Fns -> Row \cup {Gone}]
  BY <1>2 DEF Commit
<1>4. view' \in [Sessions -> [Fns -> Row \cup {Gone}]]
  BY <1>1, <1>2 DEF Commit, TypeOK
<1>5. <<>> \in Seq(Level) /\ NoLibs \in [Fns -> Libs \cup {NoLib}] /\ NotOpened \in [Fns -> Nat]
  BY DEF NoLibs, NotOpened
<1>6. /\ xact' \in [Sessions -> Seq(Level)]
      /\ iters' \in [Sessions -> [Fns -> Libs \cup {NoLib}]]
      /\ opened' \in [Sessions -> [Fns -> Nat]]
  BY <1>5 DEF RcInv, CatalogTypes, Commit
<1>7. cid' \in [Sessions -> 0..(MaxCid + 1)] /\ combo' \in [Sessions -> Nat] /\ ComboBound'
  BY FnCacheAssumption DEF RcInv, CatalogTypes, Commit, ComboBound
<1>8. CatalogTypes'
  BY <1>3, <1>4, <1>6, <1>7 DEF RcInv, CatalogTypes, Commit
<1>9. LoaderInv'
  BY LoaderUnchanged DEF RcInv, Commit
<1> QED
  BY <1>8, <1>9 DEF RcInv

\* The loader side of an error: frames go, over any cache the command left.
LEMMA UnwindLoader ==
  ASSUME LoaderInv, NEW s \in Sessions, NEW lb, NEW c, NEW n \in 0..Len(frames[s]),
         SessionOK(lb, c, frames[s]), Unwind(s, n, lb),
         cache' = [cache EXCEPT ![s] = c]
  PROVE  LoaderInv'
<1>1. PICK closes \in CloseResults :
         libs' = [libs EXCEPT ![s] = DropFrames(lb, Above(frames[s], n), closes)]
  BY DEF Unwind
<1>2. SessionOK(DropFrames(lb, Above(frames[s], n), closes), c, SubSeq(frames[s], 1, n))
  BY CloseResultsType, DropAbove
<1>3. frames' = [frames EXCEPT ![s] = SubSeq(frames[s], 1, n)]
  BY DEF Unwind
<1> QED
  BY <1>1, <1>2, <1>3, LoaderStep

\* The innermost level began among the calls in progress.
LEMMA LevelCalls ==
  ASSUME RcInv, CallsNest, NEW s \in Sessions, InXact(s)
  PROVE  Top(s).calls \in 0..Len(frames[s])
<1>1. xact[s] \in Seq(Level) /\ xact[s] # <<>> /\ Len(frames[s]) \in Nat
  BY DEF RcInv, CatalogTypes, LoaderInv, InXact
<1> QED
  BY <1>1, NestPop DEF CallsNest, Top

LEMMA UnwindLevelOK ==
  ASSUME RcInv, CallsNest, NEW s \in Sessions, InXact(s), NEW lb, NEW c,
         SessionOK(lb, c, frames[s]), UnwindLevel(s, lb),
         cache' = [cache EXCEPT ![s] = c]
  PROVE  /\ LoaderInv'
         /\ iters' \in [Sessions -> [Fns -> Libs \cup {NoLib}]]
         /\ opened' \in [Sessions -> [Fns -> Nat]]
<1>1. LoaderInv'
  BY LevelCalls, UnwindLoader DEF RcInv, UnwindLevel
<1>2. /\ iters' \in [Sessions -> [Fns -> Libs \cup {NoLib}]]
      /\ opened' \in [Sessions -> [Fns -> Nat]]
  BY DEF RcInv, CatalogTypes, UnwindLevel
<1> QED
  BY <1>1, <1>2

LEMMA RcAbortTop ==
  ASSUME RcInv, CallsNest, NEW s \in Sessions, InXact(s), AbortTop(s)
  PROVE  RcInv'
<1>1. TypeOK /\ UNCHANGED <<committed, fresh, nextXid, required, cache>>
  BY RcInvParts DEF AbortTop, catalog
<1>2. /\ LoaderInv'
      /\ iters' \in [Sessions -> [Fns -> Libs \cup {NoLib}]]
      /\ opened' \in [Sessions -> [Fns -> Nat]]
  BY <1>1, LoaderFacts, UnwindLevelOK DEF RcInv, AbortTop
<1>3. xact' \in [Sessions -> Seq(Level)]
  BY <1>1, PopType DEF TypeOK, AbortTop
<1>4. view' \in [Sessions -> [Fns -> Row \cup {Gone}]]
  BY <1>1 DEF TypeOK, AbortTop
<1>5. cid' \in [Sessions -> 0..(MaxCid + 1)] /\ combo' \in [Sessions -> Nat] /\ ComboBound'
  BY FnCacheAssumption DEF RcInv, CatalogTypes, AbortTop, Unless0, ComboBound
<1>6. CatalogTypes'
  BY <1>1, <1>2, <1>3, <1>4, <1>5 DEF RcInv, CatalogTypes
<1> QED
  BY <1>2, <1>6 DEF RcInv

LEMMA RcAbort ==
  ASSUME RcInv, CallsNest, NEW s \in Sessions, Abort(s)
  PROVE  RcInv'
  BY RcAbortTop DEF Abort

LEMMA RcCatch ==
  ASSUME RcInv, CallsNest, NEW s \in Sessions, Catch(s)
  PROVE  RcInv'
<1>1. PICK n \in (Top(s).calls + 1)..(Len(frames[s]) - 1) : Unwind(s, n, libs[s])
  BY DEF Catch
<1>2. n \in 0..Len(frames[s])
  <2>1. Top(s).calls \in 0..Len(frames[s]) /\ Len(frames[s]) \in Nat
    BY LevelCalls DEF Catch, RcInv, LoaderInv
  <2> QED
    BY <2>1
<1>3. LoaderInv'
  BY <1>1, <1>2, LoaderFacts, UnwindLoader DEF RcInv, Catch
<1>4. CatalogTypes'
  BY DEF RcInv, CatalogTypes, ComboBound, Catch, catalog, xactVars
<1> QED
  BY <1>3, <1>4 DEF RcInv

LEMMA RcAcceptInvalidations ==
  ASSUME RcInv, NEW s \in Sessions, AcceptInvalidations(s)
  PROVE  RcInv'
<1>1. CatalogTypes'
  BY DEF RcInv, CatalogTypes, ComboBound, AcceptInvalidations, catalog, xactVars, loaderVars
<1>2. LoaderInv'
  BY LoaderUnchanged DEF RcInv, AcceptInvalidations, loaderVars
<1> QED
  BY <1>1, <1>2 DEF RcInv

LEMMA RcReloadConfig ==
  ASSUME RcInv, NEW s \in Sessions, ReloadConfig(s)
  PROVE  RcInv'
<1>1. CatalogTypes'
  BY DEF RcInv, CatalogTypes, ComboBound, ReloadConfig, catalog, xactVars, loaderVars
<1>2. LoaderInv'
  BY LoaderUnchanged DEF RcInv, ReloadConfig, loaderVars
<1> QED
  BY <1>1, <1>2 DEF RcInv

LEMMA RcRestart ==
  ASSUME RcInv, NEW s \in Sessions, Restart(s)
  PROVE  RcInv'
<1>1. <<>> \in Seq(Level) /\ NoLibs \in [Fns -> Libs \cup {NoLib}] /\ NotOpened \in [Fns -> Nat]
  BY DEF NoLibs, NotOpened
<1>2. /\ xact' \in [Sessions -> Seq(Level)]
      /\ iters' \in [Sessions -> [Fns -> Libs \cup {NoLib}]]
      /\ opened' \in [Sessions -> [Fns -> Nat]]
      /\ view' \in [Sessions -> [Fns -> Row \cup {Gone}]]
  BY <1>1 DEF RcInv, CatalogTypes, Restart
<1>3. cid' \in [Sessions -> 0..(MaxCid + 1)] /\ combo' \in [Sessions -> Nat] /\ ComboBound'
  BY FnCacheAssumption DEF RcInv, CatalogTypes, Restart, ComboBound
<1>4. CatalogTypes'
  BY <1>2, <1>3 DEF RcInv, CatalogTypes, Restart, catalog
<1>5. LoaderInv'
  BY EmptyOK, LoaderStep DEF RcInv, Restart
<1> QED
  BY <1>4, <1>5 DEF RcInv


LEMMA RcWriteRow ==
  ASSUME RcInv, NEW s \in Sessions, NEW f \in Fns, InXact(s),
         NEW row \in Row \cup {Gone}, NEW updates \in Nat,
         WriteRow(s, f, row, updates), fresh' \subseteq fresh,
         UNCHANGED <<required, iters, opened>>
  PROVE  CatalogTypes'
<1>1. TypeOK /\ ComboBound
  BY RcInvParts
<1>2. /\ committed' \in [Fns -> Row \cup {Gone}]
      /\ nextXid' \in 1..(MaxXid + 1)
      /\ xact' \in [Sessions -> Seq(Level)]
      /\ cid' \in [Sessions -> 0..(MaxCid + 1)]
      /\ combo' \in [Sessions -> Nat]
      /\ view' \in [Sessions -> [Fns -> Row \cup {Gone}]]
      /\ ComboBound'
  BY <1>1, WriteRowType
<1> QED
  BY <1>2 DEF RcInv, CatalogTypes

LEMMA RcAlter ==
  ASSUME RcInv, NEW s \in Sessions, NEW f \in Fns, Alter(s, f)
  PROVE  RcInv'
<1> DEFINE row == [Current(s, f) EXCEPT !.xid = XidOf(s), !.cid = cid[s]]
<1>1. TypeOK /\ InXact(s) /\ Current(s, f) # Gone /\ WriteRow(s, f, row, 0)
  BY RcInvParts DEF Alter, CanWrite
<1>2. Current(s, f) \in Row
  BY <1>1, CurrentType
<1>3. XidOf(s) \in 1..MaxXid
  <2>1. XidOf(s) <= MaxXid
    BY <1>1 DEF WriteRow, Writes
  <2> QED
    BY <1>1, <2>1, XidOfType
<1>4. cid[s] \in 0..MaxCid
  <2>1. cid[s] + 0 <= MaxCid /\ cid[s] \in 0..(MaxCid + 1)
    BY <1>1 DEF WriteRow, Writes, TypeOK
  <2> QED
    BY <2>1, FnCacheAssumption
<1>5. row \in Row
  BY <1>2, <1>3, <1>4 DEF Row
<1>6. UNCHANGED <<fresh, required, iters, opened, cache, libs, frames>>
  BY DEF Alter, loaderVars
<1> HIDE DEF row
<1>7. CatalogTypes'
  BY <1>1, <1>5, <1>6, RcWriteRow
<1>8. LoaderInv'
  BY <1>6, LoaderUnchanged DEF RcInv
<1> QED
  BY <1>7, <1>8 DEF RcInv

LEMMA RcDropFunction ==
  ASSUME RcInv, NEW s \in Sessions, NEW f \in Fns, DropFunction(s, f)
  PROVE  RcInv'
<1>1. /\ InXact(s) /\ WriteRow(s, f, Gone, 0)
      /\ UNCHANGED <<fresh, required, iters, opened, cache, libs, frames>>
  BY DEF DropFunction, CanWrite, loaderVars
<1>2. CatalogTypes'
  BY <1>1, RcWriteRow
<1>3. LoaderInv'
  BY <1>1, LoaderUnchanged DEF RcInv
<1> QED
  BY <1>2, <1>3 DEF RcInv

LEMMA RcReplace ==
  ASSUME RcInv, NEW s \in Sessions, NEW f \in Fns, Replace(s, f)
  PROVE  RcInv'
<1>1. TypeOK /\ InXact(s) /\ UNCHANGED <<required, frames, iters, opened>>
  BY RcInvParts DEF Replace, Submittable, CanWrite
<1>2. PICK code \in Codes, lints \in CompileLints :
        WriteRow(s, f, [xid |-> XidOf(s), cid |-> cid[s] + NTargets,
                        code |-> code, lints |-> lints], NTargets)
  BY DEF Replace
<1> DEFINE row == [xid |-> XidOf(s), cid |-> cid[s] + NTargets,
                   code |-> code, lints |-> lints]
<1>3. row \in Row
  <2>1. XidOf(s) <= MaxXid /\ cid[s] + NTargets <= MaxCid
    BY <1>2 DEF WriteRow, Writes
  <2>2. XidOf(s) \in 1..MaxXid
    BY <1>1, <2>1, XidOfType
  <2>3. cid[s] + NTargets \in 0..MaxCid
    <3>1. cid[s] \in 0..(MaxCid + 1)
      BY <1>1 DEF TypeOK
    <3> QED
      BY <2>1, <3>1, NTargetsType, FnCacheAssumption
  <2> QED
    BY <2>2, <2>3 DEF Row
<1>4. WriteRow(s, f, row, NTargets) /\ NTargets \in Nat /\ fresh' \subseteq fresh
  BY <1>2, NTargetsType DEF Replace
<1> HIDE DEF row
<1>5. CatalogTypes'
  BY <1>1, <1>3, <1>4, RcWriteRow
<1>6. LoaderInv'
  <2>1. PICK closes \in CloseResults :
          libs' = [libs EXCEPT ![s] = Unloaded(s, f, closes)]
    BY DEF Replace
  <2>2. SessionOK(Unloaded(s, f, closes), [cache[s] EXCEPT ![f] = NoLib], frames[s])
    BY CloseResultsType, UnloadOK DEF RcInv
  <2>3. /\ cache' = [cache EXCEPT ![s] = [cache[s] EXCEPT ![f] = NoLib]]
        /\ frames' = [frames EXCEPT ![s] = frames[s]]
    BY <1>1, LoaderFacts DEF Replace, RcInv
  <2> QED
    BY <2>1, <2>2, <2>3, LoaderStep DEF RcInv
<1> QED
  BY <1>5, <1>6 DEF RcInv

LEMMA RcReplaceFails ==
  ASSUME RcInv, CallsNest, NEW s \in Sessions, NEW f \in Fns, ReplaceFails(s, f)
  PROVE  RcInv'
<1>1. /\ TypeOK /\ ComboBound /\ InXact(s) /\ fresh' \subseteq fresh /\ UNCHANGED required
      /\ cache' = [cache EXCEPT ![s] = [cache[s] EXCEPT ![f] = NoLib]]
  BY RcInvParts DEF ReplaceFails, Submittable, CanWrite
<1>2. PICK closes \in CloseResults : UnwindLevel(s, Unloaded(s, f, closes))
  BY DEF ReplaceFails
<1>3. SessionOK(Unloaded(s, f, closes), [cache[s] EXCEPT ![f] = NoLib], frames[s])
  BY CloseResultsType, UnloadOK DEF RcInv
<1>4. /\ LoaderInv'
      /\ iters' \in [Sessions -> [Fns -> Libs \cup {NoLib}]]
      /\ opened' \in [Sessions -> [Fns -> Nat]]
  BY <1>1, <1>2, <1>3, UnwindLevelOK
<1>5. PICK updates \in 0..NTargets : WriteUndone(s, f, updates)
  BY DEF ReplaceFails
<1>6. updates \in Nat
  BY NTargetsType
<1> DEFINE commands == cid[s] + updates + 1
           combos == combo[s] + CombosOf(s, f, updates)
           levels == LevelsWith(s, f, Gone)
<1>7. /\ Writes(s, updates) /\ StampCommitted(s, f)
      /\ xact' = [xact EXCEPT ![s] = Pop(levels)]
      /\ view' = [view EXCEPT ![s] = committed']
      /\ cid' = [cid EXCEPT ![s] = IF Len(xact[s]) = 1 THEN 0 ELSE commands]
      /\ combo' = [combo EXCEPT ![s] = IF Len(xact[s]) = 1 THEN 0 ELSE combos]
  BY <1>5 DEF WriteUndone, Unless0
<1>8. /\ committed' \in [Fns -> Row \cup {Gone}] /\ nextXid' \in 1..(MaxXid + 1)
      /\ levels \in Seq(Level) /\ Len(levels) = Len(xact[s])
      /\ commands \in 0..(MaxCid + 1) /\ combos \in Nat /\ combos <= commands
  BY <1>1, <1>6, <1>7, WrittenTypes, LevelsWithCalls
<1>9. Pop(levels) \in Seq(Level)
  <2>1. Len(levels) \in Nat \ {0}
    BY <1>1, <1>8, TopType
  <2> HIDE DEF levels
  <2> QED
    BY <1>8, <2>1 DEF Pop
<1> HIDE DEF commands, combos, levels
<1>10. /\ xact' \in [Sessions -> Seq(Level)]
       /\ view' \in [Sessions -> [Fns -> Row \cup {Gone}]]
       /\ cid' \in [Sessions -> 0..(MaxCid + 1)]
       /\ combo' \in [Sessions -> Nat]
       /\ ComboBound'
  BY <1>1, <1>7, <1>8, <1>9, FnCacheAssumption DEF TypeOK, ComboBound
<1>11. CatalogTypes'
  BY <1>1, <1>4, <1>8, <1>10 DEF RcInv, CatalogTypes
<1> QED
  BY <1>4, <1>11 DEF RcInv

LEMMA RcEvaluate ==
  ASSUME RcInv, NEW s \in Sessions, NEW f \in Fns, NEW resumes \in Libs \cup {NoLib},
         Evaluate(s, f, resumes)
  PROVE  RcInv'
<1>1. CatalogTypes'
  BY DEF RcInv, CatalogTypes, ComboBound, Evaluate, catalog, xactVars
<1>2. /\ TypeOK /\ LoaderInv
      /\ SessionOK(libs[s], cache[s], frames[s])
      /\ libs[s] \in [Libs -> Library \cup {Closed}]
      /\ cache[s] \in [Fns -> Libs \cup {NoLib}]
  BY RcInvParts, LoaderFacts DEF RcInv, SessionOK
<1>3. CASE RunCached(s, f, resumes)
  <2> DEFINE l == cache[s][f]
             e == [fn |-> f, lib |-> l, resumes |-> resumes]
  <2>1. /\ l # NoLib
        /\ frames' = [frames EXCEPT ![s] = Append(frames[s], e)]
        /\ libs' = [libs EXCEPT ![s] = Clone(libs[s], l)]
        /\ cache' = [cache EXCEPT ![s] = cache[s]]
    BY <1>2, <1>3, LoaderFacts DEF RunCached, UpToDate, Enter
  <2>2. e \in FrameType /\ e.fn = f /\ e.lib = l
    BY <1>2, <2>1 DEF FrameType
  <2>3. SessionOK(Clone(libs[s], l), cache[s], Append(frames[s], e))
    BY <1>2, <2>1, <2>2, RunCachedOK
  <2> DEFINE lb2 == Clone(libs[s], l)
             fr2 == Append(frames[s], e)
  <2>4. /\ LoaderInv /\ SessionOK(lb2, cache[s], fr2)
        /\ libs' = [libs EXCEPT ![s] = lb2]
        /\ cache' = [cache EXCEPT ![s] = cache[s]]
        /\ frames' = [frames EXCEPT ![s] = fr2]
    BY <1>2, <2>1, <2>3
  <2> HIDE DEF lb2, fr2
  <2>5. LoaderInv'
    BY <2>4, LoaderStep
  <2> QED
    BY <1>1, <2>5 DEF RcInv
<1>4. CASE LoadAndRun(s, f, resumes)
  <2>1. PICK l \in FreeLibs(s), closes \in CloseResults :
          /\ libs' = [libs EXCEPT ![s] =
                [Unloaded(s, f, closes) EXCEPT
                    ![l] = [fn |-> f, row |-> Visible(s, f), rc |-> 2]]]
          /\ cache' = [cache EXCEPT ![s][f] = l]
          /\ Enter(s, f, l, resumes)
    BY <1>4 DEF LoadAndRun
  <2> DEFINE lb == Unloaded(s, f, closes)
             c == [cache[s] EXCEPT ![f] = NoLib]
             e == [fn |-> f, lib |-> l, resumes |-> resumes]
  <2>2. l \in Libs /\ libs[s][l] = Closed /\ closes \in BOOLEAN
    BY CloseResultsType DEF FreeLibs
  <2>3. SessionOK(lb, c, frames[s]) /\ c[f] = NoLib
    BY <1>2, <2>2, UnloadOK
  <2>4. lb[l] = Closed
    <3>1. CASE cache[s][f] = NoLib
      BY <2>2, <3>1 DEF Unloaded
    <3>2. CASE cache[s][f] # NoLib
      <4>1. cache[s][f] \in Libs /\ libs[s][cache[s][f]] # Closed /\ cache[s][f] # l
        BY <1>2, <2>2, <3>2 DEF SessionOK
      <4>2. DropRef(libs[s], cache[s][f], closes)[l] = libs[s][l]
        BY <1>2, <2>2, <4>1, DropRefCount
      <4> QED
        BY <2>2, <3>2, <4>2 DEF Unloaded
    <3> QED
      BY <3>1, <3>2
  <2>5. Visible(s, f) \in Row
    BY <1>2, VisibleType DEF Evaluate
  <2>6. e \in FrameType /\ e.fn = f /\ e.lib = l
    BY <2>2 DEF FrameType
  <2> DEFINE lb2 == [lb EXCEPT ![l] = [fn |-> f, row |-> Visible(s, f), rc |-> 2]]
             c2 == [c EXCEPT ![f] = l]
             fr2 == Append(frames[s], e)
  <2>7. SessionOK(lb2, c2, fr2)
    <3> HIDE DEF lb, c, e
    <3> QED
      BY <2>2, <2>3, <2>4, <2>5, <2>6, LoadOK
  <2>8. c2 = [cache[s] EXCEPT ![f] = l]
    BY <1>2
  <2>9. /\ LoaderInv
        /\ libs' = [libs EXCEPT ![s] = lb2]
        /\ cache' = [cache EXCEPT ![s] = c2]
        /\ frames' = [frames EXCEPT ![s] = fr2]
    BY <1>2, <2>1, <2>8 DEF Enter
  <2> HIDE DEF lb2, c2, fr2
  <2>10. LoaderInv'
    BY <2>7, <2>9, LoaderStep
  <2> QED
    BY <1>1, <2>10 DEF RcInv
<1>5. RunCached(s, f, resumes) \/ LoadAndRun(s, f, resumes)
  BY DEF Evaluate
<1> QED
  BY <1>3, <1>4, <1>5

LEMMA RcExecute ==
  ASSUME RcInv, CallsNest, NEW s \in Sessions, NEW f \in Fns, Execute(s, f)
  PROVE  RcInv'
<1>1. CASE Call(s, f)
  BY <1>1, RcEvaluate DEF Call
<1>2. CASE Fetch(s, f)
  <2>1. iters[s][f] \in Libs \cup {NoLib}
    BY DEF RcInv, CatalogTypes
  <2> QED
    BY <1>2, <2>1, RcEvaluate DEF Fetch
<1>3. CASE CallFails(s, f)
  BY <1>3, RcAbortTop DEF CallFails
<1> QED
  BY <1>1, <1>2, <1>3 DEF Execute

\* A call that returns is in progress.
LEMMA LeaveFrames ==
  ASSUME RcInv, CallsNest, NEW s \in Sessions, Leave(s)
  PROVE  ~Idle(s) /\ frames[s] \in Seq(FrameType) /\ Frame(s) \in FrameType
<1>1. Len(frames[s]) > Top(s).calls /\ Top(s).calls \in 0..Len(frames[s])
  BY LevelCalls DEF Leave
<1>2. frames[s] \in Seq(FrameType) /\ frames[s] # <<>>
  BY <1>1 DEF RcInv, LoaderInv
<1> QED
  BY <1>2, PopThenPush DEF Frame, Idle

LEMMA RcLeave ==
  ASSUME RcInv, NEW s \in Sessions, ~Idle(s), Leave(s),
         iters' \in [Sessions -> [Fns -> Libs \cup {NoLib}]],
         opened' \in [Sessions -> [Fns -> Nat]]
  PROVE  RcInv'
<1>1. CatalogTypes'
  BY DEF RcInv, CatalogTypes, ComboBound, Leave, catalog, xactVars
<1>2. PICK closes \in CloseResults :
        libs' = [libs EXCEPT ![s] = DropRef(libs[s], Frame(s).lib, closes)]
  BY DEF Leave
<1>3. SessionOK(DropRef(libs[s], Frame(s).lib, closes), cache[s], Pop(frames[s]))
  BY CloseResultsType, LoaderFacts, PopCached DEF RcInv, Frame, Idle
<1>4. frames' = [frames EXCEPT ![s] = Pop(frames[s])] /\ cache' = [cache EXCEPT ![s] = cache[s]]
  BY LoaderFacts DEF Leave, RcInv
<1>5. LoaderInv'
  BY <1>2, <1>3, <1>4, LoaderStep DEF RcInv
<1> QED
  BY <1>1, <1>5 DEF RcInv

LEMMA RcReturn ==
  ASSUME RcInv, CallsNest, NEW s \in Sessions, Return(s) \/ Yield(s)
  PROVE  RcInv'
<1>1. Leave(s)
  BY DEF Return, Yield
<1>2. ~Idle(s) /\ Frame(s).fn \in Fns /\ Frame(s).lib \in Libs
  BY <1>1, LeaveFrames DEF FrameType
<1>3. /\ iters \in [Sessions -> [Fns -> Libs \cup {NoLib}]]
      /\ opened \in [Sessions -> [Fns -> Nat]]
      /\ Len(xact[s]) \in Nat
  BY DEF RcInv, CatalogTypes
<1> DEFINE g == Frame(s).fn
           l == Frame(s).lib
<1>4. \/ UNCHANGED <<iters, opened>>
      \/ /\ iters' = [iters EXCEPT ![s][g] = NoLib]
         /\ opened' = [opened EXCEPT ![s][g] = 0]
      \/ /\ iters' = [iters EXCEPT ![s][g] = l]
         /\ \E level \in 1..Len(xact[s]) : opened' = [opened EXCEPT ![s][g] = level]
  <2>1. CASE Return(s)
    BY <2>1, Zenon DEF Return
  <2>2. CASE Yield(s)
    BY <2>2, Zenon DEF Yield
  <2> QED
    BY <2>1, <2>2
<1>5. g \in Fns /\ l \in Libs
  BY <1>2
<1> HIDE DEF g, l
<1>6. iters' \in [Sessions -> [Fns -> Libs \cup {NoLib}]]
  <2>1. ASSUME NEW e \in Libs \cup {NoLib}, iters' = [iters EXCEPT ![s][g] = e]
        PROVE  iters' \in [Sessions -> [Fns -> Libs \cup {NoLib}]]
    BY <1>3, <1>5, <2>1
  <2>2. l \in Libs \cup {NoLib} /\ NoLib \in Libs \cup {NoLib}
    BY <1>5
  <2>3. \/ iters' = iters \/ iters' = [iters EXCEPT ![s][g] = NoLib]
        \/ iters' = [iters EXCEPT ![s][g] = l]
    BY <1>4
  <2> QED
    BY <1>3, <2>1, <2>2, <2>3, Zenon
<1>7. opened' \in [Sessions -> [Fns -> Nat]]
  <2>1. ASSUME NEW level \in Nat, opened' = [opened EXCEPT ![s][g] = level]
        PROVE  opened' \in [Sessions -> [Fns -> Nat]]
    BY <1>3, <1>5, <2>1
  <2>2. 0 \in Nat /\ 1..Len(xact[s]) \subseteq Nat
    BY <1>3
  <2>3. opened' = opened \/ \E level \in Nat : opened' = [opened EXCEPT ![s][g] = level]
    BY <1>4, <2>2, Zenon
  <2> QED
    BY <1>3, <2>1, <2>3, Zenon
<1> QED
  BY <1>1, <1>2, <1>6, <1>7, RcLeave

LEMMA RcNext == RcInv /\ CallsNest /\ [Next]_vars => RcInv'
<1> SUFFICES ASSUME RcInv, CallsNest, [Next]_vars PROVE RcInv'
  OBVIOUS
<1>1. CASE UNCHANGED vars
  <2>1. CatalogTypes'
    BY <1>1 DEF RcInv, CatalogTypes, ComboBound, vars, catalog, xactVars, loaderVars
  <2>2. LoaderInv'
    BY <1>1, LoaderUnchanged DEF RcInv, vars, loaderVars
  <2> QED
    BY <2>1, <2>2 DEF RcInv
<1>2. ASSUME NEW s \in Sessions, Transact(s) PROVE RcInv'
  BY <1>2, RcBegin, RcSavepoint, RcReleaseSavepoint, RcCommit, RcAbort,
     RcCatch, RcAcceptInvalidations, RcReloadConfig, RcRestart DEF Transact
<1>3. ASSUME NEW s \in Sessions, NEW f \in Fns, Define(s, f) PROVE RcInv'
  BY <1>3, RcAlter, RcDropFunction, RcReplace, RcReplaceFails DEF Define
<1>4. ASSUME NEW s \in Sessions, NEW f \in Fns, Execute(s, f) PROVE RcInv'
  BY <1>4, RcExecute
<1>5. ASSUME NEW s \in Sessions, Return(s) \/ Yield(s) PROVE RcInv'
  BY <1>5, RcReturn
<1> QED
  BY <1>1, <1>2, <1>3, <1>4, <1>5 DEF Next

\* Every action keeps levels and calls nested.
LEMMA NestStep ==
  ASSUME RcInv, CallsNest, NEW s \in Sessions, NEW q \in Seq(Level), NEW fr,
         Nest(q, Len(fr)),
         xact' = [xact EXCEPT ![s] = q], frames' = [frames EXCEPT ![s] = fr]
  PROVE  CallsNest'
<1>1. ASSUME NEW t \in Sessions PROVE Nest(xact'[t], Len(frames'[t]))
  <2>1. CASE t = s
    <3>1. xact'[t] = q /\ frames'[t] = fr
      BY <2>1 DEF RcInv, CatalogTypes, LoaderInv
    <3> QED
      BY <3>1
  <2>2. CASE t # s
    <3>1. xact'[t] = xact[t] /\ frames'[t] = frames[t]
      BY <2>2 DEF RcInv, CatalogTypes, LoaderInv
    <3> QED
      BY <3>1 DEF CallsNest
  <2> QED
    BY <2>1, <2>2
<1>2. \A t \in Sessions : Nest(xact'[t], Len(frames'[t]))
  BY <1>1
<1> QED
  BY <1>2 DEF CallsNest, Nest

LEMMA NestFacts ==
  ASSUME RcInv, CallsNest, NEW s \in Sessions
  PROVE  /\ TypeOK
         /\ xact[s] \in Seq(Level) /\ frames[s] \in Seq(FrameType)
         /\ Len(frames[s]) \in Nat
         /\ Nest(xact[s], Len(frames[s]))
         /\ xact = [xact EXCEPT ![s] = xact[s]]
         /\ frames = [frames EXCEPT ![s] = frames[s]]
<1>1. TypeOK
  BY RcInvParts
<1> QED
  BY <1>1 DEF TypeOK, CallsNest

\* The levels stay; calls are made or end above the innermost one.
LEMMA NestCalls ==
  ASSUME RcInv, CallsNest, NEW s \in Sessions, NEW fr \in Seq(FrameType),
         InXact(s) => Top(s).calls <= Len(fr),
         UNCHANGED xact, frames' = [frames EXCEPT ![s] = fr]
  PROVE  CallsNest'
<1>1. Len(fr) \in Nat /\ (xact[s] # <<>> => xact[s][Len(xact[s])].calls <= Len(fr))
  BY DEF InXact, Top
<1>2. Nest(xact[s], Len(fr))
  BY <1>1, NestFacts, NestTop
<1> QED
  BY <1>2, NestFacts, NestStep

LEMMA NestSavepoint ==
  ASSUME RcInv, CallsNest, NEW s \in Sessions, Savepoint(s), RcInv'
  PROVE  CallsNest'
<1> DEFINE e == [xid |-> 0, rows |-> Top(s).rows, calls |-> Len(frames[s])]
<1>1. e \in Level /\ e.calls = Len(frames[s])
  BY NestFacts, TopType, FnCacheAssumption DEF Level, Savepoint
<1>2. xact' = [xact EXCEPT ![s] = Append(xact[s], e)] /\ UNCHANGED frames
  BY DEF Savepoint, loaderVars
<1> HIDE DEF e
<1>3. Append(xact[s], e) \in Seq(Level)
  BY <1>1, NestFacts
<1> QED
  BY <1>1, <1>2, <1>3, NestFacts, NestPush, NestStep

LEMMA NestRelease ==
  ASSUME RcInv, CallsNest, NEW s \in Sessions, ReleaseSavepoint(s)
  PROVE  CallsNest'
<1> DEFINE p == Pop(xact[s])
           n == Len(xact[s])
           q == [p EXCEPT ![n - 1].rows = Top(s).rows]
<1>1. xact[s] # <<>> /\ n \in Nat /\ n > 1 /\ InXact(s)
  BY NestFacts DEF ReleaseSavepoint, InXact
<1>2. p \in Seq(Level) /\ Nest(p, Len(frames[s]))
  BY <1>1, NestFacts, NestPop, PopType
<1>3. Len(p) = n - 1 /\ \A i \in 1..Len(p) : p[i] \in Level
  BY <1>1, <1>2, NestFacts DEF Pop
<1>4. Top(s).rows \in [Fns -> Row \cup {Gone, Unwritten}]
  BY <1>1, NestFacts, TopType
<1> HIDE DEF p
<1>5. n - 1 \in 1..Len(p)
  BY <1>1, <1>3
<1> HIDE DEF n
<1>6. [p[n - 1] EXCEPT !.rows = Top(s).rows] \in Level
      /\ [p[n - 1] EXCEPT !.rows = Top(s).rows].calls = p[n - 1].calls
  BY <1>3, <1>4, <1>5 DEF Level
<1>7. q \in Seq(Level) /\ Len(q) = Len(p) /\ \A i \in 1..Len(p) : q[i].calls = p[i].calls
  BY <1>2, <1>5, <1>6, ExceptSeq
<1>8. xact' = [xact EXCEPT ![s] = q] /\ UNCHANGED frames
  BY DEF ReleaseSavepoint, p, n
<1> HIDE DEF q
<1>9. Nest(q, Len(frames[s]))
  BY <1>2, <1>7, NestSame
<1> QED
  BY <1>7, <1>8, <1>9, NestFacts, NestStep

\* A rollback, of levels q that began as those of s did.
LEMMA NestAbort ==
  ASSUME RcInv, CallsNest, NEW s \in Sessions, InXact(s), NEW lb, UnwindLevel(s, lb),
         NEW q \in Seq(Level), Len(q) = Len(xact[s]),
         \A i \in 1..Len(xact[s]) : q[i].calls = xact[s][i].calls,
         xact' = [xact EXCEPT ![s] = Pop(q)]
  PROVE  CallsNest'
<1>1. Nest(q, Len(frames[s]))
  BY NestFacts, NestSame
<1>2. q # <<>> /\ Len(xact[s]) \in 1..Len(xact[s])
  BY NestFacts DEF InXact
<1>3. q[Len(q)].calls = Top(s).calls
  BY <1>2 DEF Top
<1>4. Pop(q) \in Seq(Level)
  BY <1>2 DEF Pop
<1>5. Nest(Pop(q), Top(s).calls) /\ Top(s).calls \in 0..Len(frames[s])
  BY <1>1, <1>2, <1>3, NestFacts, NestPop
<1>6. /\ frames' = [frames EXCEPT ![s] = SubSeq(frames[s], 1, Top(s).calls)]
      /\ Len(SubSeq(frames[s], 1, Top(s).calls)) = Top(s).calls
  BY <1>5, NestFacts, FramesSplit DEF UnwindLevel, Unwind
<1> QED
  BY <1>4, <1>5, <1>6, NestStep

LEMMA NestAbortTop ==
  ASSUME RcInv, CallsNest, NEW s \in Sessions, InXact(s), AbortTop(s)
  PROVE  CallsNest'
  BY NestFacts, NestAbort DEF AbortTop

LEMMA NestReplaceFails ==
  ASSUME RcInv, CallsNest, NEW s \in Sessions, NEW f \in Fns, ReplaceFails(s, f)
  PROVE  CallsNest'
<1>1. TypeOK /\ ComboBound /\ InXact(s)
  BY RcInvParts DEF ReplaceFails, Submittable, CanWrite
<1>2. PICK lb : UnwindLevel(s, lb)
  BY DEF ReplaceFails
<1>3. PICK updates \in 0..NTargets : WriteUndone(s, f, updates)
  BY DEF ReplaceFails
<1>4. /\ updates \in Nat /\ Writes(s, updates) /\ StampCommitted(s, f)
      /\ xact' = [xact EXCEPT ![s] = Pop(LevelsWith(s, f, Gone))]
  BY <1>3, NTargetsType DEF WriteUndone
<1>5. /\ LevelsWith(s, f, Gone) \in Seq(Level)
      /\ Len(LevelsWith(s, f, Gone)) = Len(xact[s])
      /\ \A i \in 1..Len(xact[s]) : LevelsWith(s, f, Gone)[i].calls = xact[s][i].calls
  BY <1>1, <1>4, WrittenTypes, LevelsWithCalls
<1> QED
  BY <1>1, <1>2, <1>4, <1>5, NestAbort

LEMMA NestWriteRow ==
  ASSUME RcInv, CallsNest, NEW s \in Sessions, NEW f \in Fns, InXact(s), NEW row,
         xact' = [xact EXCEPT ![s] = LevelsWith(s, f, row)],
         UNCHANGED frames, RcInv'
  PROVE  CallsNest'
<1>1. LevelsWith(s, f, row) \in Seq(Level)
  <2>1. xact'[s] \in Seq(Level) /\ xact'[s] = LevelsWith(s, f, row)
    BY DEF RcInv, CatalogTypes
  <2> QED
    BY <2>1
<1>2. /\ Len(LevelsWith(s, f, row)) = Len(xact[s])
      /\ \A i \in 1..Len(xact[s]) : LevelsWith(s, f, row)[i].calls = xact[s][i].calls
  BY NestFacts, LevelsWithCalls
<1>3. Nest(LevelsWith(s, f, row), Len(frames[s]))
  BY <1>1, <1>2, NestFacts, NestSame
<1> QED
  BY <1>1, <1>3, NestFacts, NestStep

LEMMA NestTransact ==
  ASSUME RcInv, CallsNest, NEW s \in Sessions, Transact(s), RcInv'
  PROVE  CallsNest'
<1>1. CASE Begin(s)
  <2> DEFINE q == <<[xid |-> 0, rows |-> [f \in Fns |-> Unwritten], calls |-> 0]>>
  <2>1. q \in Seq(Level)
    BY FnCacheAssumption DEF Level
  <2>2. Nest(q, Len(frames[s]))
    BY NestFacts DEF Nest
  <2>3. xact' = [xact EXCEPT ![s] = q] /\ UNCHANGED frames
    BY <1>1 DEF Begin, loaderVars
  <2> HIDE DEF q
  <2> QED
    BY <2>1, <2>2, <2>3, NestFacts, NestStep
<1>2. CASE Commit(s) \/ Restart(s)
  <2>1. <<>> \in Seq(Level) /\ Nest(<<>>, Len(frames[s])) /\ Nest(<<>>, Len(<<>>))
    BY DEF Nest
  <2>2. CASE Commit(s)
    <3>1. xact' = [xact EXCEPT ![s] = <<>>] /\ UNCHANGED frames
      BY <2>2 DEF Commit
    <3> QED
      BY <2>1, <3>1, NestFacts, NestStep
  <2>3. CASE Restart(s)
    <3>1. xact' = [xact EXCEPT ![s] = <<>>] /\ frames' = [frames EXCEPT ![s] = <<>>]
      BY <2>3 DEF Restart
    <3> QED
      BY <2>1, <3>1, NestStep
  <2> QED
    BY <1>2, <2>2, <2>3
<1>3. CASE Catch(s)
  <2>1. PICK n \in (Top(s).calls + 1)..(Len(frames[s]) - 1) : Unwind(s, n, libs[s])
    BY <1>3 DEF Catch
  <2>2. Top(s).calls \in 0..Len(frames[s]) /\ Len(frames[s]) \in Nat /\ UNCHANGED xact
    BY <1>3, LevelCalls, NestFacts DEF Catch, xactVars
  <2>3. n \in 0..Len(frames[s]) /\ Top(s).calls <= n
    BY <2>2
  <2>4. /\ SubSeq(frames[s], 1, n) \in Seq(FrameType)
        /\ Len(SubSeq(frames[s], 1, n)) = n
        /\ frames' = [frames EXCEPT ![s] = SubSeq(frames[s], 1, n)]
    BY <2>1, <2>3, NestFacts, FramesSplit DEF Unwind
  <2> QED
    BY <2>2, <2>3, <2>4, NestCalls
<1>4. CASE AcceptInvalidations(s) \/ ReloadConfig(s)
  BY <1>4 DEF CallsNest, Nest, AcceptInvalidations, ReloadConfig, xactVars, loaderVars
<1> QED
  BY <1>1, <1>2, <1>3, <1>4, NestSavepoint, NestRelease, NestAbortTop DEF Transact, Abort

LEMMA NestDefine ==
  ASSUME RcInv, CallsNest, NEW s \in Sessions, NEW f \in Fns, Define(s, f), RcInv'
  PROVE  CallsNest'
<1>1. CASE ReplaceFails(s, f)
  BY <1>1, NestReplaceFails
<1>2. CASE Alter(s, f) \/ DropFunction(s, f) \/ Replace(s, f)
  <2>1. InXact(s) /\ UNCHANGED frames
    BY <1>2 DEF Alter, DropFunction, Replace, Submittable, CanWrite, loaderVars
  <2>2. PICK row : xact' = [xact EXCEPT ![s] = LevelsWith(s, f, row)]
    BY <1>2 DEF Alter, DropFunction, Replace, WriteRow
  <2> QED
    BY <2>1, <2>2, NestWriteRow
<1> QED
  BY <1>1, <1>2 DEF Define

LEMMA NestNext == RcInv /\ CallsNest /\ [Next]_vars => CallsNest'
<1> SUFFICES ASSUME RcInv, CallsNest, [Next]_vars PROVE CallsNest'
  OBVIOUS
<1>0. RcInv'
  BY RcNext
<1>1. CASE UNCHANGED vars
  BY <1>1 DEF CallsNest, Nest, vars, xactVars, loaderVars
<1>2. ASSUME NEW s \in Sessions, NEW f \in Fns, Execute(s, f) PROVE CallsNest'
  <2>1. CASE CallFails(s, f)
    BY <2>1, NestAbortTop DEF CallFails
  <2>2. CASE Call(s, f) \/ Fetch(s, f)
    <3>1. PICK e : /\ frames' = [frames EXCEPT ![s] = Append(frames[s], e)]
                   /\ UNCHANGED xact /\ InXact(s)
      BY <2>2 DEF Call, Fetch, Evaluate, RunCached, LoadAndRun, Enter, xactVars
    <3> DEFINE fr == Append(frames[s], e)
    <3>2. frames'[s] \in Seq(FrameType) /\ frames'[s] = fr
      BY <1>0, <3>1, NestFacts DEF RcInv, LoaderInv
    <3>3. Len(fr) = Len(frames[s]) + 1
      BY NestFacts
    <3>4. Top(s).calls \in 0..Len(frames[s]) /\ Len(frames[s]) \in Nat
      BY <3>1, LevelCalls, NestFacts
    <3> HIDE DEF fr
    <3>5. fr \in Seq(FrameType) /\ Top(s).calls <= Len(fr)
      BY <3>2, <3>3, <3>4
    <3> QED
      BY <3>1, <3>5, NestCalls DEF fr
  <2> QED
    BY <1>2, <2>1, <2>2 DEF Execute
<1>3. ASSUME NEW s \in Sessions, Return(s) \/ Yield(s) PROVE CallsNest'
  <2>1. Leave(s)
    BY <1>3 DEF Return, Yield
  <2> DEFINE fr == Pop(frames[s])
  <2>2. /\ frames' = [frames EXCEPT ![s] = fr] /\ UNCHANGED xact
        /\ InXact(s) /\ Len(frames[s]) > Top(s).calls
    BY <2>1 DEF Leave, xactVars
  <2>3. fr \in Seq(FrameType) /\ Len(fr) = Len(frames[s]) - 1
    BY <2>1, LeaveFrames, PopThenPush DEF Idle, Pop
  <2>4. Top(s).calls \in 0..Len(frames[s]) /\ Len(frames[s]) \in Nat
    BY <2>2, LevelCalls, NestFacts
  <2> HIDE DEF fr
  <2>5. Top(s).calls <= Len(fr)
    BY <2>2, <2>3, <2>4
  <2> QED
    BY <2>2, <2>3, <2>5, NestCalls
<1> QED
  BY <1>0, <1>1, <1>2, <1>3, NestTransact, NestDefine DEF Next

LEMMA NestInit == Init => CallsNest
  BY DEF Init, CallsNest, Nest

\* Types, reference counts, the libraries behind calls and cache entries, and the
\* nesting of calls in savepoints in calls stay consistent through every step of
\* evaluate_function, unload_function and Postgres.
THEOREM RcInvariance == Spec => [](RcInv /\ CallsNest)
  BY RcInit, RcNext, NestInit, NestNext, PTL DEF Spec

\* Every variable keeps its shape.
THEOREM TypeCorrect == Spec => []TypeOK
<1>1. RcInv => TypeOK
  BY RcInvParts
<1> QED
  BY <1>1, RcInvariance, PTL

\* The strong count of a mapped library is exactly the number of its holders.
THEOREM CountsAreExact == Spec => []CountsHolders
<1>1. RcInv => CountsHolders
  BY RcInvParts
<1> QED
  BY <1>1, RcInvariance, PTL

\* A library stays mapped while a call runs in it or the cache holds it.
THEOREM LibrariesOutliveTheirCalls == Spec => []HeldLibrariesMapped
<1>1. RcInv => HeldLibrariesMapped
  BY RcInvParts
<1> QED
  BY <1>1, RcInvariance, PTL

----------------------------------------------------------------------------
(* Nothing leaks while dlclose() works: a mapped library has a positive    *)
(* count, and by RcInv counts are exact, so that somebody holds it.        *)

Live(lb) == \A l \in Libs : lb[l] # Closed => lb[l].rc > 0

AllLive == \A s \in Sessions : Live(libs[s])

LEMMA LiveStep ==
  ASSUME LoaderInv, AllLive, NEW s \in Sessions, NEW lb, Live(lb),
         libs' = [libs EXCEPT ![s] = lb]
  PROVE  AllLive'
<1>1. ASSUME NEW t \in Sessions PROVE Live(libs'[t])
  <2>1. libs'[t] = IF t = s THEN lb ELSE libs[t]
    BY DEF LoaderInv
  <2> QED
    BY <2>1 DEF AllLive
<1> QED
  BY <1>1 DEF AllLive, Live

LEMMA DropRefLive ==
  ASSUME NEW lb \in [Libs -> Library \cup {Closed}], Live(lb), NEW l \in Libs,
         lb[l] # Closed
  PROVE  Live(DropRef(lb, l, TRUE))
<1>1. lb[l] \in Library /\ lb[l].rc \in Int /\ lb[l].rc > 0
  BY DEF Live, Library
<1>2. CASE lb[l].rc = 1
  BY <1>2 DEF DropRef, Live
<1>3. CASE lb[l].rc # 1
  <2> DEFINE new == DropRef(lb, l, TRUE)
  <2>1. new = [lb EXCEPT ![l].rc = lb[l].rc - 1]
    BY <1>3 DEF DropRef
  <2>2. new[l].rc = lb[l].rc - 1
    BY <1>1, <2>1 DEF Library
  <2>3. \A k \in Libs : k # l => new[k] = lb[k]
    BY <2>1
  <2>4. lb[l].rc - 1 > 0
    BY <1>1, <1>3
  <2> HIDE DEF new
  <2>5. Live(new)
    BY <2>2, <2>3, <2>4 DEF Live
  <2> QED
    BY <2>5 DEF new
<1> QED
  BY <1>2, <1>3

LEMMA UnloadedLive ==
  ASSUME LoaderInv, AllLive, NEW s \in Sessions, NEW f \in Fns
  PROVE  Live(Unloaded(s, f, TRUE))
<1>1. SessionOK(libs[s], cache[s], frames[s]) /\ Live(libs[s])
  BY DEF LoaderInv, AllLive
<1>2. CASE cache[s][f] = NoLib
  BY <1>1, <1>2 DEF Unloaded
<1>3. CASE cache[s][f] # NoLib
  <2>1. cache[s][f] \in Libs /\ libs[s][cache[s][f]] # Closed
    BY <1>1, <1>3 DEF SessionOK
  <2> QED
    BY <1>1, <1>3, <2>1, DropRefLive DEF Unloaded, SessionOK
<1> QED
  BY <1>2, <1>3

LEMMA DropFramesLive ==
  ASSUME NEW lb, NEW c, NEW fr, SessionOK(lb, c, fr), NEW n \in 0..Len(fr), Live(lb)
  PROVE  Live(DropFrames(lb, Above(fr, n), TRUE))
<1> DEFINE high == Above(fr, n)
           new == DropFrames(lb, high, TRUE)
<1> SUFFICES ASSUME NEW l \in Libs, new[l] # Closed
             PROVE  new[l].rc > 0
  BY DEF Live
<1>1. lb[l] \in Library \cup {Closed}
  BY DEF SessionOK
<1>2. /\ References(fr, l) = References(SubSeq(fr, 1, n), l) + References(high, l)
      /\ References(SubSeq(fr, 1, n), l) \in Nat /\ References(high, l) \in Nat
      /\ Entries(c, l) \in Nat /\ fr \in Seq(FrameType) /\ IsFiniteSet(DOMAIN high)
      /\ \A i \in DOMAIN high : i \in DOMAIN fr /\ high[i] = fr[i]
  <2>1. fr \in Seq(FrameType) /\ Entries(c, l) \in Nat
    BY CountsType DEF SessionOK
  <2>2. /\ SubSeq(fr, 1, n) \in Seq(FrameType) /\ IsFiniteSet(DOMAIN high)
        /\ \A i \in DOMAIN high : i \in DOMAIN fr /\ high[i] = fr[i]
    BY <2>1, FramesSplit
  <2>3. References(fr, l) = References(SubSeq(fr, 1, n), l) + References(high, l)
    BY <2>1, ReferencesSplit
  <2> HIDE DEF high
  <2>4. References(SubSeq(fr, 1, n), l) \in Nat /\ References(high, l) \in Nat
    BY <2>2, ReferencesType, FiniteReferences
  <2> QED
    BY <2>1, <2>2, <2>3, <2>4
<1>3. CASE References(high, l) = 0
  <2>1. new[l] = lb[l]
    BY <1>3 DEF DropFrames
  <2> QED
    BY <2>1 DEF Live
<1>4. CASE References(high, l) # 0
  <2>1. PICK i \in DOMAIN high : high[i].lib = l
    BY <1>2, <1>4, FiniteReferences
  <2>2. lb[l] # Closed /\ lb[l] \in Library
    BY <1>1, <1>2, <2>1 DEF SessionOK
  <2>3. lb[l].rc = References(fr, l) + Entries(c, l)
    BY <2>2 DEF SessionOK
  <2>4. lb[l].rc # References(high, l)
        /\ new[l] = [lb[l] EXCEPT !.rc = lb[l].rc - References(high, l)]
    BY <1>4, <2>2 DEF DropFrames
  <2>5. new[l].rc = lb[l].rc - References(high, l)
    BY <2>2, <2>4 DEF Library
  <2> HIDE DEF new, high
  <2> QED
    BY <1>2, <2>3, <2>4, <2>5
<1> QED
  BY <1>3, <1>4

LEMMA UnwindLive ==
  ASSUME ~DlcloseMayFail, LoaderInv, AllLive, NEW s \in Sessions, NEW lb, NEW c,
         NEW n \in 0..Len(frames[s]),
         SessionOK(lb, c, frames[s]), Live(lb), Unwind(s, n, lb)
  PROVE  AllLive'
<1>1. libs' = [libs EXCEPT ![s] = DropFrames(lb, Above(frames[s], n), TRUE)]
  BY DEF Unwind, CloseResults
<1> QED
  BY <1>1, DropFramesLive, LiveStep

LEMMA AbortLive ==
  ASSUME ~DlcloseMayFail, RcInv, CallsNest, AllLive, NEW s \in Sessions, InXact(s),
         AbortTop(s)
  PROVE  AllLive'
  BY LevelCalls, LoaderFacts, UnwindLive DEF RcInv, AbortTop, UnwindLevel, AllLive

LEMMA EvaluateLive ==
  ASSUME ~DlcloseMayFail, LoaderInv, AllLive, NEW s \in Sessions, NEW f \in Fns,
         NEW resumes, Evaluate(s, f, resumes)
  PROVE  AllLive'
<1>1. libs[s] \in [Libs -> Library \cup {Closed}] /\ Live(libs[s])
      /\ SessionOK(libs[s], cache[s], frames[s])
  BY DEF LoaderInv, AllLive
<1>2. CASE RunCached(s, f, resumes)
  <2> DEFINE l == cache[s][f]
  <2>1. l \in Libs /\ libs[s][l] # Closed
    BY <1>1, <1>2 DEF RunCached, UpToDate, SessionOK
  <2>2. libs[s][l] \in Library /\ libs[s][l].rc \in Int /\ libs[s][l].rc > 0
    BY <1>1, <2>1 DEF Live, Library
  <2>3. Clone(libs[s], l) = [libs[s] EXCEPT ![l] =
            [fn |-> libs[s][l].fn, row |-> libs[s][l].row, rc |-> libs[s][l].rc + 1]]
    BY <2>2 DEF Clone, Library
  <2>4. Live(Clone(libs[s], l))
    BY <1>1, <2>1, <2>2, <2>3 DEF Live
  <2>5. libs' = [libs EXCEPT ![s] = Clone(libs[s], l)]
    BY <1>2 DEF RunCached
  <2> QED
    BY <2>4, <2>5, LiveStep
<1>3. CASE LoadAndRun(s, f, resumes)
  <2>1. PICK l \in FreeLibs(s) :
          libs' = [libs EXCEPT ![s] =
                [Unloaded(s, f, TRUE) EXCEPT
                    ![l] = [fn |-> f, row |-> Visible(s, f), rc |-> 2]]]
    BY <1>3 DEF LoadAndRun, CloseResults
  <2> DEFINE lb == Unloaded(s, f, TRUE)
             new == [lb EXCEPT ![l] = [fn |-> f, row |-> Visible(s, f), rc |-> 2]]
  <2>2. Live(lb) /\ lb \in [Libs -> Library \cup {Closed}]
    BY UnloadedLive, UnloadOK DEF SessionOK
  <2>3. Live(new)
    <3> HIDE DEF lb
    <3> QED
      BY <2>2 DEF Live
  <2> QED
    BY <2>1, <2>3, LiveStep
<1> QED
  BY <1>2, <1>3 DEF Evaluate

LEMMA LeaveLive ==
  ASSUME ~DlcloseMayFail, LoaderInv, AllLive, NEW s \in Sessions, ~Idle(s), Leave(s)
  PROVE  AllLive'
<1>1. libs' = [libs EXCEPT ![s] = DropRef(libs[s], Frame(s).lib, TRUE)]
  BY DEF Leave, CloseResults
<1>2. /\ libs[s] \in [Libs -> Library \cup {Closed}] /\ Live(libs[s])
      /\ SessionOK(libs[s], cache[s], frames[s])
      /\ frames[s] \in Seq(FrameType) /\ frames[s] # <<>>
  BY DEF LoaderInv, AllLive, Idle
<1>3. Len(frames[s]) \in DOMAIN frames[s]
  BY <1>2
<1>4. Frame(s).lib \in Libs /\ libs[s][Frame(s).lib] # Closed
  BY <1>2, <1>3, FrameLib DEF SessionOK, Frame
<1> QED
  BY <1>1, <1>2, <1>4, DropRefLive, LiveStep

LEMMA LiveNext ==
  ASSUME ~DlcloseMayFail, RcInv, CallsNest, AllLive, [Next]_vars
  PROVE  AllLive'
<1>0. LoaderInv
  BY DEF RcInv
<1>1. CASE UNCHANGED libs
  BY <1>1 DEF AllLive, Live
<1>2. ASSUME NEW s \in Sessions, Transact(s) PROVE AllLive'
  <2>1. CASE Abort(s)
    BY <2>1, AbortLive DEF Abort
  <2>4. CASE Catch(s)
    <3>1. PICK n \in (Top(s).calls + 1)..(Len(frames[s]) - 1) : Unwind(s, n, libs[s])
      BY <2>4 DEF Catch
    <3>2. n \in 0..Len(frames[s])
      <4>1. Top(s).calls \in 0..Len(frames[s]) /\ Len(frames[s]) \in Nat
        BY <2>4, LevelCalls, NestFacts DEF Catch
      <4> QED
        BY <4>1
    <3> QED
      BY <1>0, <3>1, <3>2, LoaderFacts, UnwindLive DEF AllLive
  <2>2. CASE Restart(s)
    <3>1. Live([l \in Libs |-> Closed])
      BY DEF Live
    <3> QED
      BY <1>0, <2>2, <3>1, LiveStep DEF Restart
  <2>3. CASE UNCHANGED libs
    BY <2>3, <1>1
  <2> QED
    BY <1>2, <2>1, <2>2, <2>3, <2>4
       DEF Transact, Begin, Savepoint, ReleaseSavepoint, Commit, AcceptInvalidations,
           ReloadConfig, loaderVars
<1>3. ASSUME NEW s \in Sessions, NEW f \in Fns, Define(s, f) PROVE AllLive'
  <2>1. CASE Alter(s, f) \/ DropFunction(s, f)
    BY <2>1, <1>1 DEF Alter, DropFunction, loaderVars
  <2>2. CASE Replace(s, f)
    <3>1. libs' = [libs EXCEPT ![s] = Unloaded(s, f, TRUE)]
      BY <2>2 DEF Replace, CloseResults
    <3> QED
      BY <1>0, <3>1, UnloadedLive, LiveStep
  <2>3. CASE ReplaceFails(s, f)
    <3>1. InXact(s) /\ UnwindLevel(s, Unloaded(s, f, TRUE))
      BY <2>3 DEF ReplaceFails, Submittable, CanWrite, CloseResults
    <3>2. SessionOK(Unloaded(s, f, TRUE), [cache[s] EXCEPT ![f] = NoLib], frames[s])
      BY <1>0, UnloadOK
    <3> QED
      BY <1>0, <3>1, <3>2, UnloadedLive, LevelCalls, UnwindLive DEF UnwindLevel
  <2> QED
    BY <1>3, <2>1, <2>2, <2>3 DEF Define
<1>4. ASSUME NEW s \in Sessions, NEW f \in Fns, Execute(s, f) PROVE AllLive'
  <2>1. CASE Call(s, f) \/ Fetch(s, f)
    BY <1>0, <2>1, EvaluateLive DEF Call, Fetch
  <2>2. CASE CallFails(s, f)
    BY <2>2, AbortLive DEF CallFails
  <2> QED
    BY <1>4, <2>1, <2>2 DEF Execute
<1>5. ASSUME NEW s \in Sessions, Return(s) \/ Yield(s) PROVE AllLive'
  BY <1>0, <1>5, LeaveFrames, LeaveLive DEF Return, Yield
<1>6. CASE UNCHANGED vars
  BY <1>6, <1>1 DEF vars, loaderVars
<1> QED
  BY <1>2, <1>3, <1>4, <1>5, <1>6 DEF Next

\* Unless dlclose() fails, a library that no call runs and no cache entry holds
\* is unmapped.
THEOREM NothingIsLeaked == Spec => []NothingLeaks
<1>1. CASE DlcloseMayFail
  <2>1. NothingLeaks
    BY <1>1 DEF NothingLeaks
  <2> QED
    BY <2>1, PTL
<1>2. CASE ~DlcloseMayFail
  <2>1. Init => AllLive
    BY DEF Init, AllLive, Live
  <2>2. RcInv /\ CallsNest /\ AllLive /\ [Next]_vars => AllLive'
    BY <1>2, LiveNext
  <2>3. RcInv /\ AllLive => NothingLeaks
    <3> SUFFICES ASSUME RcInv, AllLive, NEW s \in Sessions, NEW l \in Libs,
                        libs[s][l] # Closed,
                        \A i \in DOMAIN frames[s] : frames[s][i].lib # l,
                        \A f \in Fns : cache[s][f] # l
                 PROVE  FALSE
      BY DEF NothingLeaks
    <3>1. SessionOK(libs[s], cache[s], frames[s]) /\ libs[s][l].rc > 0
      BY DEF RcInv, LoaderInv, AllLive, Live
    <3>2. References(frames[s], l) = 0
      BY <3>1, NoReferences DEF SessionOK
    <3>3. Entries(cache[s], l) = 0
      BY <3>1, EntriesOK
    <3>4. libs[s][l].rc = References(frames[s], l) + Entries(cache[s], l)
      BY <3>1 DEF SessionOK
    <3> QED
      BY <3>1, <3>2, <3>3, <3>4
  <2> QED
    BY <2>1, <2>2, <2>3, RcInvariance, PTL DEF Spec
<1> QED
  BY <1>1, <1>2

============================================================================
