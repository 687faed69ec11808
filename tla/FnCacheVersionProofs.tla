------------------------ MODULE FnCacheVersionProofs -----------------------
(***************************************************************************)
(* The generation number is a sound cache key, a call runs the version its *)
(* session sees, and no session has another's uncommitted version, for any *)
(* number of sessions, functions and savepoints.                           *)
(*                                                                         *)
(* The argument never looks at t_cid, the half of the number that Postgres *)
(* rewrites.  What carries it is who may have a version of which           *)
(* transaction (XidsOK), and that a cached library agrees in code with     *)
(* every version of its transaction that the session could still come to   *)
(* see (CacheOK), because the validator drops the entry before a           *)
(* transaction gives a function other code.                                *)
(***************************************************************************)
EXTENDS FnCacheProofs

----------------------------------------------------------------------------
(* Who has versions of which transaction.                                  *)

Has(rows, x) == \E f \in Fns : rows[f] \in Row /\ rows[f].xid = x

Uses(q, x) == \E i \in DOMAIN q : q[i].xid = x \/ Has(q[i].rows, x)

Loaded(lb, x) == \E l \in Libs : lb[l] # Closed /\ lb[l].row.xid = x

\* Versions of transactions that have committed.
Published(x) == Has(committed, x) \/ \E s \in Sessions : Has(view[s], x)

\* A transaction in progress is known to its own session only.
XidsOK ==
    \A x \in 1..MaxXid :
        /\ Published(x) => x < nextXid
        /\ \A s \in Sessions :
              /\ Uses(xact[s], x) \/ Loaded(libs[s], x) => x < nextXid
              /\ Uses(xact[s], x) =>
                    /\ ~Published(x)
                    /\ \A t \in Sessions \ {s} : ~Uses(xact[t], x) /\ ~Loaded(libs[t], x)

----------------------------------------------------------------------------
(* Versions of one transaction have one content.                           *)

Agree(v, w) == (v \in Row /\ w \in Row /\ v.xid = w.xid) => Content(v) = Content(w)

\* The same version, its t_cid aside.
Alike(v, w) ==
    v = w \/ (v \in Row /\ w \in Row /\ v.xid = w.xid /\ Content(v) = Content(w))

\* The levels of a transaction.  A level's versions are known to it and to the
\* levels inside it, and while one of these still has such a version, the
\* levels between have the same.
LevelsOK(q) ==
    /\ \A i, j \in DOMAIN q : (i < j /\ q[j].xid # 0) =>
          q[i].xid # q[j].xid /\ ~Has(q[i].rows, q[j].xid)
    /\ \A i, j \in DOMAIN q : \A f \in Fns : Agree(q[i].rows[f], q[j].rows[f])
    /\ \A i, j, k \in DOMAIN q : \A f \in Fns :
          (i <= j /\ j <= k /\ q[k].rows[f] \in Row /\ q[k].rows[f].xid = q[i].xid) =>
              q[j].rows[f] \in Row /\ Content(q[j].rows[f]) = Content(q[k].rows[f])

\* A library of version row of f agrees with what the levels have; if row is one
\* of theirs, f has the same code, or was dropped, from that level inwards.
Follows(row, q, f) ==
    /\ \A i \in DOMAIN q : Agree(row, q[i].rows[f])
    /\ \A i, j \in DOMAIN q : (i <= j /\ q[i].xid = row.xid) =>
          \/ q[j].rows[f] = Gone
          \/ q[j].rows[f] \in Row /\ Content(q[j].rows[f]) = Content(row)

CacheOK(s, f) ==
    cache[s][f] # NoLib =>
        /\ Agree(CachedLib(s, f).row, committed[f])
        /\ Agree(CachedLib(s, f).row, view[s][f])
        /\ Follows(CachedLib(s, f).row, xact[s], f)

VersionsOK ==
    \A s \in Sessions :
        /\ LevelsOK(xact[s])
        /\ \A f \in Fns : Agree(view[s][f], committed[f]) /\ CacheOK(s, f)

VersionInv == RcInv /\ CallsNest /\ XidsOK /\ VersionsOK

----------------------------------------------------------------------------
(* What drops, clones and unloads leave of the libraries.                  *)

KeepsRows(new, lb) ==
    \A l \in Libs : new[l] # Closed => lb[l] # Closed /\ new[l].row = lb[l].row

LEMMA DropRefKeeps ==
  ASSUME NEW lb \in [Libs -> Library \cup {Closed}], NEW l \in Libs, lb[l] # Closed,
         NEW closes \in BOOLEAN
  PROVE  KeepsRows(DropRef(lb, l, closes), lb)
<1>1. lb[l] \in Library
  OBVIOUS
<1>2. [lb[l] EXCEPT !.rc = lb[l].rc - 1].row = lb[l].row
  BY <1>1 DEF Library
<1> QED
  BY <1>2 DEF DropRef, KeepsRows

LEMMA UnloadedKeeps ==
  ASSUME LoaderInv, NEW s \in Sessions, NEW f \in Fns, NEW closes \in BOOLEAN
  PROVE  KeepsRows(Unloaded(s, f, closes), libs[s])
<1>1. SessionOK(libs[s], cache[s], frames[s])
  BY DEF LoaderInv
<1>2. CASE cache[s][f] = NoLib
  BY <1>2 DEF Unloaded, KeepsRows
<1>3. CASE cache[s][f] # NoLib
  <2>1. cache[s][f] \in Libs /\ libs[s][cache[s][f]] # Closed
    BY <1>1, <1>3 DEF SessionOK
  <2> QED
    BY <1>1, <1>3, <2>1, DropRefKeeps DEF Unloaded, SessionOK
<1> QED
  BY <1>2, <1>3

LEMMA DropFramesKeeps ==
  ASSUME NEW lb, NEW c, NEW fr, SessionOK(lb, c, fr), NEW n \in 0..Len(fr), NEW closes
  PROVE  KeepsRows(DropFrames(lb, Above(fr, n), closes), lb)
<1> DEFINE high == Above(fr, n)
           new == DropFrames(lb, high, closes)
<1> SUFFICES ASSUME NEW l \in Libs, new[l] # Closed
             PROVE  lb[l] # Closed /\ new[l].row = lb[l].row
  BY DEF KeepsRows
<1>1. lb[l] \in Library \cup {Closed}
  BY DEF SessionOK
<1>2. CASE References(high, l) = 0
  BY <1>2 DEF DropFrames
<1>3. CASE References(high, l) # 0
  <2>1. \E i \in DOMAIN fr : fr[i].lib = l
    <3>1. /\ IsFiniteSet(DOMAIN high)
          /\ \A i \in DOMAIN high : i \in DOMAIN fr /\ high[i] = fr[i]
      BY FramesSplit DEF SessionOK
    <3> HIDE DEF high
    <3>2. \E i \in DOMAIN high : high[i].lib = l
      BY <1>3, <3>1, FiniteReferences
    <3> QED
      BY <3>1, <3>2
  <2>2. lb[l] # Closed /\ lb[l] \in Library
    BY <1>1, <2>1 DEF SessionOK
  <2>3. new[l] = [lb[l] EXCEPT !.rc = lb[l].rc - References(high, l)]
    BY <1>3 DEF DropFrames
  <2> HIDE DEF new
  <2> QED
    BY <2>2, <2>3 DEF Library
<1> QED
  BY <1>2, <1>3

LEMMA CloneKeeps ==
  ASSUME NEW lb \in [Libs -> Library \cup {Closed}], NEW l \in Libs, lb[l] # Closed
  PROVE  KeepsRows(Clone(lb, l), lb)
<1>1. lb[l] \in Library
  OBVIOUS
<1>2. [lb[l] EXCEPT !.rc = lb[l].rc + 1].row = lb[l].row
  BY <1>1 DEF Library
<1> QED
  BY <1>2 DEF Clone, KeepsRows

LEMMA KeepsTwice ==
  ASSUME NEW a, NEW b, NEW c, KeepsRows(a, b), KeepsRows(b, c)
  PROVE  KeepsRows(a, c)
  BY DEF KeepsRows

LEMMA KeepsRefl == \A lb : KeepsRows(lb, lb)
  BY DEF KeepsRows

LEMMA UnwindKeeps ==
  ASSUME LoaderInv, NEW s \in Sessions, NEW lb, NEW c, SessionOK(lb, c, frames[s]),
         KeepsRows(lb, libs[s]), NEW n \in 0..Len(frames[s]), Unwind(s, n, lb)
  PROVE  /\ KeepsRows(libs'[s], libs[s])
         /\ \A t \in Sessions \ {s} : libs'[t] = libs[t]
<1>1. PICK closes \in CloseResults :
        libs' = [libs EXCEPT ![s] = DropFrames(lb, Above(frames[s], n), closes)]
  BY DEF Unwind
<1>2. /\ libs'[s] = DropFrames(lb, Above(frames[s], n), closes)
      /\ \A t \in Sessions \ {s} : libs'[t] = libs[t]
  BY <1>1 DEF LoaderInv
<1>3. KeepsRows(DropFrames(lb, Above(frames[s], n), closes), lb)
  BY DropFramesKeeps
<1> QED
  BY <1>2, <1>3, KeepsTwice

LEMMA KeepsLoaded ==
  ASSUME NEW new, NEW lb, KeepsRows(new, lb), NEW x, Loaded(new, x)
  PROVE  Loaded(lb, x)
  BY DEF KeepsRows, Loaded

----------------------------------------------------------------------------
(* A step of session s, from what it does to s and to the committed rows.  *)

OthersKeep(s) ==
    \A t \in Sessions \ {s} :
        xact'[t] = xact[t] /\ view'[t] = view[t] /\ libs'[t] = libs[t] /\ cache'[t] = cache[t]

LEMMA XidsStep ==
  ASSUME XidsOK, nextXid \in Int, nextXid' \in Int, nextXid <= nextXid',
         NEW s \in Sessions, OthersKeep(s),
         \A x \in 1..MaxXid :
            /\ Uses(xact'[s], x) => Uses(xact[s], x) \/ (x = nextXid /\ x < nextXid')
            /\ Loaded(libs'[s], x) =>
                  Loaded(libs[s], x) \/ Uses(xact[s], x) \/ Published(x)
            /\ Has(committed', x) \/ Has(view'[s], x) =>
                  Published(x) \/ (Uses(xact[s], x) /\ ~Uses(xact'[s], x))
  PROVE  XidsOK'
<1> SUFFICES ASSUME NEW x \in 1..MaxXid
             PROVE  /\ Published(x)' => x < nextXid'
                    /\ \A t \in Sessions :
                        /\ Uses(xact'[t], x) \/ Loaded(libs'[t], x) => x < nextXid'
                        /\ Uses(xact'[t], x) =>
                            /\ ~Published(x)'
                            /\ \A u \in Sessions \ {t} :
                                  ~Uses(xact'[u], x) /\ ~Loaded(libs'[u], x)
  BY DEF XidsOK, Published, Uses, Loaded, Has
<1>1. x < nextXid => x < nextXid'
  OBVIOUS
<1>2. /\ Uses(xact'[s], x) => Uses(xact[s], x) \/ (x = nextXid /\ x < nextXid')
      /\ Loaded(libs'[s], x) => Loaded(libs[s], x) \/ Uses(xact[s], x) \/ Published(x)
  OBVIOUS
<1>3. Published(x)' => Published(x) \/ (Uses(xact[s], x) /\ ~Uses(xact'[s], x))
  <2>1. Published(x)' <=> Has(committed', x) \/ \E t \in Sessions : Has(view'[t], x)
    BY DEF Published, Has
  <2>2. \A t \in Sessions \ {s} : Has(view'[t], x) => Published(x)
    BY DEF OthersKeep, Published
  <2> QED
    BY <2>1, <2>2
<1>4. \A t \in Sessions \ {s} : /\ Uses(xact'[t], x) <=> Uses(xact[t], x)
                                /\ Loaded(libs'[t], x) <=> Loaded(libs[t], x)
  BY DEF OthersKeep
<1>5. /\ Published(x) => x < nextXid
      /\ \A t \in Sessions :
            /\ Uses(xact[t], x) \/ Loaded(libs[t], x) => x < nextXid
            /\ Uses(xact[t], x) =>
                  /\ ~Published(x)
                  /\ \A u \in Sessions \ {t} : ~Uses(xact[u], x) /\ ~Loaded(libs[u], x)
  BY DEF XidsOK
<1>6. x = nextXid => ~(x < nextXid)
  OBVIOUS
<1> DEFINE P == Published(x)
           PP == Published(x)'
<1>7. PP => x < nextXid'
  BY <1>1, <1>3, <1>5
<1>8. \A t \in Sessions : Uses(xact'[t], x) \/ Loaded(libs'[t], x) => x < nextXid'
  BY <1>1, <1>2, <1>4, <1>5
<1>9. ASSUME NEW t \in Sessions, Uses(xact'[t], x)
      PROVE  ~PP /\ \A u \in Sessions \ {t} : ~Uses(xact'[u], x) /\ ~Loaded(libs'[u], x)
  <2>1. CASE t = s
    BY <1>2, <1>3, <1>4, <1>5, <1>6, <1>9, <2>1
  <2>2. CASE t # s
    <3>1. Uses(xact[t], x)
      BY <1>4, <1>9, <2>2
    <3>2. ~P /\ ~Uses(xact[s], x) /\ ~Loaded(libs[s], x) /\ x < nextXid
      BY <1>5, <2>2, <3>1
    <3>3. ~Uses(xact'[s], x) /\ ~Loaded(libs'[s], x) /\ ~PP
      BY <1>2, <1>3, <1>6, <3>2
    <3> QED
      BY <1>4, <1>5, <2>2, <3>1, <3>3
  <2> QED
    BY <2>1, <2>2
<1> QED
  BY <1>7, <1>8, <1>9

\* The entries of the others keep agreeing: what s publishes they cannot have.
LEMMA VersionsStep ==
  ASSUME RcInv, XidsOK, VersionsOK, NEW s \in Sessions, OthersKeep(s),
         \A f \in Fns :
            \/ Alike(committed'[f], committed[f])
            \/ committed'[f] \in Row => Uses(xact[s], committed'[f].xid),
         LevelsOK(xact'[s]),
         \A f \in Fns : Agree(view'[s][f], committed'[f]),
         \A f \in Fns : CacheOK(s, f)'
  PROVE  VersionsOK'
<1> SUFFICES ASSUME NEW t \in Sessions
             PROVE  /\ LevelsOK(xact'[t])
                    /\ \A f \in Fns : Agree(view'[t][f], committed'[f]) /\ CacheOK(t, f)'
  BY DEF VersionsOK, LevelsOK, Agree, Has
<1>1. CASE t = s
  BY <1>1
<1>2. CASE t # s
  <2>1. xact'[t] = xact[t] /\ view'[t] = view[t] /\ libs'[t] = libs[t] /\ cache'[t] = cache[t]
    BY <1>2 DEF OthersKeep
  <2>2. LevelsOK(xact'[t])
    BY <2>1 DEF VersionsOK
  <2>3. ASSUME NEW f \in Fns, NEW row \in Row, Agree(row, committed[f]),
               Has(view[t], row.xid) \/ Loaded(libs[t], row.xid)
        PROVE  Agree(row, committed'[f])
    <3>1. CASE Alike(committed'[f], committed[f])
      BY <2>3, <3>1 DEF Alike, Agree
    <3>2. CASE committed'[f] \in Row => Uses(xact[s], committed'[f].xid)
      <4> SUFFICES ASSUME committed'[f] \in Row, row.xid = committed'[f].xid
                   PROVE  FALSE
        BY DEF Agree
      <4>1. row.xid \in 1..MaxXid
        BY DEF Row
      <4>2. Uses(xact[s], row.xid)
        BY <3>2
      <4>3. ~Has(view[t], row.xid) /\ ~Loaded(libs[t], row.xid)
        BY <1>2, <4>1, <4>2 DEF XidsOK, Published
      <4> QED
        BY <2>3, <4>3
    <3> QED
      BY <3>1, <3>2
  <2>4. ASSUME NEW f \in Fns PROVE Agree(view'[t][f], committed'[f])
    <3>1. Agree(view[t][f], committed[f])
      BY DEF VersionsOK
    <3>2. CASE view[t][f] \in Row
      BY <2>1, <2>3, <3>1, <3>2 DEF Has
    <3>3. CASE view[t][f] \notin Row
      BY <2>1, <3>3 DEF Agree
    <3> QED
      BY <3>2, <3>3
  <2>5. ASSUME NEW f \in Fns PROVE CacheOK(t, f)'
    <3> SUFFICES ASSUME cache[t][f] # NoLib
                 PROVE  /\ Agree(CachedLib(t, f).row, committed'[f])
                        /\ Agree(CachedLib(t, f).row, view[t][f])
                        /\ Follows(CachedLib(t, f).row, xact[t], f)
      BY <2>1 DEF CacheOK, CachedLib, Agree, Follows
    <3>1. /\ Agree(CachedLib(t, f).row, committed[f])
          /\ Agree(CachedLib(t, f).row, view[t][f])
          /\ Follows(CachedLib(t, f).row, xact[t], f)
      BY DEF VersionsOK, CacheOK
    <3>2. cache[t][f] \in Libs /\ CachedLib(t, f) # Closed /\ CachedLib(t, f) \in Library
      BY DEF RcInv, LoaderInv, SessionOK, CachedLib
    <3>3. CachedLib(t, f).row \in Row /\ Loaded(libs[t], CachedLib(t, f).row.xid)
      BY <3>2 DEF Library, Loaded, CachedLib
    <3> QED
      BY <2>3, <3>1, <3>3
  <2> QED
    BY <2>2, <2>4, <2>5
<1> QED
  BY <1>1, <1>2

LEMMA AlikeHas ==
  ASSUME NEW new, NEW old, \A f \in Fns : Alike(new[f], old[f]), NEW x, Has(new, x)
  PROVE  Has(old, x)
<1>1. PICK f \in Fns : new[f] \in Row /\ new[f].xid = x
  BY DEF Has
<1>2. old[f] \in Row /\ old[f].xid = x
  BY <1>1 DEF Alike
<1> QED
  BY <1>2 DEF Has

\* The entry a session still has is the one it had, for the same version.
LEMMA KeptEntry ==
  ASSUME RcInv, RcInv', NEW s \in Sessions, NEW f \in Fns,
         KeepsRows(libs'[s], libs[s]), cache'[s][f] \in {NoLib, cache[s][f]},
         cache'[s][f] # NoLib
  PROVE  /\ cache[s][f] # NoLib
         /\ CachedLib(s, f)'.row = CachedLib(s, f).row
<1>1. cache'[s][f] = cache[s][f] /\ cache[s][f] \in Libs
  BY DEF RcInv, LoaderInv
<1>2. libs'[s][cache'[s][f]] # Closed
  BY DEF RcInv, LoaderInv, SessionOK
<1> QED
  BY <1>1, <1>2 DEF KeepsRows, CachedLib

\* A step that loads nothing and commits nothing.
LEMMA KeepStep ==
  ASSUME VersionInv, RcInv', NEW s \in Sessions, OthersKeep(s),
         KeepsRows(libs'[s], libs[s]),
         \A f \in Fns : cache'[s][f] \in {NoLib, cache[s][f]},
         nextXid <= nextXid',
         \A x \in 1..MaxXid :
            Uses(xact'[s], x) => Uses(xact[s], x) \/ (x = nextXid /\ x < nextXid'),
         \A f \in Fns : Alike(committed'[f], committed[f]),
         \A f \in Fns : view'[s][f] \in {view[s][f], committed[f], committed'[f]},
         LevelsOK(xact'[s]),
         \A f \in Fns : cache'[s][f] # NoLib =>
            Follows(CachedLib(s, f).row, xact'[s], f)
  PROVE  XidsOK' /\ VersionsOK'
<1>1. nextXid \in Int /\ nextXid' \in Int
  BY DEF VersionInv, RcInv, CatalogTypes
<1>2. ASSUME NEW x, Has(committed', x) \/ Has(view'[s], x) PROVE Published(x)
  <2>1. Has(committed', x) => Has(committed, x)
    BY AlikeHas
  <2>2. Has(view'[s], x) => Has(view[s], x) \/ Has(committed, x) \/ Has(committed', x)
    BY DEF Has
  <2> QED
    BY <1>2, <2>1, <2>2 DEF Published
<1>3. XidsOK'
  BY <1>1, <1>2, KeepsLoaded, XidsStep DEF VersionInv
<1>4. ASSUME NEW f \in Fns, NEW row, Agree(row, committed[f])
      PROVE  Agree(row, committed'[f])
  BY <1>4 DEF Agree, Alike
<1>5. \A f \in Fns : Agree(view[s][f], committed[f]) /\ Agree(committed[f], committed[f])
  BY DEF VersionInv, VersionsOK, Agree
<1>6. \A f \in Fns : Agree(view'[s][f], committed'[f])
  <2>1. \A f \in Fns : Agree(committed'[f], committed'[f])
    BY DEF Agree
  <2> QED
    BY <1>4, <1>5, <2>1
<1>7. ASSUME NEW f \in Fns PROVE CacheOK(s, f)'
  <2> SUFFICES ASSUME cache'[s][f] # NoLib
               PROVE  /\ Agree(CachedLib(s, f)'.row, committed'[f])
                      /\ Agree(CachedLib(s, f)'.row, view'[s][f])
                      /\ Follows(CachedLib(s, f)'.row, xact'[s], f)
    BY DEF CacheOK, Agree, Follows
  <2>1. cache[s][f] # NoLib /\ CachedLib(s, f)'.row = CachedLib(s, f).row
    BY KeptEntry DEF VersionInv
  <2>2. /\ Agree(CachedLib(s, f).row, committed[f])
        /\ Agree(CachedLib(s, f).row, view[s][f])
    BY <2>1 DEF VersionInv, VersionsOK, CacheOK
  <2>3. Agree(CachedLib(s, f).row, committed'[f])
    BY <1>4, <2>2
  <2>4. Agree(CachedLib(s, f).row, view'[s][f])
    BY <2>2, <2>3
  <2> QED
    BY <2>1, <2>3, <2>4
<1>8. VersionsOK'
  BY <1>6, <1>7, VersionsStep DEF VersionInv
<1> QED
  BY <1>3, <1>8

----------------------------------------------------------------------------
(* What transaction control does to the levels.                            *)

LEMMA NoLevels ==
  LevelsOK(<<>>) /\ \A x : ~Uses(<<>>, x) /\ \A row, f : Follows(row, <<>>, f)
  BY DEF LevelsOK, Uses, Follows

LEMMA FirstLevel ==
  ASSUME NEW q, q = <<[xid |-> 0, rows |-> [f \in Fns |-> Unwritten], calls |-> 0]>>
  PROVE  /\ LevelsOK(q)
         /\ \A x \in 1..MaxXid : ~Uses(q, x)
         /\ \A row \in Row : \A f \in Fns : Follows(row, q, f)
<1>1. DOMAIN q = {1} /\ q[1].xid = 0 /\ \A f \in Fns : q[1].rows[f] = Unwritten
  OBVIOUS
<1>2. Unwritten \notin Row
  BY RowAssumption
<1>3. LevelsOK(q)
  BY <1>1, <1>2 DEF LevelsOK, Agree
<1>4. \A x \in 1..MaxXid : ~Uses(q, x)
  BY <1>1, <1>2 DEF Uses, Has
<1>5. ASSUME NEW row \in Row PROVE row.xid # 0
  BY DEF Row
<1> QED
  BY <1>1, <1>2, <1>3, <1>4, <1>5 DEF Follows, Agree

LEMMA RowXid == \A row \in Row : row.xid # 0 /\ row.xid \in 1..MaxXid
  BY DEF Row

\* The levels of new have rows of levels of q, in that order, and no xids of
\* their own: what savepoints, releases and rollbacks make of q.
Rearranged(new, q, from) ==
    /\ from \in [DOMAIN new -> DOMAIN q]
    /\ \A i, j \in DOMAIN new : i <= j => from[i] <= from[j]
    /\ \A i \in DOMAIN new : new[i].rows = q[from[i]].rows
    /\ \A j \in DOMAIN new : new[j].xid # 0 =>
          /\ j \in DOMAIN q /\ new[j].xid = q[j].xid /\ j <= from[j]
          /\ \A i \in DOMAIN new : i < j => from[i] < j

LEMMA RearrangedOK ==
  ASSUME NEW q \in Seq(Level), NEW new \in Seq(Level), LevelsOK(q), NEW from,
         Rearranged(new, q, from)
  PROVE  /\ LevelsOK(new)
         /\ \A x \in 1..MaxXid : Uses(new, x) => Uses(q, x)
         /\ \A row \in Row : \A f \in Fns : Follows(row, q, f) => Follows(row, new, f)
<1>1. DOMAIN new \subseteq Nat /\ DOMAIN q \subseteq Nat
  OBVIOUS
<1>2. \A i \in DOMAIN new : from[i] \in DOMAIN q /\ new[i].rows = q[from[i]].rows
  BY DEF Rearranged
<1>3. \A j \in DOMAIN new : new[j].xid # 0 =>
        /\ j \in DOMAIN q /\ new[j].xid = q[j].xid /\ j <= from[j]
        /\ \A i \in DOMAIN new : i < j => from[i] < j
  BY DEF Rearranged
<1>4. \A i, j \in DOMAIN new : i <= j => from[i] <= from[j]
  BY DEF Rearranged
<1>5. LevelsOK(new)
  <2>1. ASSUME NEW i \in DOMAIN new, NEW j \in DOMAIN new, i < j, new[j].xid # 0
        PROVE  new[i].xid # new[j].xid /\ ~Has(new[i].rows, new[j].xid)
    <3>1. j \in DOMAIN q /\ new[j].xid = q[j].xid /\ from[i] < j /\ from[i] \in DOMAIN q
      BY <1>2, <1>3, <2>1
    <3>2. ~Has(new[i].rows, new[j].xid)
      BY <1>2, <2>1, <3>1 DEF LevelsOK
    <3>3. new[i].xid # new[j].xid
      BY <1>3, <2>1, <3>1 DEF LevelsOK
    <3> QED
      BY <3>2, <3>3
  <2>2. ASSUME NEW i \in DOMAIN new, NEW j \in DOMAIN new, NEW f \in Fns
        PROVE  Agree(new[i].rows[f], new[j].rows[f])
    <3>1. Agree(q[from[i]].rows[f], q[from[j]].rows[f])
      BY <1>2 DEF LevelsOK
    <3> QED
      BY <1>2, <3>1
  <2>3. ASSUME NEW i \in DOMAIN new, NEW j \in DOMAIN new, NEW k \in DOMAIN new,
               NEW f \in Fns, i <= j, j <= k, new[k].rows[f] \in Row,
               new[k].rows[f].xid = new[i].xid
        PROVE  /\ new[j].rows[f] \in Row
               /\ Content(new[j].rows[f]) = Content(new[k].rows[f])
    <3>1. new[i].xid # 0
      BY <2>3, RowXid
    <3>2. /\ i \in DOMAIN q /\ new[i].xid = q[i].xid /\ i <= from[i]
          /\ from[i] <= from[j] /\ from[j] <= from[k]
          /\ from[i] \in DOMAIN q /\ from[j] \in DOMAIN q /\ from[k] \in DOMAIN q
      BY <1>2, <1>3, <1>4, <2>3, <3>1
    <3>3. i <= from[j]
      <4>1. i <= from[i] /\ from[i] <= from[j]
        BY <3>2
      <4>2. i \in Nat /\ from[i] \in Nat /\ from[j] \in Nat
        BY <1>1, <3>2
      <4> QED
        BY <4>1, <4>2
    <3>4. q[from[k]].rows[f] \in Row /\ q[from[k]].rows[f].xid = q[i].xid
      BY <1>2, <2>3, <3>2
    <3>5. /\ q[from[j]].rows[f] \in Row
          /\ Content(q[from[j]].rows[f]) = Content(q[from[k]].rows[f])
      BY <3>2, <3>3, <3>4 DEF LevelsOK
    <3> QED
      BY <1>2, <3>5
  <2> QED
    BY <2>1, <2>2, <2>3 DEF LevelsOK
<1>6. ASSUME NEW x \in 1..MaxXid, Uses(new, x) PROVE Uses(q, x)
  <2>1. PICK i \in DOMAIN new : new[i].xid = x \/ Has(new[i].rows, x)
    BY <1>6 DEF Uses
  <2>2. CASE new[i].xid = x
    BY <1>3, <2>2 DEF Uses
  <2>3. CASE Has(new[i].rows, x)
    BY <1>2, <2>3 DEF Uses
  <2> QED
    BY <2>1, <2>2, <2>3
<1>7. ASSUME NEW row \in Row, NEW f \in Fns, Follows(row, q, f)
      PROVE  Follows(row, new, f)
  <2>1. ASSUME NEW i \in DOMAIN new PROVE Agree(row, new[i].rows[f])
    <3>1. Agree(row, q[from[i]].rows[f])
      BY <1>2, <1>7 DEF Follows
    <3> QED
      BY <1>2, <3>1
  <2>2. ASSUME NEW i \in DOMAIN new, NEW j \in DOMAIN new, i <= j, new[i].xid = row.xid
        PROVE  \/ new[j].rows[f] = Gone
               \/ new[j].rows[f] \in Row /\ Content(new[j].rows[f]) = Content(row)
    <3>1. new[i].xid # 0
      BY <2>2, RowXid
    <3>2. /\ i \in DOMAIN q /\ q[i].xid = row.xid /\ i <= from[i]
          /\ from[i] <= from[j] /\ from[i] \in DOMAIN q /\ from[j] \in DOMAIN q
      BY <1>2, <1>3, <1>4, <2>2, <3>1
    <3>3. i <= from[j]
      <4>1. i <= from[i] /\ from[i] <= from[j]
        BY <3>2
      <4>2. i \in Nat /\ from[i] \in Nat /\ from[j] \in Nat
        BY <1>1, <3>2
      <4> QED
        BY <4>1, <4>2
    <3>4. \/ q[from[j]].rows[f] = Gone
          \/ q[from[j]].rows[f] \in Row /\ Content(q[from[j]].rows[f]) = Content(row)
      BY <1>7, <3>2, <3>3 DEF Follows
    <3> QED
      BY <1>2, <3>4
  <2> QED
    BY <2>1, <2>2 DEF Follows
<1> QED
  BY <1>5, <1>6, <1>7

\* SAVEPOINT: a new level starts with the rows of the one around it.
LEMMA PushLevel ==
  ASSUME NEW q \in Seq(Level), q # <<>>, NEW n, NEW new,
         new = Append(q, [xid |-> 0, rows |-> q[Len(q)].rows, calls |-> n])
  PROVE  Rearranged(new, q, [i \in DOMAIN new |-> IF i = Len(q) + 1 THEN Len(q) ELSE i])
<1>1. Len(q) \in Nat \ {0} /\ DOMAIN q = 1..Len(q) /\ DOMAIN new = 1..(Len(q) + 1)
  OBVIOUS
<1>2. /\ \A i \in 1..Len(q) : new[i] = q[i]
      /\ new[Len(q) + 1] = [xid |-> 0, rows |-> q[Len(q)].rows, calls |-> n]
  OBVIOUS
<1> QED
  BY <1>1, <1>2 DEF Rearranged

\* ROLLBACK TO, or the end of the transaction: the innermost level goes.
LEMMA PopLevel ==
  ASSUME NEW q \in Seq(Level), q # <<>>
  PROVE  Rearranged(Pop(q), q, [i \in DOMAIN Pop(q) |-> i])
<1>1. Len(q) \in Nat \ {0} /\ DOMAIN q = 1..Len(q) /\ DOMAIN Pop(q) = 1..(Len(q) - 1)
  BY DEF Pop
<1>2. \A i \in 1..(Len(q) - 1) : Pop(q)[i] = q[i]
  BY <1>1 DEF Pop
<1> QED
  BY <1>1, <1>2 DEF Rearranged

\* RELEASE: the level around takes the rows of the innermost one.
LEMMA MergeLevel ==
  ASSUME NEW q \in Seq(Level), Len(q) > 1, NEW new,
         new = [Pop(q) EXCEPT ![Len(q) - 1].rows = q[Len(q)].rows]
  PROVE  Rearranged(new, q, [i \in DOMAIN new |-> IF i = Len(q) - 1 THEN Len(q) ELSE i])
<1>1. Len(q) \in Nat \ {0, 1} /\ DOMAIN q = 1..Len(q) /\ DOMAIN Pop(q) = 1..(Len(q) - 1)
  BY DEF Pop
<1>2. \A i \in 1..(Len(q) - 1) : Pop(q)[i] = q[i] /\ q[i] \in Level
  BY <1>1 DEF Pop
<1>3. DOMAIN new = 1..(Len(q) - 1)
  BY <1>1
<1>4. Len(q) - 1 \in 1..(Len(q) - 1)
  BY <1>1
<1>5. new[Len(q) - 1] = [q[Len(q) - 1] EXCEPT !.rows = q[Len(q)].rows]
  BY <1>1, <1>2, <1>4
<1>6. new[Len(q) - 1].rows = q[Len(q)].rows /\ new[Len(q) - 1].xid = q[Len(q) - 1].xid
  <2>1. PICK level \in Level : level = q[Len(q) - 1]
    BY <1>2, <1>4
  <2>2. PICK rows : rows = q[Len(q)].rows
    OBVIOUS
  <2>3. new[Len(q) - 1] = [level EXCEPT !.rows = rows]
    BY <1>5, <2>1, <2>2
  <2>4. new[Len(q) - 1].rows = rows /\ new[Len(q) - 1].xid = level.xid
    BY ONLY <2>3, level \in Level DEF Level
  <2> QED
    BY <2>1, <2>2, <2>4
<1>7. \A i \in 1..(Len(q) - 1) : i # Len(q) - 1 => new[i] = q[i]
  BY <1>1, <1>2
<1> HIDE DEF Pop
<1> QED
  BY <1>1, <1>3, <1>6, <1>7 DEF Rearranged

----------------------------------------------------------------------------
(* What writing a row does to the levels.                                  *)

LEMMA StampAlike ==
  ASSUME NEW row \in Row \cup {Gone, Unwritten}, NEW n \in 0..MaxCid
  PROVE  Alike(Stamp(row, n), row)
<1>1. CASE row \in Row
  <2>1. /\ Stamp(row, n) \in Row /\ Stamp(row, n).xid = row.xid
        /\ Stamp(row, n).code = row.code /\ Stamp(row, n).lints = row.lints
    BY <1>1 DEF Stamp, Row
  <2> QED
    BY <1>1, <2>1 DEF Alike, Content
<1>2. CASE row \notin Row
  BY <1>2 DEF Stamp, Alike
<1> QED
  BY <1>1, <1>2

\* The innermost level of q gets row for f and xid x, its own or a new one; all
\* other rows may have been stamped.
Written(new, q, f, row, x) ==
    /\ DOMAIN new = DOMAIN q
    /\ new[Len(q)].xid = x
    /\ new[Len(q)].rows[f] = row
    /\ \A g \in Fns \ {f} : new[Len(q)].rows[g] = q[Len(q)].rows[g]
    /\ \A i \in DOMAIN q \ {Len(q)} :
          new[i].xid = q[i].xid /\ \A g \in Fns : Alike(new[i].rows[g], q[i].rows[g])
    /\ q[Len(q)].xid = x \/ ~Uses(q, x)

LEMMA WrittenOK ==
  ASSUME NEW q \in Seq(Level), q # <<>>, LevelsOK(q), NEW new,
         NEW f \in Fns, NEW row \in Row \cup {Gone}, NEW x \in 1..MaxXid,
         row \in Row => row.xid = x, Written(new, q, f, row, x)
  PROVE  /\ LevelsOK(new)
         /\ \A y : Uses(new, y) => Uses(q, y) \/ y = x
<1> DEFINE n == Len(q)
<1>1. n \in DOMAIN q /\ DOMAIN new = DOMAIN q /\ \A i \in DOMAIN q : i \in Nat /\ i <= n
  BY DEF Written
<1>2. \A i \in DOMAIN q : \A g \in Fns :
        i # n \/ g # f => Alike(new[i].rows[g], q[i].rows[g])
  BY DEF Written, Alike
<1>3. /\ new[n].xid = x /\ new[n].rows[f] = row /\ x # 0
      /\ \A i \in DOMAIN q \ {n} : new[i].xid = q[i].xid
      /\ q[n].xid = x \/ ~Uses(q, x)
  BY DEF Written
<1>4. ASSUME NEW i \in DOMAIN q, i # n, NEW y, Has(new[i].rows, y)
      PROVE  Has(q[i].rows, y)
  <2>1. PICK g \in Fns : new[i].rows[g] \in Row /\ new[i].rows[g].xid = y
    BY <1>4 DEF Has
  <2>2. Alike(new[i].rows[g], q[i].rows[g])
    BY <1>2, <1>4
  <2> QED
    BY <2>1, <2>2 DEF Alike, Has
<1> HIDE DEF n
<1>5. ASSUME NEW i \in DOMAIN q, NEW j \in DOMAIN q, i < j, new[j].xid # 0
      PROVE  new[i].xid # new[j].xid /\ ~Has(new[i].rows, new[j].xid)
  <2>1. i # n /\ new[i].xid = q[i].xid
    BY <1>1, <1>3, <1>5
  <2>2. CASE j # n \/ q[n].xid = x
    <3>1. new[j].xid = q[j].xid
      BY <1>3, <2>2
    <3>2. q[i].xid # q[j].xid /\ ~Has(q[i].rows, q[j].xid)
      BY <1>5, <3>1 DEF LevelsOK
    <3> QED
      BY <1>4, <2>1, <3>1, <3>2
  <2>3. CASE j = n /\ ~Uses(q, x)
    <3>1. q[i].xid # x /\ ~Has(q[i].rows, x)
      BY <2>3 DEF Uses
    <3> QED
      BY <1>3, <1>4, <2>1, <2>3, <3>1
  <2> QED
    BY <1>3, <2>2, <2>3
<1>6. ASSUME NEW i \in DOMAIN q, i # n PROVE Agree(new[i].rows[f], row)
  <2>1. i < n
    BY <1>1, <1>6
  <2>2. ~Has(new[i].rows, x)
    BY <1>1, <1>3, <1>5, <2>1
  <2> QED
    BY <2>2 DEF Agree, Has
<1>7. ASSUME NEW i \in DOMAIN q, NEW j \in DOMAIN q, NEW g \in Fns
      PROVE  Agree(new[i].rows[g], new[j].rows[g])
  <2>1. CASE g = f /\ i = n
    BY <1>3, <1>6, <2>1 DEF Agree
  <2>2. CASE g = f /\ j = n
    BY <1>3, <1>6, <2>2 DEF Agree
  <2>3. CASE g # f \/ (i # n /\ j # n)
    <3>1. Alike(new[i].rows[g], q[i].rows[g]) /\ Alike(new[j].rows[g], q[j].rows[g])
      BY <1>2, <2>3
    <3>2. Agree(q[i].rows[g], q[j].rows[g])
      BY DEF LevelsOK
    <3> QED
      BY <3>1, <3>2 DEF Alike, Agree
  <2> QED
    BY <2>1, <2>2, <2>3
<1>8. ASSUME NEW i \in DOMAIN q, NEW j \in DOMAIN q, NEW k \in DOMAIN q, NEW g \in Fns,
             i <= j, j <= k, new[k].rows[g] \in Row, new[k].rows[g].xid = new[i].xid
      PROVE  new[j].rows[g] \in Row /\ Content(new[j].rows[g]) = Content(new[k].rows[g])
  <2>1. CASE j = k
    BY <1>8, <2>1
  <2>2. CASE j # k /\ g = f /\ k = n
    <3>1. new[k].rows[g].xid = x /\ i < n
      BY <1>1, <1>3, <1>8, <2>2
    <3>2. new[i].xid # x
      BY <1>1, <1>3, <1>5, <3>1
    <3> QED
      BY <1>8, <3>1, <3>2
  <2>3. CASE j # k /\ (g # f \/ k # n)
    <3>1. i # n /\ j # n
      BY <1>1, <1>8, <2>3
    <3>2. Alike(new[j].rows[g], q[j].rows[g]) /\ Alike(new[k].rows[g], q[k].rows[g])
      BY <1>2, <2>3, <3>1
    <3>3. q[k].rows[g] \in Row /\ q[k].rows[g].xid = q[i].xid
      BY <1>3, <1>8, <3>1, <3>2 DEF Alike
    <3>4. q[j].rows[g] \in Row /\ Content(q[j].rows[g]) = Content(q[k].rows[g])
      BY <1>8, <3>3 DEF LevelsOK
    <3> QED
      BY <3>2, <3>4 DEF Alike
  <2> QED
    BY <2>1, <2>2, <2>3
<1>9. ASSUME NEW y, Uses(new, y) PROVE Uses(q, y) \/ y = x
  <2>1. PICK i \in DOMAIN q : new[i].xid = y \/ Has(new[i].rows, y)
    BY <1>1, <1>9 DEF Uses
  <2>2. CASE i # n
    BY <1>3, <1>4, <2>1, <2>2 DEF Uses
  <2>3. CASE i = n /\ new[i].xid = y
    BY <1>3, <2>3
  <2>4. CASE i = n /\ Has(new[i].rows, y)
    <3>1. PICK g \in Fns : new[n].rows[g] \in Row /\ new[n].rows[g].xid = y
      BY <2>4 DEF Has
    <3>2. CASE g = f
      BY <1>3, <3>1, <3>2
    <3>3. CASE g # f
      <4>1. Alike(new[n].rows[g], q[n].rows[g])
        BY <1>1, <1>2, <3>3
      <4> QED
        BY <1>1, <3>1, <4>1 DEF Alike, Has, Uses
    <3> QED
      BY <3>2, <3>3
  <2> QED
    BY <2>1, <2>2, <2>3, <2>4
<1> QED
  BY <1>1, <1>5, <1>7, <1>8, <1>9 DEF LevelsOK

\* A library that is not of x yet, or of a level's x, still agrees, if f keeps its
\* code or is dropped.
LEMMA WrittenFollows ==
  ASSUME NEW q \in Seq(Level), q # <<>>, NEW new,
         NEW f \in Fns, NEW row \in Row \cup {Gone}, NEW x \in 1..MaxXid,
         row \in Row => row.xid = x, Written(new, q, f, row, x),
         NEW r \in Row, NEW g \in Fns, Follows(r, q, g),
         r.xid = x => q[Len(q)].xid = x,
         g = f /\ row \in Row =>
            \/ q[Len(q)].rows[f] = Unwritten
            \/ q[Len(q)].rows[f] \in Row /\ Content(row) = Content(q[Len(q)].rows[f])
  PROVE  Follows(r, new, g)
<1> DEFINE n == Len(q)
           Fits(v) == v = Gone \/ (v \in Row /\ Content(v) = Content(r))
<1>1. n \in DOMAIN q /\ DOMAIN new = DOMAIN q /\ \A i \in DOMAIN q : i \in Nat /\ i <= n
  BY DEF Written
<1>2. \A i \in DOMAIN q : i # n \/ g # f => Alike(new[i].rows[g], q[i].rows[g])
  BY DEF Written, Alike
<1>3. /\ new[n].xid = x /\ new[n].rows[f] = row
      /\ \A i \in DOMAIN q \ {n} : new[i].xid = q[i].xid
  BY DEF Written
<1>4. \A i \in DOMAIN q : new[i].xid = r.xid => q[i].xid = r.xid
  BY <1>3
<1>5. /\ \A i \in DOMAIN q : Agree(r, q[i].rows[g])
      /\ \A i, j \in DOMAIN q : (i <= j /\ q[i].xid = r.xid) => Fits(q[j].rows[g])
  BY DEF Follows
<1>6. Gone \notin Row /\ Unwritten \notin Row /\ Gone # Unwritten
  BY RowAssumption
<1>7. g = f /\ row \in Row =>
            \/ q[n].rows[f] = Unwritten
            \/ q[n].rows[f] \in Row /\ Content(row) = Content(q[n].rows[f])
  OBVIOUS
<1> HIDE DEF n
<1>8. ASSUME NEW j \in DOMAIN q, Fits(q[j].rows[g]) PROVE Fits(new[j].rows[g])
  <2>1. CASE j # n \/ g # f
    <3>1. Alike(new[j].rows[g], q[j].rows[g])
      BY <1>2, <2>1
    <3> QED
      BY <1>6, <1>8, <3>1 DEF Alike
  <2>2. CASE j = n /\ g = f
    BY <1>3, <1>6, <1>7, <1>8, <2>2
  <2> QED
    BY <2>1, <2>2
<1>9. ASSUME NEW i \in DOMAIN q PROVE Agree(r, new[i].rows[g])
  <2>1. CASE i # n \/ g # f
    BY <1>2, <1>5, <2>1 DEF Alike, Agree
  <2>2. CASE i = n /\ g = f
    <3> SUFFICES ASSUME row \in Row, r.xid = x
                 PROVE  Content(r) = Content(row)
      BY <1>3, <2>2 DEF Agree
    <3>1. Fits(q[n].rows[g])
      BY <1>1, <1>3, <1>4, <1>5
    <3>2. Fits(row)
      BY <1>1, <1>3, <1>8, <2>2, <3>1
    <3> QED
      BY <1>6, <3>2
  <2> QED
    BY <2>1, <2>2
<1>10. ASSUME NEW i \in DOMAIN q, NEW j \in DOMAIN q, i <= j, new[i].xid = r.xid
       PROVE  Fits(new[j].rows[g])
  BY <1>4, <1>5, <1>8, <1>10
<1> QED
  BY <1>1, <1>9, <1>10 DEF Follows

LEMMA LevelsWritten ==
  ASSUME RcInv, XidsOK, NEW s \in Sessions, NEW f \in Fns, InXact(s),
         NEW row \in Row \cup {Gone}, NEW updates \in Nat,
         Writes(s, updates), StampCommitted(s, f)
  PROVE  /\ XidOf(s) \in 1..MaxXid
         /\ LevelsWith(s, f, row) \in Seq(Level)
         /\ Written(LevelsWith(s, f, row), xact[s], f, row, XidOf(s))
         /\ Top(s).xid = 0 => XidOf(s) = nextXid /\ nextXid' = nextXid + 1
         /\ Top(s).xid # 0 => XidOf(s) = Top(s).xid /\ nextXid' = nextXid
         /\ \A g \in Fns : Alike(committed'[g], committed[g])
<1> DEFINE n == Len(xact[s])
           rows == Top(s).rows
           old == rows[f]
           new == LevelsWith(s, f, row)
<1>1. TypeOK /\ ComboBound
  BY RcInvParts
<1>2. /\ n \in Nat \ {0} /\ DOMAIN xact[s] = 1..n
      /\ \A i \in 1..n : xact[s][i] \in Level
      /\ Top(s) = xact[s][n] /\ rows \in [Fns -> Row \cup {Gone, Unwritten}]
  BY <1>1, TopType DEF Top, TypeOK
<1>3. XidOf(s) \in 1..MaxXid /\ cid[s] \in 0..MaxCid /\ combo[s] \in 0..MaxCid
  <2>1. XidOf(s) <= MaxXid /\ cid[s] + updates <= MaxCid
    BY DEF Writes
  <2>2. cid[s] \in 0..(MaxCid + 1) /\ combo[s] \in Nat /\ combo[s] <= cid[s]
    BY <1>1 DEF TypeOK, ComboBound
  <2> QED
    BY <1>1, <2>1, <2>2, XidOfType, FnCacheAssumption
<1>4. /\ Top(s).xid = 0 => XidOf(s) = nextXid /\ nextXid' = nextXid + 1
      /\ Top(s).xid # 0 => XidOf(s) = Top(s).xid /\ nextXid' = nextXid
  BY DEF Writes, XidOf
<1>5. Top(s).xid = XidOf(s) \/ ~Uses(xact[s], XidOf(s))
  <2>1. CASE Top(s).xid = 0
    BY <1>1, <1>3, <1>4, <2>1 DEF XidsOK, TypeOK
  <2> QED
    BY <1>4, <2>1
<1>6. new = [i \in 1..n |->
              IF i = n
              THEN [xid |-> XidOf(s), rows |-> [rows EXCEPT ![f] = row],
                    calls |-> Top(s).calls]
              ELSE IF old # Unwritten /\ xact[s][i].rows[f] = old
              THEN [xact[s][i] EXCEPT !.rows[f] = Stamp(old, combo[s])]
              ELSE xact[s][i]]
  BY DEF LevelsWith
<1> HIDE DEF new
<1>7. ASSUME NEW i \in 1..n, i # n
      PROVE  new[i].xid = xact[s][i].xid
             /\ \A g \in Fns : Alike(new[i].rows[g], xact[s][i].rows[g])
  <2>1. CASE old # Unwritten /\ xact[s][i].rows[f] = old
    <3>1. new[i] = [xact[s][i] EXCEPT !.rows[f] = Stamp(old, combo[s])]
      BY <1>6, <1>7, <2>1
    <3>2. /\ new[i].xid = xact[s][i].xid
          /\ new[i].rows = [xact[s][i].rows EXCEPT ![f] = Stamp(old, combo[s])]
      BY <1>2, <3>1 DEF Level
    <3>3. Alike(Stamp(old, combo[s]), old)
      BY <1>2, <1>3, StampAlike
    <3>4. xact[s][i].rows \in [Fns -> Row \cup {Gone, Unwritten}]
      BY <1>2 DEF Level
    <3> HIDE DEF old
    <3> QED
      BY <2>1, <3>2, <3>3, <3>4 DEF Alike
  <2>2. CASE ~(old # Unwritten /\ xact[s][i].rows[f] = old)
    <3>1. new[i] = xact[s][i]
      BY <1>6, <1>7, <2>2
    <3> QED
      BY <3>1 DEF Alike
  <2> QED
    BY <2>1, <2>2
<1>8. /\ DOMAIN new = 1..n
      /\ new[n].xid = XidOf(s) /\ new[n].rows = [rows EXCEPT ![f] = row]
  <2> DEFINE written == [xid |-> XidOf(s), rows |-> [rows EXCEPT ![f] = row],
                         calls |-> Top(s).calls]
  <2>1. n \in 1..n
    BY <1>2
  <2>2. new[n] = written
    BY <1>6, <2>1
  <2>3. written.xid = XidOf(s) /\ written.rows = [rows EXCEPT ![f] = row]
    OBVIOUS
  <2>4. DOMAIN new = 1..n
    BY <1>6
  <2> HIDE DEF written, rows
  <2> QED
    BY <2>2, <2>3, <2>4
<1>9. Written(new, xact[s], f, row, XidOf(s))
  BY <1>2, <1>5, <1>7, <1>8 DEF Written
<1>10. ASSUME NEW g \in Fns PROVE Alike(committed'[g], committed[g])
  <2>1. committed' = [committed EXCEPT ![f] =
                        IF Wrote(s, f) THEN committed[f] ELSE Stamp(committed[f], cid[s])]
    BY DEF StampCommitted
  <2>2. committed \in [Fns -> Row \cup {Gone}]
    BY <1>1 DEF TypeOK
  <2>3. Alike(Stamp(committed[f], cid[s]), committed[f])
    BY <1>3, <2>2, StampAlike
  <2> QED
    BY <2>1, <2>2, <2>3 DEF Alike
<1>11. new \in Seq(Level)
  BY <1>1, WrittenTypes DEF new
<1> QED
  BY <1>3, <1>4, <1>9, <1>10, <1>11 DEF new

\* What the levels are after f is written, or its write undone: still in order,
\* and followed by what is cached, if f keeps its code or is dropped.
LEMMA LevelsFollowed ==
  ASSUME VersionInv, NEW s \in Sessions, NEW f \in Fns, InXact(s),
         NEW row \in Row \cup {Gone}, row \in Row => row.xid = XidOf(s),
         NEW updates \in Nat, Writes(s, updates), StampCommitted(s, f),
         NEW new, new = LevelsWith(s, f, row)
  PROVE  /\ LevelsOK(new) /\ nextXid <= nextXid'
         /\ \A y \in 1..MaxXid :
               Uses(new, y) => Uses(xact[s], y) \/ (y = nextXid /\ y < nextXid')
         /\ \A g \in Fns :
               (/\ cache[s][g] # NoLib
                /\ g = f /\ row \in Row =>
                     \/ Top(s).rows[f] = Unwritten
                     \/ /\ Top(s).rows[f] \in Row
                        /\ Content(row) = Content(Top(s).rows[f]))
                  => Follows(CachedLib(s, g).row, new, g)
<1> DEFINE x == XidOf(s)
           q == xact[s]
<1>1. /\ x \in 1..MaxXid
      /\ Written(new, q, f, row, x)
      /\ Top(s).xid = 0 => x = nextXid /\ nextXid' = nextXid + 1
      /\ Top(s).xid # 0 => x = Top(s).xid /\ nextXid' = nextXid
  BY LevelsWritten DEF VersionInv
<1>2. q \in Seq(Level) /\ q # <<>> /\ LevelsOK(q) /\ Top(s) = q[Len(q)]
      /\ Len(q) \in DOMAIN q /\ nextXid \in Int
  BY DEF VersionInv, RcInv, CatalogTypes, VersionsOK, InXact, Top
<1> HIDE DEF x
<1>3. row \in Row => row.xid = x
  BY DEF x
<1>4. LevelsOK(new) /\ \A y : Uses(new, y) => Uses(q, y) \/ y = x
  BY <1>1, <1>2, <1>3, WrittenOK
<1>5. \A y \in 1..MaxXid : Uses(new, y) => Uses(q, y) \/ (y = nextXid /\ y < nextXid')
  <2>1. CASE Top(s).xid = 0
    BY <1>1, <1>2, <1>4, <2>1
  <2>2. CASE Top(s).xid # 0
    BY <1>1, <1>2, <1>4, <2>2 DEF Uses
  <2> QED
    BY <2>1, <2>2
<1>6. ASSUME NEW g \in Fns, cache[s][g] # NoLib,
             g = f /\ row \in Row =>
                \/ Top(s).rows[f] = Unwritten
                \/ Top(s).rows[f] \in Row /\ Content(row) = Content(Top(s).rows[f])
      PROVE  Follows(CachedLib(s, g).row, new, g)
  <2>1. cache[s][g] \in Libs /\ CachedLib(s, g) # Closed /\ CachedLib(s, g) \in Library
    BY <1>6 DEF VersionInv, RcInv, LoaderInv, SessionOK, CachedLib
  <2>2. CachedLib(s, g).row \in Row /\ Loaded(libs[s], CachedLib(s, g).row.xid)
    BY <2>1 DEF Library, Loaded, CachedLib
  <2>3. Follows(CachedLib(s, g).row, q, g)
    BY <1>6 DEF VersionInv, VersionsOK, CacheOK
  <2>4. CachedLib(s, g).row.xid = x => q[Len(q)].xid = x
    <3>1. CachedLib(s, g).row.xid < nextXid
      BY <2>2, RowXid DEF VersionInv, XidsOK
    <3> QED
      BY <1>1, <1>2, <3>1
  <2>5. g = f /\ row \in Row =>
            \/ q[Len(q)].rows[f] = Unwritten
            \/ q[Len(q)].rows[f] \in Row /\ Content(row) = Content(q[Len(q)].rows[f])
    BY <1>2, <1>6
  <2>6. PICK r : r = CachedLib(s, g).row
    OBVIOUS
  <2>7. Follows(r, new, g)
    BY <1>1, <1>2, <1>3, <2>2, <2>3, <2>4, <2>5, <2>6, WrittenFollows
  <2> QED
    BY <2>6, <2>7
<1>7. nextXid <= nextXid'
  BY <1>1, <1>2
<1> QED
  BY <1>4, <1>5, <1>6, <1>7

\* A command writes a row; the cached library of the function stays only if the
\* function keeps its code or goes.
LEMMA WriteStep ==
  ASSUME VersionInv, RcInv', NEW s \in Sessions, NEW f \in Fns, InXact(s),
         NEW row \in Row \cup {Gone}, row \in Row => row.xid = XidOf(s),
         NEW updates \in Nat, WriteRow(s, f, row, updates),
         \A t \in Sessions \ {s} : libs'[t] = libs[t] /\ cache'[t] = cache[t],
         KeepsRows(libs'[s], libs[s]),
         \A g \in Fns : cache'[s][g] \in {NoLib, cache[s][g]},
         cache'[s][f] # NoLib /\ row \in Row =>
            \/ Top(s).rows[f] = Unwritten
            \/ Top(s).rows[f] \in Row /\ Content(row) = Content(Top(s).rows[f])
  PROVE  XidsOK' /\ VersionsOK'
<1>1. Writes(s, updates) /\ StampCommitted(s, f)
  BY DEF WriteRow
<1>2. PICK new : new = LevelsWith(s, f, row)
  OBVIOUS
<1>3. /\ LevelsOK(new) /\ nextXid <= nextXid'
      /\ \A y \in 1..MaxXid :
            Uses(new, y) => Uses(xact[s], y) \/ (y = nextXid /\ y < nextXid')
  BY <1>1, <1>2, LevelsFollowed
<1>4. /\ xact'[s] = new /\ view'[s] = committed
      /\ \A t \in Sessions \ {s} : xact'[t] = xact[t] /\ view'[t] = view[t]
  BY <1>2 DEF WriteRow, VersionInv, RcInv, CatalogTypes
<1>5. ASSUME NEW g \in Fns, cache'[s][g] # NoLib
      PROVE  Follows(CachedLib(s, g).row, xact'[s], g)
  <2>1. cache[s][g] # NoLib
    BY <1>5, KeptEntry DEF VersionInv
  <2>2. g = f /\ row \in Row =>
            \/ Top(s).rows[f] = Unwritten
            \/ Top(s).rows[f] \in Row /\ Content(row) = Content(Top(s).rows[f])
    BY <1>5
  <2>3. Follows(CachedLib(s, g).row, new, g)
    BY <1>1, <1>2, <2>1, <2>2, LevelsFollowed
  <2> QED
    BY <1>4, <2>3
<1>6. \A g \in Fns : Alike(committed'[g], committed[g])
  BY <1>1, LevelsWritten DEF VersionInv
<1>7. OthersKeep(s)
  BY <1>4 DEF OthersKeep
<1>8. \A g \in Fns : view'[s][g] \in {view[s][g], committed[g], committed'[g]}
  BY <1>4
<1> QED
  BY <1>3, <1>4, <1>5, <1>6, <1>7, <1>8, KeepStep

\* A command writes a row and fails: its level goes, the stamps stay.
LEMMA UndoneStep ==
  ASSUME VersionInv, RcInv', NEW s \in Sessions, NEW f \in Fns, InXact(s),
         NEW updates \in Nat, WriteUndone(s, f, updates),
         \A t \in Sessions \ {s} : libs'[t] = libs[t] /\ cache'[t] = cache[t],
         KeepsRows(libs'[s], libs[s]),
         \A g \in Fns : cache'[s][g] \in {NoLib, cache[s][g]}
  PROVE  XidsOK' /\ VersionsOK'
<1>1. Writes(s, updates) /\ StampCommitted(s, f)
  BY DEF WriteUndone
<1>2. Gone \in Row \cup {Gone} /\ Gone \notin Row
  BY RowAssumption
<1>3. PICK new : new = LevelsWith(s, f, Gone)
  OBVIOUS
<1>4. /\ LevelsOK(new) /\ nextXid <= nextXid'
      /\ \A y \in 1..MaxXid :
            Uses(new, y) => Uses(xact[s], y) \/ (y = nextXid /\ y < nextXid')
  BY <1>1, <1>2, <1>3, LevelsFollowed
<1>5. /\ new \in Seq(Level)
      /\ Written(new, xact[s], f, Gone, XidOf(s))
      /\ \A g \in Fns : Alike(committed'[g], committed[g])
  BY <1>1, <1>2, <1>3, LevelsWritten DEF VersionInv
<1>6. new # <<>>
  BY <1>5 DEF Written, InXact, VersionInv, RcInv, CatalogTypes
<1>7. /\ xact'[s] = Pop(new) /\ view'[s] = committed'
      /\ \A t \in Sessions \ {s} : xact'[t] = xact[t] /\ view'[t] = view[t]
  BY <1>3 DEF WriteUndone, VersionInv, RcInv, CatalogTypes
<1>8. PICK low \in Seq(Level) : low = xact'[s]
  BY DEF RcInv, CatalogTypes
<1>9. \E from : Rearranged(low, new, from)
  BY <1>5, <1>6, <1>7, <1>8, PopLevel
<1>10. /\ LevelsOK(low)
       /\ \A y \in 1..MaxXid : Uses(low, y) => Uses(new, y)
       /\ \A r \in Row : \A g \in Fns : Follows(r, new, g) => Follows(r, low, g)
  BY <1>4, <1>5, <1>9, RearrangedOK
<1>11. ASSUME NEW g \in Fns, cache'[s][g] # NoLib
       PROVE  Follows(CachedLib(s, g).row, xact'[s], g)
  <2>1. cache[s][g] # NoLib
    BY <1>11, KeptEntry DEF VersionInv
  <2>2. Follows(CachedLib(s, g).row, new, g)
    BY <1>1, <1>2, <1>3, <2>1, LevelsFollowed
  <2>3. CachedLib(s, g) \in Library
    BY <2>1 DEF VersionInv, RcInv, LoaderInv, SessionOK, CachedLib
  <2>4. CachedLib(s, g).row \in Row
    BY <2>3 DEF Library
  <2> QED
    BY <1>8, <1>10, <2>2, <2>4
<1>12. OthersKeep(s)
  BY <1>7 DEF OthersKeep
<1>13. \A g \in Fns : view'[s][g] \in {view[s][g], committed[g], committed'[g]}
  BY <1>7
<1>14. LevelsOK(xact'[s]) /\ \A y \in 1..MaxXid :
         Uses(xact'[s], y) => Uses(xact[s], y) \/ (y = nextXid /\ y < nextXid')
  BY <1>4, <1>8, <1>10
<1> QED
  BY <1>4, <1>5, <1>11, <1>12, <1>13, <1>14, KeepStep

----------------------------------------------------------------------------
(* The actions.                                                            *)

\* A step that leaves the catalog and the libraries and rearranges the levels.
LEMMA RearrangeStep ==
  ASSUME VersionInv, RcInv', NEW s \in Sessions, NEW from,
         Rearranged(xact'[s], xact[s], from),
         \A t \in Sessions \ {s} :
            xact'[t] = xact[t] /\ view'[t] = view[t] /\ libs'[t] = libs[t]
            /\ cache'[t] = cache[t],
         KeepsRows(libs'[s], libs[s]),
         \A f \in Fns : cache'[s][f] \in {NoLib, cache[s][f]},
         UNCHANGED <<committed, nextXid>>,
         \A f \in Fns : view'[s][f] \in {view[s][f], committed[f]}
  PROVE  XidsOK' /\ VersionsOK'
<1>1. xact[s] \in Seq(Level) /\ xact'[s] \in Seq(Level) /\ LevelsOK(xact[s]) /\ nextXid \in Int
  BY DEF VersionInv, RcInv, CatalogTypes, VersionsOK
<1>2. PICK new : new = xact'[s]
  OBVIOUS
<1>3. /\ LevelsOK(new)
      /\ \A x \in 1..MaxXid : Uses(new, x) => Uses(xact[s], x)
      /\ \A row \in Row : \A f \in Fns : Follows(row, xact[s], f) => Follows(row, new, f)
  BY <1>1, <1>2, RearrangedOK
<1>4. ASSUME NEW f \in Fns, cache'[s][f] # NoLib
      PROVE  Follows(CachedLib(s, f).row, xact'[s], f)
  <2>1. cache[s][f] # NoLib
    BY <1>4, KeptEntry DEF VersionInv
  <2>2. CachedLib(s, f) \in Library
    BY <2>1 DEF VersionInv, RcInv, LoaderInv, SessionOK, CachedLib
  <2>3. CachedLib(s, f).row \in Row
    BY <2>2 DEF Library
  <2>4. Follows(CachedLib(s, f).row, xact[s], f)
    BY <2>1 DEF VersionInv, VersionsOK, CacheOK
  <2> QED
    BY <1>2, <1>3, <2>3, <2>4
<1>5. \A f \in Fns : Alike(committed'[f], committed[f])
  BY DEF Alike
<1>6. OthersKeep(s)
  BY DEF OthersKeep
<1>7. \A f \in Fns : view'[s][f] \in {view[s][f], committed[f], committed'[f]}
  OBVIOUS
<1> QED
  BY <1>1, <1>2, <1>3, <1>4, <1>5, <1>6, <1>7, KeepStep

LEMMA SameLevels == \A q \in Seq(Level) : Rearranged(q, q, [i \in DOMAIN q |-> i])
  BY DEF Rearranged

LEMMA UnwindLevelKeeps ==
  ASSUME VersionInv, NEW s \in Sessions, InXact(s), NEW lb, NEW c,
         SessionOK(lb, c, frames[s]), KeepsRows(lb, libs[s]), UnwindLevel(s, lb)
  PROVE  /\ KeepsRows(libs'[s], libs[s])
         /\ \A t \in Sessions \ {s} : libs'[t] = libs[t]
<1>1. Top(s).calls \in 0..Len(frames[s]) /\ LoaderInv
  BY LevelCalls DEF VersionInv, RcInv
<1>2. PICK n \in 0..Len(frames[s]) : Unwind(s, n, lb)
  BY <1>1 DEF UnwindLevel
<1> QED
  BY <1>1, <1>2, UnwindKeeps

\* A rollback of the innermost level.
LEMMA AbortStep ==
  ASSUME VersionInv, RcInv', NEW s \in Sessions, InXact(s), AbortTop(s)
  PROVE  XidsOK' /\ VersionsOK'
<1>1. UnwindLevel(s, libs[s]) /\ UNCHANGED <<committed, nextXid, cache>>
  BY DEF AbortTop, catalog
<1>2. KeepsRows(libs'[s], libs[s]) /\ \A t \in Sessions \ {s} : libs'[t] = libs[t]
  BY <1>1, UnwindLevelKeeps, LoaderFacts, KeepsRefl DEF VersionInv, RcInv
<1>3. /\ xact'[s] = Pop(xact[s])
      /\ view'[s] = [f \in Fns |-> IF Wrote(s, f) THEN committed[f] ELSE view[s][f]]
      /\ \A t \in Sessions \ {s} : xact'[t] = xact[t] /\ view'[t] = view[t]
  BY DEF AbortTop, VersionInv, RcInv, CatalogTypes
<1>4. Rearranged(xact'[s], xact[s], [i \in DOMAIN Pop(xact[s]) |-> i])
  BY <1>3, PopLevel DEF InXact, VersionInv, RcInv, CatalogTypes
<1>5. \A f \in Fns : view'[s][f] \in {view[s][f], committed[f]}
  BY <1>3
<1> QED
  BY <1>1, <1>2, <1>3, <1>4, <1>5, RearrangeStep

\* COMMIT publishes versions that only this session had.
LEMMA CommitStep ==
  ASSUME VersionInv, RcInv', NEW s \in Sessions, Commit(s)
  PROVE  XidsOK' /\ VersionsOK'
<1>1. /\ xact'[s] = <<>> /\ InXact(s) /\ Len(xact[s]) \in DOMAIN xact[s]
      /\ nextXid \in Int /\ UNCHANGED <<nextXid, libs, cache>>
  <2>1. xact \in [Sessions -> Seq(Level)] /\ nextXid \in Int
    BY DEF VersionInv, RcInv, CatalogTypes
  <2>2. xact[s] \in Seq(Level) /\ Len(xact[s]) = 1
    BY <2>1 DEF Commit
  <2>3. xact[s] # <<>> /\ Len(xact[s]) \in DOMAIN xact[s]
    BY <2>2
  <2>4. xact'[s] = <<>> /\ UNCHANGED <<nextXid, libs, cache>>
    BY <2>1 DEF Commit
  <2> QED
    BY <2>1, <2>3, <2>4 DEF InXact
<1>2. OthersKeep(s)
  BY DEF Commit, OthersKeep, VersionInv, RcInv, CatalogTypes
<1>3. \A f \in Fns :
        /\ committed'[f] = IF Wrote(s, f) THEN Top(s).rows[f] ELSE committed[f]
        /\ view'[s][f] = IF Wrote(s, f) THEN Top(s).rows[f] ELSE view[s][f]
  BY DEF Commit, VersionInv, RcInv, CatalogTypes
<1>4. ~ \E x : Uses(xact'[s], x)
  BY <1>1, NoLevels
<1>5. \A f \in Fns : Top(s).rows[f] \in Row => Uses(xact[s], Top(s).rows[f].xid)
  BY <1>1 DEF Uses, Has, Top
<1>6. ASSUME NEW x, Has(committed', x) \/ Has(view'[s], x)
      PROVE  Published(x) \/ Uses(xact[s], x)
  <2>1. CASE Has(committed', x)
    BY <1>3, <1>5, <2>1 DEF Has, Published
  <2>2. CASE Has(view'[s], x)
    BY <1>3, <1>5, <2>2 DEF Has, Published
  <2> QED
    BY <1>6, <2>1, <2>2
<1>7. XidsOK'
  <2>1. \A x : Loaded(libs'[s], x) => Loaded(libs[s], x)
    BY <1>1
  <2> QED
    BY <1>1, <1>2, <1>4, <1>6, <2>1, XidsStep DEF VersionInv
<1>8. ASSUME NEW f \in Fns
      PROVE  \/ Alike(committed'[f], committed[f])
             \/ committed'[f] \in Row => Uses(xact[s], committed'[f].xid)
  BY <1>3, <1>5 DEF Alike
<1>9. LevelsOK(xact'[s])
  BY <1>1, NoLevels
<1>10. ASSUME NEW f \in Fns PROVE Agree(view'[s][f], committed'[f])
  BY <1>3 DEF VersionInv, VersionsOK, Agree
<1>11. ASSUME NEW f \in Fns PROVE CacheOK(s, f)'
  <2> SUFFICES ASSUME cache[s][f] # NoLib
               PROVE  /\ Agree(CachedLib(s, f).row, committed'[f])
                      /\ Agree(CachedLib(s, f).row, view'[s][f])
                      /\ Follows(CachedLib(s, f).row, <<>>, f)
    BY <1>1 DEF CacheOK, CachedLib, Agree, Follows
  <2>1. /\ Agree(CachedLib(s, f).row, committed[f])
        /\ Agree(CachedLib(s, f).row, view[s][f])
        /\ Follows(CachedLib(s, f).row, xact[s], f)
    BY DEF VersionInv, VersionsOK, CacheOK
  <2>2. Agree(CachedLib(s, f).row, Top(s).rows[f])
    BY <1>1, <2>1 DEF Follows, Top
  <2> QED
    BY <1>3, <2>1, <2>2, NoLevels
<1>12. VersionsOK'
  BY <1>2, <1>8, <1>9, <1>10, <1>11, VersionsStep DEF VersionInv
<1> QED
  BY <1>7, <1>12

LEMMA TransactStep ==
  ASSUME VersionInv, RcInv', NEW s \in Sessions, Transact(s)
  PROVE  XidsOK' /\ VersionsOK'
<1>1. /\ xact \in [Sessions -> Seq(Level)] /\ nextXid \in Int
      /\ view \in [Sessions -> [Fns -> Row \cup {Gone}]]
      /\ libs \in [Sessions -> [Libs -> Library \cup {Closed}]]
      /\ cache \in [Sessions -> [Fns -> Libs \cup {NoLib}]]
  BY DEF VersionInv, RcInv, CatalogTypes, LoaderInv
<1>2. CASE Begin(s)
  <2>1. PICK q : q = <<[xid |-> 0, rows |-> [f \in Fns |-> Unwritten], calls |-> 0]>>
    OBVIOUS
  <2>2. /\ xact'[s] = q /\ view'[s] = committed
        /\ UNCHANGED <<committed, nextXid, libs, cache>> /\ OthersKeep(s)
    BY <1>1, <1>2, <2>1 DEF Begin, OthersKeep, catalog, loaderVars
  <2>3. /\ LevelsOK(q)
        /\ \A x \in 1..MaxXid : ~Uses(q, x)
        /\ \A row \in Row : \A f \in Fns : Follows(row, q, f)
    BY <2>1, FirstLevel
  <2>4. ASSUME NEW f \in Fns, cache'[s][f] # NoLib
        PROVE  Follows(CachedLib(s, f).row, xact'[s], f)
    <3>1. CachedLib(s, f) \in Library
      BY <2>2, <2>4 DEF VersionInv, RcInv, LoaderInv, SessionOK, CachedLib
    <3> QED
      BY <2>2, <2>3, <3>1 DEF Library
  <2>5. \A f \in Fns : Alike(committed'[f], committed[f])
    BY <2>2 DEF Alike
  <2>6. /\ KeepsRows(libs'[s], libs[s])
        /\ \A f \in Fns : cache'[s][f] \in {NoLib, cache[s][f]}
        /\ \A f \in Fns : view'[s][f] \in {view[s][f], committed[f], committed'[f]}
    BY <2>2, KeepsRefl
  <2>7. /\ LevelsOK(xact'[s]) /\ nextXid <= nextXid'
        /\ \A x \in 1..MaxXid :
              Uses(xact'[s], x) => Uses(xact[s], x) \/ (x = nextXid /\ x < nextXid')
    BY <1>1, <2>2, <2>3
  <2> QED
    BY <2>2, <2>4, <2>5, <2>6, <2>7, KeepStep
<1>3. CASE Savepoint(s)
  <2>1. /\ xact'[s] = Append(xact[s], [xid |-> 0, rows |-> xact[s][Len(xact[s])].rows,
                                        calls |-> Len(frames[s])])
        /\ xact[s] # <<>>
        /\ UNCHANGED <<committed, nextXid, view, libs, cache>>
        /\ \A t \in Sessions \ {s} : xact'[t] = xact[t]
    BY <1>1, <1>3 DEF Savepoint, InXact, Top, catalog, loaderVars
  <2>2. \E from : Rearranged(xact'[s], xact[s], from)
    BY <1>1, <2>1, PushLevel
  <2> QED
    BY <2>1, <2>2, KeepsRefl, RearrangeStep
<1>4. CASE ReleaseSavepoint(s)
  <2>1. /\ xact'[s] = [Pop(xact[s]) EXCEPT ![Len(xact[s]) - 1].rows =
                          xact[s][Len(xact[s])].rows]
        /\ Len(xact[s]) > 1
        /\ UNCHANGED <<committed, nextXid, view, libs, cache>>
        /\ \A t \in Sessions \ {s} : xact'[t] = xact[t]
    BY <1>1, <1>4 DEF ReleaseSavepoint, Top, catalog
  <2>2. \E from : Rearranged(xact'[s], xact[s], from)
    BY <1>1, <2>1, MergeLevel
  <2> QED
    BY <2>1, <2>2, KeepsRefl, RearrangeStep
<1>5. CASE Commit(s)
  BY <1>5, CommitStep
<1>6. CASE Abort(s)
  BY <1>6, AbortStep DEF Abort
<1>7. CASE AcceptInvalidations(s) \/ ReloadConfig(s)
  <2>1. /\ UNCHANGED <<committed, nextXid, xact, libs, cache>>
        /\ view'[s] \in {view[s], committed}
        /\ \A t \in Sessions \ {s} : view'[t] = view[t]
    BY <1>1, <1>7 DEF AcceptInvalidations, ReloadConfig, catalog, xactVars, loaderVars
  <2>2. \E from : Rearranged(xact'[s], xact[s], from)
    BY <1>1, <2>1, SameLevels
  <2> QED
    BY <2>1, <2>2, KeepsRefl, RearrangeStep
<1>8. CASE Restart(s)
  <2>1. /\ xact'[s] = <<>> /\ view'[s] = committed
        /\ libs'[s] = [l \in Libs |-> Closed] /\ cache'[s] = NoLibs
        /\ UNCHANGED <<committed, nextXid>> /\ OthersKeep(s)
    BY <1>1, <1>8 DEF Restart, OthersKeep, catalog
  <2>2. /\ \A f \in Fns : cache'[s][f] = NoLib
        /\ \A f \in Fns : Alike(committed'[f], committed[f])
        /\ KeepsRows(libs'[s], libs[s])
    BY <2>1 DEF NoLibs, Alike, KeepsRows
  <2>3. /\ LevelsOK(xact'[s]) /\ nextXid <= nextXid'
        /\ \A x \in 1..MaxXid :
              Uses(xact'[s], x) => Uses(xact[s], x) \/ (x = nextXid /\ x < nextXid')
    BY <1>1, <2>1, NoLevels
  <2>4. \A f \in Fns : /\ cache'[s][f] \in {NoLib, cache[s][f]}
                       /\ view'[s][f] \in {view[s][f], committed[f], committed'[f]}
    BY <2>1, <2>2
  <2> QED
    BY <2>1, <2>2, <2>3, <2>4, KeepStep
<1>9. CASE Catch(s)
  <2>1. PICK n \in (Top(s).calls + 1)..(Len(frames[s]) - 1) : Unwind(s, n, libs[s])
    BY <1>9 DEF Catch
  <2>2. Top(s).calls \in 0..Len(frames[s]) /\ Len(frames[s]) \in Nat
    BY <1>9, LevelCalls DEF VersionInv, RcInv, LoaderInv, Catch
  <2>3. n \in 0..Len(frames[s])
    BY <2>1, <2>2
  <2>4. KeepsRows(libs'[s], libs[s]) /\ \A t \in Sessions \ {s} : libs'[t] = libs[t]
    BY <2>1, <2>3, UnwindKeeps, LoaderFacts, KeepsRefl DEF VersionInv, RcInv
  <2>5. UNCHANGED <<committed, nextXid, xact, view, cache>>
    BY <1>9 DEF Catch, catalog, xactVars
  <2>6. Rearranged(xact'[s], xact[s], [i \in DOMAIN xact[s] |-> i])
    BY <1>1, <2>5, SameLevels
  <2> QED
    BY <2>4, <2>5, <2>6, RearrangeStep
<1> QED
  BY <1>2, <1>3, <1>4, <1>5, <1>6, <1>7, <1>8, <1>9 DEF Transact

LEMMA DefineStep ==
  ASSUME VersionInv, RcInv', NEW s \in Sessions, NEW f \in Fns, Define(s, f)
  PROVE  XidsOK' /\ VersionsOK'
<1>1. /\ TypeOK /\ LoaderInv
      /\ libs \in [Sessions -> [Libs -> Library \cup {Closed}]]
      /\ cache \in [Sessions -> [Fns -> Libs \cup {NoLib}]]
  BY RcInvParts DEF VersionInv, RcInv, LoaderInv
<1>2. CASE Alter(s, f)
  <2> DEFINE row == [Current(s, f) EXCEPT !.xid = XidOf(s), !.cid = cid[s]]
  <2>1. /\ InXact(s) /\ Current(s, f) # Gone /\ WriteRow(s, f, row, 0)
        /\ UNCHANGED <<libs, cache>>
    BY <1>2 DEF Alter, CanWrite, loaderVars
  <2>2. Current(s, f) \in Row
    BY <1>1, <2>1, CurrentType
  <2>3. XidOf(s) \in 1..MaxXid /\ cid[s] \in 0..MaxCid
    <3>1. XidOf(s) <= MaxXid /\ cid[s] + 0 <= MaxCid /\ cid[s] \in 0..(MaxCid + 1)
      BY <1>1, <2>1 DEF WriteRow, Writes, TypeOK
    <3> QED
      BY <1>1, <2>1, <3>1, XidOfType, FnCacheAssumption
  <2>4. /\ row \in Row /\ row.xid = XidOf(s)
        /\ row.code = Current(s, f).code /\ row.lints = Current(s, f).lints
    BY <2>2, <2>3 DEF Row
  <2>5. Content(row) = Content(Current(s, f))
    BY <2>4 DEF Content
  <2>6. \/ Top(s).rows[f] = Unwritten
        \/ Top(s).rows[f] \in Row /\ Content(row) = Content(Top(s).rows[f])
    BY <2>1, <2>2, <2>5 DEF Current, Wrote
  <2> HIDE DEF row
  <2> QED
    BY <2>1, <2>4, <2>6, KeepsRefl, WriteStep
<1>3. CASE DropFunction(s, f)
  <2>1. InXact(s) /\ WriteRow(s, f, Gone, 0) /\ UNCHANGED <<libs, cache>>
    BY <1>3 DEF DropFunction, CanWrite, loaderVars
  <2> QED
    BY <2>1, KeepsRefl, RowAssumption, WriteStep
<1>4. CASE Replace(s, f)
  <2>1. PICK closes \in CloseResults :
          libs' = [libs EXCEPT ![s] = Unloaded(s, f, closes)]
    BY <1>4 DEF Replace
  <2>2. PICK code \in Codes, lints \in CompileLints :
          WriteRow(s, f, [xid |-> XidOf(s), cid |-> cid[s] + NTargets,
                          code |-> code, lints |-> lints], NTargets)
    BY <1>4 DEF Replace
  <2> DEFINE row == [xid |-> XidOf(s), cid |-> cid[s] + NTargets,
                     code |-> code, lints |-> lints]
  <2>3. InXact(s) /\ cache' = [cache EXCEPT ![s][f] = NoLib]
    BY <1>4 DEF Replace, Submittable, CanWrite
  <2>4. row \in Row /\ row.xid = XidOf(s)
    <3>1. XidOf(s) <= MaxXid /\ cid[s] + NTargets <= MaxCid /\ cid[s] \in 0..(MaxCid + 1)
      BY <1>1, <2>2 DEF WriteRow, Writes, TypeOK
    <3>2. XidOf(s) \in 1..MaxXid
      BY <1>1, <2>3, <3>1, XidOfType
    <3> QED
      BY <3>1, <3>2, NTargetsType, FnCacheAssumption DEF Row
  <2>5. /\ KeepsRows(libs'[s], libs[s])
        /\ \A t \in Sessions \ {s} : libs'[t] = libs[t]
    <3>1. KeepsRows(Unloaded(s, f, closes), libs[s])
      BY <1>1, CloseResultsType, UnloadedKeeps
    <3> QED
      BY <1>1, <2>1, <3>1
  <2>6. /\ \A t \in Sessions \ {s} : cache'[t] = cache[t]
        /\ \A g \in Fns : cache'[s][g] \in {NoLib, cache[s][g]}
        /\ cache'[s][f] = NoLib
    BY <1>1, <2>3
  <2> HIDE DEF row
  <2>7. WriteRow(s, f, row, NTargets)
    BY <2>2 DEF row
  <2> QED
    BY <2>3, <2>4, <2>5, <2>6, <2>7, NTargetsType, WriteStep
<1>5. CASE ReplaceFails(s, f)
  <2>1. InXact(s) /\ cache' = [cache EXCEPT ![s][f] = NoLib]
    BY <1>5 DEF ReplaceFails, Submittable, CanWrite
  <2>2. PICK closes \in CloseResults : UnwindLevel(s, Unloaded(s, f, closes))
    BY <1>5 DEF ReplaceFails
  <2>3. PICK updates \in 0..NTargets : WriteUndone(s, f, updates)
    BY <1>5 DEF ReplaceFails
  <2>4. /\ KeepsRows(Unloaded(s, f, closes), libs[s])
        /\ SessionOK(Unloaded(s, f, closes), [cache[s] EXCEPT ![f] = NoLib], frames[s])
    BY <1>1, CloseResultsType, UnloadedKeeps, UnloadOK
  <2>5. KeepsRows(libs'[s], libs[s]) /\ \A t \in Sessions \ {s} : libs'[t] = libs[t]
    BY <2>1, <2>2, <2>4, UnwindLevelKeeps
  <2>6. /\ \A t \in Sessions \ {s} : cache'[t] = cache[t]
        /\ \A g \in Fns : cache'[s][g] \in {NoLib, cache[s][g]}
    BY <1>1, <2>1
  <2>7. updates \in Nat
    BY NTargetsType
  <2> QED
    BY <2>1, <2>3, <2>5, <2>6, <2>7, UndoneStep
<1> QED
  BY <1>2, <1>3, <1>4, <1>5 DEF Define

\* What a session sees of a function agrees with everything it could come to see.
LEMMA VisibleAgrees ==
  ASSUME VersionInv, NEW s \in Sessions, NEW f \in Fns, InXact(s), Visible(s, f) \in Row
  PROVE  /\ Uses(xact[s], Visible(s, f).xid) \/ Published(Visible(s, f).xid)
         /\ Agree(Visible(s, f), committed[f]) /\ Agree(Visible(s, f), view[s][f])
         /\ Follows(Visible(s, f), xact[s], f)
<1> DEFINE row == Visible(s, f)
           q == xact[s]
           n == Len(q)
<1>1. /\ n \in DOMAIN q /\ \A i \in DOMAIN q : i <= n
      /\ LevelsOK(q) /\ Agree(view[s][f], committed[f])
  BY DEF VersionInv, RcInv, CatalogTypes, VersionsOK, InXact
<1>2. row.xid \in 1..MaxXid
  BY DEF Row
<1>3. Uses(q, row.xid) => ~Published(row.xid)
  BY <1>2 DEF VersionInv, XidsOK
<1>4. /\ committed[f] \in Row => Published(committed[f].xid)
      /\ view[s][f] \in Row => Published(view[s][f].xid)
  BY DEF Published, Has
<1>5. \A i \in DOMAIN q : q[i].rows[f] \in Row => Uses(q, q[i].rows[f].xid)
  BY DEF Uses, Has
<1>6. \A i \in DOMAIN q : Uses(q, q[i].xid)
  BY DEF Uses
<1>7. CASE Wrote(s, f)
  <2>1. row = q[n].rows[f]
    BY <1>7 DEF Visible, Top
  <2> HIDE DEF row, n
  <2>2. row \in Row
    BY DEF row
  <2>3. Uses(q, row.xid) /\ ~Published(row.xid)
    BY <1>1, <1>3, <1>5, <2>1, <2>2
  <2>4. Agree(row, committed[f]) /\ Agree(row, view[s][f])
    BY <1>4, <2>3 DEF Agree
  <2>5. Follows(row, q, f)
    BY <1>1, <2>1, <2>2 DEF LevelsOK, Follows
  <2> QED
    BY <2>3, <2>4, <2>5 DEF row
<1>8. CASE ~Wrote(s, f)
  <2>1. row = view[s][f]
    BY <1>8 DEF Visible
  <2> HIDE DEF row, n
  <2>2. row \in Row
    BY DEF row
  <2>3. Published(row.xid) /\ ~Uses(q, row.xid)
    BY <1>3, <1>4, <2>1, <2>2
  <2>4. Agree(row, committed[f]) /\ Agree(row, view[s][f])
    BY <1>1, <2>1 DEF Agree
  <2>5. Follows(row, q, f)
    BY <1>5, <1>6, <2>3 DEF Follows, Agree
  <2> QED
    BY <2>3, <2>4, <2>5 DEF row
<1> QED
  BY <1>7, <1>8

LEMMA LoadStep ==
  ASSUME VersionInv, RcInv', NEW s \in Sessions, NEW f \in Fns, InXact(s),
         Visible(s, f) # Gone, NEW resumes, LoadAndRun(s, f, resumes),
         UNCHANGED <<committed, nextXid, xact, view>>
  PROVE  XidsOK' /\ VersionsOK'
<1>1. /\ TypeOK /\ LoaderInv /\ nextXid \in Int
      /\ libs \in [Sessions -> [Libs -> Library \cup {Closed}]]
      /\ cache \in [Sessions -> [Fns -> Libs \cup {NoLib}]]
  <2>1. RcInv /\ TypeOK
    BY RcInvParts DEF VersionInv
  <2> QED
    BY <2>1 DEF RcInv, LoaderInv, CatalogTypes
<1>2. Visible(s, f) \in Row
  BY <1>1, VisibleType
<1>3. PICK l \in FreeLibs(s), closes \in CloseResults :
        /\ libs' = [libs EXCEPT ![s] =
              [Unloaded(s, f, closes) EXCEPT
                  ![l] = [fn |-> f, row |-> Visible(s, f), rc |-> 2]]]
        /\ cache' = [cache EXCEPT ![s][f] = l]
  BY DEF LoadAndRun
<1> DEFINE lb == Unloaded(s, f, closes)
<1>4. l \in Libs /\ libs[s][l] = Closed /\ KeepsRows(lb, libs[s])
  BY <1>1, CloseResultsType, UnloadedKeeps DEF FreeLibs
<1>5. lb \in [Libs -> Library \cup {Closed}]
  BY <1>1, CloseResultsType, UnloadOK DEF SessionOK
<1> HIDE DEF lb
<1>6. /\ libs'[s][l].row = Visible(s, f)
      /\ \A k \in Libs \ {l} : libs'[s][k] = lb[k]
      /\ cache'[s][f] = l /\ \A g \in Fns \ {f} : cache'[s][g] = cache[s][g]
      /\ OthersKeep(s)
  <2>1. libs'[s] = [lb EXCEPT ![l] = [fn |-> f, row |-> Visible(s, f), rc |-> 2]]
    BY <1>1, <1>3 DEF lb
  <2>2. cache'[s] = [cache[s] EXCEPT ![f] = l]
    BY <1>1, <1>3
  <2>3. OthersKeep(s)
    BY <1>1, <1>3 DEF OthersKeep
  <2> QED
    BY <1>1, <1>4, <1>5, <2>1, <2>2, <2>3
<1>7. /\ Uses(xact[s], Visible(s, f).xid) \/ Published(Visible(s, f).xid)
      /\ Agree(Visible(s, f), committed[f]) /\ Agree(Visible(s, f), view[s][f])
      /\ Follows(Visible(s, f), xact[s], f)
  BY <1>2, VisibleAgrees
<1>8. ASSUME NEW x, Loaded(libs'[s], x)
      PROVE  Loaded(libs[s], x) \/ Uses(xact[s], x) \/ Published(x)
  <2>1. PICK k \in Libs : libs'[s][k] # Closed /\ libs'[s][k].row.xid = x
    BY <1>8 DEF Loaded
  <2>2. CASE k = l
    BY <1>6, <1>7, <2>1, <2>2
  <2>3. CASE k # l
    BY <1>4, <1>6, <2>1, <2>3 DEF KeepsRows, Loaded
  <2> QED
    BY <2>2, <2>3
<1>9. XidsOK'
  <2>1. \A x : Has(committed', x) \/ Has(view'[s], x) => Published(x)
    BY DEF Published
  <2> QED
    BY <1>1, <1>6, <1>8, <2>1, XidsStep DEF VersionInv
<1>10. ASSUME NEW g \in Fns PROVE CacheOK(s, g)'
  <2> SUFFICES ASSUME cache'[s][g] # NoLib
               PROVE  /\ Agree(CachedLib(s, g)'.row, committed[g])
                      /\ Agree(CachedLib(s, g)'.row, view[s][g])
                      /\ Follows(CachedLib(s, g)'.row, xact[s], g)
    BY DEF CacheOK, Agree, Follows
  <2>1. CASE g = f
    BY <1>6, <1>7, <2>1 DEF CachedLib
  <2>2. CASE g # f
    <3>1. cache'[s][g] = cache[s][g] /\ cache[s][g] \in Libs /\ libs[s][cache[s][g]] # Closed
      BY <1>1, <1>6, <2>2 DEF LoaderInv, SessionOK
    <3>2. libs'[s][cache[s][g]] = lb[cache[s][g]]
      BY <1>4, <1>6, <3>1
    <3>3. libs'[s][cache'[s][g]] # Closed
      BY DEF RcInv, LoaderInv, SessionOK
    <3>4. CachedLib(s, g)'.row = CachedLib(s, g).row
      BY <1>4, <3>1, <3>2, <3>3 DEF KeepsRows, CachedLib
    <3> QED
      BY <3>1, <3>4 DEF VersionInv, VersionsOK, CacheOK
  <2> QED
    BY <2>1, <2>2
<1>11. VersionsOK'
  <2>1. LevelsOK(xact'[s]) /\ \A g \in Fns : Agree(view'[s][g], committed'[g])
    BY DEF VersionInv, VersionsOK
  <2>2. \A g \in Fns : Alike(committed'[g], committed[g])
    BY DEF Alike
  <2> QED
    BY <1>6, <1>10, <2>1, <2>2, VersionsStep DEF VersionInv
<1> QED
  BY <1>9, <1>11

LEMMA ExecuteStep ==
  ASSUME VersionInv, RcInv', NEW s \in Sessions, NEW f \in Fns, Execute(s, f)
  PROVE  XidsOK' /\ VersionsOK'
<1>1. /\ LoaderInv /\ xact[s] \in Seq(Level)
      /\ libs \in [Sessions -> [Libs -> Library \cup {Closed}]]
      /\ SessionOK(libs[s], cache[s], frames[s])
  BY DEF VersionInv, RcInv, LoaderInv, CatalogTypes
<1>2. CASE Call(s, f) \/ Fetch(s, f)
  <2>1. PICK resumes : Evaluate(s, f, resumes)
    BY <1>2 DEF Call, Fetch
  <2>2. /\ InXact(s) /\ Visible(s, f) # Gone
        /\ UNCHANGED <<committed, nextXid, xact, view>>
    BY <2>1 DEF Evaluate, catalog, xactVars
  <2>3. CASE LoadAndRun(s, f, resumes)
    BY <2>2, <2>3, LoadStep
  <2>4. CASE RunCached(s, f, resumes)
    <3>1. /\ cache[s][f] \in Libs /\ libs[s][cache[s][f]] # Closed
          /\ libs[s] \in [Libs -> Library \cup {Closed}]
      BY <1>1, <2>4 DEF RunCached, UpToDate, SessionOK
    <3>2. KeepsRows(Clone(libs[s], cache[s][f]), libs[s])
      BY <3>1, CloneKeeps
    <3>3. /\ libs' = [libs EXCEPT ![s] = Clone(libs[s], cache[s][f])]
          /\ UNCHANGED cache
      BY <2>4 DEF RunCached
    <3>4. Rearranged(xact'[s], xact[s], [i \in DOMAIN xact[s] |-> i])
      BY <1>1, <2>2, SameLevels
    <3>5. /\ libs'[s] = Clone(libs[s], cache[s][f])
          /\ \A t \in Sessions \ {s} : libs'[t] = libs[t]
      BY <1>1, <3>3
    <3> QED
      BY <2>2, <3>2, <3>3, <3>4, <3>5, RearrangeStep
  <2> QED
    BY <2>1, <2>3, <2>4 DEF Evaluate
<1>3. CASE CallFails(s, f)
  BY <1>3, AbortStep DEF CallFails
<1> QED
  BY <1>2, <1>3 DEF Execute

LEMMA LeaveStep ==
  ASSUME VersionInv, RcInv', NEW s \in Sessions, ~Idle(s), Leave(s)
  PROVE  XidsOK' /\ VersionsOK'
<1>1. /\ xact[s] \in Seq(Level)
      /\ libs \in [Sessions -> [Libs -> Library \cup {Closed}]]
      /\ frames[s] \in Seq(FrameType) /\ frames[s] # <<>>
      /\ SessionOK(libs[s], cache[s], frames[s])
  BY DEF VersionInv, RcInv, LoaderInv, CatalogTypes, Idle
<1>2. PICK closes \in CloseResults :
        libs' = [libs EXCEPT ![s] = DropRef(libs[s], Frame(s).lib, closes)]
  BY DEF Leave
<1>3. Len(frames[s]) \in DOMAIN frames[s]
  BY <1>1
<1>4. /\ Frame(s).lib \in Libs /\ libs[s][Frame(s).lib] # Closed
      /\ libs[s] \in [Libs -> Library \cup {Closed}]
  BY <1>1, <1>3, FrameLib DEF SessionOK, Frame
<1>5. KeepsRows(DropRef(libs[s], Frame(s).lib, closes), libs[s])
  BY <1>4, CloseResultsType, DropRefKeeps
<1>6. /\ libs'[s] = DropRef(libs[s], Frame(s).lib, closes)
      /\ \A t \in Sessions \ {s} : libs'[t] = libs[t]
  BY <1>1, <1>2
<1>7. UNCHANGED <<committed, nextXid, xact, view, cache>>
  BY DEF Leave, catalog, xactVars
<1>8. Rearranged(xact'[s], xact[s], [i \in DOMAIN xact[s] |-> i])
  BY <1>1, <1>7, SameLevels
<1> QED
  BY <1>5, <1>6, <1>7, <1>8, RearrangeStep

LEMMA VersionNext == VersionInv /\ [Next]_vars => VersionInv'
<1> SUFFICES ASSUME VersionInv, [Next]_vars
             PROVE  VersionInv'
  OBVIOUS
<1>1. RcInv' /\ CallsNest'
  BY RcNext, NestNext DEF VersionInv
<1>2. ASSUME NEW s \in Sessions, Return(s) \/ Yield(s) PROVE XidsOK' /\ VersionsOK'
  <2>1. Leave(s)
    BY <1>2 DEF Return, Yield
  <2> QED
    BY <1>1, <2>1, LeaveFrames, LeaveStep DEF VersionInv
<1>3. CASE UNCHANGED vars
  <2>1. UNCHANGED <<committed, nextXid, xact, view, cache, libs>>
    BY <1>3 DEF vars, catalog, xactVars, loaderVars
  <2>2. \A x : Published(x)' <=> Published(x)
    BY <2>1 DEF Published
  <2>3. XidsOK'
    BY <2>1, <2>2 DEF VersionInv, XidsOK
  <2>4. \A s \in Sessions : \A f \in Fns : CacheOK(s, f)'
    <3>1. ASSUME NEW s \in Sessions, NEW f \in Fns
          PROVE  CacheOK(s, f) /\ CachedLib(s, f)' = CachedLib(s, f)
      BY <2>1 DEF VersionInv, VersionsOK, CachedLib
    <3> QED
      BY <2>1, <3>1 DEF CacheOK, Agree, Follows
  <2>5. \A s \in Sessions : LevelsOK(xact'[s])
    BY <2>1 DEF VersionInv, VersionsOK
  <2>6. \A s \in Sessions : \A f \in Fns : Agree(view'[s][f], committed'[f])
    BY <2>1 DEF VersionInv, VersionsOK
  <2>7. VersionsOK'
    BY <2>4, <2>5, <2>6 DEF VersionsOK, LevelsOK, Agree, Has
  <2> QED
    BY <1>1, <2>3, <2>7 DEF VersionInv
<1> QED
  BY <1>1, <1>2, <1>3, TransactStep, DefineStep, ExecuteStep DEF Next, VersionInv

LEMMA VersionInit == Init => VersionInv
<1> SUFFICES ASSUME Init PROVE VersionInv
  OBVIOUS
<1>1. /\ \A f \in Fns : committed[f] = Gone
      /\ \A s \in Sessions : /\ xact[s] = <<>> /\ cache[s] = NoLibs
                             /\ \A f \in Fns : view[s][f] = Gone
                             /\ \A l \in Libs : libs[s][l] = Closed
  BY DEF Init
<1>2. XidsOK
  BY <1>1, RowAssumption, NoLevels DEF XidsOK, Published, Has, Loaded
<1>3. VersionsOK
  BY <1>1, RowAssumption, NoLevels DEF VersionsOK, Agree, CacheOK, NoLibs
<1> QED
  BY <1>2, <1>3, RcInit, NestInit DEF VersionInv

\* Who has versions of which transaction, and that these agree in code with what
\* is cached, holds in every state: the invariant the theorems below rest on.
THEOREM VersionInvariance == Spec => []VersionInv
  BY VersionInit, VersionNext, PTL DEF Spec

----------------------------------------------------------------------------
(* The theorems.                                                           *)

\* No session has a library of a version that another session has written and
\* not committed, whatever savepoints it was written in.
THEOREM UncommittedStaysPrivate == Spec => []UncommittedIsPrivate
<1>1. VersionInv => UncommittedIsPrivate
  <2> SUFFICES ASSUME VersionInv, NEW s \in Sessions, NEW t \in Sessions,
                      NEW l \in Libs, s # t, libs[s][l] # Closed,
                      NEW i \in DOMAIN xact[t], NEW f \in Fns,
                      xact[t][i].rows[f] \notin {Gone, Unwritten},
                      libs[s][l].row.xid = xact[t][i].rows[f].xid
               PROVE  FALSE
    BY DEF UncommittedIsPrivate
  <2>1. xact[t][i] \in Level
    BY DEF VersionInv, RcInv, CatalogTypes
  <2>2. xact[t][i].rows[f] \in Row
    BY <2>1 DEF Level
  <2> DEFINE x == xact[t][i].rows[f].xid
  <2>3. x \in 1..MaxXid /\ Uses(xact[t], x) /\ Loaded(libs[s], x)
    BY <2>2, RowXid DEF Uses, Has, Loaded
  <2> QED
    BY <2>3 DEF VersionInv, XidsOK
<1> QED
  BY <1>1, VersionInvariance, PTL

LEMMA KeyIsSound == VersionInv => SameGenerationSameCode
<1> SUFFICES ASSUME VersionInv, NEW s \in Sessions, NEW f \in Fns, UpToDate(s, f)
             PROVE  Content(CachedLib(s, f).row) = Content(Visible(s, f))
  BY DEF SameGenerationSameCode
<1>1. /\ Visible(s, f) # Gone /\ cache[s][f] # NoLib
      /\ CachedLib(s, f).row.xid = Visible(s, f).xid
  BY DEF UpToDate, Generation
<1>2. TypeOK /\ xact[s] \in Seq(Level)
  <2>1. TypeOK
    BY RcInvParts DEF VersionInv
  <2> QED
    BY <2>1 DEF TypeOK
<1>3. Visible(s, f) \in Row
  BY <1>1, <1>2, VisibleType
<1>4. CachedLib(s, f).row \in Row
  <2>1. CachedLib(s, f) \in Library
    BY <1>1 DEF VersionInv, RcInv, LoaderInv, SessionOK, CachedLib
  <2> QED
    BY <2>1 DEF Library
<1>5. /\ Agree(CachedLib(s, f).row, view[s][f])
      /\ Follows(CachedLib(s, f).row, xact[s], f)
  BY <1>1 DEF VersionInv, VersionsOK, CacheOK
<1>6. CASE Wrote(s, f)
  <2>1. Len(xact[s]) \in DOMAIN xact[s]
    BY <1>2, <1>6 DEF Wrote, InXact
  <2>2. Agree(CachedLib(s, f).row, Visible(s, f))
    BY <1>5, <1>6, <2>1 DEF Follows, Visible, Top
  <2> QED
    BY <1>1, <1>3, <1>4, <2>2 DEF Agree
<1>7. CASE ~Wrote(s, f)
  BY <1>1, <1>3, <1>4, <1>5, <1>7 DEF Agree, Visible
<1> QED
  BY <1>6, <1>7

\* The generation number is a sound cache key: a cached library whose number is
\* that of the row the session sees is a library of that row's code.
THEOREM GenerationsAreSound == Spec => []SameGenerationSameCode
  BY KeyIsSound, VersionInvariance, PTL

\* frames' is frames with at most fewer calls, but for a call being made.
LEMMA NoCallNoFrame ==
  ASSUME VersionInv, [Next]_vars,
         ~ \E s \in Sessions : \E f \in Fns : \E resumes : Evaluate(s, f, resumes)
  PROVE  \A s \in Sessions : Len(frames'[s]) <= Len(frames[s])
<1>1. /\ frames \in [Sessions -> Seq(FrameType)]
      /\ \A s \in Sessions : Len(frames[s]) \in Nat
  BY DEF VersionInv, RcInv, LoaderInv
<1>2. CASE UNCHANGED frames
  BY <1>1, <1>2
<1> DEFINE Fewer == \A t \in Sessions : Len(frames'[t]) <= Len(frames[t])
<1>3. ASSUME NEW s \in Sessions, NEW n \in 0..Len(frames[s]),
             frames' = [frames EXCEPT ![s] = SubSeq(frames[s], 1, n)]
      PROVE  Fewer
  <2>1. \A t \in Sessions :
          frames'[t] = IF t = s THEN SubSeq(frames[s], 1, n) ELSE frames[t]
    BY <1>1, <1>3
  <2>2. Len(SubSeq(frames[s], 1, n)) = n /\ n <= Len(frames[s])
    BY <1>1, FramesSplit
  <2> DEFINE low == SubSeq(frames[s], 1, n)
  <2> HIDE DEF low
  <2>3. \A t \in Sessions : frames'[t] = IF t = s THEN low ELSE frames[t]
    BY <2>1 DEF low
  <2>4. Len(low) <= Len(frames[s])
    BY <2>2 DEF low
  <2> QED
    BY <1>1, <2>3, <2>4
<1>4. ASSUME NEW s \in Sessions, InXact(s), NEW lb, UnwindLevel(s, lb)
      PROVE  Fewer
  <2>1. Top(s).calls \in 0..Len(frames[s])
    BY <1>4, LevelCalls DEF VersionInv
  <2> QED
    BY <1>3, <1>4, <2>1 DEF UnwindLevel, Unwind
<1>5. ASSUME NEW s \in Sessions, Transact(s) PROVE Fewer
  <2>1. CASE UNCHANGED frames
    BY <1>2, <2>1
  <2>2. CASE Abort(s)
    BY <1>4, <2>2 DEF Abort, AbortTop
  <2>3. CASE Catch(s)
    <3>1. PICK n \in (Top(s).calls + 1)..(Len(frames[s]) - 1) : Unwind(s, n, libs[s])
      BY <2>3 DEF Catch
    <3>2. Top(s).calls \in 0..Len(frames[s])
      BY <2>3, LevelCalls DEF VersionInv, Catch
    <3>3. n \in 0..Len(frames[s])
      BY <1>1, <3>1, <3>2
    <3> QED
      BY <1>3, <3>1, <3>3 DEF Unwind
  <2>4. CASE Restart(s)
    <3>1. \A t \in Sessions : frames'[t] = IF t = s THEN <<>> ELSE frames[t]
      BY <1>1, <2>4 DEF Restart
    <3>2. Len(<<>>) = 0
      OBVIOUS
    <3> QED
      BY <1>1, <3>1, <3>2
  <2> QED
    BY <1>5, <2>1, <2>2, <2>3, <2>4
    DEF Transact, Begin, Savepoint, ReleaseSavepoint, Commit, AcceptInvalidations,
        ReloadConfig, loaderVars
<1>6. ASSUME NEW s \in Sessions, NEW f \in Fns, Define(s, f) PROVE Fewer
  <2>1. CASE UNCHANGED frames
    BY <1>2, <2>1
  <2>2. CASE ReplaceFails(s, f)
    BY <1>4, <2>2 DEF ReplaceFails, Submittable, CanWrite
  <2> QED
    BY <1>6, <2>1, <2>2 DEF Define, Alter, DropFunction, Replace, loaderVars
<1>7. ASSUME NEW s \in Sessions, NEW f \in Fns, Execute(s, f) PROVE Fewer
  <2>1. CallFails(s, f)
    BY <1>7 DEF Execute, Call, Fetch
  <2> QED
    BY <1>4, <2>1 DEF CallFails, AbortTop
<1>9. ASSUME NEW s \in Sessions, Return(s) \/ Yield(s) PROVE Fewer
  <2>1. Leave(s)
    BY <1>9 DEF Return, Yield
  <2>2. frames' = [frames EXCEPT ![s] = Pop(frames[s])] /\ frames[s] # <<>>
    BY <2>1, LeaveFrames DEF VersionInv, Leave, Idle
  <2>3. Len(frames[s]) - 1 \in 0..Len(frames[s])
    BY <1>1, <2>2
  <2> QED
    BY <1>3, <2>2, <2>3 DEF Pop
<1>8. CASE UNCHANGED vars
  BY <1>2, <1>8 DEF vars, loaderVars
<1> QED
  BY <1>5, <1>6, <1>7, <1>8, <1>9 DEF Next

LEMMA EvaluateRunsVisible ==
  ASSUME VersionInv, NEW s \in Sessions, NEW f \in Fns, NEW resumes,
         Evaluate(s, f, resumes)
  PROVE  RunsVisible
<1>1. /\ frames \in [Sessions -> Seq(FrameType)]
      /\ libs \in [Sessions -> [Libs -> Library \cup {Closed}]]
      /\ SessionOK(libs[s], cache[s], frames[s])
      /\ Visible(s, f) # Gone
  BY DEF VersionInv, RcInv, LoaderInv, Evaluate
<1>2. ASSUME NEW l \in Libs, Enter(s, f, l, resumes),
             Content(libs'[s][l].row) = Content(Visible(s, f))
      PROVE  RunsVisible
  <2>1. frames' = [frames EXCEPT ![s] =
                     Append(frames[s], [fn |-> f, lib |-> l, resumes |-> resumes])]
    BY <1>2 DEF Enter
  <2>2. \A t \in Sessions \ {s} : frames'[t] = frames[t] /\ Len(frames[t]) \in Nat
    BY <1>1, <2>1
  <2>3. frames'[s] = Append(frames[s], [fn |-> f, lib |-> l, resumes |-> resumes])
    BY <1>1, <2>1
  <2>4. frames'[s][Len(frames'[s])] = [fn |-> f, lib |-> l, resumes |-> resumes]
    BY <1>1, <2>3
  <2>5. Content(libs'[s][l].row) = Content(Visible(s, f))
    BY <1>2
  <2>6. \A t \in Sessions : Len(frames'[t]) > Len(frames[t]) => t = s
    BY <2>2
  <2> QED
    BY <1>1, <2>4, <2>5, <2>6 DEF RunsVisible
<1>3. CASE RunCached(s, f, resumes)
  <2> DEFINE l == cache[s][f]
  <2>1. /\ l \in Libs /\ libs[s][l] # Closed /\ UpToDate(s, f)
        /\ libs' = [libs EXCEPT ![s] = Clone(libs[s], l)]
        /\ Enter(s, f, l, resumes)
    BY <1>1, <1>3 DEF RunCached, UpToDate, SessionOK
  <2>2. libs[s][l] \in Library /\ libs'[s] = Clone(libs[s], l)
    BY <1>1, <2>1
  <2>3. libs'[s][l].row = CachedLib(s, f).row
    BY <1>1, <2>1, <2>2 DEF Clone, Library, CachedLib
  <2>4. Content(CachedLib(s, f).row) = Content(Visible(s, f))
    BY <2>1, KeyIsSound DEF SameGenerationSameCode
  <2> QED
    BY <1>2, <2>1, <2>3, <2>4
<1>4. CASE LoadAndRun(s, f, resumes)
  <2>1. PICK l \in FreeLibs(s), closes \in CloseResults :
          /\ libs' = [libs EXCEPT ![s] =
                [Unloaded(s, f, closes) EXCEPT
                    ![l] = [fn |-> f, row |-> Visible(s, f), rc |-> 2]]]
          /\ Enter(s, f, l, resumes)
    BY <1>4 DEF LoadAndRun
  <2>2. l \in Libs /\ Unloaded(s, f, closes) \in [Libs -> Library \cup {Closed}]
    BY CloseResultsType, UnloadOK DEF FreeLibs, SessionOK, VersionInv, RcInv
  <2>3. libs'[s][l].row = Visible(s, f)
    BY <1>1, <2>1, <2>2
  <2> QED
    BY <1>2, <2>1, <2>2, <2>3
<1> QED
  BY <1>3, <1>4 DEF Evaluate

\* A call runs the code of the version its session sees when it is made, after
\* any replacements, rollbacks, failed reloads and late invalidations.
THEOREM CallsRunWhatTheySee == Spec => CallsRunVisibleVersion
<1>1. VersionInv /\ [Next]_vars => [RunsVisible]_vars
  <2> SUFFICES ASSUME VersionInv, [Next]_vars
               PROVE  RunsVisible
    OBVIOUS
  <2>1. CASE \E s \in Sessions : \E f \in Fns : \E resumes : Evaluate(s, f, resumes)
    BY <2>1, EvaluateRunsVisible
  <2>2. CASE ~ \E s \in Sessions : \E f \in Fns : \E resumes : Evaluate(s, f, resumes)
    <3>1. \A s \in Sessions : Len(frames'[s]) <= Len(frames[s])
      BY <2>2, NoCallNoFrame
    <3>2. \A s \in Sessions : Len(frames[s]) \in Nat /\ Len(frames'[s]) \in Nat
      BY RcNext DEF VersionInv, RcInv, LoaderInv
    <3> QED
      BY <3>1, <3>2 DEF RunsVisible
  <2> QED
    BY <2>1, <2>2
<1> QED
  BY <1>1, VersionInvariance, PTL DEF Spec, CallsRunVisibleVersion

----------------------------------------------------------------------------
(* Lints.                                                                  *)

Loads(s, f) == \E resumes : Evaluate(s, f, resumes) /\ LoadAndRun(s, f, resumes)

\* A library appears only by being loaded.
LEMMA OnlyLoadsLoad ==
  ASSUME VersionInv, [Next]_vars
  PROVE  \/ \A t \in Sessions : KeepsRows(libs'[t], libs[t])
         \/ \E s \in Sessions : \E f \in Fns : Loads(s, f)
<1> DEFINE Kept == \A t \in Sessions : KeepsRows(libs'[t], libs[t])
<1>1. LoaderInv /\ libs \in [Sessions -> [Libs -> Library \cup {Closed}]]
  BY DEF VersionInv, RcInv, LoaderInv
<1>2. ASSUME NEW s \in Sessions, NEW lb, KeepsRows(lb, libs[s]),
             libs' = [libs EXCEPT ![s] = lb]
      PROVE  Kept
  <2>1. libs'[s] = lb /\ \A t \in Sessions \ {s} : libs'[t] = libs[t]
    BY <1>1, <1>2
  <2> QED
    BY <1>2, <2>1, KeepsRefl
<1>3. ASSUME UNCHANGED libs PROVE Kept
  BY <1>3, KeepsRefl
<1>4. ASSUME NEW s \in Sessions, InXact(s), AbortTop(s) PROVE Kept
  BY <1>1, <1>4, KeepsRefl, LoaderFacts, UnwindLevelKeeps DEF AbortTop
<1>5. ASSUME NEW s \in Sessions, Transact(s) PROVE Kept
  <2>1. CASE UNCHANGED libs
    BY <1>3, <2>1
  <2>2. CASE Abort(s)
    BY <1>4, <2>2 DEF Abort
  <2>3. CASE Restart(s)
    <3>1. KeepsRows([l \in Libs |-> Closed], libs[s])
      BY DEF KeepsRows
    <3> QED
      BY <1>2, <2>3, <3>1 DEF Restart
  <2>4. CASE Catch(s)
    <3>1. PICK n \in (Top(s).calls + 1)..(Len(frames[s]) - 1) : Unwind(s, n, libs[s])
      BY <2>4 DEF Catch
    <3>2. Top(s).calls \in 0..Len(frames[s]) /\ Len(frames[s]) \in Nat
      BY <1>1, <2>4, LevelCalls DEF VersionInv, LoaderInv, Catch
    <3>3. n \in 0..Len(frames[s])
      BY <3>1, <3>2
    <3> QED
      BY <1>1, <3>1, <3>3, KeepsRefl, LoaderFacts, UnwindKeeps
  <2> QED
    BY <1>5, <2>1, <2>2, <2>3, <2>4
    DEF Transact, Begin, Savepoint, ReleaseSavepoint, Commit, AcceptInvalidations,
        ReloadConfig, loaderVars
<1>6. ASSUME NEW s \in Sessions, NEW f \in Fns, Define(s, f) PROVE Kept
  <2>1. ASSUME NEW closes \in CloseResults
        PROVE  /\ KeepsRows(Unloaded(s, f, closes), libs[s])
               /\ SessionOK(Unloaded(s, f, closes), [cache[s] EXCEPT ![f] = NoLib], frames[s])
    BY <1>1, CloseResultsType, UnloadedKeeps, UnloadOK
  <2>2. CASE Alter(s, f) \/ DropFunction(s, f)
    BY <1>3, <2>2 DEF Alter, DropFunction, loaderVars
  <2>3. CASE Replace(s, f)
    BY <1>2, <2>1, <2>3 DEF Replace
  <2>4. CASE ReplaceFails(s, f)
    <3>1. InXact(s) /\ \E closes \in CloseResults : UnwindLevel(s, Unloaded(s, f, closes))
      BY <2>4 DEF ReplaceFails, Submittable, CanWrite
    <3> QED
      BY <2>1, <3>1, KeepsRefl, UnwindLevelKeeps
  <2> QED
    BY <1>6, <2>2, <2>3, <2>4 DEF Define
<1>7. ASSUME NEW s \in Sessions, NEW f \in Fns, NEW resumes, RunCached(s, f, resumes)
      PROVE  Kept
  <2>1. /\ cache[s][f] \in Libs /\ libs[s][cache[s][f]] # Closed
        /\ libs[s] \in [Libs -> Library \cup {Closed}]
    BY <1>1, <1>7 DEF RunCached, UpToDate, LoaderInv, SessionOK
  <2> QED
    BY <1>2, <1>7, <2>1, CloneKeeps DEF RunCached
<1>8. ASSUME NEW s \in Sessions, Return(s) \/ Yield(s) PROVE Kept
  <2>1. /\ SessionOK(libs[s], cache[s], frames[s]) /\ frames[s] \in Seq(FrameType)
        /\ frames[s] # <<>> /\ libs[s] \in [Libs -> Library \cup {Closed}] /\ Leave(s)
    <3>1. Leave(s)
      BY <1>8 DEF Return, Yield
    <3> QED
      BY <1>1, <3>1, LeaveFrames DEF VersionInv, LoaderInv, Idle
  <2>2. Len(frames[s]) \in DOMAIN frames[s]
    BY <2>1
  <2>3. Frame(s).lib \in Libs /\ libs[s][Frame(s).lib] # Closed
    BY <2>1, <2>2, FrameLib DEF SessionOK, Frame
  <2>4. PICK closes \in CloseResults :
          libs' = [libs EXCEPT ![s] = DropRef(libs[s], Frame(s).lib, closes)]
    BY <2>1 DEF Leave
  <2> QED
    BY <1>2, <2>1, <2>3, <2>4, CloseResultsType, DropRefKeeps
<1>9. ASSUME NEW s \in Sessions, NEW f \in Fns, Execute(s, f)
      PROVE  Kept \/ Loads(s, f)
  <2>1. CASE CallFails(s, f)
    BY <1>4, <2>1 DEF CallFails
  <2>2. CASE Call(s, f) \/ Fetch(s, f)
    <3>1. PICK resumes : Evaluate(s, f, resumes)
      BY <2>2 DEF Call, Fetch
    <3> QED
      BY <1>7, <3>1 DEF Evaluate, Loads
  <2> QED
    BY <1>9, <2>1, <2>2 DEF Execute
<1>10. CASE UNCHANGED vars
  BY <1>3, <1>10 DEF vars, loaderVars
<1>11. CASE Next
  <2>1. PICK s \in Sessions :
          \/ Transact(s)
          \/ \E f \in Fns : Define(s, f) \/ Execute(s, f)
          \/ Return(s) \/ Yield(s)
    BY <1>11 DEF Next
  <2>2. CASE \E f \in Fns : Execute(s, f)
    BY <1>9, <2>2
  <2> QED
    BY <1>5, <1>6, <1>8, <2>1, <2>2
<1> QED
  BY <1>10, <1>11

LEMMA StepKeepsLints == VersionInv /\ [Next]_vars => KeepsLints
<1> SUFFICES ASSUME VersionInv, [Next]_vars, NEW t \in Sessions,
                    LoadedCodeHasRequiredLints(t), required'[t] \subseteq required[t]
             PROVE  LoadedCodeHasRequiredLints(t)'
  BY Zenon DEF KeepsLints
<1> SUFFICES ASSUME NEW k \in Libs, libs'[t][k] # Closed
             PROVE  required'[t] \subseteq libs'[t][k].row.lints
  BY DEF LoadedCodeHasRequiredLints
<1>1. ASSUME libs[t][k] # Closed, libs'[t][k].row = libs[t][k].row
      PROVE  required'[t] \subseteq libs'[t][k].row.lints
  BY <1>1 DEF LoadedCodeHasRequiredLints
<1>2. CASE \A u \in Sessions : KeepsRows(libs'[u], libs[u])
  BY <1>1, <1>2 DEF KeepsRows
<1>3. CASE \E s \in Sessions : \E f \in Fns : Loads(s, f)
  <2>1. PICK s \in Sessions, f \in Fns : \E resumes : LoadAndRun(s, f, resumes)
    BY <1>3 DEF Loads
  <2>2. LoaderInv /\ libs \in [Sessions -> [Libs -> Library \cup {Closed}]]
    BY DEF VersionInv, RcInv, LoaderInv
  <2>3. PICK l \in FreeLibs(s), closes \in CloseResults :
          libs' = [libs EXCEPT ![s] =
                [Unloaded(s, f, closes) EXCEPT
                    ![l] = [fn |-> f, row |-> Visible(s, f), rc |-> 2]]]
    BY <2>1 DEF LoadAndRun
  <2> DEFINE lb == Unloaded(s, f, closes)
  <2>4. l \in Libs /\ KeepsRows(lb, libs[s]) /\ lb \in [Libs -> Library \cup {Closed}]
    BY <2>2, CloseResultsType, UnloadedKeeps, UnloadOK DEF FreeLibs, SessionOK
  <2>5. /\ libs'[s] = [lb EXCEPT ![l] = [fn |-> f, row |-> Visible(s, f), rc |-> 2]]
        /\ \A u \in Sessions \ {s} : libs'[u] = libs[u]
    BY <2>2, <2>3
  <2> HIDE DEF lb
  <2>6. CASE t # s
    BY <1>1, <2>5, <2>6
  <2>7. CASE t = s /\ k = l
    <3>1. libs'[t][k].row = Visible(s, f)
      <4>1. libs'[s][l] = [fn |-> f, row |-> Visible(s, f), rc |-> 2]
        BY <2>4, <2>5
      <4> QED
        BY <2>7, <4>1
    <3>2. required[s] \subseteq Visible(s, f).lints
      BY <2>1 DEF LoadAndRun, MayLoad
    <3>3. required'[t] \subseteq required[s]
      BY <2>7
    <3>4. required'[t] \subseteq Visible(s, f).lints
      <4> DEFINE seen == Visible(s, f).lints
      <4>1. required[s] \subseteq seen
        BY <3>2
      <4> HIDE DEF seen
      <4>2. required'[t] \subseteq seen
        BY <3>3, <4>1
      <4> QED
        BY <4>2 DEF seen
    <3> QED
      BY <3>1, <3>4
  <2>8. CASE t = s /\ k # l
    <3>1. libs'[t][k] = lb[k]
      BY <2>4, <2>5, <2>8
    <3> QED
      BY <1>1, <2>4, <2>8, <3>1 DEF KeepsRows
  <2> QED
    BY <2>6, <2>7, <2>8
<1> QED
  BY <1>2, <1>3, OnlyLoadsLoad

\* Every library a session loads has the lints it requires then: only a reload
\* of the configuration that adds a lint can leave it with code that lacks one.
THEOREM NewLintsAloneOutdateCode == Spec => OnlyNewLintsOutdateCode
<1>1. VersionInv /\ [Next]_vars => [KeepsLints]_vars
  BY StepKeepsLints
<1> QED
  BY <1>1, VersionInvariance, PTL DEF Spec, OnlyNewLintsOutdateCode

\* The behaviours in which plrust.required_lints is never given another lint.
NoNewLints == \A s \in Sessions : required'[s] \subseteq required[s]

\* What gucs.rs and config-lints.md say of required lints, and the run of stale
\* lints refutes, is true as long as none is added under a running backend.
THEOREM RunningCodeIsLinted ==
  Spec /\ [][NoNewLints]_vars => []RunningCodeHasRequiredLints
<1> DEFINE Linted == \A s \in Sessions : LoadedCodeHasRequiredLints(s)
<1>1. Init => Linted
  BY DEF Init, LoadedCodeHasRequiredLints
<1>2. Linted /\ [KeepsLints]_vars /\ [NoNewLints]_vars => Linted'
  <2>1. CASE UNCHANGED vars
    BY <2>1 DEF vars, loaderVars, LoadedCodeHasRequiredLints
  <2>2. CASE KeepsLints /\ NoNewLints
    BY <2>2 DEF KeepsLints, NoNewLints
  <2> QED
    BY <2>1, <2>2
<1>3. VersionInv /\ Linted => RunningCodeHasRequiredLints
  <2> SUFFICES ASSUME VersionInv, Linted, NEW s \in Sessions, NEW i \in DOMAIN frames[s]
               PROVE  required[s] \subseteq libs[s][frames[s][i].lib].row.lints
    BY DEF RunningCodeHasRequiredLints
  <2>1. SessionOK(libs[s], cache[s], frames[s]) /\ frames[s] \in Seq(FrameType)
    BY DEF VersionInv, RcInv, LoaderInv
  <2>2. frames[s][i].lib \in Libs /\ libs[s][frames[s][i].lib] # Closed
    BY <2>1, FrameLib DEF SessionOK
  <2> QED
    BY <2>2 DEF LoadedCodeHasRequiredLints
<1> HIDE DEF Linted
<1> QED
  BY <1>1, <1>2, <1>3, VersionInvariance, NewLintsAloneOutdateCode, PTL
  DEF Spec, OnlyNewLintsOutdateCode
============================================================================
