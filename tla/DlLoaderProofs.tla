-------------------------- MODULE DlLoaderProofs ---------------------------
(***************************************************************************)
(* A loaded function runs its own bytes unless a library outlived its      *)
(* dlclose(), and no two functions share a mapping, for any number of      *)
(* functions, libraries and descriptors.                                   *)
(*                                                                         *)
(* The invariant behind it ties the three tables together: a descriptor is *)
(* open for its FnReady exactly as long as that FnReady has the mapping of *)
(* its name open, once; a descriptor that is free to be used again has no  *)
(* mapping left or one that lingers and that nobody has open.              *)
(***************************************************************************)
EXTENDS DlLoader, FiniteSetTheorems, TLAPS

\* The tables have the right domains, and nobody opens a name twice.
Shape ==
    /\ files \in [Fds -> Libraries \cup {NoFile}]
    /\ mapped \in [Fds -> [lib : Libraries, opens : {0, 1}, kept : BOOLEAN] \cup {NotMapped}]
    /\ ready \in [Handles -> FnReady \cup {NoHandle}]

\* A loaded function has its memfd and the mapping of its name open.
Backed ==
    \A h \in Handles : ready[h] # NoHandle =>
        /\ files[ready[h].fd] # NoFile
        /\ mapped[ready[h].fd] # NotMapped
        /\ mapped[ready[h].fd].opens = 1
        /\ mapped[ready[h].fd].lib = ready[h].runs
        /\ SymbolOf[ready[h].runs] = SymbolOf[ready[h].wants]

Apart ==
    \A h, k \in Handles :
        (h # k /\ ready[h] # NoHandle /\ ready[k] # NoHandle) => ready[h].fd # ready[k].fd

\* A mapping nobody has loaded a function from lingers and is not open.
Orphaned ==
    \A fd \in Fds : mapped[fd] # NotMapped =>
        \/ mapped[fd].kept /\ mapped[fd].opens = 0
        \/ \E h \in Handles : ready[h] # NoHandle /\ ready[h].fd = fd

LinkerInv == Shape /\ Backed /\ Apart /\ Orphaned /\ RunsItsBytes

\* A free descriptor's name is unknown to the linker or lingers, and no loaded
\* function goes by it.
LEMMA FreeNameIdle ==
    ASSUME LinkerInv, NEW fd \in Fds, Unused(fd)
    PROVE  /\ mapped[fd] = NotMapped \/ (mapped[fd].kept /\ mapped[fd].opens = 0)
           /\ \A h \in Handles : ready[h] # NoHandle => ready[h].fd # fd
<1>1. \A h \in Handles : ready[h] # NoHandle => ready[h].fd # fd
  BY DEF LinkerInv, Backed, Unused
<1> QED
  BY <1>1 DEF LinkerInv, Orphaned

\* What dlopen() answers for a free descriptor: a mapping of its own, which is
\* of the bytes just written unless it lingers.
LEMMA FreeNameOpens ==
    ASSUME LinkerInv, NEW fd \in Fds, Unused(fd), NEW lib \in Libraries
    PROVE  \E m \in [lib : Libraries, opens : {1}, kept : BOOLEAN] :
              /\ Dlopen(fd, lib) = [mapped EXCEPT ![fd] = m]
              /\ Dlopen(fd, lib)[fd] = m
              /\ m.lib = lib \/ m.kept
              /\ mapped[fd] = NotMapped => m.lib = lib
              /\ mapped[fd] # NotMapped => m.kept
<1> DEFINE Opened == [lib : Libraries, opens : {1}, kept : BOOLEAN]
<1>1. CASE mapped[fd] = NotMapped
  <2> DEFINE m == [lib |-> lib, opens |-> 1, kept |-> FALSE]
  <2>1. m \in Opened
    OBVIOUS
  <2>2. Dlopen(fd, lib) = [mapped EXCEPT ![fd] = m]
    BY <1>1 DEF Dlopen, LinkerInv, Shape
  <2>3. Dlopen(fd, lib)[fd] = m
    BY <2>2 DEF LinkerInv, Shape
  <2> QED
    BY <1>1, <2>1, <2>2, <2>3
<1>2. CASE mapped[fd] # NotMapped
  <2>1. PICK o \in [lib : Libraries, opens : {0, 1}, kept : BOOLEAN] :
          mapped[fd] = o /\ o.opens = 0 /\ o.kept
    BY <1>2, FreeNameIdle DEF LinkerInv, Shape
  <2> DEFINE m == [lib |-> o.lib, opens |-> 1, kept |-> TRUE]
  <2>3. m \in Opened /\ m.kept
    BY <2>1
  <2>4. Dlopen(fd, lib) = [mapped EXCEPT ![fd] = m]
    <3>1. Dlopen(fd, lib) = [mapped EXCEPT ![fd].opens = @ + 1]
      BY <1>2 DEF Dlopen
    <3>2. o = [lib |-> o.lib, opens |-> 0, kept |-> TRUE]
      BY <2>1
    <3>3. Dlopen(fd, lib) = [mapped EXCEPT ![fd] = [lib |-> o.lib, opens |-> 0 + 1, kept |-> TRUE]]
      BY <2>1, <3>1, <3>2, ZenonT(40)
    <3> QED
      BY <3>3
  <2>5. Dlopen(fd, lib)[fd] = m
    BY <2>4 DEF LinkerInv, Shape
  <2> QED
    BY <1>2, <2>3, <2>4, <2>5
<1> QED
  BY <1>1, <1>2

LEMMA LoadKeeps ==
    ASSUME LinkerInv, NEW h \in Handles, NEW lib \in Libraries, Load(h, lib)
    PROVE  LinkerInv'
<1>1. PICK fd \in Fds :
        /\ Unused(fd)
        /\ files' = [files EXCEPT ![fd] = lib]
        /\ mapped' = Dlopen(fd, lib)
        /\ SymbolOf[mapped'[fd].lib] = SymbolOf[lib]
        /\ ready' = [ready EXCEPT ![h] = [wants |-> lib, fd |-> fd, runs |-> mapped'[fd].lib]]
  BY DEF Load, LowestFd
<1>2. \A k \in Handles : ready[k] # NoHandle => ready[k].fd # fd
  BY <1>1, FreeNameIdle
<1>3. PICK m \in [lib : Libraries, opens : {1}, kept : BOOLEAN] :
        /\ mapped' = [mapped EXCEPT ![fd] = m]
        /\ mapped'[fd] = m
        /\ m.lib = lib \/ m.kept
  BY <1>1, FreeNameOpens
<1>4. m \in Mapping /\ m # NotMapped
  BY <1>3, RecordAssumption DEF Mapping
<1> DEFINE r == [wants |-> lib, fd |-> fd, runs |-> m.lib]
<1>5. r \in FnReady /\ r # NoHandle
  BY <1>3, RecordAssumption DEF FnReady
<1>6. ready' = [ready EXCEPT ![h] = r]
  BY <1>1, <1>3
<1>7. ready'[h] = r /\ \A k \in Handles : k # h => ready'[k] = ready[k]
  BY <1>6 DEF LinkerInv, Shape
<1>8. \A d \in Fds : d # fd => files'[d] = files[d] /\ mapped'[d] = mapped[d]
  BY <1>1, <1>3 DEF LinkerInv, Shape
<1>9. files'[fd] = lib /\ lib # NoFile
  BY <1>1, DlLoaderAssumption DEF LinkerInv, Shape
<1>10. \A k \in Handles : k # h /\ ready'[k] # NoHandle =>
         ready[k] # NoHandle /\ ready[k].fd \in Fds /\ ready[k].fd # fd
  BY <1>2, <1>7 DEF LinkerInv, Shape, FnReady
<1>11. Shape'
  BY <1>1, <1>3, <1>5, <1>6 DEF LinkerInv, Shape
<1>12. Backed'
  <2>1. /\ files'[r.fd] # NoFile
        /\ mapped'[r.fd] # NotMapped /\ mapped'[r.fd].opens = 1
        /\ mapped'[r.fd].lib = r.runs
        /\ SymbolOf[r.runs] = SymbolOf[r.wants]
    BY <1>1, <1>3, <1>4, <1>9
  <2> HIDE DEF r
  <2> QED
    BY <2>1, <1>7, <1>8, <1>10 DEF LinkerInv, Backed
<1>13. Apart'
  BY <1>2, <1>7 DEF LinkerInv, Apart
<1>14. Orphaned'
  <2> SUFFICES ASSUME NEW d \in Fds, mapped'[d] # NotMapped
               PROVE  \/ mapped'[d].kept /\ mapped'[d].opens = 0
                      \/ \E k \in Handles : ready'[k] # NoHandle /\ ready'[k].fd = d
    BY DEF Orphaned
  <2>1. CASE d = fd
    BY <2>1, <1>5, <1>7
  <2>2. CASE d # fd
    <3>1. mapped'[d] = mapped[d]
      BY <2>2, <1>8
    <3>2. \A k \in Handles : ready[k] # NoHandle => ready'[k] = ready[k]
      BY <1>7 DEF Load
    <3> QED
      BY <3>1, <3>2 DEF LinkerInv, Orphaned
  <2> QED
    BY <2>1, <2>2
<1>15. RunsItsBytes'
  <2>1. r.runs = r.wants \/ Lingers(r.fd)'
    BY <1>3, <1>4 DEF Lingers
  <2> HIDE DEF r
  <2> QED
    BY <2>1, <1>7, <1>8, <1>10 DEF LinkerInv, RunsItsBytes, Lingers
<1> QED
  BY <1>11, <1>12, <1>13, <1>14, <1>15 DEF LinkerInv

LEMMA CloseKeeps ==
    ASSUME LinkerInv, NEW h \in Handles, Close(h)
    PROVE  LinkerInv'
<1> DEFINE fd == ready[h].fd
<1>1. ready[h] # NoHandle /\ fd \in Fds
  BY DEF Close, LinkerInv, Shape, FnReady
<1>2. mapped[fd] # NotMapped /\ mapped[fd].opens = 1
  BY <1>1 DEF LinkerInv, Backed
<1>3. mapped' \in {[mapped EXCEPT ![fd] = NotMapped],
                   [mapped EXCEPT ![fd].opens = 0, ![fd].kept = TRUE]}
  BY <1>2 DEF Close, Dlclose
<1>4. files' = [files EXCEPT ![fd] = NoFile] /\ ready' = [ready EXCEPT ![h] = NoHandle]
  BY DEF Close
<1>5. \A k \in Handles : ready'[k] # NoHandle =>
        /\ k # h /\ ready'[k] = ready[k]
        /\ ready[k].fd \in Fds /\ ready[k].fd # fd
  BY <1>1, <1>4 DEF LinkerInv, Shape, Apart, FnReady
<1>6. \A d \in Fds : d # fd => files'[d] = files[d] /\ mapped'[d] = mapped[d]
  BY <1>3, <1>4 DEF LinkerInv, Shape
<1>7. \/ mapped' = [mapped EXCEPT ![fd] = NotMapped]
      \/ mapped' = [mapped EXCEPT ![fd] = [lib |-> mapped[fd].lib, opens |-> 0, kept |-> TRUE]]
  <2>1. mapped[fd] \in [lib : Libraries, opens : {0, 1}, kept : BOOLEAN]
    BY <1>1, <1>2 DEF LinkerInv, Shape
  <2> QED
    BY <1>1, <1>3, <2>1 DEF LinkerInv, Shape
<1>8. mapped[fd].lib \in Libraries
  BY <1>1, <1>2 DEF LinkerInv, Shape
<1>9. mapped'[fd] = NotMapped \/ (mapped'[fd].kept /\ mapped'[fd].opens = 0)
  BY <1>1, <1>7 DEF LinkerInv, Shape
<1>10. Shape'
  <2>1. [lib |-> mapped[fd].lib, opens |-> 0, kept |-> TRUE] \in [lib : Libraries, opens : {0, 1}, kept : BOOLEAN]
    BY <1>8
  <2>2. mapped' \in [Fds -> [lib : Libraries, opens : {0, 1}, kept : BOOLEAN] \cup {NotMapped}]
    BY <1>7, <2>1 DEF LinkerInv, Shape
  <2> QED
    BY <1>4, <2>2 DEF LinkerInv, Shape
<1>11. Backed'
  BY <1>5, <1>6 DEF LinkerInv, Backed
<1>12. Apart'
  BY <1>5 DEF LinkerInv, Apart
<1>13. Orphaned'
  <2> SUFFICES ASSUME NEW d \in Fds, mapped'[d] # NotMapped, d # fd
               PROVE  \/ mapped'[d].kept /\ mapped'[d].opens = 0
                      \/ \E k \in Handles : ready'[k] # NoHandle /\ ready'[k].fd = d
    BY <1>9 DEF Orphaned
  <2>1. mapped'[d] = mapped[d]
    BY <1>6
  <2>2. \A k \in Handles : ready[k] # NoHandle /\ ready[k].fd = d => ready'[k] = ready[k]
    BY <1>4 DEF LinkerInv, Shape
  <2> QED
    BY <2>1, <2>2 DEF LinkerInv, Orphaned
<1>14. RunsItsBytes'
  BY <1>5, <1>6 DEF LinkerInv, RunsItsBytes, Lingers
<1> QED
  BY <1>10, <1>11, <1>12, <1>13, <1>14 DEF LinkerInv

\* When the linker's answer lacks the wrapper, the answer was a library that
\* lingers; closing it again leaves it lingering or, at last, unmaps it.
LEMMA LoadFailsKeeps ==
    ASSUME LinkerInv, NEW lib \in Libraries, LoadFails(lib)
    PROVE  LinkerInv'
<1>1. PICK fd \in Fds :
        /\ Unused(fd)
        /\ mapped' \in Dlclose(Dlopen(fd, lib), fd)
  BY DEF LoadFails, LowestFd
<1>2. \A k \in Handles : ready[k] # NoHandle => ready[k].fd # fd
  BY <1>1, FreeNameIdle
<1>3. PICK m \in [lib : Libraries, opens : {1}, kept : BOOLEAN] :
        /\ Dlopen(fd, lib) = [mapped EXCEPT ![fd] = m]
        /\ Dlopen(fd, lib)[fd] = m
  BY <1>1, FreeNameOpens
<1>4. \/ mapped' = [mapped EXCEPT ![fd] = NotMapped]
      \/ mapped' = [mapped EXCEPT ![fd] = [lib |-> m.lib, opens |-> 0, kept |-> TRUE]]
  BY <1>1, <1>3 DEF Dlclose, LinkerInv, Shape
<1>5. files' = files /\ ready' = ready
  BY DEF LoadFails
<1>6. \A d \in Fds : d # fd => mapped'[d] = mapped[d]
  BY <1>4 DEF LinkerInv, Shape
<1>7. mapped'[fd] = NotMapped \/ (mapped'[fd].kept /\ mapped'[fd].opens = 0)
  BY <1>4 DEF LinkerInv, Shape
<1>8. \A k \in Handles : ready[k] # NoHandle => ready[k].fd \in Fds
  BY DEF LinkerInv, Shape, FnReady
<1>9. Shape'
  <2>1. [lib |-> m.lib, opens |-> 0, kept |-> TRUE] \in [lib : Libraries, opens : {0, 1}, kept : BOOLEAN]
    BY <1>3
  <2>2. mapped' \in [Fds -> [lib : Libraries, opens : {0, 1}, kept : BOOLEAN] \cup {NotMapped}]
    BY <1>4, <2>1 DEF LinkerInv, Shape
  <2> QED
    BY <1>5, <2>2 DEF LinkerInv, Shape
<1>10. Backed' /\ Apart' /\ RunsItsBytes'
  BY <1>2, <1>5, <1>6, <1>8 DEF LinkerInv, Backed, Apart, RunsItsBytes, Lingers
<1>11. Orphaned'
  BY <1>5, <1>6, <1>7 DEF LinkerInv, Orphaned
<1> QED
  BY <1>9, <1>10, <1>11 DEF LinkerInv

\* The linker's table, the descriptors and the loaded functions stay consistent.
THEOREM LinkerInvariance == Spec => []LinkerInv
<1>1. Init => LinkerInv
  BY DEF Init, LinkerInv, Shape, Backed, Apart, Orphaned, RunsItsBytes
<1>2. LinkerInv /\ [Next]_vars => LinkerInv'
  <2> SUFFICES ASSUME LinkerInv, [Next]_vars
               PROVE  LinkerInv'
    OBVIOUS
  <2>1. CASE OpenOther \/ CloseOther \/ UNCHANGED vars
    <3>1. UNCHANGED <<files, mapped, ready>>
      BY <2>1 DEF OpenOther, CloseOther, vars
    <3> QED
      BY <3>1 DEF LinkerInv, Shape, Backed, Apart, Orphaned, RunsItsBytes, Lingers
  <2>2. ASSUME NEW h \in Handles, Close(h)
        PROVE  LinkerInv'
    BY <2>2, CloseKeeps
  <2>3. ASSUME NEW h \in Handles, NEW lib \in Libraries, Load(h, lib)
        PROVE  LinkerInv'
    BY <2>3, LoadKeeps
  <2>4. ASSUME NEW lib \in Libraries, LoadFails(lib)
        PROVE  LinkerInv'
    BY <2>4, LoadFailsKeeps
  <2> QED
    BY <2>1, <2>2, <2>3, <2>4 DEF Next
<1> QED
  BY <1>1, <1>2, PTL DEF Spec

\* A loaded function runs the bytes that were in prosrc when it was loaded,
\* unless the library behind its descriptor outlived a dlclose().
THEOREM FunctionsRunTheirBytes == Spec => []RunsItsBytes
<1>1. LinkerInv => RunsItsBytes
  BY DEF LinkerInv
<1> QED
  BY <1>1, LinkerInvariance, PTL

\* Loaded functions have mappings that are theirs alone.
THEOREM FunctionsOwnTheirMappings == Spec => []MappingsAreOwn
<1>1. LinkerInv => MappingsAreOwn
  BY DEF LinkerInv, Backed, Apart, MappingsAreOwn
<1> QED
  BY <1>1, LinkerInvariance, PTL

\* Nothing that was closed stays mapped, but for what dlclose() left.
THEOREM ClosedLibrariesUnmap == Spec => []NothingStaysMapped
<1>1. LinkerInv => NothingStaysMapped
  BY DEF LinkerInv, Orphaned, NothingStaysMapped, Lingers
<1> QED
  BY <1>1, LinkerInvariance, PTL

\* Every variable keeps its shape, and a name is open at most once for each
\* FnReady there can be.
THEOREM TypeCorrect ==
    ASSUME IsFiniteSet(Handles)
    PROVE  Spec => []TypeOK
<1> DEFINE ForeignOK == foreign \subseteq Fds
<1>1. Init => ForeignOK
  BY DEF Init
<1>2. LinkerInv /\ ForeignOK /\ [Next]_vars => ForeignOK'
  BY DEF Next, OpenOther, CloseOther, LowestFd, Load, LoadFails, Close, vars
<1>3. Handles # {} => Cardinality(Handles) \in Nat \ {0}
  BY FS_CardinalityType, FS_EmptySet
<1>4. LinkerInv /\ ForeignOK => TypeOK
  <2> SUFFICES ASSUME LinkerInv, ForeignOK
               PROVE  TypeOK
    OBVIOUS
  <2>1. mapped \in [Fds -> Mapping \cup {NotMapped}]
    BY DEF LinkerInv, Shape, Mapping
  <2>2. ASSUME NEW fd \in Fds, mapped[fd] # NotMapped
        PROVE  mapped[fd].opens <= Cardinality(Handles)
    <3>1. mapped[fd].opens \in {0, 1}
      BY <2>2 DEF LinkerInv, Shape
    <3>2. CASE mapped[fd].opens = 1
      BY <2>2, <3>2, <1>3 DEF LinkerInv, Orphaned
    <3>3. CASE mapped[fd].opens = 0
      BY <3>3, FS_CardinalityType
    <3> QED
      BY <3>1, <3>2, <3>3
  <2> QED
    BY <2>1, <2>2 DEF LinkerInv, Shape, TypeOK
<1> QED
  BY <1>1, <1>2, <1>4, LinkerInvariance, PTL DEF Spec

----------------------------------------------------------------------------
(* The abstract specification.                                             *)

\* The variables of LoadedCode.
LoadedNow ==
    [h \in Handles |->
        IF ready[h] = NoHandle THEN {}
        ELSE {[wants |-> ready[h].wants, code |-> CodeAt(ready[h].fd)]}]
LeftNow == {mapped[fd].lib : fd \in {g \in Fds : Lingers(g)}}

\* What a function found when it was loaded.
Found(r) == IF r = NoHandle THEN {} ELSE {[wants |-> r.wants, code |-> r.runs]}

\* It is what the linker has under its name now.
CodeFound == LoadedNow = [k \in Handles |-> Found(ready[k])]

LEMMA CodeIsFound == LinkerInv => CodeFound
  BY DEF LinkerInv, Backed, LoadedNow, CodeFound, Found, CodeAt

\* One handle changes.
LEMMA FoundStep ==
    ASSUME LinkerInv, CodeFound, CodeFound',
           NEW h \in Handles, NEW r, ready' = [ready EXCEPT ![h] = r]
    PROVE  LoadedNow[h] = Found(ready[h]) /\ LoadedNow' = [LoadedNow EXCEPT ![h] = Found(r)]
<1>1. ready'[h] = r /\ \A k \in Handles : k # h => ready'[k] = ready[k]
  BY DEF LinkerInv, Shape
<1>2. LoadedNow' = [k \in Handles |-> Found(ready'[k])]
  BY DEF CodeFound
<1> QED
  BY <1>1, <1>2 DEF CodeFound

LEMMA LoadIsLoad ==
    ASSUME LinkerInv, CodeFound, CodeFound',
           NEW h \in Handles, NEW lib \in Libraries, Load(h, lib)
    PROVE  Code!Load(h, lib)
<1>1. PICK fd \in Fds :
        /\ Unused(fd)
        /\ mapped' = Dlopen(fd, lib)
        /\ SymbolOf[mapped'[fd].lib] = SymbolOf[lib]
        /\ ready' = [ready EXCEPT ![h] = [wants |-> lib, fd |-> fd, runs |-> mapped'[fd].lib]]
  BY DEF Load, LowestFd
<1>2. PICK code \in Libraries : code = mapped'[fd].lib
  BY <1>1, FreeNameOpens
<1>3. /\ LoadedNow[h] = {}
      /\ LoadedNow' = [LoadedNow EXCEPT ![h] = {[wants |-> lib, code |-> mapped'[fd].lib]}]
  <2> DEFINE r == [wants |-> lib, fd |-> fd, runs |-> code]
  <2>1. r # NoHandle
    BY RecordAssumption DEF FnReady
  <2>2. Found(r) = {[wants |-> lib, code |-> code]}
    BY <2>1 DEF Found
  <2>3. Found(ready[h]) = {}
    BY DEF Load, Found
  <2>4. ready' = [ready EXCEPT ![h] = r]
    BY <1>1, <1>2
  <2> HIDE DEF r
  <2> QED
    BY <1>2, <2>2, <2>3, <2>4, FoundStep
<1>4. /\ mapped'[fd].lib \in {lib} \cup LeftNow
      /\ LeftNow' = LeftNow
  <2>1. \A d \in Fds : d # fd => mapped'[d] = mapped[d]
    BY <1>1 DEF Dlopen, LinkerInv, Shape
  <2>2. CASE mapped[fd] = NotMapped
    <3>1. mapped'[fd] = [lib |-> lib, opens |-> 1, kept |-> FALSE]
      BY <1>1, <2>2 DEF Dlopen, LinkerInv, Shape
    <3>2. \A d \in Fds : Lingers(d)' <=> Lingers(d)
      BY <2>1, <2>2, <3>1 DEF Lingers
    <3>3. \A d \in Fds : Lingers(d) => mapped'[d] = mapped[d]
      BY <2>1, <2>2 DEF Lingers
    <3> QED
      BY <3>1, <3>2, <3>3 DEF LeftNow
  <2>3. CASE mapped[fd] # NotMapped
    <3>1. mapped[fd].kept
      BY <1>1, <2>3, FreeNameIdle
    <3>2. /\ mapped'[fd].lib = mapped[fd].lib /\ mapped'[fd].kept
          /\ mapped'[fd] # NotMapped
      <4>1. mapped[fd] \in [lib : Libraries, opens : {0, 1}, kept : BOOLEAN]
        BY <2>3 DEF LinkerInv, Shape
      <4>2. mapped'[fd] = [mapped[fd] EXCEPT !.opens = @ + 1]
        BY <1>1, <2>3 DEF Dlopen, LinkerInv, Shape
      <4>3. mapped[fd].opens + 1 \in Nat
        BY <4>1
      <4>4. mapped'[fd] \in Mapping
        BY <4>1, <4>2, <4>3 DEF Mapping
      <4> QED
        BY <3>1, <4>1, <4>2, <4>4, RecordAssumption
    <3>3. \A d \in Fds : Lingers(d)' <=> Lingers(d)
      BY <2>1, <2>3, <3>1, <3>2 DEF Lingers
    <3>4. \A d \in Fds : Lingers(d) => mapped'[d].lib = mapped[d].lib
      BY <2>1, <3>2
    <3>5. Lingers(fd)
      BY <2>3, <3>1 DEF Lingers
    <3> QED
      BY <3>2, <3>3, <3>4, <3>5 DEF LeftNow
  <2> QED
    BY <2>2, <2>3
<1> QED
  BY <1>1, <1>3, <1>4 DEF Code!Load, LoadedNow, LeftNow

LEMMA CloseIsClose ==
    ASSUME LinkerInv, CodeFound, CodeFound',
           NEW h \in Handles, Close(h)
    PROVE  Code!Close(h)
<1> DEFINE fd == ready[h].fd
<1>1. /\ ready[h] # NoHandle /\ fd \in Fds /\ ready[h] \in FnReady
      /\ mapped[fd] \in [lib : Libraries, opens : {0, 1}, kept : BOOLEAN]
      /\ mapped[fd].opens = 1 /\ mapped[fd].lib = ready[h].runs
  BY DEF Close, LinkerInv, Shape, Backed, FnReady
<1>2. /\ LoadedNow[h] # {} /\ mapped[fd].lib \in {entry.code : entry \in LoadedNow[h]}
      /\ LoadedNow' = [LoadedNow EXCEPT ![h] = {}]
  <2>1. ready' = [ready EXCEPT ![h] = NoHandle]
    BY DEF Close
  <2>2. /\ LoadedNow[h] = Found(ready[h])
        /\ LoadedNow' = [LoadedNow EXCEPT ![h] = Found(NoHandle)]
    BY <2>1, FoundStep
  <2>3. [wants |-> ready[h].wants, code |-> ready[h].runs].code = mapped[fd].lib
    BY <1>1
  <2> QED
    BY <1>1, <2>2, <2>3 DEF Found
<1>3. LeftNow' \subseteq LeftNow \cup {mapped[fd].lib}
  <2>1. \/ mapped' = [mapped EXCEPT ![fd] = NotMapped]
        \/ mapped' = [mapped EXCEPT ![fd].opens = 0, ![fd].kept = TRUE]
    BY <1>1 DEF Close, Dlclose
  <2>2. /\ \A d \in Fds : d # fd => mapped'[d] = mapped[d]
        /\ mapped'[fd] = NotMapped \/ mapped'[fd].lib = mapped[fd].lib
    BY <1>1, <2>1 DEF LinkerInv, Shape
  <2>3. ASSUME NEW d \in Fds, Lingers(d)'
        PROVE  mapped'[d].lib \in LeftNow \cup {mapped[fd].lib}
    BY <2>2, <2>3 DEF Lingers, LeftNow
  <2> QED
    BY <2>3 DEF LeftNow
<1> QED
  BY <1>2, <1>3 DEF Code!Close, LoadedNow, LeftNow

LEMMA LoadFailsIsUnmap ==
    ASSUME LinkerInv, CodeFound, CodeFound',
           NEW lib \in Libraries, LoadFails(lib)
    PROVE  Code!Unmap
<1>1. PICK fd \in Fds :
        /\ Unused(fd)
        /\ SymbolOf[Dlopen(fd, lib)[fd].lib] # SymbolOf[lib]
        /\ mapped' \in Dlclose(Dlopen(fd, lib), fd)
  BY DEF LoadFails, LowestFd
<1>2. PICK m \in [lib : Libraries, opens : {1}, kept : BOOLEAN] :
        /\ Dlopen(fd, lib) = [mapped EXCEPT ![fd] = m]
        /\ Dlopen(fd, lib)[fd] = m
        /\ mapped[fd] = NotMapped => m.lib = lib
  BY <1>1, FreeNameOpens
\* The name was known, to a library of another function.
<1>3. mapped[fd] # NotMapped /\ Lingers(fd) /\ m.lib = mapped[fd].lib
  <2>1. mapped[fd] # NotMapped
    BY <1>1, <1>2
  <2>2. Dlopen(fd, lib) = [mapped EXCEPT ![fd].opens = @ + 1]
    BY <2>1 DEF Dlopen
  <2>3. m = [mapped[fd] EXCEPT !.opens = @ + 1]
    BY <1>2, <2>2 DEF LinkerInv, Shape
  <2>4. mapped[fd] \in [lib : Libraries, opens : {0, 1}, kept : BOOLEAN]
    BY <2>1 DEF LinkerInv, Shape
  <2>5. m.lib = mapped[fd].lib
    BY <2>3, <2>4
  <2> QED
    BY <1>1, <2>1, <2>5, FreeNameIdle DEF Lingers
<1>4. /\ \A d \in Fds : d # fd => mapped'[d] = mapped[d]
      /\ mapped'[fd] = NotMapped \/ mapped'[fd].lib = m.lib
  BY <1>1, <1>2 DEF Dlclose, LinkerInv, Shape
<1>5. ASSUME NEW d \in Fds, Lingers(d)'
      PROVE  mapped'[d].lib \in LeftNow
  BY <1>3, <1>4, <1>5 DEF Lingers, LeftNow
<1>6. LeftNow' \subseteq LeftNow
  BY <1>5 DEF LeftNow
<1>7. LoadedNow' = LoadedNow
  BY DEF LoadFails, CodeFound
<1> QED
  BY <1>6, <1>7 DEF Code!Unmap, LoadedNow, LeftNow

\* DlLoader implements LoadedCode: what a function enters is the code of its bytes,
\* or of a library of that function which dlclose() left, and stays until close().
THEOREM LoaderImplementsCode == Spec => ImplementsLoadedCode
<1>1. Init => Code!Init
  BY DEF Init, Code!Init, Lingers
<1>2. LinkerInv /\ CodeFound /\ CodeFound' /\ [Next]_vars => [Code!Next]_<<LoadedNow, LeftNow>>
  <2> SUFFICES ASSUME LinkerInv, CodeFound, CodeFound', [Next]_vars
               PROVE  Code!Next \/ UNCHANGED <<LoadedNow, LeftNow>>
    OBVIOUS
  <2>1. CASE OpenOther \/ CloseOther \/ UNCHANGED vars
    BY <2>1 DEF OpenOther, CloseOther, vars, LoadedNow, LeftNow, CodeAt, Lingers
  <2>2. ASSUME NEW h \in Handles, Close(h) PROVE Code!Next
    BY <2>2, CloseIsClose DEF Code!Next
  <2>3. ASSUME NEW h \in Handles, NEW lib \in Libraries, Load(h, lib) PROVE Code!Next
    BY <2>3, LoadIsLoad DEF Code!Next
  <2>4. ASSUME NEW lib \in Libraries, LoadFails(lib) PROVE Code!Next
    BY <2>4, LoadFailsIsUnmap DEF Code!Next
  <2> QED
    BY <2>1, <2>2, <2>3, <2>4 DEF Next
<1> QED
  BY <1>1, <1>2, CodeIsFound, LinkerInvariance, PTL
  DEF Spec, ImplementsLoadedCode, Code!Spec, LoadedNow, LeftNow

\* What lingers is of a function that was never replaced: there is no other library of it.
OnlySoleVersionsLinger ==
    \A fd \in Fds : Lingers(fd) =>
        \A lib \in Libraries : SymbolOf[lib] = SymbolOf[mapped[fd].lib] => lib = mapped[fd].lib

\* Where only such libraries outlive a dlclose(), no function ever runs old bytes.
THEOREM OldBytesNeedALeftover == Spec /\ []OnlySoleVersionsLinger => []NeverRunsOldBytes
<1>1. LinkerInv /\ OnlySoleVersionsLinger => NeverRunsOldBytes
  BY DEF LinkerInv, Shape, Backed, RunsItsBytes, OnlySoleVersionsLinger, NeverRunsOldBytes,
     Lingers, FnReady
<1> QED
  BY <1>1, LinkerInvariance, PTL
============================================================================
