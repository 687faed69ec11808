------------------------------ MODULE DlLoader -----------------------------
(***************************************************************************)
(* How one backend maps the bytes of a shared object (FnReady in           *)
(* user_crate/ready.rs, on Linux).                                         *)
(*                                                                         *)
(* FnReady::load writes the bytes to a memfd and dlopen()s                 *)
(* /proc/self/fd/<fd>.  The dynamic linker keeps a list of what it has     *)
(* mapped, by that name, and hands out what is already there when it is    *)
(* asked for a name again; file descriptors are reused, lowest first.  So  *)
(* FnReady keeps the memfd open as long as the library.                    *)
(*                                                                         *)
(* FnCache has handles that work; this module is about what makes them     *)
(* work.  The linker and the descriptors are modelled from how ready.rs    *)
(* uses them.                                                              *)
(***************************************************************************)
EXTENDS Integers, FiniteSets

CONSTANTS
    Handles,     \* FnReady values
    Libraries,   \* shared objects, by their bytes
    SymbolOf,    \* the function whose wrapper a shared object exports
    MaxFd,       \* bound on file descriptors
    NoHandle,    \* an unused FnReady
    NoFile,      \* a closed descriptor
    NotMapped    \* a name the linker does not know

Symbols == {SymbolOf[lib] : lib \in Libraries}

Fds == 1..MaxFd

ASSUME DlLoaderAssumption ==
    /\ SymbolOf \in [Libraries -> Symbols]
    /\ MaxFd \in Nat
    /\ NoFile \notin Libraries

VARIABLES
    files,     \* descriptor -> the bytes of the memfd behind it
    foreign,   \* descriptors the rest of the backend has open
    mapped,    \* the linker's list: fd in "/proc/self/fd/<fd>" -> mapping
    ready      \* FnReady values

vars == <<files, foreign, mapped, ready>>

FnReady == [wants : Libraries, fd : Fds, runs : Libraries]
\* kept: dlclose() has once left the library where it was.
Mapping == [lib : Libraries, opens : Nat, kept : BOOLEAN]

ASSUME RecordAssumption == NoHandle \notin FnReady /\ NotMapped \notin Mapping

Unused(fd) == files[fd] = NoFile /\ fd \notin foreign

\* memfd_create, and every open(), takes the lowest free descriptor.
LowestFd(fd) == Unused(fd) /\ \A other \in Fds : Unused(other) => fd <= other

----------------------------------------------------------------------------
\* The backend opens and closes files of its own.
OpenOther ==
    /\ \E fd \in Fds : LowestFd(fd) /\ foreign' = foreign \cup {fd}
    /\ UNCHANGED <<files, mapped, ready>>

CloseOther ==
    /\ \E fd \in foreign : foreign' = foreign \ {fd}
    /\ UNCHANGED <<files, mapped, ready>>

\* dlopen("/proc/self/fd/<fd>"): the mapping of that name, or a new one.
Dlopen(fd, lib) ==
    IF mapped[fd] = NotMapped
    THEN [mapped EXCEPT ![fd] = [lib |-> lib, opens |-> 1, kept |-> FALSE]]
    ELSE [mapped EXCEPT ![fd].opens = @ + 1]

\* The mappings dlclose() may leave: the last one unmaps the library, unless
\* the call fails or the library must stay, say for its thread-local destructors.
\* A library that stays keeps its name.
Dlclose(maps, fd) ==
    IF maps[fd].opens > 1 THEN {[maps EXCEPT ![fd].opens = @ - 1]}
    ELSE {[maps EXCEPT ![fd] = NotMapped],
          [maps EXCEPT ![fd].opens = 0, ![fd].kept = TRUE]}

\* Mutant: the memfd is dropped as soon as the library is open.
LoadDropsFile(h, lib) ==
    /\ ready[h] = NoHandle
    /\ \E fd \in Fds :
          /\ LowestFd(fd)
          /\ mapped' = Dlopen(fd, lib)
          /\ SymbolOf[mapped'[fd].lib] = SymbolOf[lib]
          /\ ready' = [ready EXCEPT ![h] = [wants |-> lib, fd |-> fd, runs |-> mapped'[fd].lib]]
    /\ UNCHANGED <<files, foreign>>

\* FnReady::load: the wrapper is found by name in what the linker answered.
Load(h, lib) ==
    /\ ready[h] = NoHandle
    /\ \E fd \in Fds :
          /\ LowestFd(fd)
          /\ files' = [files EXCEPT ![fd] = lib]
          /\ mapped' = Dlopen(fd, lib)
          /\ SymbolOf[mapped'[fd].lib] = SymbolOf[lib]
          /\ ready' = [ready EXCEPT ![h] = [wants |-> lib, fd |-> fd, runs |-> mapped'[fd].lib]]
    /\ UNCHANGED foreign

\* The linker's answer lacks the wrapper: the library is dlclose()d, then the
\* memfd closed.
LoadFails(lib) ==
    /\ \E fd \in Fds :
          /\ LowestFd(fd)
          /\ SymbolOf[Dlopen(fd, lib)[fd].lib] # SymbolOf[lib]
          /\ mapped' \in Dlclose(Dlopen(fd, lib), fd)
    /\ UNCHANGED <<files, foreign, ready>>

\* Mutant: the memfd goes and the library is never dlclose()d.
CloseForgets(h) ==
    /\ ready[h] # NoHandle
    /\ files' = [files EXCEPT ![ready[h].fd] = NoFile]
    /\ ready' = [ready EXCEPT ![h] = NoHandle]
    /\ UNCHANGED <<foreign, mapped>>

\* close(), or the last Rc dropped: dlclose() first, then the memfd, also when
\* dlclose() failed.
Close(h) ==
    /\ ready[h] # NoHandle
    /\ mapped' \in Dlclose(mapped, ready[h].fd)
    /\ files' = [files EXCEPT ![ready[h].fd] = NoFile]
    /\ ready' = [ready EXCEPT ![h] = NoHandle]
    /\ UNCHANGED foreign

----------------------------------------------------------------------------
Init ==
    /\ files = [fd \in Fds |-> NoFile]
    /\ foreign = {}
    /\ mapped = [fd \in Fds |-> NotMapped]
    /\ ready = [h \in Handles |-> NoHandle]

Next ==
    \/ OpenOther \/ CloseOther
    \/ \E h \in Handles : Close(h) \/ \E lib \in Libraries : Load(h, lib)
    \/ \E lib \in Libraries : LoadFails(lib)

Spec == Init /\ [][Next]_vars

----------------------------------------------------------------------------
(* Properties.                                                             *)

\* Every variable keeps its shape.
TypeOK ==
    /\ files \in [Fds -> Libraries \cup {NoFile}]
    /\ foreign \subseteq Fds
    /\ mapped \in [Fds -> Mapping \cup {NotMapped}]
    /\ \A fd \in Fds : mapped[fd] # NotMapped => mapped[fd].opens <= Cardinality(Handles)
    /\ ready \in [Handles -> FnReady \cup {NoHandle}]

\* The library behind a descriptor outlived a dlclose().
Lingers(fd) == mapped[fd] # NotMapped /\ mapped[fd].kept

\* A loaded function runs the bytes it was loaded from, whatever was loaded and
\* closed before, in any order, and whatever descriptors came free: that is what
\* the memfd is kept open for (ready.rs:81-83).  Only a library that dlclose()
\* left mapped can come in between.
RunsItsBytes ==
    \A h \in Handles : ready[h] # NoHandle =>
        ready[h].runs = ready[h].wants \/ Lingers(ready[h].fd)

\* The same without the exception, as ready.rs:81-83 has it: the memfd is kept
\* because otherwise "Linux might re-use its filedescriptor and dlopen() won't
\* open the new library behind it".
NeverRunsOldBytes ==
    \A h \in Handles : ready[h] # NoHandle => ready[h].runs = ready[h].wants

\* No two loaded functions share a mapping, so that closing one cannot close the
\* other, and none has lost its own.
MappingsAreOwn ==
    /\ \A h \in Handles : ready[h] # NoHandle =>
          /\ mapped[ready[h].fd] # NotMapped
          /\ mapped[ready[h].fd].opens > 0
    /\ \A h, k \in Handles :
          (h # k /\ ready[h] # NoHandle /\ ready[k] # NoHandle)
              => ready[h].fd # ready[k].fd

\* The linker's list holds the libraries of loaded functions, those that
\* dlclose() left mapped, and nothing else.
NothingStaysMapped ==
    \A fd \in Fds : mapped[fd] # NotMapped =>
        \/ Lingers(fd)
        \/ \E h \in Handles : ready[h] # NoHandle /\ ready[h].fd = fd

\* The code behind a name: none, should its library be unmapped.
CodeAt(fd) == IF mapped[fd] = NotMapped THEN NotMapped ELSE mapped[fd].lib

Code == INSTANCE LoadedCode WITH
    loaded <- [h \in Handles |->
        IF ready[h] = NoHandle THEN {}
        ELSE {[wants |-> ready[h].wants, code |-> CodeAt(ready[h].fd)]}],
    left <- {mapped[fd].lib : fd \in {g \in Fds : Lingers(g)}}

\* DlLoader implements LoadedCode: the code a function enters is there and the same
\* from FnReady::load to close(), over reused descriptors and names, other loads and
\* closes, failed loads and libraries that stay; and it is that of its bytes, or of
\* a library of the same function that an earlier dlclose() left.
ImplementsLoadedCode == Code!Spec
============================================================================
