\* Two sessions, one function, nested calls, no savepoints.
SPECIFICATION Spec
CONSTANTS
    s1 = s1  s2 = s2  f1 = f1  a = a  b = b
    l1 = l1  l2 = l2  unsafe_code = unsafe_code  leaky = leaky
    Sessions = {s1, s2}
    Fns = {f1}
    SetReturning = {}
    Codes = {a, b}
    CompileLints <- NoLints
    RequiredLints <- NoLints
    Targets = {1}
    DlcloseMayFail = FALSE
    Libs = {l1, l2}
    MaxXid = 3
    MaxCid = 2
    MaxLevel = 1
    MaxDepth = 2
    Gone = Gone  Unwritten = Unwritten  Closed = Closed  NoLib = NoLib
SYMMETRY Symmetry
INVARIANTS NothingLeaks UncommittedIsPrivate
PROPERTIES CallsRunVisibleVersion ImplementsFnCalls
