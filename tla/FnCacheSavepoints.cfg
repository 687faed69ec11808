\* One session, savepoints around and inside calls, cursors over a set-returning
\* function, a lint setting that changes, failing dlclose().  Versions differ in the
\* lints they were compiled with.
SPECIFICATION Spec
CONSTANTS
    s1 = s1  s2 = s2  f1 = f1  a = a  b = b
    l1 = l1  l2 = l2  unsafe_code = unsafe_code  leaky = leaky
    Sessions = {s1}
    Fns = {f1}
    SetReturning = {f1}
    Codes = {a}
    CompileLints <- WithOrWithoutUnsafe
    RequiredLints <- UpToLeaky
    Targets = {1}
    DlcloseMayFail = TRUE
    Libs = {l1, l2}
    MaxXid = 3
    MaxCid = 2
    MaxLevel = 2
    MaxDepth = 2
    Gone = Gone  Unwritten = Unwritten  Closed = Closed  NoLib = NoLib
SYMMETRY LibSymmetry
INVARIANTS TypeOK SameGenerationSameCode CountsHolders HeldLibrariesMapped
PROPERTIES OnlyNewLintsOutdateCode OnlyRedefinitionStrands
