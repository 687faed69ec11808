\* A cached function outlives a change of plrust.required_lints.
SPECIFICATION Spec
CONSTANTS
    s1 = s1  s2 = s2  f1 = f1  a = a  b = b
    l1 = l1  l2 = l2  unsafe_code = unsafe_code  leaky = leaky
    Sessions = {s1}
    Fns = {f1}
    SetReturning = {}
    Codes = {a}
    CompileLints <- WithOrWithoutUnsafe
    RequiredLints <- WithOrWithoutUnsafe
    Targets = {1}
    DlcloseMayFail = FALSE
    Libs = {l1, l2}
    MaxXid = 3
    MaxCid = 3
    MaxLevel = 1
    MaxDepth = 2
    Gone = Gone  Unwritten = Unwritten  Closed = Closed  NoLib = NoLib
SYMMETRY Symmetry
INVARIANTS RunningCodeHasRequiredLints
