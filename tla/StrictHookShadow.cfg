\* A function of the same name appears earlier in search_path.
SPECIFICATION Spec
CONSTANTS
    s1 = s1  s2 = s2
    Sessions = {s1, s2}
    NumFns = 2
    MaxInstalls = 1
    HookMayAlter = TRUE
    InstallAnytime = FALSE
    NoFn = NoFn  None = None
SYMMETRY Symmetry
INVARIANT StrictMatchesBuild
