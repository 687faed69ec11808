\* Two functions, the extension installed and dropped at any time but during an ALTER,
\* other hooks rewrite statements.
SPECIFICATION QuietSpec
CONSTANTS
    s1 = s1  s2 = s2
    Sessions = {s1, s2}
    NumFns = 2
    MaxInstalls = 2
    HookMayAlter = TRUE
    InstallAnytime = TRUE
    NoFn = NoFn  None = None
SYMMETRY Symmetry
INVARIANTS TypeOK StrictMatchesBuild
PROPERTY OnlyPlrustRefused
