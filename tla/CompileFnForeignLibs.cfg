\* A restored prosrc keeps libraries of other targets.
SPECIFICATION Spec
CONSTANTS
    s1 = s1  s2 = s2  f1 = f1  f2 = f2  other = other  a = a
    host = host  cross = cross  unsafe_code = unsafe_code  v1 = v1  v2 = v2
    Sessions = {s1}
    Fns = {f1}
    Symbols = {f1, other}
    Srcs = {a}
    Entries = {}
    Configs <- ChangingTargets
    Host = host
    Targets = {host, cross}
    LintSets <- SetsOfLints
    Versions = {v1, v2}
    MaxGen = 3
    MaxCrashes = 0
    NoRow = NoRow  Raw = Raw  NoJob = NoJob  Unread = Unread  Nobody = Nobody
PROPERTY OnlyOwnLibraries
CHECK_DEADLOCK FALSE
