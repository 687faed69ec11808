\* Two sessions compile different functions in one work_dir, for changing targets,
\* with a crash, cargo processes that outlive it and transaction ids used again.
SPECIFICATION Spec
CONSTANTS
    s1 = s1  s2 = s2  f1 = f1  f2 = f2  other = other  a = a
    host = host  cross = cross  unsafe_code = unsafe_code  v1 = v1  v2 = v2
    Sessions = {s1, s2}
    Fns = {f1, f2}
    Symbols = {f1, f2, other}
    Srcs = {a}
    Entries <- ForeignEntry
    Configs <- HostAndCross
    Host = host
    Targets = {host, cross}
    LintSets <- SetsOfLints
    Versions = {v1, v2}
    MaxGen = 2
    MaxCrashes = 1
    NoRow = NoRow  Raw = Raw  NoJob = NoJob  Unread = Unread  Nobody = Nobody
SYMMETRY Symmetry
INVARIANTS TypeOK CommittedCratesRemoved NoCommandIsDoomed
PROPERTIES PublishesWhatWasAsked PublishesFaithfulLibraries CommandsAdvance
CHECK_DEADLOCK FALSE
