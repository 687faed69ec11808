\* Two backends, edits of the list, releases between two builds, restarts.
SPECIFICATION Spec
CONSTANTS
    s1 = s1  s2 = s2  f1 = f1  host = host  cross = cross
    pgx = pgx  owo = owo  tokio = tokio
    Sessions = {s1, s2}
    Fns = {f1}
    BuildOrder <- HostAndCross
    Names = {pgx, owo, tokio}
    Versions = {1, 2}
    Template <- PgxOnly
    Manifests <- Written
    Watched <- SomeOwo
    MaxEvents = 2
    Releases <- Moving
    Lists <- Edited
    Unreadable = Unreadable  Unforced = Unforced  Poisoned = Poisoned
    NotString = NotString  BadReq = BadReq  Malformed = Malformed
    NoJob = NoJob  NoRow = NoRow
SYMMETRY Symmetry
INVARIANTS TypeOK TargetsAgree BuiltAsRequired OneVerdictPerBackend
PROPERTIES AdmittedByAList
