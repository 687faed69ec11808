\* A library that stays mapped keeps its name, and its descriptor is used again.
SPECIFICATION Spec
CONSTANTS
    h1 = h1  h2 = h2  h3 = h3  old = old  new = new  other = other
    Handles = {h1, h2, h3}
    Libraries = {old, new, other}
    SymbolOf <- Wrappers
    MaxFd = 4
    NoHandle = NoHandle  NoFile = NoFile  NotMapped = NotMapped
SYMMETRY Symmetry
INVARIANT NeverRunsOldBytes
