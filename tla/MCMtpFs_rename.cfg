CONSTANTS
    Dirs = {d, e}
    Names = {f, g}
    Vers = {v}
    Empty = Empty
    Torn = Torn
    None = None
    FDs = {x}
    MaxLen = 1
    MaxPayload = 1
    MaxHandle = 2
    MaxCount = 2
    MaxMounts = 1
    Faults = {"send", "announce", "cut", "write"}
    SharedWriters = FALSE
    Renames <- PlainRenames
    RenameOpen = FALSE
    CanMove = TRUE
    CanRename = TRUE
SPECIFICATION Spec
SYMMETRY Symmetry
INVARIANTS RenameTellsTruth SpoolsAreOwned
PROPERTY OldCopyOutlives
CHECK_DEADLOCK FALSE
