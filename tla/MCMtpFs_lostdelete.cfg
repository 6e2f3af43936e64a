CONSTANTS
    Dirs = {d}
    Names = {f}
    Vers = {v}
    Empty = Empty
    Torn = Torn
    None = None
    FDs = {x, y}
    MaxLen = 2
    MaxPayload = 1
    MaxHandle = 2
    MaxCount = 3
    MaxMounts = 2
    Faults = {"delete"}
    SharedWriters = FALSE
    Renames <- PlainRenames
    RenameOpen = FALSE
    CanMove = TRUE
    CanRename = TRUE
SPECIFICATION Spec
SYMMETRY Symmetry
CHECK_DEADLOCK FALSE
INVARIANT OwedIsKept
