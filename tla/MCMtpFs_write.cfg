CONSTANTS
    Dirs = {d}
    Names = {f}
    Vers = {v}
    Empty = Empty
    Torn = Torn
    None = None
    FDs = {x, y}
    MaxLen = 2
    MaxPayload = 1
    MaxHandle = 2
    MaxCount = 3
    MaxMounts = 2
    Faults = {"list", "copy", "rename", "announce", "send", "cut", "write", "spool", "setlen"}
    SharedWriters = FALSE
    Renames <- PlainRenames
    RenameOpen = FALSE
    CanMove = TRUE
    CanRename = TRUE
SPECIFICATION Spec
SYMMETRY Symmetry
INVARIANTS TypeOK OwedIsKept TornNeverSent FlushTellsTruth WriterHasSpool
PROPERTY OldCopyOutlives
CHECK_DEADLOCK FALSE
