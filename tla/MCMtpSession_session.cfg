\* Two programs, one after the other: one fault of any kind, and any number of late answers.
CONSTANTS
    Attempts = 2
    StorageTries = 2
    MaxUses = 1
    MaxPrograms = 2
    MaxFaults = 1
    Faults = {"late", "lost", "write", "short", "crash"}
SPECIFICATION Spec
INVARIANTS TypeOK Paired OpensAfterAnyone EndedIsClosed
PROPERTY CallsEnd
CHECK_DEADLOCK FALSE
