CONSTANTS
    Phones = {p1, p2}
    MaxAddr = 2
    MaxPlugs = 3
    FindAttempts = 2
    LeaveAttempts = 2
    Cycles = 2
    Faults = {"backend", "transfer", "session", "refuse", "root"}
SPECIFICATION Spec
INVARIANTS PointersLive MissIsRight
PROPERTY CommandsEnd
