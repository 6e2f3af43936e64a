\* Two cellphones of one model that join, are cut off in the middle of an attach, join
\* again under either node name, and leave.
CONSTANTS
    Phones = {p1, p2}
    Nodes = {n1, n2}
    Helpers = {h1, h2}
    MaxFolder = 2
    MountWait = 1
    MaxJoins = 4
    Faults = {"charge", "nomount", "leave", "expire", "eject"}
    None = None
SPECIFICATION Spec
INVARIANTS TypeOK OneMountEach StateNamesOwn DeadGoes
PROPERTIES LiveStays HelpersEnd
CHECK_DEADLOCK FALSE
