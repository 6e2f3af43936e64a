\* Two bytes, a packet of two and a read ahead of one: a read can be cut in two by
\* the cache, by the split of the last read and by a short answer. Three objects can
\* have one handle one after the other.
CONSTANTS
    Handles = {a, b}
    MaxSize = 2
    MaxWant = 3
    ReadAhead = 1
    Packet = 2
    MaxVersion = 2
    Offsets = 1
    Faults = {"short", "fail", "lost"}
SPECIFICATION Spec
INVARIANTS TypeOK CacheIsRight
PROPERTIES ImplementsFileReads ReadsEnd
CHECK_DEADLOCK FALSE
