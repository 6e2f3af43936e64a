\* Packets below and above the header, chunks and buffers that are and are not whole
\* packets, payloads across several chunks and past the largest length, and answers
\* across several reads and past the largest length the host takes.
CONSTANTS
    HeaderLen = 3
    Usb2Packet = 4
    Packets = {0, 1, 2, 4, 5, 8}
    Chunks = {0, 3, 4, 7, 8, 9, 16}
    MaxSize = 40
    Wrap = 41
    Buffers = {0, 5, 7, 8, 12, 15, 16}
    MinBuffer = 4
    MaxAnswer = 25
    MaxData = 24
    Spare = 4
SPECIFICATION Spec
INVARIANTS TypeOK EndsOnlyWhole EndIsSeen RoundsSuffice AnswerIsWhole WholeIsTaken DrainEmpties
CHECK_DEADLOCK FALSE
