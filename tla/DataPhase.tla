----------------------------- MODULE DataPhase -----------------------------
(***************************************************************************)
(* The data phases of one operation, in crates/mtp-session/src/lib.rs:     *)
(* operation_sending with Config::normalised and needs_zero_packet,        *)
(* read_answer, and drain; container_length of crates/ptp-proto.           *)
(*                                                                         *)
(* Sending: the host writes a header and a payload in chunks.  The         *)
(* cellphone sees packets: a write that is no whole number of packets ends *)
(* with a short one, and a short or empty packet is the end of the data    *)
(* phase.  Answering: the cellphone puts packets into the endpoint; a read *)
(* of the host joins them until its buffer is full or a packet is short.   *)
(* Bytes are counted, not told apart.                                      *)
(***************************************************************************)
EXTENDS Naturals, Sequences

CONSTANTS
    HeaderLen,  \* HEADER_LEN
    Usb2Packet, \* USB2_PACKET, for a device that reports no packet size
    Packets,    \* the packet sizes a device reports
    Chunks,     \* the chunk sizes a user asks for
    MaxSize,    \* bound: the size of a payload
    Wrap,       \* the count of values of the length field, 2^32
    Buffers,    \* the read buffers a user asks for
    MinBuffer,  \* READ_BUFFER_MIN
    MaxAnswer,  \* bound: the length of a data container the cellphone sends
    MaxData,    \* MAX_DATA_BYTES
    Spare       \* the reads that read_answer allows beyond the length (16)

ASSUME SizesAssumption ==
    /\ HeaderLen \in Nat \ {0} /\ Usb2Packet \in Nat \ {0} /\ Packets \subseteq Nat /\ Chunks \subseteq Nat
    /\ MaxSize \in Nat /\ Wrap \in Nat /\ HeaderLen < Wrap
    /\ Buffers \subseteq Nat /\ MinBuffer \in Nat /\ HeaderLen < MinBuffer
    /\ MaxAnswer \in Nat /\ MaxData \in Nat /\ MaxData % MinBuffer = 0 /\ Spare \in Nat \ {0}

VARIABLES
    packet,  \* Config.packet
    chunk,   \* Config.write_chunk
    buffer,  \* Config.read_buffer
    sends,   \* the operation sends a payload
    size,    \* the size the caller promises
    avail,   \* the bytes the reader gives
    pc,      \* the next step of the host
    sent,    \* payload bytes written
    round,   \* turns of the loop that runs
    got,     \* the cellphone: bytes of the data phase, the header too
    ended,   \* the cellphone: it saw the end of the data phase
    late,    \* the cellphone: it got something after the end
    line,    \* the endpoint: the packets the host has not read
    length,  \* the length field of the data container the cellphone sent
    have,    \* bytes of the data container the host has joined
    given,   \* history: bytes of the data container the cellphone sent
    whole,   \* history: the cellphone sent the whole answer
    exact    \* history: it sent a transfer of a whole number of read buffers

config == <<packet, chunk, buffer, sends, size, avail>>
cellphone == <<got, ended, late>>
answer == <<line, length, have, given, whole, exact>>
vars == <<packet, chunk, buffer, sends, size, avail, pc, sent, round, got, ended, late,
          line, length, have, given, whole, exact>>

Least(a, b) == IF a <= b THEN a ELSE b
Greatest(a, b) == IF a >= b THEN a ELSE b

\* The smallest multiple of p that is not below n (usize::next_multiple_of).
NextMultiple(n, p) == ((n + p - 1) \div p) * p

\* Config::normalised.
NormalPacket(p) == IF p = 0 THEN Usb2Packet ELSE p
MutNormalChunk(c, p) == Greatest(c, NextMultiple(HeaderLen + 1, p))
MutLeastChunk(c, p) == c - (c % p)
NormalChunk(c, p) ==
    LET least == Greatest(c, NextMultiple(HeaderLen + 1, p)) IN least - (least % p)
NormalBuffer(n) == Greatest(n, MinBuffer)

\* container_length: MAX_PAYLOAD_LEN leaves room for the header.
TooLarge(n) == n > Wrap - 1 - HeaderLen
\* The length field of the data container, at its width.
Declared == (HeaderLen + size) % Wrap

MutNeedsZeroPacket(n) == size % packet = 0
NeedsZeroPacket(n) == packet # 0 /\ n % packet = 0

\* The bound of the loop.
MutRounds == size \div chunk
Rounds == size \div chunk + 4

\* The payload of one write that has room for so many bytes.
Part(room) == Least(room, size - sent)

\* One write reaches the cellphone.
Take(n) ==
    /\ got' = got + n
    /\ ended' = (ended \/ n = 0 \/ n % packet # 0)
    /\ late' = (late \/ ended)

-----------------------------------------------------------------------------

\* The checks before the command, and the command.
Command ==
    /\ pc = "command"
    /\ pc' = IF ~sends THEN "answer" ELSE IF TooLarge(size) THEN "refused" ELSE "first"
    /\ UNCHANGED <<config, sent, round, cellphone, answer>>

\* The reader gives part of the payload, and the write takes it.
WritePart(n, header) ==
    IF sent + n > avail
    THEN pc' = "short" /\ UNCHANGED <<sent, cellphone>>
    ELSE pc' = "loop" /\ sent' = sent + n /\ Take(header + n)

First ==
    /\ pc = "first"
    /\ WritePart(Part(chunk - HeaderLen), HeaderLen)
    /\ UNCHANGED <<config, round, answer>>

Loop ==
    /\ pc = "loop" /\ sent < size /\ round < Rounds
    /\ WritePart(Part(chunk), 0)
    /\ round' = round + 1
    /\ UNCHANGED <<config, answer>>

\* The loop is over: everything is sent, or its bound was too small.
Finish ==
    /\ pc = "loop" /\ (sent >= size \/ round >= Rounds)
    /\ IF sent < size THEN pc' = "stuck" /\ UNCHANGED cellphone
       ELSE /\ pc' = "answer"
            /\ IF NeedsZeroPacket(Declared) THEN Take(0) ELSE UNCHANGED cellphone
    /\ round' = 0
    /\ UNCHANGED <<config, sent, answer>>

\* A write fails, and the caller gets the error.
WriteFails ==
    /\ pc \in {"command", "first", "loop"}
    /\ pc' = "failed"
    /\ UNCHANGED <<config, sent, round, cellphone, answer>>

-----------------------------------------------------------------------------
(* The answer.                                                             *)

\* What the cellphone puts into the endpoint for n bytes of one container: full
\* packets and a short one, which is empty when the bytes fill their packets.
Transfer(n, of) ==
    [i \in 1..(n \div packet + 1) |->
        [n |-> IF i <= n \div packet THEN packet ELSE n % packet, of |-> of]]

\* The cellphone answers with a response alone, or with a data container before
\* it. The container can hold fewer bytes than it declares, and more; its
\* header can come in a transfer of its own, and the response can fail to come.
CellphoneAnswers ==
    /\ pc = "answer"
    /\ pc' = "read"
    /\ \/ /\ line' = Transfer(HeaderLen, "response") /\ whole' = TRUE
          /\ UNCHANGED <<length, given, exact>>
       \/ /\ ~sends
          /\ \E n, some \in HeaderLen..MaxAnswer, split, response \in BOOLEAN :
              /\ length' = n /\ given' = some
              /\ line' = (IF split THEN Transfer(HeaderLen, "data") \o Transfer(some - HeaderLen, "data")
                         ELSE Transfer(some, "data"))
                        \o (IF response THEN Transfer(HeaderLen, "response") ELSE <<>>)
              /\ whole' = (some = n /\ response /\ (split => n > HeaderLen /\ HeaderLen % packet # 0))
              /\ exact' = ((IF split THEN some - HeaderLen ELSE some) % buffer = 0)
    /\ UNCHANGED <<config, sent, round, cellphone, have>>

\* One read. It ends with the first short packet or when the buffer is full.
Short == {i \in 1..Len(line) : line[i].n < packet}
FirstShort == CHOOSE i \in Short : \A j \in Short : i <= j
Fits == buffer \div packet
ReadOnce ==
    IF Short # {} /\ FirstShort <= Fits
        THEN [ok |-> TRUE, packets |-> FirstShort, n |-> (FirstShort - 1) * packet + line[FirstShort].n]
    ELSE IF Short # {} /\ FirstShort = Fits + 1 /\ buffer % packet # 0 /\ line[FirstShort].n <= buffer % packet
        THEN [ok |-> TRUE, packets |-> FirstShort, n |-> Fits * packet + line[FirstShort].n]
    ELSE IF buffer % packet = 0 /\ Fits <= Len(line)
        THEN [ok |-> TRUE, packets |-> Fits, n |-> buffer]
    ELSE [ok |-> FALSE, packets |-> Least(Fits + 1, Len(line)), n |-> 0]

\* The read takes its packets out of the endpoint.
Took(r) == line' = SubSeq(line, r.packets + 1, Len(line))

\* The first container, by its header.
ReadFirst ==
    LET r == ReadOnce IN
    /\ pc = "read"
    /\ Took(r)
    /\ IF ~r.ok \/ r.n < HeaderLen THEN pc' = "failed" /\ UNCHANGED have
       ELSE IF line[1].of = "response" THEN pc' = "done" /\ UNCHANGED have
       ELSE IF length > MaxData THEN pc' = "failed" /\ UNCHANGED have
       ELSE pc' = "join" /\ have' = r.n
    /\ UNCHANGED <<config, sent, round, cellphone, length, given, whole, exact>>

\* The bound of the loop of reads, and its end.
MaxReadRounds == MaxData \div MinBuffer
AnswerRounds == Least(length \div buffer + Spare, MaxReadRounds)
MutComplete == TRUE
MutPastEnd == have > length
Complete == have >= length

\* The next part of the data container. An empty read ends the loop.
ReadMore ==
    LET r == ReadOnce IN
    /\ pc = "join" /\ ~Complete /\ round < AnswerRounds
    /\ Took(r)
    /\ pc' = IF ~r.ok THEN "failed" ELSE IF r.n = 0 THEN "check" ELSE "join"
    /\ have' = have + r.n /\ round' = round + 1
    /\ UNCHANGED <<config, sent, cellphone, length, given, whole, exact>>

\* The loop is over. An incomplete container is a fault; the response follows
\* a complete one.
ReadResponse ==
    LET r == ReadOnce IN
    /\ pc = "check" \/ (pc = "join" /\ (Complete \/ round >= AnswerRounds))
    /\ IF ~Complete
       THEN pc' = (IF pc = "join" THEN "stuck" ELSE "failed") /\ UNCHANGED line
       ELSE /\ Took(r)
            /\ pc' = IF r.ok /\ r.n >= HeaderLen /\ line[1].of = "response" THEN "done" ELSE "failed"
    /\ UNCHANGED <<config, sent, round, cellphone, length, have, given, whole, exact>>

\* The program ends here, or drops its session; the next one drains.
Drop ==
    /\ pc \in {"read", "join", "check", "failed", "done"}
    /\ pc' = "drain" /\ round' = 0
    /\ UNCHANGED <<config, sent, cellphone, answer>>

\* One read of drain, which stops at an empty read and at a fault.
MutKeepsDraining(r) == r.ok /\ r.n = buffer
KeepsDraining(r) == r.ok /\ r.n > 0

Drain ==
    LET r == ReadOnce IN
    /\ pc = "drain" /\ round < MaxReadRounds
    /\ Took(r)
    /\ pc' = IF KeepsDraining(r) THEN "drain" ELSE "drained"
    /\ round' = round + 1
    /\ UNCHANGED <<config, sent, cellphone, length, have, given, whole, exact>>

\* drain also stops at its limit of reads.
DrainEnds ==
    /\ pc = "drain" /\ round >= MaxReadRounds
    /\ pc' = "drained"
    /\ UNCHANGED <<config, sent, round, cellphone, answer>>

Init ==
    /\ \E p \in Packets : packet = NormalPacket(p)
    /\ \/ /\ sends = TRUE
          /\ \E c \in Chunks : chunk = NormalChunk(c, packet)
          /\ buffer = NormalBuffer(NextMultiple(MinBuffer, packet))
          /\ size \in 0..MaxSize /\ avail \in {0, size \div 2, size}
       \/ /\ sends = FALSE
          /\ chunk = NormalChunk(0, packet)
          /\ \E n \in Buffers : buffer = NormalBuffer(n)
          /\ size = 0 /\ avail = 0
    /\ pc = "command" /\ sent = 0 /\ round = 0
    /\ got = 0 /\ ended = FALSE /\ late = FALSE
    /\ line = <<>> /\ length = 0 /\ have = 0 /\ given = 0 /\ whole = FALSE /\ exact = FALSE

Next ==
    \/ Command \/ First \/ Loop \/ Finish \/ WriteFails
    \/ CellphoneAnswers \/ ReadFirst \/ ReadMore \/ ReadResponse \/ Drop \/ Drain \/ DrainEnds

Spec == Init /\ [][Next]_vars

-----------------------------------------------------------------------------
(* Properties.                                                             *)

\* The variables hold values of their kind, and no write passes the payload.
TypeOK ==
    /\ packet \in Nat \ {0} /\ chunk \in Nat /\ chunk > HeaderLen /\ buffer \in Nat /\ buffer >= MinBuffer
    /\ sends \in BOOLEAN /\ size \in 0..MaxSize /\ avail \in 0..size
    /\ pc \in {"command", "refused", "first", "loop", "short", "stuck", "failed", "answer",
               "read", "join", "check", "done", "drain", "drained"}
    /\ sent \in 0..size /\ round \in Nat
    /\ got \in Nat /\ ended \in BOOLEAN /\ late \in BOOLEAN
    /\ line \in Seq([n: 0..packet, of: {"data", "response"}]) /\ length \in Nat /\ have \in Nat
    /\ given \in Nat /\ whole \in BOOLEAN /\ exact \in BOOLEAN

\* The cellphone sees the end of the data phase only behind the last promised
\* byte, at every size, chunk and packet, and whether or not the reader comes
\* up short: a write in the middle is a whole number of packets (normalised).
EndsOnlyWhole == ended => got = Declared

\* When the host waits for the response, the cellphone has seen the end: a
\* last packet that is full is followed by an empty one (needs_zero_packet).
\* Nothing comes behind the end, where it would be read as the next command.
EndIsSeen == (sends /\ pc = "answer" => ended) /\ ~late

\* The bounds of the two loops never stop a transfer that the other side can
\* finish (rounds in operation_sending, and in read_answer: "the count never
\* stops a transfer the device can finish").
RoundsSuffice == pc = "stuck" => ~sends /\ ~whole

\* An operation that ends well has exactly the bytes of the container that the
\* cellphone sent, and these are no fewer than it declared: a data phase that
\* stops early is a fault, no byte of the response is joined to the data, and
\* none of the data is left behind for the next command (read_answer).
AnswerIsWhole == pc = "done" /\ have > 0 => have = given /\ have >= length

\* Sizes at which a read can come back without bytes though packets are left:
\* a buffer that is no whole number of packets can be too small for the last
\* one, and a transfer of whole buffers ends with an empty packet that a read
\* meets alone.
Misfit == buffer % packet # 0 \/ exact

\* A whole answer is taken, at every length, packet and buffer, unless the
\* sizes misfit or the length is above the limit. An empty packet behind the
\* data is no fault as long as a read ends with it (read_answer).
WholeIsTaken == pc = "failed" /\ whole => Misfit \/ length > MaxData

\* After a drain nothing is left that the next command would take for its
\* answer, wherever the program before it stopped, and whatever the cellphone
\* declared and sent, unless the sizes misfit or there are more bytes than the
\* limit of reads has room for (drain).
DrainEmpties == pc = "drained" => line = <<>> \/ Misfit \/ given + 2 * MinBuffer > MaxData
=============================================================================
