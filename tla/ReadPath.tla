------------------------------ MODULE ReadPath ------------------------------
(***************************************************************************)
(* The read path of the mount: op_read in crates/mtpfs/src/main.rs, and    *)
(* read_at with its cache in crates/mtpfs/src/backend.rs.                  *)
(*                                                                         *)
(* A read is a loop: the cache gives a first part, the cellphone the rest, *)
(* and what the cellphone gives beyond the need becomes the cache.  The    *)
(* cellphone can give fewer bytes than the host asks for, or none, or a    *)
(* fault.  Between two reads the mount removes and makes objects, and the  *)
(* cellphone can give a handle it gave before.                             *)
(*                                                                         *)
(* The byte at position i of an object is <<v, i>>, where v tells apart    *)
(* the objects that had the handle.                                        *)
(***************************************************************************)
EXTENDS Integers, Sequences

CONSTANTS
    Handles,    \* handles of objects
    MaxSize,    \* bound: the size of an object
    MaxWant,    \* bound: the bytes the kernel asks for in one read
    ReadAhead,  \* READ_AHEAD: what the host asks for at least
    Packet,     \* the packet size of the endpoint
    MaxVersion, \* bound: objects made under one handle
    Offsets,    \* what a narrow offset can name: 2^32 in the protocol
    Faults      \* the faults that can happen, see FaultKinds

\* short: the cellphone gives fewer bytes than the host asked for
\* fail: a read fails
\* lost: a delete or a send fails for the host, and the cellphone did it
FaultKinds == {"short", "fail", "lost"}

ASSUME SizesAssumption ==
    /\ MaxSize \in Nat /\ MaxWant \in Nat /\ MaxVersion \in Nat
    /\ ReadAhead \in Nat \ {0} /\ Offsets \in Nat \ {0} /\ Packet \in Nat
ASSUME FaultsAssumption == Faults \subseteq FaultKinds

Least(a, b) == IF a <= b THEN a ELSE b
Greatest(a, b) == IF a >= b THEN a ELSE b

VARIABLES
    wide,    \* Mtp.partial_read is GetPartialObject64
    size,    \* the cellphone: handle -> size of its object, or -1
    ver,     \* the cellphone: handle -> which object has had the handle last
    known,   \* the tree: handle -> size in the last listing, or -1
    seen,    \* history: handle -> which object that listing met
    cache,   \* Mtp.cache
    rd,      \* the read that runs, see Reads
    answer   \* what a read just gave to the kernel

device == <<wide, size, ver>>
tree == <<known, seen>>
vars == <<wide, size, ver, known, seen, cache, rd, answer>>

Gone == -1
Bytes == (0..MaxVersion) \X (0..MaxSize)
NoCache == [handle |-> "none", start |-> 0, data |-> <<>>]
Caches == [handle: Handles \cup {"none"}, start: 0..MaxSize, data: Seq(Bytes)]

\* A read: the object, the offset, the count it wants (cut to the size the
\* tree knows), what it has, and whether every answer of the cellphone was whole.
Reads == [on: {TRUE}, h: Handles, off: 0..MaxSize, want: 1..MaxSize, out: Seq(Bytes), whole: BOOLEAN]
NotReading == [on |-> FALSE]
NoAnswer == [out |-> <<>>, off |-> 0, want |-> 0, whole |-> FALSE]

Idle == ~rd.on

\* The bytes the cellphone gives for an object: count bytes from an offset, as
\* far as the object goes.
Content(h, off, count) ==
    [i \in 1..Greatest(0, Least(count, size[h] - off)) |-> <<ver[h], off + i - 1>>]

\* ReadCache::get: the part of a read that the cache holds; empty for a miss.
MutCached(h, at, need) ==
    LET from == at - cache.start
        to == Least(from + need, Len(cache.data))
    IN  IF from < 0 THEN <<>> ELSE SubSeq(cache.data, from + 1, to)
Cached(h, at, need) ==
    LET from == at - cache.start
        to == Least(from + need, Len(cache.data))
    IN  IF cache.handle # h \/ from < 0 THEN <<>> ELSE SubSeq(cache.data, from + 1, to)

\* split_final_read: the count of the first read, and whether one byte follows.
SplitFinalRead(off, want, fileSize) ==
    IF off + want >= fileSize /\ Packet # 0 /\ want # 0 /\ want % Packet = 0
    THEN [first |-> want - 1, short |-> TRUE]
    ELSE [first |-> want, short |-> FALSE]

\* The offset as the cellphone gets it: GetPartialObject has one parameter of
\* 32 bits for it, and `offset as u32` drops the rest.
MutSent(off) == off % Offsets
Sent(off) == IF wide THEN off ELSE off % Offsets

\* The answers of partial_read: all the bytes, or fewer with that fault.
PartialRead(h, off, want) ==
    {Content(h, Sent(off), want)}
    \cup (IF "short" \in Faults THEN {Content(h, Sent(off), n) : n \in 0..want} ELSE {})

\* read_from_device takes the byte that split_final_read left.
SecondRead(s, data) == s.short /\ Len(data) = s.first

-----------------------------------------------------------------------------
(* One read.                                                               *)

Answer(h, off, want, out, whole) ==
    /\ rd' = NotReading
    /\ answer' = [out |-> out, off |-> off, want |-> want,
                  whole |-> whole /\ size[h] >= known[h]]

\* The early returns of op_read and read_at.
MutNothingToRead(h, off, n) == off >= known[h]
NothingToRead(h, off, n) == off >= known[h] \/ n = 0

\* op_read of an object the tree knows, for a path that has no spool file.
OpRead(h, off, n) ==
    /\ Idle /\ known[h] # Gone
    /\ IF NothingToRead(h, off, n)
       THEN Answer(h, off, 0, <<>>, TRUE)
       ELSE /\ rd' = [on |-> TRUE, h |-> h, off |-> off, want |-> Least(n, known[h] - off),
                      out |-> <<>>, whole |-> TRUE]
            /\ answer' = NoAnswer
    /\ UNCHANGED <<device, tree, cache>>

At == rd.off + Len(rd.out)
Need == rd.want - Len(rd.out)

\* The read has out now, and goes on or ends.
Extend(out, whole) ==
    IF Len(out) = rd.want THEN Answer(rd.h, rd.off, rd.want, out, whole)
    ELSE rd' = [rd EXCEPT !.out = out, !.whole = whole] /\ answer' = NoAnswer

\* The cache answers the next part.
ReadHit ==
    /\ rd.on /\ Cached(rd.h, At, Need) # <<>>
    /\ Extend(rd.out \o Cached(rd.h, At, Need), rd.whole)
    /\ UNCHANGED <<device, tree, cache>>

\* How many bytes read_at asks the cellphone for.
Ask == Least(Greatest(Need, ReadAhead), known[rd.h] - At)

\* An empty answer ends the loop of read_at.
MutStops(data) == FALSE
Stops(data) == data = <<>>

\* The cellphone gave data: none ends the read, some becomes the cache.
Filled(data) ==
    LET whole == rd.whole /\ data = Content(rd.h, At, Ask) IN
    IF Stops(data)
    THEN Answer(rd.h, rd.off, rd.want, rd.out, whole) /\ UNCHANGED cache
    ELSE /\ Extend(rd.out \o SubSeq(data, 1, Least(Need, Len(data))), whole)
         /\ cache' = [handle |-> rd.h, start |-> At, data |-> data]

\* The cache misses: read_from_device with one partial_read or two.
ReadMiss ==
    /\ rd.on /\ Cached(rd.h, At, Need) = <<>> /\ size[rd.h] # Gone
    /\ LET s == SplitFinalRead(At, Ask, known[rd.h]) IN
       \E data \in PartialRead(rd.h, At, s.first) :
         IF SecondRead(s, data)
         THEN \E tail \in PartialRead(rd.h, At + s.first, 1) : Filled(data \o tail)
         ELSE Filled(data)
    /\ UNCHANGED <<device, tree>>

\* The cellphone answers with a fault, and op_read gives EIO.
GiveUp ==
    /\ rd.on /\ Cached(rd.h, At, Need) = <<>>
    /\ rd' = NotReading /\ answer' = NoAnswer
    /\ UNCHANGED <<device, tree, cache>>
ReadGone == rd.on /\ size[rd.h] = Gone /\ GiveUp
ReadFails == "fail" \in Faults /\ GiveUp

-----------------------------------------------------------------------------
(* What the other callbacks do to the objects and the cache.               *)

\* A listing tells the sizes. The tree keeps entries that it does not meet.
List ==
    /\ Idle
    /\ known' = [h \in Handles |-> IF size[h] = Gone THEN known[h] ELSE size[h]]
    /\ seen' = [h \in Handles |-> IF size[h] = Gone THEN seen[h] ELSE ver[h]]
    /\ answer' = NoAnswer
    /\ UNCHANGED <<device, cache, rd>>

\* operation_that_changes and sending_data drop the cache once an answer came.
MutAfterChange == cache
AfterChange == NoCache

Told == {TRUE} \cup (IF "lost" \in Faults THEN {FALSE} ELSE {})

Delete(h) ==
    /\ Idle /\ size[h] # Gone
    /\ size' = [size EXCEPT ![h] = Gone]
    /\ \E told \in Told : cache' = IF told THEN AfterChange ELSE cache
    /\ answer' = NoAnswer
    /\ UNCHANGED <<wide, ver, tree, rd>>

\* send_object_stream. SendObjectInfo and SendObject each drop the cache when
\* they are answered; without the first answer the object stays empty.
Send(h, n) ==
    /\ Idle /\ size[h] = Gone /\ ver[h] < MaxVersion
    /\ ver' = [ver EXCEPT ![h] = @ + 1]
    /\ \/ /\ size' = [size EXCEPT ![h] = n]
          /\ cache' = AfterChange
       \/ /\ "lost" \in Faults
          /\ size' = [size EXCEPT ![h] = 0]
          /\ UNCHANGED cache
    /\ answer' = NoAnswer
    /\ UNCHANGED <<wide, tree, rd>>

Init ==
    /\ wide \in BOOLEAN
    /\ size \in [Handles -> {Gone} \cup 0..MaxSize]
    /\ ver = [h \in Handles |-> 0]
    /\ known = size /\ seen = ver
    /\ cache = NoCache
    /\ rd = NotReading /\ answer = NoAnswer

ReadStep == ReadHit \/ ReadMiss \/ ReadGone

Next ==
    \/ \E h \in Handles, off \in 0..MaxSize, n \in 0..MaxWant : OpRead(h, off, n)
    \/ ReadStep
    \/ ReadFails
    \/ List
    \/ \E h \in Handles : Delete(h)
    \/ \E h \in Handles, n \in 0..MaxSize : Send(h, n)

\* A callback that runs goes on. No fault is needed for it to end.
Spec == Init /\ [][Next]_vars /\ WF_vars(ReadStep)

-----------------------------------------------------------------------------
(* Properties.                                                             *)

\* The variables hold values of their kind.
TypeOK ==
    /\ wide \in BOOLEAN
    /\ size \in [Handles -> {Gone} \cup 0..MaxSize]
    /\ known \in [Handles -> {Gone} \cup 0..MaxSize]
    /\ ver \in [Handles -> 0..MaxVersion] /\ seen \in [Handles -> 0..MaxVersion]
    /\ cache \in Caches
    /\ rd \in Reads \cup {NotReading}

Files == INSTANCE FileReads WITH
    wide <- wide, size <- size, ver <- ver, known <- known, seen <- seen, answer <- answer

\* What the kernel gets is what one object holds at that place, and that
\* object had the handle at some time since the last listing met it: no byte
\* of an earlier one, none from another place, no mixture, and no count below
\* what was asked for unless the cellphone itself gave less. The cache, the
\* loop of read_at, the split of the last read and the reads ahead cannot be
\* told from one read in one step (op_read, read_at).
ImplementsFileReads == Files!Spec

\* The cache holds the bytes of the object that has its handle now, whatever
\* the mount made and removed in between, and in whatever order answers were
\* lost (ReadCache, operation_that_changes and sending_data). Behind what a
\* narrow offset can name the bytes come from another place (partial_read).
CacheIsRight ==
    cache.handle \in Handles /\ size[cache.handle] > 0
        => Files!Right(cache.data, ver[cache.handle], cache.start)

\* Every read ends: each turn of the loop in read_at adds bytes or stops.
ReadsEnd == rd.on ~> ~rd.on
=============================================================================
