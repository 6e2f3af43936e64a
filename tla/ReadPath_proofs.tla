--------------------------- MODULE ReadPath_proofs ---------------------------
(***************************************************************************)
(* What TLAPS proves of the read path, for every set of handles and faults *)
(* and every size, packet, read ahead, offset limit and bound: that the    *)
(* mount implements FileReads, reads that take one step.                   *)
(***************************************************************************)
EXTENDS ReadPath, SequenceTheorems, TLAPS

-----------------------------------------------------------------------------
(* Sequences of bytes.                                                     *)

\* A function on 1..n is a sequence of length n.
LEMMA FunctionIsSeq ==
    ASSUME NEW S, NEW n \in Nat, NEW f \in [1..n -> S]
    PROVE  f \in Seq(S) /\ Len(f) = n
<1>1. f \in Seq(S)
  OBVIOUS
<1>2. DOMAIN f = 1..Len(f) /\ Len(f) \in Nat
  BY <1>1, LenProperties
<1> QED
  BY <1>1, <1>2

\* The bytes of an object are as many as it has there, each from its place.
LEMMA ContentIs ==
    ASSUME TypeOK, NEW h \in Handles, NEW off \in Nat, NEW n \in Nat
    PROVE  /\ Content(h, off, n) \in Seq(Bytes)
           /\ Len(Content(h, off, n)) = Greatest(0, Least(n, size[h] - off))
           /\ \A i \in 1..Len(Content(h, off, n)) : Content(h, off, n)[i] = <<ver[h], off + i - 1>>
<1> DEFINE m == Greatest(0, Least(n, size[h] - off))
           f == [i \in 1..m |-> <<ver[h], off + i - 1>>]
<1>1. size[h] \in {Gone} \cup 0..MaxSize /\ ver[h] \in 0..MaxVersion
  BY DEF TypeOK
<1>2. m \in Nat /\ \A i \in 1..m : off + i - 1 \in 0..MaxSize
  BY <1>1, SizesAssumption DEF Greatest, Least, Gone
<1>3. \A i \in 1..m : <<ver[h], off + i - 1>> \in Bytes
  BY <1>1, <1>2 DEF Bytes
<1>4. f \in [1..m -> Bytes]
  BY <1>3
<1>5. f \in Seq(Bytes) /\ Len(f) = m
  <2> HIDE DEF f, m
  <2> QED BY <1>2, <1>4, FunctionIsSeq
<1>6. Content(h, off, n) = f
  BY DEF Content
<1> QED
  BY <1>5, <1>6

\* Two parts of one object, one behind the other, are a part of it.
LEMMA RightConcat ==
    ASSUME NEW s \in Seq(Bytes), NEW t \in Seq(Bytes), NEW v, NEW off \in Nat,
           Files!Right(s, v, off), Files!Right(t, v, off + Len(s))
    PROVE  Files!Right(s \o t, v, off)
<1>1. /\ Len(s \o t) = Len(s) + Len(t) /\ Len(s) \in Nat /\ Len(t) \in Nat
      /\ \A i \in 1..(Len(s) + Len(t)) : (s \o t)[i] = IF i <= Len(s) THEN s[i] ELSE t[i - Len(s)]
  BY ConcatProperties, LenProperties
<1>2. ASSUME NEW i \in 1..Len(s \o t), wide \/ off + i <= Offsets
      PROVE  (s \o t)[i] = <<v, off + i - 1>>
  <2>1. CASE i <= Len(s)
    BY <1>1, <1>2, <2>1 DEF Files!Right
  <2>2. CASE i > Len(s)
    <3>1. i - Len(s) \in 1..Len(t) /\ (off + Len(s)) + (i - Len(s)) = off + i
      BY <1>1, <1>2, <2>2
    <3>2. t[i - Len(s)] = <<v, (off + Len(s)) + (i - Len(s)) - 1>>
      BY <1>2, <3>1 DEF Files!Right
    <3> QED
      BY <1>1, <1>2, <2>2, <3>1, <3>2
  <2> QED
    BY <1>1, <1>2, <2>1, <2>2
<1> QED
  BY <1>2 DEF Files!Right

\* A part of a part of one object stands where it stood.
LEMMA RightPart ==
    ASSUME NEW s \in Seq(Bytes), NEW v, NEW off \in Nat, Files!Right(s, v, off),
           NEW a \in Nat, NEW b \in Int, b <= Len(s)
    PROVE  /\ SubSeq(s, a + 1, b) \in Seq(Bytes)
           /\ Len(SubSeq(s, a + 1, b)) = IF a < b THEN b - a ELSE 0
           /\ Files!Right(SubSeq(s, a + 1, b), v, off + a)
<1>1. Len(s) \in Nat /\ \A i \in (a + 1)..b : s[i] \in Bytes
  BY LenProperties, ElementOfSeq
<1>2. /\ SubSeq(s, a + 1, b) \in Seq(Bytes)
      /\ Len(SubSeq(s, a + 1, b)) = IF a + 1 <= b THEN b - (a + 1) + 1 ELSE 0
      /\ \A i \in 1..(b - (a + 1) + 1) : SubSeq(s, a + 1, b)[i] = s[(a + 1) + i - 1]
  BY <1>1, SubSeqProperties, SMTT(60)
<1>3. ASSUME NEW i \in 1..Len(SubSeq(s, a + 1, b)), wide \/ (off + a) + i <= Offsets
      PROVE  SubSeq(s, a + 1, b)[i] = <<v, (off + a) + i - 1>>
  <2>1. a + 1 <= b /\ i \in 1..(b - a) /\ a + i \in 1..Len(s)
    BY <1>1, <1>2, <1>3
  <2>2. s[a + i] = <<v, off + (a + i) - 1>>
    BY <1>3, <2>1 DEF Files!Right
  <2>3. SubSeq(s, a + 1, b)[i] = s[a + i]
    BY <1>2, <2>1
  <2> QED
    BY <2>1, <2>2, <2>3
<1> QED
  BY <1>2, <1>3 DEF Files!Right

\* No bytes are right anywhere.
LEMMA RightEmpty == ASSUME NEW v, NEW off PROVE Files!Right(<<>>, v, off)
BY DEF Files!Right

-----------------------------------------------------------------------------
(* The cellphone and the cache.                                            *)

\* A handle has its size, its count of objects and what the listing knows.
LEMMA HandleTypes ==
    ASSUME TypeOK, NEW h \in Handles
    PROVE  /\ size[h] \in Int /\ size[h] >= Gone /\ size[h] <= MaxSize
           /\ known[h] \in Int /\ known[h] >= Gone /\ known[h] <= MaxSize
           /\ ver[h] \in 0..MaxVersion /\ seen[h] \in 0..MaxVersion
BY SizesAssumption DEF TypeOK, Gone

\* The offset that the cellphone gets is not larger, and is the same when the
\* cellphone can name it.
LEMMA SentIs ==
    ASSUME NEW off \in Nat
    PROVE  Sent(off) \in Nat /\ (wide \/ off < Offsets => Sent(off) = off)
BY SizesAssumption DEF Sent

\* What partial_read gives stands in the object, and is no more than was asked.
LEMMA PartialReadIs ==
    ASSUME TypeOK, NEW h \in Handles, NEW off \in Nat, NEW want \in Nat,
           NEW data \in PartialRead(h, off, want)
    PROVE  /\ data \in Seq(Bytes) /\ Len(data) \in Nat /\ Len(data) <= want
           /\ Files!Right(data, ver[h], off)
           /\ data # <<>> => size[h] > 0
<1>1. PICK n \in 0..want : data = Content(h, Sent(off), n)
  BY DEF PartialRead
<1>2. Sent(off) \in Nat /\ (wide \/ off < Offsets => Sent(off) = off)
  BY SentIs
<1>3. /\ data \in Seq(Bytes)
      /\ Len(data) = Greatest(0, Least(n, size[h] - Sent(off)))
      /\ \A i \in 1..Len(data) : data[i] = <<ver[h], Sent(off) + i - 1>>
  BY <1>1, <1>2, ContentIs
<1>4. Len(data) \in Nat /\ Len(data) <= want
  BY <1>2, <1>3, HandleTypes DEF Greatest, Least
<1>5. Files!Right(data, ver[h], off)
  <2>1. ASSUME NEW i \in 1..Len(data), wide \/ off + i <= Offsets
        PROVE  data[i] = <<ver[h], off + i - 1>>
    <3>1. wide \/ off < Offsets
      BY <1>4, <2>1, SizesAssumption
    <3> QED
      BY <1>2, <1>3, <2>1, <3>1
  <2> QED
    BY <2>1 DEF Files!Right
<1>6. ASSUME data # <<>> PROVE size[h] > 0
  <2>1. Len(data) > 0
    BY <1>3, <1>6, EmptySeq
  <2> QED
    BY <1>2, <1>3, <2>1, HandleTypes DEF Greatest, Least
<1> QED
  BY <1>3, <1>4, <1>5, <1>6

\* What a hit gives is a part of the cache, from the place the read is at, and
\* no more than the read needs.
LEMMA CachedIs ==
    ASSUME TypeOK, NEW h \in Handles, NEW at \in Nat, NEW need \in Nat, NEW v,
           Files!Right(cache.data, v, cache.start), Cached(h, at, need) # <<>>
    PROVE  /\ cache.handle = h /\ at >= cache.start
           /\ Cached(h, at, need) \in Seq(Bytes)
           /\ Len(Cached(h, at, need)) \in Nat \ {0}
           /\ Len(Cached(h, at, need)) = Least(need, Len(cache.data) - (at - cache.start))
           /\ Files!Right(Cached(h, at, need), v, at)
<1> DEFINE from == at - cache.start
           to == Least(from + need, Len(cache.data))
<1>1. cache.data \in Seq(Bytes) /\ cache.start \in Nat /\ Len(cache.data) \in Nat
  BY LenProperties, SizesAssumption DEF TypeOK, Caches
<1>2. cache.handle = h /\ from >= 0 /\ Cached(h, at, need) = SubSeq(cache.data, from + 1, to)
  <2>1. Cached(h, at, need) = IF cache.handle # h \/ from < 0 THEN <<>> ELSE SubSeq(cache.data, from + 1, to)
    BY Zenon DEF Cached
  <2>2. from \in Int
    BY <1>1
  <2> HIDE DEF from, to
  <2>3. ~(cache.handle # h \/ from < 0)
    BY <2>1, Zenon
  <2>4. Cached(h, at, need) = SubSeq(cache.data, from + 1, to)
    BY <2>1, <2>3, Zenon
  <2> QED BY <2>2, <2>3, <2>4
<1>3. from \in Nat /\ to \in Int /\ to <= Len(cache.data)
  BY <1>1, <1>2 DEF Least
<1>4. /\ SubSeq(cache.data, from + 1, to) \in Seq(Bytes)
      /\ Len(SubSeq(cache.data, from + 1, to)) = IF from < to THEN to - from ELSE 0
      /\ Files!Right(SubSeq(cache.data, from + 1, to), v, cache.start + from)
  <2> HIDE DEF from, to
  <2> QED BY <1>1, <1>3, RightPart
<1>5. cache.start + from = at
  BY <1>1
<1>6. Len(Cached(h, at, need)) \in Nat \ {0}
  BY <1>2, <1>4, EmptySeq
<1>7. from < to
  <2> HIDE DEF from, to
  <2> QED BY <1>2, <1>3, <1>4, <1>6
<1>8. to - from = Least(need, Len(cache.data) - from)
  BY <1>1, <1>3, SMTT(60) DEF Least
<1>9. Len(Cached(h, at, need)) = Least(need, Len(cache.data) - (at - cache.start))
  <2> HIDE DEF to
  <2> QED BY <1>2, <1>4, <1>7, <1>8
<1> QED
  BY <1>1, <1>2, <1>4, <1>5, <1>6, <1>9, SMTT(60)

-----------------------------------------------------------------------------
(* The inductive invariant.                                                *)

\* A listing met no object that was not there.
SeenOK == \A h \in Handles : seen[h] <= ver[h]

\* The cache holds bytes of one object that had its handle: the one that has
\* it now when there is one with bytes, and none older than the listing.
OfOne(v) ==
    /\ Files!Right(cache.data, v, cache.start)
    /\ size[cache.handle] > 0 => v = ver[cache.handle]
    /\ known[cache.handle] > 0 => seen[cache.handle] <= v
CacheOK == cache.handle \in Handles => \E v \in 0..ver[cache.handle] : OfOne(v)

\* The read that runs stays within the file the listing knows; what it has
\* is of one object; and when it took bytes of an object that is gone, the
\* cache has no more of them.
Mixed(v) ==
    /\ Files!Right(rd.out, v, rd.off)
    /\ size[rd.h] > 0 => v = ver[rd.h]
ReadOK == rd.on =>
    /\ rd.off + rd.want <= known[rd.h]
    /\ Len(rd.out) < rd.want
    /\ \E v \in seen[rd.h]..ver[rd.h] : Mixed(v)
    /\ size[rd.h] <= 0 /\ rd.out # <<>> => cache.handle = rd.h /\ At >= cache.start + Len(cache.data)

Inv == TypeOK /\ SeenOK /\ CacheOK /\ ReadOK

\* A read that runs is a read, within the file.
LEMMA ReadContext ==
    ASSUME Inv, rd.on
    PROVE  /\ rd \in Reads /\ rd.h \in Handles /\ rd.out \in Seq(Bytes)
           /\ rd.off \in 0..MaxSize /\ rd.want \in 1..MaxSize /\ Len(rd.out) \in Nat
           /\ rd.whole \in BOOLEAN
           /\ At \in 0..MaxSize /\ Need \in Nat \ {0} /\ At + Need = rd.off + rd.want
           /\ At = rd.off + Len(rd.out)
           /\ Ask \in Nat \ {0} /\ known[rd.h] > At /\ At + Ask <= known[rd.h]
<1>1. rd \in Reads
  BY DEF Inv, TypeOK, NotReading
<1>2. /\ rd.h \in Handles /\ rd.out \in Seq(Bytes) /\ rd.off \in 0..MaxSize
      /\ rd.want \in 1..MaxSize /\ rd.whole \in BOOLEAN
  BY <1>1 DEF Reads
<1>3. Len(rd.out) \in Nat
  BY <1>2, LenProperties
<1>4. rd.off + rd.want <= known[rd.h] /\ Len(rd.out) < rd.want
  BY DEF Inv, ReadOK
<1>5. /\ At \in 0..MaxSize /\ Need \in Nat \ {0} /\ At + Need = rd.off + rd.want
      /\ known[rd.h] > At /\ At = rd.off + Len(rd.out)
  BY <1>2, <1>3, <1>4, HandleTypes, SizesAssumption, SMTT(60) DEF Inv, At, Need
<1>6. Ask \in Nat \ {0} /\ At + Ask <= known[rd.h]
  BY <1>2, <1>5, HandleTypes, SizesAssumption, SMTT(60) DEF Inv, Ask, Least, Greatest
<1> QED
  BY <1>1, <1>2, <1>3, <1>5, <1>6

\* An answer to the kernel is a read of FileReads.
LEMMA AnswerIsRead ==
    ASSUME Inv, NEW h \in Handles, NEW off \in 0..MaxSize, NEW want \in 0..MaxSize,
           NEW out, NEW whole, NEW v \in seen[h]..ver[h],
           known[h] # Gone, off + want <= known[h] \/ want = 0,
           Len(out) <= want, whole /\ size[h] >= known[h] => Len(out) = want,
           Files!Right(out, v, off),
           Answer(h, off, want, out, whole), UNCHANGED <<device, tree>>
    PROVE  Files!Next /\ rd' = NotReading
<1>1. /\ answer'.off = off /\ answer'.want = want /\ answer'.out = out
      /\ answer'.whole = (whole /\ size[h] >= known[h]) /\ rd' = NotReading
  BY DEF Answer
<1>2. Files!Read(h, off, want)
  BY <1>1 DEF Files!Read, Files!Right, Files!Gone, Gone, device, tree, Files!objects, Files!listing
<1> QED
  BY <1>1, <1>2 DEF Files!Next

\* A step that gives the kernel nothing and leaves the objects is a stutter of
\* FileReads or its question.
LEMMA SilentIsAsk ==
    ASSUME answer' = NoAnswer, UNCHANGED <<device, tree>>
    PROVE  Files!Next
BY DEF Files!Next, Files!Ask, Files!NoAnswer, NoAnswer, device, tree, Files!objects, Files!listing

\* A read that got bytes of the same object goes on in order, or answers.
LEMMA ExtendStep ==
    ASSUME Inv, rd.on, NEW out \in Seq(Bytes), NEW whole \in BOOLEAN,
           NEW v \in seen[rd.h]..ver[rd.h],
           Files!Right(out, v, rd.off), size[rd.h] > 0 => v = ver[rd.h],
           Len(out) <= rd.want, Extend(out, whole), UNCHANGED <<device, tree>>,
           size[rd.h] <= 0 /\ Len(out) # rd.want =>
               cache'.handle = rd.h /\ rd.off + Len(out) >= cache'.start + Len(cache'.data)
    PROVE  ReadOK' /\ rd' \in Reads \cup {NotReading} /\ Files!Next
<1> USE ReadContext
<1>1. rd.off + rd.want <= known[rd.h] /\ Len(out) \in Nat /\ known[rd.h] # Gone
  BY LenProperties, HandleTypes, SMTT(60) DEF Inv, ReadOK, Gone
<1>2. CASE Len(out) = rd.want
  <2>1. Answer(rd.h, rd.off, rd.want, out, whole)
    BY <1>2 DEF Extend
  <2>2. Files!Next /\ rd' = NotReading
    BY <1>1, <1>2, <2>1, AnswerIsRead, SMTT(60)
  <2> QED
    BY <2>2 DEF ReadOK, NotReading
<1>3. CASE Len(out) # rd.want
  <2>1. rd' = [rd EXCEPT !.out = out, !.whole = whole] /\ answer' = NoAnswer
    BY <1>3 DEF Extend
  <2>2. /\ rd'.h = rd.h /\ rd'.off = rd.off /\ rd'.want = rd.want /\ rd'.out = out
        /\ rd' \in Reads
    BY <2>1 DEF Reads
  <2>3. At' = rd.off + Len(out)
    BY <2>2 DEF At
  <2>4. wide' = wide /\ size' = size /\ ver' = ver /\ known' = known /\ seen' = seen
    BY DEF device, tree
  <2>5. Mixed(v)'
    BY <2>2, <2>4 DEF Mixed, Files!Right
  <2>6. ReadOK'
    BY <1>1, <1>3, <2>2, <2>3, <2>4, <2>5, SMTT(60) DEF ReadOK
  <2> QED
    BY <2>1, <2>2, <2>6, SilentIsAsk
<1> QED
  BY <1>2, <1>3

-----------------------------------------------------------------------------
(* Every step keeps the invariant and is a step of FileReads.              *)

\* What a step that leaves the objects and the listing keeps.
LEMMA SameObjects ==
    ASSUME Inv, UNCHANGED <<device, tree>>
    PROVE  /\ SeenOK'
           /\ cache' = cache => CacheOK'
           /\ cache' \in Caches /\ rd' \in Reads \cup {NotReading} => TypeOK'
<1>1. wide' = wide /\ size' = size /\ ver' = ver /\ known' = known /\ seen' = seen
  BY DEF device, tree
<1>2. SeenOK'
  BY <1>1 DEF Inv, SeenOK
<1>3. cache' = cache => CacheOK'
  BY <1>1 DEF Inv, CacheOK, OfOne, Files!Right
<1>4. cache' \in Caches /\ rd' \in Reads \cup {NotReading} => TypeOK'
  BY <1>1 DEF Inv, TypeOK
<1> QED
  BY <1>2, <1>3, <1>4

\* op_read begins a read within the file, or answers it with nothing.
LEMMA OpReadStep ==
    ASSUME Inv, NEW h \in Handles, NEW off \in 0..MaxSize, NEW n \in 0..MaxWant, OpRead(h, off, n)
    PROVE  Inv' /\ Files!Next
<1> USE HandleTypes, SizesAssumption
<1>1. /\ known[h] # Gone /\ cache' = cache /\ UNCHANGED <<device, tree>>
      /\ seen[h] <= ver[h] /\ ver[h] \in seen[h]..ver[h]
  BY DEF OpRead, Inv, SeenOK
<1>2. cache \in Caches
  BY DEF Inv, TypeOK
<1>3. CASE NothingToRead(h, off, n)
  <2>1. Answer(h, off, 0, <<>>, TRUE)
    BY <1>3 DEF OpRead
  <2>2. /\ Len(<<>>) <= 0 /\ (TRUE /\ size[h] >= known[h] => Len(<<>>) = 0)
        /\ 0 \in 0..MaxSize /\ (off + 0 <= known[h] \/ 0 = 0)
        /\ Files!Right(<<>>, ver[h], off)
    BY RightEmpty
  <2>3. Files!Next /\ rd' = NotReading
    BY ONLY Inv, <1>1, <2>1, <2>2, AnswerIsRead
  <2> QED
    BY <1>1, <1>2, <2>3, SameObjects DEF Inv, ReadOK, NotReading
<1>4. CASE ~NothingToRead(h, off, n)
  <2>1. /\ rd' = [on |-> TRUE, h |-> h, off |-> off, want |-> Least(n, known[h] - off),
                  out |-> <<>>, whole |-> TRUE]
        /\ answer' = NoAnswer
    BY <1>4 DEF OpRead
  <2>2. off < known[h] /\ n > 0
    BY <1>4 DEF NothingToRead, Inv
  <2>3. Least(n, known[h] - off) \in 1..MaxSize /\ off + Least(n, known[h] - off) <= known[h]
    BY <2>2 DEF Least, Inv
  <2>4. rd' \in Reads
    BY <2>1, <2>3 DEF Reads
  <2>5. wide' = wide /\ size' = size /\ ver' = ver /\ known' = known /\ seen' = seen
    BY <1>1 DEF device, tree
  <2>6. rd'.out = <<>> /\ rd'.h = h /\ Len(<<>>) = 0
    BY <2>1
  <2>7. Mixed(ver[h])'
    BY <2>5, <2>6 DEF Mixed, Files!Right
  <2>8. ReadOK'
    BY <1>1, <2>1, <2>3, <2>5, <2>6, <2>7 DEF ReadOK
  <2> QED
    BY <1>1, <1>2, <2>1, <2>4, <2>8, SameObjects, SilentIsAsk DEF Inv
<1> QED
  BY <1>3, <1>4

\* A hit gives bytes of the object that the read has bytes of already.
LEMMA ReadHitStep == ASSUME Inv, ReadHit PROVE Inv' /\ Files!Next
<1> DEFINE part == Cached(rd.h, At, Need)
           out == rd.out \o part
<1>1. rd.on /\ part # <<>> /\ Extend(out, rd.whole) /\ cache' = cache /\ UNCHANGED <<device, tree>>
  BY DEF ReadHit
<1> USE ReadContext, HandleTypes, SizesAssumption
<1>2. cache.data \in Seq(Bytes) /\ Len(cache.data) \in Nat /\ cache.start \in Nat /\ cache \in Caches
  BY LenProperties DEF Inv, TypeOK, Caches
<1>3. cache.handle = rd.h
  BY <1>1 DEF Cached
<1>4. PICK v \in 0..ver[rd.h] : OfOne(v)
  BY <1>1, <1>3 DEF Inv, CacheOK
<1>5. /\ At >= cache.start /\ part \in Seq(Bytes) /\ Len(part) \in Nat \ {0}
      /\ Len(part) = Least(Need, Len(cache.data) - (At - cache.start))
      /\ Files!Right(part, v, At)
  <2> HIDE DEF part
  <2> QED BY <1>1, <1>3, <1>4, CachedIs, SMTT(60) DEF part, OfOne, Inv
<1> HIDE DEF part
<1>6. v \in seen[rd.h]..ver[rd.h] /\ (size[rd.h] > 0 => v = ver[rd.h])
  BY <1>1, <1>3, <1>4 DEF OfOne, Inv
<1>7. Files!Right(rd.out, v, rd.off)
  <2>1. CASE rd.out = <<>>
    BY <2>1, RightEmpty
  <2>2. CASE rd.out # <<>> /\ size[rd.h] <= 0
    <3>1. At >= cache.start + Len(cache.data)
      BY <1>1, <2>2 DEF Inv, ReadOK
    <3> QED
      BY <1>1, <1>2, <1>5, <3>1, SMTT(60) DEF Least
  <2>3. CASE size[rd.h] > 0
    BY <1>1, <1>6, <2>3 DEF Inv, ReadOK, Mixed
  <2> QED
    BY <1>1, <2>1, <2>2, <2>3, SMTT(60) DEF Inv
<1>8. out \in Seq(Bytes) /\ Len(out) = Len(rd.out) + Len(part)
  BY <1>1, <1>5, ConcatProperties
<1> DEFINE have == Len(rd.out)
<1>at. /\ At = rd.off + have /\ Need = rd.want - have /\ have \in Nat /\ rd.off \in Nat
      /\ rd.want \in Nat /\ rd.out \in Seq(Bytes)
  BY <1>1, SMTT(60) DEF Need
<1>9. Files!Right(out, v, rd.off)
  BY <1>at, <1>5, <1>7, RightConcat
<1>10. Len(out) <= rd.want
  <2> HIDE DEF out, have
  <2> QED BY <1>at, <1>2, <1>5, <1>8, SMTT(60) DEF Least, have
<1>11. Len(out) # rd.want => rd.off + Len(out) >= cache'.start + Len(cache'.data)
  <2> HIDE DEF out, have
  <2>1. Len(out) # rd.want => rd.off + Len(out) >= cache.start + Len(cache.data)
    <3> DEFINE left == Len(cache.data) - (At - cache.start)
    <3>1. Len(part) = Need \/ Len(part) = left
      BY <1>5 DEF Least
    <3>2. Len(part) = Need => Len(out) = rd.want
      BY ONLY <1>at, <1>5, <1>8 DEF have
    <3>3. Len(part) = left => rd.off + Len(out) >= cache.start + Len(cache.data)
      <4> SUFFICES ASSUME Len(part) = left PROVE rd.off + Len(out) >= cache.start + Len(cache.data)
        OBVIOUS
      <4>1. Len(out) = have + (Len(cache.data) - (At - cache.start))
        BY ONLY <1>8, Len(part) = left DEF have
      <4> QED
        BY ONLY <1>at, <1>2, <4>1, SMTT(60)
    <3> QED
      BY ONLY <3>1, <3>2, <3>3
  <2> QED BY <1>1, <2>1
<1>12. ReadOK' /\ rd' \in Reads \cup {NotReading} /\ Files!Next
  <2> HIDE DEF out
  <2> QED BY <1>1, <1>3, <1>6, <1>8, <1>9, <1>10, <1>11, ExtendStep
<1> QED
  BY <1>1, <1>2, <1>12, SameObjects DEF Inv

\* What the cellphone gives is of the object that has the handle now, and so
\* is what the read has already; a whole answer is not empty.
LEMMA FilledStep ==
    ASSUME Inv, rd.on, NEW data \in Seq(Bytes), Files!Right(data, ver[rd.h], At),
           data # <<>> => size[rd.h] > 0, Filled(data), UNCHANGED <<device, tree>>
    PROVE  Inv' /\ Files!Next
<1> DEFINE whole == rd.whole /\ data = Content(rd.h, At, Ask)
<1>1. /\ rd.h \in Handles /\ rd.out \in Seq(Bytes) /\ rd.off \in 0..MaxSize /\ rd.want \in 1..MaxSize
      /\ Len(rd.out) \in Nat /\ At \in 0..MaxSize /\ Need = rd.want - Len(rd.out) /\ Need \in Nat \ {0}
      /\ At = rd.off + Len(rd.out) /\ Ask \in Nat \ {0} /\ known[rd.h] > At
      /\ rd.whole \in BOOLEAN /\ Len(data) \in Nat
  BY ReadContext, LenProperties DEF Need
<1>2. /\ rd.off + rd.want <= known[rd.h] /\ Len(rd.out) <= rd.want /\ known[rd.h] # Gone
      /\ size[rd.h] \in Int /\ known[rd.h] \in Int
      /\ ver[rd.h] \in 0..MaxVersion /\ seen[rd.h] \in 0..MaxVersion /\ seen[rd.h] <= ver[rd.h]
  <2>1. rd.off + rd.want <= known[rd.h] /\ Len(rd.out) < rd.want
    BY DEF Inv, ReadOK
  <2>2. /\ size[rd.h] \in Int /\ known[rd.h] \in Int
        /\ ver[rd.h] \in 0..MaxVersion /\ seen[rd.h] \in 0..MaxVersion
    BY <1>1, HandleTypes DEF Inv
  <2>3. seen[rd.h] <= ver[rd.h]
    BY <1>1 DEF Inv, SeenOK
  <2>4. Len(rd.out) <= rd.want /\ known[rd.h] # Gone
    BY ONLY <1>1, <2>1, <2>2, SizesAssumption, SMTT(60) DEF Gone
  <2> QED
    BY <2>1, <2>2, <2>3, <2>4
<1>3. PICK v \in seen[rd.h]..ver[rd.h] : Mixed(v)
  BY DEF Inv, ReadOK
<1>4. CASE data = <<>>
  <2>1. Answer(rd.h, rd.off, rd.want, rd.out, whole) /\ cache' = cache
    BY <1>4 DEF Filled, Stops
  <2>2. ~(whole /\ size[rd.h] >= known[rd.h])
    <3>1. Len(Content(rd.h, At, Ask)) = Greatest(0, Least(Ask, size[rd.h] - At))
      BY <1>1, ContentIs, SizesAssumption, SMTT(60) DEF Inv
    <3>2. size[rd.h] >= known[rd.h] => Len(Content(rd.h, At, Ask)) > 0
      BY <1>1, <1>2, <3>1, SizesAssumption, SMTT(60) DEF Greatest, Least
    <3> QED
      BY <1>4, <3>2, EmptySeq
  <2>3. rd.want \in 0..MaxSize /\ Files!Right(rd.out, v, rd.off)
    BY <1>1, <1>3 DEF Mixed
  <2>4. Files!Next /\ rd' = NotReading
    <3> HIDE DEF whole
    <3> QED BY <1>1, <1>2, <2>1, <2>2, <2>3, AnswerIsRead
  <2>5. cache \in Caches
    BY DEF Inv, TypeOK
  <2> QED
    BY <2>1, <2>4, <2>5, SameObjects DEF Inv, ReadOK, NotReading
<1>5. CASE data # <<>>
  <2> DEFINE part == SubSeq(data, 0 + 1, Least(Need, Len(data)))
             out == rd.out \o part
  <2>1. Extend(out, whole) /\ cache' = [handle |-> rd.h, start |-> At, data |-> data]
    BY <1>5 DEF Filled, Stops
  <2>2. v = ver[rd.h] /\ Files!Right(rd.out, v, rd.off) /\ size[rd.h] > 0
    BY <1>3, <1>5 DEF Mixed
  <2>3. Least(Need, Len(data)) \in Nat /\ Least(Need, Len(data)) <= Len(data) /\ Least(Need, Len(data)) <= Need
    BY <1>1 DEF Least
  <2>4. part \in Seq(Bytes) /\ Len(part) <= Need /\ Len(part) \in Nat /\ Files!Right(part, v, At + 0)
    <3> DEFINE b == Least(Need, Len(data))
    <3>1. b \in Int /\ At \in Nat /\ b <= Len(data) /\ Files!Right(data, v, At)
      BY <1>1, <2>2, <2>3, SizesAssumption
    <3> HIDE DEF b
    <3>2. /\ SubSeq(data, 0 + 1, b) \in Seq(Bytes)
          /\ Len(SubSeq(data, 0 + 1, b)) = IF 0 < b THEN b - 0 ELSE 0
          /\ Files!Right(SubSeq(data, 0 + 1, b), v, At + 0)
      BY <3>1, RightPart
    <3>3. (IF 0 < b THEN b - 0 ELSE 0) \in Nat /\ (IF 0 < b THEN b - 0 ELSE 0) <= Need
      BY ONLY <1>1, <2>3, <3>1 DEF b
    <3> QED
      BY <3>2, <3>3 DEF b
  <2>5. At + 0 = rd.off + Len(rd.out) /\ rd.off \in Nat
    BY <1>1, SizesAssumption
  <2> HIDE DEF part
  <2>6. out \in Seq(Bytes) /\ Len(out) = Len(rd.out) + Len(part)
    BY <1>1, <2>4, ConcatProperties
  <2>7. Files!Right(out, v, rd.off)
    BY <1>1, <2>2, <2>4, <2>5, RightConcat
  <2>8. Len(out) <= rd.want
    BY <1>1, <2>4, <2>6, SizesAssumption
  <2>9. whole \in BOOLEAN
    OBVIOUS
  <2> HIDE DEF out, whole
  <2>10. ReadOK' /\ rd' \in Reads \cup {NotReading} /\ Files!Next
    <3>1. ~(size[rd.h] <= 0) /\ v \in seen[rd.h]..ver[rd.h] /\ (size[rd.h] > 0 => v = ver[rd.h])
      BY <1>2, <2>2
    <3> QED
      BY <2>1, <2>6, <2>7, <2>8, <2>9, <3>1, ExtendStep
  <2>11. cache' \in Caches
    BY <1>1, <2>1 DEF Caches
  <2>12. wide' = wide /\ size' = size /\ ver' = ver /\ known' = known /\ seen' = seen
    BY DEF device, tree
  <2>13. /\ cache'.handle = rd.h /\ cache'.start = At /\ cache'.data = data
    BY <2>1
  <2>14. Files!Right(data, v, At)
    BY <2>2
  <2>15. OfOne(v)'
    BY <1>2, <2>2, <2>12, <2>13, <2>14 DEF OfOne, Files!Right
  <2>16. CacheOK'
    BY <1>2, <2>2, <2>12, <2>13, <2>15 DEF CacheOK
  <2> QED
    BY <2>10, <2>11, <2>16, SameObjects DEF Inv
<1> QED
  BY <1>4, <1>5

\* read_from_device, in one request or two.
LEMMA ReadMissStep == ASSUME Inv, ReadMiss PROVE Inv' /\ Files!Next
<1> DEFINE s == SplitFinalRead(At, Ask, known[rd.h])
<1>1. /\ rd.on /\ UNCHANGED <<device, tree>>
      /\ \E data \in PartialRead(rd.h, At, s.first) :
            IF SecondRead(s, data)
            THEN \E tail \in PartialRead(rd.h, At + s.first, 1) : Filled(data \o tail)
            ELSE Filled(data)
  BY DEF ReadMiss
<1>2. rd.h \in Handles /\ At \in Nat /\ Ask \in Nat \ {0}
  BY <1>1, ReadContext, SizesAssumption
<1>3. s.first \in Nat
  BY <1>2 DEF SplitFinalRead
<1> HIDE DEF s
<1>4. PICK data \in PartialRead(rd.h, At, s.first) :
            IF SecondRead(s, data)
            THEN \E tail \in PartialRead(rd.h, At + s.first, 1) : Filled(data \o tail)
            ELSE Filled(data)
  BY <1>1
<1>5. data \in Seq(Bytes) /\ Files!Right(data, ver[rd.h], At) /\ (data # <<>> => size[rd.h] > 0)
  BY <1>2, <1>3, PartialReadIs DEF Inv
<1>6. CASE ~SecondRead(s, data)
  BY <1>1, <1>4, <1>5, <1>6, FilledStep
<1>7. CASE SecondRead(s, data)
  <2>1. PICK tail \in PartialRead(rd.h, At + s.first, 1) : Filled(data \o tail)
    BY <1>4, <1>7
  <2>2. Len(data) = s.first /\ At + s.first \in Nat
    BY <1>2, <1>3, <1>7 DEF SecondRead
  <2>3. /\ tail \in Seq(Bytes) /\ Files!Right(tail, ver[rd.h], At + s.first)
        /\ tail # <<>> => size[rd.h] > 0
    BY <1>2, <2>2, PartialReadIs DEF Inv
  <2>4. data \o tail \in Seq(Bytes) /\ Files!Right(data \o tail, ver[rd.h], At)
    BY <1>2, <1>5, <2>2, <2>3, RightConcat, ConcatProperties
  <2>5. data \o tail # <<>> => size[rd.h] > 0
    BY <1>5, <2>3, ConcatEmptySeq
  <2> QED
    BY <1>1, <2>1, <2>4, <2>5, FilledStep
<1> QED
  BY <1>6, <1>7

\* EIO gives the kernel nothing.
LEMMA GiveUpStep == ASSUME Inv, GiveUp PROVE Inv' /\ Files!Next
<1>1. cache \in Caches
  BY DEF Inv, TypeOK
<1> QED
  BY <1>1, SameObjects, SilentIsAsk DEF GiveUp, Inv, ReadOK, NotReading

\* A cache that holds nothing holds bytes of no other object.
LEMMA NoCacheOK == TypeOK /\ SeenOK /\ cache = NoCache => CacheOK
<1> SUFFICES ASSUME TypeOK, SeenOK, cache = NoCache, cache.handle \in Handles
             PROVE  \E v \in 0..ver[cache.handle] : OfOne(v)
  BY DEF CacheOK
<1>1. ver[cache.handle] \in 0..ver[cache.handle] /\ seen[cache.handle] <= ver[cache.handle]
  BY HandleTypes, SizesAssumption DEF SeenOK
<1>2. Files!Right(cache.data, ver[cache.handle], cache.start)
  BY RightEmpty DEF NoCache
<1> QED
  BY <1>1, <1>2 DEF OfOne

\* A listing meets an object whose bytes the cache holds, or no bytes.
LEMMA ListStep == ASSUME Inv, List PROVE Inv' /\ Files!Next
<1>1. /\ ~rd.on /\ rd' = rd /\ cache' = cache /\ wide' = wide /\ size' = size /\ ver' = ver
      /\ known' = [h \in Handles |-> IF size[h] = Gone THEN known[h] ELSE size[h]]
      /\ seen' = [h \in Handles |-> IF size[h] = Gone THEN seen[h] ELSE ver[h]]
      /\ answer' = NoAnswer
  BY DEF List, Idle, device
<1>2. TypeOK'
  BY <1>1 DEF Inv, TypeOK
<1>3. SeenOK'
  BY <1>1, HandleTypes DEF Inv, SeenOK
<1>4. CacheOK'
  <2> SUFFICES ASSUME cache.handle \in Handles
               PROVE  \E v \in 0..ver[cache.handle] : OfOne(v)'
    BY <1>1 DEF CacheOK
  <2>1. PICK v \in 0..ver[cache.handle] : OfOne(v)
    BY DEF Inv, CacheOK
  <2>2. Files!Right(cache.data, v, cache.start)'
    BY <1>1, <2>1 DEF OfOne, Files!Right
  <2>3. size[cache.handle] \in Int /\ size[cache.handle] >= Gone /\ ver[cache.handle] \in Int
    BY HandleTypes DEF Inv
  <2>4. known'[cache.handle] > 0 => seen'[cache.handle] <= v
    BY <1>1, <2>1, <2>3 DEF OfOne, Gone
  <2> QED
    BY <1>1, <2>1, <2>2, <2>4 DEF OfOne
<1>5. Files!List
  BY <1>1 DEF Files!List, Files!Gone, Gone, Files!NoAnswer, NoAnswer, Files!objects
<1> QED
  BY <1>1, <1>2, <1>3, <1>4, <1>5 DEF Inv, ReadOK, Files!Next

\* A delete that was answered drops the cache; one that was not leaves bytes
\* of the object that had the handle last.
LEMMA DeleteStep == ASSUME Inv, NEW h \in Handles, Delete(h) PROVE Inv' /\ Files!Next
<1>1. /\ ~rd.on /\ rd' = rd /\ wide' = wide /\ ver' = ver /\ known' = known /\ seen' = seen
      /\ size[h] # Gone /\ size' = [size EXCEPT ![h] = Gone] /\ answer' = NoAnswer
      /\ cache' = NoCache \/ cache' = cache
  BY DEF Delete, Idle, tree, AfterChange
<1>2. TypeOK'
  <2>1. size' \in [Handles -> {Gone} \cup 0..MaxSize]
    BY <1>1 DEF Inv, TypeOK
  <2>2. NoCache \in Caches
    BY SizesAssumption DEF NoCache, Caches
  <2> QED
    BY <1>1, <2>1, <2>2 DEF Inv, TypeOK
<1>3. SeenOK'
  BY <1>1 DEF Inv, SeenOK
<1>4. CacheOK'
  <2>1. CASE cache' = NoCache
    <3>1. (cache = NoCache)'
      BY <2>1
    <3> QED
      BY <1>2, <1>3, <3>1, NoCacheOK, PTL
  <2>2. CASE cache' = cache
    <3>1. \A v : Files!Right(cache.data, v, cache.start) => Files!Right(cache.data, v, cache.start)'
      BY <1>1, <2>2 DEF Files!Right
    <3>2. \A g \in Handles : size'[g] > 0 => size[g] > 0
      BY <1>1 DEF Inv, TypeOK, Gone
    <3> QED
      BY <1>1, <2>2, <3>1, <3>2 DEF Inv, CacheOK, OfOne
  <2> QED
    BY <1>1, <2>1, <2>2
<1>5. Files!Remove(h)
  BY <1>1 DEF Files!Remove, Files!Gone, Gone, Files!NoAnswer, NoAnswer, Files!listing
<1> QED
  BY <1>1, <1>2, <1>3, <1>4, <1>5 DEF Inv, ReadOK, Files!Next

\* A send whose first answer is lost leaves an empty object: the cache may
\* hold bytes of an earlier one, and they are not taken for its own.
LEMMA SendStep ==
    ASSUME Inv, NEW h \in Handles, NEW n \in 0..MaxSize, Send(h, n)
    PROVE  Inv' /\ Files!Next
<1>1. /\ ~rd.on /\ rd' = rd /\ wide' = wide /\ known' = known /\ seen' = seen /\ answer' = NoAnswer
      /\ size[h] = Gone /\ ver[h] < MaxVersion /\ ver' = [ver EXCEPT ![h] = ver[h] + 1]
      /\ \/ size' = [size EXCEPT ![h] = n] /\ cache' = NoCache
         \/ size' = [size EXCEPT ![h] = 0] /\ cache' = cache
  BY DEF Send, Idle, tree, AfterChange
<1>2. /\ ver[h] \in Nat /\ ver[h] + 1 \in 0..MaxVersion /\ 0 \in 0..MaxSize
      /\ \A g \in Handles : ver[g] \in Nat /\ ver'[g] \in Nat /\ ver'[g] >= ver[g]
  BY <1>1, SizesAssumption DEF Inv, TypeOK
<1>3. TypeOK'
  <2>1. size' \in [Handles -> {Gone} \cup 0..MaxSize] /\ ver' \in [Handles -> 0..MaxVersion]
    BY <1>1, <1>2 DEF Inv, TypeOK
  <2>2. NoCache \in Caches
    BY SizesAssumption DEF NoCache, Caches
  <2> QED
    BY <1>1, <2>1, <2>2 DEF Inv, TypeOK
<1>4. SeenOK'
  <2>1. \A g \in Handles : seen[g] \in Nat
    BY SizesAssumption DEF Inv, TypeOK
  <2> QED
    BY <1>1, <1>2, <2>1 DEF Inv, SeenOK
<1>5. CacheOK'
  <2>1. CASE cache' = NoCache
    <3>1. (cache = NoCache)'
      BY <2>1
    <3> QED
      BY <1>3, <1>4, <3>1, NoCacheOK, PTL
  <2>2. CASE size' = [size EXCEPT ![h] = 0] /\ cache' = cache
    <3>1. \A v : Files!Right(cache.data, v, cache.start) => Files!Right(cache.data, v, cache.start)'
      BY <1>1, <2>2 DEF Files!Right
    <3>2. \A g \in Handles : size'[g] > 0 => size[g] > 0 /\ ver'[g] = ver[g]
      BY <1>1, <2>2 DEF Inv, TypeOK
    <3>3. \A g \in Handles : 0..ver[g] \subseteq 0..ver'[g]
      BY <1>2
    <3> QED
      BY <1>1, <2>2, <3>1, <3>2, <3>3 DEF Inv, CacheOK, OfOne
  <2> QED
    BY <1>1, <2>1, <2>2
<1>6. Files!Make(h, n) \/ Files!Make(h, 0)
  BY <1>1 DEF Files!Make, Files!Gone, Gone, Files!NoAnswer, NoAnswer, Files!listing
<1> QED
  BY <1>1, <1>2, <1>3, <1>4, <1>5, <1>6 DEF Inv, ReadOK, Files!Next

\* At first nothing is cached and no read runs.
LEMMA InitInv == Init => Inv /\ Files!Init
<1> SUFFICES ASSUME Init PROVE Inv /\ Files!Init
  OBVIOUS
<1>1. TypeOK
  BY SizesAssumption DEF Init, TypeOK, Caches, NoCache
<1>2. SeenOK
  <2>1. ASSUME NEW h \in Handles PROVE seen[h] <= ver[h]
    <3>1. seen[h] = ver[h] /\ ver[h] \in 0..MaxVersion
      BY <1>1, HandleTypes DEF Init
    <3> QED
      BY ONLY <3>1, SizesAssumption
  <2> QED
    BY <2>1 DEF SeenOK
<1>3. CacheOK
  BY <1>1, <1>2, NoCacheOK DEF Init
<1>4. ReadOK
  BY DEF Init, ReadOK, NotReading
<1>5. Files!Init
  BY DEF Init, Files!Init, Files!Gone, Gone, Files!NoAnswer, NoAnswer
<1> QED
  BY <1>1, <1>2, <1>3, <1>4, <1>5 DEF Inv

\* Every step keeps the invariant and is a step of FileReads or leaves its
\* variables.
LEMMA NextStep == Inv /\ [Next]_vars => Inv' /\ [Files!Next]_(Files!vars)
<1> SUFFICES ASSUME Inv, [Next]_vars PROVE Inv' /\ (Files!Next \/ UNCHANGED Files!vars)
  OBVIOUS
<1>1. CASE UNCHANGED vars
  <2>1. /\ wide' = wide /\ size' = size /\ ver' = ver /\ known' = known /\ seen' = seen
        /\ cache' = cache /\ rd' = rd /\ answer' = answer
    BY <1>1 DEF vars
  <2>2. TypeOK' /\ SeenOK'
    BY <2>1 DEF Inv, TypeOK, SeenOK
  <2>3. CacheOK'
    BY <2>1 DEF Inv, CacheOK, OfOne, Files!Right
  <2>4. ReadOK'
    BY <2>1 DEF Inv, ReadOK, Mixed, Files!Right, At
  <2> QED
    BY <2>1, <2>2, <2>3, <2>4 DEF Inv, Files!vars
<1>2. ASSUME NEW h \in Handles, NEW off \in 0..MaxSize, NEW n \in 0..MaxWant, OpRead(h, off, n)
      PROVE  Inv' /\ Files!Next
  BY <1>2, OpReadStep
<1>3. CASE ReadHit
  BY <1>3, ReadHitStep
<1>4. CASE ReadMiss
  BY <1>4, ReadMissStep
<1>5. CASE ReadGone \/ ReadFails
  BY <1>5, GiveUpStep DEF ReadGone, ReadFails
<1>6. CASE List
  BY <1>6, ListStep
<1>7. ASSUME NEW h \in Handles, Delete(h) PROVE Inv' /\ Files!Next
  BY <1>7, DeleteStep
<1>8. ASSUME NEW h \in Handles, NEW n \in 0..MaxSize, Send(h, n) PROVE Inv' /\ Files!Next
  BY <1>8, SendStep
<1> QED
  BY <1>1, <1>2, <1>3, <1>4, <1>5, <1>6, <1>7, <1>8 DEF Next, ReadStep

-----------------------------------------------------------------------------
(* The theorems.                                                           *)

\* Every behaviour of the read path keeps the invariant.
LEMMA Invariance == Spec => []Inv
<1>1. Init => Inv
  BY InitInv
<1>2. Inv /\ [Next]_vars => Inv'
  BY NextStep
<1> QED
  BY <1>1, <1>2, PTL DEF Spec

\* Every variable of the read path keeps its type: a read stays within the
\* file the listing knows, however short the answers of the cellphone are.
THEOREM ReadPathTypeCorrect == Spec => []TypeOK
<1>1. Inv => TypeOK
  BY DEF Inv
<1> QED
  BY <1>1, Invariance, PTL

\* The cache never holds bytes of an object other than the one with bytes
\* that has its handle: deletes and sends whose answers are lost included.
THEOREM CacheHoldsTheObject == Spec => []CacheIsRight
<1>1. Inv => CacheIsRight
  BY DEF Inv, CacheOK, OfOne, CacheIsRight
<1> QED
  BY <1>1, Invariance, PTL

\* The read path implements FileReads: with its cache, its loop, its reads
\* ahead and its split of the last read, a program cannot tell a read from one
\* step that takes bytes of one object.
THEOREM ReadsAreAtomic == Spec => ImplementsFileReads
<1>1. Init => Files!Init
  BY InitInv
<1>2. Inv /\ [Next]_vars => [Files!Next]_(Files!vars)
  BY NextStep
<1> QED
  BY <1>1, <1>2, Invariance, PTL DEF Spec, ImplementsFileReads, Files!Spec
=============================================================================
