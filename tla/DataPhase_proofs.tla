-------------------------- MODULE DataPhase_proofs --------------------------
(***************************************************************************)
(* What TLAPS proves of the data phases, for every size of a payload, a    *)
(* packet, a chunk, a buffer and an answer.                                *)
(***************************************************************************)
EXTENDS DataPhase, Integers, SequenceTheorems, WellFoundedInduction, TLAPS

-----------------------------------------------------------------------------
(* Arithmetic.                                                             *)

\* Division with the quotient and the remainder as names.
LEMMA DivModNamed ==
    ASSUME NEW n \in Nat, NEW p \in Nat \ {0},
           NEW q \in Int, q = n \div p, NEW r \in Int, r = n % p
    PROVE  n = q * p + r
OBVIOUS

\* A number is its quotient times the divisor, and a remainder below it.
LEMMA DivMod ==
    ASSUME NEW n \in Nat, NEW p \in Nat \ {0}
    PROVE  n = (n \div p) * p + (n % p) /\ n % p \in 0..(p - 1) /\ n \div p \in Nat
<1> DEFINE q == n \div p
           r == n % p
<1>1. n % p \in 0..(p - 1) /\ n \div p \in Nat
  OBVIOUS
<1>2. q \in Int /\ r \in Int /\ q = n \div p /\ r = n % p
  BY <1>1
<1>3. n = q * p + r
  <2> HIDE DEF q, r
  <2> QED BY <1>2, DivModNamed
<1>4. n = (n \div p) * p + (n % p)
  BY <1>3, Zenon
<1> QED
  BY <1>1, <1>4, Zenon

\* There is one quotient and one remainder.
LEMMA DivUnique ==
    ASSUME NEW p \in Nat \ {0}, NEW q \in Nat, NEW r \in 0..(p - 1)
    PROVE  (q * p + r) \div p = q /\ (q * p + r) % p = r
OBVIOUS

\* A product grows with its factors.
LEMMA Grows ==
    ASSUME NEW a \in Nat, NEW b \in Nat, NEW p \in Nat, a <= b
    PROVE  a * p <= b * p /\ p * a <= p * b
OBVIOUS

\* Whole packets before some bytes do not change what is left of them.
LEMMA SumMod ==
    ASSUME NEW p \in Nat \ {0}, NEW a \in Nat, NEW b \in Nat, a % p = 0
    PROVE  (a + b) % p = b % p
<1> DEFINE q == a \div p
           s == b \div p
           r == b % p
<1>1. a = q * p + 0 /\ q \in Nat
  BY DivMod
<1>2. b = s * p + r /\ s \in Nat /\ r \in 0..(p - 1)
  BY DivMod
<1>3. r = b % p
  OBVIOUS
<1> HIDE DEF q, s, r
<1>4. a + b = (q + s) * p + r
  BY <1>1, <1>2
<1>5. ((q + s) * p + r) % p = r
  BY <1>1, <1>2, DivUnique
<1> QED
  BY <1>3, <1>4, <1>5

\* A larger number has no smaller quotient.
LEMMA DivGrows ==
    ASSUME NEW p \in Nat \ {0}, NEW n \in Nat, NEW k \in Nat, k * p <= n
    PROVE  k <= n \div p
<1> DEFINE q == n \div p
           r == n % p
<1>1. n = q * p + r /\ r \in 0..(p - 1) /\ q \in Nat
  BY DivMod
<1> HIDE DEF q, r
<1>2. SUFFICES ASSUME q + 1 <= k PROVE FALSE
  BY <1>1 DEF q
<1>3. (q + 1) * p <= k * p
  BY <1>1, <1>2, Grows
<1>4. (q + 1) * p = q * p + p
  BY <1>1
<1> DEFINE x == q * p
           y == k * p
<1>5. x \in Nat /\ y \in Nat /\ (q + 1) * p = x + p /\ x + p <= y /\ y <= n /\ n = x + r
  BY <1>1, <1>3, <1>4
<1> HIDE DEF x, y
<1> QED
  BY <1>1, <1>5

\* next_multiple_of is not below its number.
LEMMA NextMultipleIs ==
    ASSUME NEW n \in Nat \ {0}, NEW p \in Nat \ {0}
    PROVE  NextMultiple(n, p) \in Nat /\ NextMultiple(n, p) >= n
<1> DEFINE m == n + p - 1
           q == m \div p
           r == m % p
<1>1. m \in Nat
  OBVIOUS
<1>2. m = q * p + r /\ r \in 0..(p - 1) /\ q \in Nat
  <2> HIDE DEF m
  <2> QED BY <1>1, DivMod
<1>3. NextMultiple(n, p) = q * p
  BY DEF NextMultiple
<1> HIDE DEF q, r
<1> DEFINE x == q * p
<1>4. x \in Nat /\ n + p - 1 = x + r
  BY <1>2
<1> HIDE DEF x
<1>5. x >= n
  BY <1>2, <1>4
<1> QED
  BY <1>3, <1>4, <1>5 DEF x

\* Config::normalised gives a chunk that is whole packets and holds more than
\* the header.
LEMMA NormalChunkIs ==
    ASSUME NEW c \in Nat, NEW p \in Nat \ {0}
    PROVE  /\ NormalChunk(c, p) \in Nat /\ NormalChunk(c, p) > HeaderLen
           /\ NormalChunk(c, p) % p = 0
<1> DEFINE few == NextMultiple(HeaderLen + 1, p)
           least == Greatest(c, few)
           k == (HeaderLen + 1 + p - 1) \div p
           q == least \div p
           r == least % p
<1>1. few \in Nat /\ few >= HeaderLen + 1
  BY NextMultipleIs, SizesAssumption
<1>2. least \in Nat /\ least >= few
  <2> HIDE DEF few
  <2> QED BY <1>1 DEF Greatest
<1>3. few = k * p
  BY DEF NextMultiple
<1>4. k \in Nat
  BY DivMod, SizesAssumption
<1> HIDE DEF few, k
<1>5. least = q * p + r /\ r \in 0..(p - 1) /\ q \in Nat
  <2> HIDE DEF least
  <2> QED BY <1>2, DivMod
<1>6. k <= q
  <2> HIDE DEF least
  <2> QED BY <1>2, <1>3, <1>4, DivGrows
<1>7. NormalChunk(c, p) = least - r
  BY DEF NormalChunk, few
<1> HIDE DEF least, q, r
<1>8. NormalChunk(c, p) = q * p + 0
  BY <1>5, <1>7
<1>9. k * p <= q * p /\ (q * p + 0) % p = 0
  BY <1>4, <1>5, <1>6, Grows, DivUnique
<1> DEFINE x == q * p
           y == k * p
<1>10. x \in Nat /\ y \in Nat /\ y <= x /\ y >= HeaderLen + 1 /\ NormalChunk(c, p) = x
  BY <1>1, <1>3, <1>4, <1>5, <1>8, <1>9
<1>11. NormalChunk(c, p) % p = 0
  BY <1>8, <1>9
<1> HIDE DEF x, y
<1> QED
  BY <1>10, <1>11, SizesAssumption

-----------------------------------------------------------------------------
(* Packets in the endpoint.                                                *)

Kinds == {"data", "response"}
Pkt == [n: 0..packet, of: Kinds]

\* A function on 1..n is a sequence of length n.
LEMMA FunctionIsSeq ==
    ASSUME NEW S, NEW n \in Nat, NEW f \in [1..n -> S]
    PROVE  f \in Seq(S) /\ Len(f) = n
<1>1. f \in Seq(S)
  OBVIOUS
<1>2. DOMAIN f = 1..Len(f) /\ Len(f) \in Nat
  BY <1>1, LenProperties
<1> QED
  BY <1>1, <1>2

\* What a concatenation holds before and behind the joint.
LEMMA Joined ==
    ASSUME NEW S, NEW s \in Seq(S), NEW t \in Seq(S), NEW m \in Nat, Len(s) = m
    PROVE  /\ s \o t \in Seq(S) /\ Len(t) \in Nat /\ Len(s \o t) = m + Len(t)
           /\ \A i \in 1..m : (s \o t)[i] = s[i]
           /\ \A i \in 1..Len(t) : (s \o t)[m + i] = t[i]
<1>1. Len(t) \in Nat
  BY LenProperties
<1>2. /\ s \o t \in Seq(S) /\ Len(s \o t) = m + Len(t)
      /\ \A i \in 1..(m + Len(t)) : (s \o t)[i] = IF i <= m THEN s[i] ELSE t[i - m]
  BY ConcatProperties
<1>3. ASSUME NEW i \in 1..m PROVE (s \o t)[i] = s[i]
  BY <1>1, <1>2
<1>4. ASSUME NEW i \in 1..Len(t) PROVE (s \o t)[m + i] = t[i]
  <2>1. m + i \in 1..(m + Len(t)) /\ ~(m + i <= m) /\ (m + i) - m = i
    BY <1>1
  <2> QED
    BY <1>2, <2>1
<1> QED
  BY <1>1, <1>2, <1>3, <1>4

\* What is left of a sequence behind its first m elements.
LEMMA Behind ==
    ASSUME NEW S, NEW s \in Seq(S), NEW m \in Nat, m <= Len(s)
    PROVE  /\ SubSeq(s, m + 1, Len(s)) \in Seq(S)
           /\ Len(SubSeq(s, m + 1, Len(s))) = Len(s) - m
           /\ \A i \in 1..(Len(s) - m) : SubSeq(s, m + 1, Len(s))[i] = s[m + i]
<1> DEFINE u == SubSeq(s, m + 1, Len(s))
<1>1. Len(s) \in Nat /\ \A i \in (m + 1)..Len(s) : s[i] \in S
  BY LenProperties, ElementOfSeq
<1>2. /\ u \in Seq(S) /\ Len(u) = IF m + 1 <= Len(s) THEN Len(s) - (m + 1) + 1 ELSE 0
      /\ \A i \in 1..(Len(s) - (m + 1) + 1) : u[i] = s[(m + 1) + i - 1]
  BY <1>1, SubSeqProperties
<1> HIDE DEF u
<1>3. ASSUME NEW i \in 1..(Len(s) - m) PROVE u[i] = s[m + i]
  <2>1. i \in 1..(Len(s) - (m + 1) + 1) /\ (m + 1) + i - 1 = m + i
    BY <1>1
  <2> QED
    BY <1>2, <2>1
<1> QED
  BY <1>1, <1>2, <1>3 DEF u

\* A transfer is full packets and a short one.
LEMMA TransferIs ==
    ASSUME packet \in Nat \ {0}, NEW a \in Nat, NEW of \in Kinds
    PROVE  /\ Transfer(a, of) \in Seq(Pkt) /\ Len(Transfer(a, of)) = (a \div packet) + 1
           /\ \A i \in 1..(a \div packet) : Transfer(a, of)[i] = [n |-> packet, of |-> of]
           /\ Transfer(a, of)[(a \div packet) + 1] = [n |-> a % packet, of |-> of]
<1> DEFINE q == a \div packet
           r == a % packet
           f == [i \in 1..(q + 1) |-> [n |-> IF i <= q THEN packet ELSE r, of |-> of]]
<1>1. q \in Nat /\ r \in 0..(packet - 1)
  BY DivMod
<1>2. Transfer(a, of) = f
  BY DEF Transfer
<1> HIDE DEF q, r
<1>3. f \in [1..(q + 1) -> Pkt]
  BY <1>1 DEF Pkt
<1>4. f \in Seq(Pkt) /\ Len(f) = q + 1
  <2> HIDE DEF f
  <2> QED BY <1>1, <1>3, FunctionIsSeq
<1>5. ASSUME NEW i \in 1..q PROVE f[i] = [n |-> packet, of |-> of]
  BY <1>1
<1>6. f[q + 1] = [n |-> r, of |-> of]
  BY <1>1
<1> QED
  BY <1>2, <1>4, <1>5, <1>6 DEF q, r

\* A line that begins with a transfer, and what is left of one from a place on.
Holds(s, a, of, rest) == s = Transfer(a, of) \o rest
From(s, next) == SubSeq(s, next, Len(s))

\* The first short packet of a line is the last of its first transfer.
LEMMA FirstShortIs ==
    ASSUME packet \in Nat \ {0}, NEW a \in Nat, NEW of \in Kinds, NEW rest \in Seq(Pkt),
           Holds(line, a, of, rest)
    PROVE  /\ Short # {} /\ FirstShort = (a \div packet) + 1
           /\ line[FirstShort].n = a % packet
           /\ line # <<>> /\ line[1].of = of
           /\ line \in Seq(Pkt) /\ (a \div packet) + 1 <= Len(line)
<1> line = Transfer(a, of) \o rest
  BY DEF Holds
<1> DEFINE q == a \div packet
           r == a % packet
           t == Transfer(a, of)
<1>1. q \in Nat /\ r \in 0..(packet - 1)
  BY DivMod
<1>2. /\ t \in Seq(Pkt) /\ Len(t) = q + 1
      /\ \A i \in 1..q : t[i] = [n |-> packet, of |-> of]
      /\ t[q + 1] = [n |-> r, of |-> of]
  BY TransferIs
<1> HIDE DEF q, r
<1>3. /\ line \in Seq(Pkt) /\ Len(rest) \in Nat /\ Len(line) = (q + 1) + Len(rest)
      /\ \A i \in 1..(q + 1) : line[i] = t[i]
  <2> HIDE DEF t
  <2>1. q + 1 \in Nat
    BY <1>1
  <2> QED BY <1>2, <2>1, Joined, SMTT(60) DEF t
<1> HIDE DEF t
<1>4. line[q + 1].n = r /\ line[q + 1].of = of
  <2>1. line[q + 1] = [n |-> r, of |-> of]
    BY <1>1, <1>2, <1>3
  <2> QED
    BY ONLY <2>1
<1>5. ASSUME NEW i \in 1..q PROVE line[i].n = packet /\ line[i].of = of
  <2>1. line[i] = [n |-> packet, of |-> of]
    BY <1>1, <1>2, <1>3
  <2> QED
    BY ONLY <2>1
<1>6. q + 1 \in Short /\ \A j \in Short : q + 1 <= j
  <2>1. q + 1 \in Short
    BY <1>1, <1>3, <1>4 DEF Short
  <2>2. ASSUME NEW j \in Short, j < q + 1 PROVE FALSE
    <3>1. j \in 1..q /\ line[j].n < packet
      BY <1>1, <2>2, <1>3 DEF Short
    <3>2. line[j].n = packet
      BY ONLY <1>5, <3>1
    <3> QED
      BY <3>1, <3>2
  <2>3. \A j \in Short : j \in Int
    BY <1>1, <1>3 DEF Short
  <2> QED
    BY <1>1, <2>1, <2>2, <2>3
<1>7. FirstShort = q + 1
  <2>1. FirstShort \in Short /\ \A j \in Short : FirstShort <= j
    BY <1>6 DEF FirstShort
  <2>2. FirstShort \in Int
    BY <1>1, <1>3, <2>1 DEF Short
  <2> QED
    BY <1>1, <1>6, <2>1, <2>2
<1>8. line # <<>>
  BY <1>1, <1>3, EmptySeq
<1>9. line[1].of = of
  <2>1. CASE q = 0
    <3>1. q + 1 = 1
      BY <2>1
    <3> QED
      BY ONLY <1>4, <3>1
  <2>2. CASE q # 0
    <3>1. 1 \in 1..q
      BY <1>1, <2>2
    <3> QED
      BY ONLY <1>5, <3>1
  <2> QED
    BY <2>1, <2>2
<1> QED
  BY <1>1, <1>3, <1>4, <1>6, <1>7, <1>8, <1>9, SMTT(60) DEF q, r

\* A read that ends with the short packet takes the whole first transfer.
LEMMA DropTransfer ==
    ASSUME packet \in Nat \ {0}, NEW a \in Nat, NEW of \in Kinds, NEW rest \in Seq(Pkt),
           Holds(line, a, of, rest)
    PROVE  From(line, ((a \div packet) + 1) + 1) = rest
<1> line = Transfer(a, of) \o rest
  BY DEF Holds
<1> DEFINE m == (a \div packet) + 1
           t == Transfer(a, of)
           s == SubSeq(line, m + 1, Len(line))
<1>1. m \in Nat /\ t \in Seq(Pkt) /\ Len(t) = m
  <2>1. a \div packet \in Nat
    BY DivMod
  <2>2. t \in Seq(Pkt) /\ Len(t) = (a \div packet) + 1
    BY TransferIs
  <2>3. m \in Nat
    BY <2>1
  <2> QED
    BY <2>2, <2>3, Zenon
<1> HIDE DEF m, t
<1>2. /\ line \in Seq(Pkt) /\ Len(rest) \in Nat /\ Len(line) = m + Len(rest)
      /\ \A i \in 1..Len(rest) : line[m + i] = rest[i]
  BY <1>1, Joined DEF t
<1>3. m <= Len(line) /\ Len(line) - m = Len(rest)
  BY <1>1, <1>2
<1>4. s \in Seq(Pkt) /\ Len(s) = Len(rest) /\ \A i \in 1..Len(rest) : s[i] = line[m + i]
  BY <1>1, <1>2, <1>3, Behind, SMTT(60)
<1> HIDE DEF s
<1>5. s = rest
  BY <1>2, <1>4, SeqEqual
<1> QED
  BY <1>5 DEF s, m, From

\* A read that fills the buffer with k packets leaves the rest of the first
\* transfer.
LEMMA DropPackets ==
    ASSUME packet \in Nat \ {0}, NEW a \in Nat, NEW of \in Kinds, NEW rest \in Seq(Pkt),
           Holds(line, a, of, rest),
           NEW next \in Nat \ {0}, NEW b \in Nat,
           a \div packet = (next - 1) + (b \div packet), a % packet = b % packet
    PROVE  Holds(From(line, next), b, of, rest)
<1> line = Transfer(a, of) \o rest
  BY DEF Holds
<1> DEFINE q == a \div packet
           r == a % packet
           k == next - 1
           l == b \div packet
           t == Transfer(a, of)
           u == Transfer(b, of)
           s == SubSeq(line, k + 1, Len(line))
<1>1. l \in Nat /\ k \in Nat
  <2>1. l \in Nat
    BY DivMod
  <2> QED
    BY <2>1
<1>2. /\ t \in Seq(Pkt) /\ Len(t) = q + 1
      /\ \A i \in 1..q : t[i] = [n |-> packet, of |-> of]
      /\ t[q + 1] = [n |-> r, of |-> of]
  BY TransferIs
<1>3. q = k + l /\ r = b % packet
  OBVIOUS
<1>4. q \in Nat
  BY <1>1, <1>3
<1>5. b \div packet = l /\ b % packet = r
  BY <1>3
<1> HIDE DEF q, r, l, k, t
<1>6. /\ u \in Seq(Pkt) /\ Len(u) = l + 1
      /\ \A i \in 1..l : u[i] = [n |-> packet, of |-> of]
      /\ u[l + 1] = [n |-> r, of |-> of]
  BY <1>5, TransferIs
<1> HIDE DEF u
<1>7. /\ line \in Seq(Pkt) /\ Len(rest) \in Nat /\ Len(line) = (q + 1) + Len(rest)
      /\ \A i \in 1..(q + 1) : line[i] = t[i]
      /\ \A i \in 1..Len(rest) : line[(q + 1) + i] = rest[i]
  <2> DEFINE d == q + 1
  <2>1. d \in Nat /\ Len(t) = d /\ line = t \o rest
    BY <1>2, <1>4 DEF t
  <2> HIDE DEF d
  <2>2. /\ line \in Seq(Pkt) /\ Len(rest) \in Nat /\ Len(line) = d + Len(rest)
        /\ \A i \in 1..d : line[i] = t[i]
        /\ \A i \in 1..Len(rest) : line[d + i] = rest[i]
    <3>1. t \in Seq(Pkt) /\ rest \in Seq(Pkt)
      BY <1>2
    <3> QED
      BY ONLY <2>1, <3>1, Joined, SMTT(60)
  <2> QED
    BY <2>2 DEF d
<1>8. /\ u \o rest \in Seq(Pkt) /\ Len(u \o rest) = (l + 1) + Len(rest)
      /\ \A i \in 1..(l + 1) : (u \o rest)[i] = u[i]
      /\ \A i \in 1..Len(rest) : (u \o rest)[(l + 1) + i] = rest[i]
  <2> DEFINE d == l + 1
  <2>1. d \in Nat /\ Len(u) = d
    BY <1>1, <1>6
  <2> HIDE DEF d
  <2>2. /\ u \o rest \in Seq(Pkt) /\ Len(u \o rest) = d + Len(rest)
        /\ \A i \in 1..d : (u \o rest)[i] = u[i]
        /\ \A i \in 1..Len(rest) : (u \o rest)[d + i] = rest[i]
    <3>1. u \in Seq(Pkt) /\ rest \in Seq(Pkt)
      BY <1>6
    <3> QED
      BY ONLY <2>1, <3>1, Joined, SMTT(60)
  <2> QED
    BY <2>2 DEF d
<1>9. k <= Len(line) /\ Len(line) - k = (l + 1) + Len(rest)
  BY <1>1, <1>3, <1>7, SMTT(60)
<1>10. s \in Seq(Pkt) /\ Len(s) = (l + 1) + Len(rest) /\ \A i \in 1..((l + 1) + Len(rest)) : s[i] = line[k + i]
  <2>1. k \in Nat /\ line \in Seq(Pkt) /\ k <= Len(line)
    BY <1>1, <1>7, <1>9
  <2>2. s \in Seq(Pkt) /\ Len(s) = Len(line) - k /\ \A i \in 1..(Len(line) - k) : s[i] = line[k + i]
    BY ONLY <2>1, Behind
  <2> QED
    BY ONLY <1>9, <2>2
<1> HIDE DEF s
<1>11. ASSUME NEW i \in 1..((l + 1) + Len(rest)) PROVE s[i] = (u \o rest)[i]
  <2>1. CASE i <= l
    <3>1. k + i \in 1..q /\ k + i \in 1..(q + 1) /\ i \in 1..l /\ i \in 1..(l + 1)
      BY <1>1, <1>3, <2>1
    <3>2. s[i] = line[k + i] /\ line[k + i] = t[k + i] /\ t[k + i] = [n |-> packet, of |-> of]
      BY <1>2, <1>7, <1>10, <3>1
    <3>3. (u \o rest)[i] = u[i] /\ u[i] = [n |-> packet, of |-> of]
      BY <1>6, <1>8, <3>1
    <3> QED
      BY <3>2, <3>3
  <2>2. CASE i = l + 1
    <3>1. k + i = q + 1 /\ q + 1 \in 1..(q + 1) /\ i \in 1..(l + 1)
      BY <1>1, <1>3, <2>2
    <3>2. s[i] = line[k + i] /\ line[k + i] = t[q + 1]
      BY <1>7, <1>10, <3>1
    <3>3. (u \o rest)[i] = u[l + 1]
      BY <1>8, <2>2, <3>1
    <3> QED
      BY <1>2, <1>6, <3>2, <3>3
  <2>3. CASE i > l + 1
    <3> DEFINE j == i - (l + 1)
    <3>1. j \in 1..Len(rest) /\ k + i = (q + 1) + j /\ i = (l + 1) + j
      BY <1>1, <1>3, <1>7, <2>3
    <3> HIDE DEF j
    <3>2. s[i] = line[k + i] /\ line[k + i] = rest[j]
      BY <1>7, <1>10, <3>1
    <3>3. (u \o rest)[i] = rest[j]
      BY <1>8, <3>1
    <3> QED
      BY <3>2, <3>3
  <2>4. i <= l \/ i = l + 1 \/ i > l + 1
    BY <1>1, <1>7, SMTT(60)
  <2> QED
    BY ONLY <2>1, <2>2, <2>3, <2>4
<1>12. s = u \o rest
  <2> DEFINE w == u \o rest
  <2> HIDE DEF w
  <2>1. w \in Seq(Pkt) /\ Len(w) = Len(s) /\ \A i \in 1..Len(s) : s[i] = w[i]
    BY <1>8, <1>10, <1>11 DEF w
  <2> QED
    BY <1>10, <2>1, SeqEqual DEF w
<1>13. k + 1 = next
  BY DEF k
<1> QED
  BY <1>12, <1>13 DEF s, u, Holds, From

-----------------------------------------------------------------------------
(* The inductive invariant.                                                *)

\* Sending. Up to the last write the cellphone got whole packets, so that the
\* last write alone can end the data phase, and each turn of the loop writes
\* one chunk.
Before == {"command", "refused", "first", "loop", "short", "answer"}
SendOK ==
    /\ chunk % packet = 0
    /\ pc \in {"command", "first"} => got = 0 /\ ~ended /\ sent = 0 /\ round = 0
    /\ pc \in {"first", "loop"} => sends /\ ~TooLarge(size)
    /\ pc = "loop" => /\ got = HeaderLen + sent
                      /\ ended <=> got % packet # 0
                      /\ sent < size => got % packet = 0 /\ round * chunk <= sent
    /\ EndsOnlyWhole /\ EndIsSeen

\* What is in the endpoint before the first read: a response, or data in one
\* transfer or two.
Responses == {<<>>, Transfer(HeaderLen, "response")}
OnlyResponse == Holds(line, HeaderLen, "response", <<>>) /\ whole
OneTransfer(a, rest) ==
    /\ Holds(line, a, "data", rest) /\ a = given
    /\ whole => a = length /\ rest # <<>>
TwoTransfers(b, rest) ==
    /\ Holds(line, HeaderLen, "data", Transfer(b, "data") \o rest) /\ HeaderLen + b = given
    /\ whole => HeaderLen + b = length /\ rest # <<>> /\ HeaderLen % packet # 0
ReadLine ==
    \/ OnlyResponse
    \/ /\ ~sends
       /\ \/ \E a \in Nat, rest \in Responses : HeaderLen <= a /\ OneTransfer(a, rest)
          \/ \E b \in Nat, rest \in Responses : TwoTransfers(b, rest)

\* What is in it while the host joins the data: the end of the data, with so
\* many bytes taken that the bound of the loop is far; all of it is taken; or
\* what cannot end well, because nothing comes next.
JoinData(a, rest) ==
    /\ Holds(line, a, "data", rest)
    /\ have + a = given /\ HeaderLen + round * buffer <= have
    /\ whole => given = length /\ rest # <<>>
JoinTaken == line \in Responses /\ have = given /\ (whole => given = length /\ line # <<>>)
JoinHopeless == ~whole /\ line = <<>>
JoinLine ==
    \/ \E a \in Nat, rest \in Responses : JoinData(a, rest)
    \/ JoinTaken
    \/ JoinHopeless

AnswerOK ==
    /\ pc \in Before => ~whole
    /\ pc \in Before \cup {"read"} => have = 0
    /\ pc \in {"answer", "read"} => round = 0
    /\ pc = "read" => ReadLine
    /\ pc = "join" => JoinLine /\ ~sends /\ length <= MaxData
    /\ pc = "check" => ~sends /\ have < length /\ (whole => Misfit)
    /\ RoundsSuffice /\ AnswerIsWhole /\ WholeIsTaken

Inv == TypeOK /\ SendOK /\ AnswerOK

\* What the endpoint can hold when no size misfits: reads that come back with
\* bytes take all of it, and x is no fewer bytes than so many reads of the
\* smallest buffer have room for.
Clean(s, x) ==
    \/ s = <<>>
    \/ Holds(s, HeaderLen, "response", <<>>) /\ MinBuffer <= x
    \/ \E a \in Nat, rest \in Responses :
         Holds(s, a, "data", rest) /\ a % buffer # 0 /\ a + MinBuffer <= x
    \/ \E b \in Nat, rest \in Responses :
         /\ Holds(s, HeaderLen, "data", Transfer(b, "data") \o rest)
         /\ b % buffer # 0 /\ b + 2 * MinBuffer <= x
LineOK == Misfit \/ Clean(line, given + 2 * MinBuffer)

\* While drain reads, what is left fits into the reads that it has left.
Room == (MaxReadRounds - round) * MinBuffer
DrainOK ==
    /\ pc = "drain" => /\ round <= MaxReadRounds
                       /\ Misfit \/ given + 2 * MinBuffer > MaxData \/ Clean(line, Room)
    /\ DrainEmpties

IInv == Inv /\ LineOK /\ DrainOK

-----------------------------------------------------------------------------
(* One read.                                                               *)

\* The first short packet is one of the line.
LEMMA FirstShortType ==
    ASSUME line \in Seq(Pkt), packet \in Nat \ {0}, Short # {}
    PROVE  FirstShort \in 1..Len(line) /\ line[FirstShort].n \in Nat
<1>1. Len(line) \in Nat /\ \A i \in 1..Len(line) : line[i] \in Pkt
  BY LenProperties, ElementOfSeq
<1>2. Short \subseteq Nat /\ \A i \in Short : i \in 1..Len(line)
  BY <1>1 DEF Short
<1>3. \E i \in Short : \A j \in Short : <<j, i>> \notin OpToRel(<, Nat)
  BY <1>2, WFMin, NatLessThanWellFounded, Zenon
<1>4. PICK i \in Short : \A j \in Short : ~(j < i)
  BY <1>2, <1>3, Zenon DEF OpToRel
<1>5. \A j \in Short : i <= j
  BY <1>2, <1>4
<1>6. FirstShort \in Short
  BY <1>5 DEF FirstShort
<1>7. FirstShort \in 1..Len(line)
  BY <1>2, <1>6
<1>8. line[FirstShort] \in Pkt
  BY <1>1, <1>7
<1> QED
  BY <1>7, <1>8 DEF Pkt

\* A read gives a count of bytes and takes packets of the line.
LEMMA ReadType ==
    ASSUME TypeOK, Took(ReadOnce)
    PROVE  /\ ReadOnce.ok \in BOOLEAN /\ ReadOnce.n \in Nat /\ ReadOnce.packets \in Nat
           /\ line' \in Seq(Pkt)
<1>1. /\ line \in Seq(Pkt) /\ packet \in Nat \ {0} /\ Len(line) \in Nat /\ buffer \in Nat
  BY LenProperties DEF TypeOK, Pkt, Kinds
<1>2. Fits \in Nat
  BY <1>1, DivMod DEF Fits
<1>3. Short # {} => FirstShort \in Nat \ {0} /\ FirstShort <= Len(line) /\ line[FirstShort].n \in Nat
  BY <1>1, FirstShortType
<1>4. ReadOnce.ok \in BOOLEAN /\ ReadOnce.n \in Nat /\ ReadOnce.packets \in Nat
  <2>1. CASE Short # {} /\ FirstShort <= Fits
    <3>1. ReadOnce = [ok |-> TRUE, packets |-> FirstShort, n |-> (FirstShort - 1) * packet + line[FirstShort].n]
      BY <2>1 DEF ReadOnce
    <3>2. (FirstShort - 1) * packet + line[FirstShort].n \in Nat /\ FirstShort \in Nat
      BY <1>1, <1>3, <2>1
    <3> QED
      BY ONLY <3>1, <3>2
  <2>2. CASE ~(Short # {} /\ FirstShort <= Fits) /\
             (Short # {} /\ FirstShort = Fits + 1 /\ buffer % packet # 0 /\ line[FirstShort].n <= buffer % packet)
    <3>1. ReadOnce = [ok |-> TRUE, packets |-> FirstShort, n |-> Fits * packet + line[FirstShort].n]
      BY <2>2 DEF ReadOnce
    <3>2. Fits * packet + line[FirstShort].n \in Nat /\ FirstShort \in Nat
      BY <1>1, <1>2, <1>3, <2>2
    <3> QED
      BY ONLY <3>1, <3>2
  <2>3. CASE /\ ~(Short # {} /\ FirstShort <= Fits)
             /\ ~(Short # {} /\ FirstShort = Fits + 1 /\ buffer % packet # 0 /\ line[FirstShort].n <= buffer % packet)
    <3>1. \/ ReadOnce = [ok |-> TRUE, packets |-> Fits, n |-> buffer]
          \/ ReadOnce = [ok |-> FALSE, packets |-> Least(Fits + 1, Len(line)), n |-> 0]
      BY <2>3 DEF ReadOnce
    <3>2. Least(Fits + 1, Len(line)) \in Nat
      BY <1>1, <1>2 DEF Least
    <3>3. CASE ReadOnce = [ok |-> TRUE, packets |-> Fits, n |-> buffer]
      BY ONLY <1>1, <1>2, <3>3
    <3>4. CASE ReadOnce = [ok |-> FALSE, packets |-> Least(Fits + 1, Len(line)), n |-> 0]
      BY ONLY <3>2, <3>4
    <3> QED
      BY <3>1, <3>3, <3>4
  <2> QED
    BY <2>1, <2>2, <2>3
<1> DEFINE r == ReadOnce
<1> HIDE DEF r
<1>5. line' = SubSeq(line, r.packets + 1, Len(line)) /\ r.packets \in Nat
  BY <1>4 DEF Took, r
<1>6. line' \in Seq(Pkt)
  <2>1. \A i \in (r.packets + 1)..Len(line) : line[i] \in Pkt
    BY <1>1, <1>5, ElementOfSeq
  <2>2. SubSeq(line, r.packets + 1, Len(line)) \in Seq(Pkt)
    BY <1>1, <1>5, <2>1, SubSeqProperties
  <2> QED
    BY <1>5, <2>2
<1> QED
  BY <1>4, <1>6 DEF r

\* A read of an empty endpoint fails, and leaves it empty.
LEMMA ReadNothing ==
    ASSUME TypeOK, line = <<>>
    PROVE  ~ReadOnce.ok /\ (Took(ReadOnce) => line' = <<>>)
<1>1. /\ packet \in Nat \ {0} /\ buffer \in Nat \ {0} /\ Len(line) = 0 /\ Short = {}
  BY SizesAssumption DEF TypeOK, Short
<1>2. ~(buffer % packet = 0 /\ Fits <= 0)
  <2> DEFINE q == buffer \div packet
             r == buffer % packet
  <2>1. q \in Nat /\ buffer = q * packet + r
    BY <1>1, DivMod
  <2> HIDE DEF q, r
  <2>2. q = 0 /\ r = 0 => buffer = 0
    BY <1>1, <2>1
  <2> QED
    BY <1>1, <2>1, <2>2 DEF q, r, Fits
<1>3. ReadOnce = [ok |-> FALSE, packets |-> Least(Fits + 1, Len(line)), n |-> 0]
  BY <1>1, <1>2 DEF ReadOnce
<1>4. ASSUME Took(ReadOnce) PROVE line' = <<>>
  <2>1. ReadOnce.packets \in Nat
    BY <1>4, ReadType
  <2>2. line' = SubSeq(line, ReadOnce.packets + 1, Len(line))
    BY <1>4 DEF Took
  <2>3. ReadOnce.packets + 1 \in Int /\ Len(line) \in Int /\ Len(line) < ReadOnce.packets + 1
    BY <1>1, <2>1
  <2> QED
    BY <2>2, <2>3, SubSeqEmpty
<1> QED
  BY <1>3, <1>4

\* A read that succeeds takes the first transfer to its end, or a full buffer
\* of it: it never joins two transfers.
LEMMA ReadTransfer ==
    ASSUME TypeOK, NEW a \in Nat, NEW of \in Kinds, NEW rest \in Seq(Pkt),
           Holds(line, a, of, rest), Took(ReadOnce), ReadOnce.ok
    PROVE  \/ ReadOnce.n = a /\ line' = rest
           \/ /\ ReadOnce.n = buffer /\ buffer <= a /\ buffer % packet = 0
              /\ Holds(line', a - buffer, of, rest)
<1> DEFINE q == a \div packet
           r == a % packet
<1>1. packet \in Nat \ {0} /\ buffer \in Nat
  BY DEF TypeOK
<1>2. q \in Nat /\ r \in 0..(packet - 1) /\ a = q * packet + r
  BY <1>1, DivMod
<1>3. Fits \in Nat /\ buffer = Fits * packet + (buffer % packet)
  BY <1>1, DivMod DEF Fits
<1>4. Short # {} /\ FirstShort = q + 1 /\ line[FirstShort].n = r
  BY <1>1, FirstShortIs
<1>5. From(line, (q + 1) + 1) = rest
  BY <1>1, DropTransfer
<1>6. ASSUME Fits <= q, buffer = Fits * packet
      PROVE  buffer <= a /\ Holds(From(line, Fits + 1), a - buffer, of, rest)
  <2> DEFINE b == a - buffer
             next == Fits + 1
  <2>1. Fits * packet <= q * packet
    BY <1>1, <1>2, <1>3, <1>6, Grows
  <2>2. b \in Nat /\ buffer <= a
    <3> DEFINE x == q * packet
    <3>1. x \in Nat /\ buffer <= x /\ a = x + r
      BY <1>1, <1>2, <1>6, <2>1
    <3> HIDE DEF x
    <3> QED
      BY <1>1, <1>2, <3>1
  <2>3. b \div packet = q - Fits /\ b % packet = r
    <3> DEFINE l == q - Fits
    <3>1. l \in Nat /\ q = l + Fits
      BY <1>2, <1>3, <1>6
    <3>2. b = l * packet + r
      <4> HIDE DEF l
      <4>1. a = (l + Fits) * packet + r /\ b = a - Fits * packet
        BY <1>2, <1>6, <3>1
      <4>2. (l + Fits) * packet = l * packet + Fits * packet
        BY <1>1, <1>3, <3>1
      <4> DEFINE x == l * packet
                 y == Fits * packet
      <4>3. x \in Nat /\ y \in Nat /\ a = (x + y) + r /\ b = a - y
        BY <1>1, <1>3, <3>1, <4>1, <4>2
      <4> HIDE DEF x, y
      <4>4. b = x + r
        BY <1>1, <1>2, <4>3
      <4> QED
        BY <4>4 DEF x
    <3> HIDE DEF l
    <3>3. (l * packet + r) \div packet = l /\ (l * packet + r) % packet = r
      BY <1>1, <1>2, <3>1, DivUnique
    <3> QED
      BY <3>2, <3>3 DEF l
  <2>4. next \in Nat \ {0} /\ a \div packet = (next - 1) + (b \div packet) /\ a % packet = b % packet
    BY <1>2, <1>3, <2>3 DEF q, r
  <2> HIDE DEF b, next
  <2>5. Holds(From(line, next), b, of, rest)
    BY <1>1, <2>2, <2>4, DropPackets
  <2> QED
    BY <2>2, <2>5 DEF b, next
<1>7. line' = From(line, ReadOnce.packets + 1)
  BY DEF Took, From
<1> HIDE DEF q, r
<1>8. CASE FirstShort <= Fits
  <2>1. ReadOnce = [ok |-> TRUE, packets |-> FirstShort, n |-> (FirstShort - 1) * packet + line[FirstShort].n]
    BY <1>4, <1>8 DEF ReadOnce
  <2>2. ReadOnce.packets = q + 1 /\ ReadOnce.n = ((q + 1) - 1) * packet + r
    BY ONLY <1>4, <2>1
  <2>3. (q + 1) - 1 = q
    BY <1>2
  <2> QED
    BY ONLY <1>2, <1>5, <1>7, <2>2, <2>3
<1>9. CASE ~(FirstShort <= Fits) /\ FirstShort = Fits + 1 /\ buffer % packet # 0 /\ line[FirstShort].n <= buffer % packet
  <2>1. ReadOnce = [ok |-> TRUE, packets |-> FirstShort, n |-> Fits * packet + line[FirstShort].n]
    BY <1>4, <1>9 DEF ReadOnce
  <2>2. ReadOnce.packets = q + 1 /\ ReadOnce.n = Fits * packet + r
    BY ONLY <1>4, <2>1
  <2>3. Fits = q
    BY ONLY <1>2, <1>3, <1>4, <1>9
  <2> QED
    BY ONLY <1>2, <1>5, <1>7, <2>2, <2>3
<1>10. CASE /\ ~(FirstShort <= Fits)
            /\ ~(FirstShort = Fits + 1 /\ buffer % packet # 0 /\ line[FirstShort].n <= buffer % packet)
  <2>1. buffer % packet = 0 /\ Fits <= Len(line) /\ ReadOnce = [ok |-> TRUE, packets |-> Fits, n |-> buffer]
    BY <1>4, <1>10 DEF ReadOnce
  <2>2. ReadOnce.packets = Fits /\ ReadOnce.n = buffer
    BY ONLY <2>1
  <2>3. Fits <= q
    BY ONLY <1>2, <1>3, <1>4, <1>10
  <2>4. buffer = Fits * packet
    BY <1>1, <1>3, <2>1
  <2> QED
    BY ONLY <1>6, <1>7, <2>1, <2>2, <2>3, <2>4
<1> QED
  BY <1>8, <1>9, <1>10

\* What the next state holds, in the words of this one.
LEMMA HoldsKept ==
    ASSUME packet' = packet, NEW a, NEW of, NEW rest, Holds(line', a, of, rest)
    PROVE  Holds(line, a, of, rest)'
BY DEF Holds, Transfer

\* A response behind the data is a transfer of its own, or is missing.
LEMMA ResponseIs ==
    ASSUME packet \in Nat \ {0}, NEW rest \in Responses
    PROVE  rest \in Seq(Pkt) /\ (rest # <<>> => Holds(rest, HeaderLen, "response", <<>>))
<1>1. Transfer(HeaderLen, "response") \in Seq(Pkt) /\ <<>> \in Seq(Pkt)
  BY TransferIs, EmptySeq, SizesAssumption DEF Kinds
<1> DEFINE t == Transfer(HeaderLen, "response")
<1> HIDE DEF t
<1>2. t \o <<>> = t
  BY <1>1, ConcatEmptySeq DEF t
<1>3. Holds(t, HeaderLen, "response", <<>>)
  BY <1>2 DEF t, Holds
<1> QED
  BY <1>1, <1>3 DEF Responses, t

\* A read of whole packets takes bytes of a first transfer that is no whole
\* number of buffers, and leaves one that is none either.
LEMMA BytesRead ==
    ASSUME TypeOK, NEW a \in Nat, NEW of \in Kinds, NEW rest \in Seq(Pkt),
           Holds(line, a, of, rest), Took(ReadOnce), buffer % packet = 0, a % buffer # 0
    PROVE  /\ ReadOnce.ok /\ ReadOnce.n > 0
           /\ \/ ReadOnce.n = a /\ line' = rest
              \/ /\ buffer <= a /\ (a - buffer) % buffer # 0
                 /\ Holds(line', a - buffer, of, rest)
<1>1. packet \in Nat \ {0} /\ buffer \in Nat \ {0}
  BY SizesAssumption DEF TypeOK
<1>2. Short # {} /\ FirstShort = (a \div packet) + 1 /\ (a \div packet) + 1 <= Len(line) /\ line \in Seq(Pkt)
  BY <1>1, FirstShortIs
<1>3. Fits \in Nat /\ a \div packet \in Nat /\ Len(line) \in Nat
  BY <1>1, <1>2, DivMod, LenProperties DEF Fits
<1>4. ReadOnce.ok
  <2>1. CASE FirstShort <= Fits
    <3>1. ReadOnce = [ok |-> TRUE, packets |-> FirstShort, n |-> (FirstShort - 1) * packet + line[FirstShort].n]
      BY <1>2, <2>1 DEF ReadOnce
    <3> QED
      BY ONLY <3>1
  <2>2. CASE ~(FirstShort <= Fits)
    <3>1. Fits <= Len(line)
      BY <1>2, <1>3, <2>2
    <3>2. ReadOnce = [ok |-> TRUE, packets |-> Fits, n |-> buffer]
      BY <2>2, <3>1 DEF ReadOnce
    <3> QED
      BY ONLY <3>2
  <2> QED
    BY <2>1, <2>2
<1>5. \/ ReadOnce.n = a /\ line' = rest
      \/ ReadOnce.n = buffer /\ buffer <= a /\ Holds(line', a - buffer, of, rest)
  BY <1>4, ReadTransfer
<1>6. a > 0
  <2>1. 0 % buffer = 0
    BY <1>1
  <2> QED
    BY <2>1
<1>7. ASSUME buffer <= a PROVE (a - buffer) % buffer # 0
  <2> DEFINE b == a - buffer
  <2>1. b \in Nat /\ a = buffer + b /\ buffer % buffer = 0
    BY <1>1, <1>7
  <2> HIDE DEF b
  <2>2. (buffer + b) % buffer = b % buffer
    BY <1>1, <2>1, SumMod
  <2> QED
    BY <2>1, <2>2 DEF b
<1> QED
  BY <1>1, <1>4, <1>5, <1>6, <1>7

\* The header is less than a buffer.
LEMMA HeaderFits ==
    ASSUME TypeOK
    PROVE  /\ HeaderLen \in Nat \ {0} /\ MinBuffer \in Nat \ {0} /\ buffer \in Nat \ {0} /\ packet \in Nat \ {0}
           /\ HeaderLen < buffer /\ MinBuffer <= buffer /\ HeaderLen % buffer # 0
<1>1. /\ HeaderLen \in Nat \ {0} /\ MinBuffer \in Nat \ {0} /\ buffer \in Nat \ {0} /\ packet \in Nat \ {0}
      /\ HeaderLen < buffer /\ MinBuffer <= buffer
  BY SizesAssumption DEF TypeOK
<1>2. HeaderLen % buffer = HeaderLen
  BY <1>1
<1> QED
  BY <1>1, <1>2

\* A read of a clean endpoint with something in it brings bytes, and leaves it
\* clean with the room of one read less.
LEMMA CleanRead ==
    ASSUME TypeOK, buffer % packet = 0, NEW x \in Nat, Clean(line, x), Took(ReadOnce), line # <<>>,
           NEW y \in Nat, x <= y + MinBuffer, x > MinBuffer => y >= MinBuffer
    PROVE  ReadOnce.ok /\ ReadOnce.n > 0 /\ Clean(line', y)
<1>1. /\ HeaderLen \in Nat \ {0} /\ MinBuffer \in Nat \ {0} /\ buffer \in Nat \ {0} /\ packet \in Nat \ {0}
      /\ HeaderLen < buffer /\ MinBuffer <= buffer /\ HeaderLen % buffer # 0
      /\ "data" \in Kinds /\ "response" \in Kinds /\ <<>> \in Seq(Pkt)
  BY HeaderFits, EmptySeq DEF Kinds
<1>2. CASE Holds(line, HeaderLen, "response", <<>>)
  <2>1. ~(buffer <= HeaderLen)
    BY <1>1
  <2>2. ReadOnce.ok /\ ReadOnce.n > 0 /\ line' = <<>>
    BY <1>1, <1>2, <2>1, BytesRead
  <2> QED
    BY <2>2 DEF Clean
<1>3. ASSUME NEW a \in Nat, NEW rest \in Responses, Holds(line, a, "data", rest), a % buffer # 0, a + MinBuffer <= x
      PROVE  ReadOnce.ok /\ ReadOnce.n > 0 /\ Clean(line', y)
  <2>1. rest \in Seq(Pkt) /\ (rest # <<>> => Holds(rest, HeaderLen, "response", <<>>))
    BY <1>1, ResponseIs
  <2>2. /\ ReadOnce.ok /\ ReadOnce.n > 0
        /\ \/ ReadOnce.n = a /\ line' = rest
           \/ /\ buffer <= a /\ (a - buffer) % buffer # 0
              /\ Holds(line', a - buffer, "data", rest)
    BY <1>1, <1>3, <2>1, BytesRead
  <2>3. a > 0
    <3>1. 0 % buffer = 0
      BY <1>1
    <3> QED
      BY <1>3, <3>1
  <2>4. MinBuffer <= y
    BY <1>1, <1>3, <2>3
  <2>5. CASE line' = rest
    BY <2>1, <2>2, <2>4, <2>5 DEF Clean
  <2>6. CASE buffer <= a /\ (a - buffer) % buffer # 0 /\ Holds(line', a - buffer, "data", rest)
    <3>1. PICK b \in Nat : b = a - buffer
      BY <1>1, <2>6
    <3>2. Holds(line', b, "data", rest) /\ b % buffer # 0 /\ b + MinBuffer <= y
      BY <1>1, <1>3, <2>6, <3>1
    <3>3. Clean(line', y)
      BY <3>2 DEF Clean
    <3> QED
      BY <2>2, <3>3
  <2> QED
    BY <2>2, <2>5, <2>6
<1>4. ASSUME NEW b \in Nat, NEW rest \in Responses, b % buffer # 0, b + 2 * MinBuffer <= x,
             Holds(line, HeaderLen, "data", Transfer(b, "data") \o rest)
      PROVE  ReadOnce.ok /\ ReadOnce.n > 0 /\ Clean(line', y)
  <2> DEFINE u == Transfer(b, "data") \o rest
  <2>1. u \in Seq(Pkt) /\ Holds(u, b, "data", rest) /\ Holds(line, HeaderLen, "data", u)
    <3>1. Transfer(b, "data") \in Seq(Pkt) /\ rest \in Seq(Pkt)
      BY <1>1, TransferIs, ResponseIs
    <3> QED
      BY <1>4, <3>1, ConcatProperties DEF Holds
  <2> HIDE DEF u
  <2>2. ReadOnce.ok /\ ReadOnce.n > 0 /\ line' = u
    BY <1>1, <2>1, BytesRead
  <2>3. b + MinBuffer <= y
    BY <1>1, <1>4
  <2>4. Clean(line', y)
    BY <1>4, <2>1, <2>2, <2>3 DEF Clean
  <2> QED
    BY <2>2, <2>4
<1> QED
  BY <1>2, <1>3, <1>4 DEF Clean

\* More room is no harm.
LEMMA CleanMore ==
    ASSUME MinBuffer \in Nat, NEW s, NEW x \in Nat, NEW y \in Nat, x <= y, Clean(s, x)
    PROVE  Clean(s, y)
<1>1. ASSUME NEW a \in Nat, a + MinBuffer <= x PROVE a + MinBuffer <= y
  BY <1>1
<1>2. ASSUME NEW b \in Nat, b + 2 * MinBuffer <= x PROVE b + 2 * MinBuffer <= y
  BY <1>2
<1>3. MinBuffer <= x => MinBuffer <= y
  OBVIOUS
<1> QED
  BY <1>1, <1>2, <1>3, Zenon DEF Clean

\* What the next state's endpoint is, in the words of this one.
LEMMA CleanKept ==
    ASSUME packet' = packet, buffer' = buffer, NEW x, Clean(line', x)
    PROVE  Clean(line, x)'
BY ZenonT(60) DEF Clean, Responses, Holds, Transfer

\* A read without bytes, with packets left, is one of sizes that misfit.
LEMMA NoBytesRead ==
    ASSUME TypeOK, LineOK, Took(ReadOnce), line # <<>>, ReadOnce.n = 0 \/ ~ReadOnce.ok
    PROVE  Misfit
<1> SUFFICES ASSUME ~Misfit PROVE FALSE
  OBVIOUS
<1>1. PICK x \in Nat : x = given + 2 * MinBuffer
  BY SizesAssumption DEF TypeOK
<1>2. Clean(line, x) /\ buffer % packet = 0 /\ MinBuffer \in Nat
  BY <1>1, SizesAssumption DEF LineOK, Misfit
<1>3. x <= x + MinBuffer /\ (x > MinBuffer => x >= MinBuffer)
  BY <1>2
<1>4. ReadOnce.ok /\ ReadOnce.n > 0
  BY <1>2, <1>3, CleanRead
<1> QED
  BY <1>4

-----------------------------------------------------------------------------
(* The steps of a send.                                                    *)

\* A step that is no write keeps what the cellphone has.
LEMMA SendKept ==
    ASSUME Inv, UNCHANGED <<config, sent, cellphone>>,
           pc' \notin {"command", "first", "loop"}, pc' = "answer" => pc = "answer" \/ ~sends
    PROVE  SendOK'
<1>1. /\ packet' = packet /\ chunk' = chunk /\ sends' = sends /\ size' = size /\ sent' = sent
      /\ got' = got /\ ended' = ended /\ late' = late
  BY DEF config, cellphone
<1> QED
  BY <1>1 DEF Inv, SendOK, EndsOnlyWhole, EndIsSeen, Declared

\* A step before the answer keeps what belongs to the answer.
LEMMA AnswerKept ==
    ASSUME Inv, UNCHANGED answer, pc \in Before,
           pc' \in Before \cup {"failed"}, pc' = "answer" => round' = 0
    PROVE  AnswerOK'
<1>1. line' = line /\ length' = length /\ have' = have /\ given' = given /\ whole' = whole /\ exact' = exact
  BY DEF answer
<1>2. pc' \notin {"read", "join", "check", "stuck", "done", "drained"}
  BY DEF Before
<1>3. ~whole /\ have = 0
  BY DEF Inv, AnswerOK
<1> QED
  BY <1>1, <1>2, <1>3 DEF AnswerOK, RoundsSuffice, AnswerIsWhole, WholeIsTaken

\* The types of a step that leaves the configuration.
LEMMA TypeKept ==
    ASSUME TypeOK, UNCHANGED config,
           pc' \in {"command", "refused", "first", "loop", "short", "stuck", "failed", "answer",
                    "read", "join", "check", "done", "drain", "drained"},
           sent' \in 0..size, round' \in Nat, got' \in Nat, ended' \in BOOLEAN, late' \in BOOLEAN,
           line' \in Seq(Pkt), length' \in Nat, have' \in Nat, given' \in Nat,
           whole' \in BOOLEAN, exact' \in BOOLEAN
    PROVE  TypeOK'
<1>1. /\ packet' = packet /\ chunk' = chunk /\ buffer' = buffer /\ sends' = sends /\ size' = size
      /\ avail' = avail
  BY DEF config
<1> QED
  BY <1>1 DEF TypeOK, Pkt, Kinds

\* The check of the size, and the command.
LEMMA CommandStep == ASSUME Inv, Command PROVE Inv'
<1>1. /\ pc = "command" /\ UNCHANGED <<config, sent, round, cellphone, answer>>
      /\ pc' = IF ~sends THEN "answer" ELSE IF TooLarge(size) THEN "refused" ELSE "first"
  BY DEF Command
<1>2. TypeOK'
  BY <1>1 DEF Inv, TypeOK, config, cellphone, answer
<1>3. got = 0 /\ ~ended /\ sent = 0 /\ round = 0
  BY <1>1 DEF Inv, SendOK
<1>4. SendOK'
  BY <1>1, <1>3 DEF Inv, TypeOK, SendOK, EndsOnlyWhole, EndIsSeen, Declared, TooLarge, config, cellphone
<1>5. AnswerOK'
  <2>1. pc' \in Before \cup {"failed"} /\ pc \in Before /\ round' = 0
    BY <1>1, <1>3 DEF Before
  <2> QED
    BY <1>1, <2>1, AnswerKept
<1> QED
  BY <1>2, <1>4, <1>5 DEF Inv

\* A failed write ends the operation, with the data phase as it is.
LEMMA WriteFailsStep == ASSUME Inv, WriteFails PROVE Inv'
<1>1. /\ pc \in {"command", "first", "loop"} /\ pc' = "failed"
      /\ UNCHANGED <<config, sent, round, cellphone, answer>>
  BY DEF WriteFails
<1>2. TypeOK'
  BY <1>1 DEF Inv, TypeOK, config, cellphone, answer
<1>3. SendOK'
  BY <1>1, SendKept
<1>4. AnswerOK'
  BY <1>1, AnswerKept DEF Before
<1> QED
  BY <1>2, <1>3, <1>4 DEF Inv

\* Bytes that reach the cellphone: the data phase goes on when they are whole
\* packets, and ends when they are not.
LEMMA WriteIs ==
    ASSUME Inv, NEW header \in Nat, NEW n \in Nat, sent + n <= size, UNCHANGED <<config, answer>>,
           pc \in {"first", "loop"}, round' \in Nat, WritePart(n, header),
           got + header = HeaderLen + sent, got % packet = 0, ~ended, header + n > 0,
           sent + n < size => (header + n) % packet = 0 /\ round' * chunk <= sent + n
    PROVE  Inv'
<1>1. /\ packet \in Nat \ {0} /\ size \in Nat /\ sent \in 0..size /\ got \in Nat /\ sends /\ ~late
      /\ ~TooLarge(size) /\ chunk % packet = 0 /\ EndsOnlyWhole /\ size \in 0..MaxSize
  BY SizesAssumption DEF Inv, TypeOK, SendOK, EndIsSeen
<1>2. /\ packet' = packet /\ chunk' = chunk /\ sends' = sends /\ size' = size
  BY DEF config
<1>3. /\ line' = line /\ length' = length /\ have' = have /\ whole' = whole
      /\ given' = given /\ exact' = exact /\ given \in Nat /\ exact \in BOOLEAN
      /\ line \in Seq(Pkt) /\ length \in Nat /\ have \in Nat /\ whole \in BOOLEAN
  BY DEF answer, Inv, TypeOK, Pkt, Kinds
<1>4. pc' \in {"short", "loop"}
  BY DEF WritePart
<1>5. AnswerOK'
  BY <1>4, AnswerKept DEF Before
<1>6. CASE pc' = "short"
  <2>1. sent' = sent /\ UNCHANGED cellphone
    BY <1>6 DEF WritePart
  <2>2. SendOK'
    BY <1>6, <2>1, SendKept
  <2>3. got' = got /\ ended' = ended /\ late' = late /\ ended \in BOOLEAN /\ late \in BOOLEAN
    BY <2>1 DEF cellphone, Inv, TypeOK
  <2>4. TypeOK'
    BY <1>1, <1>3, <1>4, <2>1, <2>3, TypeKept DEF Inv
  <2> QED
    BY <1>5, <2>2, <2>4 DEF Inv
<1>7. CASE pc' = "loop"
  <2> DEFINE b == header + n
  <2>0. b \in Nat /\ b # 0
    OBVIOUS
  <2>1. sent' = sent + n /\ Take(b)
    BY <1>7 DEF WritePart
  <2> HIDE DEF b
  <2>2. got' = got + b /\ ended' = (b % packet # 0) /\ ~late' /\ late' \in BOOLEAN /\ ended' \in BOOLEAN
    <3>1. got' = got + b /\ ended' = (ended \/ b = 0 \/ b % packet # 0) /\ late' = (late \/ ended)
      BY <2>1 DEF Take
    <3>2. ended' = (b % packet # 0)
      BY ONLY <2>0, <3>1, ~ended
    <3> QED
      BY ONLY <1>1, <3>1, <3>2, ~ended
  <2>3. sent' \in 0..size /\ got' \in Nat /\ got' = HeaderLen + sent'
    <3>1. b = header + n
      BY DEF b
    <3> QED
      BY ONLY <1>1, <2>0, <2>1, <2>2, <3>1, SizesAssumption, got + header = HeaderLen + sent,
              sent + n <= size, n \in Nat, header \in Nat
  <2>4. got' % packet = b % packet
    BY ONLY <1>1, <2>0, <2>2, SumMod, got % packet = 0
  <2>5. TypeOK'
    <3>1. TypeOK /\ ended' \in BOOLEAN /\ late' \in BOOLEAN
      BY <2>2 DEF Inv
    <3> QED
      BY ONLY <1>3, <1>4, <2>3, <3>1, round' \in Nat, UNCHANGED <<config, answer>>, TypeKept
  <2>6. ended' => got' = Declared'
    <3>1. ended' => sent' = size
      <4>1. sent + n < size => b % packet = 0
        BY DEF b
      <4> QED
        BY ONLY <1>1, <2>1, <2>2, <2>3, <4>1, n \in Nat
    <3>2. HeaderLen + size < Wrap /\ HeaderLen + size \in Nat
      BY <1>1, SizesAssumption DEF TooLarge
    <3>3. (HeaderLen + size) % Wrap = HeaderLen + size
      BY <3>2, SizesAssumption
    <3> QED
      BY <1>2, <2>3, <3>1, <3>3 DEF Declared
  <2>7. SendOK'
    <3>1. TooLarge(size)' = TooLarge(size)
      BY <1>2 DEF TooLarge
    <3>2. sent' < size' => got' % packet' = 0 /\ round' * chunk' <= sent'
      BY <1>2, <2>1, <2>4 DEF b
    <3>3. ended' <=> got' % packet' # 0
      BY <1>2, <2>2, <2>4
    <3> QED
      BY <1>1, <1>2, <1>7, <2>2, <2>3, <2>6, <3>1, <3>2, <3>3 DEF SendOK, EndsOnlyWhole, EndIsSeen
  <2> QED
    BY <1>5, <2>5, <2>7 DEF Inv
<1> QED
  BY <1>4, <1>6, <1>7

\* The first write carries the header.
LEMMA FirstStep == ASSUME Inv, First PROVE Inv'
<1> DEFINE n == Part(chunk - HeaderLen)
<1>1. pc = "first" /\ WritePart(n, HeaderLen) /\ UNCHANGED <<config, round, answer>>
  BY DEF First
<1>2. /\ chunk \in Nat /\ chunk > HeaderLen /\ size \in Nat /\ packet \in Nat \ {0} /\ HeaderLen \in Nat \ {0}
      /\ chunk % packet = 0
  BY SizesAssumption DEF Inv, TypeOK, SendOK
<1>3. got = 0 /\ ~ended /\ sent = 0 /\ round = 0
  BY <1>1 DEF Inv, SendOK
<1>4. n \in Nat /\ sent + n <= size /\ (sent + n < size => HeaderLen + n = chunk)
  BY <1>2, <1>3 DEF Part, Least
<1> HIDE DEF n
<1>5. got % packet = 0 /\ got + HeaderLen = HeaderLen + sent /\ HeaderLen + n > 0
  BY <1>2, <1>3, <1>4
<1>6. sent + n < size => (HeaderLen + n) % packet = 0 /\ round' * chunk <= sent + n
  BY <1>1, <1>2, <1>3, <1>4
<1>7. round' \in Nat /\ HeaderLen \in Nat /\ pc \in {"first", "loop"} /\ UNCHANGED <<config, answer>>
  BY <1>1, <1>2, <1>3
<1> QED
  BY ONLY Inv, <1>1, <1>3, <1>4, <1>5, <1>6, <1>7, WriteIs

\* Every further write is a chunk, or the end of the payload.
LEMMA LoopStep == ASSUME Inv, Loop PROVE Inv'
<1> DEFINE n == Part(chunk)
<1>1. pc = "loop" /\ sent < size /\ WritePart(n, 0) /\ round' = round + 1 /\ UNCHANGED <<config, answer>>
  BY DEF Loop
<1>2. /\ chunk \in Nat \ {0} /\ size \in Nat /\ packet \in Nat \ {0} /\ sent \in Nat /\ round \in Nat
      /\ chunk % packet = 0 /\ HeaderLen \in Nat
  BY SizesAssumption DEF Inv, TypeOK, SendOK
<1>3. got = HeaderLen + sent /\ ~ended /\ got % packet = 0 /\ round * chunk <= sent
  BY <1>1 DEF Inv, SendOK
<1>4. n \in Nat \ {0} /\ sent + n <= size /\ (sent + n < size => n = chunk)
  BY <1>1, <1>2 DEF Part, Least
<1> HIDE DEF n
<1>5. sent + n < size => (0 + n) % packet = 0 /\ round' * chunk <= sent + n
  <2> SUFFICES ASSUME sent + n < size PROVE (0 + n) % packet = 0 /\ round' * chunk <= sent + n
    OBVIOUS
  <2>1. n = chunk /\ 0 + n = chunk
    BY <1>2, <1>4
  <2>2. (round + 1) * chunk = round * chunk + chunk
    BY <1>2
  <2> DEFINE x == round * chunk
  <2>3. x \in Nat /\ x <= sent /\ round' * chunk = x + chunk
    BY <1>1, <1>2, <1>3, <2>2
  <2> HIDE DEF x
  <2> QED
    BY <1>2, <2>1, <2>3
<1>6. got + 0 = HeaderLen + sent /\ 0 + n > 0 /\ round' \in Nat /\ pc \in {"first", "loop"} /\ 0 \in Nat
  BY <1>1, <1>2, <1>3, <1>4
<1> QED
  BY ONLY Inv, <1>1, <1>3, <1>4, <1>5, <1>6, WriteIs

\* The loop ends with everything sent, and an empty packet when it is needed.
LEMMA FinishStep == ASSUME Inv, Finish PROVE Inv'
<1>1. /\ pc = "loop" /\ (sent >= size \/ round >= Rounds) /\ round' = 0 /\ sent' = sent
      /\ UNCHANGED <<config, answer>>
  BY DEF Finish
<1>2. /\ chunk \in Nat \ {0} /\ size \in Nat /\ packet \in Nat \ {0} /\ sent \in 0..size /\ round \in Nat
      /\ got \in Nat /\ chunk % packet = 0 /\ HeaderLen \in Nat /\ ~late /\ late \in BOOLEAN /\ ended \in BOOLEAN
  BY SizesAssumption DEF Inv, TypeOK, SendOK, EndIsSeen
<1>3. /\ got = HeaderLen + sent /\ (ended <=> got % packet # 0) /\ sends /\ ~TooLarge(size)
      /\ sent < size => round * chunk <= sent
  BY <1>1 DEF Inv, SendOK
<1>4. sent = size
  <2>1. SUFFICES ASSUME sent < size PROVE FALSE
    BY <1>2
  <2> DEFINE q == size \div chunk
             r == size % chunk
  <2>2. q \in Nat /\ r \in 0..(chunk - 1) /\ size = q * chunk + r
    BY <1>2, DivMod
  <2>3. round >= q + 4
    BY <1>1, <1>2, <2>1 DEF Rounds
  <2> HIDE DEF q, r
  <2>4. (q + 1) * chunk <= round * chunk /\ (q + 1) * chunk = q * chunk + chunk
    BY <1>2, <2>2, <2>3, Grows
  <2> DEFINE x == q * chunk
             y == round * chunk
  <2>5. x \in Nat /\ y \in Nat /\ x + chunk <= y /\ y <= sent /\ size = x + r
    BY <1>2, <1>3, <2>1, <2>2, <2>4
  <2> HIDE DEF x, y
  <2> QED
    BY <1>2, <2>1, <2>2, <2>5
<1>5. Declared = got /\ Declared' = Declared
  <2>1. HeaderLen + size < Wrap /\ HeaderLen + size \in Nat
    BY <1>2, <1>3, SizesAssumption DEF TooLarge
  <2>2. (HeaderLen + size) % Wrap = HeaderLen + size
    BY <2>1, SizesAssumption
  <2>3. size' = size
    BY <1>1 DEF config
  <2> QED
    BY <1>3, <1>4, <2>2, <2>3 DEF Declared
<1>6. pc' = "answer" /\ IF NeedsZeroPacket(Declared) THEN Take(0) ELSE UNCHANGED cellphone
  BY <1>2, <1>4 DEF Finish
<1>7. got' = got /\ ended' /\ ended' \in BOOLEAN /\ ~late' /\ late' \in BOOLEAN
  <2>1. CASE NeedsZeroPacket(Declared)
    <3>1. got' = got + 0 /\ ended' = (ended \/ 0 = 0 \/ 0 % packet # 0) /\ late' = (late \/ ended)
      BY <1>6, <2>1 DEF Take
    <3>2. ~ended
      BY <1>3, <1>5, <2>1 DEF NeedsZeroPacket
    <3>3. got + 0 = got
      BY <1>2
    <3> QED
      BY ONLY <1>2, <3>1, <3>2, <3>3
  <2>2. CASE ~NeedsZeroPacket(Declared)
    <3>1. ended
      BY <1>2, <1>3, <1>5, <2>2 DEF NeedsZeroPacket
    <3> QED
      BY <1>2, <1>6, <2>2, <3>1 DEF cellphone
  <2> QED
    BY <2>1, <2>2
<1>8. /\ line' = line /\ length' = length /\ have' = have /\ whole' = whole
      /\ given' = given /\ exact' = exact /\ given \in Nat /\ exact \in BOOLEAN
      /\ line \in Seq(Pkt) /\ length \in Nat /\ have \in Nat /\ whole \in BOOLEAN
  BY <1>1 DEF answer, Inv, TypeOK, Pkt, Kinds
<1>9. TypeOK'
  <2>1. TypeOK /\ UNCHANGED config /\ sent' \in 0..size /\ round' \in Nat /\ got' \in Nat
    BY <1>1, <1>2, <1>7 DEF Inv
  <2> QED
    BY ONLY <1>6, <1>7, <1>8, <2>1, TypeKept
<1>10. SendOK'
  <2>1. packet' = packet /\ chunk' = chunk
    BY <1>1 DEF config
  <2> QED
    BY <1>2, <1>5, <1>6, <1>7, <2>1 DEF SendOK, EndsOnlyWhole, EndIsSeen
<1>11. AnswerOK'
  BY <1>1, <1>6, AnswerKept DEF Before
<1> QED
  BY <1>9, <1>10, <1>11 DEF Inv

-----------------------------------------------------------------------------
(* The steps of an answer.                                                 *)

\* The same packets mean the same responses.
LEMMA SameResponses == ASSUME packet' = packet PROVE Responses' = Responses
BY DEF Responses, Transfer

\* What the cellphone puts into the endpoint.
LEMMA CellphoneAnswersStep == ASSUME Inv, CellphoneAnswers PROVE Inv'
<1> DEFINE Sent(n, some, split, response) ==
              /\ length' = n /\ given' = some
              /\ line' = (IF split THEN Transfer(HeaderLen, "data") \o Transfer(some - HeaderLen, "data")
                         ELSE Transfer(some, "data"))
                        \o (IF response THEN Transfer(HeaderLen, "response") ELSE <<>>)
              /\ whole' = (some = n /\ response /\ (split => n > HeaderLen /\ HeaderLen % packet # 0))
              /\ exact' = ((IF split THEN some - HeaderLen ELSE some) % buffer = 0)
<1>1. /\ pc = "answer" /\ pc' = "read" /\ UNCHANGED <<config, sent, round, cellphone, have>>
  BY DEF CellphoneAnswers
<1>2. /\ packet \in Nat \ {0} /\ have = 0 /\ round = 0 /\ packet' = packet /\ sends' = sends
      /\ have' = 0 /\ round' = 0 /\ length \in Nat /\ HeaderLen \in Nat
  BY <1>1, SizesAssumption DEF config, Inv, TypeOK, AnswerOK, Before
<1>3. Responses' = Responses
  BY <1>2, SameResponses
<1>4. SendOK'
  BY <1>1, SendKept
<1>5. ASSUME line' \in Seq(Pkt), length' \in Nat, given' \in Nat, whole' \in BOOLEAN, exact' \in BOOLEAN, ReadLine'
      PROVE  Inv'
  <2>1. TypeOK'
    <3>1. /\ TypeOK /\ sent' \in 0..size /\ got' \in Nat /\ ended' \in BOOLEAN /\ late' \in BOOLEAN
          /\ UNCHANGED config /\ have' \in Nat /\ round' \in Nat
      BY <1>1, <1>2 DEF Inv, TypeOK, cellphone
    <3> QED
      BY ONLY <1>1, <1>5, <3>1, TypeKept
  <2>2. AnswerOK'
    BY <1>1, <1>2, <1>5 DEF AnswerOK, Before, RoundsSuffice, AnswerIsWhole, WholeIsTaken
  <2> QED
    BY <1>4, <2>1, <2>2 DEF Inv
<1>6. CASE line' = Transfer(HeaderLen, "response") /\ whole' = TRUE /\ UNCHANGED <<length, given, exact>>
  <2>1. /\ line' \in Seq(Pkt)
        /\ Holds(line', HeaderLen, "response", <<>>)
    <3> DEFINE t == Transfer(HeaderLen, "response")
    <3>1. t \in Seq(Pkt)
      BY <1>2, TransferIs DEF Kinds
    <3> HIDE DEF t
    <3>2. t \o <<>> = t
      BY <3>1, ConcatEmptySeq
    <3>3. Holds(t, HeaderLen, "response", <<>>)
      BY <3>2 DEF t, Holds
    <3> QED
      BY <1>6, <3>1, <3>3 DEF t
  <2>2. Holds(line, HeaderLen, "response", <<>>)'
    BY <1>2, <2>1, HoldsKept
  <2>3. ReadLine'
    BY <1>6, <2>2 DEF ReadLine, OnlyResponse
  <2>4. length' \in Nat /\ given' \in Nat /\ whole' \in BOOLEAN /\ exact' \in BOOLEAN
    BY <1>6 DEF Inv, TypeOK
  <2> QED
    BY <1>5, <2>1, <2>3, <2>4
<1>7. ASSUME ~sends, NEW n \in HeaderLen..MaxAnswer, NEW some \in HeaderLen..MaxAnswer,
             NEW split \in BOOLEAN, NEW response \in BOOLEAN, Sent(n, some, split, response)
      PROVE  Inv'
  <2>1. /\ n \in Nat /\ some \in Nat /\ some - HeaderLen \in Nat /\ HeaderLen <= some
        /\ HeaderLen + (some - HeaderLen) = some
    BY <1>2, <1>7
  <2>2. PICK rest \in Responses : rest = IF response THEN Transfer(HeaderLen, "response") ELSE <<>>
    BY DEF Responses
  <2>3. rest \in Seq(Pkt)
    BY <1>2, ResponseIs
  <2>4. response => rest # <<>>
    <3>1. Len(Transfer(HeaderLen, "response")) = (HeaderLen \div packet) + 1 /\ HeaderLen \div packet \in Nat
      BY <1>2, TransferIs, DivMod DEF Kinds
    <3>2. Transfer(HeaderLen, "response") # <<>>
      BY <3>1, EmptySeq
    <3> QED
      BY <2>2, <3>2
  <2>5. whole' \in BOOLEAN /\ exact' \in BOOLEAN
    BY <1>7
  <2>6. CASE ~split
    <3>1. Transfer(some, "data") \in Seq(Pkt)
      BY <1>2, <2>1, TransferIs DEF Kinds
    <3> DEFINE t == Transfer(some, "data")
    <3>2. line' = t \o rest
      BY <1>7, <2>2, <2>6, Zenon
    <3>3. Holds(line', some, "data", rest)
      BY <3>2, Zenon DEF Holds
    <3> HIDE DEF t
    <3>4. line' \in Seq(Pkt)
      BY <2>3, <3>1, <3>2, ConcatProperties DEF t
    <3>5. OneTransfer(some, rest)'
      <4>1. Holds(line, some, "data", rest)'
        BY <1>2, <3>3, HoldsKept
      <4>2. whole' => some = length' /\ rest # <<>>
        BY <1>7, <2>4
      <4> QED
        BY <1>7, <4>1, <4>2 DEF OneTransfer
    <3>6. ReadLine'
      BY <1>2, <1>3, <1>7, <2>1, <3>5 DEF ReadLine
    <3> QED
      BY <1>5, <1>7, <2>1, <2>5, <3>4, <3>6
  <2>7. CASE split
    <3> DEFINE t == Transfer(HeaderLen, "data")
               u == Transfer(some - HeaderLen, "data")
    <3>1. t \in Seq(Pkt) /\ u \in Seq(Pkt)
      <4> DEFINE c == some - HeaderLen
      <4>1. c \in Nat
        BY <2>1
      <4> HIDE DEF c
      <4>2. Transfer(c, "data") \in Seq(Pkt) /\ Transfer(HeaderLen, "data") \in Seq(Pkt)
        BY <1>2, <4>1, TransferIs DEF Kinds
      <4> QED
        BY <4>2 DEF c
    <3>2. line' = (t \o u) \o rest
      BY <1>7, <2>2, <2>7, Zenon
    <3> HIDE DEF t, u
    <3>3. (t \o u) \o rest = t \o (u \o rest) /\ (t \o u) \o rest \in Seq(Pkt)
      <4>1. t \o u \in Seq(Pkt)
        BY <3>1, ConcatProperties
      <4> QED
        BY <2>3, <3>1, <4>1, ConcatAssociative, ConcatProperties, SMTT(60)
    <3>4. line' = t \o (u \o rest) /\ line' \in Seq(Pkt)
      BY <3>2, <3>3, Zenon
    <3>5. Holds(line', HeaderLen, "data", Transfer(some - HeaderLen, "data") \o rest)
      BY <3>4, Zenon DEF Holds, t, u
    <3>6. TwoTransfers(some - HeaderLen, rest)'
      <4>1. Holds(line, HeaderLen, "data", Transfer(some - HeaderLen, "data") \o rest)'
        BY <1>2, <3>5 DEF Holds, Transfer
      <4>2. whole' => HeaderLen + (some - HeaderLen) = length' /\ rest # <<>> /\ HeaderLen % packet' # 0
        BY <1>2, <1>7, <2>1, <2>4, <2>7
      <4> QED
        BY <1>7, <2>1, <4>1, <4>2 DEF TwoTransfers
    <3>7. ReadLine'
      BY <1>2, <1>3, <1>7, <2>1, <3>6 DEF ReadLine
    <3> QED
      BY <1>5, <1>7, <2>1, <2>5, <3>4, <3>7
  <2> QED
    BY <2>6, <2>7
<1> HIDE DEF Sent
<1>8. CASE ~sends /\ \E n, some \in HeaderLen..MaxAnswer, split, response \in BOOLEAN : Sent(n, some, split, response)
  BY <1>7, <1>8, Zenon
<1> QED
  BY <1>6, <1>8, Zenon DEF CellphoneAnswers, Sent

\* A read that fails, or ends well or badly, of a line with something in it.
LEMMA FailStep ==
    ASSUME Inv, UNCHANGED <<config, sent, cellphone, length, given, whole, exact>>, round' \in Nat, have' \in Nat,
           line' \in Seq(Pkt),
           \/ pc' = "failed" /\ (whole => Misfit \/ length > MaxData)
           \/ pc' = "done" /\ (have' > 0 => have' = given /\ have' >= length)
           \/ pc' = "stuck" /\ ~sends /\ ~whole
           \/ pc' = "drain"
           \/ pc' = "drained"
    PROVE  Inv'
<1>1. pc' \notin {"command", "first", "loop", "answer"}
  OBVIOUS
<1>2. SendOK'
  BY <1>1, SendKept
<1>3. TypeOK'
  <2>1. /\ TypeOK /\ sent' \in 0..size /\ got' \in Nat /\ ended' \in BOOLEAN /\ late' \in BOOLEAN
        /\ UNCHANGED config /\ length' \in Nat /\ given' \in Nat /\ whole' \in BOOLEAN /\ exact' \in BOOLEAN
    BY DEF Inv, TypeOK, cellphone
  <2>2. pc' \in {"failed", "done", "stuck", "drain", "drained"}
    OBVIOUS
  <2>3. line' \in Seq(Pkt) /\ have' \in Nat /\ round' \in Nat
    OBVIOUS
  <2> QED
    BY ONLY <2>1, <2>2, <2>3, TypeKept
<1>4. sends' = sends /\ Misfit' = Misfit
  BY DEF config, Misfit
<1>5. AnswerOK'
  BY <1>4 DEF AnswerOK, Before, RoundsSuffice, AnswerIsWhole, WholeIsTaken
<1> QED
  BY <1>2, <1>3, <1>5 DEF Inv

\* The same of a step that is no turn of the loop.
LEMMA EndStep ==
    ASSUME Inv, UNCHANGED <<config, sent, round, cellphone, length, given, whole, exact>>, have' \in Nat,
           line' \in Seq(Pkt),
           \/ pc' = "failed" /\ (whole => Misfit \/ length > MaxData)
           \/ pc' = "done" /\ (have' > 0 => have' = given /\ have' >= length)
           \/ pc' = "stuck" /\ ~sends /\ ~whole
           \/ pc' = "drain"
           \/ pc' = "drained"
    PROVE  Inv'
<1>1. round' \in Nat /\ UNCHANGED <<config, sent, cellphone, length, given, whole, exact>>
  BY DEF Inv, TypeOK
<1> QED
  BY <1>1, FailStep

\* Drop leaves the endpoint as it is.
LEMMA DropStep == ASSUME Inv, Drop PROVE Inv'
<1>1. /\ UNCHANGED <<config, sent, cellphone, length, given, whole, exact>> /\ have' \in Nat
      /\ line' \in Seq(Pkt) /\ pc' = "drain" /\ round' \in Nat
  BY DEF Drop, answer, Inv, TypeOK, Pkt, Kinds
<1> QED
  BY <1>1, FailStep

\* A read of drain changes nothing but the endpoint.
LEMMA DrainStep == ASSUME Inv, Drain PROVE Inv'
<1>1. /\ UNCHANGED <<config, sent, cellphone, length, given, whole, exact>> /\ have' = have /\ Took(ReadOnce)
      /\ pc' \in {"drain", "drained"} /\ round' = round + 1
  BY DEF Drain
<1>2. TypeOK /\ have' \in Nat /\ round' \in Nat
  BY <1>1 DEF Inv, TypeOK
<1>3. line' \in Seq(Pkt)
  BY <1>1, <1>2, ReadType
<1> QED
  BY <1>1, <1>2, <1>3, FailStep

\* The limit of drain.
LEMMA DrainEndsStep == ASSUME Inv, DrainEnds PROVE Inv'
<1>1. /\ UNCHANGED <<config, sent, cellphone, length, given, whole, exact>> /\ have' \in Nat
      /\ line' \in Seq(Pkt) /\ pc' = "drained" /\ round' \in Nat
  BY DEF DrainEnds, answer, Inv, TypeOK, Pkt, Kinds
<1> QED
  BY <1>1, FailStep

\* A read after which the host goes on with the data.
LEMMA JoinStep ==
    ASSUME Inv, UNCHANGED <<config, sent, cellphone, length, given, whole, exact>>, have' \in Nat, round' \in Nat,
           line' \in Seq(Pkt), ~sends, length <= MaxData,
           \/ pc' = "join" /\ JoinLine'
           \/ pc' = "check" /\ have' < length /\ (whole => Misfit)
    PROVE  Inv'
<1>1. pc' \in {"join", "check"}
  OBVIOUS
<1>2. SendOK'
  BY <1>1, SendKept
<1>3. TypeOK'
  <2>1. /\ TypeOK /\ sent' \in 0..size /\ got' \in Nat /\ ended' \in BOOLEAN /\ late' \in BOOLEAN
        /\ UNCHANGED config /\ length' \in Nat /\ given' \in Nat /\ whole' \in BOOLEAN /\ exact' \in BOOLEAN
    BY DEF Inv, TypeOK, cellphone
  <2>2. line' \in Seq(Pkt) /\ have' \in Nat /\ round' \in Nat
    OBVIOUS
  <2> QED
    BY ONLY <1>1, <2>1, <2>2, TypeKept
<1>4. sends' = sends /\ Misfit' = Misfit
  BY DEF config, Misfit
<1>5. AnswerOK'
  BY <1>1, <1>4 DEF AnswerOK, Before, RoundsSuffice, AnswerIsWhole, WholeIsTaken
<1> QED
  BY <1>2, <1>3, <1>5 DEF Inv

\* The numbers that every read has at hand.
LEMMA Sizes ==
    ASSUME Inv
    PROVE  /\ packet \in Nat \ {0} /\ buffer \in Nat \ {0} /\ HeaderLen \in Nat \ {0} /\ HeaderLen < buffer
           /\ length \in Nat /\ have \in Nat /\ given \in Nat /\ round \in Nat /\ TypeOK /\ "data" \in Kinds /\ "response" \in Kinds
           /\ line \in Seq(Pkt)
BY SizesAssumption DEF Inv, TypeOK, Kinds, Pkt

\* The first read of an answer.
LEMMA ReadFirstStep == ASSUME Inv, LineOK, ReadFirst PROVE Inv'
<1> DEFINE r == ReadOnce
<1>1. /\ pc = "read" /\ Took(r) /\ UNCHANGED <<config, sent, round, cellphone, length, given, whole, exact>>
      /\ IF ~r.ok \/ r.n < HeaderLen THEN pc' = "failed" /\ UNCHANGED have
         ELSE IF line[1].of = "response" THEN pc' = "done" /\ UNCHANGED have
         ELSE IF length > MaxData THEN pc' = "failed" /\ UNCHANGED have
         ELSE pc' = "join" /\ have' = r.n
  BY DEF ReadFirst
<1>2. /\ packet \in Nat \ {0} /\ buffer \in Nat \ {0} /\ HeaderLen \in Nat \ {0} /\ HeaderLen < buffer
      /\ length \in Nat /\ TypeOK /\ "data" \in Kinds /\ "response" \in Kinds /\ MaxData \in Nat
  BY Sizes, SizesAssumption
<1>3. have = 0 /\ round = 0 /\ ReadLine
  BY <1>1 DEF Inv, AnswerOK
<1>4. packet' = packet /\ buffer' = buffer /\ length' = length /\ given' = given /\ whole' = whole /\ round' = 0
  BY <1>1, <1>3 DEF config
<1>5. /\ r.ok \in BOOLEAN /\ r.n \in Nat /\ line' \in Seq(Pkt)
      /\ line # <<>> /\ ~r.ok => Misfit
  BY <1>1, <1>2, ReadType, NoBytesRead
<1>6. Responses' = Responses /\ \A rest \in Responses : rest \in Seq(Pkt)
  BY <1>2, <1>4, SameResponses, ResponseIs
<1> HIDE DEF r
\* A read of a first transfer that holds a header.
<1>7. ASSUME NEW a \in Nat, NEW of \in Kinds, NEW rest \in Seq(Pkt), Holds(line, a, of, rest), HeaderLen <= a
      PROVE  /\ line # <<>> /\ line[1].of = of
             /\ r.ok => /\ r.n >= HeaderLen
                        /\ \/ r.n = a /\ line' = rest
                           \/ /\ r.n = buffer /\ buffer <= a /\ buffer % packet = 0
                              /\ Holds(line', a - buffer, of, rest)
  <2>1. line # <<>> /\ line[1].of = of
    BY <1>2, <1>7, FirstShortIs
  <2>2. r.ok => \/ r.n = a /\ line' = rest
                \/ /\ r.n = buffer /\ buffer <= a /\ buffer % packet = 0
                   /\ Holds(line', a - buffer, of, rest)
    BY <1>1, <1>2, <1>7, ReadTransfer DEF r
  <2> QED
    BY ONLY <1>2, <1>7, <2>1, <2>2
\* Only the data goes on.
<1>8. ASSUME NEW a \in Nat, NEW of \in Kinds, NEW rest \in Seq(Pkt), Holds(line, a, of, rest), HeaderLen <= a,
             of = "data" /\ r.ok /\ length <= MaxData /\ pc' = "join" /\ have' = r.n => JoinLine' /\ ~sends
      PROVE  Inv'
  <2>1. line # <<>> /\ line[1].of = of /\ (r.ok => r.n >= HeaderLen)
    BY <1>7, <1>8
  <2>2. CASE ~r.ok
    <3>1. pc' = "failed" /\ have' = have /\ (whole => Misfit)
      BY <1>1, <1>5, <2>1, <2>2
    <3> QED
      BY <1>1, <1>2, <1>3, <1>5, <3>1, EndStep
  <2>3. CASE r.ok /\ of = "response"
    <3>1. pc' = "done" /\ have' = 0
      BY <1>1, <1>2, <1>3, <1>5, <2>1, <2>3
    <3> QED
      BY <1>1, <1>5, <3>1, EndStep
  <2>4. CASE r.ok /\ of = "data" /\ length > MaxData
    <3>1. pc' = "failed" /\ have' = 0
      BY <1>1, <1>2, <1>3, <1>5, <2>1, <2>4
    <3> QED
      BY <1>1, <1>5, <2>4, <3>1, EndStep
  <2>5. CASE r.ok /\ of = "data" /\ ~(length > MaxData)
    <3>1. pc' = "join" /\ have' = r.n /\ length <= MaxData
      BY <1>1, <1>2, <1>5, <2>1, <2>5
    <3>2. JoinLine' /\ ~sends
      BY <1>8, <2>5, <3>1
    <3> QED
      BY <1>1, <1>2, <1>4, <1>5, <3>1, <3>2, JoinStep
  <2> QED
    BY <1>5, <2>2, <2>3, <2>4, <2>5 DEF Kinds
<1>9. CASE OnlyResponse
  <2>1. Holds(line, HeaderLen, "response", <<>>)
    BY <1>9 DEF OnlyResponse
  <2>2. <<>> \in Seq(Pkt) /\ HeaderLen \in Nat /\ HeaderLen <= HeaderLen /\ "response" # "data"
    BY <1>2, EmptySeq
  <2> QED
    BY <1>2, <1>8, <2>1, <2>2
<1>10. ASSUME ~sends, NEW a \in Nat, NEW rest \in Responses, HeaderLen <= a, OneTransfer(a, rest) PROVE Inv'
  <2>1. Holds(line, a, "data", rest) /\ a \in Nat /\ HeaderLen <= a /\ rest \in Seq(Pkt)
    BY <1>2, <1>6, <1>10 DEF OneTransfer
  <2>2. ASSUME r.ok, have' = r.n PROVE JoinLine'
    <3>1. CASE r.n = a /\ line' = rest
      <4>1. JoinTaken'
        BY <1>4, <1>6, <1>10, <2>1, <2>2, <3>1 DEF JoinTaken, OneTransfer
      <4> QED
        BY <4>1 DEF JoinLine
    <3>2. CASE r.n = buffer /\ buffer <= a /\ Holds(line', a - buffer, "data", rest)
      <4>1. PICK b \in Nat : b = a - buffer
        BY <1>2, <2>1, <3>2
      <4>2. Holds(line, b, "data", rest)'
        BY <1>4, <3>2, <4>1, HoldsKept
      <4>3. have' + b = a /\ HeaderLen + round' * buffer' <= have'
        BY <1>2, <1>4, <2>1, <2>2, <3>2, <4>1
      <4>4. JoinData(b, rest)'
        BY <1>4, <1>10, <2>1, <4>2, <4>3 DEF JoinData, OneTransfer
      <4> QED
        BY <1>4, <1>6, <4>1, <4>4 DEF JoinLine
    <3> QED
      BY <1>7, <2>1, <2>2, <3>1, <3>2, <1>2
  <2> QED
    BY <1>2, <1>8, <1>10, <2>1, <2>2
<1>11. ASSUME ~sends, NEW b \in Nat, NEW rest \in Responses, TwoTransfers(b, rest) PROVE Inv'
  <2> DEFINE u == Transfer(b, "data") \o rest
  <2>1. Holds(line, HeaderLen, "data", u) /\ b \in Nat /\ rest \in Seq(Pkt)
    BY <1>2, <1>6, <1>11 DEF TwoTransfers
  <2>2. u \in Seq(Pkt)
    BY <1>2, <2>1, TransferIs, ConcatProperties
  <2>3. Holds(u, b, "data", rest)
    BY DEF Holds
  <2>4. PICK v \in Seq(Pkt) : v = u
    BY <2>2
  <2> HIDE DEF u
  <2>5. Holds(line, HeaderLen, "data", v) /\ Holds(v, b, "data", rest)
    BY <2>1, <2>3, <2>4
  <2>6. ASSUME r.ok, have' = r.n PROVE JoinLine'
    <3>1. CASE r.n = HeaderLen /\ line' = v
      <4>1. Holds(line, b, "data", rest)'
        BY <1>4, <2>5, <3>1, HoldsKept
      <4>2. JoinData(b, rest)'
        BY <1>2, <1>4, <1>11, <2>6, <3>1, <4>1 DEF JoinData, TwoTransfers
      <4> QED
        BY <1>4, <1>6, <4>2 DEF JoinLine
    <3> QED
      BY <1>2, <1>7, <2>4, <2>5, <2>6, <3>1
  <2> QED
    BY <1>2, <1>8, <1>11, <2>4, <2>5, <2>6
<1> QED
  BY <1>3, <1>9, <1>10, <1>11 DEF ReadLine

\* The next read of the data.
LEMMA ReadMoreStep == ASSUME Inv, LineOK, ReadMore PROVE Inv'
<1> DEFINE r == ReadOnce
<1>1. /\ pc = "join" /\ ~Complete /\ Took(r) /\ UNCHANGED <<config, sent, cellphone, length, given, whole, exact>>
      /\ pc' = (IF ~r.ok THEN "failed" ELSE IF r.n = 0 THEN "check" ELSE "join")
      /\ have' = have + r.n /\ round' = round + 1
  BY DEF ReadMore
<1>2. /\ packet \in Nat \ {0} /\ buffer \in Nat \ {0} /\ length \in Nat /\ have \in Nat /\ round \in Nat
      /\ TypeOK /\ "data" \in Kinds /\ "response" \in Kinds /\ HeaderLen \in Nat \ {0}
  BY Sizes
<1>3. JoinLine /\ ~sends /\ length <= MaxData /\ have < length
  BY <1>1, <1>2 DEF Inv, AnswerOK, Complete
<1>4. packet' = packet /\ buffer' = buffer /\ length' = length /\ given' = given /\ whole' = whole
  BY <1>1 DEF config
<1>5. /\ r.ok \in BOOLEAN /\ r.n \in Nat /\ line' \in Seq(Pkt)
      /\ line # <<>> /\ (r.n = 0 \/ ~r.ok) => Misfit
  BY <1>1, <1>2, ReadType, NoBytesRead
<1>6. /\ Responses' = Responses /\ Pkt' = Pkt /\ Kinds' = Kinds
      /\ \A rest \in Responses : rest \in Seq(Pkt)
  BY <1>2, <1>4, SameResponses, ResponseIs DEF Pkt, Kinds
<1> HIDE DEF r
<1>7. have' \in Nat /\ round' \in Nat
  BY <1>1, <1>2, <1>5
\* What ends the loop, and what goes on.
<1>8. ASSUME whole => line # <<>>, r.ok /\ r.n # 0 => JoinLine'
      PROVE  Inv'
  <2>1. CASE ~r.ok
    <3>1. pc' = "failed" /\ (whole => Misfit)
      BY <1>1, <1>5, <1>8, <2>1
    <3> QED
      BY <1>1, <1>3, <1>5, <1>7, <3>1, FailStep
  <2>2. CASE r.ok /\ r.n = 0
    <3>1. pc' = "check" /\ (whole => Misfit) /\ have' < length
      BY <1>1, <1>2, <1>3, <1>5, <1>8, <2>2
    <3> QED
      BY <1>1, <1>3, <1>5, <1>7, <3>1, JoinStep
  <2>3. CASE r.ok /\ r.n # 0
    <3>1. pc' = "join" /\ JoinLine'
      BY <1>1, <1>8, <2>3
    <3> QED
      BY <1>1, <1>3, <1>5, <1>7, <3>1, JoinStep
  <2> QED
    BY <1>5, <2>1, <2>2, <2>3
<1>9. ASSUME NEW a \in Nat, NEW rest \in Responses, JoinData(a, rest) PROVE Inv'
  <2>1. Holds(line, a, "data", rest) /\ a \in Nat /\ rest \in Seq(Pkt)
    BY <1>2, <1>6, <1>9 DEF JoinData
  <2>2. /\ have + a = given /\ HeaderLen + round * buffer <= have
        /\ whole => given = length /\ rest # <<>>
    BY <1>9 DEF JoinData
  <2>3. line # <<>>
    BY <1>2, <2>1, FirstShortIs
  <2>4. ASSUME r.ok PROVE JoinLine'
    <3>1. CASE r.n = a /\ line' = rest
      <4>1. JoinTaken'
        BY <1>1, <1>4, <1>6, <1>9, <2>2, <3>1 DEF JoinTaken
      <4> QED
        BY <4>1 DEF JoinLine
    <3>2. CASE r.n = buffer /\ buffer <= a /\ Holds(line', a - buffer, "data", rest)
      <4>1. PICK b \in Nat : b = a - buffer
        BY <1>2, <2>1, <3>2
      <4>2. Holds(line, b, "data", rest)'
        BY <1>4, <3>2, <4>1, HoldsKept
      <4>3. have' + b = have + a
        BY <1>1, <1>2, <2>1, <3>2, <4>1
      <4>4. HeaderLen + round' * buffer' <= have'
        <5>1. (round + 1) * buffer = round * buffer + buffer /\ round * buffer \in Nat
          BY <1>2
        <5> DEFINE x == round * buffer
                   y == (round + 1) * buffer
        <5>2. y = x + buffer /\ x \in Nat /\ HeaderLen + x <= have /\ round' * buffer' = y
          BY <1>1, <1>4, <2>2, <5>1
        <5> HIDE DEF x, y
        <5> QED
          BY <1>1, <1>2, <3>2, <5>2
      <4>5. JoinData(b, rest)'
        BY <1>4, <2>2, <4>2, <4>3, <4>4 DEF JoinData
      <4> QED
        BY <1>4, <1>6, <4>1, <4>5 DEF JoinLine
    <3> QED
      BY <1>1, <1>2, <2>1, <2>4, <3>1, <3>2, ReadTransfer DEF r
  <2> QED
    BY <1>8, <2>3, <2>4
<1>10. CASE JoinTaken
  <2>1. ~whole
    BY <1>2, <1>3, <1>10 DEF JoinTaken
  <2>2. ASSUME r.ok PROVE JoinLine'
    <3>1. line # <<>>
      BY <1>2, <2>2, ReadNothing DEF r
    <3>3. Holds(line, HeaderLen, "response", <<>>) /\ <<>> \in Seq(Pkt)
      BY <1>2, <1>10, <3>1, ResponseIs, EmptySeq DEF JoinTaken
    <3>4. CASE line' = <<>>
      BY <1>4, <2>1, <3>4 DEF JoinLine, JoinHopeless
    <3>5. ~(buffer <= HeaderLen)
      BY <1>2, Sizes
    <3> QED
      BY <1>1, <1>2, <2>2, <3>3, <3>4, <3>5, ReadTransfer DEF r
  <2> QED
    BY <1>8, <2>1, <2>2
<1>11. CASE JoinHopeless
  <2>1. ~whole /\ ~r.ok
    BY <1>2, <1>11, ReadNothing DEF JoinHopeless, r
  <2> QED
    BY <1>8, <2>1
<1> QED
  BY <1>3, <1>9, <1>10, <1>11 DEF JoinLine

\* The bound of the loop of reads is above every count of full buffers that the
\* length has room for, and MAX_READ_ROUNDS is no tighter.
LEMMA RoundsAreEnough ==
    ASSUME Inv, length <= MaxData, HeaderLen + round * buffer <= have, have < length
    PROVE  round < AnswerRounds
<1> DEFINE x == round * buffer
           few == length \div buffer
           k == MaxData \div MinBuffer
<1>1. /\ buffer \in Nat \ {0} /\ round \in Nat /\ length \in Nat /\ have \in Nat /\ HeaderLen \in Nat
      /\ MinBuffer \in Nat \ {0} /\ MinBuffer <= buffer /\ MaxData \in Nat /\ Spare \in Nat \ {0}
      /\ MaxData % MinBuffer = 0
  BY Sizes, SizesAssumption DEF Inv, TypeOK
<1>2. x \in Nat /\ x < length
  <2>1. x \in Nat /\ HeaderLen + x <= have
    BY <1>1
  <2> HIDE DEF x
  <2> QED
    BY <1>1, <2>1
<1>3. round <= few /\ few \in Nat
  BY <1>1, <1>2, DivGrows, DivMod
<1>4. k \in Nat /\ MaxData = k * MinBuffer + 0
  BY <1>1, DivMod
<1> HIDE DEF few, k
<1>5. round < k
  <2>1. SUFFICES ASSUME k <= round PROVE FALSE
    BY <1>1, <1>4
  <2>2. k * MinBuffer <= k * buffer /\ k * buffer <= round * buffer
    BY <1>1, <1>4, <2>1, Grows
  <2> DEFINE y == k * MinBuffer
             z == k * buffer
  <2>3. y \in Nat /\ z \in Nat /\ y <= z /\ z <= x /\ MaxData = y
    BY <1>1, <1>4, <2>2
  <2> HIDE DEF x, y, z
  <2> QED
    BY <1>1, <1>2, <2>3
<1>6. round < few + Spare
  BY <1>1, <1>3
<1> QED
  BY <1>5, <1>6 DEF AnswerRounds, Least, MaxReadRounds, few, k

\* The end of the loop of reads, and the response.
LEMMA ReadResponseStep == ASSUME Inv, LineOK, ReadResponse PROVE Inv'
<1> DEFINE r == ReadOnce
<1>1. /\ pc = "check" \/ (pc = "join" /\ (Complete \/ round >= AnswerRounds))
      /\ UNCHANGED <<config, sent, round, cellphone, length, have, given, whole, exact>>
      /\ IF ~Complete
         THEN pc' = (IF pc = "join" THEN "stuck" ELSE "failed") /\ UNCHANGED line
         ELSE /\ Took(r)
              /\ pc' = IF r.ok /\ r.n >= HeaderLen /\ line[1].of = "response" THEN "done" ELSE "failed"
  BY DEF ReadResponse
<1>2. /\ packet \in Nat \ {0} /\ buffer \in Nat \ {0} /\ length \in Nat /\ have \in Nat /\ round \in Nat
      /\ TypeOK /\ "data" \in Kinds /\ "response" \in Kinds /\ HeaderLen \in Nat \ {0} /\ HeaderLen < buffer
      /\ line \in Seq(Pkt)
  BY Sizes
<1>3. have' = have /\ have' \in Nat /\ UNCHANGED <<config, sent, round, cellphone, length, given, whole, exact>>
  BY <1>1, <1>2
<1>4. \A rest \in Responses : rest \in Seq(Pkt)
  BY <1>2, ResponseIs
<1>5. Took(r) => /\ r.ok \in BOOLEAN /\ r.n \in Nat /\ line' \in Seq(Pkt)
                 /\ line # <<>> /\ (r.n = 0 \/ ~r.ok) => Misfit
  BY <1>2, ReadType, NoBytesRead
<1>6. CASE pc = "check"
  <2>1. ~Complete /\ (whole => Misfit)
    BY <1>2, <1>6 DEF Inv, AnswerOK, Complete
  <2>2. pc' = "failed" /\ line' = line
    BY <1>1, <1>6, <2>1
  <2> QED
    BY <1>2, <1>3, <2>1, <2>2, EndStep
<1>7. CASE pc = "join" /\ ~Complete
  <2>1. JoinLine /\ ~sends /\ length <= MaxData /\ have < length /\ round >= AnswerRounds
    BY <1>1, <1>2, <1>7 DEF Inv, AnswerOK, Complete
  <2>2. ~(HeaderLen + round * buffer <= have)
    <3>1. AnswerRounds \in Int
      BY <1>2, SizesAssumption DEF AnswerRounds, Least, MaxReadRounds
    <3> QED
      BY <1>2, <2>1, <3>1, RoundsAreEnough
  <2>3. ~whole
    BY <1>2, <2>1, <2>2 DEF JoinLine, JoinData, JoinTaken, JoinHopeless
  <2>4. pc' = "stuck" /\ line' = line
    BY <1>1, <1>7
  <2> QED
    BY <1>2, <1>3, <2>1, <2>3, <2>4, EndStep
<1>8. CASE pc = "join" /\ Complete
  <2>1. /\ Took(r) /\ JoinLine /\ have >= length
        /\ pc' = IF r.ok /\ r.n >= HeaderLen /\ line[1].of = "response" THEN "done" ELSE "failed"
    BY <1>1, <1>8 DEF Inv, AnswerOK, Complete
  <2>2. /\ r.ok \in BOOLEAN /\ r.n \in Nat /\ line' \in Seq(Pkt)
        /\ line # <<>> /\ (r.n = 0 \/ ~r.ok) => Misfit
    BY <1>5, <2>1
  <2> HIDE DEF r
  <2>3. ASSUME pc' = "done" => have = given, pc' = "failed" /\ whole => Misfit PROVE Inv'
    <3>1. pc' \in {"done", "failed"}
      BY <2>1
    <3> QED
      BY <1>2, <1>3, <2>1, <2>2, <2>3, <3>1, EndStep
  <2>4. ASSUME NEW a \in Nat, NEW rest \in Responses, JoinData(a, rest) PROVE Inv'
    <3>1. Holds(line, a, "data", rest) /\ a \in Nat /\ rest \in Seq(Pkt) /\ have + a = given /\ (whole => given = length)
      BY <1>2, <1>4, <2>4 DEF JoinData
    <3>2. line # <<>> /\ line[1].of = "data"
      BY <1>2, <3>1, FirstShortIs
    <3>3. pc' = "failed"
      BY <2>1, <3>2
    <3>4. r.ok /\ whole => r.n = 0
      <4>1. whole => a = 0
        BY <1>2, <2>1, <3>1
      <4>2. r.ok => r.n = a \/ (r.n = buffer /\ buffer <= a)
        BY <1>2, <2>1, <3>1, ReadTransfer DEF r
      <4> QED
        BY <1>2, <4>1, <4>2
    <3> QED
      BY <2>2, <2>3, <3>2, <3>3, <3>4
  <2>5. CASE JoinTaken
    <3>1. have = given
      BY <1>2, <2>1, <2>5 DEF JoinTaken
    <3>2. ASSUME whole, r.ok PROVE pc' = "done"
      <4>1. Holds(line, HeaderLen, "response", <<>>) /\ <<>> \in Seq(Pkt)
        BY <1>2, <2>5, <3>2, ResponseIs, EmptySeq DEF JoinTaken
      <4>2. line[1].of = "response"
        BY <1>2, <4>1, FirstShortIs
      <4>3. r.n = HeaderLen \/ r.n = buffer
        BY <1>2, <2>1, <3>2, <4>1, ReadTransfer DEF r
      <4> QED
        BY <1>2, <2>1, <3>2, <4>2, <4>3
    <3>3. whole => line # <<>>
      BY <2>5 DEF JoinTaken
    <3> QED
      BY <2>2, <2>3, <3>1, <3>2, <3>3
  <2>6. CASE JoinHopeless
    <3>1. ~whole /\ ~r.ok
      BY <1>2, <2>6, ReadNothing DEF JoinHopeless, r
    <3>2. pc' = "failed"
      BY <2>1, <3>1
    <3> QED
      BY <2>3, <3>1, <3>2
  <2> QED
    BY <2>1, <2>4, <2>5, <2>6 DEF JoinLine
<1> QED
  BY <1>1, <1>6, <1>7, <1>8

-----------------------------------------------------------------------------
(* The theorems.                                                           *)

\* Config::normalised and the start of an operation satisfy the invariant.
LEMMA InitInv == ASSUME Init PROVE IInv
<1>1. PICK p \in Packets : packet = NormalPacket(p)
  BY DEF Init
<1>2. packet \in Nat \ {0}
  BY <1>1, SizesAssumption DEF NormalPacket
<1>3. PICK c \in Nat : chunk = NormalChunk(c, packet)
  BY SizesAssumption DEF Init
<1>4. chunk \in Nat /\ chunk > HeaderLen /\ chunk % packet = 0
  BY <1>2, <1>3, NormalChunkIs
<1>5. PICK n \in Nat : buffer = NormalBuffer(n)
  <2>1. MinBuffer \in Nat \ {0}
    BY SizesAssumption
  <2>2. NextMultiple(MinBuffer, packet) \in Nat
    BY <1>2, <2>1, NextMultipleIs
  <2> QED
    BY <2>2, SizesAssumption DEF Init
<1>6. buffer \in Nat /\ buffer >= MinBuffer
  BY <1>5, SizesAssumption DEF NormalBuffer, Greatest
<1>7. sends \in BOOLEAN /\ size \in 0..MaxSize
  <2>1. (sends = TRUE /\ size \in 0..MaxSize) \/ (sends = FALSE /\ size = 0)
    BY Zenon DEF Init
  <2>2. sends \in BOOLEAN
    BY <2>1, Zenon
  <2>3. size \in 0..MaxSize
    BY <2>1, SizesAssumption
  <2> QED
    BY <2>2, <2>3, Zenon
<1>8. avail \in 0..size
  <2>1. size \in Nat
    BY <1>7, SizesAssumption
  <2>2. size \div 2 \in 0..size
    BY <2>1
  <2>3. avail \in {0, size \div 2, size}
    BY DEF Init
  <2> QED
    BY <2>1, <2>2, <2>3
<1>9. /\ pc = "command" /\ sent = 0 /\ round = 0 /\ got = 0 /\ ended = FALSE /\ late = FALSE
      /\ line = <<>> /\ length = 0 /\ have = 0 /\ given = 0 /\ whole = FALSE /\ exact = FALSE
  BY DEF Init
<1>10. TypeOK
  <2>1. sent \in 0..size /\ <<>> \in Seq([n: 0..packet, of: {"data", "response"}])
    BY <1>7, <1>9, SizesAssumption, EmptySeq
  <2> QED
    BY <1>2, <1>4, <1>6, <1>7, <1>8, <1>9, <2>1 DEF TypeOK
<1>11. SendOK
  BY <1>4, <1>9 DEF SendOK, EndsOnlyWhole, EndIsSeen
<1>12. AnswerOK
  BY <1>9 DEF AnswerOK, RoundsSuffice, AnswerIsWhole, WholeIsTaken
<1>13. LineOK /\ DrainOK
  BY <1>9 DEF LineOK, DrainOK, Clean, DrainEmpties
<1> QED
  BY <1>10, <1>11, <1>12, <1>13 DEF Inv, IInv

\* Nothing changes.
LEMMA StutterStep == ASSUME Inv, UNCHANGED vars PROVE Inv'
<1>1. /\ packet' = packet /\ chunk' = chunk /\ buffer' = buffer /\ sends' = sends /\ size' = size
      /\ avail' = avail /\ pc' = pc /\ sent' = sent /\ round' = round /\ got' = got /\ ended' = ended
      /\ late' = late /\ line' = line /\ length' = length /\ have' = have /\ whole' = whole
      /\ given' = given /\ exact' = exact
  BY DEF vars
<1>2. TypeOK'
  BY <1>1 DEF Inv, TypeOK
<1>3. SendOK'
  BY <1>1 DEF Inv, SendOK, EndsOnlyWhole, EndIsSeen, Declared, TooLarge
<1>4. ReadLine' = ReadLine
  BY <1>1, ZenonT(100) DEF ReadLine, OnlyResponse, OneTransfer, TwoTransfers, Responses, Holds, Transfer
<1>5. JoinLine' = JoinLine
  BY <1>1, ZenonT(100) DEF JoinLine, JoinData, JoinTaken, JoinHopeless, Responses, Holds, Transfer, Pkt, Kinds
<1>6. AnswerOK'
  BY <1>1, <1>4, <1>5 DEF Inv, AnswerOK, RoundsSuffice, AnswerIsWhole, WholeIsTaken, Misfit
<1> QED
  BY <1>2, <1>3, <1>6 DEF Inv

\* A step that leaves the endpoint leaves it clean.
LEMMA LineSame ==
    ASSUME LineOK, UNCHANGED <<config, line, given, exact>>
    PROVE  LineOK' /\ Misfit' = Misfit
<1>1. packet' = packet /\ buffer' = buffer /\ line' = line /\ given' = given /\ exact' = exact
  BY DEF config
<1>2. Misfit' = Misfit
  BY <1>1 DEF Misfit
<1>3. Clean(line, given + 2 * MinBuffer)' <=> Clean(line, given + 2 * MinBuffer)
  BY <1>1, ZenonT(60) DEF Clean, Responses, Holds, Transfer
<1> QED
  BY <1>2, <1>3 DEF LineOK

\* So does a read.
LEMMA LineRead ==
    ASSUME TypeOK, LineOK, UNCHANGED <<config, given, exact>>, Took(ReadOnce)
    PROVE  LineOK' /\ Misfit' = Misfit
<1>1. packet' = packet /\ buffer' = buffer /\ given' = given /\ exact' = exact
  BY DEF config
<1>2. Misfit' = Misfit
  BY <1>1 DEF Misfit
<1>3. ASSUME ~Misfit PROVE Clean(line, given + 2 * MinBuffer)'
  <2>1. PICK x \in Nat : x = given + 2 * MinBuffer
    BY SizesAssumption DEF TypeOK
  <2>2. Clean(line, x) /\ buffer % packet = 0 /\ MinBuffer \in Nat
    BY <1>3, <2>1, SizesAssumption DEF LineOK, Misfit
  <2>3. x <= x + MinBuffer /\ (x > MinBuffer => x >= MinBuffer)
    BY <2>2
  <2>4. CASE line = <<>>
    <3>1. line' = <<>>
      BY <2>4, ReadNothing
    <3> QED
      BY <3>1 DEF Clean
  <2>5. CASE line # <<>>
    <3>1. Clean(line', x)
      BY <2>2, <2>3, <2>5, CleanRead
    <3>2. Clean(line, x)'
      BY <1>1, <3>1, CleanKept
    <3>3. x = given' + 2 * MinBuffer
      BY <1>1, <2>1
    <3> QED
      BY <3>2, <3>3
  <2> QED
    BY <2>4, <2>5
<1> QED
  BY <1>2, <1>3 DEF LineOK

\* What the cellphone puts into the endpoint is clean when no size misfits.
LEMMA LineAnswered == ASSUME Inv, LineOK, CellphoneAnswers PROVE LineOK'
<1>1. /\ packet' = packet /\ buffer' = buffer /\ TypeOK
  BY DEF CellphoneAnswers, config, Inv
<1>2. /\ HeaderLen \in Nat \ {0} /\ MinBuffer \in Nat \ {0} /\ packet \in Nat \ {0} /\ given \in Nat
  BY <1>1, HeaderFits DEF TypeOK
<1>3. ASSUME NEW x \in Nat, x = given' + 2 * MinBuffer, Misfit' \/ Clean(line', x) PROVE LineOK'
  BY <1>1, <1>3, CleanKept DEF LineOK
<1>4. <<>> \in Responses /\ Transfer(HeaderLen, "response") \in Responses
  BY DEF Responses
<1>5. CASE line' = Transfer(HeaderLen, "response") /\ given' = given
  <2>1. Transfer(HeaderLen, "response") \in Seq(Pkt)
    BY <1>2, TransferIs DEF Kinds
  <2>2. Holds(line', HeaderLen, "response", <<>>)
    BY <1>5, <2>1, ConcatEmptySeq DEF Holds
  <2>3. PICK x \in Nat : x = given + 2 * MinBuffer
    BY <1>2
  <2>4. MinBuffer <= x
    BY <1>2, <2>3
  <2>5. Clean(line', x)
    BY <2>2, <2>4 DEF Clean
  <2> QED
    BY <1>3, <1>5, <2>3, <2>5
<1>6. ASSUME NEW some \in HeaderLen..MaxAnswer, NEW split \in BOOLEAN, NEW response \in BOOLEAN, given' = some,
             line' = (IF split THEN Transfer(HeaderLen, "data") \o Transfer(some - HeaderLen, "data")
                      ELSE Transfer(some, "data"))
                     \o (IF response THEN Transfer(HeaderLen, "response") ELSE <<>>),
             exact' = ((IF split THEN some - HeaderLen ELSE some) % buffer = 0)
      PROVE  LineOK'
  <2>1. PICK b \in Nat : b = some - HeaderLen
    BY <1>2, <1>6
  <2>2. PICK x \in Nat : x = some + 2 * MinBuffer
    BY <1>2, <1>6
  <2>3. PICK rest \in Responses : rest = IF response THEN Transfer(HeaderLen, "response") ELSE <<>>
    BY <1>4
  <2>4. rest \in Seq(Pkt)
    BY <1>2, ResponseIs
  <2>5. b + 2 * MinBuffer <= x /\ some + MinBuffer <= x /\ some \in Nat
    BY <1>2, <1>6, <2>1, <2>2
  <2>6. CASE ~split
    <3>1. Holds(line', some, "data", rest)
      BY <1>6, <2>3, <2>6, Zenon DEF Holds
    <3>2. Misfit' \/ some % buffer # 0
      BY <1>6, <2>6, Zenon DEF Misfit
    <3>3. Misfit' \/ Clean(line', x)
      BY <2>5, <3>1, <3>2, Zenon DEF Clean
    <3> QED
      BY <1>3, <1>6, <2>2, <3>3
  <2>7. CASE split
    <3> DEFINE t == Transfer(HeaderLen, "data")
               u == Transfer(b, "data")
    <3>1. t \in Seq(Pkt) /\ u \in Seq(Pkt)
      BY <1>2, TransferIs DEF Kinds
    <3>2. line' = (t \o u) \o rest
      BY <1>6, <2>1, <2>3, <2>7, Zenon
    <3> HIDE DEF t, u
    <3>3. (t \o u) \o rest = t \o (u \o rest)
      BY <2>4, <3>1, ConcatAssociative
    <3>4. Holds(line', HeaderLen, "data", Transfer(b, "data") \o rest)
      BY <3>2, <3>3, Zenon DEF Holds, t, u
    <3>5. Misfit' \/ b % buffer # 0
      BY <1>6, <2>1, <2>7, Zenon DEF Misfit
    <3>6. Misfit' \/ Clean(line', x)
      BY <2>5, <3>4, <3>5, Zenon DEF Clean
    <3> QED
      BY <1>3, <1>6, <2>2, <3>6
  <2> QED
    BY <2>6, <2>7
<1> QED
  BY <1>5, <1>6 DEF CellphoneAnswers

\* Every step leaves the endpoint clean, or the sizes misfit.
LEMMA LineNext == ASSUME Inv, LineOK, Next PROVE LineOK'
<1>1. TypeOK
  BY DEF Inv
<1>2. CASE Command \/ First \/ Loop \/ Finish \/ WriteFails \/ Drop \/ DrainEnds
  <2>1. UNCHANGED <<config, line, given, exact>>
    BY <1>2 DEF Command, First, Loop, Finish, WriteFails, Drop, DrainEnds, answer
  <2> QED
    BY <2>1, LineSame
<1>3. CASE CellphoneAnswers
  BY <1>3, LineAnswered
<1>4. CASE ReadFirst \/ ReadMore \/ Drain
  <2>1. UNCHANGED <<config, given, exact>> /\ Took(ReadOnce)
    BY <1>4 DEF ReadFirst, ReadMore, Drain
  <2> QED
    BY <1>1, <2>1, LineRead
<1>5. CASE ReadResponse
  <2>1. UNCHANGED <<config, given, exact>> /\ (UNCHANGED line \/ Took(ReadOnce))
    BY <1>5 DEF ReadResponse
  <2>2. CASE UNCHANGED line
    BY <2>1, <2>2, LineSame
  <2>3. CASE Took(ReadOnce)
    BY <1>1, <2>1, <2>3, LineRead
  <2> QED
    BY <2>1, <2>2, <2>3
<1> QED
  BY <1>2, <1>3, <1>4, <1>5 DEF Next

\* MAX_READ_ROUNDS reads of the smallest buffer have room for MAX_DATA_BYTES.
LEMMA RoomIs ==
    MaxReadRounds \in Nat /\ MaxReadRounds * MinBuffer = MaxData /\ MinBuffer \in Nat \ {0}
<1> DEFINE k == MaxData \div MinBuffer
<1>1. MinBuffer \in Nat \ {0} /\ MaxData \in Nat /\ MaxData % MinBuffer = 0
  BY SizesAssumption
<1>2. k \in Nat /\ MaxData = k * MinBuffer + 0
  BY <1>1, DivMod
<1> HIDE DEF k
<1>3. k * MinBuffer = MaxData
  BY <1>1, <1>2
<1> QED
  BY <1>1, <1>2, <1>3 DEF MaxReadRounds, k

\* A drain starts with room for all that is left.
LEMMA DrainStarts == ASSUME Inv, LineOK, Drop PROVE DrainOK'
<1>1. pc' = "drain" /\ round' = 0 /\ UNCHANGED <<config, line, given, exact>>
  BY DEF Drop, answer
<1>2. MaxReadRounds \in Nat /\ MaxReadRounds * MinBuffer = MaxData /\ MinBuffer \in Nat \ {0} /\ given \in Nat
  BY RoomIs DEF Inv, TypeOK
<1>3. Room' = MaxData /\ MaxData \in Nat
  <2>1. MaxReadRounds - 0 = MaxReadRounds
    BY <1>2
  <2> QED
    BY <1>1, <1>2, <2>1, SizesAssumption DEF Room, MaxReadRounds
<1>4. ASSUME ~Misfit, given + 2 * MinBuffer <= MaxData PROVE Clean(line, Room)'
  <2>1. PICK x \in Nat : x = given + 2 * MinBuffer
    BY <1>2
  <2>2. PICK y \in Nat : y = MaxData
    BY <1>3
  <2>3. Clean(line', y)
    BY <1>1, <1>2, <1>4, <2>1, <2>2, CleanMore DEF LineOK
  <2>4. Clean(line, y)'
    BY <1>1, <2>3, CleanKept DEF config
  <2> QED
    BY <1>3, <2>2, <2>4
<1>5. Misfit' = Misfit /\ given' = given
  BY <1>1, LineSame
<1> QED
  BY <1>1, <1>2, <1>4, <1>5 DEF DrainOK, DrainEmpties, MaxReadRounds

\* A read of drain takes a share of the room.
LEMMA DrainGoesOn == ASSUME Inv, LineOK, DrainOK, Drain PROVE DrainOK'
<1>1. /\ pc = "drain" /\ round < MaxReadRounds /\ Took(ReadOnce) /\ round' = round + 1
      /\ pc' = (IF KeepsDraining(ReadOnce) THEN "drain" ELSE "drained")
      /\ UNCHANGED <<config, given, exact>>
  BY DEF Drain
<1>2. /\ MaxReadRounds \in Nat /\ MaxReadRounds * MinBuffer = MaxData /\ MinBuffer \in Nat \ {0}
      /\ given \in Nat /\ round \in Nat /\ TypeOK /\ MaxReadRounds' = MaxReadRounds
  BY RoomIs DEF Inv, TypeOK, MaxReadRounds
<1>3. Misfit' = Misfit /\ given' = given /\ packet' = packet /\ buffer' = buffer
  BY <1>1, <1>2, LineRead DEF config
<1>4. round' <= MaxReadRounds /\ pc' \in {"drain", "drained"}
  BY <1>1, <1>2
<1>5. SUFFICES ASSUME ~Misfit, given + 2 * MinBuffer <= MaxData
               PROVE  (pc' = "drain" => Clean(line, Room)') /\ (pc' = "drained" => line' = <<>>)
  BY <1>2, <1>3, <1>4, SizesAssumption DEF DrainOK, DrainEmpties
<1>6. CASE line = <<>>
  <2>1. line' = <<>>
    BY <1>1, <1>2, <1>6, ReadNothing
  <2> QED
    BY <2>1 DEF Clean
<1>7. CASE line # <<>>
  <2> DEFINE k == MaxReadRounds - round
  <2>1. k \in Nat \ {0} /\ MaxReadRounds - round' = k - 1
    BY <1>1, <1>2
  <2>2. Room = k * MinBuffer /\ Room' = (k - 1) * MinBuffer
    BY <1>2, <2>1 DEF Room
  <2> HIDE DEF k
  <2>3. (k - 1) * MinBuffer = k * MinBuffer - MinBuffer /\ k * MinBuffer \in Nat
    BY <1>2, <2>1
  <2>4. k >= 2 => 2 * MinBuffer <= k * MinBuffer
    BY <1>2, <2>1, Grows
  <2>5. k = 1 => k * MinBuffer = MinBuffer
    BY <1>2
  <2>6. 1 * MinBuffer <= k * MinBuffer /\ 1 * MinBuffer = MinBuffer
    BY <1>2, <2>1, Grows
  <2>7. PICK x \in Nat : x = k * MinBuffer
    BY <2>3
  <2>8. PICK y \in Nat : y = x - MinBuffer
    BY <1>2, <2>6, <2>7
  <2>9. x <= y + MinBuffer /\ (x > MinBuffer => y >= MinBuffer)
    <3>1. k = 1 \/ k >= 2
      BY <2>1
    <3>2. (k = 1 => x = MinBuffer) /\ (k >= 2 => 2 * MinBuffer <= x)
      BY <2>4, <2>5, <2>7
    <3> QED
      BY <1>2, <2>8, <3>1, <3>2
  <2>10. Clean(line, x) /\ buffer % packet = 0
    BY <1>1, <1>2, <1>5, <2>2, <2>7 DEF DrainOK, Misfit
  <2>11. ReadOnce.ok /\ ReadOnce.n > 0 /\ Clean(line', y)
    BY <1>1, <1>2, <1>7, <2>9, <2>10, CleanRead
  <2>12. pc' = "drain"
    BY <1>1, <2>11 DEF KeepsDraining
  <2>13. Clean(line, y)'
    BY <1>3, <2>11, CleanKept
  <2>14. y = Room'
    BY <2>2, <2>3, <2>7, <2>8
  <2> QED
    BY <2>12, <2>13, <2>14
<1> QED
  BY <1>6, <1>7

\* At the limit there is no room, and so nothing is left.
LEMMA DrainStops == ASSUME Inv, LineOK, DrainOK, DrainEnds PROVE DrainOK'
<1>1. /\ pc = "drain" /\ round >= MaxReadRounds /\ pc' = "drained" /\ UNCHANGED <<config, line, given, exact>>
  BY DEF DrainEnds, answer
<1>2. MaxReadRounds \in Nat /\ MinBuffer \in Nat \ {0} /\ given \in Nat /\ round \in Nat
  BY RoomIs DEF Inv, TypeOK
<1>3. Misfit' = Misfit /\ given' = given /\ line' = line
  BY <1>1, LineSame
<1>4. ASSUME ~Misfit, given + 2 * MinBuffer <= MaxData PROVE line = <<>>
  <2>1. MaxReadRounds - round = 0
    BY <1>1, <1>2 DEF DrainOK
  <2>2. Room = 0
    BY <1>2, <2>1 DEF Room
  <2>3. Clean(line, 0)
    BY <1>1, <1>2, <1>4, <2>2, SizesAssumption DEF DrainOK
  <2>4. /\ ~(MinBuffer <= 0) /\ \A a \in Nat : ~(a + MinBuffer <= 0) /\ ~(a + 2 * MinBuffer <= 0)
    BY <1>2
  <2> QED
    BY <2>3, <2>4, Zenon DEF Clean
<1> QED
  BY <1>1, <1>2, <1>3, <1>4, SizesAssumption DEF DrainOK, DrainEmpties

\* A step outside the drain leaves it outside.
LEMMA DrainNext == ASSUME Inv, LineOK, DrainOK, Next PROVE DrainOK'
<1>1. CASE Command \/ First \/ Loop \/ Finish \/ WriteFails \/ CellphoneAnswers \/ ReadFirst \/ ReadMore \/ ReadResponse
  <2>1. pc' \notin {"drain", "drained"}
    BY <1>1 DEF Command, First, Loop, Finish, WriteFails, CellphoneAnswers, ReadFirst, ReadMore, ReadResponse, WritePart
  <2> QED
    BY <2>1 DEF DrainOK, DrainEmpties
<1>2. CASE Drop \/ Drain \/ DrainEnds
  BY <1>2, DrainStarts, DrainGoesOn, DrainStops
<1> QED
  BY <1>1, <1>2 DEF Next

\* Every step keeps the invariant.
LEMMA NextInv == ASSUME IInv, [Next]_vars PROVE IInv'
<1>1. Inv /\ LineOK /\ DrainOK
  BY DEF IInv
<1>2. CASE Next
  <2>1. Inv'
    BY <1>1, <1>2, CommandStep, FirstStep, LoopStep, FinishStep, WriteFailsStep, CellphoneAnswersStep,
       ReadFirstStep, ReadMoreStep, ReadResponseStep, DropStep, DrainStep, DrainEndsStep DEF Next
  <2>2. LineOK' /\ DrainOK'
    BY <1>1, <1>2, LineNext, DrainNext
  <2> QED
    BY <2>1, <2>2 DEF IInv
<1>3. CASE UNCHANGED vars
  <2>1. Inv'
    BY <1>1, <1>3, StutterStep
  <2>2. UNCHANGED <<config, line, given, exact>> /\ pc' = pc /\ round' = round
    BY <1>3 DEF vars, config
  <2>3. LineOK' /\ Misfit' = Misfit
    BY <1>1, <2>2, LineSame
  <2>4. Clean(line, Room)' <=> Clean(line, Room)
    BY <2>2, ZenonT(60) DEF Clean, Responses, Holds, Transfer, Room, MaxReadRounds, config
  <2>5. DrainOK'
    BY <1>1, <2>2, <2>3, <2>4, Zenon DEF DrainOK, DrainEmpties, MaxReadRounds
  <2> QED
    BY <2>1, <2>3, <2>5 DEF IInv
<1> QED
  BY <1>2, <1>3

\* The invariant holds in every state of every behaviour.
LEMMA Invariance == Spec => []IInv
BY InitInv, NextInv, PTL DEF Spec

\* The variables of the two data phases keep their types, and no write passes
\* the payload (operation_sending, read_answer).
THEOREM DataPhaseTypeCorrect == Spec => []TypeOK
<1>1. IInv => TypeOK
  BY DEF IInv, Inv
<1> QED
  BY <1>1, Invariance, PTL

\* The cellphone sees the end of the data phase only behind the last promised
\* byte, whatever the chunk and the packet are: Config::normalised makes every
\* write in the middle whole packets.
THEOREM NoEarlyEnd == Spec => []EndsOnlyWhole
<1>1. IInv => EndsOnlyWhole
  BY DEF IInv, Inv, SendOK
<1> QED
  BY <1>1, Invariance, PTL

\* The host waits for a response only behind an end the cellphone has seen, and
\* never writes behind it (needs_zero_packet).
THEOREM EndAlwaysSeen == Spec => []EndIsSeen
<1>1. IInv => EndIsSeen
  BY DEF IInv, Inv, SendOK
<1> QED
  BY <1>1, Invariance, PTL

\* The bounds of the loops of operation_sending and read_answer stop no
\* transfer that the other side can finish.
THEOREM BoundsSuffice == Spec => []RoundsSuffice
<1>1. IInv => RoundsSuffice
  BY DEF IInv, Inv, AnswerOK
<1> QED
  BY <1>1, Invariance, PTL

\* read_answer gives its caller exactly the bytes that the cellphone sent, and
\* no fewer than the container declared.
THEOREM AnswersAreWhole == Spec => []AnswerIsWhole
<1>1. IInv => AnswerIsWhole
  BY DEF IInv, Inv, AnswerOK
<1> QED
  BY <1>1, Invariance, PTL

\* read_answer takes every whole answer within the limit when the buffer is
\* whole packets and no transfer is whole buffers.
THEOREM WholeAnswersTaken == Spec => []WholeIsTaken
<1>1. IInv => WholeIsTaken
  BY DEF IInv, Inv, AnswerOK
<1> QED
  BY <1>1, Invariance, PTL

\* With such sizes drain leaves nothing in the endpoint, whatever was declared
\* and sent and wherever the program before it stopped, up to its limit.
THEOREM DrainLeavesNothing == Spec => []DrainEmpties
<1>1. IInv => DrainEmpties
  BY DEF IInv, DrainOK
<1> QED
  BY <1>1, Invariance, PTL
=============================================================================
