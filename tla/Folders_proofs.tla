---------------------------- MODULE Folders_proofs ----------------------------
(***************************************************************************)
(* What TLAPS proves of listings and removes, for every set of names,      *)
(* every number of objects, every depth of folders and every set of faults.*)
(***************************************************************************)
EXTENDS Folders, SequenceTheorems, WellFoundedInduction, TLAPS

-----------------------------------------------------------------------------
(* The inductive invariant.                                                *)

Known == 1..Len(objs)
Places == {Root} \cup Known

Objects == [parent: Nat, name: Names, dir: BOOLEAN, size: Nat, parses: BOOLEAN]

\* The objects of the cellphone, each younger than its parent.
DeviceOK ==
    /\ objs \in Seq(Objects) /\ Len(objs) <= MaxHandle
    /\ \A h \in Known : objs[h].parent \in 0..(h - 1)
    /\ alive \subseteq Known

\* What stayed in a folder is in it.
HistoryOK ==
    /\ DOMAIN stayed = {Root} \cup Handles /\ DOMAIN seen = {Root} \cup Handles
    /\ \A f \in {Root} \cup Handles : stayed[f] \subseteq Kids(f)

\* The entries, those of objects that are gone too, and the listings.
EntriesOK ==
    \A h \in DOMAIN entries :
        /\ h \in Known /\ entries[h].parent = objs[h].parent /\ entries[h].name = objs[h].name
        /\ h \in alive => entries[h].dir = objs[h].dir
ListingOK(f) ==
    /\ f \in Places /\ children[f] \subseteq DOMAIN entries
    /\ \A h \in children[f] : objs[h].parent = f /\ (h \in alive => entries[h] = Says(f, h))
    /\ children[f] \subseteq seen[f]
    /\ \A h \in stayed[f] \ children[f] : f \in older /\ ~objs[h].parses
ListingsOK == \A f \in DOMAIN children : ListingOK(f)

\* The older way begins when the fast way is off, and that is for good.
WayOK ==
    /\ fast => older = {}
    /\ pc = "props" => fast
    /\ pc \in {"handles", "infos"} => ~fast

\* The call.
Calls == [path: Seq(Names), h: Nat, op: {"none", "unlink", "rmdir"}, name: Names \cup {"none"},
          folder: Nat, got: Seq(SUBSET Nat), left: SUBSET Nat]
Lists == pc \in {"props", "handles", "infos"}

\* A request has answered with a set of handles: some of what was in the
\* folder, and all that stayed.
Some(answer) ==
    \A h \in answer \ {call.folder} : h \in Known /\ h \in seen[call.folder] /\ objs[h].parent = call.folder
Answer(answer) == stayed[call.folder] \subseteq answer /\ Some(answer)

\* What the older way has and what it still asks for. What it lacks does not
\* parse.
InfosOK(answer) ==
    Some(answer) /\ \A h \in stayed[call.folder] \ answer : ~objs[h].parses

\* What is still there was in every answer that came after.
PropsOK(got) ==
    /\ \A i \in 1..Len(got) : Answer(got[i])
    /\ \A i, j \in 1..Len(got) : i < j => (got[i] \cap alive) \ {call.folder} \subseteq got[j]
CallOK ==
    /\ pc \in {"idle", "walk", "arrived", "mkdir", "delete", "props", "handles", "infos"}
    /\ pc # "idle" => call \in Calls
    /\ pc \notin {"idle", "props", "infos"} => call.got = <<>>
    /\ Lists => call.folder \in Places /\ Kids(call.folder) \subseteq seen[call.folder]
    /\ pc = "props" => PropsOK(call.got) /\ Len(call.got) \in 0..2
    /\ pc = "infos" => /\ Len(call.got) = 1 /\ InfosOK(call.got[1] \cup call.left)
                       /\ call.folder \notin call.got[1] \cup call.left
    /\ pc \in {"arrived", "delete"} =>
          /\ call.h \in {Root} \cup DOMAIN entries /\ PathOf(call.h) = call.path
    /\ pc = "mkdir" => call.name \in Names
    /\ pc = "delete" => call.h # Root /\ entries[call.h].dir = (call.op = "rmdir")

Inv == DeviceOK /\ HistoryOK /\ EntriesOK /\ ListingsOK /\ CallOK

-----------------------------------------------------------------------------
(* Paths on the cellphone.                                                 *)

\* A set of numbers has a least one.
LEMMA LeastOf == ASSUME NEW T, T \subseteq Nat, T # {} PROVE \E m \in T : \A j \in T : m <= j
<1>1. \E m \in T : \A j \in T : <<j, m>> \notin OpToRel(<, Nat)
  BY WFMin, NatLessThanWellFounded, Zenon
<1>2. PICK m \in T : \A j \in T : ~(j < m)
  BY <1>1, Zenon DEF OpToRel
<1> QED
  BY <1>2

Older(os) ==
    /\ os \in Seq(Objects)
    /\ \A h \in 1..Len(os) : os[h].parent \in 0..(h - 1)

\* The table of paths exists: a parent comes before what it holds.
LEMMA WaysIs ==
    ASSUME NEW os, Older(os)
    PROVE  Ways(os) = [o \in 0..Len(os) |->
                          IF o = Root THEN <<>> ELSE Append(Ways(os)[os[o].parent], os[o].name)]
<1> DEFINE Body(f, n) == [o \in 0..n |-> IF o = Root THEN <<>> ELSE Append(f[os[o].parent], os[o].name)]
           S == {n \in 0..Len(os) : ~\E f : f = Body(f, n)}
<1>1. Len(os) \in Nat /\ \A h \in 1..Len(os) : os[h].parent \in 0..(h - 1)
  BY LenProperties DEF Older
<1>2. ASSUME S # {} PROVE FALSE
  <2>0. S \subseteq Nat
    BY <1>1
  <2>1. PICK m \in S : \A j \in S : m <= j
    <3> HIDE DEF S
    <3> QED
      BY <1>2, <2>0, LeastOf
  <2>2. m \in 0..Len(os) /\ m \in Nat /\ ~\E f : f = Body(f, m)
    <3>1. m \in 0..Len(os) /\ ~\E f : f = Body(f, m)
      BY <2>1
    <3> QED
      BY <2>0, <2>1, <3>1
  <2>3. CASE m = 0
    <3>1. [o \in 0..0 |-> <<>>] = Body([o \in 0..0 |-> <<>>], 0)
      BY DEF Root
    <3> QED
      BY <2>2, <2>3, <3>1
  <2>4. CASE m # 0
    <3>1. m - 1 \in 0..Len(os) /\ m - 1 \notin S
      <4> HIDE DEF S
      <4> QED
        BY <1>1, <2>1, <2>2, <2>4
    <3>2. PICK f : f = Body(f, m - 1)
      BY <3>1
    <3>a. \A o \in 0..(m - 1) : f[o] = IF o = Root THEN <<>> ELSE Append(f[os[o].parent], os[o].name)
      BY <3>2
    <3> DEFINE g == [o \in 0..m |-> IF o < m THEN f[o] ELSE Append(f[os[m].parent], os[m].name)]
    <3>b. \A o \in 0..m : g[o] = IF o < m THEN f[o] ELSE Append(f[os[m].parent], os[m].name)
      BY Zenon
    <3>c. \A o \in 0..m : Body(g, m)[o] = IF o = Root THEN <<>> ELSE Append(g[os[o].parent], os[o].name)
      BY Zenon
    <3>d. 0 \in 0..m /\ m \in 0..m /\ 0 < m /\ ~(m < m) /\ (\A i \in 0..(m - 1) : i \in 0..m /\ i < m)
      BY <2>2, <2>4
    <3> HIDE DEF g, Body
    <3>3. ASSUME NEW o \in 0..m PROVE g[o] = Body(g, m)[o]
      <4>1. CASE o = 0
        <5>1. 0 \in 0..(m - 1)
          BY <2>2, <2>4
        <5>2. f[0] = <<>> /\ g[0] = f[0]
          BY <3>a, <3>b, <3>d, <5>1, Zenon DEF Root
        <5> QED
          BY <3>c, <4>1, <5>2, Zenon DEF Root
      <4>2. CASE o # 0 /\ o < m
        <5>1. o \in 0..(m - 1) /\ o # Root /\ os[o].parent \in 0..(m - 1)
          BY <1>1, <2>2, <4>2 DEF Root
        <5>2. g[os[o].parent] = f[os[o].parent] /\ g[o] = f[o]
          BY <3>b, <3>d, <5>1, Zenon
        <5>3. f[o] = Append(f[os[o].parent], os[o].name)
          BY <3>a, <5>1, Zenon
        <5> QED
          BY <3>c, <5>1, <5>2, <5>3, Zenon
      <4>3. CASE o = m
        <5>1. os[m].parent \in 0..(m - 1) /\ m # Root
          BY <1>1, <2>2, <2>4 DEF Root
        <5>2. g[os[m].parent] = f[os[m].parent]
          BY <3>b, <3>d, <5>1, Zenon
        <5>3. g[m] = Append(f[os[m].parent], os[m].name)
          BY <3>b, <3>d, Zenon
        <5> QED
          BY <3>c, <4>3, <5>1, <5>2, <5>3, Zenon
      <4>4. o = 0 \/ (o # 0 /\ o < m) \/ o = m
        BY <2>2
      <4> QED
        BY <4>1, <4>2, <4>3, <4>4, Zenon
    <3>4. g = Body(g, m)
      BY <3>3 DEF g, Body
    <3> QED
      BY <2>2, <3>4
  <2> QED
    BY <2>3, <2>4
<1>3. \E f : f = Body(f, Len(os))
  BY <1>1, <1>2, SMTT(60)
<1>4. Ways(os) = CHOOSE f : f = Body(f, Len(os))
  BY SMTT(60) DEF Ways
<1>5. Ways(os) = Body(Ways(os), Len(os))
  BY <1>3, <1>4
<1> QED
  BY <1>5

\* The paths of the root and of an object.
LEMMA WaysAt ==
    ASSUME NEW os, Older(os)
    PROVE  /\ Ways(os)[Root] = <<>>
           /\ \A o \in 1..Len(os) : Ways(os)[o] = Append(Ways(os)[os[o].parent], os[o].name)
<1>1. Len(os) \in Nat
  BY LenProperties DEF Older
<1>2. Root \in 0..Len(os) /\ \A o \in 1..Len(os) : o \in 0..Len(os) /\ o # Root
  BY <1>1 DEF Root
<1>3. \A o \in 0..Len(os) : Ways(os)[o] = IF o = Root THEN <<>> ELSE Append(Ways(os)[os[o].parent], os[o].name)
  BY WaysIs, Zenon
<1> QED
  BY <1>2, <1>3, Zenon

\* An object that is added moves no other.
LEMMA WaysGrow ==
    ASSUME NEW os, NEW x, Older(os), Older(Append(os, x)), NEW h \in 0..Len(os)
    PROVE  Ways(Append(os, x))[h] = Ways(os)[h]
<1> DEFINE new == Append(os, x)
           S == {o \in 0..Len(os) : Ways(new)[o] # Ways(os)[o]}
<1>1. Len(os) \in Nat /\ Len(new) = Len(os) + 1 /\ \A o \in 1..Len(os) : new[o] = os[o] /\ os[o].parent \in 0..(o - 1)
  <2>1. os \in Seq(Objects)
    BY DEF Older
  <2>2. Len(os) \in Nat /\ os = [i \in 1..Len(os) |-> os[i]]
    BY <2>1, SeqDef, LenProperties
  <2>3. Len(new) = Len(os) + 1 /\ \A o \in 1..Len(os) : new[o] = os[o]
    BY <2>1, <2>2
  <2> QED
    BY <2>2, <2>3 DEF Older
<1>2. ASSUME S # {} PROVE FALSE
  <2>0. S \subseteq Nat
    BY <1>1
  <2>1. PICK m \in S : \A j \in S : m <= j
    <3> HIDE DEF S
    <3> QED
      BY <1>2, <2>0, LeastOf
  <2>2. m \in 0..Len(os) /\ Ways(new)[m] # Ways(os)[m]
    BY <2>1
  <2>3. m # Root
    <3>1. Ways(os)[Root] = <<>> /\ Ways(new)[Root] = <<>>
      BY WaysAt, Zenon
    <3> QED
      BY <2>2, <3>1
  <2>4. os[m].parent \in 0..(m - 1) /\ new[m] = os[m] /\ m \in 1..Len(os) /\ m \in 0..Len(new)
    BY <1>1, <2>2, <2>3 DEF Root
  <2>5. os[m].parent \notin S /\ os[m].parent \in 0..Len(os)
    BY <1>1, <2>1, <2>4
  <2>6. Ways(new)[os[m].parent] = Ways(os)[os[m].parent]
    BY <2>5
  <2>7. Ways(os)[m] = Append(Ways(os)[os[m].parent], os[m].name)
    BY <2>4, WaysAt, Zenon
  <2>8. Ways(new)[m] = Append(Ways(new)[new[m].parent], new[m].name)
    <3>1. m \in 1..Len(new)
      BY <1>1, <2>4
    <3> QED
      BY <3>1, WaysAt, Zenon
  <2> QED
    BY <2>2, <2>4, <2>6, <2>7, <2>8
<1> QED
  BY <1>2

-----------------------------------------------------------------------------
(* The walk.                                                               *)

\* The table of a walk exists.
LEMMA LookupsIs ==
    ASSUME NEW path, Len(path) \in Nat
    PROVE  Lookups(path) = [i \in 0..Len(path) |->
               IF i = 0 THEN [is |-> "found", h |-> Root] ELSE Onward(Lookups(path)[i - 1], path[i])]
<1> DEFINE Body(f, n) == [i \in 0..n |->
                             IF i = 0 THEN [is |-> "found", h |-> Root] ELSE Onward(f[i - 1], path[i])]
           S == {n \in 0..Len(path) : ~\E f : f = Body(f, n)}
<1>1. ASSUME S # {} PROVE FALSE
  <2>0. S \subseteq Nat
    OBVIOUS
  <2>1. PICK m \in S : \A j \in S : m <= j
    <3> HIDE DEF S
    <3> QED
      BY <1>1, <2>0, LeastOf
  <2>2. m \in 0..Len(path) /\ m \in Nat /\ ~\E f : f = Body(f, m)
    BY <2>1
  <2>3. CASE m = 0
    <3> DEFINE f == [i \in 0..0 |-> [is |-> "found", h |-> Root]]
    <3>1. f = Body(f, 0)
      OBVIOUS
    <3> QED
      BY <2>2, <2>3, <3>1
  <2>4. CASE m # 0
    <3>1. m - 1 \in 0..Len(path) /\ m - 1 \notin S
      <4> HIDE DEF S
      <4> QED
        BY <2>1, <2>2, <2>4
    <3>2. PICK f : f = Body(f, m - 1)
      BY <3>1
    <3> DEFINE g == [i \in 0..m |-> IF i < m THEN f[i] ELSE Onward(f[m - 1], path[m])]
    <3>3. ASSUME NEW i \in 0..m PROVE g[i] = Body(g, m)[i]
      <4>1. CASE i = 0
        BY <2>2, <2>4, <3>2, <4>1
      <4>2. CASE i # 0 /\ i < m
        <5>1. g[i] = f[i] /\ g[i - 1] = f[i - 1]
          BY <2>2, <4>2
        <5>2. f[i] = Onward(f[i - 1], path[i])
          BY <2>2, <3>2, <4>2
        <5> QED
          BY <2>2, <4>2, <5>1, <5>2
      <4>3. CASE i = m
        <5>1. g[m - 1] = f[m - 1]
          BY <2>2, <2>4
        <5> QED
          BY <2>2, <2>4, <4>3, <5>1
      <4> QED
        BY <2>2, <4>1, <4>2, <4>3
    <3>4. g = Body(g, m)
      BY <3>3
    <3> QED
      BY <2>2, <3>4
  <2> QED
    BY <2>3, <2>4
<1>2. \E f : f = Body(f, Len(path))
  BY <1>1
<1>3. Lookups(path) = CHOOSE f : f = Body(f, Len(path))
  BY DEF Lookups
<1>4. Lookups(path) = Body(Lookups(path), Len(path))
  BY <1>2, <1>3
<1> QED
  BY <1>4

\* The objects are older than what they hold, as the lemmas above want it.
LEMMA OlderIs == ASSUME DeviceOK PROVE Older(objs) /\ Len(objs) \in Nat /\ MaxHandle \in Nat
BY BoundsAssumption, LenProperties DEF DeviceOK, Older, Known

\* Where one part of a path leads.
LEMMA OnwardLeads ==
    ASSUME DeviceOK, EntriesOK, ListingsOK, NEW prev, NEW name, NEW w,
           prev.h \in {Root} \cup DOMAIN entries, prev.is = "found" => PathOf(prev.h) = w,
           prev.is = "need" => prev.h \notin DOMAIN children
    PROVE  LET next == Onward(prev, name) IN
           /\ next.h \in {Root} \cup DOMAIN entries
           /\ next.is = "found" => PathOf(next.h) = Append(w, name)
           /\ next.is = "need" => next.h \notin DOMAIN children
<1>1. CASE prev.is # "found"
  BY <1>1 DEF Onward
<1>2. CASE prev.is = "found" /\ prev.h \notin DOMAIN children
  BY <1>2 DEF Onward
<1>3. CASE prev.is = "found" /\ prev.h \in DOMAIN children /\ Named(prev.h, name) = {}
  BY <1>3 DEF Onward
<1>4. CASE prev.is = "found" /\ prev.h \in DOMAIN children /\ Named(prev.h, name) # {}
  <2>1. PICK h : h = CHOOSE k \in Named(prev.h, name) : TRUE
    OBVIOUS
  <2>2. h \in Named(prev.h, name)
    BY <1>4, <2>1
  <2>3. h \in DOMAIN entries /\ h \in Known /\ objs[h].parent = prev.h /\ objs[h].name = name
    BY <1>4, <2>2 DEF Named, EntriesOK, ListingsOK, ListingOK
  <2>4. PathOf(h) = Append(PathOf(prev.h), name)
    BY <2>3, OlderIs, WaysAt DEF PathOf, Known
  <2>5. Onward(prev, name) = [is |-> "found", h |-> h]
    BY <1>4, <2>1 DEF Onward
  <2> QED
    BY <1>4, <2>3, <2>4, <2>5
<1> QED
  BY <1>1, <1>2, <1>3, <1>4

\* A path and one name more.
LEMMA OneMore ==
    ASSUME NEW path \in Seq(Names), NEW i \in 1..Len(path)
    PROVE  SubSeq(path, 1, i) = Append(SubSeq(path, 1, i - 1), path[i])
<1>1. Len(path) \in Nat /\ i \in Nat /\ i - 1 \in Nat
  BY LenProperties
<1>2. SubSeq(path, 1, i) = [k \in 1..i |-> path[k]] /\ SubSeq(path, 1, i - 1) = [k \in 1..(i - 1) |-> path[k]]
  BY <1>1
<1>3. Append(SubSeq(path, 1, i - 1), path[i]) = [k \in 1..i |-> path[k]]
  BY <1>1, <1>2
<1> QED
  BY <1>2, <1>3

\* A walk ends at an object the tree knows, and what it finds has the path
\* that was asked for; what it needs is not listed.
LEMMA LookupLeads ==
    ASSUME DeviceOK, EntriesOK, ListingsOK, NEW path \in Seq(Names)
    PROVE  /\ Lookup(path).h \in {Root} \cup DOMAIN entries
           /\ Lookup(path).is = "found" => PathOf(Lookup(path).h) = path
           /\ Lookup(path).is = "need" => Lookup(path).h \notin DOMAIN children
<1> DEFINE at(i) == Lookups(path)[i]
           Leads(i) == /\ at(i).h \in {Root} \cup DOMAIN entries
                       /\ at(i).is = "found" => PathOf(at(i).h) = SubSeq(path, 1, i)
                       /\ at(i).is = "need" => at(i).h \notin DOMAIN children
           S == {i \in 0..Len(path) : ~Leads(i)}
<1>1. Len(path) \in Nat
  BY LenProperties
<1>2. at(0) = [is |-> "found", h |-> Root]
  BY <1>1, LookupsIs
<1>3. \A i \in 1..Len(path) : at(i) = Onward(at(i - 1), path[i])
  <2>1. \A i \in 1..Len(path) : i \in 0..Len(path) /\ i # 0
    BY <1>1
  <2>2. \A i \in 0..Len(path) : at(i) = IF i = 0 THEN [is |-> "found", h |-> Root] ELSE Onward(at(i - 1), path[i])
    BY <1>1, LookupsIs, Zenon
  <2> QED
    BY <2>1, <2>2, Zenon
<1>4. Leads(0)
  <2>1. SubSeq(path, 1, 0) = <<>>
    BY <1>1
  <2>2. PathOf(Root) = <<>>
    BY OlderIs, WaysAt DEF PathOf
  <2> QED
    BY <1>2, <2>1, <2>2
<1>5. ASSUME S # {} PROVE FALSE
  <2>0. S \subseteq Nat
    BY <1>1
  <2>1. PICK m \in S : \A j \in S : m <= j
    <3> HIDE DEF S
    <3> QED
      BY <1>5, <2>0, LeastOf
  <2>2. m \in 0..Len(path) /\ ~Leads(m)
    BY <2>1
  <2>3. m # 0
    BY <1>4, <2>2, Zenon
  <2>4. m \in 1..Len(path) /\ m - 1 \in 0..Len(path) /\ ~(m <= m - 1)
    BY <1>1, <2>2, <2>3
  <2>5. m - 1 \notin S
    BY <2>1, <2>4, Zenon
  <2>6. Leads(m - 1)
    BY <2>4, <2>5, Zenon
  <2>7. Leads(m)
    <3>1. PICK prev : prev = at(m - 1)
      OBVIOUS
    <3>2. PICK w : w = SubSeq(path, 1, m - 1)
      OBVIOUS
    <3>3. /\ prev.h \in {Root} \cup DOMAIN entries /\ (prev.is = "found" => PathOf(prev.h) = w)
          /\ prev.is = "need" => prev.h \notin DOMAIN children
      BY <2>6, <3>1, <3>2, Zenon
    <3>4. PICK next : next = Onward(prev, path[m])
      OBVIOUS
    <3>5. /\ next.h \in {Root} \cup DOMAIN entries /\ (next.is = "found" => PathOf(next.h) = Append(w, path[m]))
          /\ next.is = "need" => next.h \notin DOMAIN children
      BY <3>3, <3>4, OnwardLeads, Zenon
    <3>6. at(m) = next /\ SubSeq(path, 1, m) = Append(w, path[m])
      BY <1>3, <2>4, <3>1, <3>2, <3>4, OneMore, Zenon
    <3> QED
      BY <3>5, <3>6, Zenon
  <2> QED
    BY <2>2, <2>7
<1>6. Leads(Len(path))
  <2>1. Len(path) \in 0..Len(path)
    BY <1>1
  <2> QED
    BY <1>5, <2>1, Zenon
<1>7. SubSeq(path, 1, Len(path)) = path
  BY <1>1
<1> QED
  BY <1>6, <1>7, Zenon DEF Lookup

-----------------------------------------------------------------------------
(* The cellphone changes.                                                  *)

\* What a new object changes, and what it leaves.
LEMMA Grown ==
    ASSUME DeviceOK, NEW f, NEW name \in Names, NEW kind \in Kinds, Fits(f), Make(f, name, kind)
    PROVE  /\ DeviceOK' /\ f \in Places /\ Len(objs) + 1 \notin Known /\ Len(objs) + 1 \notin Places
           /\ Known \subseteq Known' /\ alive' = alive \cup {Len(objs) + 1}
           /\ \A h \in Known : objs'[h] = objs[h]
           /\ \A h \in Places : PathOf(h)' = PathOf(h)
           /\ \A g : Kids(g) \subseteq Kids(g)' /\ Kids(g)' \subseteq Kids(g) \cup {Len(objs) + 1}
           /\ \A g : g # f => Kids(g)' = Kids(g)
           /\ Len(objs) + 1 \in Kids(f)'
<1> DEFINE x == [parent |-> f, name |-> name, dir |-> kind.dir, size |-> kind.size, parses |-> kind.parses]
           n == Len(objs)
<1>1. /\ objs' = Append(objs, x) /\ alive' = alive \cup {n + 1} /\ n < MaxHandle
      /\ objs \in Seq(Objects) /\ n \in Nat /\ MaxHandle \in Nat /\ alive \subseteq 1..n
      /\ \A h \in 1..n : objs[h].parent \in 0..(h - 1)
  BY OlderIs DEF Make, Fits, DeviceOK, Known
<1>2. f \in 0..n
  <2>1. f = 0 \/ f \in alive
    BY DEF Fits, IsFolder, Root
  <2>2. \A h \in alive : h \in 0..n
    BY <1>1
  <2>3. 0 \in 0..n
    BY <1>1
  <2> QED
    BY <2>1, <2>2, <2>3
<1>3. x \in Objects
  BY <1>1, <1>2, KindsAssumption DEF Objects
<1>4. /\ objs' \in Seq(Objects) /\ Len(objs') = n + 1 /\ objs'[n + 1] = x
      /\ \A h \in 1..n : objs'[h] = objs[h]
  <2> HIDE DEF x
  <2> QED
    BY <1>1, <1>3, AppendProperties
<1>5. \A h \in 1..(n + 1) : objs'[h].parent \in 0..(h - 1)
  <2>1. objs'[n + 1].parent = f
    BY <1>4
  <2>2. \A h \in 1..(n + 1) : h \in 1..n \/ h = n + 1
    BY <1>1
  <2> HIDE DEF x
  <2> QED
    BY <1>1, <1>2, <1>4, <2>1, <2>2
<1>6. DeviceOK'
  <2> HIDE DEF x
  <2>1. Len(objs') <= MaxHandle /\ alive' \subseteq 1..Len(objs')
    <3>1. PICK k \in Nat : k = n
      BY <1>1
    <3>2. k + 1 <= MaxHandle /\ alive \subseteq 1..k /\ alive' = alive \cup {k + 1} /\ Len(objs') = k + 1
      BY <1>1, <1>4, <3>1
    <3> QED
      BY ONLY k \in Nat, <3>2
  <2> QED
    BY <1>4, <1>5, <2>1 DEF DeviceOK, Known
<1>7. Known = 1..n /\ Known' = 1..(n + 1) /\ Places = 0..n
  BY <1>1, <1>4 DEF Known, Places, Root
<1>8. \A h \in 0..n : PathOf(h)' = PathOf(h)
  <2>1. Older(objs) /\ Older(Append(objs, x))
    BY <1>1, <1>4, <1>5, OlderIs DEF Older
  <2> HIDE DEF x
  <2> QED
    BY <1>1, <2>1, WaysGrow DEF PathOf
<1>9. \A g : Kids(g)' = {h \in alive \cup {n + 1} : objs'[h].parent = g}
  BY <1>1 DEF Kids
<1>10. objs'[n + 1].parent = f
  BY <1>4
<1>11. \A h \in alive : objs'[h] = objs[h]
  BY <1>1, <1>4
<1>12. /\ \A g : Kids(g) \subseteq Kids(g)' /\ Kids(g)' \subseteq Kids(g) \cup {n + 1}
       /\ \A g : g # f => Kids(g)' = Kids(g)
       /\ n + 1 \in Kids(f)'
  <2> HIDE DEF x, n
  <2> QED
    BY <1>9, <1>10, <1>11 DEF Kids
<1> QED
  BY <1>1, <1>2, <1>4, <1>6, <1>7, <1>8, <1>12

\* A listing stays right when its objects, its entries and the way it came
\* stay, and no object begins to have stayed.
LEMMA ListingKept ==
    ASSUME NEW g, ListingOK(g), children'[g] = children[g], Places \subseteq Places',
           DOMAIN entries \subseteq DOMAIN entries', g \in older' <=> g \in older,
           \A h \in children[g] \cup stayed[g] : objs'[h] = objs[h],
           \A h \in children[g] : entries'[h] = entries[h] /\ (h \in alive' => h \in alive),
           children[g] \subseteq seen'[g], stayed'[g] \subseteq stayed[g]
    PROVE  ListingOK(g)'
<1>1. /\ g \in Places' /\ children'[g] \subseteq DOMAIN entries' /\ children'[g] \subseteq seen'[g]
      /\ \A h \in stayed'[g] \ children'[g] : g \in older' /\ ~objs'[h].parses
  BY DEF ListingOK
<1>2. ASSUME NEW h \in children[g] PROVE objs'[h].parent = g /\ (h \in alive' => entries'[h] = Says(g, h)')
  <2>1. objs[h].parent = g /\ (h \in alive => entries[h] = Says(g, h)) /\ objs'[h] = objs[h]
    BY DEF ListingOK
  <2>2. Says(g, h)' = Says(g, h)
    BY <2>1 DEF Says, InfoEntry, Entry
  <2> QED
    BY <2>1, <2>2
<1> QED
  BY <1>1, <1>2 DEF ListingOK

\* What stayed in a folder, and what its listing holds, are known objects.
LEMMA ListedKnown ==
    ASSUME DeviceOK, HistoryOK, EntriesOK, NEW g, ListingOK(g)
    PROVE  children[g] \subseteq Known /\ stayed[g] \subseteq Known
<1>1. children[g] \subseteq Known
  BY DEF ListingOK, EntriesOK
<1>2. g \in {Root} \cup Handles
  BY OlderIs DEF ListingOK, Places, Known, Handles, DeviceOK
<1>3. stayed[g] \subseteq Known
  BY <1>2 DEF HistoryOK, Kids, DeviceOK
<1> QED
  BY <1>1, <1>3

\* What the tree holds does not depend on a new object.
LEMMA GrownTree ==
    ASSUME DeviceOK, HistoryOK, EntriesOK, ListingsOK, NEW f, NEW name \in Names, NEW kind \in Kinds,
           Fits(f), Make(f, name, kind), entries' = entries, older' = older,
           seen' = [seen EXCEPT ![f] = @ \cup {Len(objs) + 1}],
           \/ stayed' = stayed /\ children' = children
           \/ stayed' = [stayed EXCEPT ![f] = @ \cup {Len(objs) + 1}] /\ children' = Forget(f)
           \/ stayed' = stayed /\ children' = Forget(f)
    PROVE  DeviceOK' /\ HistoryOK' /\ EntriesOK' /\ ListingsOK'
<1>1. /\ DeviceOK' /\ f \in Places /\ Len(objs) + 1 \notin Known /\ Len(objs) + 1 \notin Places
      /\ Known \subseteq Known' /\ alive' = alive \cup {Len(objs) + 1}
      /\ \A h \in Known : objs'[h] = objs[h]
      /\ \A g : Kids(g) \subseteq Kids(g)' /\ Kids(g)' \subseteq Kids(g) \cup {Len(objs) + 1}
      /\ Len(objs) + 1 \in Kids(f)'
  BY Grown
<1>2. f \in {Root} \cup Handles /\ Places \subseteq {Root} \cup Handles
  BY <1>1, OlderIs DEF Places, Known, Handles, DeviceOK
<1>3. PICK n : n = Len(objs) + 1
  OBVIOUS
<1>4. /\ DOMAIN stayed' = {Root} \cup Handles /\ DOMAIN seen' = {Root} \cup Handles
      /\ \A g \in {Root} \cup Handles : stayed'[g] \subseteq stayed[g] \cup {n} /\ (g # f => stayed'[g] = stayed[g])
      /\ \A g \in {Root} \cup Handles : seen[g] \subseteq seen'[g]
  BY <1>2, <1>3 DEF HistoryOK
<1>5. HistoryOK'
  BY <1>1, <1>2, <1>3, <1>4 DEF HistoryOK
<1>6. EntriesOK'
  BY <1>1, <1>3 DEF EntriesOK
<1>7. ListingsOK'
  <2> SUFFICES ASSUME NEW g \in DOMAIN children' PROVE ListingOK(g)'
    BY DEF ListingsOK
  <2>1. g \in DOMAIN children /\ children'[g] = children[g] /\ (stayed' = stayed \/ g # f)
    BY DEF Forget
  <2>2. ListingOK(g) /\ children[g] \subseteq Known /\ stayed[g] \subseteq Known
    BY <2>1, ListedKnown DEF ListingsOK
  <2>3. g \in Places /\ children[g] \subseteq seen[g]
    BY <2>2 DEF ListingOK
  <2>4. stayed'[g] = stayed[g] /\ seen[g] \subseteq seen'[g] /\ Places \subseteq Places'
    BY <1>1, <1>2, <1>4, <2>1, <2>3 DEF Places
  <2>5. \A h \in children[g] : h \in alive' => h \in alive
    BY <1>1, <2>2
  <2>6. \A h \in children[g] \cup stayed[g] : objs'[h] = objs[h]
    BY <1>1, <2>2
  <2> QED
    BY <2>1, <2>2, <2>3, <2>4, <2>5, <2>6, ListingKept
<1> QED
  BY <1>1, <1>5, <1>6, <1>7

\* What the tree holds when objects go. A listing that loses one of its
\* objects, as far as a listing may hold, is forgotten.
LEMMA ShrunkTree ==
    ASSUME DeviceOK, HistoryOK, EntriesOK, ListingsOK, NEW X, objs' = objs, alive' = alive \ X, entries' = entries, older' = older,
           stayed' = [f \in DOMAIN stayed |-> stayed[f] \ X],
           \/ seen' = seen /\ children' = children
           \/ \E h \in Nat : /\ seen' = [f \in DOMAIN seen |-> seen[f] \ {h}]
                             /\ children' = Forget(entries[h].parent)
    PROVE  DeviceOK' /\ HistoryOK' /\ EntriesOK' /\ ListingsOK'
<1>1. DeviceOK' /\ Known' = Known /\ Places' = Places
  BY DEF DeviceOK, Known, Places
<1>2. Places \subseteq {Root} \cup Handles
  BY OlderIs DEF Places, Known, Handles, DeviceOK
<1>3. HistoryOK'
  <2>1. DOMAIN stayed' = {Root} \cup Handles /\ DOMAIN seen' = {Root} \cup Handles
    BY DEF HistoryOK
  <2>2. \A f \in {Root} \cup Handles : stayed'[f] = stayed[f] \ X /\ stayed[f] \subseteq Kids(f)
    BY DEF HistoryOK
  <2>3. \A f : Kids(f)' = Kids(f) \ X
    BY DEF Kids
  <2> QED
    BY <2>1, <2>2, <2>3 DEF HistoryOK
<1>4. EntriesOK'
  BY <1>1 DEF EntriesOK
<1>5. ListingsOK'
  <2> SUFFICES ASSUME NEW g \in DOMAIN children' PROVE ListingOK(g)'
    BY DEF ListingsOK
  <2>1. g \in DOMAIN children /\ children'[g] = children[g]
    BY DEF Forget
  <2>2. ListingOK(g) /\ g \in Places /\ (\A h \in children[g] : objs[h].parent = g /\ h \in DOMAIN entries)
        /\ children[g] \subseteq seen[g]
    BY <2>1 DEF ListingsOK, ListingOK
  <2>3. stayed'[g] \subseteq stayed[g]
    BY <1>2, <2>2 DEF HistoryOK
  <2>4. children[g] \subseteq seen'[g]
    <3>1. CASE seen' = seen
      BY <2>2, <3>1
    <3>2. ASSUME NEW h \in Nat, seen' = [f \in DOMAIN seen |-> seen[f] \ {h}], children' = Forget(entries[h].parent)
          PROVE  children[g] \subseteq seen'[g]
      <4>1. g # entries[h].parent
        BY <3>2 DEF Forget
      <4>2. h \notin children[g]
        BY <2>2, <4>1 DEF EntriesOK
      <4>3. seen'[g] = seen[g] \ {h}
        BY <1>2, <2>2, <3>2 DEF HistoryOK
      <4> QED
        BY <2>2, <4>2, <4>3
    <3> QED
      BY <3>1, <3>2
  <2> QED
    BY <1>1, <2>1, <2>2, <2>3, <2>4, ListingKept
<1> QED
  BY <1>1, <1>3, <1>4, <1>5

\* A call that returns leaves nothing.
LEMMA Returned == ASSUME Return PROVE CallOK'
BY DEF Return, CallOK, Lists

\* The world of a step that only moves the call on.
LEMMA SameWorld ==
    ASSUME DeviceOK, HistoryOK, EntriesOK, ListingsOK, UNCHANGED <<device, tree, stayed, seen>>
    PROVE  DeviceOK' /\ HistoryOK' /\ EntriesOK' /\ ListingsOK'
<1>1. objs' = objs /\ alive' = alive /\ entries' = entries /\ children' = children /\ stayed' = stayed /\ seen' = seen
      /\ older' = older
  BY DEF device, tree
<1>2. DeviceOK' /\ Known' = Known
  BY <1>1 DEF DeviceOK, Known
<1>3. HistoryOK'
  BY <1>1 DEF HistoryOK, Kids
<1>4. EntriesOK'
  BY <1>1, <1>2 DEF EntriesOK
<1>5. ListingsOK'
  BY <1>1, <1>2, ListingKept DEF ListingsOK, ListingOK, Places
<1> QED
  BY <1>2, <1>3, <1>4, <1>5

\* A call goes on while the cellphone changes: what it was told stays right.
LEMMA CallKept ==
    ASSUME DeviceOK, HistoryOK, EntriesOK, CallOK, UNCHANGED <<pc, call, entries>>,
           Known \subseteq Known', \A h \in Known : objs'[h] = objs[h] /\ (h \in alive' => h \in alive),
           \A h \in Places : PathOf(h)' = PathOf(h),
           \A f \in Places : /\ stayed'[f] \subseteq stayed[f] /\ seen[f] \subseteq seen'[f]
                             /\ Kids(f)' \subseteq Kids(f) \cup seen'[f]
    PROVE  CallOK'
<1>1. pc' = pc /\ call' = call /\ entries' = entries
  OBVIOUS
<1>2. PICK f, h : f = call.folder /\ h = call.h
  OBVIOUS
<1>3. ASSUME NEW A, Some(A), f \in Places PROVE Some(A)'
  <2>1. \A k \in A \ {f} : k \in Known /\ k \in seen[f] /\ objs[k].parent = f
    BY <1>2, <1>3 DEF Some
  <2>2. \A k \in A \ {f} : k \in Known' /\ k \in seen'[f] /\ objs'[k].parent = f
    BY <1>3, <2>1
  <2> QED
    BY <1>1, <1>2, <2>2 DEF Some
<1>a. ASSUME NEW A, Answer(A), f \in Places PROVE Answer(A)'
  BY <1>1, <1>2, <1>3, <1>a DEF Answer
<1>b. ASSUME NEW A, InfosOK(A), f \in Places PROVE InfosOK(A)'
  <2>1. \A h1 \in stayed[f] : h1 \in Known
    <3>1. f \in {Root} \cup Handles
      BY <1>b, OlderIs DEF Places, Known, Handles, DeviceOK
    <3> QED
      BY <3>1 DEF HistoryOK, Kids, DeviceOK
  <2>2. stayed'[f] \subseteq stayed[f] /\ \A h1 \in stayed[f] \ A : ~objs[h1].parses
    BY <1>2, <1>b DEF InfosOK
  <2> QED
    BY <1>1, <1>2, <1>3, <1>b, <2>1, <2>2 DEF InfosOK
<1>4. Lists => f \in Places /\ Kids(f) \subseteq seen[f]
  BY <1>2 DEF CallOK
<1>5. Lists' => (call.folder \in Places /\ Kids(call.folder) \subseteq seen[call.folder])'
  <2>1. Lists' = Lists /\ Places \subseteq Places'
    BY <1>1 DEF Lists, Places
  <2>2. Lists => Kids(f)' \subseteq seen'[f]
    BY <1>4
  <2> QED
    BY <1>1, <1>2, <1>4, <2>1, <2>2
<1>6. ASSUME pc = "props" PROVE PropsOK(call.got)'
  <2>1. f \in Places /\ PropsOK(call.got)
    BY <1>4, <1>6 DEF CallOK, Lists
  <2>2. PICK got : got = call.got
    OBVIOUS
  <2>3. \A i \in 1..Len(got) : Answer(got[i]) /\ Answer(got[i])'
    BY <1>a, <2>1, <2>2 DEF PropsOK
  <2>4. ASSUME NEW i \in 1..Len(got), NEW j \in 1..Len(got), i < j PROVE (got[i] \cap alive') \ {f} \subseteq got[j]
    <3>1. (got[i] \cap alive) \ {f} \subseteq got[j]
      BY <1>2, <2>1, <2>2, <2>4 DEF PropsOK
    <3>2. \A k \in got[i] \ {f} : k \in Known
      BY <1>2, <2>3 DEF Answer, Some
    <3> QED
      BY <3>1, <3>2
  <2> QED
    BY <1>1, <1>2, <2>2, <2>3, <2>4 DEF PropsOK
<1>7. ASSUME pc = "infos" PROVE InfosOK(call.got[1] \cup call.left)'
  <2>1. PICK A : A = call.got[1] \cup call.left
    OBVIOUS
  <2>2. InfosOK(A) /\ f \in Places
    BY <1>4, <1>7, <2>1 DEF CallOK, Lists
  <2>3. InfosOK(A)'
    BY <1>b, <2>2
  <2> QED
    BY <1>1, <2>1, <2>3
<1>8. ASSUME pc \in {"arrived", "delete"} PROVE PathOf(call.h)' = call.path
  <2>1. h \in Places /\ PathOf(h) = call.path
    BY <1>2, <1>8 DEF CallOK, EntriesOK, Places
  <2>2. PathOf(h)' = call.path
    BY <2>1
  <2> QED
    BY <1>1, <1>2, <2>2
<1> QED
  BY <1>1, <1>5, <1>6, <1>7, <1>8 DEF CallOK

\* The cellphone makes an object by itself.
LEMMA PhoneMakesStep ==
    ASSUME Inv, NEW f, NEW name \in Names, NEW kind \in Kinds, PhoneMakes(f, name, kind)
    PROVE  Inv'
<1>1. /\ Fits(f) /\ Make(f, name, kind) /\ seen' = [seen EXCEPT ![f] = @ \cup {Len(objs) + 1}]
      /\ stayed' = stayed /\ entries' = entries /\ children' = children /\ older' = older /\ pc' = pc /\ call' = call
  BY DEF PhoneMakes, MadeUnheard, tree
<1>2. DeviceOK /\ HistoryOK /\ EntriesOK /\ ListingsOK /\ CallOK
  BY DEF Inv
<1>3. DeviceOK' /\ HistoryOK' /\ EntriesOK' /\ ListingsOK'
  BY <1>1, <1>2, GrownTree
<1>4. /\ f \in Places /\ Len(objs) + 1 \notin Known
      /\ Known \subseteq Known' /\ alive' = alive \cup {Len(objs) + 1}
      /\ \A h \in Known : objs'[h] = objs[h]
      /\ \A h \in Places : PathOf(h)' = PathOf(h)
      /\ \A g : Kids(g)' \subseteq Kids(g) \cup {Len(objs) + 1}
      /\ \A g : g # f => Kids(g)' = Kids(g)
  BY <1>1, <1>2, Grown
<1>5. PICK n : n = Len(objs) + 1
  OBVIOUS
<1>6. \A h \in Known : h \in alive' => h \in alive
  BY <1>4
<1>7. ASSUME NEW g \in Places
      PROVE  stayed'[g] = stayed[g] /\ seen[g] \subseteq seen'[g] /\ Kids(g)' \subseteq Kids(g) \cup seen'[g]
  <2>1. g \in DOMAIN seen
    BY <1>2, OlderIs DEF HistoryOK, Places, Known, Handles, DeviceOK
  <2>2. seen'[g] = IF g = f THEN seen[g] \cup {n} ELSE seen[g]
    BY <1>1, <1>5, <2>1
  <2> QED
    BY <1>1, <1>4, <1>5, <2>2
<1>8. CallOK'
  BY <1>1, <1>2, <1>4, <1>6, <1>7, CallKept
<1> QED
  BY <1>3, <1>8 DEF Inv

\* The cellphone removes an object by itself, and what it holds.
LEMMA PhoneRemovesStep == ASSUME Inv, NEW h, PhoneRemoves(h) PROVE Inv'
<1>1. PICK X : X = Subtree(h)
  OBVIOUS
<1>2. /\ objs' = objs /\ alive' = alive \ X /\ stayed' = [f \in DOMAIN stayed |-> stayed[f] \ X] /\ seen' = seen
      /\ entries' = entries /\ children' = children /\ older' = older /\ pc' = pc /\ call' = call
  BY <1>1 DEF PhoneRemoves, GoneUnheard, tree
<1>3. DeviceOK /\ HistoryOK /\ EntriesOK /\ ListingsOK /\ CallOK
  BY DEF Inv
<1>4. DeviceOK' /\ HistoryOK' /\ EntriesOK' /\ ListingsOK'
  BY <1>2, <1>3, ShrunkTree
<1>5. /\ Known \subseteq Known' /\ \A k \in Known : objs'[k] = objs[k] /\ (k \in alive' => k \in alive)
      /\ \A k \in Places : PathOf(k)' = PathOf(k)
  BY <1>2 DEF Known, PathOf
<1>6. ASSUME NEW g \in Places
      PROVE  stayed'[g] \subseteq stayed[g] /\ seen'[g] = seen[g] /\ Kids(g)' \subseteq Kids(g)
  <2>1. g \in DOMAIN stayed
    BY <1>3, OlderIs DEF HistoryOK, Places, Known, Handles, DeviceOK
  <2> QED
    BY <1>2, <2>1 DEF Kids
<1>7. CallOK'
  BY <1>2, <1>3, <1>5, <1>6, CallKept
<1> QED
  BY <1>4, <1>7 DEF Inv

-----------------------------------------------------------------------------
(* Calls.                                                                  *)

\* A call begins.
LEMMA CallStep == ASSUME Inv, NEW path \in Paths, Call(path) PROVE Inv'
<1>1. path \in Seq(Names)
  <2>1. PICK n \in 0..MaxDepth : path \in [1..n -> Names]
    BY DEF Paths
  <2>2. n \in Nat
    BY <2>1, BoundsAssumption
  <2> QED
    BY <2>1, <2>2, SeqDef
<1>2. /\ pc' = "walk" /\ UNCHANGED <<device, tree, stayed, seen>>
      /\ call' = [path |-> path, h |-> Root, op |-> "none", name |-> "none", folder |-> Root, got |-> <<>>, left |-> {}]
  BY DEF Call
<1>3. call' \in Calls /\ call'.got = <<>>
  BY <1>1, <1>2 DEF Calls, Root
<1>4. CallOK'
  BY <1>2, <1>3 DEF CallOK, Lists
<1> QED
  BY <1>2, <1>4, SameWorld DEF Inv

\* A listing begins.
LEMMA ListStep ==
    ASSUME Inv, pc \in {"walk", "arrived"}, NEW f \in {Root} \cup DOMAIN entries, f \notin DOMAIN children, List(f),
           UNCHANGED <<device, tree>>
    PROVE  Inv'
<1>1. /\ objs' = objs /\ alive' = alive /\ entries' = entries /\ children' = children /\ older' = older
      /\ pc' \in {"props", "handles"} /\ call' = [call EXCEPT !.folder = f]
      /\ stayed' = [stayed EXCEPT ![f] = Kids(f)] /\ seen' = [seen EXCEPT ![f] = Kids(f)]
  BY DEF List, device, tree
<1>2. DeviceOK /\ HistoryOK /\ EntriesOK /\ ListingsOK /\ CallOK
  BY DEF Inv
<1>3. f \in Places /\ Places \subseteq {Root} \cup Handles /\ Places \subseteq Nat
  BY <1>2, OlderIs, SMTT(60) DEF EntriesOK, Places, Known, Handles, DeviceOK, Root
<1>4. DeviceOK' /\ Known' = Known /\ Places' = Places
  BY <1>1, <1>2 DEF DeviceOK, Known, Places
<1>5. \A g : Kids(g)' = Kids(g)
  BY <1>1 DEF Kids
<1>6. /\ DOMAIN stayed' = {Root} \cup Handles /\ DOMAIN seen' = {Root} \cup Handles
      /\ stayed'[f] = Kids(f) /\ seen'[f] = Kids(f)
      /\ \A g \in {Root} \cup Handles : g # f => stayed'[g] = stayed[g] /\ seen'[g] = seen[g]
  BY <1>1, <1>2, <1>3 DEF HistoryOK
<1>7. HistoryOK'
  BY <1>2, <1>5, <1>6 DEF HistoryOK
<1>8. EntriesOK'
  BY <1>1, <1>2, <1>4 DEF EntriesOK
<1>9. ListingsOK'
  <2> SUFFICES ASSUME NEW g \in DOMAIN children PROVE ListingOK(g)'
    BY <1>1 DEF ListingsOK
  <2>1. ListingOK(g) /\ g \in {Root} \cup Handles /\ g # f
    BY <1>2, <1>3 DEF ListingsOK, ListingOK
  <2> QED
    BY <1>1, <1>4, <1>6, <2>1, ListingKept DEF ListingOK
<1>10. call' \in Calls /\ call'.got = <<>> /\ call'.folder = f
  <2>1. call \in Calls /\ call.got = <<>>
    BY <1>2 DEF CallOK
  <2> QED
    BY <1>1, <1>3, <2>1 DEF Calls
<1>11. CallOK'
  <2>1. Len(call'.got) = 0
    BY <1>10
  <2>2. PropsOK(call.got)'
    BY <2>1 DEF PropsOK
  <2> QED
    BY <1>1, <1>3, <1>4, <1>5, <1>6, <1>10, <2>1, <2>2 DEF CallOK, Lists
<1> QED
  BY <1>4, <1>7, <1>8, <1>9, <1>11 DEF Inv

\* One round of the walk.
LEMMA WalkStep == ASSUME Inv, Walk PROVE Inv'
<1>1. pc = "walk" /\ UNCHANGED <<device, tree>> /\ call \in Calls /\ call.got = <<>>
  BY DEF Walk, Inv, CallOK
<1>2. PICK path \in Seq(Names) : path = call.path
  BY <1>1 DEF Calls
<1>3. PICK found : found = Lookup(path)
  OBVIOUS
<1>4. /\ found.h \in {Root} \cup DOMAIN entries
      /\ found.is = "found" => PathOf(found.h) = path
      /\ found.is = "need" => found.h \notin DOMAIN children
  BY <1>3, LookupLeads DEF Inv
<1>5. CASE found.is = "found" /\ pc' = "arrived" /\ call' = [call EXCEPT !.h = found.h] /\ UNCHANGED <<stayed, seen>>
  <2>1. objs' = objs /\ entries' = entries
    BY <1>1 DEF device, tree
  <2>2. found.h \in Nat
    BY <1>4 DEF Inv, EntriesOK, Known, Root
  <2>3. call' \in Calls /\ call'.got = <<>> /\ call'.h = found.h /\ call'.path = path
    BY <1>1, <1>2, <1>5, <2>2 DEF Calls
  <2>4. PathOf(call.h)' = path
    BY <1>4, <1>5, <2>1, <2>3 DEF PathOf
  <2>5. CallOK'
    BY <1>4, <1>5, <2>1, <2>3, <2>4 DEF CallOK, Lists
  <2> QED
    BY <1>1, <1>5, <2>5, SameWorld DEF Inv
<1>6. CASE found.is = "need" /\ List(found.h)
  BY <1>1, <1>4, <1>6, ListStep
<1>7. CASE Return /\ UNCHANGED <<stayed, seen>>
  BY <1>1, <1>7, Returned, SameWorld DEF Inv
<1> QED
  BY <1>2, <1>3, <1>5, <1>6, <1>7 DEF Walk

\* The operations that answer or ask for a change.
LEMMA OpStep ==
    ASSUME Inv, \/ OpGetattr \/ OpReaddir \/ (\E name \in Names : OpMkdir(name))
                \/ \E op \in {"unlink", "rmdir"} : OpRemove(op)
    PROVE  Inv'
<1>1. /\ pc = "arrived" /\ UNCHANGED <<device, tree>> /\ call \in Calls /\ call.got = <<>>
      /\ call.h \in {Root} \cup DOMAIN entries /\ PathOf(call.h) = call.path
  BY DEF OpGetattr, OpReaddir, OpMkdir, OpRemove, Inv, CallOK
<1>2. CASE Return /\ UNCHANGED <<stayed, seen>>
  BY <1>1, <1>2, Returned, SameWorld DEF Inv
<1>3. CASE OpReaddir /\ ~(Return /\ UNCHANGED <<stayed, seen>>)
  <2>1. PICK f : f = call.h
    OBVIOUS
  <2>2. f \notin DOMAIN children /\ List(f)
    BY <1>3, <2>1 DEF OpReaddir
  <2> QED
    BY <1>1, <2>1, <2>2, ListStep
<1>4. ASSUME NEW name \in Names, OpMkdir(name) PROVE Inv'
  <2>1. pc' = "mkdir" /\ call' = [call EXCEPT !.name = name] /\ UNCHANGED <<stayed, seen>>
    BY <1>4 DEF OpMkdir
  <2>2. call' \in Calls /\ call'.got = <<>> /\ call'.name \in Names
    BY <1>1, <2>1 DEF Calls
  <2>3. CallOK'
    BY <2>1, <2>2 DEF CallOK, Lists
  <2> QED
    BY <1>1, <2>1, <2>3, SameWorld DEF Inv
<1>5. ASSUME NEW op \in {"unlink", "rmdir"}, OpRemove(op), call.h # Root /\ KindAgrees(call.h, op) PROVE Inv'
  <2>1. pc' = "delete" /\ call' = [call EXCEPT !.op = op] /\ UNCHANGED <<stayed, seen>>
    BY <1>5 DEF OpRemove
  <2>2. call' \in Calls /\ call'.got = <<>> /\ call'.h = call.h /\ call'.op = op /\ call'.path = call.path
    BY <1>1, <2>1 DEF Calls
  <2>3. objs' = objs /\ entries' = entries
    BY <1>1 DEF device, tree
  <2>4. PathOf(call.h)' = call'.path
    BY <1>1, <2>2, <2>3 DEF PathOf
  <2>5. entries'[call'.h].dir = (call'.op = "rmdir")
    BY <1>5, <2>2, <2>3 DEF KindAgrees
  <2>6. CallOK'
    BY <1>1, <1>5, <2>1, <2>2, <2>3, <2>4, <2>5 DEF CallOK, Lists
  <2> QED
    BY <1>1, <2>1, <2>6, SameWorld DEF Inv
<1> QED
  BY <1>2, <1>3, <1>4, <1>5 DEF OpGetattr, OpRemove

-----------------------------------------------------------------------------
(* Listings.                                                               *)

\* A listing that is complete goes into the tree.
LEMMA SetChildrenStep ==
    ASSUME Inv, Lists, NEW es, NEW f, f = call.folder, SetChildren(f, es), UNCHANGED <<device, stayed, seen>>,
           older' = older \/ older' = older \cup {f},
           pc' = "walk", call' = [call EXCEPT !.got = <<>>, !.folder = Root],
           \A h \in DOMAIN es : /\ h \in Known /\ objs[h].parent = f
                                /\ es[h].parent = f /\ es[h].name = objs[h].name
                                /\ h \in alive => es[h] = Says(f, h)' /\ es[h].dir = objs[h].dir,
           \A h \in stayed[f] \ DOMAIN es : f \in older' /\ ~objs[h].parses,
           DOMAIN es \subseteq seen[f]
    PROVE  Inv'
<1>1. f = call.folder
  OBVIOUS
<1>2. objs' = objs /\ alive' = alive /\ stayed' = stayed /\ seen' = seen
  BY DEF device
<1>3. /\ entries' = [h \in DOMAIN entries \cup DOMAIN es |-> IF h \in DOMAIN es THEN es[h] ELSE entries[h]]
      /\ children' = [g \in DOMAIN children \cup {f} |-> IF g = f THEN DOMAIN es ELSE children[g]]
  BY <1>1 DEF SetChildren
<1>4. DeviceOK /\ HistoryOK /\ EntriesOK /\ ListingsOK /\ CallOK /\ f \in Places
  BY <1>1 DEF Inv, CallOK
<1>5. DeviceOK' /\ Known' = Known /\ Places' = Places
  BY <1>2, <1>4 DEF DeviceOK, Known, Places
<1>6. HistoryOK'
  BY <1>2, <1>4 DEF HistoryOK, Kids
<1>7. EntriesOK'
  BY <1>1, <1>2, <1>3, <1>4, <1>5 DEF EntriesOK
<1>8. ListingsOK'
  <2> SUFFICES ASSUME NEW g \in DOMAIN children' PROVE ListingOK(g)'
    BY DEF ListingsOK
  <2>1. CASE g = f
    <3>1. children'[g] = DOMAIN es
      BY <1>3, <2>1
    <3>2. \A h \in DOMAIN es : entries'[h] = es[h] /\ h \in DOMAIN entries'
      BY <1>3
    <3> QED
      BY <1>1, <1>2, <1>4, <1>5, <2>1, <3>1, <3>2 DEF ListingOK
  <2>2. CASE g # f
    <3>1. g \in DOMAIN children /\ children'[g] = children[g]
      BY <1>3, <2>2
    <3>2. /\ ListingOK(g) /\ children[g] \subseteq DOMAIN entries /\ children[g] \subseteq seen[g]
          /\ \A h \in children[g] : objs[h].parent = g
      BY <1>4, <3>1 DEF ListingsOK, ListingOK
    <3>3. \A h \in children[g] : h \notin DOMAIN es /\ entries'[h] = entries[h]
      BY <1>1, <1>3, <2>2, <3>2
    <3>4. (g \in older' <=> g \in older) /\ DOMAIN entries \subseteq DOMAIN entries'
      BY <1>1, <1>3, <2>2
    <3> QED
      BY <1>2, <1>5, <3>1, <3>2, <3>3, <3>4, ListingKept
  <2> QED
    BY <2>1, <2>2
<1>9. CallOK'
  <2>1. call \in Calls
    BY <1>4 DEF CallOK, Lists
  <2>2. call' \in Calls /\ call'.got = <<>>
    <3>1. PICK e \in Seq(SUBSET Nat) : e = <<>>
      BY ONLY EmptySeq, Zenon
    <3>2. call' = [call EXCEPT !.got = e, !.folder = 0]
      BY <3>1 DEF Root
    <3>3. call' \in Calls /\ call'.got = e
      BY ONLY <2>1, <3>2, e \in Seq(SUBSET Nat) DEF Calls
    <3> QED
      BY <3>1, <3>3
  <2> QED
    BY <2>2 DEF CallOK, Lists
<1> QED
  BY <1>5, <1>6, <1>7, <1>8, <1>9 DEF Inv

\* A request that is answered now gives what stayed, and what is there.
LEMMA AnsweredNow ==
    ASSUME Inv, Lists
    PROVE  /\ Answer(Kids(call.folder)) /\ Answer(Answered) /\ Kids(call.folder) \subseteq Answered
           /\ call.folder \notin Kids(call.folder) /\ Answered \subseteq Nat /\ Kids(call.folder) \subseteq Nat
           /\ Answered \subseteq Kids(call.folder) \cup {call.folder}
<1>1. PICK f : f = call.folder
  OBVIOUS
<1>2. f \in Places /\ Kids(f) \subseteq seen[f] /\ stayed[f] \subseteq Kids(f) /\ Places \subseteq Nat
  BY <1>1, OlderIs DEF Inv, CallOK, HistoryOK, Places, Known, Handles, DeviceOK, Root
<1>3. \A h \in Kids(f) : h \in Known /\ h \in Nat /\ objs[h].parent = f /\ h # f
  <2>1. \A h \in Kids(f) : h \in Known /\ h \in Nat /\ objs[h].parent = f
    BY OlderIs DEF Inv, Kids, DeviceOK, Known
  <2>2. \A h \in Known : objs[h].parent # h
    BY OlderIs DEF Inv, DeviceOK, Known
  <2> QED
    BY <2>1, <2>2
<1>4. Kids(f) \subseteq Answered /\ Answered \subseteq Kids(f) \cup {f}
  BY <1>1 DEF Answered
<1> QED
  BY <1>1, <1>2, <1>3, <1>4 DEF Answer, Some

\* One more answer of the fast way.
LEMMA OneMoreAnswer ==
    ASSUME Inv, pc = "props", NEW got, got = Append(call.got, Answered)
    PROVE  /\ PropsOK(got) /\ got \in Seq(SUBSET Nat) /\ Len(got) = Len(call.got) + 1
           /\ Len(call.got) \in 0..2 /\ call \in Calls /\ call.folder \in Places
<1>1. PICK old, A, f : old = call.got /\ A = Answered /\ f = call.folder
  OBVIOUS
<1>2. /\ old \in Seq(SUBSET Nat) /\ PropsOK(old) /\ Len(old) \in 0..2 /\ call \in Calls /\ f \in Places
  BY <1>1 DEF Inv, CallOK, Calls, Lists
<1>3. Answer(A) /\ A \subseteq Nat /\ Kids(f) \subseteq A
  BY <1>1, AnsweredNow DEF Lists
<1>4. /\ got \in Seq(SUBSET Nat) /\ Len(got) = Len(old) + 1 /\ got[Len(old) + 1] = A
      /\ \A i \in 1..Len(old) : got[i] = old[i]
  BY <1>1, <1>2, <1>3, AppendProperties
<1>5. \A i \in 1..Len(got) : i \in 1..Len(old) \/ i = Len(old) + 1
  BY <1>2, <1>4
<1>6. \A i \in 1..Len(got) : Answer(got[i])
  <2> SUFFICES ASSUME NEW i \in 1..Len(got) PROVE Answer(got[i])
    OBVIOUS
  <2>1. CASE i \in 1..Len(old)
    BY <1>2, <1>4, <2>1 DEF PropsOK
  <2>2. CASE i = Len(old) + 1
    BY <1>3, <1>4, <2>2
  <2> QED
    BY <1>5, <2>1, <2>2
<1>7. ASSUME NEW i \in 1..Len(got), NEW j \in 1..Len(got), i < j PROVE (got[i] \cap alive) \ {f} \subseteq got[j]
  <2>1. i \in 1..Len(old)
    BY <1>2, <1>4, <1>7
  <2>2. CASE j \in 1..Len(old)
    BY <1>1, <1>2, <1>4, <1>7, <2>1, <2>2 DEF PropsOK
  <2>3. CASE j = Len(old) + 1
    <3>1. \A h \in got[i] \ {f} : objs[h].parent = f
      BY <1>1, <1>6 DEF Answer, Some
    <3> QED
      BY <1>3, <1>4, <2>3, <3>1 DEF Kids
  <2> QED
    BY <1>5, <2>2, <2>3
<1> QED
  BY <1>1, <1>2, <1>4, <1>6, <1>7 DEF PropsOK

\* The last answer of the fast way: what it folds is right.
LEMMA FoldStep ==
    ASSUME Inv, WayOK, older' = older, pc = "props", NEW got, got = Append(call.got, Answered), ~(Property < 3), Folds(got),
           SetChildren(call.folder, Folded(got)), pc' = "walk",
           call' = [call EXCEPT !.got = <<>>, !.folder = Root], UNCHANGED <<device, stayed, seen>>
    PROVE  Inv'
<1>1. PICK f : f = call.folder
  OBVIOUS
<1>2. PropsOK(got) /\ got \in Seq(SUBSET Nat) /\ Len(got) = 3 /\ f \in Places
  <2>1. PICK n \in 0..2 : n = Len(call.got)
    BY OneMoreAnswer
  <2>2. ~(n + 1 < 3)
    BY <2>1 DEF Property
  <2>3. n + 1 = 3
    BY <2>2
  <2> QED
    BY <1>1, <2>1, <2>3, OneMoreAnswer
<1>3. DOMAIN got = 1..3
  BY <1>2, LenProperties
<1>4. Records(got) = got[1] \ {f}
  <2>1. got[1] \subseteq UNION Range(got)
    BY <1>3 DEF Range
  <2>2. PICK U : U = UNION Range(got)
    OBVIOUS
  <2>3. Records(got) = U \ {f}
    <3>1. Records(got) = (UNION Range(got)) \ {call.folder}
      BY DEF Records
    <3> QED
      BY ONLY <1>1, <2>2, <3>1
  <2>4. Records(got) \subseteq got[1] /\ got[1] \subseteq U
    BY <2>1, <2>2, Zenon DEF Folds
  <2> QED
    BY ONLY <2>3, <2>4
<1>5. Answer(got[1]) /\ (got[1] \cap alive) \ {f} \subseteq got[2] /\ (got[1] \cap alive) \ {f} \subseteq got[3]
  BY <1>1, <1>2 DEF PropsOK
<1>6. PICK es : es = Folded(got)
  OBVIOUS
<1>7. DOMAIN es = got[1] \ {f}
  BY <1>4, <1>6 DEF Folded
<1>8. ASSUME NEW h \in DOMAIN es
      PROVE  /\ h \in Known /\ objs[h].parent = f /\ es[h].parent = f /\ es[h].name = objs[h].name
             /\ h \in seen[f] /\ (h \in alive => es[h] = Says(f, h)' /\ es[h].dir = objs[h].dir)
  <2>1. h \in got[1] \ {f} /\ h \in Known /\ h \in seen[f] /\ objs[h].parent = f
    BY <1>1, <1>5, <1>7 DEF Answer, Some
  <2>2. PICK d, s : d = (h \in got[3] /\ objs[h].dir) /\ s = IF h \in got[2] THEN objs[h].size ELSE 0
    OBVIOUS
  <2>3. es[h] = [parent |-> f, name |-> objs[h].name, dir |-> d, size |-> s]
    BY <1>1, <1>4, <1>6, <2>1, <2>2 DEF Folded
  <2>4. ASSUME h \in alive PROVE es[h] = Says(f, h)' /\ es[h].dir = objs[h].dir
    <3>1. h \in got[2] /\ h \in got[3]
      BY <1>5, <2>1, <2>4
    <3>2. objs \in Seq(Objects) /\ h \in 1..Len(objs)
      BY <2>1 DEF Inv, DeviceOK, Known
    <3>3. objs[h] \in Objects
      BY <3>2, ElementOfSeq, Zenon
    <3>4. PICK k \in BOOLEAN : k = objs[h].dir
      BY ONLY <3>3 DEF Objects
    <3>5. d = k /\ s = objs[h].size
      BY <2>2, <3>1, <3>4
    <3>6. es[h] = Entry(h) /\ es[h].dir = objs[h].dir
      BY <2>1, <2>3, <3>4, <3>5 DEF Entry
    <3>7. Says(f, h)' = Entry(h)
      <4>1. older' = {}
        BY DEF WayOK
      <4> QED
        BY <4>1 DEF Says, Entry, device
    <3> QED
      BY <3>6, <3>7
  <2>5. es[h].parent = f /\ es[h].name = objs[h].name
    BY <2>3
  <2> QED
    BY <2>1, <2>4, <2>5
<1>9. stayed[f] \subseteq DOMAIN es
  <2>1. f \notin stayed[f]
    <3>1. stayed[f] \subseteq Kids(f)
      BY <1>2, OlderIs DEF Inv, HistoryOK, Places, Known, Handles, DeviceOK
    <3> QED
      BY <1>1, <3>1, AnsweredNow DEF Lists
  <2> QED
    BY <1>1, <1>5, <1>7, <2>1 DEF Answer
<1>10. DOMAIN es \subseteq seen[f] /\ \A h \in stayed[f] \ DOMAIN es : f \in older' /\ ~objs[h].parses
  BY <1>8, <1>9
<1>11. Lists /\ SetChildren(f, es)
  BY <1>1, <1>6 DEF Lists
<1> QED
  BY <1>1, <1>8, <1>10, <1>11, SetChildrenStep

\* A step of a listing that leaves the tree as it is.
LEMMA OtherWay ==
    ASSUME Inv, Lists, pc' = "handles", call' = [call EXCEPT !.got = <<>>], UNCHANGED <<device, tree, stayed, seen>>
    PROVE  Inv'
<1>1. call \in Calls /\ call.folder \in Places /\ Kids(call.folder) \subseteq seen[call.folder]
  BY DEF Inv, CallOK, Lists
<1>2. call' \in Calls /\ call'.got = <<>> /\ call'.folder = call.folder
  <2>1. PICK e \in Seq(SUBSET Nat) : e = <<>>
    BY ONLY EmptySeq, Zenon
  <2>2. call' = [call EXCEPT !.got = e] /\ call \in Calls
    BY <1>1, <2>1
  <2>3. call' \in Calls /\ call'.got = e /\ call'.folder = call.folder
    BY ONLY <2>2, e \in Seq(SUBSET Nat) DEF Calls
  <2> QED
    BY <2>1, <2>3
<1>3. (call.folder \in Places /\ Kids(call.folder) \subseteq seen[call.folder])'
  BY <1>1, <1>2 DEF Places, Known, Kids, device
<1>4. CallOK'
  BY <1>2, <1>3 DEF CallOK, Lists
<1> QED
  BY <1>4, SameWorld DEF Inv

\* A request for a property.
LEMMA ByPropertiesStep == ASSUME Inv, WayOK, ByProperties PROVE Inv'
<1>1. pc = "props" /\ UNCHANGED <<device, stayed, seen>>
  BY DEF ByProperties
<1>2. PICK got : got = Append(call.got, Answered)
  OBVIOUS
<1>3. CASE Property < 3
  <2>1. call' = [call EXCEPT !.got = got] /\ UNCHANGED <<device, tree, stayed, seen>> /\ pc' = pc
    BY <1>1, <1>2, <1>3 DEF ByProperties
  <2>2. /\ PropsOK(got) /\ got \in Seq(SUBSET Nat) /\ Len(got) = Len(call.got) + 1 /\ Len(call.got) \in 0..2
        /\ call \in Calls /\ call.folder \in Places /\ Kids(call.folder) \subseteq seen[call.folder]
    BY <1>1, <1>2, OneMoreAnswer DEF Inv, CallOK, Lists
  <2>3. call' \in Calls /\ call'.got = got /\ call'.folder = call.folder
    BY <2>1, <2>2 DEF Calls
  <2>4. Len(got) \in 0..2
    BY <1>3, <2>2 DEF Property
  <2>5. PropsOK(call.got)'
    <3>1. objs' = objs /\ alive' = alive /\ stayed' = stayed /\ seen' = seen
      BY <2>1 DEF device
    <3> QED
      BY <2>2, <2>3, <3>1 DEF PropsOK, Answer, Some, Known
  <2>6. (call.folder \in Places /\ Kids(call.folder) \subseteq seen[call.folder])'
    BY <2>1, <2>2, <2>3 DEF Places, Known, Kids, device
  <2>7. CallOK'
    BY <1>1, <2>1, <2>3, <2>4, <2>5, <2>6 DEF CallOK, Lists
  <2> QED
    BY <2>1, <2>7, SameWorld DEF Inv
<1>4. CASE ~(Property < 3) /\ Folds(got)
  <2>1. /\ SetChildren(call.folder, Folded(got)) /\ pc' = "walk" /\ call' = [call EXCEPT !.got = <<>>, !.folder = Root]
        /\ older' = older
    BY <1>2, <1>4 DEF ByProperties
  <2> QED
    BY <1>1, <1>2, <1>4, <2>1, FoldStep
<1>5. CASE ~(Property < 3) /\ ~Folds(got)
  <2>1. pc' = "handles" /\ call' = [call EXCEPT !.got = <<>>] /\ UNCHANGED tree
    BY <1>2, <1>5 DEF ByProperties
  <2> QED
    BY <1>1, <2>1, OtherWay DEF Lists
<1> QED
  BY <1>3, <1>4, <1>5

\* The fast way fails.
LEMMA PropertiesFailStep == ASSUME Inv, PropertiesFail PROVE Inv'
BY OtherWay DEF PropertiesFail, Lists

\* The older way asks for the handles.
LEMMA GetHandlesStep == ASSUME Inv, GetHandles PROVE Inv'
<1>1. /\ pc = "handles" /\ pc' = "infos" /\ call' = [call EXCEPT !.left = Kids(call.folder), !.got = <<{}>>]
      /\ UNCHANGED <<device, tree, stayed, seen>>
  BY DEF GetHandles
<1>2. PICK K, f : K = Kids(call.folder) /\ f = call.folder
  OBVIOUS
<1>3. /\ call \in Calls /\ f \in Places /\ K \subseteq seen[f] /\ Answer(K) /\ f \notin K /\ K \subseteq Nat
  BY <1>1, <1>2, AnsweredNow DEF Inv, CallOK, Lists
<1>4. <<{}>> \in Seq(SUBSET Nat) /\ Len(<<{}>>) = 1 /\ <<{}>>[1] = {}
  OBVIOUS
<1>5. call' \in Calls /\ call'.got = <<{}>> /\ call'.left = K /\ call'.folder = f
  BY <1>1, <1>2, <1>3, <1>4 DEF Calls
<1>6. objs' = objs /\ alive' = alive /\ stayed' = stayed /\ seen' = seen
  BY <1>1 DEF device
<1>7. call'.got[1] \cup call'.left = K
  BY <1>4, <1>5
<1>8. InfosOK(call.got[1] \cup call.left)'
  BY <1>2, <1>3, <1>5, <1>6, <1>7 DEF Answer, InfosOK, Some, Known
<1>9. (call.folder \in Places /\ Kids(call.folder) \subseteq seen[call.folder])'
  BY <1>2, <1>3, <1>5, <1>6 DEF Places, Known, Kids
<1>10. CallOK'
  BY <1>1, <1>3, <1>4, <1>5, <1>7, <1>8, <1>9 DEF CallOK, Lists
<1> QED
  BY <1>1, <1>10, SameWorld DEF Inv

\* The older way asks for one object.
LEMMA GetInfoStep == ASSUME Inv, GetInfo PROVE Inv'
<1>1. pc = "infos" /\ pc' = "infos" /\ UNCHANGED <<device, tree, stayed, seen>>
  BY DEF GetInfo
<1>2. PICK h \in call.left : call' = [call EXCEPT !.left = @ \ {h}, !.got = <<@[1] \cup Parsed(h)>>]
  BY DEF GetInfo
<1>3. PICK g, l, f, P : g = call.got[1] /\ l = call.left /\ f = call.folder /\ P = Parsed(h)
  OBVIOUS
<1>4. /\ call \in Calls /\ f \in Places /\ Kids(f) \subseteq seen[f] /\ Len(call.got) = 1
      /\ InfosOK(g \cup l) /\ f \notin g \cup l
  BY <1>1, <1>3 DEF Inv, CallOK, Lists
<1>a. P \subseteq {h} /\ (h \notin P => ~objs[h].parses)
  BY <1>3 DEF Parsed
<1>5. g \subseteq Nat /\ l \subseteq Nat /\ h \in l /\ P \subseteq Nat
  <2>1. call.got \in Seq(SUBSET Nat) /\ call.left \in SUBSET Nat
    BY <1>4 DEF Calls
  <2>2. 1 \in 1..Len(call.got)
    BY <1>4
  <2> QED
    BY <1>2, <1>3, <1>a, <2>1, <2>2, ElementOfSeq
<1>6. PICK n : n = <<g \cup P>>
  OBVIOUS
<1>7. n \in Seq(SUBSET Nat) /\ Len(n) = 1 /\ n[1] = g \cup P
  BY <1>5, <1>6
<1>8. call' = [call EXCEPT !.left = l \ {h}, !.got = n]
  BY <1>2, <1>3, <1>6
<1>9. call' \in Calls /\ call'.got = n /\ call'.left = l \ {h} /\ call'.folder = f
  BY <1>3, <1>4, <1>5, <1>7, <1>8 DEF Calls
<1>10. objs' = objs /\ alive' = alive /\ stayed' = stayed /\ seen' = seen
  BY <1>1 DEF device
<1>11. PICK A : A = call'.got[1] \cup call'.left /\ A = (g \cup P) \cup (l \ {h})
  BY <1>7, <1>9
<1>12. A \subseteq g \cup l /\ \A k \in (g \cup l) \ A : ~objs[k].parses
  BY <1>5, <1>11, <1>a
<1>13. InfosOK(call.got[1] \cup call.left)'
  <2>1. /\ \A k \in (g \cup l) \ {f} : k \in Known /\ k \in seen[f] /\ objs[k].parent = f
        /\ \A k \in stayed[f] \ (g \cup l) : ~objs[k].parses
    BY <1>3, <1>4 DEF InfosOK, Some
  <2>2. /\ \A k \in A \ {f} : k \in Known /\ k \in seen[f] /\ objs[k].parent = f
        /\ \A k \in stayed[f] \ A : ~objs[k].parses
    BY <1>12, <2>1
  <2> QED
    BY <1>9, <1>10, <1>11, <2>2 DEF InfosOK, Some, Known
<1>14. (call.folder \in Places /\ Kids(call.folder) \subseteq seen[call.folder])'
  BY <1>4, <1>9, <1>10 DEF Places, Known, Kids
<1>15. CallOK'
  BY <1>1, <1>4, <1>7, <1>9, <1>11, <1>12, <1>13, <1>14 DEF CallOK, Lists
<1> QED
  BY <1>1, <1>15, SameWorld DEF Inv

\* The older way is complete.
LEMMA InfosEndStep == ASSUME Inv, InfosEnd PROVE Inv'
<1>1. PICK es, g, f : /\ es = [h \in call.got[1] |-> [InfoEntry(h) EXCEPT !.parent = call.folder]]
                      /\ g = call.got[1] /\ f = call.folder
  OBVIOUS
<1>2. /\ pc = "infos" /\ call.left = {} /\ SetChildren(f, es) /\ pc' = "walk" /\ older' = older \cup {f}
      /\ call' = [call EXCEPT !.got = <<>>, !.folder = Root] /\ UNCHANGED <<device, stayed, seen>>
  BY <1>1 DEF InfosEnd
<1>3. InfosOK(g) /\ f \notin g
  <2>1. g = call.got[1] \cup call.left
    BY <1>1, <1>2
  <2> QED
    BY <1>1, <1>2, <2>1 DEF Inv, CallOK
<1>4. DOMAIN es = g
  BY <1>1
<1>5. ASSUME NEW h \in g
      PROVE  /\ h \in Known /\ objs[h].parent = f /\ es[h].parent = f /\ es[h].name = objs[h].name
             /\ h \in seen[f] /\ es[h] = Says(f, h)' /\ es[h].dir = objs[h].dir
  <2>1. h \in Known /\ objs[h].parent = f /\ h \in seen[f]
    BY <1>1, <1>3 DEF InfosOK, Some
  <2>2. es[h] = [InfoEntry(h) EXCEPT !.parent = f]
    BY <1>1
  <2>3. es[h] = InfoEntry(h) /\ es[h].parent = f /\ es[h].name = objs[h].name /\ es[h].dir = objs[h].dir
    <3>1. PICK s : s = IF Entry(h).size <= MaxField THEN Entry(h).size ELSE MaxField
      OBVIOUS
    <3>2. InfoEntry(h) = [parent |-> f, name |-> objs[h].name, dir |-> objs[h].dir, size |-> s]
      BY <2>1, <3>1 DEF InfoEntry, Entry
    <3> QED
      BY <2>2, <3>2
  <2>4. Says(f, h)' = InfoEntry(h)
    BY <1>2 DEF Says, InfoEntry, Entry, device
  <2> QED
    BY <2>1, <2>3, <2>4
<1>6. f \in older' /\ \A h \in stayed[f] \ g : ~objs[h].parses
  BY <1>1, <1>2, <1>3 DEF InfosOK
<1>7. /\ \A h \in DOMAIN es : /\ h \in Known /\ objs[h].parent = f /\ es[h].parent = f /\ es[h].name = objs[h].name
                              /\ h \in alive => es[h] = Says(f, h)' /\ es[h].dir = objs[h].dir
      /\ \A h \in stayed[f] \ DOMAIN es : f \in older' /\ ~objs[h].parses
      /\ DOMAIN es \subseteq seen[f]
  BY <1>4, <1>5, <1>6
<1>8. Lists
  BY <1>2 DEF Lists
<1> QED
  BY <1>1, <1>2, <1>7, <1>8, SetChildrenStep

-----------------------------------------------------------------------------
(* Changes.                                                                *)

\* A listing or a change fails.
LEMMA FailsStep == ASSUME Inv, ListFails \/ ChangeFails PROVE Inv'
BY Returned, SameWorld DEF ListFails, ChangeFails, Inv

\* The mount removes an object.
LEMMA DeleteStep == ASSUME Inv, Delete PROVE Inv'
<1>1. PICK X, h : X = Subtree(call.h) /\ h = call.h
  OBVIOUS
<1>2. /\ objs' = objs /\ alive' = alive \ X /\ entries' = entries /\ older' = older /\ Return /\ h \in alive
      /\ stayed' = [f \in DOMAIN stayed |-> stayed[f] \ X]
      /\ \/ seen' = seen /\ children' = children
         \/ seen' = [f \in DOMAIN seen |-> seen[f] \ {h}] /\ children' = Forget(entries[h].parent)
  BY <1>1 DEF Delete, GoneHeard, GoneUnheard
<1>3. h \in Nat
  BY <1>2, OlderIs DEF Inv, DeviceOK, Known
<1>4. DeviceOK' /\ HistoryOK' /\ EntriesOK' /\ ListingsOK'
  BY <1>2, <1>3, ShrunkTree DEF Inv
<1> QED
  BY <1>2, <1>4, Returned DEF Inv

\* The mount makes a folder.
LEMMA MkdirStep == ASSUME Inv, Mkdir PROVE Inv'
<1>1. PICK f, name : f = call.h /\ name = call.name
  OBVIOUS
<1>a. PICK kind \in Kinds : Make(f, name, kind)
  BY <1>1 DEF Mkdir
<1>2. /\ pc = "mkdir" /\ Fits(f) /\ entries' = entries /\ older' = older /\ Return
      /\ seen' = [seen EXCEPT ![f] = @ \cup {Len(objs) + 1}]
      /\ \/ stayed' = stayed /\ children' = children
         \/ stayed' = [stayed EXCEPT ![f] = @ \cup {Len(objs) + 1}] /\ children' = Forget(f)
  BY <1>1 DEF Mkdir, MadeHeard, MadeUnheard
<1>3. name \in Names
  BY <1>1, <1>2 DEF Inv, CallOK
<1>4. DeviceOK' /\ HistoryOK' /\ EntriesOK' /\ ListingsOK'
  BY <1>2, <1>3, <1>a, GrownTree DEF Inv
<1> QED
  BY <1>2, <1>4, Returned DEF Inv

-----------------------------------------------------------------------------
(* The theorems.                                                           *)

\* The cellphone and the tree are empty at the beginning.
LEMMA InitInv == Init => Inv /\ WayOK
<1> SUFFICES ASSUME Init PROVE Inv /\ WayOK
  OBVIOUS
<1>1. DeviceOK
  <2>1. objs = <<>> /\ Len(objs) = 0 /\ alive = {}
    BY DEF Init
  <2> QED
    BY <2>1, BoundsAssumption DEF DeviceOK, Known
<1>2. HistoryOK
  BY DEF Init, HistoryOK
<1>3. EntriesOK /\ ListingsOK
  BY DEF Init, EntriesOK, ListingsOK
<1>4. CallOK /\ WayOK
  BY DEF Init, CallOK, Lists, WayOK
<1> QED
  BY <1>1, <1>2, <1>3, <1>4 DEF Inv

\* A step keeps the way of listing: only the fast way turns itself off.
LEMMA WayStep == WayOK /\ [Next]_vars => WayOK'
<1> SUFFICES ASSUME WayOK, [Next]_vars PROVE WayOK'
  OBVIOUS
<1>1. CASE UNCHANGED <<older, fast>> /\ (pc' = pc \/ pc' \notin {"props", "handles", "infos"})
  BY <1>1 DEF WayOK
<1>2. CASE UNCHANGED <<older, fast>> /\ \E f : List(f)
  BY <1>2 DEF WayOK, List
<1>3. CASE Walk
  BY <1>1, <1>2, <1>3 DEF Walk, Return, tree
<1>4. CASE OpReaddir
  BY <1>1, <1>2, <1>4 DEF OpReaddir, Return, tree
<1>5. CASE ByProperties
  BY <1>5 DEF ByProperties, WayOK, tree
<1>6. CASE PropertiesFail
  BY <1>6 DEF PropertiesFail, WayOK, tree
<1>7. CASE GetHandles \/ GetInfo \/ InfosEnd
  <2>1. fast' = fast /\ pc \in {"handles", "infos"} /\ pc' \in {"handles", "infos", "walk"}
    BY <1>7 DEF GetHandles, GetInfo, InfosEnd
  <2> QED
    BY <2>1 DEF WayOK
<1>8. CASE OpGetattr \/ ListFails \/ ChangeFails \/ Delete \/ Mkdir
  BY <1>1, <1>8 DEF OpGetattr, ListFails, ChangeFails, Delete, Mkdir, Return, tree
<1>9. CASE \/ \E f \in {Root} \cup alive, name \in Names, kind \in Kinds : PhoneMakes(f, name, kind)
           \/ \E h \in alive : PhoneRemoves(h)
           \/ \E path \in Paths : Call(path)
  BY <1>1, <1>9 DEF PhoneMakes, PhoneRemoves, Call, tree
<1>10. CASE (\E name \in Names : OpMkdir(name)) \/ \E op \in {"unlink", "rmdir"} : OpRemove(op)
  BY <1>1, <1>10 DEF OpMkdir, OpRemove, Return, tree
<1>11. CASE UNCHANGED vars
  BY <1>1, <1>11 DEF vars
<1> QED
  BY <1>3, <1>4, <1>5, <1>6, <1>7, <1>8, <1>9, <1>10, <1>11 DEF Next

\* Every step keeps the invariant.
LEMMA NextInv == Inv /\ WayOK /\ [Next]_vars => Inv'
<1> SUFFICES ASSUME Inv, WayOK, [Next]_vars PROVE Inv'
  OBVIOUS
<1>1. CASE Next
  BY <1>1, PhoneMakesStep, PhoneRemovesStep, CallStep, WalkStep, OpStep, ByPropertiesStep, PropertiesFailStep,
     GetHandlesStep, GetInfoStep, InfosEndStep, FailsStep, DeleteStep, MkdirStep DEF Next
<1>2. CASE UNCHANGED vars
  <2>1. UNCHANGED <<device, tree, stayed, seen>> /\ pc' = pc /\ call' = call /\ entries' = entries
    BY <1>2 DEF vars, device, tree
  <2>2. DeviceOK' /\ HistoryOK' /\ EntriesOK' /\ ListingsOK'
    BY <2>1, SameWorld DEF Inv
  <2>3. CallOK'
    BY <2>1, CallKept DEF Inv, Known, PathOf, Kids, device
  <2> QED
    BY <2>2, <2>3 DEF Inv
<1> QED
  BY <1>1, <1>2

\* The invariant holds in every reachable state.
LEMMA Invariance == Spec => [](Inv /\ WayOK)
BY InitInv, NextInv, WayStep, PTL DEF Spec

\* A listing the tree keeps is right about everything that stood still, for
\* any number of objects and folders, whatever the cellphone makes and removes
\* between any two of the requests that make up a listing, and long after it.
\* A listing that came the older way lacks the objects whose dataset does not
\* parse, and no others, and has sizes as far as the field goes (list,
\* fold_prop_list, drop_the_folder, list_one_at_a_time, set_children,
\* forget_listing).
THEOREM ListingsStayRight == Spec => []ListingIsRight
<1>1. Inv => ListingIsRight
  BY DEF Inv, ListingsOK, ListingOK, ListingIsRight
<1> QED
  BY <1>1, Invariance, PTL

\* What the mount removes is an object its path names on the cellphone at that
\* moment, of the kind the call wants, in folders of any depth and in folders
\* that hold two objects of one name (resolve, Tree::lookup, remove).
THEOREM RemovesTheNamed == Spec => DeletesNamed
<1>1. ASSUME Inv, Delete
      PROVE  PathOf(call.h) = call.path /\ objs[call.h].dir = (call.op = "rmdir")
  <2>1. pc = "delete" /\ call.h \in alive
    BY <1>1 DEF Delete
  <2>2. /\ PathOf(call.h) = call.path /\ call.h \in DOMAIN entries
        /\ entries[call.h].dir = (call.op = "rmdir")
    BY <1>1, <2>1 DEF Inv, CallOK
  <2>3. entries[call.h].dir = objs[call.h].dir
    BY <1>1, <2>1, <2>2 DEF Inv, EntriesOK
  <2> QED
    BY <2>2, <2>3
<1>2. Inv /\ [Next]_vars
        => [Delete => PathOf(call.h) = call.path /\ objs[call.h].dir = (call.op = "rmdir")]_vars
  BY <1>1
<1> QED
  BY <1>2, Invariance, PTL DEF Spec, DeletesNamed
===============================================================================
