--------------------------- MODULE Automount_proofs ---------------------------
(***************************************************************************)
(* What TLAPS proves of the automount helper, for every number of          *)
(* cellphones, nodes, attach processes and folders.                        *)
(***************************************************************************)
EXTENDS Automount, SequenceTheorems, WellFoundedInduction, TLAPS

-----------------------------------------------------------------------------
(* The inductive invariant.                                                *)

\* What the steps of processes and devd rely on: their cellphone and folder.
ShapeOK ==
    /\ \A h \in Helpers : /\ att[h].pc # "none" => att[h].phone \in Phones /\ att[h].node \in Nodes
                          /\ att[h].pc \in {"start", "wait", "write"} => att[h].point \in Folders
                          /\ att[h].pc \notin {"wait", "write"} => att[h].i = 0
    /\ devd.pc # "none" => devd.phone \in Phones
    /\ devd.pc = "umount" => devd.point \in Folders

\* devd has one event at most, and the cellphones stand as it says; no two of
\* them have one node.
Waiting(kind, p) == events # <<>> /\ Head(events).kind = kind /\ Head(events).phone = p
QueueOK ==
    /\ Len(events) <= 1 /\ (events # <<>> => devd.pc = "none")
    /\ \A p \in Phones : /\ Waiting("attach", p) => bus[p] = Head(events).node
                         /\ Waiting("detach", p) => bus[p] = None
    /\ devd.pc # "none" => bus[devd.phone] = None
    /\ \A p, q \in Phones : bus[p] = bus[q] /\ bus[p] # None => p = q

\* One cellphone is attached at a time, its node is nobody else's, and its
\* lock lets one process through.
Busy(h) == att[h].pc \notin {"none", "lock"}
AloneOK == \A p, q \in Phones : Attaching(p) /\ Attaching(q) => p = q
NodeOK == \A h \in Helpers, q \in Phones : att[h].pc # "none" /\ bus[q] = att[h].node => q = att[h].phone
LockOK == \A p \in Phones, h \in Helpers : lock[p] = h <=> Busy(h) /\ att[h].phone = p

OneEach == \A f \in Folders : Len(mounts[f]) <= 1

\* The folder of a process that is about to mount is free; its mtpfs, and then
\* its mount, are of its own cellphone, and answer unless that one went astray.
StartOK ==
    /\ \A h \in Helpers : att[h].pc = "start" => ~MountedAt(att[h].point)
    /\ \A s \in starting :
          /\ ~MountedAt(s.point)
          /\ \E h \in Helpers : att[h].pc = "wait" /\ att[h].phone = s.phone /\ att[h].point = s.point /\ att[h].i = 0
          /\ s.live => bus[s.phone] # None
          /\ s.phone \notin astray => s.live
    /\ \A s, t \in starting : s = t
OwnOK ==
    \A h \in Helpers :
        /\ att[h].pc \in {"wait", "write"} /\ MountedAt(att[h].point)
              => Top(att[h].point).phone = att[h].phone /\ (att[h].phone \notin astray => Top(att[h].point).live)
        /\ att[h].pc = "write" /\ att[h].phone \notin astray => MountedAt(att[h].point)

\* A mount that answers is named by the state file, or by the process that is
\* about to write it; a process that looks for a folder has none.
LiveOK ==
    \A f \in Folders : MountedAt(f) /\ Top(f).live =>
        /\ bus[Top(f).phone] # None
        /\ \/ state[Top(f).phone] = f
           \/ \E h \in Helpers : /\ att[h].pc \in {"wait", "write"} /\ att[h].phone = Top(f).phone /\ att[h].point = f
                                 /\ att[h].pc = "wait" => att[h].i = 0
        /\ \A h \in Helpers : /\ att[h].phone = Top(f).phone
                              /\ att[h].pc \in {"name", "find", "start", "wait", "write"}
                              => att[h].pc \in {"wait", "write"} /\ att[h].point = f

\* The state file of a cellphone that did not go astray names its mount.
StateOK ==
    \A p \in Phones \ astray : state[p] # None =>
        MountedAt(state[p]) /\ Top(state[p]).phone = p /\ (Top(state[p]).live \/ Waiting("detach", p))

\* A mount that does not answer is on its way out, and what devd unmounts does
\* not answer.
DeadOK ==
    \A f \in Folders : MountedAt(f) /\ ~Top(f).live /\ Top(f).phone \notin astray =>
        \/ Waiting("detach", Top(f).phone) /\ state[Top(f).phone] = f
        \/ devd.pc \in {"find", "umount"} /\ devd.point = f
DevdOK ==
    devd.pc # "none" /\ devd.phone \notin astray /\ devd.point # None =>
        MountedAt(devd.point) /\ ~Top(devd.point).live

Inv ==
    /\ TypeOK /\ ShapeOK /\ QueueOK /\ AloneOK /\ NodeOK /\ LockOK /\ OneEach
    /\ StartOK /\ OwnOK /\ LiveOK /\ StateOK /\ DeadOK /\ DevdOK

-----------------------------------------------------------------------------
(* Sequences, and the first free folder.                                   *)

LEMMA LastOf ==
    ASSUME NEW S, NEW s \in Seq(S), s # <<>>
    PROVE  Front(s) \in Seq(S) /\ Len(Front(s)) = Len(s) - 1 /\ Last(s) \in S /\ Last(s) = s[Len(s)]
<1>1. Len(s) \in Nat /\ Len(s) # 0
  BY EmptySeq, LenProperties
<1>2. SubSeq(s, 1, Len(s) - 1) \in Seq(S) /\ Len(SubSeq(s, 1, Len(s) - 1)) = Len(s) - 1
  <2>1. \A i \in 1..(Len(s) - 1) : s[i] \in S
    BY <1>1, ElementOfSeq
  <2> DEFINE n == Len(s) - 1
  <2>2. n \in Nat /\ n \in Int /\ 1 \in Int /\ \A i \in 1..n : s[i] \in S
    BY <1>1, <2>1
  <2> HIDE DEF n
  <2>3. SubSeq(s, 1, n) \in Seq(S) /\ Len(SubSeq(s, 1, n)) = IF 1 <= n THEN n - 1 + 1 ELSE 0
    BY <2>2, SubSeqProperties
  <2>4. \A k : k = (IF 1 <= n THEN n - 1 + 1 ELSE 0) => k = n
    BY <2>2
  <2>5. Len(SubSeq(s, 1, n)) = n
    BY <2>3, <2>4, Zenon
  <2> QED
    BY <2>3, <2>5, Zenon DEF n
<1> QED
  BY <1>1, <1>2 DEF Front, Last

LEMMA HeadOf ==
    ASSUME NEW S, NEW s \in Seq(S), s # <<>>
    PROVE  Head(s) \in S /\ Tail(s) \in Seq(S) /\ Len(Tail(s)) = Len(s) - 1 /\ Head(s) = s[1]
  BY HeadTailProperties

\* What one element more makes of an empty sequence.
LEMMA OneOf ==
    ASSUME NEW S, NEW x \in S, NEW s \in Seq(S)
    PROVE  /\ Append(s, x) \in Seq(S) /\ Append(s, x) # <<>> /\ Len(Append(s, x)) = Len(s) + 1
           /\ Last(Append(s, x)) = x
           /\ s = <<>> => Head(Append(s, x)) = x
  BY DEF Last

LEMMA EmptyOf == ASSUME NEW S, NEW s \in Seq(S) PROVE Len(s) \in Nat /\ (Len(s) = 0 <=> s = <<>>)
  BY EmptySeq, LenProperties

\* The search ends with a folder when one is free.
LEMMA FirstFree ==
    ASSUME \E f \in Folders : Free(f)
    PROVE  \E f \in Folders : Free(f) /\ \A g \in Folders : Free(g) => f <= g
<1> DEFINE T == {f \in Folders : Free(f)}
<1>1. T \subseteq Nat /\ T # {}
  BY FolderAssumption DEF Folders
<1>2. \E m \in T : \A j \in T : <<j, m>> \notin OpToRel(<, Nat)
  BY <1>1, WFMin, NatLessThanWellFounded, Zenon
<1>3. PICK m \in T : \A j \in T : ~(j < m)
  BY <1>1, <1>2, Zenon DEF OpToRel
<1>4. \A j \in T : m <= j
  BY <1>1, <1>3
<1> QED
  BY <1>3, <1>4

-----------------------------------------------------------------------------
(* Types.                                                                  *)

Kinds == TypeOK /\ ShapeOK

LEMMA Nothing == NoAttach \in Attaches /\ NoAttach.pc = "none" /\ NoAttach.i = 0 /\ NoDetach \in Detaches /\ NoDetach.pc = "none"
  BY FolderAssumption DEF NoAttach, NoDetach, Attaches, Detaches

Started(n, p) == [NoAttach EXCEPT !.pc = "lock", !.node = n, !.phone = p]
LEMMA StartedIs ==
    ASSUME NEW n \in Nodes, NEW p \in Phones
    PROVE  /\ Started(n, p) \in Attaches
           /\ Started(n, p).pc = "lock" /\ Started(n, p).node = n /\ Started(n, p).phone = p /\ Started(n, p).i = 0
  BY Nothing DEF Attaches, Started

\* A process that goes on, or ends.
LEMMA GoKinds ==
    ASSUME Kinds, NEW h \in Helpers, att[h].pc # "none",
           NEW pc \in {"check", "name", "find", "wait", "write"}, Go(h, pc),
           IF pc \in {"wait", "write"} THEN att[h].point \in Folders ELSE att[h].i = 0
    PROVE  att' \in [Helpers -> Attaches] /\ lock' \in [Phones -> Helpers \cup {None}] /\ ShapeOK!1'
<1>1. att[h] \in Attaches /\ [att[h] EXCEPT !.pc = pc] \in Attaches
  BY ZenonT(100) DEF Kinds, TypeOK, Attaches
<1>2. att' \in [Helpers -> Attaches] /\ lock' \in [Phones -> Helpers \cup {None}]
  BY <1>1 DEF Kinds, TypeOK, Go
<1>3. \A k \in Helpers :
          /\ att'[k].phone = att[k].phone /\ att'[k].node = att[k].node
          /\ att'[k].point = att[k].point /\ att'[k].i = att[k].i
          /\ att'[k].pc = IF k = h THEN pc ELSE att[k].pc
  BY DEF Kinds, TypeOK, Go, Attaches
<1> QED
  BY <1>2, <1>3 DEF Kinds, ShapeOK
LEMMA EndKinds ==
    ASSUME Kinds, NEW h \in Helpers, End(h)
    PROVE  att' \in [Helpers -> Attaches] /\ lock' \in [Phones -> Helpers \cup {None}] /\ ShapeOK!1'
<1>1. att' \in [Helpers -> Attaches] /\ lock' \in [Phones -> Helpers \cup {None}]
  BY Nothing DEF Kinds, TypeOK, End
<1>2. \A k \in Helpers : att'[k] = att[k] \/ (att'[k].pc = "none" /\ att'[k].i = 0)
  BY Nothing DEF Kinds, TypeOK, End
<1> QED
  BY <1>1, <1>2 DEF Kinds, ShapeOK

LEMMA StepKinds == Kinds /\ [Next]_vars => Kinds'
<1> SUFFICES ASSUME Kinds, [Next]_vars PROVE Kinds'
  OBVIOUS
<1> USE DEF files
<1>1. ASSUME NEW h \in Helpers, DevdAttach(h) PROVE Kinds'
  <2>1. Head(events) \in Events /\ Tail(events) \in Seq(Events)
    BY <1>1, HeadOf DEF Kinds, TypeOK, DevdAttach
  <2> QED
    <3>1. att' = [att EXCEPT ![h] = Started(Head(events).node, Head(events).phone)]
      BY <1>1 DEF DevdAttach, Started
    <3>2. att' \in [Helpers -> Attaches] /\ ShapeOK!1'
      BY <2>1, <3>1, StartedIs DEF Kinds, TypeOK, ShapeOK, Events
    <3> QED
      BY <1>1, <2>1, <3>2 DEF Kinds, TypeOK, ShapeOK, DevdAttach
<1>2. ASSUME NEW h \in Helpers, AttachLock(h) PROVE Kinds'
  <2>1. CASE End(h)
    BY <1>2, <2>1, EndKinds DEF Kinds, TypeOK, ShapeOK, AttachLock
  <2>2. CASE ~End(h)
    <3>1. att' \in [Helpers -> Attaches] /\ lock' \in [Phones -> Helpers \cup {None}] /\ ShapeOK!1'
      <4>1. att' = [att EXCEPT ![h].pc = "check"] /\ att[h].pc = "lock"
        BY <1>2, <2>2 DEF AttachLock
      <4>2. lock' = [lock EXCEPT ![att[h].phone] = h]
        BY <1>2, <2>2 DEF AttachLock
      <4> QED
        BY <4>1, <4>2, ZenonT(100) DEF Kinds, TypeOK, ShapeOK, Attaches
    <3> QED
      BY <1>2, <3>1 DEF Kinds, TypeOK, ShapeOK, AttachLock
  <2> QED
    BY <2>1, <2>2
<1>3. ASSUME NEW h \in Helpers, AttachCheck(h) PROVE Kinds'
  <2>1. End(h) \/ Go(h, "name")
    BY <1>3 DEF AttachCheck
  <2> QED
    BY <1>3, <2>1, EndKinds, GoKinds DEF Kinds, TypeOK, ShapeOK, AttachCheck
<1>4. ASSUME NEW h \in Helpers, AttachName(h) PROVE Kinds'
  <2>1. End(h) \/ Go(h, "find")
    BY <1>4 DEF AttachName
  <2> QED
    BY <1>4, <2>1, EndKinds, GoKinds DEF Kinds, TypeOK, ShapeOK, AttachName
<1>5. ASSUME NEW h \in Helpers, AttachFind(h) PROVE Kinds'
  <2>1. CASE End(h)
    BY <1>5, <2>1, EndKinds DEF Kinds, TypeOK, ShapeOK, AttachFind
  <2>2. CASE ~End(h)
    <3>1. PICK f \in Folders : att' = [att EXCEPT ![h].pc = "start", ![h].point = f] /\ UNCHANGED lock
      BY <1>5, <2>2, FirstFree DEF AttachFind
    <3> QED
      BY <1>5, <3>1, ZenonT(100) DEF Kinds, TypeOK, ShapeOK, AttachFind, Attaches
  <2> QED
    BY <2>1, <2>2
<1>6. ASSUME NEW h \in Helpers, AttachStart(h) PROVE Kinds'
  <2>1. End(h) \/ Go(h, "wait")
    BY <1>6 DEF AttachStart
  <2>2. att' \in [Helpers -> Attaches] /\ lock' \in [Phones -> Helpers \cup {None}] /\ ShapeOK!1'
    BY <1>6, <2>1, EndKinds, GoKinds DEF Kinds, ShapeOK, AttachStart
  <2>3. starting' \in SUBSET [phone: Phones, live: BOOLEAN, point: Folders]
    <3>1. att[h].point \in Folders
      BY <1>6 DEF Kinds, ShapeOK, AttachStart
    <3>2. starting' = starting \/ \E p \in Phones :
              starting' = starting \cup {[phone |-> p, live |-> TRUE, point |-> att[h].point]}
      BY <1>6 DEF AttachStart, At
    <3> QED
      <4>1. \A p \in Phones : [phone |-> p, live |-> TRUE, point |-> att[h].point]
                                   \in [phone: Phones, live: BOOLEAN, point: Folders]
        BY <3>1
      <4> QED
        BY <3>2, <4>1, Zenon DEF Kinds, TypeOK
  <2> QED
    BY <1>6, <2>2, <2>3 DEF Kinds, TypeOK, ShapeOK, AttachStart
<1>7. ASSUME NEW h \in Helpers, AttachWait(h) PROVE Kinds'
  <2>1. CASE End(h) \/ Go(h, "write")
    BY <1>7, <2>1, EndKinds, GoKinds DEF Kinds, TypeOK, ShapeOK, AttachWait
  <2>2. CASE ~End(h) /\ ~Go(h, "write")
    <3>1. att' = [att EXCEPT ![h].i = @ + 1] /\ lock' = lock /\ att[h].i < MountWait /\ att[h].pc = "wait"
      BY <1>7, <2>2 DEF AttachWait, Waits, Turn
    <3>2. att' \in [Helpers -> Attaches] /\ ShapeOK!1'
      <4>1. att' \in [Helpers -> Attaches]
        <5>1. att[h] \in Attaches /\ att[h].i + 1 \in 0..MountWait
          BY <3>1, FolderAssumption DEF Kinds, TypeOK, Attaches
        <5>2. [att[h] EXCEPT !.i = att[h].i + 1] \in Attaches
          BY <5>1 DEF Attaches
        <5> QED
          BY <3>1, <5>2 DEF Kinds, TypeOK
      <4>2. \A k \in Helpers :
                /\ att'[k].pc = att[k].pc /\ att'[k].phone = att[k].phone
                /\ att'[k].node = att[k].node /\ att'[k].point = att[k].point
                /\ att'[k].i = att[k].i \/ att[k].pc = "wait"
        BY <3>1 DEF Kinds, TypeOK, Attaches
      <4> QED
        BY <4>1, <4>2 DEF Kinds, ShapeOK
    <3> QED
      BY <1>7, <3>1, <3>2 DEF Kinds, TypeOK, ShapeOK, AttachWait
  <2> QED
    BY <2>1, <2>2
<1>8. ASSUME NEW h \in Helpers, AttachWrite(h) PROVE Kinds'
  BY <1>8, EndKinds DEF Kinds, TypeOK, ShapeOK, AttachWrite
<1>9. CASE DetachRead
  <2>1. Head(events) \in Events /\ Tail(events) \in Seq(Events)
    BY <1>9, HeadOf DEF Kinds, TypeOK, DetachRead
  <2> QED
    BY <1>9, <2>1 DEF Kinds, TypeOK, ShapeOK, DetachRead, Events, Detaches, AfterRead
<1>10. CASE DetachFind
  <2>1. devd' = NoDetach \/ \E f \in Folders : devd' = [devd EXCEPT !.pc = "umount", !.point = f]
    BY <1>10 DEF Kinds, TypeOK, DetachFind, Detaches, LooksDead
  <2>2. devd' \in Detaches /\ (devd'.pc # "none" => devd'.phone \in Phones /\ devd'.point \in Folders)
    BY <1>10, <2>1, Nothing DEF Kinds, TypeOK, ShapeOK, DetachFind, Detaches
  <2> QED
    BY <1>10, <2>2 DEF Kinds, TypeOK, ShapeOK, DetachFind
<1>11. CASE DetachUmount
  <2>1. devd.point \in Folders /\ Unmounted(devd.point) \in Seq(Mounts)
    BY <1>11, LastOf DEF Kinds, TypeOK, ShapeOK, DetachUmount, Unmounted, MountedAt
  <2> QED
    BY <1>11, <2>1, ZenonT(100) DEF Kinds, TypeOK, ShapeOK, DetachUmount, Detaches, NoDetach
<1>12. ASSUME NEW p \in Phones, NEW node \in Nodes, Join(p, node) PROVE Kinds'
  <2>1. [kind |-> "attach", node |-> node, phone |-> p] \in Events
    BY DEF Events
  <2>2. events' \in Seq(Events)
    BY <1>12, <2>1, OneOf DEF Kinds, TypeOK, Join, Event
  <2>3. bus' \in [Phones -> Nodes \cup {None}] /\ joins' \in 0..MaxJoins
    BY <1>12, FolderAssumption DEF Kinds, TypeOK, Join
  <2> QED
    BY <1>12, <2>2, <2>3 DEF Kinds, TypeOK, ShapeOK, Join
<1>13. ASSUME NEW p \in Phones, Leave(p) PROVE Kinds'
  <2>1. [kind |-> "detach", node |-> bus[p], phone |-> p] \in Events
    BY <1>13 DEF Kinds, TypeOK, Leave, Events
  <2>2. events' \in Seq(Events)
    BY <1>13, <2>1, OneOf DEF Kinds, TypeOK, Leave, Event
  <2>3. mounts' \in [Folders -> Seq(Mounts)]
    <3>1. ASSUME NEW f \in Folders PROVE mounts'[f] \in Seq(Mounts)
      <4>1. mounts[f] \in Seq(Mounts) /\ mounts'[f] = [i \in 1..Len(mounts[f]) |-> Left(p, mounts[f][i])]
        BY <1>13 DEF Kinds, TypeOK, Leave
      <4>2. \A m \in Mounts : Left(p, m) \in Mounts
        BY DEF Left, Mounts
      <4> QED
        BY <4>1, <4>2
    <3> QED
      BY <1>13, <3>1 DEF Leave
  <2>4. starting' \in SUBSET [phone: Phones, live: BOOLEAN, point: Folders]
    BY <1>13, ZenonT(100) DEF Kinds, TypeOK, Leave, Left
  <2> QED
    BY <1>13, <2>2, <2>3, <2>4 DEF Kinds, TypeOK, ShapeOK, Leave
<1>14. ASSUME NEW s \in starting, MountAppears(s) PROVE Kinds'
  <2>1. mounts' \in [Folders -> Seq(Mounts)]
    BY <1>14, OneOf DEF Kinds, TypeOK, MountAppears, Mounts
  <2> QED
    BY <1>14, <2>1 DEF Kinds, TypeOK, ShapeOK, MountAppears
<1>15. ASSUME NEW s \in starting, MountFails(s) PROVE Kinds'
  BY <1>15 DEF Kinds, TypeOK, ShapeOK, MountFails
<1>16. ASSUME NEW f \in Folders, Eject(f) PROVE Kinds'
  <2>1. Front(mounts[f]) \in Seq(Mounts) /\ Top(f).phone \in Phones
    <3>1. mounts[f] \in Seq(Mounts) /\ mounts[f] # <<>>
      BY <1>16 DEF Kinds, TypeOK, Eject, MountedAt
    <3>2. Front(mounts[f]) \in Seq(Mounts) /\ Last(mounts[f]) \in Mounts
      BY <3>1, LastOf
    <3> QED
      BY <3>2 DEF Top, Mounts
  <2> QED
    BY <1>16, <2>1 DEF Kinds, TypeOK, ShapeOK, Eject
<1>17. CASE UNCHANGED vars
  BY <1>17 DEF Kinds, TypeOK, ShapeOK, vars
<1> QED
  BY <1>1, <1>2, <1>3, <1>4, <1>5, <1>6, <1>7, <1>8, <1>9, <1>10, <1>11, <1>12, <1>13, <1>14, <1>15,
     <1>16, <1>17 DEF Next, AttachStep, DevdStep, MtpfsStep

LEMMA InitKinds == Init => Kinds
  BY FolderAssumption DEF Init, Kinds, TypeOK, ShapeOK, NoAttach, NoDetach, Attaches, Detaches

\* The variables hold values of their kind, whatever faults happen: the helper
\* waits MOUNT_WAIT turns at most, and unmounts and mounts folders only.
THEOREM AutomountTypeCorrect == Spec => []TypeOK
<1>1. Kinds => TypeOK
  BY DEF Kinds
<1> QED
  BY <1>1, InitKinds, StepKinds, PTL DEF Spec

-----------------------------------------------------------------------------
(* What a step of an attach process leaves alone.                          *)

\* The faults that the helper does not withstand do not happen.
Calm == Faults \cap {"holds", "together", "busy", "lag", "slow"} = {}

\* One process goes to a step, or ends.
Others(h) == \A k \in Helpers \ {h} : att'[k] = att[k]
Moves(h, pc) ==
    /\ Others(h) /\ att'[h].pc = pc /\ att'[h].phone = att[h].phone /\ att'[h].node = att[h].node
Ends(h) == Others(h) /\ att'[h].pc = "none"
Released(h) == \A p \in Phones : lock'[p] = IF p = att[h].phone /\ lock[p] = h THEN None ELSE lock[p]

LEMMA GoIs ==
    ASSUME TypeOK, NEW h \in Helpers, NEW pc, Go(h, pc)
    PROVE  Moves(h, pc) /\ att'[h].point = att[h].point /\ att'[h].i = att[h].i /\ lock' = lock
  BY DEF TypeOK, Go, Moves, Others, Attaches
LEMMA EndIs ==
    ASSUME TypeOK, NEW h \in Helpers, End(h)
    PROVE  Ends(h) /\ Released(h)
<1>1. Ends(h)
  BY Nothing DEF TypeOK, End, Ends, Others
<1>2. Released(h)
  BY DEF TypeOK, End, Released
<1> QED
  BY <1>1, <1>2

LEMMA EndLock ==
    ASSUME LockOK, NEW h \in Helpers, Ends(h), Released(h)
    PROVE  LockOK'
  BY NoneAssumption DEF LockOK, Ends, Others, Released, Busy

\* A lock lets one process through, and all processes are of one cellphone.
LEMMA OneBusy ==
    ASSUME Inv, NEW h \in Helpers, NEW k \in Helpers, Busy(h), Busy(k)
    PROVE  h = k
<1>1. att[h].phone \in Phones /\ att[k].phone \in Phones
  BY DEF Inv, ShapeOK, Busy
<1>2. att[h].phone = att[k].phone
  BY <1>1 DEF Inv, AloneOK, Attaching, Busy
<1> QED
  BY <1>1, <1>2 DEF Inv, LockOK

LEMMA OneAttached ==
    ASSUME Inv, NEW h \in Helpers, att[h].pc # "none", NEW p \in Phones, Attaching(p)
    PROVE  att[h].phone = p
  BY DEF Inv, ShapeOK, AloneOK, Attaching

LEMMA TopKind ==
    ASSUME TypeOK, NEW f \in Folders, MountedAt(f)
    PROVE  Top(f).phone \in Phones /\ Top(f).live \in BOOLEAN
<1>1. Last(mounts[f]) \in Mounts
  BY LastOf DEF TypeOK, MountedAt
<1> QED
  BY <1>1 DEF Top, Mounts

\* Fewer attaches are under way, or as many.
LEMMA FewerAlone ==
    ASSUME AloneOK, \A p \in Phones : Attaching(p)' => Attaching(p)
    PROVE  AloneOK'
  BY DEF AloneOK

\* The parts of the invariant that the step of a process cannot disturb.
LEMMA MoveKeeps ==
    ASSUME Inv, NEW h \in Helpers, att[h].pc # "none",
           (\E pc : Moves(h, pc)) \/ Ends(h),
           UNCHANGED <<bus, events, devd, mounts, astray>>,
           \A s \in starting' : s \in starting \/ s.phone = att[h].phone
    PROVE  QueueOK' /\ AloneOK' /\ NodeOK' /\ OneEach' /\ DevdOK' /\ (state' = state => StateOK' /\ DeadOK')
<1>1. QueueOK'
  BY DEF Inv, QueueOK, Waiting
<1>2. AloneOK'
  <2>1. ASSUME NEW p \in Phones, Attaching(p)' PROVE Attaching(p)
    BY <2>1 DEF Attaching, Moves, Ends, Others
  <2> QED
    BY <2>1, FewerAlone DEF Inv
<1>3. NodeOK'
  BY DEF Inv, NodeOK, Moves, Ends, Others
<1>4. OneEach'
  BY DEF Inv, OneEach
<1>5. DevdOK'
  BY DEF Inv, DevdOK, MountedAt, Top
<1>6. ASSUME state' = state PROVE StateOK' /\ DeadOK'
  BY <1>6 DEF Inv, StateOK, DeadOK, MountedAt, Top, Waiting
<1> QED
  BY <1>1, <1>2, <1>3, <1>4, <1>5, <1>6

\* A process that ends where it mounted nothing.
LEMMA EndKeeps ==
    ASSUME Inv, NEW h \in Helpers, att[h].pc # "none", Ends(h), Released(h),
           UNCHANGED <<bus, events, devd, mounts, astray, starting, state>>,
           att[h].pc # "write",
           att[h].pc = "wait" => att[h].i # 0 \/ (~MountedAt(att[h].point) /\ ~Coming(h))
    PROVE  LockOK' /\ StartOK' /\ OwnOK' /\ LiveOK'
<1>1. LockOK'
  BY EndLock DEF Inv
<1>2. StartOK'
  BY DEF Inv, StartOK, MountedAt, Ends, Others, Coming
<1>3. OwnOK'
  BY DEF Inv, OwnOK, MountedAt, Top, Ends, Others
<1>4. LiveOK'
  BY DEF Inv, LiveOK, MountedAt, Top, Ends, Others
<1> QED
  BY <1>1, <1>2, <1>3, <1>4

-----------------------------------------------------------------------------
(* The steps of an attach. TypeOK and ShapeOK are left to StepKinds.       *)

Rest ==
    /\ QueueOK /\ AloneOK /\ NodeOK /\ LockOK /\ OneEach
    /\ StartOK /\ OwnOK /\ LiveOK /\ StateOK /\ DeadOK /\ DevdOK

LEMMA LockRest == ASSUME Inv, NEW h \in Helpers, AttachLock(h) PROVE Rest'
<1>0. UNCHANGED <<bus, events, devd, mounts, astray, starting, state>> /\ att[h].pc = "lock"
  BY DEF AttachLock
<1>1. CASE End(h)
  BY <1>0, <1>1, EndIs, EndKeeps, MoveKeeps DEF Inv, Rest
<1>2. CASE ~End(h)
  <2>1. Moves(h, "check") /\ lock[att[h].phone] = None /\ lock' = [lock EXCEPT ![att[h].phone] = h]
    BY <1>2 DEF AttachLock, Inv, TypeOK, Attaches, Moves, Others
  <2>2. QueueOK' /\ AloneOK' /\ NodeOK' /\ OneEach' /\ DevdOK' /\ StateOK' /\ DeadOK'
    BY <1>0, <2>1, MoveKeeps
  <2>3. LockOK'
    <3>1. att[h].phone \in Phones
      BY <1>0 DEF Inv, ShapeOK
    <3> QED
      BY <1>0, <2>1, <3>1, NoneAssumption DEF Inv, TypeOK, LockOK, Busy, Moves, Others
  <2>4. StartOK' /\ OwnOK'
    BY <1>0, <2>1 DEF Inv, StartOK, OwnOK, MountedAt, Top, Moves, Others
  <2>5. LiveOK'
    BY <1>0, <2>1 DEF Inv, LiveOK, MountedAt, Top, Moves, Others
  <2> QED
    BY <2>2, <2>3, <2>4, <2>5 DEF Rest
<1> QED
  BY <1>1, <1>2

\* A process that looks for a folder has no mount: the state file would name
\* it, or another process would hold the lock.
LEMMA CheckRest == ASSUME Inv, NEW h \in Helpers, AttachCheck(h) PROVE Rest'
<1>0. UNCHANGED <<bus, events, devd, mounts, astray, starting, state>> /\ att[h].pc = "check"
  BY DEF AttachCheck
<1>1. CASE End(h)
  BY <1>0, <1>1, EndIs, EndKeeps, MoveKeeps DEF Inv, Rest
<1>2. CASE ~End(h)
  <2>1. Moves(h, "name") /\ lock' = lock
    BY <1>2, GoIs DEF AttachCheck, Inv
  <2>2. state[att[h].phone] = None \/ ~MountedAt(state[att[h].phone])
    BY <1>2 DEF AttachCheck
  <2>3. QueueOK' /\ AloneOK' /\ NodeOK' /\ OneEach' /\ DevdOK' /\ StateOK' /\ DeadOK'
    BY <1>0, <2>1, MoveKeeps
  <2>4. LockOK'
    BY <1>0, <2>1 DEF Inv, LockOK, Busy, Moves, Others
  <2>5. StartOK' /\ OwnOK'
    BY <1>0, <2>1 DEF Inv, StartOK, OwnOK, MountedAt, Top, Moves, Others
  <2>6. ASSUME NEW f \in Folders, MountedAt(f), Top(f).live PROVE Top(f).phone # att[h].phone
    <3>1. ASSUME NEW k \in Helpers, att[k].pc \in {"wait", "write"} PROVE FALSE
      BY <1>0, <3>1, OneBusy DEF Busy
    <3> QED
      BY <2>2, <2>6, <3>1, NoneAssumption DEF Inv, LiveOK
  <2>7. LiveOK'
    BY <1>0, <2>1, <2>6 DEF Inv, LiveOK, MountedAt, Top, Moves, Others
  <2> QED
    BY <2>3, <2>4, <2>5, <2>7 DEF Rest
<1> QED
  BY <1>1, <1>2

LEMMA NameRest == ASSUME Inv, NEW h \in Helpers, AttachName(h) PROVE Rest'
<1>0. UNCHANGED <<bus, events, devd, mounts, astray, starting, state>> /\ att[h].pc = "name"
  BY DEF AttachName
<1>1. CASE End(h)
  BY <1>0, <1>1, EndIs, EndKeeps, MoveKeeps DEF Inv, Rest
<1>2. CASE ~End(h)
  <2>1. Moves(h, "find") /\ lock' = lock
    BY <1>2, GoIs DEF AttachName, Inv
  <2>2. QueueOK' /\ AloneOK' /\ NodeOK' /\ OneEach' /\ DevdOK' /\ StateOK' /\ DeadOK'
    BY <1>0, <2>1, MoveKeeps
  <2>3. LockOK'
    BY <1>0, <2>1 DEF Inv, LockOK, Busy, Moves, Others
  <2>4. StartOK' /\ OwnOK'
    BY <1>0, <2>1 DEF Inv, StartOK, OwnOK, MountedAt, Top, Moves, Others
  <2>5. LiveOK'
    BY <1>0, <2>1 DEF Inv, LiveOK, MountedAt, Top, Moves, Others
  <2> QED
    BY <2>2, <2>3, <2>4, <2>5 DEF Rest
<1> QED
  BY <1>1, <1>2

LEMMA FindRest == ASSUME Inv, NEW h \in Helpers, AttachFind(h) PROVE Rest'
<1>0. UNCHANGED <<bus, events, devd, mounts, astray, starting, state>> /\ att[h].pc = "find"
  BY DEF AttachFind
<1>1. CASE End(h)
  BY <1>0, <1>1, EndIs, EndKeeps, MoveKeeps DEF Inv, Rest
<1>2. CASE ~End(h)
  <2>1. PICK f \in Folders : Free(f) /\ att' = [att EXCEPT ![h].pc = "start", ![h].point = f] /\ lock' = lock
    BY <1>2, FirstFree DEF AttachFind
  <2>2. Moves(h, "start") /\ att'[h].point = f /\ lock' = lock /\ ~MountedAt(f)
    BY <2>1 DEF Inv, TypeOK, Attaches, Moves, Others, Free
  <2>3. QueueOK' /\ AloneOK' /\ NodeOK' /\ OneEach' /\ DevdOK' /\ StateOK' /\ DeadOK'
    BY <1>0, <2>2, MoveKeeps
  <2>4. LockOK'
    BY <1>0, <2>2 DEF Inv, LockOK, Busy, Moves, Others
  <2>5. StartOK' /\ OwnOK'
    BY <1>0, <2>2 DEF Inv, StartOK, OwnOK, MountedAt, Top, Moves, Others
  <2>6. LiveOK'
    BY <1>0, <2>2 DEF Inv, LiveOK, MountedAt, Top, Moves, Others
  <2> QED
    BY <2>3, <2>4, <2>5, <2>6 DEF Rest
<1> QED
  BY <1>1, <1>2

\* mtpfs takes the cellphone of the process: nobody else has its node.
LEMMA StartRest == ASSUME Inv, NEW h \in Helpers, AttachStart(h) PROVE Rest'
<1>0. UNCHANGED <<bus, events, devd, mounts, astray, state>> /\ att[h].pc = "start"
  BY DEF AttachStart
<1>1. CASE End(h) /\ UNCHANGED starting
  BY <1>0, <1>1, EndIs, EndKeeps, MoveKeeps DEF Inv, Rest
<1>2. CASE Go(h, "wait")
  <2>1. Moves(h, "wait") /\ att'[h].point = att[h].point /\ att'[h].i = att[h].i /\ lock' = lock
    BY <1>2, GoIs DEF Inv
  <2>2. starting = {}
    <3>1. ASSUME NEW s \in starting PROVE FALSE
      BY <1>0, <3>1, OneBusy DEF Inv, StartOK, Busy
    <3> QED
      BY <3>1
  <2>3. att[h].phone \in Phones /\ att[h].node \in Nodes /\ att[h].point \in Folders /\ att[h].i = 0
    BY <1>0 DEF Inv, ShapeOK
  <2>4. ASSUME NEW s \in starting'
        PROVE  s = [phone |-> att[h].phone, live |-> TRUE, point |-> att[h].point] /\ bus[att[h].phone] # None
    BY <1>0, <2>2, <2>3, <2>4, NoneAssumption DEF AttachStart, At, Inv, NodeOK
  <2>5. QueueOK' /\ AloneOK' /\ NodeOK' /\ OneEach' /\ DevdOK' /\ StateOK' /\ DeadOK'
    BY <1>0, <2>1, <2>4, MoveKeeps
  <2>6. LockOK'
    BY <1>0, <2>1 DEF Inv, LockOK, Busy, Moves, Others
  <2>7. ~MountedAt(att[h].point)
    BY <1>0 DEF Inv, StartOK
  <2>8. StartOK'
    <3>1. (\A k \in Helpers : att[k].pc = "start" => ~MountedAt(att[k].point))'
      BY <1>0, <2>1 DEF Inv, StartOK, MountedAt, Moves, Others
    <3>2. ASSUME NEW s \in starting'
          PROVE  /\ ~MountedAt(s.point)' /\ s.live /\ bus'[s.phone] # None
                 /\ att'[h].pc = "wait" /\ att'[h].phone = s.phone /\ att'[h].point = s.point /\ att'[h].i = 0
      BY <1>0, <2>1, <2>3, <2>4, <2>7, <3>2 DEF MountedAt, Moves
    <3> QED
      BY <2>4, <3>1, <3>2 DEF StartOK
  <2>9. OwnOK'
    BY <1>0, <2>1, <2>7 DEF Inv, OwnOK, MountedAt, Top, Moves, Others
  <2>10. LiveOK'
    BY <1>0, <2>1 DEF Inv, LiveOK, MountedAt, Top, Moves, Others
  <2> QED
    BY <2>5, <2>6, <2>8, <2>9, <2>10 DEF Rest
<1> QED
  BY <1>1, <1>2 DEF AttachStart

\* The process waits for its mount while its mtpfs can still mount: MOUNT_WAIT
\* is long enough for that.
LEMMA WaitRest == ASSUME Inv, Calm, NEW h \in Helpers, AttachWait(h) PROVE Rest'
<1>0. UNCHANGED <<bus, events, devd, mounts, astray, starting, state>> /\ att[h].pc = "wait"
  BY DEF AttachWait
<1>1. MountedAt(att[h].point) \/ ~Coming(h)
  BY DEF AttachWait, Calm
<1>2. CASE ~Waits(h) \/ (~MountedAt(att[h].point) /\ At(att[h].node) = {})
  <2>1. End(h)
    BY <1>2 DEF AttachWait
  <2>2. att[h].i # 0 \/ (~MountedAt(att[h].point) /\ ~Coming(h))
    BY <1>1, <1>2, FolderAssumption DEF Waits
  <2> QED
    BY <1>0, <2>1, <2>2, EndIs, EndKeeps, MoveKeeps DEF Inv, Rest
<1>3. CASE Waits(h) /\ MountedAt(att[h].point)
  <2>1. Moves(h, "write") /\ att'[h].point = att[h].point /\ lock' = lock
    BY <1>3, GoIs DEF AttachWait, Inv
  <2>2. QueueOK' /\ AloneOK' /\ NodeOK' /\ OneEach' /\ DevdOK' /\ StateOK' /\ DeadOK'
    BY <1>0, <2>1, MoveKeeps
  <2>3. LockOK'
    BY <1>0, <2>1 DEF Inv, LockOK, Busy, Moves, Others
  <2>4. StartOK' /\ OwnOK'
    BY <1>0, <1>3, <2>1 DEF Inv, StartOK, OwnOK, MountedAt, Top, Moves, Others
  <2>5. LiveOK'
    BY <1>0, <2>1 DEF Inv, LiveOK, MountedAt, Top, Moves, Others
  <2> QED
    BY <2>2, <2>3, <2>4, <2>5 DEF Rest
<1>4. CASE Waits(h) /\ ~MountedAt(att[h].point) /\ At(att[h].node) # {}
  <2>1. att' = [att EXCEPT ![h].i = Turn(@)] /\ lock' = lock
    BY <1>4 DEF AttachWait
  <2>2. Moves(h, "wait") /\ att'[h].point = att[h].point
    BY <1>0, <2>1 DEF Inv, TypeOK, Attaches, Moves, Others
  <2>3. QueueOK' /\ AloneOK' /\ NodeOK' /\ OneEach' /\ DevdOK' /\ StateOK' /\ DeadOK'
    BY <1>0, <2>2, MoveKeeps
  <2>4. LockOK'
    <3>1. lock' = lock
      BY <2>1
    <3> QED
      BY <1>0, <2>2, <3>1 DEF Inv, LockOK, Busy, Moves, Others
  <2>5. StartOK'
    BY <1>0, <1>1, <1>4, <2>2 DEF Inv, StartOK, MountedAt, Moves, Others, Coming
  <2>6. OwnOK'
    BY <1>0, <1>4, <2>2 DEF Inv, OwnOK, MountedAt, Top, Moves, Others
  <2>7. LiveOK'
    BY <1>0, <1>4, <2>2 DEF Inv, LiveOK, MountedAt, Top, Moves, Others
  <2> QED
    BY <2>3, <2>4, <2>5, <2>6, <2>7 DEF Rest
<1> QED
  BY <1>2, <1>3, <1>4

\* The state file names the mount of the cellphone that it belongs to.
LEMMA WriteRest == ASSUME Inv, NEW h \in Helpers, AttachWrite(h) PROVE Rest'
<1> DEFINE p == att[h].phone
           f == att[h].point
<1>0. UNCHANGED <<bus, events, devd, mounts, astray, starting>> /\ att[h].pc = "write"
  BY DEF AttachWrite
<1>1. Ends(h) /\ Released(h) /\ p \in Phones /\ f \in Folders
  BY <1>0, EndIs DEF AttachWrite, Inv, ShapeOK
<1>2. state' = [state EXCEPT ![p] = f]
  BY DEF AttachWrite
<1>3. QueueOK' /\ AloneOK' /\ NodeOK' /\ OneEach' /\ DevdOK'
  BY <1>0, <1>1, MoveKeeps
<1>4. LockOK'
  BY <1>1, EndLock DEF Inv
<1>5. StartOK' /\ OwnOK'
  BY <1>0, <1>1 DEF Inv, StartOK, OwnOK, MountedAt, Top, Ends, Others
<1>6. p \notin astray => MountedAt(f) /\ Top(f).phone = p /\ Top(f).live /\ bus[p] # None
  BY <1>0, <1>1 DEF Inv, OwnOK, LiveOK
<1>7. \A q \in Phones : state'[q] = IF q = p THEN f ELSE state[q]
  BY <1>1, <1>2 DEF Inv, TypeOK
<1>8. LiveOK'
  <2>1. ASSUME NEW g \in Folders, MountedAt(g), Top(g).live, Top(g).phone = p PROVE g = f
    BY <1>0, <2>1 DEF Inv, LiveOK
  <2>2. ASSUME NEW g \in Folders, MountedAt(g) PROVE Top(g).phone \in Phones
    BY <2>2, TopKind DEF Inv
  <2> QED
    BY <1>0, <1>1, <1>7, <2>1, <2>2 DEF Inv, LiveOK, MountedAt, Top, Ends, Others
<1>9. StateOK'
  BY <1>0, <1>6, <1>7 DEF Inv, StateOK, MountedAt, Top, Waiting
<1>10. DeadOK'
  <2>1. ASSUME NEW g \in Folders, MountedAt(g), ~Top(g).live, Top(g).phone \notin astray,
               Waiting("detach", Top(g).phone)
        PROVE  Top(g).phone # p /\ Top(g).phone \in Phones
    <3>1. Top(g).phone \in Phones
      BY <2>1, TopKind DEF Inv
    <3> QED
      BY <1>6, <2>1, <3>1 DEF Inv, QueueOK
  <2> QED
    BY <1>0, <1>7, <2>1 DEF Inv, DeadOK, MountedAt, Top, Waiting
<1> QED
  BY <1>3, <1>4, <1>5, <1>8, <1>9, <1>10 DEF Rest

-----------------------------------------------------------------------------
(* The steps of devd and of a detach.                                      *)

\* devd handles its one event.
LEMMA QueueEmpties ==
    ASSUME Inv, events # <<>>, events' = Tail(events)
    PROVE  events' = <<>> /\ Head(events) \in Events
<1>1. events \in Seq(Events) /\ Len(events) <= 1
  BY DEF Inv, TypeOK, QueueOK
<1>2. Head(events) \in Events /\ Tail(events) \in Seq(Events) /\ Len(Tail(events)) = Len(events) - 1
  BY <1>1, HeadOf
<1>3. Len(events) \in Nat /\ Len(events) # 0 /\ Len(Tail(events)) \in Nat
  BY <1>1, <1>2, EmptyOf
<1>4. Len(Tail(events)) = 0
  BY <1>1, <1>2, <1>3
<1> QED
  BY <1>2, <1>4, EmptyOf

LEMMA DevdAttachRest == ASSUME Inv, NEW h \in Helpers, DevdAttach(h) PROVE Rest'
<1> DEFINE e == Head(events)
<1>0. UNCHANGED <<bus, devd, lock, state, starting, mounts, astray>> /\ att[h].pc = "none"
  BY DEF DevdAttach, files
<1>1. events # <<>> /\ e.kind = "attach" /\ events' = <<>> /\ e \in Events /\ devd.pc = "none"
  BY QueueEmpties DEF DevdAttach
<1>2. Others(h) /\ att'[h].pc = "lock" /\ att'[h].phone = e.phone /\ att'[h].node = e.node
  <2>1. att' = [att EXCEPT ![h] = Started(e.node, e.phone)]
    BY DEF DevdAttach, Started
  <2> QED
    BY <1>1, <2>1, StartedIs DEF Inv, TypeOK, Others, Events
<1>3. e.phone \in Phones /\ e.node \in Nodes /\ bus[e.phone] = e.node
  BY <1>1 DEF Inv, QueueOK, Waiting, Events
<1>4. QueueOK'
  BY <1>0, <1>1, EmptyOf DEF Inv, QueueOK, Waiting
<1>5. AloneOK'
  <2>1. Attaching(e.phone)
    <3>1. events \in Seq(Events) /\ Len(events) \in Nat /\ Len(events) # 0
      BY <1>1, EmptyOf DEF Inv, TypeOK
    <3>2. Head(events) = events[1] /\ 1 \in 1..Len(events)
      BY <1>1, <3>1, HeadOf
    <3> QED
      BY <1>1, <3>2 DEF Attaching
  <2>2. ASSUME NEW p \in Phones, Attaching(p)' PROVE Attaching(p)
    BY <1>0, <1>1, <1>2, <2>1, <2>2 DEF Attaching, Others
  <2> QED
    BY <2>2, FewerAlone DEF Inv
<1>6. NodeOK'
  BY <1>0, <1>2, <1>3, NoneAssumption DEF Inv, NodeOK, QueueOK, Others
<1>7. LockOK'
  BY <1>0, <1>2 DEF Inv, LockOK, Busy, Others
<1>8. OneEach' /\ StartOK' /\ OwnOK'
  BY <1>0, <1>2 DEF Inv, OneEach, StartOK, OwnOK, MountedAt, Top, Others
<1>9. LiveOK'
  BY <1>0, <1>2 DEF Inv, LiveOK, MountedAt, Top, Others
<1>10. StateOK' /\ DeadOK' /\ DevdOK'
  BY <1>0, <1>1 DEF Inv, StateOK, DeadOK, DevdOK, MountedAt, Top, Waiting
<1> QED
  BY <1>4, <1>5, <1>6, <1>7, <1>8, <1>9, <1>10 DEF Rest

\* The detach of a cellphone that did not go astray gets the folder of its
\* mount, which does not answer any more.
LEMMA DetachReadRest == ASSUME Inv, DetachRead PROVE Rest'
<1> DEFINE p == Head(events).phone
<1>0. UNCHANGED <<bus, att, lock, starting, mounts, astray>>
  BY DEF DetachRead
<1>1. /\ events # <<>> /\ Head(events).kind = "detach" /\ events' = <<>> /\ devd.pc = "none"
      /\ p \in Phones /\ bus[p] = None
  BY QueueEmpties DEF DetachRead, Inv, QueueOK, Waiting, Events
<1>2. devd'.pc = "find" /\ devd'.phone = p /\ devd'.point = state[p]
  BY DEF DetachRead
<1>3. \A q \in Phones : state'[q] = IF q = p THEN None ELSE state[q]
  BY <1>1 DEF DetachRead, AfterRead, Inv, TypeOK
<1>4. QueueOK'
  BY <1>0, <1>1, <1>2, EmptyOf DEF Inv, QueueOK, Waiting
<1>5. AloneOK'
  <2>1. ASSUME NEW q \in Phones, Attaching(q)' PROVE Attaching(q)
    BY <1>0, <1>1, <2>1 DEF Attaching
  <2> QED
    BY <2>1, FewerAlone DEF Inv
<1>6. NodeOK' /\ LockOK' /\ OneEach' /\ StartOK' /\ OwnOK'
  BY <1>0 DEF Inv, NodeOK, LockOK, Busy, OneEach, StartOK, OwnOK, MountedAt, Top
<1>7. LiveOK'
  <2>1. ASSUME NEW f \in Folders, MountedAt(f), Top(f).live PROVE Top(f).phone # p /\ Top(f).phone \in Phones
    BY <1>1, <2>1, TopKind DEF Inv, LiveOK
  <2> QED
    BY <1>0, <1>3, <2>1 DEF Inv, LiveOK, MountedAt, Top
<1>8. StateOK'
  BY <1>0, <1>3 DEF Inv, StateOK, MountedAt, Top, Waiting
<1>9. DeadOK'
  BY <1>0, <1>1, <1>2 DEF Inv, DeadOK, MountedAt, Top, Waiting
<1>10. DevdOK'
  <2>1. p \notin astray /\ state[p] # None => state[p] \in Folders /\ MountedAt(state[p]) /\ Top(state[p]).phone = p
    BY <1>1 DEF Inv, StateOK, TypeOK
  <2>2. p \notin astray /\ state[p] # None => ~Top(state[p]).live
    BY <1>1, <2>1 DEF Inv, LiveOK
  <2> QED
    BY <1>0, <1>2, <2>1, <2>2 DEF DevdOK, MountedAt, Top
<1> QED
  BY <1>4, <1>5, <1>6, <1>7, <1>8, <1>9, <1>10 DEF Rest

\* The scan finds no mount that answers.
LEMMA DetachFindRest == ASSUME Inv, Calm, DetachFind PROVE Rest'
<1>0. UNCHANGED <<bus, events, att, lock, state, starting, mounts, astray>> /\ devd.pc = "find" /\ events = <<>>
  BY DEF DetachFind, files, Inv, QueueOK
<1>1. \/ devd' = NoDetach /\ ~(devd.point # None /\ MountedAt(devd.point))
      \/ \E f \in Folders : /\ devd' = [devd EXCEPT !.pc = "umount", !.point = f] /\ MountedAt(f)
                            /\ IF devd.point # None /\ MountedAt(devd.point) THEN f = devd.point ELSE ~Top(f).live
  BY DEF DetachFind, LooksDead, Calm, Inv, TypeOK, Detaches
<1>2. \/ devd'.pc = "none" /\ ~(devd.point # None /\ MountedAt(devd.point))
      \/ \E f \in Folders : /\ devd'.pc = "umount" /\ devd'.phone = devd.phone /\ devd'.point = f /\ MountedAt(f)
                            /\ IF devd.point # None /\ MountedAt(devd.point) THEN f = devd.point ELSE ~Top(f).live
  BY <1>1, Nothing DEF Inv, TypeOK, Detaches
<1>3. QueueOK'
  BY <1>0, <1>2 DEF Inv, QueueOK, Waiting
<1>4. AloneOK'
  <2>1. ASSUME NEW q \in Phones, Attaching(q)' PROVE Attaching(q)
    BY <1>0, <2>1 DEF Attaching
  <2> QED
    BY <2>1, FewerAlone DEF Inv
<1>5. NodeOK' /\ LockOK' /\ OneEach' /\ StartOK' /\ OwnOK' /\ LiveOK' /\ StateOK'
  BY <1>0 DEF Inv, NodeOK, LockOK, Busy, OneEach, StartOK, OwnOK, LiveOK, StateOK, MountedAt, Top, Waiting
<1>6. DeadOK'
  <2>1. ASSUME NEW f \in Folders, MountedAt(f), ~Top(f).live, Top(f).phone \notin astray
        PROVE  devd'.pc = "umount" /\ devd'.point = f
    <3>1. devd.point = f
      BY <1>0, <2>1 DEF Inv, DeadOK, Waiting
    <3> QED
      BY <1>2, <2>1, <3>1, NoneAssumption
  <2> QED
    BY <1>0, <2>1 DEF DeadOK, MountedAt, Top
<1>7. DevdOK'
  BY <1>0, <1>2 DEF Inv, DevdOK, MountedAt, Top
<1> QED
  BY <1>3, <1>4, <1>5, <1>6, <1>7 DEF Rest

\* A folder has one mount, and none when that one is gone.
LEMMA UnmountIs ==
    ASSUME Inv, NEW f \in Folders, MountedAt(f), mounts' = [mounts EXCEPT ![f] = Front(mounts[f])]
    PROVE  mounts'[f] = <<>> /\ \A g \in Folders \ {f} : mounts'[g] = mounts[g]
<1>1. mounts[f] \in Seq(Mounts) /\ mounts[f] # <<>> /\ Len(mounts[f]) <= 1
  BY DEF Inv, TypeOK, OneEach, MountedAt
<1>2. Front(mounts[f]) \in Seq(Mounts) /\ Len(Front(mounts[f])) = Len(mounts[f]) - 1
  BY <1>1, LastOf
<1>3. Len(mounts[f]) \in Nat /\ Len(mounts[f]) # 0 /\ Len(Front(mounts[f])) \in Nat
  BY <1>1, <1>2, EmptyOf
<1>4. Len(Front(mounts[f])) = 0
  <2>1. \A n, k \in Nat : n # 0 /\ n <= 1 /\ k = n - 1 => k = 0
    OBVIOUS
  <2> QED
    BY <1>1, <1>2, <1>3, <2>1, Zenon
<1>5. Front(mounts[f]) = <<>>
  BY <1>2, <1>4, EmptyOf
<1> QED
  BY <1>5 DEF Inv, TypeOK

\* The parts that an unmount cannot disturb; its cellphone is astray, or its
\* mount did not answer.
LEMMA UnmountKeeps ==
    ASSUME Inv, NEW f \in Folders, MountedAt(f), mounts' = [mounts EXCEPT ![f] = Front(mounts[f])],
           UNCHANGED <<bus, events, att, lock, state, starting>>,
           astray \subseteq astray', Top(f).live => Top(f).phone \in astray'
    PROVE  AloneOK' /\ NodeOK' /\ LockOK' /\ OneEach' /\ StartOK' /\ OwnOK' /\ LiveOK'
<1>1. mounts'[f] = <<>> /\ \A g \in Folders \ {f} : mounts'[g] = mounts[g]
  BY UnmountIs
<1>2. AloneOK'
  <2>1. ASSUME NEW q \in Phones, Attaching(q)' PROVE Attaching(q)
    BY <2>1 DEF Attaching
  <2> QED
    BY <2>1, FewerAlone DEF Inv
<1>3. NodeOK' /\ LockOK'
  BY DEF Inv, NodeOK, LockOK, Busy
<1>4. OneEach'
  BY <1>1, EmptySeq DEF Inv, OneEach
<1>5. StartOK'
  BY <1>1 DEF Inv, StartOK, ShapeOK, TypeOK, MountedAt
<1>6. OwnOK'
  BY <1>1 DEF Inv, OwnOK, ShapeOK, MountedAt, Top
<1>7. LiveOK'
  BY <1>1 DEF Inv, LiveOK, MountedAt, Top
<1> QED
  BY <1>2, <1>3, <1>4, <1>5, <1>6, <1>7

LEMMA DetachUmountRest == ASSUME Inv, Calm, DetachUmount PROVE Rest'
<1> DEFINE f == devd.point
<1>0. UNCHANGED <<bus, events, att, lock, state, starting>> /\ devd.pc = "umount" /\ events = <<>> /\ devd'.pc = "none"
  BY Nothing DEF DetachUmount, files, Inv, QueueOK
<1>1. f \in Folders /\ mounts' = [mounts EXCEPT ![f] = Unmounted(f)]
  BY DEF DetachUmount, Inv, ShapeOK, Calm
<1>2. astray \subseteq astray' /\ (MountedAt(f) /\ Top(f).live => Top(f).phone \in astray')
  <2>1. MountedAt(f) => Top(f) \in Mounts
    BY <1>1, LastOf DEF Inv, TypeOK, MountedAt, Top
  <2>2. \A m \in Mounts : m.live => m = [phone |-> m.phone, live |-> TRUE] /\ m.phone \in Phones
    BY DEF Mounts
  <2>3. astray' = astray \cup {p \in Phones : MountedAt(f) /\ Top(f) = [phone |-> p, live |-> TRUE]}
    BY DEF DetachUmount
  <2> QED
    BY <2>1, <2>2, <2>3
<1>3. QueueOK'
  BY <1>0 DEF Inv, QueueOK, Waiting
<1>4. DevdOK'
  BY <1>0 DEF DevdOK
<1>5. CASE MountedAt(f)
  <2>1. mounts' = [mounts EXCEPT ![f] = Front(mounts[f])]
    BY <1>1, <1>5 DEF Unmounted
  <2>2. mounts'[f] = <<>> /\ \A g \in Folders \ {f} : mounts'[g] = mounts[g]
    BY <1>1, <1>5, <2>1, UnmountIs
  <2>3. AloneOK' /\ NodeOK' /\ LockOK' /\ OneEach' /\ StartOK' /\ OwnOK' /\ LiveOK'
    BY <1>0, <1>1, <1>2, <1>5, <2>1, UnmountKeeps
  <2>4. StateOK'
    BY <1>0, <1>2, <2>2, SMTT(60) DEF Inv, StateOK, TypeOK, MountedAt, Top, Waiting
  <2>5. DeadOK'
    BY <1>0, <1>2, <2>2 DEF Inv, DeadOK, MountedAt, Top, Waiting
  <2> QED
    BY <1>3, <1>4, <2>3, <2>4, <2>5 DEF Rest
<1>6. CASE ~MountedAt(f)
  <2>1. mounts' = mounts /\ astray' = astray
    BY <1>1, <1>6 DEF Unmounted, Inv, TypeOK, DetachUmount
  <2>2. AloneOK'
    <3>1. ASSUME NEW q \in Phones, Attaching(q)' PROVE Attaching(q)
      BY <1>0, <3>1 DEF Attaching
    <3> QED
      BY <3>1, FewerAlone DEF Inv
  <2>3. NodeOK' /\ LockOK' /\ OneEach' /\ StartOK' /\ OwnOK' /\ LiveOK' /\ StateOK'
    BY <1>0, <2>1 DEF Inv, NodeOK, LockOK, Busy, OneEach, StartOK, OwnOK, LiveOK, StateOK, MountedAt, Top, Waiting
  <2>4. DeadOK'
    BY <1>0, <1>6, <2>1 DEF Inv, DeadOK, MountedAt, Top, Waiting
  <2> QED
    BY <1>3, <1>4, <2>2, <2>3, <2>4 DEF Rest
<1> QED
  BY <1>5, <1>6

-----------------------------------------------------------------------------
(* The steps of the bus, of mtpfs and of a person.                         *)

\* The queue is empty when an event comes.
LEMMA QueueFills ==
    ASSUME Inv, events = <<>>, NEW e \in Events, events' = Append(events, e)
    PROVE  events' # <<>> /\ Head(events') = e /\ Len(events') = 1 /\ events'[1] = e
  OBVIOUS

LEMMA JoinRest == ASSUME Inv, Calm, NEW p \in Phones, NEW node \in Nodes, Join(p, node) PROVE Rest'
<1> DEFINE e == [kind |-> "attach", node |-> node, phone |-> p]
<1>0. UNCHANGED <<devd, att, lock, state, starting, mounts, astray>> /\ events = <<>> /\ devd.pc = "none"
  BY DEF Join, files, DevdIsIdle, Calm
<1>1. events' # <<>> /\ Head(events') = e /\ Len(events') = 1 /\ events'[1] = e
  BY <1>0, QueueFills DEF Join, Event, Events
<1>2. bus[p] = None /\ \A q \in Phones : bus[q] # node /\ (q # p => ~Attaching(q))
  BY DEF Join, At, Calm
<1>3. \A q \in Phones : bus'[q] = IF q = p THEN node ELSE bus[q]
  BY DEF Join, Inv, TypeOK
<1>4. QueueOK'
  BY <1>0, <1>1, <1>2, <1>3, NoneAssumption DEF Inv, QueueOK, Waiting
<1>5. AloneOK'
  <2>1. ASSUME NEW q \in Phones, Attaching(q)' PROVE q = p
    BY <1>0, <1>1, <1>2, <2>1 DEF Attaching
  <2> QED
    BY <2>1 DEF AloneOK
<1>6. NodeOK'
  <2>1. ASSUME NEW h \in Helpers, att[h].pc # "none" PROVE att[h].phone = p
    BY <1>2, <2>1 DEF Inv, ShapeOK, Attaching
  <2> QED
    BY <1>0, <1>3, <2>1 DEF Inv, NodeOK
<1>7. LockOK' /\ OneEach' /\ OwnOK'
  BY <1>0 DEF Inv, LockOK, Busy, OneEach, OwnOK, MountedAt, Top
<1>8. bus[p] = None /\ node # None
  BY <1>2, NoneAssumption
<1>9. StartOK'
  BY <1>0, <1>3, <1>8 DEF Inv, StartOK, TypeOK, MountedAt
<1>10. LiveOK'
  <2>1. ASSUME NEW f \in Folders, MountedAt(f) PROVE Top(f).phone \in Phones
    BY <2>1, TopKind DEF Inv
  <2> QED
    BY <1>0, <1>3, <1>8, <2>1 DEF Inv, LiveOK, MountedAt, Top
<1>11. StateOK' /\ DeadOK' /\ DevdOK'
  BY <1>0 DEF Inv, StateOK, DeadOK, DevdOK, MountedAt, Top, Waiting
<1> QED
  BY <1>4, <1>5, <1>6, <1>7, <1>9, <1>10, <1>11 DEF Rest

\* The mounts of a cellphone that leaves do not answer any more.
LEMMA LeaveMounts ==
    ASSUME TypeOK, NEW p \in Phones, Leave(p), NEW f \in Folders
    PROVE  /\ MountedAt(f)' = MountedAt(f) /\ Len(mounts'[f]) = Len(mounts[f])
           /\ MountedAt(f) => Top(f)'.phone = Top(f).phone /\ Top(f)'.live = (Top(f).live /\ Top(f).phone # p)
<1>1. mounts[f] \in Seq(Mounts) /\ mounts'[f] = [i \in 1..Len(mounts[f]) |-> Left(p, mounts[f][i])]
  BY DEF TypeOK, Leave
<1>2. \A m \in Mounts : /\ Left(p, m) \in Mounts /\ Left(p, m).phone = m.phone
                        /\ Left(p, m).live = (m.live /\ m.phone # p)
  BY DEF Left, Mounts
<1>3. mounts'[f] \in Seq(Mounts) /\ Len(mounts'[f]) = Len(mounts[f])
  BY <1>1, <1>2
<1>4. Len(mounts[f]) \in Nat /\ (mounts'[f] = <<>> <=> mounts[f] = <<>>)
  BY <1>1, <1>3, EmptyOf
<1>5. ASSUME mounts[f] # <<>> PROVE Last(mounts'[f]) = Left(p, Last(mounts[f])) /\ Last(mounts[f]) \in Mounts
  <2>1. Last(mounts'[f]) = mounts'[f][Len(mounts[f])] /\ Last(mounts[f]) = mounts[f][Len(mounts[f])]
    BY <1>1, <1>3, <1>4, <1>5, LastOf
  <2>2. Len(mounts[f]) \in 1..Len(mounts[f]) /\ Last(mounts[f]) \in Mounts
    BY <1>1, <1>4, <1>5, EmptyOf, LastOf
  <2> QED
    BY <1>1, <2>1, <2>2
<1> QED
  BY <1>2, <1>3, <1>4, <1>5 DEF MountedAt, Top

LEMMA LeaveStarting ==
    ASSUME TypeOK, NEW p \in Phones, Leave(p), NEW t \in starting'
    PROVE  \E s \in starting : /\ t = Left(p, s) /\ t.phone = s.phone /\ t.point = s.point
                               /\ t.live = (s.live /\ s.phone # p)
  BY DEF TypeOK, Leave, Left

LEMMA LeaveRest == ASSUME Inv, Calm, NEW p \in Phones, Leave(p) PROVE Rest'
<1> DEFINE e == [kind |-> "detach", node |-> bus[p], phone |-> p]
<1>0. UNCHANGED <<devd, att, lock, state>> /\ events = <<>> /\ devd.pc = "none" /\ TypeOK
  BY DEF Leave, files, DevdIsIdle, Calm, Inv
<1>1. events' # <<>> /\ Head(events') = e /\ Len(events') = 1 /\ events'[1] = e
  <2>1. e \in Events
    BY DEF Leave, Events, Inv, TypeOK
  <2> QED
    BY <1>0, <2>1, QueueFills DEF Leave, Event
<1>2. \A q \in Phones : bus'[q] = IF q = p THEN None ELSE bus[q]
  BY DEF Leave, Inv, TypeOK
<1>3. \A q : q \in astray' <=> q \in astray \/ (q = p /\ Attaching(p))
  BY DEF Leave
<1>4. ASSUME NEW f \in Folders
      PROVE  /\ MountedAt(f)' = MountedAt(f) /\ Len(mounts'[f]) = Len(mounts[f])
             /\ MountedAt(f) => Top(f)'.phone = Top(f).phone /\ Top(f)'.live = (Top(f).live /\ Top(f).phone # p)
                                /\ Top(f).phone \in Phones
  BY <1>0, LeaveMounts, TopKind
<1>5. ASSUME NEW t \in starting'
      PROVE  \E s \in starting : t = Left(p, s) /\ t.phone = s.phone /\ t.point = s.point /\ t.live = (s.live /\ s.phone # p)
  BY <1>0, LeaveStarting
<1>6. QueueOK'
  BY <1>0, <1>1, <1>2 DEF Inv, QueueOK, Waiting
<1>7. AloneOK'
  <2>1. ASSUME NEW q \in Phones, Attaching(q)' PROVE Attaching(q)
    BY <1>0, <1>1, <1>5, <2>1 DEF Attaching
  <2> QED
    BY <2>1, FewerAlone DEF Inv
<1>8. NodeOK'
  BY <1>0, <1>2, NoneAssumption DEF Inv, NodeOK, ShapeOK
<1>9. LockOK' /\ OneEach'
  BY <1>0, <1>4 DEF Inv, LockOK, Busy, OneEach
<1>10. StartOK'
  <2>1. (\A h \in Helpers : att[h].pc = "start" => ~MountedAt(att[h].point))'
    BY <1>0, <1>4 DEF Inv, StartOK, ShapeOK, MountedAt
  <2>2. ASSUME NEW t \in starting'
        PROVE  /\ ~MountedAt(t.point)' /\ (t.live => bus'[t.phone] # None) /\ (t.phone \notin astray' => t.live)
               /\ \E h \in Helpers : att'[h].pc = "wait" /\ att'[h].phone = t.phone /\ att'[h].point = t.point /\ att'[h].i = 0
    <3>1. PICK s \in starting : t.phone = s.phone /\ t.point = s.point /\ t.live = (s.live /\ s.phone # p)
      BY <1>5
    <3>2. s.point \in Folders /\ s.phone \in Phones
      BY <1>0 DEF TypeOK
    <3>3. ~MountedAt(s.point)'
      BY <1>4, <3>2 DEF Inv, StartOK
    <3>4. \E h \in Helpers : att'[h].pc = "wait" /\ att'[h].phone = s.phone /\ att'[h].point = s.point /\ att'[h].i = 0
      BY <1>0 DEF Inv, StartOK
    <3>5. s.phone = p => Attaching(p)
      BY DEF Attaching
    <3>6. (s.live => bus[s.phone] # None) /\ (s.phone \notin astray => s.live)
      BY DEF Inv, StartOK
    <3>7. ~MountedAt(t.point)'
      BY <3>1, <3>3 DEF MountedAt
    <3> QED
      BY <1>2, <1>3, <3>1, <3>2, <3>4, <3>5, <3>6, <3>7
  <2>3. \A s, t \in starting' : s = t
    BY <1>5 DEF Inv, StartOK
  <2> QED
    BY <2>1, <2>2, <2>3 DEF StartOK
<1>11. OwnOK'
  <2>1. ASSUME NEW h \in Helpers, att[h].pc # "none", att[h].phone \notin astray' PROVE att[h].phone # p /\ att[h].phone \notin astray
    BY <1>3, <2>1 DEF Attaching
  <2> QED
    BY <1>0, <1>4, <2>1, ZenonT(100) DEF Inv, OwnOK, ShapeOK, MountedAt, Top
<1>12. LiveOK'
  <2> SUFFICES ASSUME NEW f \in Folders, MountedAt(f)', Top(f)'.live
               PROVE  LiveOK!(f)!2'
    BY DEF LiveOK
  <2>1. MountedAt(f) /\ Top(f).live /\ Top(f)'.phone = Top(f).phone /\ Top(f).phone # p /\ Top(f).phone \in Phones
    BY <1>4
  <2> QED
    BY <1>0, <1>2, <2>1 DEF Inv, LiveOK
<1>13. StateOK'
  <2>1. ASSUME NEW q \in Phones, q \notin astray, NEW f, state[q] = f, f # None
        PROVE  MountedAt(f)' /\ Top(f)'.phone = q /\ (q = p \/ Top(f)'.live)
    <3>1. f \in Folders /\ MountedAt(f) /\ Top(f).phone = q /\ Top(f).live
      BY <1>0, <2>1 DEF Inv, StateOK, TypeOK, Waiting
    <3> QED
      BY <1>4, <3>1
  <2> QED
    BY <1>0, <1>1, <1>3, <2>1 DEF StateOK, MountedAt, Top, Waiting
<1>14. DeadOK'
  <2>1. ASSUME NEW f \in Folders, MountedAt(f), ~Top(f)'.live, Top(f).phone \notin astray'
        PROVE  Top(f).phone = p /\ state[p] = f
    <3>1. Top(f).live /\ Top(f).phone = p /\ ~Attaching(p)
      BY <1>0, <1>3, <1>4, <2>1 DEF Inv, DeadOK, Waiting
    <3> QED
      BY <2>1, <3>1 DEF Inv, LiveOK, Attaching
  <2> QED
    BY <1>0, <1>1, <1>4, <2>1 DEF DeadOK, MountedAt, Top, Waiting
<1>15. DevdOK'
  BY <1>0 DEF DevdOK
<1> QED
  BY <1>6, <1>7, <1>8, <1>9, <1>10, <1>11, <1>12, <1>13, <1>14, <1>15 DEF Rest

LEMMA AppearsRest == ASSUME Inv, NEW s \in starting, MountAppears(s) PROVE Rest'
<1> DEFINE f == s.point
           m == [phone |-> s.phone, live |-> s.live]
<1>0. UNCHANGED <<bus, events, devd, att, lock, state, astray>> /\ TypeOK
  BY DEF MountAppears, files, Inv
<1>1. f \in Folders /\ s.phone \in Phones /\ m \in Mounts /\ mounts[f] = <<>>
  BY <1>0 DEF Inv, StartOK, TypeOK, MountedAt, Mounts
<1>2. mounts'[f] # <<>> /\ Last(mounts'[f]) = m /\ Len(mounts'[f]) = 1 /\ \A g \in Folders \ {f} : mounts'[g] = mounts[g]
  <2>1. mounts' = [mounts EXCEPT ![f] = Append(mounts[f], m)] /\ mounts[f] \in Seq(Mounts)
    BY <1>0, <1>1 DEF MountAppears, TypeOK
  <2>2. mounts'[f] = Append(mounts[f], m) /\ \A g \in Folders \ {f} : mounts'[g] = mounts[g]
    BY <1>0, <1>1, <2>1 DEF TypeOK
  <2>3. Append(mounts[f], m) # <<>> /\ Last(Append(mounts[f], m)) = m /\ Len(Append(mounts[f], m)) = Len(mounts[f]) + 1
    BY <1>1, <2>1, OneOf
  <2>4. Len(mounts[f]) = 0
    BY <1>1, EmptySeq
  <2> QED
    BY <2>2, <2>3, <2>4
<1>3. starting' = {}
  BY DEF MountAppears, Inv, StartOK
<1>4. PICK h \in Helpers : att[h].pc = "wait" /\ att[h].phone = s.phone /\ att[h].point = f /\ att[h].i = 0
  BY DEF Inv, StartOK
<1>5. \A k \in Helpers : Busy(k) => k = h
  BY <1>4, OneBusy DEF Busy
<1>6. (s.live => bus[s.phone] # None) /\ (s.phone \notin astray => s.live)
  BY DEF Inv, StartOK
<1>7. QueueOK' /\ NodeOK' /\ LockOK'
  BY <1>0 DEF Inv, QueueOK, Waiting, NodeOK, LockOK, Busy
<1>8. AloneOK'
  <2>1. ASSUME NEW q \in Phones, Attaching(q)' PROVE Attaching(q)
    BY <1>0, <1>3, <2>1 DEF Attaching
  <2> QED
    BY <2>1, FewerAlone DEF Inv
<1>9. OneEach'
  <2>1. ASSUME NEW g \in Folders PROVE Len(mounts'[g]) <= 1
    <3>1. CASE g = f
      <4>1. Len(mounts'[g]) = 1
        BY <1>2, <3>1
      <4> QED
        BY <4>1
    <3>2. CASE g # f
      BY <1>2, <3>2 DEF Inv, OneEach
    <3> QED
      BY <3>1, <3>2
  <2> QED
    BY <2>1 DEF OneEach
<1>10. StartOK'
  BY <1>0, <1>3, <1>4, <1>5 DEF StartOK, Busy
<1>11. OwnOK'
  BY <1>0, <1>2, <1>4, <1>5, <1>6 DEF OwnOK, MountedAt, Top, Busy
<1>12. LiveOK'
  <2>1. ASSUME NEW g \in Folders \ {f}, MountedAt(g), Top(g).live PROVE Top(g).phone # s.phone
    BY <1>1, <1>4, <2>1 DEF Inv, LiveOK
  <2> QED
    BY <1>0, <1>1, <1>2, <1>4, <1>5, <1>6, <2>1 DEF Inv, LiveOK, MountedAt, Top, Busy
<1>13. StateOK' /\ DevdOK'
  <2>1. ASSUME NEW q \in Phones \ astray, state[q] # None PROVE state[q] \in Folders \ {f}
    BY <1>0, <1>1, <2>1 DEF Inv, StateOK, TypeOK, MountedAt
  <2>2. StateOK'
    BY <1>0, <1>2, <2>1 DEF Inv, StateOK, MountedAt, Top, Waiting
  <2>3. devd.pc # "none" /\ devd.phone \notin astray /\ devd.point # None => devd.point \in Folders \ {f}
    BY <1>0, <1>1 DEF Inv, DevdOK, TypeOK, Detaches, MountedAt
  <2>4. DevdOK'
    BY <1>0, <1>2, <2>3 DEF Inv, DevdOK, MountedAt, Top
  <2> QED
    BY <2>2, <2>4
<1>14. DeadOK'
  BY <1>0, <1>2, <1>6 DEF Inv, DeadOK, MountedAt, Top, Waiting
<1> QED
  BY <1>7, <1>8, <1>9, <1>10, <1>11, <1>12, <1>13, <1>14 DEF Rest

LEMMA FailsRest == ASSUME Inv, NEW s \in starting, MountFails(s) PROVE Rest'
<1>0. UNCHANGED <<bus, events, devd, att, lock, state, mounts, astray>> /\ starting' \subseteq starting
  BY DEF MountFails, files
<1>1. AloneOK'
  <2>1. ASSUME NEW q \in Phones, Attaching(q)' PROVE Attaching(q)
    BY <1>0, <2>1 DEF Attaching
  <2> QED
    BY <2>1, FewerAlone DEF Inv
<1>2. QueueOK' /\ NodeOK' /\ LockOK' /\ OneEach' /\ DevdOK' /\ DeadOK'
  BY <1>0 DEF Inv, QueueOK, Waiting, NodeOK, LockOK, Busy, OneEach, DevdOK, DeadOK, MountedAt, Top
<1>3. StartOK' /\ OwnOK' /\ LiveOK' /\ StateOK'
  BY <1>0 DEF Inv, StartOK, OwnOK, LiveOK, StateOK, MountedAt, Top, Waiting
<1> QED
  BY <1>1, <1>2, <1>3 DEF Rest

LEMMA EjectRest == ASSUME Inv, NEW f \in Folders, Eject(f) PROVE Rest'
<1>0. UNCHANGED <<bus, events, devd, att, lock, state, starting>> /\ devd.pc = "none" /\ MountedAt(f)
  BY DEF Eject, files
<1>1. mounts' = [mounts EXCEPT ![f] = Front(mounts[f])] /\ astray' = astray \cup {Top(f).phone}
  BY DEF Eject
<1>2. mounts'[f] = <<>> /\ \A g \in Folders \ {f} : mounts'[g] = mounts[g]
  BY <1>0, <1>1, UnmountIs
<1>3. AloneOK' /\ NodeOK' /\ LockOK' /\ OneEach' /\ StartOK' /\ OwnOK' /\ LiveOK'
  BY <1>0, <1>1, UnmountKeeps
<1>4. QueueOK' /\ DevdOK'
  BY <1>0 DEF Inv, QueueOK, DevdOK, Waiting
<1>5. StateOK'
  BY <1>0, <1>1, <1>2 DEF Inv, StateOK, TypeOK, MountedAt, Top, Waiting
<1>6. DeadOK'
  BY <1>0, <1>1, <1>2 DEF Inv, DeadOK, MountedAt, Top, Waiting
<1> QED
  BY <1>3, <1>4, <1>5, <1>6 DEF Rest

-----------------------------------------------------------------------------
(* The invariant, and what it gives.                                       *)

LEMMA StepInv == ASSUME Calm, Inv, [Next]_vars PROVE Inv'
<1>1. Kinds'
  BY StepKinds DEF Inv, Kinds
<1>2. CASE UNCHANGED vars
  <2>1. AloneOK'
    <3>1. ASSUME NEW q \in Phones, Attaching(q)' PROVE Attaching(q)
      BY <1>2, <3>1 DEF Attaching, vars
    <3> QED
      BY <3>1, FewerAlone DEF Inv
  <2>2. Rest'
    BY <1>2, <2>1 DEF vars, Inv, Rest, QueueOK, NodeOK, LockOK, OneEach, StartOK, OwnOK, LiveOK, StateOK,
       DeadOK, DevdOK, Waiting, Busy, MountedAt, Top
  <2> QED
    BY <1>1, <2>2 DEF Inv, Kinds, Rest
<1>3. CASE Next
  <2>1. ASSUME NEW h \in Helpers, AttachStep(h) PROVE Rest'
    BY <2>1, LockRest, CheckRest, NameRest, FindRest, StartRest, WaitRest, WriteRest DEF AttachStep
  <2>2. ASSUME DevdStep PROVE Rest'
    BY <2>2, DevdAttachRest, DetachReadRest, DetachFindRest, DetachUmountRest DEF DevdStep
  <2>3. ASSUME MtpfsStep PROVE Rest'
    BY <2>3, AppearsRest, FailsRest DEF MtpfsStep
  <2>4. Rest'
    BY <1>3, <2>1, <2>2, <2>3, JoinRest, LeaveRest, EjectRest DEF Next
  <2> QED
    BY <1>1, <2>4 DEF Inv, Kinds, Rest
<1> QED
  BY <1>2, <1>3

LEMMA InitInv == Init => Inv
<1> SUFFICES ASSUME Init PROVE Inv
  OBVIOUS
<1>1. Kinds
  BY InitKinds
<1>2. \A h \in Helpers : att[h].pc = "none"
  BY Nothing DEF Init
<1>3. Rest
  BY <1>2, Nothing, NoneAssumption DEF Init, Rest, QueueOK, AloneOK, Attaching, NodeOK, LockOK, OneEach, StartOK, OwnOK,
     LiveOK, StateOK, DeadOK, DevdOK, Waiting, Busy, MountedAt
<1> QED
  BY <1>1, <1>3 DEF Inv, Kinds, Rest

LEMMA AlwaysInv == ASSUME Calm PROVE Spec => []Inv
<1>1. Inv /\ [Next]_vars => Inv'
  BY StepInv
<1> QED
  BY <1>1, InitInv, PTL DEF Spec

\* "The second cellphone must not take the folder of the first one": no folder
\* has two mounts, and no cellphone two that answer.
THEOREM NoFolderShared == ASSUME Calm PROVE Spec => []OneMountEach
<1>1. ASSUME Inv PROVE OneMountEach
  <2>1. ASSUME NEW f \in Folders, NEW g \in Folders, MountedAt(f), MountedAt(g), Top(f).live, Top(g).live,
               Top(f).phone = Top(g).phone
        PROVE  f = g
    BY <1>1, <2>1 DEF Inv, LiveOK
  <2> QED
    BY <1>1, <2>1 DEF Inv, OneEach, OneMountEach
<1> QED
  BY <1>1, AlwaysInv, PTL

\* The state file of a cellphone that did not go astray never names the mount
\* of another one.
THEOREM StateFilesOwn == ASSUME Calm PROVE Spec => []StateNamesOwn
<1>1. Inv => StateNamesOwn
  BY DEF Inv, StateOK, StateNamesOwn
<1> QED
  BY <1>1, AlwaysInv, PTL

\* A detach leaves the mounts alone that answer.
THEOREM DetachSparesLive == ASSUME Calm PROVE Spec => LiveStays
<1>1. Inv => (Unmounts => ~Top(devd.point).live \/ devd.phone \in astray)
  BY NoneAssumption DEF Inv, ShapeOK, DevdOK, Unmounts
<1>2. Inv /\ [Next]_vars => [Unmounts => ~Top(devd.point).live \/ devd.phone \in astray]_vars
  BY <1>1
<1> QED
  BY <1>2, AlwaysInv, PTL DEF Spec, LiveStays

\* When all is quiet, no mount of a cellphone that left is still there.
THEOREM DeadMountsGo == ASSUME Calm PROVE Spec => []DeadGoes
<1>1. Inv => DeadGoes
  BY DEF Inv, DeadOK, DeadGoes, DevdIsIdle, Waiting
<1> QED
  BY <1>1, AlwaysInv, PTL

=============================================================================
