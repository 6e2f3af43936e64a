---------------------------- MODULE MtpFs_proofs ----------------------------
(***************************************************************************)
(* What TLAPS proves of the write path for every set of folders, names,    *)
(* versions and open files, every bound and every set of faults.  Inv is   *)
(* the types; WriterInv says who owns a spool file; HandleInv and NamesInv *)
(* say that the handles the mount remembers are of objects that have the   *)
(* names it remembers.  MtpFsSafety_proofs builds on all four.             *)
(***************************************************************************)
EXTENDS MtpFs, TLAPS

SendPCs == {"aside", "delfirst", "announce", "data", "delold", "putback"}

\* What the step a callback does next relies on: send_pending has its
\* Pending and its open file, SendObject has its announced object, and
\* op_rename has the object it moves.
CallbackOK == ~Idle =>
    /\ cb.pc \in SendPCs =>
         /\ cb.op # "rename"
         /\ pending[cb.path] # None
         /\ cb.op \in {"flush", "release"} => cb.fd \in FDs /\ fds[cb.fd] # None
    /\ cb.pc = "data" => cb.h \in Handles /\ objs[cb.h] # None
    /\ cb.pc \notin SendPCs => cb.h \in Handles

Inv == TypeOK /\ CallbackOK

Listings == [Dirs -> (SUBSET Handles) \cup {None}]
EntryMaps == [Handles -> Entries \cup {None}]

-----------------------------------------------------------------------------
(* The helpers have their types.                                           *)

\* A contents cut to a length that it has is a contents.
LEMMA CutType ==
    ASSUME NEW x \in Data, NEW n \in 0..x.len
    PROVE  Cut(x, n) \in Data
BY BoundsAssumption DEF Cut, Data, NoBytes

\* A change through a Pending leaves contents.
LEMMA ChangedType ==
    ASSUME NEW q, NEW n \in 0..MaxLen, NEW x \in Changed(q, n)
    PROVE  x \in Data
BY BoundsAssumption DEF Changed, Data

\* The tree that set_children leaves is a tree.
LEMMA SeenType ==
    ASSUME TypeOK, NEW e \in EntryMaps, NEW d \in Dirs
    PROVE  Seen(e, d) \in EntryMaps /\ Listed(d) \in SUBSET Handles
<1>1. Listed(d) \in SUBSET Handles
  BY DEF Listed
<1>2. ASSUME NEW h \in Listed(d)
      PROVE  [dir |-> d, name |-> objs[h].name, aside |-> objs[h].aside,
              size |-> objs[h].data.len] \in Entries
  BY <1>2, BoundsAssumption DEF Listed, TypeOK, Objects, Data, NoBytes, Entries
<1> QED
  BY <1>1, <1>2 DEF Seen, EntryMaps

\* resolve gives no handle, or a handle that the tree it leaves knows.
LEMMA ResolveType ==
    ASSUME TypeOK, NEW l \in Listings, NEW e \in EntryMaps, NEW p \in Paths,
           NEW r \in Resolve(l, e, p)
    PROVE  /\ r.listing \in Listings /\ r.entry \in EntryMaps
           /\ r.h = NoHandle \/ (r.h \in Handles /\ r.entry[r.h] # None)
<1>1. p.dir \in Dirs
  BY DEF Paths
<1>2. ASSUME NEW m \in Listings, NEW f \in EntryMaps, m[p.dir] \in SUBSET Handles,
             NEW x \in Matches(m, f, p)
      PROVE  x = NoHandle \/ (x \in Handles /\ f[x] # None)
  BY <1>2 DEF Matches, Named
<1>3. CASE l[p.dir] # None
  <2>1. l[p.dir] \in SUBSET Handles
    BY <1>1, <1>3 DEF Listings
  <2> QED
    BY <1>2, <1>3, <2>1 DEF Resolve
<1>4. CASE l[p.dir] = None
  <2> DEFINE l2 == [l EXCEPT ![p.dir] = Listed(p.dir)]
             e2 == Seen(e, p.dir)
  <2>1. e2 \in EntryMaps /\ Listed(p.dir) \in SUBSET Handles
    BY <1>1, SeenType
  <2>2. l2 \in Listings /\ l2[p.dir] = Listed(p.dir)
    BY <1>1, <2>1 DEF Listings
  <2>3. \A x \in Matches(l2, e2, p) : x = NoHandle \/ (x \in Handles /\ e2[x] # None)
    BY <1>2, <2>1, <2>2
  <2>4. \/ \E x \in Matches(l2, e2, p) : r = [h |-> x, listing |-> l2, entry |-> e2]
        \/ r = [h |-> NoHandle, listing |-> l, entry |-> e]
    <3> HIDE DEF l2, e2
    <3> QED BY <1>4 DEF Resolve, l2, e2
  <2> HIDE DEF l2, e2
  <2> QED
    BY <2>1, <2>2, <2>3, <2>4
<1> QED
  BY <1>3, <1>4

-----------------------------------------------------------------------------
(* The parts that several actions share.                                   *)

HostOK ==
    /\ pending \in [Paths -> Pendings \cup {None}]
    /\ kept \subseteq SpoolFiles
    /\ fds \in [FDs -> OpenFiles \cup {None}]
    /\ cb \in Callbacks \cup {NotRunning}
    /\ reply \in Replies \cup {NoReply}

\* An answer ends the callback.
LEMMA AnswerType ==
    ASSUME NEW op \in Ops, NEW p \in Paths, NEW fd \in FDs \cup {None}, NEW rc \in Codes,
           Answer(op, p, fd, rc)
    PROVE  cb' = NotRunning /\ reply' \in Replies \cup {NoReply}
BY DEF Answer, Replies, NoReply, Handles, NoHandle

\* The end of send_pending leaves the host in order.
LEMMA FinishType ==
    ASSUME TypeOK,
           NEW op \in {"flush", "release", "truncate"}, NEW fd \in FDs \cup {None},
           NEW p \in Paths, NEW q \in Pendings, NEW rc \in Codes,
           op \in {"flush", "release"} => fd \in FDs /\ fds[fd] # None,
           Finish(op, fd, p, q, rc)
    PROVE  HostOK' /\ cb' = NotRunning
<1>1. cb' = NotRunning /\ reply' \in Replies \cup {NoReply}
  BY AnswerType DEF Finish, Ops, Codes
<1>2. [q EXCEPT !.sent = rc] \in Pendings
  BY DEF Pendings
<1>3. pending' \in [Paths -> Pendings \cup {None}]
  BY <1>2 DEF Finish, TypeOK
<1>4. Dropped(p, q) \subseteq SpoolFiles
  BY DEF Dropped, SpoolFiles, Pendings
<1>5. kept' \subseteq SpoolFiles
  BY <1>4 DEF Finish, TypeOK
<1>6. fds' \in [FDs -> OpenFiles \cup {None}]
  <2>1. CASE op = "flush"
    <3>1. fds[fd] \in OpenFiles /\ fd \in FDs
      BY <2>1 DEF TypeOK
    <3>2. [fds[fd] EXCEPT !.flushed = TRUE] \in OpenFiles
      BY <3>1 DEF OpenFiles
    <3>3. fds' = [fds EXCEPT ![fd] = [fds[fd] EXCEPT !.flushed = TRUE]]
      BY <2>1 DEF Finish
    <3> QED
      BY <3>1, <3>2, <3>3 DEF TypeOK
  <2>2. CASE op = "release"
    BY <2>2 DEF Finish, TypeOK
  <2>3. CASE op = "truncate"
    BY <2>3 DEF Finish, TypeOK
  <2> QED
    BY <2>1, <2>2, <2>3
<1> QED
  BY <1>1, <1>3, <1>5, <1>6 DEF HostOK

\* The start of send_pending leaves the host in order, and a step to do.
LEMMA SendStartType ==
    ASSUME TypeOK,
           NEW op \in {"flush", "release", "truncate"}, NEW fd \in FDs \cup {None},
           NEW p \in Paths, NEW q \in Pendings, NEW size,
           op \in {"flush", "release"} => fd \in FDs /\ fds[fd] # None,
           SendStart(op, fd, p, q, size)
    PROVE  HostOK' /\ CallbackOK'
<1>1. ASSUME NEW rc \in {"ENOSPC", "EIO"}, Finish(op, fd, p, q, rc)
      PROVE  HostOK' /\ CallbackOK'
  BY <1>1, FinishType DEF CallbackOK, Idle, NotRunning, Codes
<1>2. ASSUME NEW pc \in {"announce", "aside", "delfirst"},
             pending' = [pending EXCEPT ![p] = q],
             Running(op, fd, p, p, pc, NoHandle, NoHandle),
             UNCHANGED <<kept, fds>>
      PROVE  HostOK' /\ CallbackOK'
  <2>1. cb' = [pc |-> pc, op |-> op, fd |-> fd, path |-> p, to |-> p,
               h |-> NoHandle, old |-> NoHandle, gone |-> FALSE]
        /\ reply' = NoReply
    BY <1>2 DEF Running
  <2>2. cb' \in Callbacks
    BY <2>1 DEF Callbacks, PCs
  <2>3. pending' \in [Paths -> Pendings \cup {None}] /\ pending'[p] = q
    BY <1>2 DEF TypeOK
  <2>4. HostOK'
    BY <1>2, <2>1, <2>2, <2>3 DEF HostOK, TypeOK
  <2>5. CallbackOK'
    BY <1>2, <2>1, <2>3, NoneAssumption DEF CallbackOK, SendPCs
  <2> QED
    BY <2>4, <2>5
<1> QED
  BY <1>1, <1>2 DEF SendStart

\* The rest of the state: the cellphone, the tree and the counters.
DeviceOK ==
    /\ objs \in [Handles -> Objects \cup {None}]
    /\ nextH \in 1..MaxHandle + 1
TreeOK == listing \in Listings /\ entry \in EntryMaps
CountsOK == count \in 0..MaxCount /\ mounts \in 1..MaxMounts \cup {1}
OwedOK == owed \in [Paths -> Data \cup {None}]

\* The type invariant, by the part of the state it is about.
LEMMA Parts == TypeOK <=> DeviceOK /\ TreeOK /\ HostOK /\ CountsOK /\ OwedOK
BY DEF TypeOK, DeviceOK, TreeOK, HostOK, CountsOK, OwedOK, Listings, EntryMaps

\* The parts of the type invariant make it up, in the next state too.
LEMMA PartsPrime == DeviceOK' /\ TreeOK' /\ HostOK' /\ CountsOK' /\ OwedOK' => TypeOK'
BY DEF TypeOK, DeviceOK, TreeOK, HostOK, CountsOK, OwedOK, Listings, EntryMaps

\* No callback runs after an answer.
LEMMA AnsweredOK == cb' = NotRunning => CallbackOK'
BY DEF CallbackOK, Idle, NotRunning

\* A mount starts in a state of the right types, with no callback running.
LEMMA InitInv == Init => Inv
<1> SUFFICES ASSUME Init PROVE Inv
  OBVIOUS
<1>1. DeviceOK
  <2>1. [dir: Dirs, name: Names, aside: {0}, data: [ver: Vers, len: 1..MaxLen]] \subseteq Objects
    BY BoundsAssumption DEF Objects, Data
  <2> QED
    BY <2>1 DEF Init, DeviceOK
<1>2. TreeOK /\ HostOK /\ OwedOK
  BY DEF Init, TreeOK, HostOK, OwedOK, Listings, EntryMaps
<1>3. CountsOK
  BY BoundsAssumption DEF Init, CountsOK
<1>4. CallbackOK
  BY DEF Init, CallbackOK, Idle, NotRunning
<1> QED
  BY <1>1, <1>2, <1>3, <1>4, Parts DEF Inv

\* getattr and readdir
LEMMA LookInv ==
    ASSUME Inv, \/ \E p \in Paths : OpGetattr(p)
                \/ \E d \in Dirs : OpReaddir(d)
    PROVE  Inv'
<1>1. UNCHANGED <<device, host, fds, cb, reply, owed, mounts>>
  BY DEF OpGetattr, OpReaddir
<1>2. TreeOK'
  <2>1. CASE \E p \in Paths : OpGetattr(p)
    BY <2>1, ResolveType, Parts DEF OpGetattr, Inv, TreeOK
  <2>2. CASE \E d \in Dirs : OpReaddir(d)
    BY <2>2, SeenType, Parts DEF OpReaddir, Inv, TreeOK, Listings
  <2> QED
    BY <2>1, <2>2
<1>3. TypeOK'
  BY <1>1, <1>2, Parts, PartsPrime DEF Inv, device, host, DeviceOK, HostOK, CountsOK, OwedOK
<1>4. CallbackOK'
  BY <1>1 DEF Inv, CallbackOK, Idle, device, host
<1> QED
  BY <1>3, <1>4 DEF Inv

\* What adopt_for_write can give.
LEMMA AdoptedType ==
    ASSUME TypeOK, NEW h \in Handles, NEW size, NEW k, NEW a \in Adopted(h, size, k)
    PROVE  a.rc \in Codes /\ a.data \in Data
<1>1. NoBytes \in Data
  BY DEF Data
<1>2. \A x \in Copies(h, size) : x \in Data
  BY CutType DEF Copies, TypeOK, Objects
<1>3. \/ \E x \in Copies(h, size) \cup {NoBytes} : a = [rc |-> "OK", data |-> x, stray |-> FALSE]
      \/ a = [rc |-> "EIO", data |-> NoBytes, stray |-> FALSE]
      \/ a = [rc |-> "ENOSPC", data |-> NoBytes, stray |-> FALSE]
      \/ a = [rc |-> "EIO", data |-> NoBytes, stray |-> TRUE]
  <2> DEFINE copy == k /\ size > 0
  <2> HIDE DEF copy
  <2>1. \/ a \in {[rc |-> "OK", data |-> x, stray |-> FALSE] :
                     x \in IF copy THEN Copies(h, size) ELSE {NoBytes}}
        \/ a \in (IF "spool" \in Faults
                   THEN {[rc |-> "EIO", data |-> NoBytes, stray |-> FALSE]}
                        \cup (IF copy THEN {[rc |-> "ENOSPC", data |-> NoBytes, stray |-> FALSE]}
                              ELSE {})
                   ELSE {})
        \/ a \in (IF copy /\ (objs[h] = None \/ "copy" \in Faults)
                   THEN {[rc |-> "EIO", data |-> NoBytes, stray |-> TRUE]} ELSE {})
    BY Zenon DEF Adopted, copy
  <2> QED
    BY <2>1, Zenon
<1> QED
  BY <1>1, <1>2, <1>3 DEF Codes

\* A Pending that op_open or op_create makes has the type of one.
LEMMA NewPendingType ==
    ASSUME NEW x \in Data, NEW h \in Handles \cup {NoHandle}
    PROVE  NewPending(x, h) \in Pendings
BY DEF NewPending, Pendings

\* A spool file left on disk has the type of one.
LEMMA StrayType ==
    ASSUME TypeOK, NEW p \in Paths, NEW a, a.data \in Data
    PROVE  Stray(p, a) \subseteq SpoolFiles
BY DEF Stray, SpoolFiles, TypeOK

\* The table of open files that op_open leaves has its type.
LEMMA OpenedType ==
    ASSUME NEW p \in Paths, NEW w \in BOOLEAN
    PROVE  Opened(p, w) \in OpenFiles
BY DEF Opened, OpenFiles

\* op_open keeps the invariant.
LEMMA OpenInv ==
    ASSUME Inv, NEW fd \in FDs, NEW p \in Paths, NEW w \in BOOLEAN, NEW trunc \in BOOLEAN,
           OpOpen(fd, p, w, trunc)
    PROVE  Inv'
<1> USE DEF Inv
<1>0. PICK r \in Resolve(listing, entry, p) : OpOpen(fd, p, w, trunc)!4!(r)
  BY DEF OpOpen
<1>1. TreeOK' /\ (r.h = NoHandle \/ (r.h \in Handles /\ r.entry[r.h] # None))
  BY <1>0, ResolveType, Parts DEF TreeOK
<1>2. DeviceOK' /\ OwedOK' /\ mounts' = mounts
  BY Parts DEF OpOpen, device, DeviceOK, OwedOK
<1>3. HostOK' /\ CountsOK' /\ cb' = NotRunning
  <2>1. CASE r.h = NoHandle /\ Answer("open", p, fd, "ENOENT") /\ UNCHANGED <<host, fds>>
    BY <2>1, <1>2, AnswerType, Parts DEF HostOK, CountsOK, host, Ops, Codes
  <2>2. CASE /\ fds' = [fds EXCEPT ![fd] = Opened(p, w)]
             /\ Answer("open", p, fd, "OK")
             /\ UNCHANGED host
    BY <2>2, <1>2, AnswerType, OpenedType, Parts DEF HostOK, CountsOK, host, Ops, Codes
  <2>3. ASSUME r.h # NoHandle,
               NEW a \in Adopted(r.h, r.entry[r.h].size, ~trunc),
               count' = count + 1,
               kept' = Stray(p, a),
               IF a.rc = "OK"
               THEN /\ pending' = [pending EXCEPT ![p] = NewPending(a.data, r.h)]
                    /\ fds' = [fds EXCEPT ![fd] = Opened(p, TRUE)]
               ELSE UNCHANGED <<pending, fds>>,
               Answer("open", p, fd, a.rc)
        PROVE  HostOK' /\ CountsOK' /\ cb' = NotRunning
    <3>1. r.h \in Handles
      BY <2>3, <1>1
    <3>2. a.rc \in Codes /\ a.data \in Data
      BY <2>3, <3>1, AdoptedType
    <3>3. NewPending(a.data, r.h) \in Pendings /\ Opened(p, TRUE) \in OpenFiles
      BY <3>1, <3>2, NewPendingType, OpenedType
    <3>4. kept' \subseteq SpoolFiles
      BY <2>3, <3>2, StrayType
    <3>5. cb' = NotRunning /\ reply' \in Replies \cup {NoReply}
      BY <2>3, <3>2, AnswerType DEF Ops
    <3>6. pending' \in [Paths -> Pendings \cup {None}] /\ fds' \in [FDs -> OpenFiles \cup {None}]
      BY <2>3, <3>3 DEF TypeOK
    <3>7. count' \in 0..MaxCount
      BY <2>3, BoundsAssumption DEF TypeOK, OpOpen
    <3> QED
      BY <1>2, <3>4, <3>5, <3>6, <3>7 DEF HostOK, CountsOK, TypeOK
  <2> QED
    BY <1>0, <2>1, <2>2, <2>3
<1> QED
  BY <1>1, <1>2, <1>3, AnsweredOK, PartsPrime

\* op_create keeps the invariant.
LEMMA CreateInv ==
    ASSUME Inv, NEW fd \in FDs, NEW p \in Paths, OpCreate(fd, p)
    PROVE  Inv'
<1> USE DEF Inv
<1>1. TreeOK'
  BY ResolveType, Parts DEF OpCreate, TreeOK
<1>2. DeviceOK' /\ OwedOK' /\ mounts' = mounts /\ kept' = kept
  BY Parts DEF OpCreate, device, DeviceOK, OwedOK
<1>3. CountsOK'
  BY <1>2, BoundsAssumption DEF OpCreate, CountsOK, TypeOK
<1>4. NewPending(NoBytes, NoHandle) \in Pendings /\ Opened(p, TRUE) \in OpenFiles
  BY NewPendingType, OpenedType DEF Data
<1>5. cb' = NotRunning /\ reply' \in Replies \cup {NoReply}
  BY AnswerType DEF OpCreate, Ops, Codes
<1>6. HostOK'
  BY <1>2, <1>4, <1>5, ZenonT(100) DEF HostOK, TypeOK, OpCreate
<1> QED
  BY <1>1, <1>2, <1>3, <1>5, <1>6, AnsweredOK, PartsPrime

\* What a change of a spool file can disturb.
SpoolOK ==
    /\ pending \in [Paths -> Pendings \cup {None}]
    /\ fds \in [FDs -> OpenFiles \cup {None}]
    /\ OwedOK

\* A change of a spool file that a program was told of.
LEMMA AcceptedType ==
    ASSUME TypeOK, NEW p \in Paths, pending[p] # None, NEW x \in Data, Accepted(p, x)
    PROVE  SpoolOK'
<1>1. pending[p] \in Pendings
  BY DEF TypeOK
<1>2. [pending[p] EXCEPT !.data = x] \in Pendings
  BY <1>1 DEF Pendings
<1>3. pending' = [pending EXCEPT ![p] = [pending[p] EXCEPT !.data = x]]
  BY DEF Accepted
<1>4. ASSUME NEW f \in Writes(p)
      PROVE  [fds[f] EXCEPT !.wrote = x] \in OpenFiles
  BY <1>4 DEF Writes, TypeOK, OpenFiles
<1> QED
  BY <1>2, <1>3, <1>4 DEF Accepted, TypeOK, OwedOK, SpoolOK

\* What a write that breaks off leaves in a spool file.
LEMMA TornData ==
    ASSUME NEW d \in Data, MaxLen > 0
    PROVE  [ver |-> Torn, len |-> IF d.len = 0 THEN 1 ELSE d.len] \in Data
<1>1. (IF d.len = 0 THEN 1 ELSE d.len) \in 1..MaxLen
  BY BoundsAssumption DEF Data, NoBytes
<1> HIDE DEF Data
<1> QED
  BY <1>1 DEF Data

\* op_write keeps the invariant.
LEMMA WriteInv ==
    ASSUME Inv, NEW fd \in FDs, OpWrite(fd)
    PROVE  Inv'
<1> USE DEF Inv
<1> DEFINE p == fds[fd].path
<1>1. p \in Paths /\ fds[fd] \in OpenFiles
  BY DEF OpWrite, TypeOK, OpenFiles
<1>2. DeviceOK' /\ TreeOK' /\ CountsOK' /\ kept' = kept
  BY Parts DEF OpWrite, device, tree, DeviceOK, TreeOK, CountsOK
<1>3. cb' = NotRunning /\ reply' \in Replies \cup {NoReply}
  <2>1. \E rc \in {"EROFS", "OK", "ENOSPC"} : Answer("write", p, fd, rc)
    BY Zenon DEF OpWrite
  <2>2. "write" \in Ops /\ {"EROFS", "OK", "ENOSPC"} \subseteq Codes
    BY DEF Ops, Codes
  <2> QED
    BY <1>1, <2>1, <2>2, AnswerType
<1>4. SpoolOK'
  <2>1. CASE UNCHANGED <<pending, fds, owed>>
    BY <2>1 DEF TypeOK, OwedOK, SpoolOK
  <2>2. ASSUME pending[p] # None,
               NEW n \in {m \in 1..MaxLen : m >= pending[p].data.len},
               NEW x \in Changed(pending[p], n), Accepted(p, x)
        PROVE  SpoolOK'
    <3>1. x \in Data
      BY ChangedType, BoundsAssumption, SMTT(60)
    <3> QED
      BY <1>1, <2>2, <3>1, AcceptedType
  <2>3. ASSUME pending[p] # None, MaxLen > 0, NEW x,
               x = [ver |-> Torn, len |-> IF pending[p].data.len = 0 THEN 1 ELSE pending[p].data.len],
               pending' = [pending EXCEPT ![p].data = x, ![p].broken = TRUE],
               owed' = IF pending[p].keep THEN [owed EXCEPT ![p] = x] ELSE owed,
               UNCHANGED fds
        PROVE  SpoolOK'
    <3>1. pending[p] \in Pendings /\ pending[p].data \in Data
      BY <1>1, <2>3 DEF TypeOK, Pendings
    <3>2. x \in Data
      BY <3>1, <2>3, TornData, Zenon
    <3>3. [[pending[p] EXCEPT !.data = x] EXCEPT !.broken = TRUE] \in Pendings
      BY <3>1, <3>2 DEF Pendings
    <3>4. pending' = [pending EXCEPT ![p] = [[pending[p] EXCEPT !.data = x] EXCEPT !.broken = TRUE]]
      BY <2>3, <1>1 DEF TypeOK
    <3> QED
      <4>1. pending' \in [Paths -> Pendings \cup {None}]
        BY <1>1, <3>3, <3>4, Zenon DEF TypeOK
      <4>2. owed' = owed \/ owed' = [owed EXCEPT ![p] = x]
        BY <2>3
      <4>3. OwedOK'
        <5>1. OwedOK
          BY Parts
        <5> QED
          BY <1>1, <3>2, <4>2, <5>1, Zenon DEF OwedOK
      <4>4. fds' = fds
        BY <2>3
      <4> QED
        BY <4>1, <4>3, <4>4 DEF TypeOK, SpoolOK
  <2> QED
    BY <2>1, <2>2, <2>3 DEF OpWrite
<1> QED
  BY <1>2, <1>3, <1>4, AnsweredOK, PartsPrime, Parts DEF HostOK, SpoolOK

\* op_flush keeps the invariant, whether or not a send starts.
LEMMA FlushInv ==
    ASSUME Inv, NEW fd \in FDs, OpFlush(fd)
    PROVE  Inv'
<1> USE DEF Inv
<1> DEFINE p == fds[fd].path
<1>1. p \in Paths /\ fds[fd] \in OpenFiles /\ fds[fd] # None
  BY DEF OpFlush, TypeOK, OpenFiles
<1>2. DeviceOK' /\ TreeOK' /\ CountsOK' /\ OwedOK'
  BY Parts DEF OpFlush, device, tree, DeviceOK, TreeOK, CountsOK, OwedOK
<1>3. HostOK' /\ CallbackOK'
  <2>1. ASSUME NEW rc \in Codes, Answer("flush", p, fd, rc),
               fds' = [fds EXCEPT ![fd].flushed = TRUE], UNCHANGED <<pending, kept>>
        PROVE  HostOK' /\ CallbackOK'
    <3>1. cb' = NotRunning /\ reply' \in Replies \cup {NoReply}
      BY <1>1, <2>1, AnswerType DEF Ops
    <3>2. [fds[fd] EXCEPT !.flushed = TRUE] \in OpenFiles
      BY <1>1 DEF OpenFiles
    <3>3. fds' \in [FDs -> OpenFiles \cup {None}]
      BY <2>1, <3>2 DEF TypeOK
    <3> QED
      BY <2>1, <3>1, <3>3, AnsweredOK DEF HostOK, TypeOK
  <2>2. ASSUME pending[p] # None,
               SendStart("flush", fd, p, pending[p], SizeIn(entry, pending[p].replaces))
        PROVE  HostOK' /\ CallbackOK'
    <3>1. pending[p] \in Pendings
      BY <1>1, <2>2 DEF TypeOK
    <3> HIDE DEF p, Inv
    <3> QED
      BY <1>1, <2>2, <3>1, SendStartType DEF Inv
  <2>3. pending[p] # None /\ pending[p].sent # NotSent => pending[p].sent \in Codes
    BY <1>1 DEF TypeOK, Pendings
  <2> QED
    BY <2>1, <2>2, <2>3 DEF OpFlush, Codes, Answered
<1> QED
  BY <1>2, <1>3, PartsPrime

\* op_release keeps the invariant, whether or not a send starts.
LEMMA ReleaseInv ==
    ASSUME Inv, NEW fd \in FDs, OpRelease(fd)
    PROVE  Inv'
<1> USE DEF Inv
<1> DEFINE p == fds[fd].path
<1>1. p \in Paths /\ fds[fd] \in OpenFiles /\ fds[fd] # None
  BY DEF OpRelease, TypeOK, OpenFiles
<1>2. DeviceOK' /\ TreeOK' /\ CountsOK' /\ OwedOK'
  BY Parts DEF OpRelease, device, tree, DeviceOK, TreeOK, CountsOK, OwedOK
<1>3. HostOK' /\ CallbackOK'
  <2>1. ASSUME Answer("release", p, fd, "OK"),
               fds' = [fds EXCEPT ![fd] = None], UNCHANGED <<pending, kept>>
        PROVE  HostOK' /\ CallbackOK'
    <3>1. cb' = NotRunning /\ reply' \in Replies \cup {NoReply}
      BY <1>1, <2>1, AnswerType DEF Ops, Codes
    <3> QED
      BY <2>1, <3>1, AnsweredOK DEF HostOK, TypeOK
  <2>2. pending[p] # None => pending[p] \in Pendings
    BY <1>1 DEF TypeOK
  <2>3. ASSUME pending[p] # None, Finish("release", fd, p, pending[p], "OK")
        PROVE  HostOK' /\ CallbackOK'
    <3> HIDE DEF p, Inv
    <3> QED
      BY <1>1, <2>2, <2>3, FinishType, AnsweredOK DEF Inv, Codes
  <2>4. ASSUME pending[p] # None,
               SendStart("release", fd, p, pending[p], SizeIn(entry, pending[p].replaces))
        PROVE  HostOK' /\ CallbackOK'
    <3> HIDE DEF p, Inv
    <3> QED
      BY <1>1, <2>2, <2>4, SendStartType DEF Inv
  <2> QED
    BY <2>1, <2>3, <2>4 DEF OpRelease, Answered
<1> QED
  BY <1>2, <1>3, PartsPrime

\* op_truncate on a file that is open keeps the invariant.
LEMMA TruncateSpoolInv ==
    ASSUME Inv, NEW p \in Paths, NEW n \in 0..MaxLen, OpTruncateSpool(p, n)
    PROVE  Inv'
<1> USE DEF Inv
<1>1. DeviceOK' /\ TreeOK' /\ CountsOK' /\ kept' = kept
  BY Parts DEF OpTruncateSpool, device, tree, DeviceOK, TreeOK, CountsOK
<1>2. cb' = NotRunning /\ reply' \in Replies \cup {NoReply}
  BY AnswerType DEF OpTruncateSpool, Ops, Codes
<1>3. pending[p] # None /\ pending[p] \in Pendings /\ pending[p].data \in Data
  BY DEF OpTruncateSpool, TypeOK, Pendings
<1>4. SpoolOK'
  <2>1. CASE UNCHANGED <<pending, fds, owed>>
    BY <2>1 DEF TypeOK, OwedOK, SpoolOK
  <2>2. CASE n <= pending[p].data.len /\ Accepted(p, Cut(pending[p].data, n))
    <3>1. pending[p].data.len \in 0..MaxLen
      BY <1>3, BoundsAssumption DEF Data, NoBytes
    <3>2. n \in 0..pending[p].data.len
      BY <2>2, <3>1, BoundsAssumption
    <3>3. Cut(pending[p].data, n) \in Data
      BY <1>3, <3>2, CutType
    <3> QED
      BY <1>3, <2>2, <3>3, AcceptedType
  <2>3. CASE \E x \in Changed(pending[p], n) : Accepted(p, x)
    BY <1>3, <2>3, ChangedType, AcceptedType
  <2> QED
    BY <2>1, <2>2, <2>3 DEF OpTruncateSpool
<1> QED
  BY <1>1, <1>2, <1>4, AnsweredOK, PartsPrime, Parts DEF HostOK, SpoolOK

\* op_truncate on a file that is not open keeps the invariant.
LEMMA TruncateInv ==
    ASSUME Inv, NEW p \in Paths, NEW n \in 0..MaxLen, OpTruncate(p, n)
    PROVE  Inv'
<1> USE DEF Inv
<1>0. PICK r \in Resolve(listing, entry, p) : OpTruncate(p, n)!2!(r)
  BY DEF OpTruncate
<1>1. TreeOK' /\ (r.h = NoHandle \/ (r.h \in Handles /\ r.entry[r.h] # None))
  BY <1>0, ResolveType, Parts DEF TreeOK
<1>2. DeviceOK' /\ OwedOK' /\ mounts' = mounts
  BY Parts DEF OpTruncate, device, DeviceOK, OwedOK
<1>3. CountsOK'
  BY <1>0, <1>2, BoundsAssumption DEF OpTruncate, CountsOK, TypeOK, host
<1>4. HostOK' /\ CallbackOK'
  <2>1. CASE Answer("truncate", p, None, "ENOENT") /\ UNCHANGED <<host, fds>>
    BY <2>1, AnswerType, AnsweredOK, Parts DEF HostOK, host, Ops, Codes
  <2>2. ASSUME r.h # NoHandle, NEW a \in Adopted(r.h, r.entry[r.h].size, n > 0),
               OpTruncate(p, n)!2!(r)!2!2!3!(a)
        PROVE  HostOK' /\ CallbackOK'
    <3>1. r.h \in Handles
      BY <1>1, <2>2
    <3>2. a.rc \in Codes /\ a.data \in Data
      BY <3>1, AdoptedType
    <3>3. CASE /\ kept' = Stray(p, a)
               /\ Answer("truncate", p, None, a.rc)
               /\ UNCHANGED <<pending, fds>>
      BY <3>2, <3>3, StrayType, AnswerType, AnsweredOK, Parts DEF HostOK, Ops
    <3>4. CASE /\ pending' = [pending EXCEPT ![p] = NewPending(a.data, r.h)]
               /\ Answer("truncate", p, None, "EIO")
               /\ UNCHANGED <<kept, fds>>
      BY <3>1, <3>2, <3>4, NewPendingType, AnswerType, AnsweredOK, Parts DEF HostOK, Ops, Codes
    <3>5. ASSUME NEW x \in IF n <= a.data.len THEN {Cut(a.data, n)} ELSE [ver: Vers, len: {n}],
                 SendStart("truncate", None, p, NewPending(x, r.h), SizeIn(r.entry, r.h))
          PROVE  HostOK' /\ CallbackOK'
      <4>1. a.data.len \in 0..MaxLen
        BY <3>2, BoundsAssumption DEF Data, NoBytes
      <4>2. CASE n <= a.data.len
        <5>1. n \in 0..a.data.len
          BY <4>1, <4>2, BoundsAssumption
        <5>2. NewPending(x, r.h) \in Pendings
          BY <3>1, <3>2, <3>5, <4>2, <5>1, CutType, NewPendingType
        <5> QED
          BY <3>5, <5>2, SendStartType
      <4>3. CASE ~(n <= a.data.len)
        <5>1. x \in Data
          BY <4>1, <4>3, <3>5, BoundsAssumption DEF Data
        <5>2. NewPending(x, r.h) \in Pendings
          BY <3>1, <5>1, NewPendingType
        <5> QED
          BY <3>5, <5>2, SendStartType
      <4> QED
        BY <4>2, <4>3
    <3> QED
      BY <2>2, <3>3, <3>4, <3>5
  <2> QED
    BY <1>0, <2>1, <2>2
<1> QED
  BY <1>1, <1>2, <1>3, <1>4, PartsPrime

-----------------------------------------------------------------------------
(* The steps of send_pending.                                              *)

ObjMaps == [Handles -> Objects \cup {None}]

\* A step of send_pending runs for a Pending, and for the open file of the
\* callback that called it.
LEMMA SendContext ==
    ASSUME Inv, cb.pc \in SendPCs
    PROVE  /\ cb \in Callbacks /\ cb.path \in Paths
           /\ cb.op \in {"flush", "release", "truncate"} /\ cb.fd \in FDs \cup {None}
           /\ Q \in Pendings /\ Q # None
           /\ cb.op \in {"flush", "release"} => cb.fd \in FDs /\ fds[cb.fd] # None
<1>1. ~Idle /\ cb \in Callbacks
  BY DEF Inv, TypeOK, SendPCs, Idle, NotRunning
<1> QED
  BY <1>1 DEF Inv, TypeOK, CallbackOK, Callbacks, Q

\* An operation that was done was possible.
LEMMA EndsDone ==
    ASSUME NEW kind, NEW can \in BOOLEAN, NEW e \in Ends(kind, can), e.done
    PROVE  can
BY DEF Ends

\* The objects of the cellphone after rename_object are objects.
LEMMA RenamedType ==
    ASSUME TypeOK, NEW h, NEW n \in Names, NEW a \in 0..MaxCount, NEW e \in RenameEnds(h, n, a)
    PROVE  /\ Renamed(h, n, a, e) \in ObjMaps
           /\ \A g \in Handles : Renamed(h, n, a, e)[g] # None <=> objs[g] # None
<1>1. CASE ~e.done
  BY <1>1 DEF Renamed, TypeOK, ObjMaps
<1>2. CASE e.done
  <2>1. h \in Handles /\ objs[h] # None
    BY <1>2, EndsDone DEF RenameEnds
  <2>2. objs[h] \in Objects
    BY <2>1 DEF TypeOK
  <2> DEFINE o == [[objs[h] EXCEPT !.name = n] EXCEPT !.aside = a]
  <2>3. o \in Objects
    BY <2>2 DEF Objects
  <2>4. Renamed(h, n, a, e) = [objs EXCEPT ![h] = o]
    BY <1>2 DEF Renamed
  <2> HIDE DEF o
  <2> QED
    BY <2>1, <2>3, <2>4, NoneAssumption DEF TypeOK, ObjMaps
<1> QED
  BY <1>1, <1>2

\* The objects of the cellphone after delete_object are objects.
LEMMA DeletedType ==
    ASSUME TypeOK, NEW h, NEW e \in DeleteEnds(h)
    PROVE  Deleted(h, e) \in ObjMaps
BY DEF Deleted, TypeOK, ObjMaps

\* A callback that goes to its next step is still a callback.
LEMMA GotoType ==
    ASSUME cb \in Callbacks, NEW pc \in PCs, Goto(pc)
    PROVE  /\ cb' \in Callbacks /\ cb'.pc = pc /\ cb'.op = cb.op /\ cb'.fd = cb.fd
           /\ cb'.path = cb.path /\ cb'.h = cb.h /\ cb'.to = cb.to /\ cb'.old = cb.old
           /\ cb'.gone = cb.gone
BY DEF Goto, Callbacks

\* A step of send_pending that goes on, to a step that needs no new object.
LEMMA GoOnOK ==
    ASSUME Inv, cb.pc \in SendPCs, NEW pc \in SendPCs \ {"data"}, Goto(pc),
           UNCHANGED <<pending, kept, fds, reply>>
    PROVE  HostOK' /\ CallbackOK'
<1>1. cb' \in Callbacks /\ cb'.pc = pc /\ cb'.op = cb.op /\ cb'.fd = cb.fd /\ cb'.path = cb.path
  BY SendContext, GotoType DEF SendPCs, PCs
<1>2. HostOK'
  BY <1>1 DEF HostOK, Inv, TypeOK
<1>3. CallbackOK'
  BY <1>1, SendContext DEF CallbackOK, Q, SendPCs
<1> QED
  BY <1>2, <1>3

\* send_pending moving the old object aside keeps the invariant.
LEMMA SendAsideInv == ASSUME Inv, SendAside PROVE Inv'
<1> USE DEF Inv
<1>0. cb.pc \in SendPCs
  BY DEF SendAside, SendPCs
<1>1. PICK e \in RenameEnds(Q.replaces, cb.path.name, count + 1) : SendAside!3!(e)
  BY DEF SendAside
<1>2. cb.path.name \in Names /\ count + 1 \in 0..MaxCount
  BY <1>0, SendContext, BoundsAssumption DEF SendAside, TypeOK, Paths
<1>3. DeviceOK'
  BY <1>1, <1>2, RenamedType, Parts DEF SendAside, DeviceOK, ObjMaps
<1>4. CountsOK' /\ TreeOK' /\ OwedOK'
  BY <1>2, Parts DEF SendAside, CountsOK, TreeOK, OwedOK, tree
<1>5. HostOK' /\ CallbackOK'
  <2>1. CASE e.told
    BY <1>0, <1>1, <2>1, GoOnOK DEF SendPCs
  <2>2. CASE ~e.told
    BY <1>0, <1>1, <2>2, SendContext, FinishType, AnsweredOK DEF Codes
  <2> QED
    BY <2>1, <2>2
<1> QED
  BY <1>3, <1>4, <1>5, PartsPrime

\* send_pending deleting the old object first keeps the invariant.
LEMMA SendDeleteFirstInv == ASSUME Inv, SendDeleteFirst PROVE Inv'
<1> USE DEF Inv
<1>0. cb.pc \in SendPCs
  BY DEF SendDeleteFirst, SendPCs
<1>1. PICK e \in DeleteEnds(Q.replaces) : SendDeleteFirst!2!(e)
  BY DEF SendDeleteFirst
<1>2. DeviceOK'
  BY <1>1, DeletedType, Parts DEF SendDeleteFirst, DeviceOK, ObjMaps
<1>3. CountsOK' /\ TreeOK'
  BY Parts DEF SendDeleteFirst, CountsOK, TreeOK, tree
<1>4. OwedOK'
  BY <1>0, <1>1, SendContext, Parts DEF OwedOK, Pendings
<1>5. HostOK' /\ CallbackOK'
  <2>1. CASE e.told
    <3>1. [Q EXCEPT !.replaces = NoHandle] \in Pendings
      BY <1>0, SendContext DEF Pendings
    <3>2. pending' = [pending EXCEPT ![cb.path] = [Q EXCEPT !.replaces = NoHandle]]
      BY <1>1, <2>1 DEF Q
    <3>3. pending' \in [Paths -> Pendings \cup {None}] /\ pending'[cb.path] # None
      BY <1>0, <3>1, <3>2, SendContext, NoneAssumption DEF TypeOK
    <3>4. /\ cb' \in Callbacks /\ cb'.pc = "announce" /\ cb'.op = cb.op
          /\ cb'.fd = cb.fd /\ cb'.path = cb.path
      BY <1>0, <1>1, <2>1, SendContext, ZenonT(100) DEF Callbacks, PCs
    <3>5. HostOK'
      BY <1>1, <2>1, <3>3, <3>4, Parts DEF HostOK
    <3>6. CallbackOK'
      BY <1>0, <1>1, <2>1, <3>3, <3>4, SendContext DEF CallbackOK, SendPCs
    <3> QED
      BY <3>5, <3>6
  <2>2. CASE ~e.told
    BY <1>0, <1>1, <2>2, SendContext, FinishType, AnsweredOK DEF Codes
  <2> QED
    BY <2>1, <2>2
<1> QED
  BY <1>2, <1>3, <1>4, <1>5, PartsPrime

\* The listings after Tree::forget are listings.
LEMMA ForgetType ==
    ASSUME NEW l \in Listings, NEW d
    PROVE  Forget(l, d) \in Listings
BY DEF Forget, Listings

\* What follows a failed announce or send.
LEMMA AfterFailureType ==
    ASSUME Inv, cb.pc \in SendPCs, AfterFailure
    PROVE  HostOK' /\ CallbackOK' /\ listing' \in Listings
<1>1. CASE Q.replaces # NoHandle
  BY <1>1, GoOnOK, Parts DEF AfterFailure, SendPCs, Inv, TreeOK
<1>2. CASE Q.replaces = NoHandle
  <2>1. [Q EXCEPT !.keep = Q.keep \/ cb.gone] \in Pendings
    BY SendContext DEF Pendings, Callbacks
  <2>2. Finish(cb.op, cb.fd, cb.path, [Q EXCEPT !.keep = Q.keep \/ cb.gone], "EIO")
    BY <1>2 DEF AfterFailure, SendFailed
  <2>3. listing' \in Listings
    BY <1>2, ForgetType, Parts DEF AfterFailure, SendFailed, Inv, TreeOK
  <2> QED
    BY <2>1, <2>2, <2>3, SendContext, FinishType, AnsweredOK DEF Inv, Codes
<1> QED
  BY <1>1, <1>2

\* SendObjectInfo keeps the invariant.
LEMMA SendAnnounceInv == ASSUME Inv, SendAnnounce PROVE Inv'
<1> USE DEF Inv
<1>0. cb.pc \in SendPCs
  BY DEF SendAnnounce, SendPCs
<1>1. PICK e \in IF Q.data.len <= MaxPayload THEN Ends("announce", TRUE)
                 ELSE Ends("announce", FALSE) : SendAnnounce!2!(e)
  BY DEF SendAnnounce
<1> DEFINE o == [dir |-> cb.path.dir, name |-> cb.path.name, aside |-> 0, data |-> NoBytes]
<1>2. o \in Objects /\ nextH \in Handles
  BY <1>0, SendContext, BoundsAssumption DEF SendAnnounce, TypeOK, Paths, Objects, Data, Handles
<1>3. DeviceOK' /\ (e.done => objs'[nextH] # None)
  <2>1. CASE e.done
    <3>1. objs' = [objs EXCEPT ![nextH] = o] /\ nextH' = nextH + 1
      BY <1>1, <2>1
    <3>2. nextH' \in 1..MaxHandle + 1
      BY <1>2, <3>1, BoundsAssumption DEF Handles
    <3> HIDE DEF o
    <3> QED
      BY <1>2, <3>1, <3>2, NoneAssumption DEF DeviceOK, TypeOK
  <2>2. CASE ~e.done
    BY <1>1, <2>2, Parts DEF DeviceOK, device
  <2> QED
    BY <2>1, <2>2
<1>4. CountsOK' /\ entry' \in EntryMaps /\ OwedOK'
  BY Parts DEF SendAnnounce, CountsOK, TreeOK, OwedOK
<1>5. HostOK' /\ CallbackOK' /\ listing' \in Listings
  <2>1. CASE e.told
    <3>1. e.done
      BY <1>1, <2>1 DEF Ends
    <3>2. /\ cb' \in Callbacks /\ cb'.pc = "data" /\ cb'.h = nextH /\ cb'.op = cb.op
          /\ cb'.fd = cb.fd /\ cb'.path = cb.path
      BY <1>0, <1>1, <1>2, <2>1, SendContext, ZenonT(100) DEF Callbacks, PCs
    <3>3. HostOK' /\ listing' \in Listings
      BY <1>1, <2>1, <3>2, Parts DEF HostOK, TreeOK
    <3>4. CallbackOK'
      BY <1>0, <1>1, <1>2, <1>3, <2>1, <3>1, <3>2, SendContext DEF CallbackOK, SendPCs, Q
    <3> QED
      BY <3>3, <3>4
  <2>2. CASE ~e.told
    BY <1>0, <1>1, <2>2, AfterFailureType
  <2> QED
    BY <2>1, <2>2
<1> QED
  BY <1>3, <1>4, <1>5, PartsPrime DEF TreeOK

\* SendObject keeps the invariant.
LEMMA SendDataInv == ASSUME Inv, SendData PROVE Inv'
<1> USE DEF Inv
<1>0. cb.pc \in SendPCs /\ cb.h \in Handles /\ objs[cb.h] \in Objects
  BY DEF SendData, SendPCs, CallbackOK, Idle, TypeOK
<1>1. Q \in Pendings /\ Q.data \in Data /\ cb.path \in Paths
  BY <1>0, SendContext DEF Pendings
<1>2. CountsOK' /\ entry' \in EntryMaps /\ nextH' \in 1..MaxHandle + 1
  BY Parts DEF SendData, CountsOK, TreeOK, DeviceOK
<1>3. ASSUME NEW x \in Data, objs' = [objs EXCEPT ![cb.h].data = x]
      PROVE  objs' \in ObjMaps
  <2>1. [objs[cb.h] EXCEPT !.data = x] \in Objects
    BY <1>0 DEF Objects
  <2>2. objs' = [objs EXCEPT ![cb.h] = [objs[cb.h] EXCEPT !.data = x]]
    BY <1>3
  <2> QED
    BY <1>0, <2>1, <2>2 DEF TypeOK, ObjMaps
<1>4. ASSUME NEW e \in Ends("send", TRUE), SendData!2!1!1!(e)
      PROVE  objs' \in ObjMaps /\ OwedOK' /\ HostOK' /\ CallbackOK' /\ listing' \in Listings
  <2>1. objs' \in ObjMaps
    BY <1>1, <1>3, <1>4
  <2>2. OwedOK'
    BY <1>1, <1>4 DEF OwedOK, TypeOK
  <2>3. CASE ~e.told
    BY <1>0, <1>4, <2>1, <2>2, <2>3, AfterFailureType
  <2>4. CASE e.told /\ Q.replaces # NoHandle
    BY <1>0, <1>4, <2>1, <2>2, <2>4, GoOnOK, Parts DEF SendPCs, TreeOK
  <2>5. CASE e.told /\ Q.replaces = NoHandle
    <3>1. Finish(cb.op, cb.fd, cb.path, Q, "OK") /\ listing' = Forget(listing, cb.path.dir)
      BY <1>4, <2>5
    <3> QED
      BY <1>0, <2>1, <2>2, <3>1, SendContext, FinishType, AnsweredOK, ForgetType, Parts
         DEF Codes, TreeOK
  <2> QED
    BY <2>3, <2>4, <2>5
<1>5. ASSUME objs' = [objs EXCEPT ![cb.h] = None], AfterFailure, UNCHANGED owed
      PROVE  objs' \in ObjMaps /\ OwedOK' /\ HostOK' /\ CallbackOK' /\ listing' \in Listings
  BY <1>0, <1>5, AfterFailureType DEF TypeOK, ObjMaps, OwedOK
<1>6. ASSUME NEW n \in {m \in 0..MaxLen : m < Q.data.len},
             objs' = [objs EXCEPT ![cb.h].data = Cut(Q.data, n)], AfterFailure, UNCHANGED owed
      PROVE  objs' \in ObjMaps /\ OwedOK' /\ HostOK' /\ CallbackOK' /\ listing' \in Listings
  <2>1. n \in 0..Q.data.len
    BY <1>1, BoundsAssumption DEF Data, NoBytes
  <2>2. Cut(Q.data, n) \in Data
    BY <1>1, <2>1, CutType
  <2> QED
    BY <1>0, <1>3, <1>6, <2>2, AfterFailureType DEF TypeOK, OwedOK
<1>7. objs' \in ObjMaps /\ OwedOK' /\ HostOK' /\ CallbackOK' /\ listing' \in Listings
  BY <1>4, <1>5, <1>6 DEF SendData
<1> QED
  BY <1>2, <1>7, PartsPrime DEF TreeOK, DeviceOK, ObjMaps

\* send_pending deleting the old object last keeps the invariant.
LEMMA SendDeleteOldInv == ASSUME Inv, SendDeleteOld PROVE Inv'
<1> USE DEF Inv
<1>0. cb.pc \in SendPCs
  BY DEF SendDeleteOld, SendPCs
<1>1. DeviceOK'
  BY DeletedType, Parts DEF SendDeleteOld, DeviceOK, ObjMaps
<1>2. CountsOK' /\ TreeOK' /\ OwedOK'
  BY ForgetType, Parts DEF SendDeleteOld, CountsOK, TreeOK, OwedOK
<1>3. [Q EXCEPT !.replaces = NoHandle] \in Pendings
  BY <1>0, SendContext DEF Pendings
<1>4. HostOK' /\ CallbackOK'
  BY <1>0, <1>3, SendContext, FinishType, AnsweredOK DEF SendDeleteOld, Codes
<1> QED
  BY <1>1, <1>2, <1>4, PartsPrime

\* send_pending putting the old name back keeps the invariant.
LEMMA SendPutBackInv == ASSUME Inv, SendPutBack PROVE Inv'
<1> USE DEF Inv
<1>0. cb.pc \in SendPCs
  BY DEF SendPutBack, SendPCs
<1>1. cb.path.name \in Names /\ 0 \in 0..MaxCount
  BY <1>0, SendContext, BoundsAssumption DEF Paths
<1>2. DeviceOK'
  <2>1. PICK e \in RenameEnds(Q.replaces, cb.path.name, 0) :
               objs' = Renamed(Q.replaces, cb.path.name, 0, e)
    BY DEF SendPutBack
  <2>2. objs' \in ObjMaps
    BY <1>1, <2>1, RenamedType
  <2> QED
    BY <2>2, Parts DEF SendPutBack, DeviceOK, ObjMaps
<1>3. CountsOK' /\ TreeOK' /\ OwedOK'
  BY ForgetType, Parts DEF SendPutBack, CountsOK, TreeOK, OwedOK
<1>4. [Q EXCEPT !.replaces = NoHandle] \in Pendings
  BY <1>0, SendContext DEF Pendings
<1>5. HostOK' /\ CallbackOK'
  BY <1>0, <1>4, SendContext, FinishType, AnsweredOK DEF SendPutBack, Codes
<1> QED
  BY <1>2, <1>3, <1>5, PartsPrime

-----------------------------------------------------------------------------
(* unlink, rename, and the end of a mount.                                 *)

\* op_unlink keeps the invariant.
LEMMA UnlinkInv == ASSUME Inv, NEW p \in Paths, OpUnlink(p) PROVE Inv'
<1> USE DEF Inv
<1>0. PICK r \in Resolve(listing, entry, p) : OpUnlink(p)!2!(r)
  BY DEF OpUnlink
<1>1. r.listing \in Listings /\ r.entry \in EntryMaps
  BY ResolveType, Parts DEF TreeOK
<1>2. TreeOK'
  BY <1>0, <1>1, ForgetType DEF TreeOK
<1>3. DeviceOK'
  BY <1>0, DeletedType, Parts DEF OpUnlink, DeviceOK, ObjMaps
<1>4. cb' = NotRunning /\ reply' \in Replies \cup {NoReply}
  BY <1>0, AnswerType DEF Ops, Codes
<1>5. CountsOK' /\ OwedOK' /\ HostOK'
  BY <1>4, Parts DEF OpUnlink, CountsOK, OwedOK, HostOK, host
<1> QED
  BY <1>2, <1>3, <1>4, <1>5, AnsweredOK, PartsPrime

\* The answer of op_rename ends its callback and is a reply.
LEMMA RenameAnswerType ==
    ASSUME NEW to \in Paths, NEW h \in Handles \cup {NoHandle}, NEW rc \in Codes,
           RenameAnswer(to, h, rc)
    PROVE  cb' = NotRunning /\ reply' \in Replies
BY DEF RenameAnswer, Replies, Ops

\* The checks of op_rename keep the invariant.
LEMMA RenameInv == ASSUME Inv, NEW from \in Paths, NEW to \in Paths, OpRename(from, to) PROVE Inv'
<1> USE DEF Inv
<1>0. PICK r \in Resolve(listing, entry, from) : OpRename(from, to)!3!(r)
  BY DEF OpRename
<1>1. /\ r.listing \in Listings /\ r.entry \in EntryMaps
      /\ r.h \in Handles \cup {NoHandle}
  BY ResolveType, Parts DEF TreeOK
<1>2. DeviceOK' /\ CountsOK' /\ OwedOK' /\ pending' = pending /\ kept' = kept /\ fds' = fds
  BY Parts DEF OpRename, device, host, DeviceOK, CountsOK, OwedOK
<1>3. CASE r.h = NoHandle
  BY <1>0, <1>1, <1>2, <1>3, RenameAnswerType, AnsweredOK, PartsPrime, Parts
     DEF TreeOK, HostOK, Codes
<1>4. CASE r.h # NoHandle
  <2>1. PICK t \in Resolve(r.listing, r.entry, to) : OpRename(from, to)!3!(r)!2!2!(t)
    BY <1>0, <1>4
  <2>2. /\ t.listing \in Listings /\ t.entry \in EntryMaps
        /\ t.h \in Handles \cup {NoHandle}
    BY <1>1, ResolveType
  <2>3. TreeOK'
    BY <2>1, <2>2 DEF TreeOK
  <2>4. CASE t.h = r.h
    BY <1>1, <1>2, <2>1, <2>3, <2>4, RenameAnswerType, AnsweredOK, PartsPrime, Parts
       DEF HostOK, Codes
  <2>5. CASE t.h # r.h
    <3> DEFINE pc == IF t.h # NoHandle THEN "ren_aside" ELSE RenameRest(from, to)
    <3>1. pc \in PCs \ SendPCs /\ pc # "data"
      BY DEF RenameRest, PCs, SendPCs
    <3>2. cb' = [pc |-> pc, op |-> "rename", fd |-> None, path |-> from, to |-> to,
                 h |-> r.h, old |-> t.h, gone |-> FALSE] /\ reply' = NoReply
      BY <2>1, <2>5 DEF Running
    <3> HIDE DEF pc
    <3>3. cb' \in Callbacks
      BY <1>1, <2>2, <3>1, <3>2 DEF Callbacks
    <3>4. HostOK'
      BY <1>2, <3>2, <3>3, Parts DEF HostOK
    <3>5. CallbackOK'
      BY <1>1, <1>4, <3>1, <3>2 DEF CallbackOK
    <3> QED
      BY <1>2, <2>3, <3>4, <3>5, PartsPrime
  <2> QED
    BY <2>4, <2>5
<1> QED
  BY <1>3, <1>4

\* A step of op_rename runs for an object.
LEMMA RenameContext ==
    ASSUME Inv, cb.pc \in PCs \ SendPCs
    PROVE  /\ cb \in Callbacks /\ cb.h \in Handles /\ cb.old \in Handles \cup {NoHandle}
           /\ cb.path \in Paths /\ cb.to \in Paths /\ cb.to.name \in Names /\ cb.to.dir \in Dirs
<1>1. ~Idle /\ cb \in Callbacks
  BY DEF Inv, TypeOK, PCs, Idle, NotRunning
<1> QED
  BY <1>1 DEF Inv, CallbackOK, Callbacks, Paths

\* The end of op_rename leaves the host in order.
LEMMA RenameDoneType ==
    ASSUME Inv, cb.pc \in PCs \ SendPCs, NEW rc \in Codes, RenameDone(rc),
           UNCHANGED <<pending, kept>>
    PROVE  HostOK' /\ CallbackOK'
<1>1. cb' = NotRunning /\ reply' \in Replies
  BY RenameContext, RenameAnswerType DEF RenameDone
<1>2. ASSUME NEW f \in Opens(cb.path)
      PROVE  [fds[f] EXCEPT !.path = cb.to] \in OpenFiles
  BY <1>2, RenameContext DEF Opens, Inv, TypeOK, OpenFiles
<1>3. fds' \in [FDs -> OpenFiles \cup {None}]
  BY <1>2 DEF RenameDone, Inv, TypeOK
<1> QED
  BY <1>1, <1>3, AnsweredOK DEF HostOK, Inv, TypeOK

\* A step of op_rename that goes on.
LEMMA RenameGoOn ==
    ASSUME Inv, cb.pc \in PCs \ SendPCs, NEW pc \in PCs \ SendPCs, Goto(pc),
           UNCHANGED <<pending, kept, reply, fds>>
    PROVE  HostOK' /\ CallbackOK'
<1>1. cb' \in Callbacks /\ cb'.pc = pc /\ cb'.h = cb.h
  BY RenameContext, GotoType
<1>2. HostOK'
  BY <1>1 DEF HostOK, Inv, TypeOK
<1>3. CallbackOK'
  BY <1>1, RenameContext DEF CallbackOK, SendPCs
<1> QED
  BY <1>2, <1>3

\* After the target is aside, op_rename goes to a step of its own.
LEMMA RestType == \A from, to : RenameRest(from, to) \in PCs \ SendPCs
BY DEF RenameRest, PCs, SendPCs

\* op_rename moving the target aside keeps the invariant.
LEMMA RenameAsideInv == ASSUME Inv, RenameAside PROVE Inv'
<1> USE DEF Inv
<1>0. cb.pc \in PCs \ SendPCs
  BY DEF RenameAside, PCs, SendPCs
<1>1. PICK e \in RenameEnds(cb.old, cb.to.name, count + 1) : RenameAside!3!(e)
  BY DEF RenameAside
<1>2. cb.to.name \in Names /\ count + 1 \in 0..MaxCount
  BY <1>0, RenameContext, BoundsAssumption DEF RenameAside, TypeOK
<1>3. DeviceOK'
  BY <1>1, <1>2, RenamedType, Parts DEF RenameAside, DeviceOK, ObjMaps
<1>4. CountsOK' /\ OwedOK' /\ pending' = pending /\ kept' = kept
  BY <1>2, Parts DEF RenameAside, CountsOK, OwedOK
<1>5. TreeOK'
  BY <1>1, ForgetType, Parts DEF RenameAside, TreeOK
<1>6. HostOK' /\ CallbackOK'
  <2>1. CASE e.told
    BY <1>0, <1>1, <1>4, <2>1, RestType, RenameGoOn
  <2>2. CASE ~e.told
    BY <1>0, <1>1, <1>4, <2>2, RenameDoneType DEF Codes
  <2> QED
    BY <2>1, <2>2
<1> QED
  BY <1>3, <1>4, <1>5, <1>6, PartsPrime

\* op_rename moving the object to its new folder keeps the invariant.
LEMMA RenameMoveInv == ASSUME Inv, RenameMove PROVE Inv'
<1> USE DEF Inv
<1>0. cb.pc \in PCs \ SendPCs /\ "ren_name" \in PCs \ SendPCs
  BY DEF RenameMove, PCs, SendPCs
<1>1. TreeOK' /\ CountsOK' /\ OwedOK' /\ pending' = pending /\ kept' = kept /\ nextH' = nextH
  BY Parts DEF RenameMove, tree, host, TreeOK, CountsOK, OwedOK
<1>2. CASE RenameDone("ENOTSUP") /\ UNCHANGED objs
  <2>1. HostOK' /\ CallbackOK'
    BY <1>0, <1>1, <1>2, RenameDoneType DEF Codes
  <2> QED
    BY <1>1, <1>2, <2>1, Parts, PartsPrime DEF DeviceOK
<1>3. ASSUME NEW e \in Ends("move", objs[cb.h] # None), RenameMove!2!2!2!(e)
      PROVE  Inv'
  <2>1. DeviceOK'
    <3>1. CASE ~e.done
      BY <1>1, <1>3, <3>1, Parts DEF DeviceOK
    <3>2. CASE e.done
      <4>1. cb.h \in Handles /\ objs[cb.h] \in Objects
        BY <1>0, <3>2, EndsDone, RenameContext DEF TypeOK
      <4>2. [objs[cb.h] EXCEPT !.dir = cb.to.dir] \in Objects
        BY <1>0, <4>1, RenameContext DEF Objects
      <4>3. objs' = [objs EXCEPT ![cb.h] = [objs[cb.h] EXCEPT !.dir = cb.to.dir]]
        BY <1>3, <3>2
      <4> QED
        BY <1>1, <4>1, <4>2, <4>3 DEF DeviceOK, TypeOK
    <3> QED
      BY <3>1, <3>2
  <2>2. HostOK' /\ CallbackOK'
    BY <1>0, <1>1, <1>3, RenameGoOn, RenameDoneType DEF Codes
  <2> QED
    BY <1>1, <2>1, <2>2, PartsPrime
<1> QED
  BY <1>2, <1>3 DEF RenameMove

\* op_rename giving the object its new name keeps the invariant.
LEMMA RenameNameInv == ASSUME Inv, RenameName PROVE Inv'
<1> USE DEF Inv
<1>0. cb.pc \in PCs \ SendPCs /\ {"ren_del", "ren_back"} \subseteq PCs \ SendPCs
  BY DEF RenameName, PCs, SendPCs
<1>1. /\ CountsOK' /\ OwedOK' /\ pending' = pending /\ kept' = kept
      /\ nextH' = nextH /\ entry' = entry
  BY Parts DEF RenameName, host, CountsOK, OwedOK
<1>2. HostOK' /\ CallbackOK'
  BY <1>0, <1>1, RenameGoOn, RenameDoneType DEF RenameName, Codes
<1>3. TreeOK'
  BY <1>1, ForgetType, Parts DEF RenameName, RenameForget, TreeOK
<1>4. DeviceOK'
  <2>1. cb.to.name \in Names /\ 0 \in 0..MaxCount
    BY <1>0, RenameContext, BoundsAssumption
  <2>2. CASE UNCHANGED objs
    BY <1>1, <2>2, Parts DEF DeviceOK
  <2>3. CASE \E e \in RenameEnds(cb.h, cb.to.name, 0) : objs' = Renamed(cb.h, cb.to.name, 0, e)
    <3>1. objs' \in ObjMaps
      BY <2>1, <2>3, RenamedType
    <3> QED
      BY <1>1, <3>1, Parts DEF DeviceOK, ObjMaps
  <2> QED
    BY <2>2, <2>3 DEF RenameName
<1> QED
  BY <1>1, <1>2, <1>3, <1>4, PartsPrime

\* op_rename putting the target back keeps the invariant.
LEMMA RenamePutBackInv == ASSUME Inv, RenamePutBack PROVE Inv'
<1> USE DEF Inv
<1>0. cb.pc \in PCs \ SendPCs
  BY DEF RenamePutBack, PCs, SendPCs
<1>1. CountsOK' /\ OwedOK' /\ pending' = pending /\ kept' = kept
  BY Parts DEF RenamePutBack, host, CountsOK, OwedOK
<1>2. HostOK' /\ CallbackOK'
  BY <1>0, <1>1, RenameDoneType DEF RenamePutBack, Codes
<1>3. TreeOK'
  BY ForgetType, Parts DEF RenamePutBack, TreeOK
<1>4. DeviceOK'
  <2>1. cb.to.name \in Names /\ 0 \in 0..MaxCount
    BY <1>0, RenameContext, BoundsAssumption
  <2>2. PICK e \in RenameEnds(cb.old, cb.to.name, 0) : objs' = Renamed(cb.old, cb.to.name, 0, e)
    BY DEF RenamePutBack
  <2>3. objs' \in ObjMaps
    BY <2>1, <2>2, RenamedType
  <2> QED
    BY <2>3, Parts DEF RenamePutBack, DeviceOK, ObjMaps
<1> QED
  BY <1>1, <1>2, <1>3, <1>4, PartsPrime

\* op_rename deleting the replaced target keeps the invariant.
LEMMA RenameDeleteInv == ASSUME Inv, RenameDelete PROVE Inv'
<1> USE DEF Inv
<1>0. cb.pc \in PCs \ SendPCs
  BY DEF RenameDelete, PCs, SendPCs
<1>1. CountsOK' /\ OwedOK' /\ pending' = pending /\ kept' = kept
  BY Parts DEF RenameDelete, host, CountsOK, OwedOK
<1>2. HostOK' /\ CallbackOK'
  BY <1>0, <1>1, RenameDoneType DEF RenameDelete, Codes
<1>3. TreeOK'
  BY ForgetType, Parts DEF RenameDelete, RenameForget, TreeOK
<1>4. DeviceOK'
  BY DeletedType, Parts DEF RenameDelete, DeviceOK, ObjMaps
<1> QED
  BY <1>1, <1>2, <1>3, <1>4, PartsPrime

\* The end of a mount.
LEMMA RemountInv == ASSUME Inv, Crash \/ Unmount PROVE Inv'
<1> USE DEF Inv
<1>1. kept' \subseteq SpoolFiles
  <2>1. CASE Crash
    BY <2>1 DEF Crash, TypeOK, SpoolFiles, Pendings
  <2>2. CASE Unmount
    <3>1. ASSUME NEW p \in Paths, pending[p] # None
          PROVE  Dropped(p, pending[p]) \subseteq SpoolFiles
      BY <3>1 DEF Dropped, TypeOK, SpoolFiles, Pendings
    <3> QED
      BY <2>2, <3>1 DEF Unmount, TypeOK
  <2> QED
    BY <2>1, <2>2
<1>2. Remount
  BY DEF Crash, Unmount
<1>3. DeviceOK' /\ OwedOK' /\ TreeOK'
  BY <1>2, Parts DEF Remount, device, DeviceOK, OwedOK, TreeOK, Listings, EntryMaps
<1>4. CountsOK'
  BY <1>2, BoundsAssumption DEF Remount, CountsOK, TypeOK
<1>5. HostOK'
  BY <1>1, <1>2 DEF Remount, HostOK
<1> QED
  BY <1>2, <1>3, <1>4, <1>5, AnsweredOK, PartsPrime DEF Remount

-----------------------------------------------------------------------------

\* Every step of the mount and of the cellphone keeps the invariant.
LEMMA NextInv == Inv /\ [Next]_vars => Inv'
<1> SUFFICES ASSUME Inv, [Next]_vars PROVE Inv'
  OBVIOUS
<1>1. CASE UNCHANGED vars
  BY <1>1 DEF vars, Inv, TypeOK, CallbackOK, Idle
<1>2. CASE Next
  BY <1>2, LookInv, OpenInv, CreateInv, WriteInv, FlushInv, ReleaseInv, TruncateSpoolInv,
     TruncateInv, UnlinkInv, RenameInv, SendAsideInv, SendDeleteFirstInv, SendAnnounceInv,
     SendDataInv, SendDeleteOldInv, SendPutBackInv, RenameAsideInv, RenameMoveInv,
     RenameNameInv, RenamePutBackInv, RenameDeleteInv, RemountInv
     DEF Next, SendStep, RenameStep
<1> QED
  BY <1>1, <1>2

\* The write path never leaves its types, whatever fails: every step of a
\* callback finds the Pending, the open file and the objects it works on.
THEOREM TypeCorrect == Spec => []TypeOK
<1>1. Spec => []Inv
  BY InitInv, NextInv, PTL DEF Spec
<1>2. Inv => TypeOK
  BY DEF Inv
<1> QED
  BY <1>1, <1>2, PTL

-----------------------------------------------------------------------------
(* A writer keeps its spool file.                                          *)

RenamePCs == PCs \ SendPCs

\* The strengthening: a path has one writer; send_pending runs for the
\* writer of its path, or for a truncate of a path without one; op_rename
\* runs for paths nobody holds open; and a Pending has a writer, or is the
\* one truncate is sending.
OneWriter == \A p \in Paths : \A f, g \in Writes(p) : f = g
SpoolForWriter == \A p \in Paths : Writes(p) # {} => pending[p] # None
SenderWrites == cb.pc \in SendPCs =>
    IF cb.op = "truncate" THEN Writes(cb.path) = {} ELSE cb.fd \in Writes(cb.path)
NobodyHolds == cb.pc \in RenamePCs => Opens(cb.path) = {} /\ Opens(cb.to) = {}
Truncating(p) == cb.pc \in SendPCs /\ cb.op = "truncate" /\ cb.path = p
Owned == "setlen" \notin Faults =>
    \A p \in Paths : pending[p] # None => Writes(p) # {} \/ Truncating(p)
WriterInv == OneWriter /\ SpoolForWriter /\ SenderWrites /\ NobodyHolds /\ Owned

\* The limits under which a path has one writer: programs do not share it,
\* and do not rename it while it is written.
LoneWriters == ~SharedWriters /\ ~RenameOpen

\* The step opens and closes no file.
SameWriters == \A p \in Paths : Writes(p)' = Writes(p) /\ Opens(p)' = Opens(p)
\* The step makes and drops no Pending, but for the path.
SameBut(p) == \A q \in Paths : q # p => (pending'[q] = None <=> pending[q] = None)
SamePending == \A q \in Paths : pending'[q] = None <=> pending[q] = None

\* A change that a program was told of moves no open file.
LEMMA AcceptedSame ==
    ASSUME Inv, NEW p \in Paths, pending[p] # None, NEW x \in Data, Accepted(p, x)
    PROVE  SameWriters /\ SamePending
<1>1. pending[p] \in Pendings
  BY DEF Inv, TypeOK
<1>2. [pending[p] EXCEPT !.data = x] # None
  BY <1>1, NoneAssumption DEF Pendings
<1>3. pending' = [pending EXCEPT ![p] = [pending[p] EXCEPT !.data = x]]
  BY DEF Accepted
<1>4. SamePending
  BY <1>2, <1>3 DEF SamePending, Inv, TypeOK
<1>5. ASSUME NEW f \in Writes(p)
      PROVE  /\ [fds[f] EXCEPT !.wrote = x] # None /\ [fds[f] EXCEPT !.wrote = x].path = fds[f].path
             /\ [fds[f] EXCEPT !.wrote = x].writer = fds[f].writer
  BY <1>5, NoneAssumption DEF Writes, Inv, TypeOK, OpenFiles
<1>6. \A f \in FDs : fds'[f] = IF f \in Writes(p) THEN [fds[f] EXCEPT !.wrote = x] ELSE fds[f]
  BY DEF Accepted
<1> QED
  BY <1>4, <1>5, <1>6 DEF SameWriters, Writes, Opens

\* A step that opens and closes nothing, and leaves no callback running.
LEMMA QuietWriters ==
    ASSUME WriterInv, SameWriters, SamePending, cb'.pc = "idle", \A p \in Paths : ~Truncating(p)
    PROVE  WriterInv'
<1>1. cb'.pc \notin SendPCs /\ cb'.pc \notin RenamePCs
  BY DEF SendPCs, RenamePCs, PCs
<1>2. OneWriter' /\ SpoolForWriter' /\ Owned'
  BY DEF WriterInv, OneWriter, SpoolForWriter, Owned, SameWriters, SamePending
<1> QED
  BY <1>1, <1>2 DEF WriterInv, SenderWrites, NobodyHolds

\* Between callbacks nothing is being sent.
LEMMA IdleSends == Idle => cb.pc \notin SendPCs /\ cb.pc \notin RenamePCs /\ \A p : ~Truncating(p)
BY DEF Idle, SendPCs, RenamePCs, PCs, Truncating

\* A file that is opened to read changes no writer; one that is opened to
\* write is the first writer, and has a Pending.
LEMMA OpenedWriters ==
    ASSUME Inv, WriterInv, Idle, NEW fd \in FDs, fds[fd] = None, NEW p \in Paths, NEW w \in BOOLEAN,
           fds' = [fds EXCEPT ![fd] = Opened(p, w)],
           IF w THEN Writes(p) = {} /\ pending'[p] # None /\ SameBut(p) ELSE SamePending,
           cb'.pc = "idle"
    PROVE  WriterInv'
<1>1. Opened(p, w) # None /\ Opened(p, w).path = p /\ Opened(p, w).writer = w
  BY NoneAssumption, OpenedType DEF Opened
<1>2. \A q \in Paths : Writes(q)' = IF q = p /\ w THEN Writes(q) \cup {fd} ELSE Writes(q)
  BY <1>1 DEF Writes, Inv, TypeOK
<1>3. cb'.pc \notin SendPCs /\ cb'.pc \notin RenamePCs
  BY DEF SendPCs, RenamePCs, PCs
<1>4. \A q \in Paths : ~Truncating(q)
  BY IdleSends
<1>5. OneWriter'
  BY <1>2 DEF WriterInv, OneWriter
<1>6. SpoolForWriter'
  BY <1>2 DEF WriterInv, SpoolForWriter, SamePending, SameBut
<1>7. Owned'
  BY <1>2, <1>4 DEF WriterInv, Owned, SamePending, SameBut
<1> QED
  BY <1>3, <1>5, <1>6, <1>7 DEF WriterInv, SenderWrites, NobodyHolds

\* A file that is closed takes its Pending with it, if it wrote one.
LEMMA ClosedWriters ==
    ASSUME Inv, WriterInv, NEW fd \in FDs, fds[fd] # None, NEW p \in Paths, p = fds[fd].path,
           \A q \in Paths : ~Truncating(q), fds' = [fds EXCEPT ![fd] = None],
           IF fds[fd].writer THEN pending'[p] = None /\ SameBut(p) ELSE SamePending,
           cb'.pc = "idle"
    PROVE  WriterInv'
<1>1. \A q \in Paths : Writes(q)' = Writes(q) \ {fd}
  BY DEF Writes, Inv, TypeOK
<1>2. fds[fd].writer => Writes(p) = {fd}
  BY DEF WriterInv, OneWriter, Writes
<1>3. \A q \in Paths : q # p \/ ~fds[fd].writer => fd \notin Writes(q)
  BY DEF Writes
<1>4. cb'.pc \notin SendPCs /\ cb'.pc \notin RenamePCs
  BY DEF SendPCs, RenamePCs, PCs
<1>5. OneWriter'
  BY <1>1 DEF WriterInv, OneWriter
<1>6. \A q \in Paths : IF q = p /\ fds[fd].writer THEN Writes(q)' = {} ELSE Writes(q)' = Writes(q)
  <2>1. \A q \in Paths : fd \notin Writes(q) => Writes(q) \ {fd} = Writes(q)
    BY DEF Writes
  <2> QED
    BY <1>1, <1>2, <1>3, <2>1
<1>7. SpoolForWriter'
  BY <1>6 DEF WriterInv, SpoolForWriter, SamePending, SameBut
<1>8. Owned'
  BY <1>6 DEF WriterInv, Owned, SamePending, SameBut
<1> QED
  BY <1>4, <1>5, <1>7, <1>8 DEF WriterInv, SenderWrites, NobodyHolds

\* Who calls send_pending: the writer of the path, or a truncate of a path
\* without a writer.
Caller(op, fd, p) == IF op = "truncate" THEN Writes(p) = {} ELSE fd \in Writes(p)

\* The end of send_pending: flush leaves the Pending, release and truncate drop it.
LEMMA FinishWriters ==
    ASSUME Inv, WriterInv, NEW op \in {"flush", "release", "truncate"}, NEW fd, NEW p \in Paths,
           NEW q \in Pendings, NEW rc \in Codes, Caller(op, fd, p),
           \A r \in Paths : Truncating(r) => r = p /\ op = "truncate",
           Finish(op, fd, p, q, rc)
    PROVE  WriterInv'
<1>1. cb'.pc = "idle"
  BY DEF Finish, Answer, NotRunning
<1>2. [q EXCEPT !.sent = rc] # None
  BY NoneAssumption DEF Pendings
<1>3. SameBut(p)
  BY DEF Finish, SameBut, Inv, TypeOK
<1>4. op # "truncate" => fd \in FDs /\ fds[fd] # None /\ fds[fd].path = p /\ fds[fd].writer /\ pending[p] # None
  BY DEF Caller, Writes, WriterInv, SpoolForWriter
<1>5. CASE op = "flush"
  <2>1. pending'[p] # None
    BY <1>2, <1>5 DEF Finish, PutsBack, Inv, TypeOK
  <2>2. SamePending
    BY <1>3, <1>4, <1>5, <2>1 DEF SameBut, SamePending
  <2>3. fds' = [fds EXCEPT ![fd] = [fds[fd] EXCEPT !.flushed = TRUE]]
    BY <1>5 DEF Finish
  <2>4. /\ [fds[fd] EXCEPT !.flushed = TRUE] # None
        /\ [fds[fd] EXCEPT !.flushed = TRUE].path = p /\ [fds[fd] EXCEPT !.flushed = TRUE].writer
    BY <1>4, <1>5, NoneAssumption DEF Inv, TypeOK, OpenFiles
  <2>5. SameWriters
    BY <1>4, <1>5, <2>3, <2>4 DEF SameWriters, Writes, Opens, Inv, TypeOK
  <2> QED
    BY <1>1, <1>5, <2>2, <2>5, QuietWriters
<1>6. CASE op = "release"
  <2>1. fds' = [fds EXCEPT ![fd] = None] /\ pending'[p] = None
    BY <1>6 DEF Finish, PutsBack, Inv, TypeOK
  <2> QED
    BY <1>1, <1>3, <1>4, <1>6, <2>1, ClosedWriters
<1>7. CASE op = "truncate"
  <2>1. fds' = fds /\ pending'[p] = None
    BY <1>7 DEF Finish, PutsBack, Inv, TypeOK
  <2>2. \A r \in Paths : Writes(r)' = Writes(r)
    BY <2>1 DEF Writes
  <2>3. OneWriter' /\ SpoolForWriter' /\ Owned'
    BY <1>3, <1>7, <2>1, <2>2 DEF WriterInv, OneWriter, SpoolForWriter, Owned, SameBut, Caller
  <2> QED
    BY <1>1, <2>3 DEF WriterInv, SenderWrites, NobodyHolds, SendPCs, RenamePCs, PCs
<1> QED
  BY <1>5, <1>6, <1>7

\* The start of send_pending: the Pending stays while the callback runs.
LEMMA SendStartWriters ==
    ASSUME Inv, WriterInv, Idle, NEW op \in {"flush", "release", "truncate"}, NEW fd, NEW p \in Paths,
           NEW q \in Pendings, NEW size, Caller(op, fd, p), SendStart(op, fd, p, q, size)
    PROVE  WriterInv'
<1>1. ASSUME NEW rc \in {"ENOSPC", "EIO"}, Finish(op, fd, p, q, rc)
      PROVE  WriterInv'
  BY <1>1, FinishWriters, IdleSends DEF Codes
<1>2. ASSUME NEW pc \in {"announce", "aside", "delfirst"},
             pending' = [pending EXCEPT ![p] = q],
             Running(op, fd, p, p, pc, NoHandle, NoHandle), UNCHANGED <<kept, fds>>
      PROVE  WriterInv'
  <2>1. cb'.pc \in SendPCs /\ cb'.pc \notin RenamePCs /\ cb'.op = op /\ cb'.fd = fd /\ cb'.path = p
    BY <1>2 DEF Running, SendPCs, RenamePCs
  <2>2. \A r \in Paths : Writes(r)' = Writes(r)
    BY <1>2 DEF Writes
  <2>4. pending'[p] # None /\ SameBut(p)
    BY <1>2, NoneAssumption DEF SameBut, Inv, TypeOK
  <2>5. OneWriter' /\ SpoolForWriter'
    BY <2>2, <2>4 DEF WriterInv, OneWriter, SpoolForWriter, SameBut
  <2>6. SenderWrites' /\ NobodyHolds'
    BY <2>1, <2>2 DEF SenderWrites, NobodyHolds, Caller
  <2>7. Owned'
    BY <2>1, <2>2, <2>4, IdleSends DEF WriterInv, Owned, Truncating, SameBut, Caller
  <2> QED
    BY <2>5, <2>6, <2>7 DEF WriterInv
<1> QED
  BY <1>1, <1>2 DEF SendStart

\* A step that leaves the open files and the Pendings alone.
LEMMA UntouchedSame ==
    ASSUME UNCHANGED <<pending, fds>>
    PROVE  SameWriters /\ SamePending
BY DEF SameWriters, SamePending, Writes, Opens

\* getattr, readdir and unlink change no open file.
LEMMA LookWriters ==
    ASSUME WriterInv, \/ \E p \in Paths : OpGetattr(p) \/ OpUnlink(p)
                      \/ \E d \in Dirs : OpReaddir(d)
    PROVE  WriterInv'
<1>1. Idle /\ UNCHANGED <<pending, fds>> /\ cb'.pc = "idle"
  BY DEF OpGetattr, OpUnlink, OpReaddir, host, Answer, NotRunning, Idle
<1> QED
  BY <1>1, UntouchedSame, IdleSends, QuietWriters

\* op_open to write makes the first writer, of the Pending it finds or makes.
LEMMA OpenWriters ==
    ASSUME LoneWriters, Inv, WriterInv, NEW fd \in FDs, NEW p \in Paths, NEW w \in BOOLEAN,
           NEW trunc \in BOOLEAN, OpOpen(fd, p, w, trunc)
    PROVE  WriterInv'
<1>1. PICK r \in Resolve(listing, entry, p) : OpOpen(fd, p, w, trunc)!4!(r)
  BY DEF OpOpen
<1>2. Idle /\ fds[fd] = None /\ (w => Writes(p) = {})
  BY DEF OpOpen, LoneWriters
<1>3. cb'.pc = "idle"
  <2>1. cb' = NotRunning
    BY <1>1 DEF Answer
  <2> QED
    BY <2>1 DEF NotRunning
<1>4. CASE UNCHANGED <<pending, fds>>
  BY <1>2, <1>3, <1>4, UntouchedSame, IdleSends, QuietWriters
<1>5. CASE /\ ~w \/ pending[p] # None
           /\ fds' = [fds EXCEPT ![fd] = Opened(p, w)] /\ UNCHANGED pending
  <2>1. SamePending /\ SameBut(p)
    BY <1>5 DEF SamePending, SameBut
  <2> QED
    BY <1>2, <1>3, <1>5, <2>1, OpenedWriters
<1>6. ASSUME w, NEW x, NEW h, pending' = [pending EXCEPT ![p] = NewPending(x, h)],
             fds' = [fds EXCEPT ![fd] = Opened(p, TRUE)], x \in Data, h \in Handles
      PROVE  WriterInv'
  <2>1. NewPending(x, h) # None
    BY <1>6, NewPendingType, NoneAssumption
  <2>2. pending'[p] # None /\ SameBut(p)
    BY <1>6, <2>1 DEF SameBut, Inv, TypeOK
  <2> QED
    BY <1>2, <1>3, <1>6, <2>2, OpenedWriters
<1>7. ASSUME r.h # NoHandle, NEW a \in Adopted(r.h, r.entry[r.h].size, ~trunc)
      PROVE  a.data \in Data /\ r.h \in Handles
  <2>1. r.h \in Handles /\ r.entry \in EntryMaps /\ r.entry[r.h] # None
    BY <1>7, ResolveType, Parts DEF TreeOK, Inv
  <2>2. r.entry[r.h].size \in 0..MaxLen
    BY <2>1 DEF EntryMaps, Entries
  <2> QED
    BY <1>7, <2>1, <2>2, AdoptedType DEF Inv
<1> QED
  BY <1>1, <1>4, <1>5, <1>6, <1>7 DEF host

\* op_create makes the first writer: a writer would have a Pending.
LEMMA CreateWriters ==
    ASSUME Inv, WriterInv, NEW fd \in FDs, NEW p \in Paths, OpCreate(fd, p)
    PROVE  WriterInv'
<1>1. Idle /\ fds[fd] = None /\ Writes(p) = {} /\ cb'.pc = "idle"
  <2>1. cb' = NotRunning
    BY DEF OpCreate, Answer
  <2>2. pending[p] = None => Writes(p) = {}
    BY DEF WriterInv, SpoolForWriter
  <2> QED
    BY <2>1, <2>2 DEF NotRunning, OpCreate
<1>2. CASE UNCHANGED <<pending, fds>>
  BY <1>1, <1>2, UntouchedSame, IdleSends, QuietWriters
<1>3. CASE /\ pending' = [pending EXCEPT ![p] = NewPending(NoBytes, NoHandle)]
           /\ fds' = [fds EXCEPT ![fd] = Opened(p, TRUE)]
  <2>1. NewPending(NoBytes, NoHandle) # None
    BY NewPendingType, NoneAssumption DEF Data
  <2>2. pending'[p] # None /\ SameBut(p)
    BY <1>3, <2>1 DEF SameBut, Inv, TypeOK
  <2> QED
    BY <1>1, <1>3, <2>2, OpenedWriters
<1> QED
  BY <1>2, <1>3 DEF OpCreate

\* op_write and op_truncate of an open file change what the Pending holds.
LEMMA WriteWriters ==
    ASSUME Inv, WriterInv, NEW fd \in FDs, OpWrite(fd)
    PROVE  WriterInv'
<1> DEFINE p == fds[fd].path
<1>1. p \in Paths /\ Idle /\ cb'.pc = "idle"
  <2>1. Idle /\ fds[fd] # None /\ \E q, rc : Answer("write", q, fd, rc)
    BY DEF OpWrite
  <2>2. fds[fd] \in OpenFiles
    BY <2>1 DEF Inv, TypeOK
  <2>3. cb'.pc = "idle"
    BY <2>1 DEF Answer, NotRunning
  <2> QED
    BY <2>1, <2>2, <2>3 DEF OpenFiles
<1>2. CASE UNCHANGED <<pending, fds>>
  BY <1>1, <1>2, UntouchedSame, IdleSends, QuietWriters
<1>3. ASSUME pending[p] # None, NEW n \in {m \in 1..MaxLen : m >= pending[p].data.len},
             NEW x \in Changed(pending[p], n), Accepted(p, x)
      PROVE  WriterInv'
  <2>1. x \in Data
    BY ChangedType, BoundsAssumption
  <2> HIDE DEF p
  <2> QED
    BY <1>1, <1>3, <2>1, AcceptedSame, IdleSends, QuietWriters
<1>4. ASSUME pending[p] # None, UNCHANGED fds, NEW x \in Data,
             pending' = [pending EXCEPT ![p].data = x, ![p].broken = TRUE]
      PROVE  WriterInv'
  <2> DEFINE q == [[pending[p] EXCEPT !.data = x] EXCEPT !.broken = TRUE]
  <2>1. pending' = [pending EXCEPT ![p] = q]
    BY <1>1, <1>4 DEF Inv, TypeOK
  <2>2. pending[p] \in Pendings
    BY <1>1, <1>4 DEF Inv, TypeOK
  <2>3. q # None
    BY <2>2, NoneAssumption DEF Pendings
  <2> HIDE DEF p, q
  <2>4. SamePending
    BY <1>1, <1>4, <2>1, <2>3 DEF SamePending, Inv, TypeOK
  <2>5. SameWriters
    BY <1>4 DEF SameWriters, Writes, Opens
  <2> QED
    BY <1>1, <2>4, <2>5, IdleSends, QuietWriters
<1>5. ASSUME pending[p] # None, MaxLen > 0
      PROVE  [ver |-> Torn, len |-> IF pending[p].data.len = 0 THEN 1 ELSE pending[p].data.len] \in Data
  BY <1>1, <1>5, TornData DEF Inv, TypeOK, Pendings
<1> QED
  BY <1>2, <1>3, <1>4, <1>5 DEF OpWrite

\* op_truncate of a file that is open.
LEMMA TruncateSpoolWriters ==
    ASSUME Inv, WriterInv, NEW p \in Paths, NEW n \in 0..MaxLen, OpTruncateSpool(p, n)
    PROVE  WriterInv'
<1>1. Idle /\ cb'.pc = "idle" /\ pending[p] # None
  BY DEF OpTruncateSpool, Answer, NotRunning
<1>2. CASE UNCHANGED <<pending, fds>>
  BY <1>1, <1>2, UntouchedSame, IdleSends, QuietWriters
<1>3. ASSUME NEW x \in Data, Accepted(p, x)
      PROVE  WriterInv'
  BY <1>1, <1>3, AcceptedSame, IdleSends, QuietWriters
<1>4. n <= pending[p].data.len => Cut(pending[p].data, n) \in Data
  <2>1. pending[p].data \in Data /\ pending[p].data.len \in Nat
    BY <1>1, BoundsAssumption DEF Inv, TypeOK, Pendings, Data, NoBytes
  <2> QED
    BY <2>1, CutType
<1>5. \A x \in Changed(pending[p], n) : x \in Data
  BY ChangedType
<1> QED
  BY <1>2, <1>3, <1>4, <1>5 DEF OpTruncateSpool

\* flush and release send the Pending of the writer, or answer.
LEMMA CloseWriters ==
    ASSUME Inv, WriterInv, NEW fd \in FDs, OpFlush(fd) \/ OpRelease(fd)
    PROVE  WriterInv'
<1> DEFINE p == fds[fd].path
<1>1. p \in Paths /\ Idle /\ fds[fd] # None /\ fds[fd] \in OpenFiles
  BY DEF OpFlush, OpRelease, Inv, TypeOK, OpenFiles
<1>2. fds[fd].writer => fd \in Writes(p) /\ pending[p] # None
  BY <1>1 DEF Writes, WriterInv, SpoolForWriter
<1>3. pending[p] # None => pending[p] \in Pendings
  BY <1>1 DEF Inv, TypeOK
<1>4. ASSUME NEW rc, Answer("flush", p, fd, rc), UNCHANGED pending,
             fds' = [fds EXCEPT ![fd].flushed = TRUE]
      PROVE  WriterInv'
  <2>1. cb'.pc = "idle" /\ SamePending
    BY <1>4 DEF Answer, NotRunning, SamePending
  <2>2. /\ [fds[fd] EXCEPT !.flushed = TRUE] # None
        /\ [fds[fd] EXCEPT !.flushed = TRUE].path = fds[fd].path
        /\ [fds[fd] EXCEPT !.flushed = TRUE].writer = fds[fd].writer
    BY <1>1, NoneAssumption DEF OpenFiles
  <2>3. fds' = [fds EXCEPT ![fd] = [fds[fd] EXCEPT !.flushed = TRUE]]
    BY <1>4
  <2>4. SameWriters
    BY <1>1, <2>2, <2>3 DEF SameWriters, Writes, Opens, Inv, TypeOK
  <2> QED
    BY <1>1, <2>1, <2>4, IdleSends, QuietWriters
<1>5. ASSUME ~fds[fd].writer, Answer("release", p, fd, "OK"), UNCHANGED pending,
             fds' = [fds EXCEPT ![fd] = None]
      PROVE  WriterInv'
  <2>1. cb'.pc = "idle" /\ SamePending
    BY <1>5 DEF Answer, NotRunning, SamePending
  <2> QED
    BY <1>1, <1>5, <2>1, IdleSends, ClosedWriters
<1>6. ASSUME fds[fd].writer, Finish("release", fd, p, pending[p], "OK")
      PROVE  WriterInv'
  <2> HIDE DEF p
  <2> QED
    BY <1>1, <1>2, <1>3, <1>6, IdleSends, FinishWriters DEF Caller, Codes
<1>7. ASSUME fds[fd].writer, NEW op \in {"flush", "release"}, NEW size,
             SendStart(op, fd, p, pending[p], size)
      PROVE  WriterInv'
  <2> HIDE DEF p
  <2> QED
    BY <1>1, <1>2, <1>3, <1>7, SendStartWriters DEF Caller
<1>8. CASE OpFlush(fd)
  BY <1>2, <1>4, <1>7, <1>8 DEF OpFlush, Answered
<1>9. CASE OpRelease(fd)
  BY <1>2, <1>5, <1>6, <1>7, <1>9 DEF OpRelease, Answered
<1> QED
  BY <1>8, <1>9

\* What truncate makes of the contents it copied is a contents.
LEMMA TruncatedType ==
    ASSUME NEW n \in 0..MaxLen, NEW d \in Data,
           NEW x \in IF n <= d.len THEN {Cut(d, n)} ELSE [ver: Vers, len: {n}]
    PROVE  x \in Data
<1>1. d.len \in 0..MaxLen
  BY BoundsAssumption DEF Data, NoBytes
<1>2. CASE n <= d.len
  BY <1>1, <1>2, CutType, BoundsAssumption
<1>3. CASE ~(n <= d.len)
  <2>1. n \in 1..MaxLen
    BY <1>1, <1>3, BoundsAssumption
  <2> QED
    BY <1>3, <2>1 DEF Data
<1> QED
  BY <1>2, <1>3

\* truncate of a path without a Pending, and so without a writer.
LEMMA TruncateWriters ==
    ASSUME Inv, WriterInv, NEW p \in Paths, NEW n \in 0..MaxLen, OpTruncate(p, n)
    PROVE  WriterInv'
<1>1. PICK r \in Resolve(listing, entry, p) : OpTruncate(p, n)!2!(r)
  BY DEF OpTruncate
<1>2. Idle /\ Writes(p) = {} /\ Caller("truncate", None, p)
  <2>1. Idle /\ pending[p] = None
    BY DEF OpTruncate
  <2> QED
    BY <2>1 DEF WriterInv, SpoolForWriter, Caller
<1>3. ASSUME NEW rc, Answer("truncate", p, None, rc), UNCHANGED <<pending, fds>>
      PROVE  WriterInv'
  <2>1. cb'.pc = "idle"
    BY <1>3 DEF Answer, NotRunning
  <2> QED
    BY <1>2, <1>3, <2>1, UntouchedSame, IdleSends, QuietWriters
<1>4. ASSUME r.h # NoHandle, NEW a \in Adopted(r.h, r.entry[r.h].size, n > 0)
      PROVE  a.data \in Data /\ r.h \in Handles
  BY <1>4, ResolveType, AdoptedType, Parts DEF TreeOK, Inv
<1>5. ASSUME "setlen" \in Faults, NEW x \in Data, NEW h \in Handles, UNCHANGED fds,
             pending' = [pending EXCEPT ![p] = NewPending(x, h)],
             Answer("truncate", p, None, "EIO")
      PROVE  WriterInv'
  <2>1. cb'.pc = "idle"
    BY <1>5 DEF Answer, NotRunning
  <2>2. pending'[p] # None /\ SameBut(p)
    BY <1>5, NewPendingType, NoneAssumption DEF SameBut, Inv, TypeOK
  <2>3. \A q \in Paths : Writes(q)' = Writes(q)
    BY <1>5 DEF Writes
  <2>4. OneWriter' /\ SpoolForWriter' /\ Owned'
    BY <1>5, <2>2, <2>3 DEF WriterInv, OneWriter, SpoolForWriter, Owned, SameBut
  <2> QED
    BY <2>1, <2>4 DEF WriterInv, SenderWrites, NobodyHolds, SendPCs, RenamePCs, PCs
<1>6. ASSUME NEW x \in Data, NEW h \in Handles, NEW size,
             SendStart("truncate", None, p, NewPending(x, h), size)
      PROVE  WriterInv'
  BY <1>2, <1>6, NewPendingType, SendStartWriters
<1>7. ASSUME NEW d \in Data, NEW x \in IF n <= d.len THEN {Cut(d, n)} ELSE [ver: Vers, len: {n}]
      PROVE  x \in Data
  BY TruncatedType
<1>8. CASE r.h = NoHandle
  BY <1>1, <1>3, <1>8 DEF host
<1>9. CASE r.h # NoHandle
  <2>1. PICK a \in Adopted(r.h, r.entry[r.h].size, n > 0) :
          \/ a.rc # "OK" /\ Answer("truncate", p, None, a.rc) /\ UNCHANGED <<pending, fds>>
          \/ /\ "setlen" \in Faults /\ UNCHANGED fds
             /\ pending' = [pending EXCEPT ![p] = NewPending(a.data, r.h)]
             /\ Answer("truncate", p, None, "EIO")
          \/ \E x \in IF n <= a.data.len THEN {Cut(a.data, n)} ELSE [ver: Vers, len: {n}] :
                SendStart("truncate", None, p, NewPending(x, r.h), SizeIn(r.entry, r.h))
    BY <1>1, <1>9
  <2>2. a.data \in Data /\ r.h \in Handles
    BY <1>4, <1>9
  <2> QED
    BY <1>3, <1>5, <1>6, <1>7, <2>1, <2>2
<1> QED
  BY <1>8, <1>9

\* op_rename starts for paths nobody holds open.
LEMMA RenameWriters ==
    ASSUME LoneWriters, Inv, WriterInv, NEW from \in Paths, NEW to \in Paths, OpRename(from, to)
    PROVE  WriterInv'
<1>1. Idle /\ UNCHANGED <<pending, fds>> /\ Opens(from) = {} /\ Opens(to) = {}
  BY DEF OpRename, LoneWriters, host
<1>2. \/ cb'.pc = "idle"
      \/ cb'.pc \in RenamePCs /\ cb'.path = from /\ cb'.to = to
  <2>1. \A rc, h : RenameAnswer(to, h, rc) => cb'.pc = "idle"
    BY DEF RenameAnswer, NotRunning
  <2>2. \A pc, h, t : Running("rename", None, from, to, pc, h, t)
           => cb'.pc = pc /\ cb'.path = from /\ cb'.to = to
    BY DEF Running
  <2>3. "ren_aside" \in RenamePCs /\ RenameRest(from, to) \in RenamePCs
    BY RestType DEF RenamePCs, PCs, SendPCs
  <2> QED
    BY <2>1, <2>2, <2>3 DEF OpRename
<1>3. CASE cb'.pc = "idle"
  BY <1>1, <1>3, UntouchedSame, IdleSends, QuietWriters
<1>4. CASE cb'.pc \in RenamePCs /\ cb'.path = from /\ cb'.to = to
  <2>1. SameWriters /\ SamePending
    BY <1>1, UntouchedSame
  <2>2. OneWriter' /\ SpoolForWriter' /\ Owned'
    BY <1>1, <2>1, IdleSends
       DEF WriterInv, OneWriter, SpoolForWriter, Owned, SameWriters, SamePending
  <2>3. NobodyHolds' /\ SenderWrites'
    BY <1>1, <1>4, <2>1 DEF NobodyHolds, SenderWrites, SameWriters, RenamePCs
  <2> QED
    BY <2>2, <2>3 DEF WriterInv
<1> QED
  BY <1>2, <1>3, <1>4

\* A step of send_pending that goes on.
LEMMA SendOnWriters ==
    ASSUME Inv, WriterInv, cb.pc \in SendPCs, cb'.pc \in SendPCs, cb'.op = cb.op, cb'.fd = cb.fd,
           cb'.path = cb.path, UNCHANGED fds, SamePending
    PROVE  WriterInv'
<1>1. SameWriters /\ cb.path \in Paths /\ cb'.pc \notin RenamePCs
  BY SendContext DEF SameWriters, Writes, Opens, RenamePCs
<1>2. OneWriter' /\ SpoolForWriter' /\ Owned'
  BY <1>1 DEF WriterInv, OneWriter, SpoolForWriter, Owned, Truncating, SameWriters, SamePending
<1>3. SenderWrites' /\ NobodyHolds'
  BY <1>1 DEF WriterInv, SenderWrites, NobodyHolds, SameWriters
<1> QED
  BY <1>2, <1>3 DEF WriterInv

\* A step of send_pending that ends it.
LEMMA SendEndWriters ==
    ASSUME Inv, WriterInv, cb.pc \in SendPCs, NEW q \in Pendings, NEW rc \in {"OK", "EIO"},
           Finish(cb.op, cb.fd, cb.path, q, rc)
    PROVE  WriterInv'
<1>1. Caller(cb.op, cb.fd, cb.path)
  BY DEF Caller, WriterInv, SenderWrites
<1>2. \A r \in Paths : Truncating(r) => r = cb.path /\ cb.op = "truncate"
  BY DEF Truncating
<1>3. cb.op \in {"flush", "release", "truncate"} /\ cb.path \in Paths
  BY SendContext
<1> QED
  BY <1>1, <1>2, <1>3, FinishWriters DEF Codes

\* The Pending, with the marks that send_pending sets on it, is a Pending.
LEMMA MarkedPending ==
    ASSUME Inv, cb.pc \in SendPCs
    PROVE  /\ [Q EXCEPT !.replaces = NoHandle] \in Pendings
           /\ [Q EXCEPT !.keep = @ \/ cb.gone] \in Pendings
BY SendContext DEF Pendings, Callbacks

\* A failure ends the send, or goes on to put the old object back.
LEMMA AfterFailureWriters ==
    ASSUME Inv, WriterInv, cb.pc \in SendPCs, AfterFailure
    PROVE  WriterInv'
<1>1. CASE Q.replaces # NoHandle
  <2>1. Goto("putback") /\ UNCHANGED <<pending, fds>>
    BY <1>1 DEF AfterFailure
  <2>2. cb'.pc = "putback" /\ cb'.op = cb.op /\ cb'.fd = cb.fd /\ cb'.path = cb.path
    BY <2>1, SendContext, GotoType DEF PCs
  <2> QED
    BY <2>1, <2>2, UntouchedSame, SendOnWriters DEF SendPCs
<1>2. CASE Q.replaces = NoHandle
  BY <1>2, MarkedPending, SendEndWriters DEF AfterFailure, SendFailed
<1> QED
  BY <1>1, <1>2

\* Every step of send_pending.
LEMMA SendStepWriters == ASSUME Inv, WriterInv, SendStep PROVE WriterInv'
<1>1. cb.pc \in SendPCs
  BY DEF SendStep, SendAside, SendDeleteFirst, SendAnnounce, SendData, SendDeleteOld, SendPutBack, SendPCs
<1>2. ASSUME NEW pc \in SendPCs, Goto(pc), UNCHANGED <<pending, fds>>
      PROVE  WriterInv'
  <2>1. cb'.pc = pc /\ cb'.op = cb.op /\ cb'.fd = cb.fd /\ cb'.path = cb.path
    BY <1>1, <1>2, SendContext, GotoType DEF SendPCs, PCs
  <2> QED
    BY <1>1, <1>2, <2>1, UntouchedSame, SendOnWriters
<1>3. Q \in Pendings /\ [Q EXCEPT !.replaces = NoHandle] \in Pendings
  BY <1>1, SendContext, MarkedPending
<1>4. ASSUME NEW q \in Pendings, NEW rc \in {"OK", "EIO"}, Finish(cb.op, cb.fd, cb.path, q, rc)
      PROVE  WriterInv'
  BY <1>1, <1>4, SendEndWriters
<1>5. AfterFailure => WriterInv'
  BY <1>1, AfterFailureWriters
<1>6. CASE SendAside
  BY <1>2, <1>3, <1>4, <1>6 DEF SendAside, SendPCs
<1>7. CASE SendDeleteFirst
  <2>1. ASSUME pending' = [pending EXCEPT ![cb.path].replaces = NoHandle],
               cb' = [cb EXCEPT !.pc = "announce", !.gone = TRUE], UNCHANGED fds
        PROVE  WriterInv'
    <3>1. cb \in Callbacks /\ cb.path \in Paths
      BY <1>1, SendContext
    <3>2. cb'.pc = "announce" /\ cb'.op = cb.op /\ cb'.fd = cb.fd /\ cb'.path = cb.path
      BY <2>1, <3>1 DEF Callbacks
    <3>3. pending' = [pending EXCEPT ![cb.path] = [Q EXCEPT !.replaces = NoHandle]]
      BY <2>1, <3>1 DEF Q, Inv, TypeOK
    <3>4. SamePending
      BY <1>1, <1>3, <3>1, <3>3, SendContext, NoneAssumption DEF SamePending, Q, Inv, TypeOK
    <3> QED
      BY <1>1, <2>1, <3>2, <3>4, SendOnWriters DEF SendPCs
  <2> QED
    BY <1>3, <1>4, <1>7, <2>1 DEF SendDeleteFirst
<1>8. CASE SendAnnounce
  <2>1. ASSUME NEW h, cb' = [cb EXCEPT !.pc = "data", !.h = h], UNCHANGED <<pending, fds>>
        PROVE  WriterInv'
    <3>1. cb'.pc = "data" /\ cb'.op = cb.op /\ cb'.fd = cb.fd /\ cb'.path = cb.path
      BY <1>1, <2>1, SendContext DEF Callbacks
    <3> QED
      BY <1>1, <2>1, <3>1, UntouchedSame, SendOnWriters DEF SendPCs
  <2> QED
    BY <1>5, <1>8, <2>1 DEF SendAnnounce
<1>9. CASE SendData
  BY <1>2, <1>3, <1>4, <1>5, <1>9 DEF SendData, SendPCs
<1>10. CASE SendDeleteOld \/ SendPutBack
  BY <1>3, <1>4, <1>10 DEF SendDeleteOld, SendPutBack
<1> QED
  BY <1>6, <1>7, <1>8, <1>9, <1>10 DEF SendStep

\* Every step of op_rename: nobody holds the path, so no open file moves.
LEMMA RenameStepWriters == ASSUME Inv, WriterInv, RenameStep PROVE WriterInv' /\ UNCHANGED fds
<1>1. cb.pc \in RenamePCs /\ cb.pc \in PCs \ SendPCs
  BY DEF RenameStep, RenameAside, RenameMove, RenameName, RenamePutBack, RenameDelete, RenamePCs, PCs, SendPCs
<1>2. pending' = pending
  BY DEF RenameStep, RenameAside, RenameMove, RenameName, RenamePutBack, RenameDelete, host
<1>3. cb \in Callbacks /\ Opens(cb.path) = {} /\ Opens(cb.to) = {} /\ cb.path \in Paths /\ cb.to \in Paths
  BY <1>1, RenameContext DEF WriterInv, NobodyHolds
<1>4. ASSUME NEW rc, RenameDone(rc)
      PROVE  cb'.pc = "idle" /\ UNCHANGED fds
  BY <1>3, <1>4 DEF RenameDone, RenameAnswer, NotRunning, Inv, TypeOK
<1>5. ASSUME NEW pc \in RenamePCs, Goto(pc)
      PROVE  cb'.pc \in RenamePCs /\ cb'.path = cb.path /\ cb'.to = cb.to
  BY <1>3, <1>5, GotoType DEF RenamePCs
<1>6. /\ UNCHANGED fds
      /\ cb'.pc = "idle" \/ (cb'.pc \in RenamePCs /\ cb'.path = cb.path /\ cb'.to = cb.to)
  <2>0. {"ren_name", "ren_del", "ren_back"} \subseteq RenamePCs /\ RenameRest(cb.path, cb.to) \in RenamePCs
    BY RestType DEF RenamePCs, PCs, SendPCs
  <2>1. CASE RenameAside
    BY <1>4, <1>5, <2>0, <2>1 DEF RenameAside
  <2>2. CASE RenameMove
    BY <1>4, <1>5, <2>0, <2>2 DEF RenameMove
  <2>3. CASE RenameName
    BY <1>4, <1>5, <2>0, <2>3 DEF RenameName
  <2>4. CASE RenamePutBack \/ RenameDelete
    BY <1>4, <2>4 DEF RenamePutBack, RenameDelete
  <2> QED
    BY <2>1, <2>2, <2>3, <2>4 DEF RenameStep
<1>7. SameWriters /\ SamePending
  BY <1>2, <1>6, UntouchedSame
<1>8. \A p \in Paths : ~Truncating(p)
  BY <1>1 DEF Truncating, RenamePCs
<1>9. CASE cb'.pc = "idle"
  BY <1>6, <1>7, <1>8, <1>9, QuietWriters
<1>10. CASE cb'.pc \in RenamePCs /\ cb'.path = cb.path /\ cb'.to = cb.to
  <2>1. OneWriter' /\ SpoolForWriter' /\ Owned'
    BY <1>7, <1>8 DEF WriterInv, OneWriter, SpoolForWriter, Owned, SameWriters, SamePending
  <2>2. NobodyHolds' /\ SenderWrites'
    BY <1>3, <1>7, <1>10 DEF NobodyHolds, SenderWrites, SameWriters, RenamePCs
  <2> QED
    BY <1>6, <2>1, <2>2 DEF WriterInv
<1> QED
  BY <1>6, <1>9, <1>10

\* A mount starts with no open file and no Pending.
LEMMA FreshWriters ==
    ASSUME pending' = [p \in Paths |-> None], fds' = [f \in FDs |-> None], cb' = NotRunning
    PROVE  WriterInv'
<1>1. \A p : Writes(p)' = {}
  BY DEF Writes
<1>2. OneWriter' /\ SpoolForWriter' /\ Owned'
  BY <1>1 DEF OneWriter, SpoolForWriter, Owned
<1> QED
  BY <1>2 DEF WriterInv, SenderWrites, NobodyHolds, NotRunning, SendPCs, RenamePCs, PCs

\* Every step keeps the writers and the Pendings together.
LEMMA NextWriters == LoneWriters /\ Inv /\ WriterInv /\ [Next]_vars => WriterInv'
<1> SUFFICES ASSUME LoneWriters, Inv, WriterInv, [Next]_vars PROVE WriterInv'
  OBVIOUS
<1>1. CASE UNCHANGED vars
  BY <1>1 DEF vars, WriterInv, OneWriter, SpoolForWriter, SenderWrites, NobodyHolds, Owned,
     Truncating, Writes, Opens
<1>2. CASE Crash \/ Unmount
  BY <1>2, FreshWriters DEF Crash, Unmount, Remount
<1>3. CASE Next
  BY <1>2, <1>3, LookWriters, OpenWriters, CreateWriters, WriteWriters, CloseWriters, TruncateSpoolWriters,
     TruncateWriters, RenameWriters, SendStepWriters, RenameStepWriters DEF Next
<1> QED
  BY <1>1, <1>3

\* The first mount starts with no open file and no Pending.
LEMMA InitWriters == Init => WriterInv
<1> SUFFICES ASSUME Init PROVE WriterInv
  OBVIOUS
<1>1. \A p : Writes(p) = {}
  BY DEF Init, Writes
<1>2. OneWriter /\ SpoolForWriter /\ Owned
  BY <1>1 DEF Init, OneWriter, SpoolForWriter, Owned
<1> QED
  BY <1>2 DEF Init, WriterInv, SenderWrites, NobodyHolds, NotRunning, SendPCs, RenamePCs, PCs

\* A program that opened a file to write it keeps its spool file until it
\* closes the file, whoever else opens, reads, truncates or closes the same
\* path and whatever fails, as long as each path has one writer at a time
\* and is not renamed while it has one (FH_WRITER, op_release).
THEOREM WritersKeepSpools == ASSUME LoneWriters PROVE Spec => []WriterHasSpool
<1>1. Spec => []Inv
  BY InitInv, NextInv, PTL DEF Spec
<1>2. Spec /\ []Inv => []WriterInv
  <2>1. Inv /\ WriterInv /\ [Next]_vars => WriterInv'
    BY NextWriters
  <2> QED
    BY <2>1, InitWriters, PTL DEF Spec
<1>3. Inv /\ WriterInv => WriterHasSpool
  BY DEF Inv, TypeOK, OpenFiles, WriterInv, SpoolForWriter, WriterHasSpool, Writes
<1> QED
  BY <1>1, <1>2, <1>3, PTL

-----------------------------------------------------------------------------
(* What a callback does to the handles that the mount remembers.           *)

\* Every Pending replaces the object it replaced before, or none, or, at
\* the path, the object h that the callback found there.
KeepsReplaces(p, h) == \A q \in Paths : pending'[q] # None =>
    \/ pending'[q].replaces = NoHandle
    \/ pending[q] # None /\ pending'[q].replaces = pending[q].replaces
    \/ q = p /\ pending'[q].replaces = h

\* A callback found r at the path; the tree it leaves is the one of r, with
\* a folder forgotten, perhaps.
Found(p, r) ==
    /\ r \in Resolve(listing, entry, p)
    /\ entry' = r.entry
    /\ listing' = r.listing \/ listing' = Forget(r.listing, p.dir)
    /\ KeepsReplaces(p, r.h)

\* The callback answered, or starts send_pending.
StartPCs == {"idle", "announce", "aside", "delfirst"}
Starts == cb'.pc \in StartPCs /\ (cb'.pc = "idle" \/ reply' = NoReply)

\* One Pending changes.
LEMMA OneReplaces ==
    ASSUME Inv, NEW p \in Paths, NEW h, NEW q, pending' = [pending EXCEPT ![p] = q],
           \/ q = None
           \/ q.replaces = NoHandle
           \/ pending[p] # None /\ q.replaces = pending[p].replaces
           \/ q.replaces = h
    PROVE  KeepsReplaces(p, h)
BY DEF KeepsReplaces, Inv, TypeOK

\* No Pending changes.
LEMMA SameReplaces == ASSUME UNCHANGED pending PROVE \A p, h : KeepsReplaces(p, h)
BY DEF KeepsReplaces

\* The end of send_pending.
LEMMA FinishReplaces ==
    ASSUME Inv, NEW op, NEW fd, NEW p \in Paths, NEW q \in Pendings, NEW rc, NEW h,
           \/ q.replaces = NoHandle
           \/ pending[p] # None /\ q.replaces = pending[p].replaces
           \/ q.replaces = h,
           Finish(op, fd, p, q, rc)
    PROVE  KeepsReplaces(p, h) /\ Starts /\ cb' = NotRunning
<1> DEFINE q2 == IF PutsBack(op) THEN [q EXCEPT !.sent = rc] ELSE None
<1>1. pending' = [pending EXCEPT ![p] = q2]
  BY DEF Finish
<1>2. q2 = None \/ q2.replaces = q.replaces
  BY DEF Pendings
<1> HIDE DEF q2
<1>3. KeepsReplaces(p, h)
  BY <1>1, <1>2, OneReplaces
<1>4. cb' = NotRunning
  BY DEF Finish, Answer
<1> QED
  BY <1>3, <1>4 DEF Starts, StartPCs, NotRunning

\* The start of send_pending.
LEMMA SendStartReplaces ==
    ASSUME Inv, NEW op, NEW fd, NEW p \in Paths, NEW q \in Pendings, NEW size, NEW h,
           \/ pending[p] # None /\ q.replaces = pending[p].replaces
           \/ q.replaces = h,
           SendStart(op, fd, p, q, size)
    PROVE  KeepsReplaces(p, h) /\ Starts
<1>1. ASSUME NEW rc, Finish(op, fd, p, q, rc)
      PROVE  KeepsReplaces(p, h) /\ Starts
  BY <1>1, FinishReplaces
<1>2. ASSUME NEW pc \in StartPCs, pending' = [pending EXCEPT ![p] = q],
             Running(op, fd, p, p, pc, NoHandle, NoHandle)
      PROVE  KeepsReplaces(p, h) /\ Starts
  BY <1>2, OneReplaces DEF Running, Starts
<1> QED
  BY <1>1, <1>2 DEF SendStart, StartPCs

\* getattr, unlink, open, create and truncate look the path up.
LEMMA FindEffect ==
    ASSUME Inv, NEW p \in Paths,
           \/ OpGetattr(p)
           \/ OpUnlink(p)
           \/ \E fd \in FDs, w, trunc \in BOOLEAN : OpOpen(fd, p, w, trunc)
           \/ \E fd \in FDs : OpCreate(fd, p)
           \/ \E n \in 0..MaxLen : OpTruncate(p, n)
    PROVE  (\E r : Found(p, r)) /\ Starts /\ Idle /\ nextH' = nextH
<1>0. \A op, fd, rc : Answer(op, p, fd, rc) => Starts
  BY DEF Answer, Starts, StartPCs, NotRunning
<1>1. CASE OpGetattr(p)
  <2>1. KeepsReplaces(p, NoHandle) /\ \A h : KeepsReplaces(p, h)
    BY <1>1, SameReplaces DEF OpGetattr, host
  <2>2. Starts
    BY <1>1 DEF OpGetattr, Starts, StartPCs, Idle
  <2> QED
    BY <1>1, <2>1, <2>2 DEF OpGetattr, Found, device
<1>2. CASE OpUnlink(p)
  <2>1. PICK r \in Resolve(listing, entry, p) : OpUnlink(p)!2!(r)
    BY <1>2 DEF OpUnlink
  <2>2. KeepsReplaces(p, r.h)
    BY <1>2, SameReplaces DEF OpUnlink, host
  <2>3. Found(p, r)
    BY <2>1, <2>2 DEF Found
  <2> QED
    BY <1>0, <1>2, <2>1, <2>3 DEF OpUnlink
<1>3. ASSUME NEW fd \in FDs, NEW w \in BOOLEAN, NEW trunc \in BOOLEAN, OpOpen(fd, p, w, trunc)
      PROVE  (\E r : Found(p, r)) /\ Starts /\ Idle /\ nextH' = nextH
  <2>1. PICK r \in Resolve(listing, entry, p) : OpOpen(fd, p, w, trunc)!4!(r)
    BY <1>3 DEF OpOpen
  <2>2. ASSUME NEW x, pending' = [pending EXCEPT ![p] = NewPending(x, r.h)]
        PROVE  KeepsReplaces(p, r.h)
    BY <2>2, OneReplaces DEF NewPending
  <2>3. pending' = pending \/ \E x : pending' = [pending EXCEPT ![p] = NewPending(x, r.h)]
    BY <2>1 DEF host
  <2>4. Found(p, r)
    BY <2>1, <2>2, <2>3, SameReplaces DEF Found
  <2>5. Starts
    BY <1>0, <2>1
  <2> QED
    BY <1>3, <2>4, <2>5 DEF OpOpen, device
<1>4. ASSUME NEW fd \in FDs, OpCreate(fd, p)
      PROVE  (\E r : Found(p, r)) /\ Starts /\ Idle /\ nextH' = nextH
  <2>1. PICK r \in Resolve(listing, entry, p) : r.h = NoHandle /\ listing' = r.listing /\ entry' = r.entry
    BY <1>4 DEF OpCreate
  <2>2. pending' = pending \/ pending' = [pending EXCEPT ![p] = NewPending(NoBytes, NoHandle)]
    BY <1>4 DEF OpCreate
  <2>3. KeepsReplaces(p, r.h)
    BY <2>2, OneReplaces, SameReplaces DEF NewPending
  <2>4. Found(p, r)
    BY <2>1, <2>3 DEF Found
  <2>5. Starts
    BY <1>0, <1>4 DEF OpCreate
  <2> QED
    BY <1>4, <2>4, <2>5 DEF OpCreate, device
<1>5. ASSUME NEW n \in 0..MaxLen, OpTruncate(p, n)
      PROVE  (\E r : Found(p, r)) /\ Starts /\ Idle /\ nextH' = nextH
  <2>1. PICK r \in Resolve(listing, entry, p) : OpTruncate(p, n)!2!(r)
    BY <1>5 DEF OpTruncate
  <2>2. ASSUME NEW x, NEW rc, pending' = [pending EXCEPT ![p] = NewPending(x, r.h)],
               Answer("truncate", p, None, rc)
        PROVE  KeepsReplaces(p, r.h) /\ Starts
    BY <1>0, <2>2, OneReplaces DEF NewPending
  <2>3. ASSUME r.h # NoHandle, NEW a \in Adopted(r.h, r.entry[r.h].size, n > 0),
               NEW x \in IF n <= a.data.len THEN {Cut(a.data, n)} ELSE [ver: Vers, len: {n}], NEW size,
               SendStart("truncate", None, p, NewPending(x, r.h), size)
        PROVE  KeepsReplaces(p, r.h) /\ Starts
    <3>1. a.data \in Data /\ r.h \in Handles
      BY <2>3, ResolveType, AdoptedType, Parts DEF TreeOK, Inv
    <3>2. x \in Data
      BY <2>3, <3>1, TruncatedType
    <3>3. NewPending(x, r.h) \in Pendings /\ NewPending(x, r.h).replaces = r.h
      BY <3>1, <3>2, NewPendingType DEF NewPending
    <3> QED
      BY <2>3, <3>3, SendStartReplaces
  <2>4. KeepsReplaces(p, r.h) /\ Starts
    <3>1. CASE r.h = NoHandle
      BY <1>0, <2>1, <3>1, SameReplaces DEF host
    <3>2. CASE r.h # NoHandle
      BY <1>0, <2>1, <2>2, <2>3, <3>2, SameReplaces
    <3> QED
      BY <3>1, <3>2
  <2>5. Found(p, r)
    BY <2>1, <2>4 DEF Found
  <2> QED
    BY <1>5, <2>4, <2>5 DEF OpTruncate, device
<1> QED
  BY <1>1, <1>2, <1>3, <1>4, <1>5

\* write, flush, release, and truncate of an open file, leave the tree and
\* the cellphone alone.
LEMMA SpoolEffect ==
    ASSUME Inv,
           \/ \E fd \in FDs : OpWrite(fd) \/ OpFlush(fd) \/ OpRelease(fd)
           \/ \E p \in Paths, n \in 0..MaxLen : OpTruncateSpool(p, n)
    PROVE  /\ \E p \in Paths : KeepsReplaces(p, NoHandle)
           /\ Starts /\ Idle /\ UNCHANGED <<device, tree>>
<1>0. \A op, p, fd, rc : Answer(op, p, fd, rc) => Starts
  BY DEF Answer, Starts, StartPCs, NotRunning
<1>1. ASSUME NEW p \in Paths, pending[p] # None, NEW x, Accepted(p, x)
      PROVE  KeepsReplaces(p, NoHandle)
  <2>1. pending[p] \in Pendings
    BY <1>1 DEF Inv, TypeOK
  <2>2. [pending[p] EXCEPT !.data = x].replaces = pending[p].replaces
    BY <2>1 DEF Pendings
  <2>3. pending' = [pending EXCEPT ![p] = [pending[p] EXCEPT !.data = x]]
    BY <1>1 DEF Accepted
  <2> QED
    BY <1>1, <2>2, <2>3, OneReplaces
<1>2. ASSUME NEW fd \in FDs, OpWrite(fd)
      PROVE  (\E p \in Paths : KeepsReplaces(p, NoHandle)) /\ Starts
  <2> DEFINE p == fds[fd].path
  <2>1. p \in Paths
    BY <1>2 DEF OpWrite, Inv, TypeOK, OpenFiles
  <2>2. Starts
    BY <1>0, <1>2 DEF OpWrite
  <2>3. ASSUME pending[p] # None, NEW x, pending' = [pending EXCEPT ![p].data = x, ![p].broken = TRUE]
        PROVE  KeepsReplaces(p, NoHandle)
    <3> DEFINE q == [[pending[p] EXCEPT !.data = x] EXCEPT !.broken = TRUE]
    <3>1. pending[p] \in Pendings
      BY <2>1, <2>3 DEF Inv, TypeOK
    <3>2. q.replaces = pending[p].replaces
      BY <3>1 DEF Pendings
    <3>3. pending' = [pending EXCEPT ![p] = q]
      BY <2>1, <2>3 DEF Inv, TypeOK
    <3> HIDE DEF p, q
    <3> QED
      BY <2>1, <2>3, <3>2, <3>3, OneReplaces
  <2>4. KeepsReplaces(p, NoHandle)
    BY <1>1, <1>2, <2>1, <2>3, SameReplaces DEF OpWrite
  <2> QED
    BY <2>1, <2>2, <2>4
<1>3. ASSUME NEW fd \in FDs, OpFlush(fd) \/ OpRelease(fd)
      PROVE  (\E p \in Paths : KeepsReplaces(p, NoHandle)) /\ Starts
  <2> DEFINE p == fds[fd].path
  <2>1. p \in Paths
    BY <1>3 DEF OpFlush, OpRelease, Inv, TypeOK, OpenFiles
  <2>2. pending[p] # None => pending[p] \in Pendings
    BY <2>1 DEF Inv, TypeOK
  <2>3. ASSUME pending[p] # None, NEW op, NEW size, SendStart(op, fd, p, pending[p], size)
        PROVE  KeepsReplaces(p, NoHandle) /\ Starts
    <3> HIDE DEF p
    <3> QED
      BY <2>1, <2>2, <2>3, SendStartReplaces
  <2>4. ASSUME pending[p] # None, Finish("release", fd, p, pending[p], "OK")
        PROVE  KeepsReplaces(p, NoHandle) /\ Starts
    <3> HIDE DEF p
    <3> QED
      BY <2>1, <2>2, <2>4, FinishReplaces
  <2>5. KeepsReplaces(p, NoHandle) /\ Starts
    BY <1>0, <1>3, <2>3, <2>4, SameReplaces DEF OpFlush, OpRelease, Answered
  <2> QED
    BY <2>1, <2>5
<1>4. ASSUME NEW p \in Paths, NEW n \in 0..MaxLen, OpTruncateSpool(p, n)
      PROVE  KeepsReplaces(p, NoHandle) /\ Starts
  BY <1>0, <1>1, <1>4, SameReplaces DEF OpTruncateSpool
<1>5. Idle /\ UNCHANGED <<device, tree>>
  BY DEF OpWrite, OpFlush, OpRelease, OpTruncateSpool
<1> QED
  BY <1>2, <1>3, <1>4, <1>5

\* What each step of send_pending does to the Pendings and to the tree.
LEMMA SendEffect ==
    ASSUME Inv, SendStep
    PROVE  /\ cb.pc \in SendPCs /\ KeepsReplaces(cb.path, NoHandle) /\ entry' = entry
           /\ listing' = listing \/ listing' = Forget(listing, cb.path.dir)
           /\ \/ cb' = NotRunning
              \/ /\ cb'.pc \in SendPCs /\ cb'.path = cb.path /\ cb'.op = cb.op /\ cb'.fd = cb.fd
                 /\ UNCHANGED <<reply, listing, fds>>
<1>0. cb.pc \in SendPCs
  BY DEF SendStep, SendAside, SendDeleteFirst, SendAnnounce, SendData, SendDeleteOld, SendPutBack, SendPCs
<1>1. cb.path \in Paths /\ cb \in Callbacks /\ Q \in Pendings /\ pending[cb.path] = Q /\ Q # None
  BY <1>0, SendContext DEF Q
<1> DEFINE Ended == KeepsReplaces(cb.path, NoHandle) /\ cb' = NotRunning
           GoesOn == /\ KeepsReplaces(cb.path, NoHandle) /\ cb'.pc \in SendPCs /\ cb'.path = cb.path
                     /\ cb'.op = cb.op /\ cb'.fd = cb.fd
<1>2. ASSUME NEW rc, NEW q \in Pendings, q.replaces \in {Q.replaces, NoHandle},
             Finish(cb.op, cb.fd, cb.path, q, rc)
      PROVE  Ended
  BY <1>1, <1>2, FinishReplaces
<1>3. ASSUME NEW pc \in SendPCs, Goto(pc), UNCHANGED pending
      PROVE  GoesOn
  BY <1>1, <1>3, GotoType, SameReplaces DEF SendPCs, PCs
<1>4. /\ [Q EXCEPT !.replaces = NoHandle] \in Pendings /\ [Q EXCEPT !.replaces = NoHandle].replaces = NoHandle
      /\ [Q EXCEPT !.keep = @ \/ cb.gone] \in Pendings
      /\ [Q EXCEPT !.keep = @ \/ cb.gone].replaces = Q.replaces
  BY <1>1, MarkedPending, <1>0 DEF Pendings
<1>5. ASSUME AfterFailure
      PROVE  \/ Ended /\ listing' = Forget(listing, cb.path.dir)
             \/ GoesOn /\ UNCHANGED <<reply, listing, fds>>
  BY <1>2, <1>3, <1>4, <1>5 DEF AfterFailure, SendFailed, SendPCs
<1>6. CASE SendAside
  BY <1>0, <1>1, <1>2, <1>3, <1>6 DEF SendAside, tree, SendPCs
<1>7. CASE SendDeleteFirst
  <2>1. ASSUME pending' = [pending EXCEPT ![cb.path].replaces = NoHandle],
               cb' = [cb EXCEPT !.pc = "announce", !.gone = TRUE]
        PROVE  GoesOn
    <3>1. pending' = [pending EXCEPT ![cb.path] = [Q EXCEPT !.replaces = NoHandle]]
      BY <1>1, <2>1 DEF Inv, TypeOK
    <3>2. KeepsReplaces(cb.path, NoHandle)
      BY <1>1, <1>4, <3>1, OneReplaces
    <3> QED
      BY <1>1, <2>1, <3>2 DEF Callbacks, SendPCs
  <2> QED
    BY <1>0, <1>1, <1>2, <1>7, <2>1 DEF SendDeleteFirst, tree
<1>8. CASE SendAnnounce
  <2>1. ASSUME NEW h, cb' = [cb EXCEPT !.pc = "data", !.h = h], UNCHANGED pending
        PROVE  GoesOn
    BY <1>1, <2>1, SameReplaces DEF Callbacks, SendPCs
  <2> HIDE DEF Ended, GoesOn
  <2>2. entry' = entry /\ (\/ GoesOn /\ UNCHANGED <<reply, listing, fds>>
                           \/ Ended /\ listing' = Forget(listing, cb.path.dir))
    BY <1>5, <1>8, <2>1 DEF SendAnnounce
  <2> QED
    BY <1>0, <2>2 DEF Ended, GoesOn
<1>9. CASE SendData
  <2> HIDE DEF Ended, GoesOn
  <2>1. "delold" \in SendPCs
    BY DEF SendPCs
  <2>2. entry' = entry /\ (\/ GoesOn /\ UNCHANGED <<reply, listing, fds>>
                           \/ Ended /\ listing' = Forget(listing, cb.path.dir))
    BY <1>1, <1>2, <1>3, <1>5, <1>9, <2>1 DEF SendData
  <2> QED
    BY <1>0, <2>2 DEF Ended, GoesOn
<1>10. CASE SendDeleteOld \/ SendPutBack
  BY <1>0, <1>1, <1>2, <1>4, <1>10 DEF SendDeleteOld, SendPutBack
<1> QED
  BY <1>6, <1>7, <1>8, <1>9, <1>10 DEF SendStep

-----------------------------------------------------------------------------
(* What an operation does to the objects of the cellphone.                 *)

\* The step changes no object but h.
OnlyObject(h) == \A g \in Handles : g # h => objs'[g] = objs[g]
\* The step leaves no object where none was.
NoneNew == \A g \in Handles : objs'[g] # None => objs[g] # None

\* What the host was told was done; without the fault, what was done was told.
LEMMA EndsTold ==
    ASSUME NEW kind, NEW can \in BOOLEAN, NEW e \in Ends(kind, can)
    PROVE  (e.told => e.done) /\ (kind \notin Faults => (e.done => e.told))
BY DEF Ends

\* rename_object moves one object to a name that was free.
LEMMA RenamedIs ==
    ASSUME Inv, NEW h, NEW n \in Names, NEW a \in 0..MaxCount, NEW e \in RenameEnds(h, n, a),
           objs' = Renamed(h, n, a, e)
    PROVE  /\ OnlyObject(h) /\ NoneNew
           /\ ~e.done => objs' = objs
           /\ e.done => /\ h \in Handles /\ objs[h] # None /\ objs'[h] # None
                        /\ objs'[h].dir = objs[h].dir /\ objs'[h].name = n
                        /\ objs'[h].aside = a /\ objs'[h].data = objs[h].data
           /\ e.told => e.done
           /\ "rename" \notin Faults => (e.done => e.told)
<1>1. CASE ~e.done
  BY <1>1, EndsTold DEF Renamed, OnlyObject, NoneNew, RenameEnds, Free
<1>2. CASE e.done
  <2>1. h \in Handles /\ objs[h] # None
    BY <1>2, EndsDone DEF RenameEnds
  <2>2. objs[h] \in Objects
    BY <2>1 DEF Inv, TypeOK
  <2> DEFINE o == [[objs[h] EXCEPT !.name = n] EXCEPT !.aside = a]
  <2>3. /\ o.data = objs[h].data /\ o.dir = objs[h].dir /\ o.name = n /\ o.aside = a /\ o # None
    BY <2>2, NoneAssumption DEF Objects
  <2>4. objs' = [objs EXCEPT ![h] = o]
    BY <1>2 DEF Renamed
  <2>5. "rename" \notin Faults => (e.done => e.told)
    BY <2>1, EndsTold DEF RenameEnds, Free
  <2> HIDE DEF o
  <2> QED
    BY <1>2, <2>1, <2>3, <2>4, <2>5 DEF Inv, TypeOK, OnlyObject, NoneNew
<1> QED
  BY <1>1, <1>2

\* delete_object removes one object.
LEMMA DeletedIs ==
    ASSUME Inv, NEW h, NEW e \in DeleteEnds(h), objs' = Deleted(h, e)
    PROVE  /\ OnlyObject(h) /\ NoneNew
           /\ ~e.done => objs' = objs
           /\ e.done => h \in Handles /\ objs[h] # None /\ objs'[h] = None
           /\ e.told => e.done
           /\ "delete" \notin Faults => (e.done => e.told)
<1>1. /\ e.done => h \in Handles /\ objs[h] # None
      /\ e.told => e.done
      /\ "delete" \notin Faults => (e.done => e.told)
  BY EndsDone, EndsTold DEF DeleteEnds
<1> QED
  BY <1>1 DEF Deleted, Inv, TypeOK, OnlyObject, NoneNew

\* The object that the next step of send_pending works on.
Target == IF cb.pc = "announce" THEN nextH ELSE IF cb.pc = "data" THEN cb.h ELSE Q.replaces

\* What each step of send_pending does to the cellphone.
LEMMA SendTouches ==
    ASSUME Inv, SendStep
    PROVE  /\ OnlyObject(Target)
           /\ \/ nextH' = nextH /\ NoneNew
              \/ cb.pc = "announce" /\ nextH' = nextH + 1
<1>0. cb.pc \in SendPCs
  BY DEF SendStep, SendAside, SendDeleteFirst, SendAnnounce, SendData, SendDeleteOld, SendPutBack, SendPCs
<1>1. cb.path.name \in Names /\ 0 \in 0..MaxCount /\ (count < MaxCount => count + 1 \in 0..MaxCount)
  BY <1>0, SendContext, BoundsAssumption DEF Paths, Inv, TypeOK
<1>2. CASE SendAside
  <2>1. PICK e \in RenameEnds(Q.replaces, cb.path.name, count + 1) :
           objs' = Renamed(Q.replaces, cb.path.name, count + 1, e)
    BY <1>2 DEF SendAside
  <2>2. count + 1 \in 0..MaxCount /\ nextH' = nextH /\ Target = Q.replaces
    BY <1>1, <1>2 DEF SendAside, Target
  <2> QED
    BY <1>1, <2>1, <2>2, RenamedIs
<1>3. CASE SendPutBack
  <2>1. PICK e \in RenameEnds(Q.replaces, cb.path.name, 0) :
           objs' = Renamed(Q.replaces, cb.path.name, 0, e)
    BY <1>3 DEF SendPutBack
  <2>2. nextH' = nextH /\ Target = Q.replaces
    BY <1>3 DEF SendPutBack, Target
  <2> QED
    BY <1>1, <2>1, <2>2, RenamedIs
<1>4. CASE SendDeleteFirst \/ SendDeleteOld
  <2>1. PICK e \in DeleteEnds(Q.replaces) : objs' = Deleted(Q.replaces, e)
    BY <1>4 DEF SendDeleteFirst, SendDeleteOld
  <2>2. nextH' = nextH /\ Target = Q.replaces
    BY <1>4 DEF SendDeleteFirst, SendDeleteOld, Target
  <2> QED
    BY <2>1, <2>2, DeletedIs
<1>5. CASE SendAnnounce
  <2>1. \/ \E o : objs' = [objs EXCEPT ![nextH] = o] /\ nextH' = nextH + 1
        \/ objs' = objs /\ nextH' = nextH
    BY <1>5 DEF SendAnnounce, device
  <2>2. cb.pc = "announce" /\ Target = nextH
    BY <1>5 DEF SendAnnounce, Target
  <2> QED
    BY <2>1, <2>2 DEF OnlyObject, NoneNew, Inv, TypeOK
<1>6. CASE SendData
  <2>1. cb.h \in Handles /\ objs[cb.h] # None /\ Target = cb.h /\ nextH' = nextH
    BY <1>6 DEF SendData, Target, Inv, CallbackOK, Idle
  <2>2. \E o : objs' = [objs EXCEPT ![cb.h] = o]
    BY <1>6 DEF SendData
  <2> QED
    BY <2>1, <2>2 DEF OnlyObject, NoneNew, Inv, TypeOK
<1> QED
  BY <1>2, <1>3, <1>4, <1>5, <1>6 DEF SendStep

-----------------------------------------------------------------------------
(* The mount knows no handle that the cellphone has not given out, and the *)
(* object that send_pending made is not the one it replaces.               *)

Known(m) == \A h \in Handles : m[h] # None => h < nextH
FreshInv ==
    /\ Known(objs) /\ Known(entry)
    /\ \A p \in Paths : pending[p] # None => pending[p].replaces < nextH
NewObject == cb.pc \in {"data", "delold"} =>
    /\ cb.h \in Handles /\ At(cb.h, cb.path) /\ cb.h # Q.replaces
    /\ cb.pc = "delold" => objs[cb.h].data = Q.data
QuietReply == Idle \/ reply = NoReply
HandleInv == FreshInv /\ NewObject /\ QuietReply

\* resolve gives a handle that the cellphone gave out.
LEMMA ResolveKnown ==
    ASSUME TypeOK, Known(objs), NEW l \in Listings, NEW e \in EntryMaps, Known(e), NEW p \in Paths,
           NEW r \in Resolve(l, e, p)
    PROVE  Known(r.entry) /\ r.h < nextH
<1>1. r.entry = e \/ r.entry = Seen(e, p.dir)
  BY DEF Resolve
<1>2. Known(Seen(e, p.dir))
  BY DEF Known, Seen, Listed
<1>3. Known(r.entry)
  BY <1>1, <1>2
<1>4. r.h = NoHandle \/ (r.h \in Handles /\ r.entry[r.h] # None)
  BY ResolveType
<1>5. NoHandle < nextH
  BY BoundsAssumption DEF TypeOK, NoHandle
<1> QED
  BY <1>3, <1>4, <1>5 DEF Known

\* A step that announces no object and remembers no unknown handle.
LEMMA KeepsFresh ==
    ASSUME Inv, FreshInv, NoneNew, nextH' = nextH, Known(entry'),
           NEW p, NEW h, h < nextH, KeepsReplaces(p, h)
    PROVE  FreshInv'
<1>1. \A g \in Handles : objs'[g] # None => g < nextH'
  BY DEF FreshInv, Known, NoneNew
<1>2. \A g \in Handles : entry'[g] # None => g < nextH'
  BY DEF Known
<1>3. NoHandle < nextH
  BY BoundsAssumption DEF Inv, TypeOK, NoHandle
<1>4. \A q \in Paths : pending'[q] # None => pending'[q].replaces < nextH'
  BY <1>3 DEF KeepsReplaces, FreshInv
<1> QED
  BY <1>1, <1>2, <1>4 DEF FreshInv, Known

\* A step after which send_pending holds no new object.
LEMMA StartsNothing == ASSUME Starts PROVE NewObject' /\ QuietReply'
BY DEF Starts, StartPCs, NewObject, QuietReply, Idle

\* getattr, unlink, open, create and truncate leave the objects, or remove one.
LEMMA FindObjects ==
    ASSUME Inv, NEW p \in Paths,
           \/ OpGetattr(p)
           \/ OpUnlink(p)
           \/ \E fd \in FDs, w, trunc \in BOOLEAN : OpOpen(fd, p, w, trunc)
           \/ \E fd \in FDs : OpCreate(fd, p)
           \/ \E n \in 0..MaxLen : OpTruncate(p, n)
    PROVE  NoneNew
<1>1. CASE OpUnlink(p)
  <2>1. objs' = objs \/ \E h : \E e \in DeleteEnds(h) : objs' = Deleted(h, e)
    BY <1>1 DEF OpUnlink
  <2> QED
    BY <2>1, DeletedIs DEF NoneNew
<1>2. CASE ~OpUnlink(p)
  BY <1>2 DEF OpGetattr, OpOpen, OpCreate, OpTruncate, device, NoneNew
<1> QED
  BY <1>1, <1>2

\* The callbacks that look a path up.
LEMMA FindHandles ==
    ASSUME Inv, HandleInv, NEW p \in Paths,
           \/ OpGetattr(p)
           \/ OpUnlink(p)
           \/ \E fd \in FDs, w, trunc \in BOOLEAN : OpOpen(fd, p, w, trunc)
           \/ \E fd \in FDs : OpCreate(fd, p)
           \/ \E n \in 0..MaxLen : OpTruncate(p, n)
    PROVE  HandleInv'
<1>1. (\E r : Found(p, r)) /\ Starts /\ nextH' = nextH
  BY FindEffect
<1>2. PICK r : Found(p, r)
  BY <1>1
<1>3. Known(r.entry) /\ r.h < nextH
  BY <1>2, ResolveKnown, Parts DEF Found, HandleInv, FreshInv, TreeOK, Inv
<1>4. NoneNew
  BY FindObjects
<1>5. FreshInv'
  BY <1>1, <1>2, <1>3, <1>4, KeepsFresh DEF Found, HandleInv
<1> QED
  BY <1>1, <1>5, StartsNothing DEF HandleInv

\* The callbacks that only change a spool file.
LEMMA SpoolHandles ==
    ASSUME Inv, HandleInv,
           \/ \E fd \in FDs : OpWrite(fd) \/ OpFlush(fd) \/ OpRelease(fd)
           \/ \E p \in Paths, n \in 0..MaxLen : OpTruncateSpool(p, n)
    PROVE  HandleInv'
<1>1. PICK p \in Paths : KeepsReplaces(p, NoHandle)
  BY SpoolEffect
<1>2. Starts /\ UNCHANGED <<objs, nextH, entry>>
  BY SpoolEffect DEF device, tree
<1>3. NoHandle < nextH /\ NoneNew /\ Known(entry')
  BY <1>2, BoundsAssumption DEF Inv, TypeOK, NoHandle, NoneNew, HandleInv, FreshInv, Known
<1>4. FreshInv'
  BY <1>1, <1>2, <1>3, KeepsFresh DEF HandleInv
<1> QED
  BY <1>2, <1>4, StartsNothing DEF HandleInv

\* readdir.
LEMMA ReaddirHandles == ASSUME Inv, HandleInv, NEW d \in Dirs, OpReaddir(d) PROVE HandleInv'
<1>1. UNCHANGED <<objs, nextH, pending, cb, reply>> /\ Idle /\ entry' = Seen(entry, d)
  BY DEF OpReaddir, device, host
<1>2. Known(Seen(entry, d))
  BY DEF Known, Seen, Listed, HandleInv, FreshInv
<1>3. NoHandle < nextH /\ NoneNew /\ Starts
  BY <1>1, BoundsAssumption DEF Inv, TypeOK, NoHandle, NoneNew, Starts, StartPCs, Idle
<1>4. KeepsReplaces(0, NoHandle)
  BY <1>1, SameReplaces
<1>5. FreshInv'
  BY <1>1, <1>2, <1>3, <1>4, KeepsFresh DEF HandleInv
<1> QED
  BY <1>3, <1>5, StartsNothing DEF HandleInv

\* The checks of op_rename.
LEMMA RenameHandles ==
    ASSUME Inv, HandleInv, NEW from \in Paths, NEW to \in Paths, OpRename(from, to)
    PROVE  HandleInv'
<1>1. UNCHANGED <<objs, nextH, pending>>
  BY DEF OpRename, device, host
<1>2. Known(entry')
  <2>1. PICK r \in Resolve(listing, entry, from) :
          \/ entry' = r.entry
          \/ \E t \in Resolve(r.listing, r.entry, to) : entry' = t.entry
    BY DEF OpRename
  <2>2. Known(r.entry) /\ r.listing \in Listings /\ r.entry \in EntryMaps
    BY ResolveKnown, ResolveType, Parts DEF HandleInv, FreshInv, TreeOK, Inv
  <2>3. \A t \in Resolve(r.listing, r.entry, to) : Known(t.entry)
    BY <2>2, ResolveKnown DEF HandleInv, FreshInv, Inv
  <2> QED
    BY <2>1, <2>2, <2>3
<1>3. cb'.pc \notin {"data", "delold"} /\ (cb'.pc = "idle" \/ reply' = NoReply)
  <2>1. \A rc, h : RenameAnswer(to, h, rc) => cb'.pc = "idle"
    BY DEF RenameAnswer, NotRunning
  <2>2. \A pc, h, t : Running("rename", None, from, to, pc, h, t) => cb'.pc = pc /\ reply' = NoReply
    BY DEF Running
  <2> QED
    BY <2>1, <2>2 DEF OpRename, RenameRest
<1>4. NoHandle < nextH /\ NoneNew /\ KeepsReplaces(0, NoHandle)
  BY <1>1, BoundsAssumption, SameReplaces DEF Inv, TypeOK, NoHandle, NoneNew
<1>5. FreshInv'
  BY <1>1, <1>2, <1>4, KeepsFresh DEF HandleInv
<1> QED
  BY <1>3, <1>5 DEF HandleInv, NewObject, QuietReply, Idle

\* What each step of op_rename leaves alone, and where it goes.
LEMMA RenameEffect ==
    ASSUME Inv, RenameStep
    PROVE  /\ cb.pc \in RenamePCs /\ UNCHANGED <<nextH, entry, pending, kept, owed>>
           /\ \/ cb' = NotRunning
              \/ /\ cb'.pc \in RenamePCs /\ cb'.path = cb.path /\ cb'.to = cb.to /\ cb'.h = cb.h
                 /\ cb'.old = cb.old /\ reply' = reply
<1>1. cb.pc \in RenamePCs
  BY DEF RenameStep, RenameAside, RenameMove, RenameName, RenamePutBack, RenameDelete, RenamePCs, PCs, SendPCs
<1>2. UNCHANGED <<nextH, entry, pending, kept, owed>>
  BY DEF RenameStep, RenameAside, RenameMove, RenameName, RenamePutBack, RenameDelete, host, tree
<1>3. ASSUME NEW rc, RenameDone(rc)
      PROVE  cb' = NotRunning
  BY <1>3 DEF RenameDone, RenameAnswer
<1>4. ASSUME NEW pc \in RenamePCs, Goto(pc)
      PROVE  /\ cb'.pc \in RenamePCs /\ cb'.path = cb.path /\ cb'.to = cb.to /\ cb'.h = cb.h
             /\ cb'.old = cb.old
  BY <1>1, <1>4, RenameContext, GotoType DEF RenamePCs
<1>5. {"ren_name", "ren_del", "ren_back"} \subseteq RenamePCs /\ RenameRest(cb.path, cb.to) \in RenamePCs
  BY RestType DEF RenamePCs, PCs, SendPCs
<1>6. CASE RenameAside
  BY <1>1, <1>2, <1>3, <1>4, <1>5, <1>6 DEF RenameAside
<1>7. CASE RenameMove
  BY <1>1, <1>2, <1>3, <1>4, <1>5, <1>7 DEF RenameMove
<1>8. CASE RenameName
  BY <1>1, <1>2, <1>3, <1>4, <1>5, <1>8 DEF RenameName
<1>9. CASE RenamePutBack \/ RenameDelete
  BY <1>1, <1>2, <1>3, <1>9 DEF RenamePutBack, RenameDelete
<1> QED
  BY <1>6, <1>7, <1>8, <1>9 DEF RenameStep

\* The steps of op_rename make no object.
LEMMA RenameObjects == ASSUME Inv, RenameStep PROVE NoneNew
<1>1. /\ cb.pc \in PCs \ SendPCs /\ cb.to.name \in Names /\ cb.h \in Handles
      /\ 0 \in 0..MaxCount /\ (count < MaxCount => count + 1 \in 0..MaxCount)
  BY RenameEffect, RenameContext, BoundsAssumption DEF RenamePCs, Inv, TypeOK
<1>2. ASSUME NEW h, NEW a \in 0..MaxCount, NEW e \in RenameEnds(h, cb.to.name, a),
             objs' = Renamed(h, cb.to.name, a, e)
      PROVE  NoneNew
  BY <1>1, <1>2, RenamedIs
<1>3. ASSUME UNCHANGED objs
      PROVE  NoneNew
  BY <1>3 DEF NoneNew
<1>4. CASE RenameAside
  BY <1>1, <1>2, <1>4 DEF RenameAside
<1>5. CASE RenameMove
  <2>1. objs' = objs \/ (objs[cb.h] # None /\ \E o : objs' = [objs EXCEPT ![cb.h] = o])
    BY <1>5, EndsDone DEF RenameMove
  <2> QED
    BY <1>1, <2>1 DEF NoneNew, Inv, TypeOK
<1>6. CASE RenameName
  BY <1>1, <1>2, <1>3, <1>6 DEF RenameName
<1>7. CASE RenamePutBack
  BY <1>1, <1>2, <1>7 DEF RenamePutBack
<1>8. CASE RenameDelete
  BY <1>8, DeletedIs DEF RenameDelete
<1> QED
  BY <1>4, <1>5, <1>6, <1>7, <1>8 DEF RenameStep

\* Every step of op_rename.
LEMMA RenameStepHandles == ASSUME Inv, HandleInv, RenameStep PROVE HandleInv'
<1>1. /\ cb.pc \in RenamePCs /\ UNCHANGED <<nextH, entry, pending>> /\ NoneNew
      /\ cb' = NotRunning \/ (cb'.pc \in RenamePCs /\ reply' = reply)
  BY RenameEffect, RenameObjects
<1>2. NoHandle < nextH /\ KeepsReplaces(0, NoHandle) /\ Known(entry')
  BY <1>1, BoundsAssumption, SameReplaces DEF Inv, TypeOK, NoHandle, HandleInv, FreshInv, Known
<1>3. FreshInv'
  BY <1>1, <1>2, KeepsFresh DEF HandleInv
<1>4. NewObject' /\ QuietReply'
  BY <1>1 DEF HandleInv, NewObject, QuietReply, Idle, NotRunning, RenamePCs, PCs, SendPCs
<1> QED
  BY <1>3, <1>4 DEF HandleInv

\* Where send_pending goes with a new object in hand.
LEMMA SendMakes ==
    ASSUME Inv, HandleInv, SendStep
    PROVE  NewObject'
<1>0. cb.pc \in SendPCs /\ cb \in Callbacks /\ cb.path \in Paths /\ Q \in Pendings /\ nextH \in Nat
  BY SendEffect, SendContext, BoundsAssumption DEF Inv, TypeOK
<1>1. ASSUME cb'.pc \notin {"data", "delold"}
      PROVE  NewObject'
  BY <1>1 DEF NewObject
<1>2. ASSUME NEW op, NEW fd, NEW p, NEW q, NEW rc, Finish(op, fd, p, q, rc)
      PROVE  NewObject'
  BY <1>1, <1>2 DEF Finish, Answer, NotRunning
<1>3. ASSUME NEW pc \in {"announce", "putback"}, Goto(pc)
      PROVE  NewObject'
  BY <1>0, <1>1, <1>3, GotoType DEF PCs
<1>4. AfterFailure => NewObject'
  BY <1>2, <1>3 DEF AfterFailure, SendFailed
<1>5. CASE SendAside
  BY <1>2, <1>3, <1>5 DEF SendAside
<1>6. CASE SendDeleteFirst
  <2>1. cb' = [cb EXCEPT !.pc = "announce", !.gone = TRUE] => cb'.pc = "announce"
    BY <1>0 DEF Callbacks
  <2> QED
    BY <1>1, <1>2, <1>6, <2>1 DEF SendDeleteFirst
<1>7. CASE SendAnnounce
  <2>1. PICK e \in Ends("announce", TRUE) \cup Ends("announce", FALSE) :
          /\ e.done => objs' = [objs EXCEPT ![nextH] =
                [dir |-> cb.path.dir, name |-> cb.path.name, aside |-> 0, data |-> NoBytes]]
          /\ \/ e.told /\ cb' = [cb EXCEPT !.pc = "data", !.h = nextH] /\ pending' = pending
             \/ AfterFailure
    BY <1>7 DEF SendAnnounce
  <2>2. CASE e.told /\ cb' = [cb EXCEPT !.pc = "data", !.h = nextH] /\ pending' = pending
    <3> DEFINE o == [dir |-> cb.path.dir, name |-> cb.path.name, aside |-> 0, data |-> NoBytes]
    <3>1. e.done
      BY <2>2, EndsTold
    <3>2. nextH \in Handles
      BY <1>0, <1>7, BoundsAssumption DEF SendAnnounce, Handles, Inv, TypeOK
    <3>3. cb'.pc = "data" /\ cb'.h = nextH /\ cb'.path = cb.path
      BY <1>0, <2>2 DEF Callbacks
    <3>4. o \in Objects /\ o # None
      BY <1>0, BoundsAssumption, NoneAssumption DEF Objects, Paths, Data
    <3>5. objs'[nextH] = o
      BY <2>1, <3>1, <3>2 DEF Inv, TypeOK
    <3>6. objs'[nextH] # None /\ objs'[nextH].dir = cb.path.dir
          /\ objs'[nextH].name = cb.path.name /\ objs'[nextH].aside = 0
      BY <3>4, <3>5
    <3>7. Q.replaces < nextH
      BY <1>0, SendContext DEF HandleInv, FreshInv, Q
    <3>8. Q' = Q /\ nextH # Q.replaces
      BY <2>2, <3>3, <3>7, <1>0, BoundsAssumption DEF Q, Pendings, Handles, NoHandle
    <3> HIDE DEF o
    <3> QED
      BY <3>2, <3>3, <3>6, <3>8 DEF NewObject, At
  <2> QED
    BY <1>4, <2>1, <2>2
<1>8. CASE SendData
  <2>1. ASSUME objs' = [objs EXCEPT ![cb.h].data = Q.data], Goto("delold"), UNCHANGED pending
        PROVE  NewObject'
    <3>1. cb.h \in Handles /\ At(cb.h, cb.path) /\ cb.h # Q.replaces
      BY <1>8 DEF SendData, HandleInv, NewObject
    <3>2. cb'.pc = "delold" /\ cb'.h = cb.h /\ cb'.path = cb.path
      BY <1>0, <2>1, GotoType DEF PCs
    <3>3. objs[cb.h] \in Objects
      BY <3>1 DEF At, Inv, TypeOK
    <3> DEFINE o == [objs[cb.h] EXCEPT !.data = Q.data]
    <3>4. /\ o.dir = objs[cb.h].dir /\ o.name = objs[cb.h].name /\ o.aside = objs[cb.h].aside
          /\ o.data = Q.data /\ o # None
      BY <1>0, <3>3, NoneAssumption DEF Objects, Pendings
    <3>5. objs'[cb.h] = o
      BY <2>1, <3>1 DEF Inv, TypeOK
    <3> HIDE DEF o
    <3>6. Q' = Q
      BY <2>1, <3>2 DEF Q
    <3> QED
      BY <3>1, <3>2, <3>4, <3>5, <3>6 DEF NewObject, At
  <2> QED
    BY <1>2, <1>4, <1>8, <2>1 DEF SendData
<1>9. CASE SendDeleteOld \/ SendPutBack
  BY <1>2, <1>9 DEF SendDeleteOld, SendPutBack
<1> QED
  BY <1>5, <1>6, <1>7, <1>8, <1>9 DEF SendStep

\* Every step of send_pending.
LEMMA SendStepHandles == ASSUME Inv, HandleInv, SendStep PROVE HandleInv'
<1>1. /\ KeepsReplaces(cb.path, NoHandle) /\ entry' = entry /\ cb.pc \in SendPCs
      /\ cb' = NotRunning \/ (cb'.pc \in SendPCs /\ reply' = reply)
  BY SendEffect
<1>2. NoHandle < nextH /\ nextH \in Nat /\ Handles \subseteq Nat
  BY BoundsAssumption DEF Inv, TypeOK, NoHandle, Handles
<1>3. FreshInv'
  <2>1. CASE nextH' = nextH /\ NoneNew
    <3>1. Known(entry')
      BY <1>1 DEF HandleInv, FreshInv, Known
    <3> QED
      BY <1>1, <1>2, <2>1, <3>1, KeepsFresh DEF HandleInv
  <2>2. CASE cb.pc = "announce" /\ nextH' = nextH + 1
    <3>0. nextH < nextH' /\ \A h \in Handles : h < nextH => h < nextH'
      BY <1>2, <2>2
    <3>1. OnlyObject(nextH)
      BY <2>2, SendTouches DEF Target
    <3>2. \A h \in Handles : objs'[h] # None => h < nextH'
      BY <3>1, <3>0 DEF OnlyObject, HandleInv, FreshInv, Known
    <3>3. \A h \in Handles : entry'[h] # None => h < nextH'
      BY <1>1, <3>0 DEF HandleInv, FreshInv, Known
    <3>4. \A q \in Paths : pending'[q] # None => pending'[q].replaces \in Nat
      BY NextInv, BoundsAssumption DEF Inv, TypeOK, Pendings, Next, Handles, NoHandle
    <3>5. \A q \in Paths : pending'[q] # None =>
            \/ pending'[q].replaces = NoHandle
            \/ pending[q] # None /\ pending'[q].replaces = pending[q].replaces
      BY <1>1 DEF KeepsReplaces
    <3>6. \A q \in Paths : pending'[q] # None => pending'[q].replaces < nextH'
      BY <1>2, <2>2, <3>4, <3>5 DEF HandleInv, FreshInv
    <3> QED
      BY <3>2, <3>3, <3>6 DEF FreshInv, Known
  <2> QED
    BY <2>1, <2>2, SendTouches
<1>4. QuietReply'
  BY <1>1 DEF HandleInv, QuietReply, Idle, NotRunning, SendPCs
<1> QED
  BY <1>3, <1>4, SendMakes DEF HandleInv

\* A mount starts with an empty tree and no callback.
LEMMA RemountHandles == ASSUME Inv, HandleInv, Crash \/ Unmount PROVE HandleInv'
<1>1. /\ UNCHANGED <<objs, nextH>> /\ entry' = [h \in Handles |-> None]
      /\ pending' = [p \in Paths |-> None] /\ cb' = NotRunning
  BY DEF Crash, Unmount, Remount, device
<1>2. FreshInv'
  BY <1>1 DEF HandleInv, FreshInv, Known
<1> QED
  BY <1>1, <1>2 DEF HandleInv, NewObject, QuietReply, Idle, NotRunning

\* Every step keeps the handles in order.
LEMMA NextHandles == Inv /\ HandleInv /\ [Next]_vars => HandleInv'
<1> SUFFICES ASSUME Inv, HandleInv, [Next]_vars PROVE HandleInv'
  OBVIOUS
<1>1. CASE UNCHANGED vars
  BY <1>1 DEF vars, HandleInv, FreshInv, Known, NewObject, QuietReply, At, Q, Idle
<1>2. CASE Next
  BY <1>2, FindHandles, SpoolHandles, ReaddirHandles, RenameHandles, RenameStepHandles,
     SendStepHandles, RemountHandles DEF Next
<1> QED
  BY <1>1, <1>2

\* The cellphone starts with handles below the next one.
LEMMA InitHandles == Init => HandleInv
BY DEF Init, HandleInv, FreshInv, Known, NewObject, QuietReply, Idle, NotRunning

-----------------------------------------------------------------------------
(* The tree names what the cellphone holds.                                *)

\* The object h, if it is there, is in the folder of p and has its name.
Under(h, p) == objs[h] # None => objs[h].dir = p.dir /\ objs[h].name = p.name
\* What a listing says of a folder holds of the objects that are there.
TrueIn(l, e, d) == l[d] # None =>
    \A h \in l[d] : h < nextH /\ Under(h, [dir |-> d, name |-> e[h].name])
\* op_rename has moved or renamed its object, and forgets the folders at its end.
Unsettled(d) ==
    /\ \/ cb.pc \in {"ren_del", "ren_back"}
       \/ cb.pc = "ren_name" /\ cb.path.dir # cb.to.dir
    /\ d \in {cb.path.dir, cb.to.dir}
TreeTrue == \A d \in Dirs : Unsettled(d) \/ TrueIn(listing, entry, d)
ReplacesTrue == \A p \in Paths :
    (pending[p] # None /\ pending[p].replaces # NoHandle) => Under(pending[p].replaces, p)
RenameTrue == cb.pc \in RenamePCs =>
    /\ <<cb.path, cb.to>> \in Renames /\ cb.path # cb.to
    /\ entry[cb.h].name = cb.path.name
    /\ cb.old # NoHandle => cb.old # cb.h /\ Under(cb.old, cb.to)
    /\ cb.pc \in {"ren_aside", "ren_move"} => Under(cb.h, cb.path)
    /\ cb.pc = "ren_move" => cb.path.dir # cb.to.dir
    /\ cb.pc = "ren_name" => Under(cb.h, [dir |-> cb.to.dir, name |-> cb.path.name])
    /\ cb.pc = "ren_back" => cb.path.dir = cb.to.dir /\ cb.old # NoHandle
    /\ cb.pc = "ren_del" => Under(cb.h, cb.to) /\ cb.old # NoHandle
NamesInv == TreeTrue /\ ReplacesTrue /\ RenameTrue

\* The limits under which the tree stays true: a rename changes the folder
\* or the name, not both, a move does not lose its answer, and truncate
\* leaves no Pending without a writer.
SteadyNames == \A from, to \in Paths : (<<from, to>> \in Renames /\ from # to) =>
    /\ from.dir = to.dir \/ from.name = to.name
    /\ "move" \notin Faults /\ "setlen" \notin Faults

\* The objects that were there before keep their folders and their names.
OldNames == \A g \in Handles : (g < nextH /\ objs'[g] # None) =>
    objs[g] # None /\ objs'[g].dir = objs[g].dir /\ objs'[g].name = objs[g].name

\* A step that leaves the names alone leaves an object where it was.
LEMMA UnderKept ==
    ASSUME OldNames, NEW h \in Handles, h < nextH, NEW p, Under(h, p)
    PROVE  Under(h, p)'
BY DEF OldNames, Under

\* A listing says the truth, and every other listing goes on to say it.
LEMMA ListTrue ==
    ASSUME TypeOK, Known(objs), NEW l \in Listings, NEW e \in EntryMaps, NEW d \in Dirs,
           \A c \in Dirs : TrueIn(l, e, c), NEW c \in Dirs
    PROVE  TrueIn([l EXCEPT ![d] = Listed(d)], Seen(e, d), c)
<1>1. ASSUME NEW h \in Listed(d)
      PROVE  /\ Seen(e, d)[h].name = objs[h].name
             /\ h \in Handles /\ h < nextH /\ objs[h] # None /\ objs[h].dir = d
  BY <1>1 DEF Listed, Seen, Known
<1>2. ASSUME NEW h \in Handles, h \notin Listed(d)
      PROVE  Seen(e, d)[h] = e[h]
  BY <1>2 DEF Seen
<1>3. CASE c = d
  BY <1>1, <1>3 DEF TrueIn, Under, Listings
<1>4. CASE c # d
  <2>1. [l EXCEPT ![d] = Listed(d)][c] = l[c] /\ (l[c] # None => l[c] \subseteq Handles)
    BY <1>4 DEF Listings
  <2>2. ASSUME l[c] # None, NEW h \in l[c]
        PROVE  h \notin Listed(d)
    BY <1>4, <2>2 DEF TrueIn, Under, Listed
  <2> QED
    BY <1>2, <2>1, <2>2 DEF TrueIn
<1> QED
  BY <1>3, <1>4

\* resolve leaves a true tree, and the handle it gives is at the path.
LEMMA ResolveTrue ==
    ASSUME TypeOK, Known(objs), NEW l \in Listings, NEW e \in EntryMaps,
           \A d \in Dirs : TrueIn(l, e, d), NEW p \in Paths, NEW r \in Resolve(l, e, p)
    PROVE  /\ \A d \in Dirs : TrueIn(r.listing, r.entry, d)
           /\ r.h # NoHandle =>
                /\ r.h \in Handles /\ r.h < nextH /\ Under(r.h, p)
                /\ r.listing[p.dir] # None /\ r.h \in r.listing[p.dir]
                /\ r.entry[r.h].name = p.name /\ r.entry[r.h].aside = 0
<1>0. p.dir \in Dirs
  BY DEF Paths
<1>1. ASSUME NEW m \in Listings, NEW f \in EntryMaps, m[p.dir] # None, TrueIn(m, f, p.dir),
             NEW x \in Matches(m, f, p), x # NoHandle
      PROVE  /\ x \in Handles /\ x < nextH /\ Under(x, p) /\ x \in m[p.dir]
             /\ f[x].name = p.name /\ f[x].aside = 0
  <2>1. x \in Named(m[p.dir], f, p)
    BY <1>1 DEF Matches
  <2>2. x \in m[p.dir] /\ f[x].name = p.name /\ f[x].aside = 0 /\ m[p.dir] \subseteq Handles
    BY <1>0, <1>1, <2>1 DEF Named, Listings
  <2>3. x < nextH /\ Under(x, [dir |-> p.dir, name |-> f[x].name])
    BY <1>1, <2>2 DEF TrueIn
  <2> QED
    BY <2>2, <2>3 DEF Under
<1>2. CASE l[p.dir] # None
  <2>1. r \in {[h |-> x, listing |-> l, entry |-> e] : x \in Matches(l, e, p)}
    BY <1>2 DEF Resolve
  <2>2. r.h \in Matches(l, e, p) /\ r.listing = l /\ r.entry = e
    BY <2>1
  <2> QED
    BY <1>0, <1>1, <1>2, <2>2
<1>3. CASE l[p.dir] = None
  <2> DEFINE l2 == [l EXCEPT ![p.dir] = Listed(p.dir)]
             e2 == Seen(e, p.dir)
  <2>1. e2 \in EntryMaps /\ Listed(p.dir) \in SUBSET Handles
    BY <1>0, SeenType
  <2>2. l2 \in Listings /\ l2[p.dir] = Listed(p.dir)
    BY <1>0, <2>1 DEF Listings
  <2>3. \A d \in Dirs : TrueIn(l2, e2, d)
    BY <1>0, ListTrue
  <2>4. \/ \E x \in Matches(l2, e2, p) : r = [h |-> x, listing |-> l2, entry |-> e2]
        \/ r = [h |-> NoHandle, listing |-> l, entry |-> e]
    <3> HIDE DEF l2, e2
    <3> QED BY <1>3 DEF Resolve, l2, e2
  <2>5. CASE r = [h |-> NoHandle, listing |-> l, entry |-> e]
    BY <2>5
  <2>6. ASSUME NEW x \in Matches(l2, e2, p), r = [h |-> x, listing |-> l2, entry |-> e2]
        PROVE  r.h = x /\ r.listing = l2 /\ r.entry = e2 /\ l2[p.dir] # None
    <3>1. l2[p.dir] # None
      BY <2>1, <2>2, UnlistedAssumption
    <3> HIDE DEF l2, e2
    <3> QED
      BY <2>6, <3>1
  <2> HIDE DEF l2, e2
  <2> QED
    BY <1>0, <1>1, <2>1, <2>2, <2>3, <2>4, <2>5, <2>6
<1> QED
  BY <1>2, <1>3

\* A listing stays true while the names stay, and a forgotten one says nothing.
LEMMA TrueKept ==
    ASSUME OldNames, nextH' >= nextH, nextH \in Nat, nextH' \in Nat, NEW d \in Dirs, NEW l \in Listings,
           NEW e, TrueIn(l, e, d), listing'[d] \in {l[d], None}, entry' = e
    PROVE  TrueIn(listing, entry, d)'
<1>1. CASE listing'[d] = None
  BY <1>1 DEF TrueIn
<1>2. CASE listing'[d] = l[d] /\ l[d] # None
  <2>1. ASSUME NEW h \in l[d]
        PROVE  h \in Handles /\ h < nextH /\ h < nextH' /\ Under(h, [dir |-> d, name |-> e[h].name])
    BY <1>2, <2>1, BoundsAssumption DEF TrueIn, Listings, Handles
  <2>2. ASSUME NEW h \in l[d]
        PROVE  Under(h, [dir |-> d, name |-> e[h].name])'
    BY <2>1, <2>2 DEF Under, OldNames
  <2> QED
    BY <1>2, <2>1, <2>2 DEF TrueIn, Under
<1> QED
  BY <1>1, <1>2

\* What a Pending replaces stays at its path.
LEMMA ReplacesKept ==
    ASSUME Inv, FreshInv, ReplacesTrue, OldNames, NEW p, NEW h, KeepsReplaces(p, h),
           p \in Paths /\ h \in Handles => h < nextH /\ Under(h, p),
           h = NoHandle \/ (p \in Paths /\ h \in Handles)
    PROVE  ReplacesTrue'
<1> SUFFICES ASSUME NEW q \in Paths, pending'[q] # None, pending'[q].replaces # NoHandle
             PROVE  Under(pending[q].replaces, q)'
  BY DEF ReplacesTrue, Under
<1>1. CASE pending[q] # None /\ pending'[q].replaces = pending[q].replaces
  <2>1. pending[q].replaces \in Handles /\ pending[q].replaces < nextH /\ Under(pending[q].replaces, q)
    BY <1>1 DEF Inv, TypeOK, Pendings, FreshInv, ReplacesTrue
  <2> QED
    BY <1>1, <2>1 DEF Under, OldNames
<1>2. CASE q = p /\ pending'[q].replaces = h
  BY <1>2 DEF Under, OldNames
<1> QED
  BY <1>1, <1>2 DEF KeepsReplaces

\* A step that forgets folders, perhaps, and leaves the names alone.
LEMMA KeepsNames ==
    ASSUME Inv, Inv', FreshInv, NamesInv, OldNames, nextH' >= nextH, entry' = entry,
           \A d \in Dirs : listing'[d] \in {listing[d], None},
           NEW p, KeepsReplaces(p, NoHandle), cb.pc \notin RenamePCs, cb'.pc \notin RenamePCs
    PROVE  NamesInv'
<1>1. nextH \in Nat /\ nextH' \in Nat /\ listing \in Listings
  BY BoundsAssumption, Parts DEF Inv, TypeOK, TreeOK
<1>2. \A d \in Dirs : TrueIn(listing, entry, d)
  BY DEF NamesInv, TreeTrue, Unsettled, RenamePCs, PCs, SendPCs
<1>3. ASSUME NEW d \in Dirs
      PROVE  TrueIn(listing, entry, d)'
  BY <1>1, <1>2, TrueKept
<1>4. TreeTrue'
  BY <1>3 DEF TreeTrue
<1>5. NoHandle \notin Handles
  BY DEF NoHandle, Handles
<1>6. ReplacesTrue'
  BY <1>5, ReplacesKept DEF NamesInv
<1>7. RenameTrue'
  BY DEF RenameTrue
<1> QED
  BY <1>4, <1>6, <1>7 DEF NamesInv

\* A callback that looks a path up, and leaves the names alone.
LEMMA FindsNames ==
    ASSUME Inv, Inv', FreshInv, NamesInv, Idle, OldNames, nextH' = nextH, NEW p \in Paths, NEW r, Found(p, r),
           cb'.pc \notin RenamePCs
    PROVE  NamesInv'
<1>1. nextH \in Nat /\ listing \in Listings /\ entry \in EntryMaps /\ TypeOK /\ Known(objs) /\ p.dir \in Dirs
  BY BoundsAssumption, Parts DEF Inv, TypeOK, TreeOK, FreshInv, Paths
<1>2. \A d \in Dirs : TrueIn(listing, entry, d)
  BY DEF NamesInv, TreeTrue, Unsettled, Idle
<1>3. /\ \A d \in Dirs : TrueIn(r.listing, r.entry, d)
      /\ r.listing \in Listings /\ r.entry \in EntryMaps
      /\ r.h # NoHandle => r.h \in Handles /\ r.h < nextH /\ Under(r.h, p)
  BY <1>1, <1>2, ResolveTrue, ResolveType DEF Found
<1>4. \A d \in Dirs : listing'[d] \in {r.listing[d], None}
  BY <1>1, <1>3 DEF Found, Forget, Listings
<1>5. ASSUME NEW d \in Dirs
      PROVE  TrueIn(listing, entry, d)'
  <2>1. entry' = r.entry /\ nextH' >= nextH
    BY <1>1 DEF Found
  <2> QED
    BY <1>1, <1>3, <1>4, <2>1, TrueKept
<1>6. TreeTrue'
  BY <1>5 DEF TreeTrue
<1>7. ReplacesTrue'
  <2>1. KeepsReplaces(p, r.h) /\ NoHandle \notin Handles
    BY DEF Found, NoHandle, Handles
  <2> QED
    BY <1>3, <2>1, ReplacesKept DEF NamesInv
<1>8. RenameTrue'
  BY DEF RenameTrue
<1> QED
  BY <1>6, <1>7, <1>8 DEF NamesInv

\* A step that removes objects, or none, leaves the names alone.
Removes == \A g \in Handles : objs'[g] \in {objs[g], None}

\* getattr, unlink, open, create and truncate.
LEMMA FindNames ==
    ASSUME Inv, Inv', FreshInv, NamesInv, NEW p \in Paths,
           \/ OpGetattr(p)
           \/ OpUnlink(p)
           \/ \E fd \in FDs, w, trunc \in BOOLEAN : OpOpen(fd, p, w, trunc)
           \/ \E fd \in FDs : OpCreate(fd, p)
           \/ \E n \in 0..MaxLen : OpTruncate(p, n)
    PROVE  NamesInv'
<1>1. (\E r : Found(p, r)) /\ Starts /\ Idle /\ nextH' = nextH
  BY FindEffect
<1>2. Removes
  <2>1. CASE OpUnlink(p)
    <3>1. objs' = objs \/ \E h : \E e \in DeleteEnds(h) : objs' = Deleted(h, e)
      BY <2>1 DEF OpUnlink
    <3>2. ASSUME NEW h, NEW e \in DeleteEnds(h), objs' = Deleted(h, e)
          PROVE  Removes
      BY <3>2, DeletedIs DEF Removes, OnlyObject
    <3> QED
      BY <3>1, <3>2 DEF Removes
  <2>2. CASE ~OpUnlink(p)
    BY <2>2 DEF OpGetattr, OpOpen, OpCreate, OpTruncate, device, Removes
  <2> QED
    BY <2>1, <2>2
<1>3. OldNames
  BY <1>2 DEF Removes, OldNames
<1>4. cb'.pc \notin RenamePCs
  BY <1>1 DEF Starts, StartPCs, RenamePCs, PCs, SendPCs
<1> QED
  BY <1>1, <1>3, <1>4, FindsNames

\* write, flush, release, and truncate of an open file.
LEMMA SpoolNames ==
    ASSUME Inv, Inv', FreshInv, NamesInv,
           \/ \E fd \in FDs : OpWrite(fd) \/ OpFlush(fd) \/ OpRelease(fd)
           \/ \E p \in Paths, n \in 0..MaxLen : OpTruncateSpool(p, n)
    PROVE  NamesInv'
<1>1. PICK p \in Paths : KeepsReplaces(p, NoHandle)
  BY SpoolEffect
<1>2. Starts /\ Idle /\ UNCHANGED <<objs, nextH, listing, entry>>
  BY SpoolEffect DEF device, tree
<1>3. OldNames /\ nextH' >= nextH
  BY <1>2, BoundsAssumption DEF OldNames, Inv, TypeOK
<1>4. cb.pc \notin RenamePCs /\ cb'.pc \notin RenamePCs
  BY <1>2 DEF Starts, StartPCs, RenamePCs, PCs, SendPCs, Idle
<1> QED
  BY <1>1, <1>2, <1>3, <1>4, KeepsNames

\* readdir lists a folder.
LEMMA ReaddirNames ==
    ASSUME Inv, Inv', FreshInv, NamesInv, NEW d \in Dirs, OpReaddir(d)
    PROVE  NamesInv'
<1>1. /\ UNCHANGED <<objs, nextH, pending, cb>> /\ Idle
      /\ listing' = [listing EXCEPT ![d] = Listed(d)] /\ entry' = Seen(entry, d)
  BY DEF OpReaddir, device, host
<1>2. \A c \in Dirs : TrueIn(listing, entry, c)
  BY <1>1 DEF NamesInv, TreeTrue, Unsettled, Idle
<1>3. ASSUME NEW c \in Dirs
      PROVE  TrueIn(listing', entry', c)
  <2>1. listing \in Listings /\ entry \in EntryMaps /\ TypeOK /\ Known(objs)
    BY Parts DEF Inv, TreeOK, FreshInv
  <2> QED
    BY <1>1, <1>2, <2>1, ListTrue
<1>4. TreeTrue'
  BY <1>1, <1>3 DEF TreeTrue, TrueIn, Under
<1>5. ReplacesTrue' /\ RenameTrue'
  BY <1>1 DEF NamesInv, ReplacesTrue, RenameTrue, Under, Idle, RenamePCs, PCs
<1> QED
  BY <1>4, <1>5 DEF NamesInv

\* Every step of send_pending leaves the names alone: what it moves aside
\* and back keeps its name, and what it makes is new.
LEMMA SendOldNames == ASSUME Inv, HandleInv, ReplacesTrue, SendStep PROVE OldNames
<1>0. /\ cb.pc \in SendPCs /\ cb.path \in Paths /\ cb.path.name \in Names /\ Q \in Pendings /\ Q # None
      /\ 0 \in 0..MaxCount /\ (count < MaxCount => count + 1 \in 0..MaxCount)
  BY SendEffect, SendContext, BoundsAssumption DEF Paths, Inv, TypeOK
<1>1. NoHandle \notin Handles /\ (Q.replaces \in Handles => Under(Q.replaces, cb.path))
  BY <1>0 DEF NoHandle, Handles, ReplacesTrue, Q
<1>2. ASSUME NEW a \in 0..MaxCount, NEW e \in RenameEnds(Q.replaces, cb.path.name, a),
             objs' = Renamed(Q.replaces, cb.path.name, a, e)
      PROVE  OldNames
  <2> DEFINE h == Q.replaces
             n == cb.path.name
  <2>1. n \in Names /\ e \in RenameEnds(h, n, a) /\ objs' = Renamed(h, n, a, e)
    BY <1>0, <1>2
  <2> HIDE DEF h, n
  <2>2. /\ OnlyObject(h)
        /\ ~e.done => objs' = objs
        /\ e.done => h \in Handles /\ objs[h] # None /\ objs'[h].dir = objs[h].dir /\ objs'[h].name = n
    BY <2>1, RenamedIs
  <2> QED
    BY <1>1, <2>2 DEF OldNames, OnlyObject, Under, h, n
<1>3. ASSUME NEW e \in DeleteEnds(Q.replaces), objs' = Deleted(Q.replaces, e)
      PROVE  OldNames
  BY <1>3, DeletedIs DEF OldNames, OnlyObject
<1>4. CASE SendAside
  BY <1>0, <1>2, <1>4 DEF SendAside
<1>5. CASE SendPutBack
  BY <1>0, <1>2, <1>5 DEF SendPutBack
<1>6. CASE SendDeleteFirst \/ SendDeleteOld
  BY <1>3, <1>6 DEF SendDeleteFirst, SendDeleteOld
<1>7. CASE SendAnnounce
  <2>1. OnlyObject(nextH) /\ nextH \in Nat /\ Handles \subseteq Nat
    BY <1>7, SendTouches, BoundsAssumption DEF Target, SendAnnounce, Inv, TypeOK, Handles
  <2> QED
    BY <2>1 DEF OldNames, OnlyObject
<1>8. CASE SendData
  <2>1. OnlyObject(cb.h) /\ cb.h \in Handles /\ objs[cb.h] # None /\ objs[cb.h] \in Objects
    BY <1>8, SendTouches DEF Target, SendData, Inv, CallbackOK, Idle, TypeOK
  <2>2. objs' = [objs EXCEPT ![cb.h] = None] \/ \E x : objs' = [objs EXCEPT ![cb.h].data = x]
    BY <1>8 DEF SendData
  <2>3. ASSUME NEW x, objs' = [objs EXCEPT ![cb.h].data = x]
        PROVE  objs'[cb.h].dir = objs[cb.h].dir /\ objs'[cb.h].name = objs[cb.h].name
    BY <2>1, <2>3 DEF Objects, Inv, TypeOK
  <2>4. objs' = [objs EXCEPT ![cb.h] = None] => objs'[cb.h] = None
    BY <2>1 DEF Inv, TypeOK
  <2> QED
    BY <2>1, <2>2, <2>3, <2>4 DEF OldNames, OnlyObject
<1> QED
  BY <1>4, <1>5, <1>6, <1>7, <1>8 DEF SendStep

\* Every step of send_pending.
LEMMA SendStepNames == ASSUME Inv, Inv', HandleInv, NamesInv, SendStep PROVE NamesInv'
<1>1. /\ KeepsReplaces(cb.path, NoHandle) /\ entry' = entry /\ cb.pc \in SendPCs
      /\ listing' = listing \/ listing' = Forget(listing, cb.path.dir)
      /\ cb' = NotRunning \/ cb'.pc \in SendPCs
  BY SendEffect
<1>2. OldNames /\ FreshInv
  BY SendOldNames DEF NamesInv, HandleInv
<1>3. nextH' >= nextH
  BY SendTouches, BoundsAssumption DEF Inv, TypeOK
<1>4. \A d \in Dirs : listing'[d] \in {listing[d], None}
  BY <1>1 DEF Forget, Inv, TypeOK
<1>5. cb.pc \notin RenamePCs /\ cb'.pc \notin RenamePCs
  BY <1>1 DEF RenamePCs, PCs, SendPCs, NotRunning
<1> QED
  BY <1>1, <1>2, <1>3, <1>4, <1>5, KeepsNames

\* The checks of op_rename find the objects at the two paths.
LEMMA RenameNames ==
    ASSUME Inv, Inv', HandleInv, NamesInv, NEW from \in Paths, NEW to \in Paths, OpRename(from, to)
    PROVE  NamesInv'
<1>1. UNCHANGED <<objs, nextH, pending>> /\ Idle /\ <<from, to>> \in Renames /\ from # to
  BY DEF OpRename, device, host
<1>2. \A d \in Dirs : TrueIn(listing, entry, d)
  BY <1>1 DEF NamesInv, TreeTrue, Unsettled, Idle
<1>3. listing \in Listings /\ entry \in EntryMaps /\ TypeOK /\ Known(objs)
  BY Parts DEF Inv, TreeOK, HandleInv, FreshInv
<1>4. ReplacesTrue'
  BY <1>1 DEF NamesInv, ReplacesTrue, Under
<1>5. PICK r \in Resolve(listing, entry, from) : OpRename(from, to)!3!(r)
  BY DEF OpRename
<1>6. /\ \A d \in Dirs : TrueIn(r.listing, r.entry, d)
      /\ r.listing \in Listings /\ r.entry \in EntryMaps
      /\ r.h # NoHandle => r.h \in Handles /\ Under(r.h, from) /\ r.entry[r.h].name = from.name
  BY <1>2, <1>3, ResolveTrue, ResolveType
<1>7. CASE r.h = NoHandle
  <2>1. cb'.pc = "idle" /\ listing' = r.listing /\ entry' = r.entry
    BY <1>5, <1>7 DEF RenameAnswer, NotRunning
  <2>2. TreeTrue'
    BY <1>1, <1>6, <2>1 DEF TreeTrue, TrueIn, Under
  <2>3. RenameTrue'
    BY <2>1 DEF RenameTrue, RenamePCs, PCs
  <2> QED
    BY <1>4, <2>2, <2>3 DEF NamesInv
<1>8. CASE r.h # NoHandle
  <2>1. PICK t \in Resolve(r.listing, r.entry, to) :
          /\ listing' = t.listing /\ entry' = t.entry
          /\ IF t.h = r.h
             THEN RenameAnswer(to, r.h, "OK")
             ELSE Running("rename", None, from, to,
                          IF t.h # NoHandle THEN "ren_aside" ELSE RenameRest(from, to), r.h, t.h)
    BY <1>5, <1>8
  <2>2. /\ \A d \in Dirs : TrueIn(t.listing, t.entry, d)
        /\ t.h # NoHandle => t.h \in Handles /\ Under(t.h, to)
    BY <1>3, <1>6, ResolveTrue
  <2>3. t.entry[r.h].name = from.name
    <3>1. t.entry = r.entry \/ t.entry = Seen(r.entry, to.dir)
      BY DEF Resolve
    <3> QED
      BY <1>6, <1>8, <3>1 DEF Seen, Listed, Under
  <2>4. TreeTrue'
    <3>1. ~(cb'.pc \in {"ren_del", "ren_back"}) /\ ~(cb'.pc = "ren_name" /\ cb'.path.dir # cb'.to.dir)
      BY <2>1 DEF RenameAnswer, NotRunning, Running, RenameRest
    <3> QED
      BY <1>1, <2>1, <2>2, <3>1 DEF TreeTrue, TrueIn, Under
  <2>5. CASE t.h = r.h
    <3>1. cb'.pc = "idle"
      BY <2>1, <2>5 DEF RenameAnswer, NotRunning
    <3>2. RenameTrue'
      BY <3>1 DEF RenameTrue, RenamePCs, PCs
    <3> QED
      BY <1>4, <2>4, <3>2 DEF NamesInv
  <2>6. CASE t.h # r.h
    <3>1. /\ cb'.pc = IF t.h # NoHandle THEN "ren_aside" ELSE RenameRest(from, to)
          /\ cb'.path = from /\ cb'.to = to /\ cb'.h = r.h /\ cb'.old = t.h
      BY <2>1, <2>6 DEF Running
    <3>2. Under(r.h, from)' /\ (t.h # NoHandle => Under(t.h, to)') /\ entry'[r.h].name = from.name
      BY <1>1, <1>6, <1>8, <2>1, <2>2, <2>3 DEF Under
    <3>3. \/ RenameRest(from, to) = "ren_move" /\ from.dir # to.dir
          \/ RenameRest(from, to) = "ren_name" /\ from.dir = to.dir
      BY DEF RenameRest
    <3>4. cb'.pc \notin {"ren_back", "ren_del"}
      BY <3>1, <3>3
    <3>5. cb'.pc = "ren_move" => from.dir # to.dir
      BY <3>1, <3>3
    <3>6. cb'.pc = "ren_name" => from.dir = to.dir
      BY <3>1, <3>3
    <3>7. cb'.pc = "ren_name" => Under(r.h, [dir |-> to.dir, name |-> from.name])'
      BY <3>2, <3>6 DEF Under
    <3>8. RenameTrue'
      BY <1>1, <2>6, <3>1, <3>2, <3>4, <3>5, <3>7 DEF RenameTrue, Under
    <3> QED
      BY <1>4, <2>4, <3>8 DEF NamesInv
  <2> QED
    BY <2>5, <2>6
<1> QED
  BY <1>7, <1>8

\* The object g, if it stays, keeps its folder and its name.
Stays(g) == (objs[g] # None /\ objs'[g] # None) =>
    objs'[g].dir = objs[g].dir /\ objs'[g].name = objs[g].name
\* The step moves no object but the one that op_rename is to move, from its path.
Moves == \A g \in Handles : Stays(g) \/ (g = cb.h /\ objs[g].dir = cb.path.dir /\ objs[g].name = cb.path.name)

\* op_rename runs for paths without a Pending, and changes folder or name.
LEMMA RenameSteady ==
    ASSUME SteadyNames, Inv, WriterInv, RenameTrue, cb.pc \in RenamePCs
    PROVE  /\ cb.path.dir = cb.to.dir \/ cb.path.name = cb.to.name
           /\ "move" \notin Faults /\ pending[cb.path] = None /\ pending[cb.to] = None
           /\ cb.path \in Paths /\ cb.to \in Paths /\ cb.h \in Handles /\ cb \in Callbacks
           /\ cb.old \in Handles \cup {NoHandle}
<1>1. /\ cb.path \in Paths /\ cb.to \in Paths /\ cb.h \in Handles /\ cb \in Callbacks
      /\ cb.old \in Handles \cup {NoHandle}
  BY RenameContext DEF RenamePCs
<1>2. /\ "move" \notin Faults /\ "setlen" \notin Faults
      /\ cb.path.dir = cb.to.dir \/ cb.path.name = cb.to.name
  BY <1>1 DEF SteadyNames, RenameTrue
<1>3. Writes(cb.path) = {} /\ Writes(cb.to) = {}
  BY DEF WriterInv, NobodyHolds, Writes, Opens
<1>4. \A p : ~Truncating(p)
  BY DEF Truncating, RenamePCs
<1> QED
  BY <1>1, <1>2, <1>3, <1>4 DEF WriterInv, Owned

\* What each step of op_rename does to the names.
LEMMA RenameMoves ==
    ASSUME SteadyNames, Inv, WriterInv, RenameTrue, RenameStep
    PROVE  Moves
<1>0. /\ cb.pc \in RenamePCs /\ cb.to.name \in Names /\ NoHandle \notin Handles
      /\ 0 \in 0..MaxCount /\ (count < MaxCount => count + 1 \in 0..MaxCount)
      /\ cb.h \in Handles
      /\ cb.path.dir = cb.to.dir \/ cb.path.name = cb.to.name
  BY RenameEffect, RenameSteady, BoundsAssumption DEF Paths, Inv, TypeOK, NoHandle, Handles
<1>1. cb.old \in Handles => Under(cb.old, cb.to)
  BY <1>0 DEF RenameTrue
<1>2. ASSUME UNCHANGED objs
      PROVE  Moves
  BY <1>2 DEF Moves, Stays
<1>3. ASSUME NEW a \in 0..MaxCount, NEW e \in RenameEnds(cb.old, cb.to.name, a),
             objs' = Renamed(cb.old, cb.to.name, a, e)
      PROVE  Moves
  <2> DEFINE h == cb.old
             n == cb.to.name
  <2>1. n \in Names /\ e \in RenameEnds(h, n, a) /\ objs' = Renamed(h, n, a, e)
    BY <1>0, <1>3
  <2> HIDE DEF h, n
  <2>2. /\ OnlyObject(h)
        /\ ~e.done => objs' = objs
        /\ e.done => h \in Handles /\ objs[h] # None /\ objs'[h].dir = objs[h].dir /\ objs'[h].name = n
    BY <2>1, RenamedIs
  <2> QED
    BY <1>1, <2>2 DEF Moves, Stays, OnlyObject, Under, h, n
<1>4. CASE RenameAside
  BY <1>0, <1>3, <1>4 DEF RenameAside
<1>5. CASE RenamePutBack
  BY <1>0, <1>3, <1>5 DEF RenamePutBack
<1>6. CASE RenameDelete
  BY <1>6, DeletedIs DEF RenameDelete, Moves, Stays, OnlyObject
<1>7. CASE RenameMove
  <2>1. objs' = objs \/ (objs[cb.h] # None /\ \E o : objs' = [objs EXCEPT ![cb.h] = o])
    BY <1>7, EndsDone DEF RenameMove
  <2>2. Under(cb.h, cb.path)
    BY <1>0, <1>7 DEF RenameMove, RenameTrue
  <2> QED
    BY <1>2, <2>1, <2>2 DEF Moves, Stays, Under, Inv, TypeOK
<1>8. CASE RenameName
  <2>1. CASE UNCHANGED objs
    BY <1>2, <2>1
  <2>2. CASE /\ entry[cb.h].name # cb.to.name
             /\ \E e \in RenameEnds(cb.h, cb.to.name, 0) : objs' = Renamed(cb.h, cb.to.name, 0, e)
    <3>1. cb.path.dir = cb.to.dir /\ Under(cb.h, [dir |-> cb.to.dir, name |-> cb.path.name])
      BY <1>0, <1>8, <2>2 DEF RenameTrue, RenameName
    <3>2. OnlyObject(cb.h)
      BY <1>0, <2>2, RenamedIs
    <3> QED
      BY <3>1, <3>2 DEF Moves, Stays, OnlyObject, Under
  <2> QED
    BY <1>8, <2>1, <2>2 DEF RenameName
<1> QED
  BY <1>4, <1>5, <1>6, <1>7, <1>8 DEF RenameStep

\* The tree stays true where the step moves nothing; the other folders are
\* forgotten, or are about to be.
LEMMA TreeAfterMove ==
    ASSUME Inv, TreeTrue, Moves, NoneNew, UNCHANGED <<nextH, entry>>,
           \A d \in Dirs : \/ listing'[d] = None
                           \/ Unsettled(d)'
                           \/ /\ listing'[d] = listing[d] /\ ~Unsettled(d)
                              /\ d # cb.path.dir \/ \A g \in Handles : Stays(g)
    PROVE  TreeTrue'
<1> SUFFICES ASSUME NEW d \in Dirs, listing'[d] = listing[d], listing[d] # None, ~Unsettled(d),
                    d # cb.path.dir \/ \A g \in Handles : Stays(g)
             PROVE  TrueIn(listing, entry, d)'
  BY DEF TreeTrue, TrueIn
<1>1. TrueIn(listing, entry, d)
  BY DEF TreeTrue
<1>2. ASSUME NEW h \in listing[d]
      PROVE  h < nextH' /\ Under(h, [dir |-> d, name |-> entry[h].name])'
  <2>1. h \in Handles /\ h < nextH /\ Under(h, [dir |-> d, name |-> entry[h].name])
    BY <1>1, <1>2 DEF TrueIn, Inv, TypeOK
  <2>2. Stays(h) \/ objs[h] = None
    BY <2>1 DEF Moves, Under
  <2> QED
    BY <2>1, <2>2 DEF Under, Stays, NoneNew
<1> QED
  BY <1>2 DEF TrueIn, Under

\* What a Pending replaces is not what op_rename moves.
LEMMA ReplacesAfterMove ==
    ASSUME Inv, ReplacesTrue, Moves, NoneNew, UNCHANGED pending, pending[cb.path] = None, cb.path \in Paths
    PROVE  ReplacesTrue'
<1> SUFFICES ASSUME NEW q \in Paths, pending[q] # None, pending[q].replaces # NoHandle
             PROVE  Under(pending[q].replaces, q)'
  BY DEF ReplacesTrue
<1>1. pending[q].replaces \in Handles /\ Under(pending[q].replaces, q)
  BY DEF Inv, TypeOK, Pendings, ReplacesTrue
<1>2. q.dir # cb.path.dir \/ q.name # cb.path.name
  BY DEF Paths
<1>3. Stays(pending[q].replaces) \/ objs[pending[q].replaces] = None
  BY <1>1, <1>2 DEF Moves, Under
<1> QED
  BY <1>1, <1>3 DEF Under, Stays, NoneNew

\* What the next step of op_rename finds: the two paths, and the object at
\* the target, are as before.
LEMMA RenameGoesOn ==
    ASSUME SteadyNames, Inv, WriterInv, RenameTrue, RenameStep, cb'.pc \in RenamePCs
    PROVE  /\ cb'.path = cb.path /\ cb'.to = cb.to /\ cb'.h = cb.h /\ cb'.old = cb.old
           /\ <<cb.path, cb.to>> \in Renames /\ cb.path # cb.to
           /\ entry'[cb.h].name = cb.path.name
           /\ cb.old # NoHandle => cb.old # cb.h /\ Under(cb.old, cb.to)'
<1>1. /\ cb.pc \in RenamePCs /\ entry' = entry
      /\ cb'.path = cb.path /\ cb'.to = cb.to /\ cb'.h = cb.h /\ cb'.old = cb.old
  BY RenameEffect DEF NotRunning, RenamePCs, PCs
<1>2. Moves /\ NoneNew /\ cb.old \in Handles \cup {NoHandle}
  BY <1>1, RenameMoves, RenameObjects, RenameSteady
<1>3. /\ <<cb.path, cb.to>> \in Renames /\ cb.path # cb.to
      /\ entry[cb.h].name = cb.path.name
      /\ cb.old # NoHandle => cb.old # cb.h /\ Under(cb.old, cb.to)
  BY <1>1 DEF RenameTrue
<1>4. cb.old # NoHandle => Stays(cb.old)
  BY <1>2, <1>3 DEF Moves
<1>5. cb.old # NoHandle =>
         (objs'[cb.old] # None => objs'[cb.old].dir = cb.to.dir /\ objs'[cb.old].name = cb.to.name)
  BY <1>2, <1>3, <1>4 DEF Under, Stays, NoneNew
<1> QED
  BY <1>1, <1>3, <1>5 DEF Under

\* Where the object is, after each step of op_rename.
LEMMA RenameStepTrue ==
    ASSUME SteadyNames, Inv, WriterInv, RenameTrue, RenameStep
    PROVE  RenameTrue'
<1> SUFFICES ASSUME cb'.pc \in RenamePCs
             PROVE  RenameTrue'
  BY DEF RenameTrue
<1>1. /\ cb'.path = cb.path /\ cb'.to = cb.to /\ cb'.h = cb.h /\ cb'.old = cb.old
      /\ <<cb.path, cb.to>> \in Renames /\ cb.path # cb.to
      /\ entry'[cb.h].name = cb.path.name
      /\ cb.old # NoHandle => cb.old # cb.h /\ Under(cb.old, cb.to)'
  BY RenameGoesOn
<1>2. /\ cb.path.dir = cb.to.dir \/ cb.path.name = cb.to.name
      /\ cb \in Callbacks /\ cb.h \in Handles /\ cb.to.name \in Names /\ cb.pc \in RenamePCs
      /\ 0 \in 0..MaxCount /\ (count < MaxCount => count + 1 \in 0..MaxCount)
  BY RenameEffect, RenameSteady, BoundsAssumption DEF Paths, Inv, TypeOK
<1>3. ASSUME NEW rc, RenameDone(rc)
      PROVE  FALSE
  BY <1>3 DEF RenameDone, RenameAnswer, NotRunning, RenamePCs, PCs
<1> DEFINE Where ==
      /\ cb'.pc \in {"ren_aside", "ren_move"} => Under(cb.h, cb.path)'
      /\ cb'.pc = "ren_move" => cb.path.dir # cb.to.dir
      /\ cb'.pc = "ren_name" => Under(cb.h, [dir |-> cb.to.dir, name |-> cb.path.name])'
      /\ cb'.pc = "ren_back" => cb.path.dir = cb.to.dir /\ cb.old # NoHandle
      /\ cb'.pc = "ren_del" => Under(cb.h, cb.to)' /\ cb.old # NoHandle
<1>4. ASSUME NEW pc, Goto(pc)
      PROVE  cb'.pc = pc
  BY <1>2, <1>4 DEF Goto, Callbacks
<1> DEFINE Now(p) == objs'[cb.h] # None => objs'[cb.h].dir = p.dir /\ objs'[cb.h].name = p.name
           Named2 == [dir |-> cb.to.dir, name |-> cb.path.name]
<1>5. \/ cb'.pc = "ren_move" /\ Now(cb.path) /\ cb.path.dir # cb.to.dir
      \/ cb'.pc = "ren_name" /\ Now(Named2)
      \/ cb'.pc = "ren_back" /\ cb.path.dir = cb.to.dir /\ cb.old # NoHandle
      \/ cb'.pc = "ren_del" /\ Now(cb.to) /\ cb.old # NoHandle
  <2>1. CASE RenameAside
    <3>1. PICK e \in RenameEnds(cb.old, cb.to.name, count + 1) : RenameAside!3!(e)
      BY <2>1 DEF RenameAside
    <3>2. OnlyObject(cb.old) /\ objs'[cb.h] = objs[cb.h]
      <4>1. OnlyObject(cb.old) /\ (~e.done => objs' = objs) /\ (e.done => cb.old \in Handles)
        BY <1>2, <2>1, <3>1, RenamedIs DEF RenameAside
      <4> QED
        BY <1>1, <1>2, <4>1 DEF OnlyObject, NoHandle, Handles
    <3>3. cb'.pc = RenameRest(cb.path, cb.to)
      BY <1>3, <1>4, <3>1
    <3>4. Under(cb.h, cb.path)
      BY <1>2, <2>1 DEF RenameAside, RenameTrue
    <3> QED
      BY <3>2, <3>3, <3>4 DEF RenameRest, Under
  <2>2. CASE RenameMove
    <3>1. PICK e \in Ends("move", objs[cb.h] # None) :
             /\ objs' = IF e.done THEN [objs EXCEPT ![cb.h].dir = cb.to.dir] ELSE objs
             /\ e.told /\ Goto("ren_name")
      BY <1>3, <2>2 DEF RenameMove
    <3>2. e.done /\ objs[cb.h] # None
      BY <3>1, EndsTold, EndsDone
    <3>3. objs[cb.h] \in Objects
      BY <1>2, <3>2 DEF Inv, TypeOK
    <3>4. objs'[cb.h].dir = cb.to.dir /\ objs'[cb.h].name = objs[cb.h].name
      BY <1>2, <3>1, <3>2, <3>3 DEF Objects, Inv, TypeOK
    <3>5. Under(cb.h, cb.path)
      BY <1>2, <2>2 DEF RenameMove, RenameTrue
    <3>6. cb'.pc = "ren_name"
      BY <1>4, <3>1
    <3> QED
      BY <3>2, <3>4, <3>5, <3>6 DEF Under
  <2>3. CASE RenameName
    <3>1. Under(cb.h, Named2) /\ entry[cb.h].name = cb.path.name
      BY <1>2, <2>3 DEF RenameName, RenameTrue
    <3>2. CASE cb.path.name = cb.to.name
      <4>1. UNCHANGED objs /\ cb.old # NoHandle /\ Goto("ren_del")
        BY <1>3, <2>3, <3>1, <3>2 DEF RenameName
      <4> QED
        BY <1>4, <3>1, <3>2, <4>1 DEF Under
    <3>3. CASE cb.path.name # cb.to.name
      <4>1. PICK e \in RenameEnds(cb.h, cb.to.name, 0) :
              /\ objs' = Renamed(cb.h, cb.to.name, 0, e)
              /\ cb.old # NoHandle
              /\ (e.told /\ Goto("ren_del")) \/ Goto("ren_back")
        BY <1>3, <2>3, <3>1, <3>3 DEF RenameName
      <4>2. /\ e.told => e.done
            /\ e.done => objs[cb.h] # None /\ objs'[cb.h].dir = objs[cb.h].dir /\ objs'[cb.h].name = cb.to.name
        <5> DEFINE h == cb.h
                   n == cb.to.name
        <5>1. n \in Names /\ 0 \in 0..MaxCount /\ e \in RenameEnds(h, n, 0) /\ objs' = Renamed(h, n, 0, e)
          BY <1>2, <4>1
        <5> HIDE DEF h, n
        <5>2. /\ e.told => e.done
              /\ e.done => objs[h] # None /\ objs'[h].dir = objs[h].dir /\ objs'[h].name = n
          BY <5>1, RenamedIs
        <5> QED
          BY <5>2 DEF h, n
      <4> QED
        BY <1>2, <1>4, <3>1, <3>3, <4>1, <4>2 DEF Under
    <3> QED
      BY <3>2, <3>3
  <2>4. CASE RenamePutBack \/ RenameDelete
    BY <1>3, <2>4 DEF RenamePutBack, RenameDelete
  <2> QED
    BY <2>1, <2>2, <2>3, <2>4 DEF RenameStep
<1>6. Where
  BY <1>1, <1>5 DEF Under
<1> HIDE DEF Where
<1> QED
  BY <1>1, <1>6 DEF RenameTrue, Where, Under

\* What the steps of op_rename leave of the listings of its two folders.
LEMMA RenameListings ==
    ASSUME SteadyNames, Inv, WriterInv, RenameTrue, RenameStep, NEW d \in Dirs
    PROVE  \/ listing'[d] = None
           \/ Unsettled(d)'
           \/ /\ listing'[d] = listing[d] /\ ~Unsettled(d)
              /\ d # cb.path.dir \/ \A g \in Handles : Stays(g)
<1>0. /\ cb.pc \in RenamePCs /\ cb \in Callbacks /\ cb.h \in Handles /\ listing \in [Dirs -> (SUBSET Handles) \cup {None}]
      /\ cb.path.dir = cb.to.dir \/ cb.path.name = cb.to.name
      /\ "move" \notin Faults /\ entry[cb.h].name = cb.path.name
      /\ cb.path.dir \in Dirs /\ cb.to.dir \in Dirs /\ Moves
  BY RenameEffect, RenameSteady, RenameMoves DEF RenameTrue, Inv, TypeOK, Paths
<1>1. ASSUME NEW pc, Goto(pc)
      PROVE  cb'.pc = pc /\ cb'.path = cb.path /\ cb'.to = cb.to
  BY <1>0, <1>1 DEF Goto, Callbacks
<1>2. ASSUME UNCHANGED objs
      PROVE  \A g \in Handles : Stays(g)
  BY <1>2 DEF Stays
<1>3. CASE RenameAside
  <2>1. PICK e \in RenameEnds(cb.old, cb.to.name, count + 1) : RenameAside!3!(e)
    BY <1>3 DEF RenameAside
  <2>2. ~Unsettled(d) /\ listing'[d] \in {listing[d], None}
    BY <1>0, <1>3, <2>1 DEF RenameAside, Unsettled, Forget
  <2>3. cb.to.name \in Names /\ count + 1 \in 0..MaxCount
    BY <1>3, RenameSteady, RenameEffect, BoundsAssumption DEF Paths, RenameAside, Inv, TypeOK
  <2>4. OnlyObject(cb.old) /\ (objs' # objs => cb.old \in Handles)
    BY <2>1, <2>3, RenamedIs
  <2>5. cb.old # cb.h \/ objs' = objs
    BY <1>0, <2>4 DEF RenameTrue, NoHandle, Handles
  <2>6. \A g \in Handles : Stays(g)
    BY <1>0, <1>2, <2>4, <2>5 DEF Moves, Stays, OnlyObject
  <2> QED
    BY <2>2, <2>6
<1>4. CASE RenameMove
  <2>1. ~Unsettled(d) /\ listing' = listing /\ cb.path.dir # cb.to.dir
    BY <1>0, <1>4 DEF RenameMove, Unsettled, tree, RenameTrue
  <2>2. objs' = objs \/ Goto("ren_name")
    BY <1>0, <1>4, EndsTold DEF RenameMove
  <2> QED
    BY <1>1, <1>2, <2>1, <2>2 DEF Unsettled
<1>5. CASE RenameName
  <2>1. \/ listing' = listing /\ \E pc \in {"ren_del", "ren_back"} : Goto(pc)
        \/ cb.path.dir = cb.to.dir /\ UNCHANGED <<objs, listing>>
        \/ listing' = RenameForget(listing)
        \/ listing' = Forget(listing, cb.to.dir) /\ cb.path.dir = cb.to.dir
    BY <1>0, <1>5 DEF RenameName
  <2> QED
    BY <1>0, <1>1, <1>2, <1>5, <2>1 DEF Unsettled, RenameForget, Forget, RenameName
<1>6. CASE RenamePutBack
  BY <1>0, <1>6 DEF RenamePutBack, Unsettled, Forget, RenameTrue
<1>7. CASE RenameDelete
  BY <1>0, <1>7 DEF RenameDelete, Unsettled, Forget, RenameForget
<1> QED
  BY <1>3, <1>4, <1>5, <1>6, <1>7 DEF RenameStep

\* Every step of op_rename.
LEMMA RenameStepNames ==
    ASSUME SteadyNames, Inv, WriterInv, NamesInv, RenameStep
    PROVE  NamesInv'
<1>1. Moves /\ NoneNew /\ UNCHANGED <<nextH, entry, pending>> /\ cb.pc \in RenamePCs
  BY RenameMoves, RenameObjects, RenameEffect DEF NamesInv
<1>2. TreeTrue'
  BY <1>1, RenameListings, TreeAfterMove DEF NamesInv
<1>3. ReplacesTrue'
  BY <1>1, RenameSteady, ReplacesAfterMove DEF NamesInv
<1> QED
  BY <1>2, <1>3, RenameStepTrue DEF NamesInv

\* A mount starts with an empty tree and no callback.
LEMMA RemountNames == ASSUME Crash \/ Unmount PROVE NamesInv'
<1>1. /\ listing' = [d \in Dirs |-> None] /\ pending' = [p \in Paths |-> None] /\ cb' = NotRunning
  BY DEF Crash, Unmount, Remount
<1> QED
  BY <1>1 DEF NamesInv, TreeTrue, TrueIn, ReplacesTrue, RenameTrue, NotRunning, RenamePCs, PCs

\* Every step keeps the tree true.
LEMMA NextNames ==
    ASSUME SteadyNames, Inv, WriterInv, HandleInv, NamesInv, [Next]_vars
    PROVE  NamesInv'
<1>1. Inv' /\ FreshInv
  BY NextInv DEF HandleInv
<1>2. CASE UNCHANGED vars
  BY <1>2 DEF vars, NamesInv, TreeTrue, TrueIn, Unsettled, ReplacesTrue, RenameTrue, Under
<1>3. CASE Next
  BY <1>1, <1>3, FindNames, SpoolNames, ReaddirNames, RenameNames, RenameStepNames, SendStepNames,
     RemountNames DEF Next
<1> QED
  BY <1>2, <1>3

\* The first mount starts with an empty tree and no callback.
LEMMA InitNames == Init => NamesInv
BY DEF Init, NamesInv, TreeTrue, TrueIn, ReplacesTrue, RenameTrue, NotRunning, RenamePCs, PCs
=============================================================================
