------------------------- MODULE MtpFsSafety_proofs -------------------------
(***************************************************************************)
(* The safety properties of the write path, for every value of the         *)
(* constants: no broken spool file reaches the cellphone; contents that    *)
(* the cellphone holds no copy of are in a spool file; a close and a       *)
(* rename that answer 0 tell the truth; the old copy of a file goes last;  *)
(* and a spool file has an owner.  The first two rest on the invariant Inv *)
(* of MtpFs_proofs alone, the others on WriterInv, HandleInv and NamesInv  *)
(* too, and on the hypotheses LoneWriters and SteadyNames.                 *)
(***************************************************************************)
EXTENDS MtpFs_proofs

-----------------------------------------------------------------------------
(* A broken spool file never reaches the cellphone.                        *)

\* The strengthening: torn contents are marked `broken` as long as they are
\* in the spool, and send_pending passes its first test only without the mark.
TornMarked == \A p \in Paths :
    (pending[p] # None /\ pending[p].data.ver = Torn) => pending[p].broken
SendsWhole == cb.pc \in SendPCs => ~pending[cb.path].broken
TornInv == TornNeverSent /\ TornMarked /\ SendsWhole

\* What the cellphone holds keeps its contents through a rename or a delete.
LEMMA RenamedData ==
    ASSUME TypeOK, NEW h, NEW n \in Names, NEW a \in 0..MaxCount, NEW e \in RenameEnds(h, n, a),
           NEW g \in Handles, Renamed(h, n, a, e)[g] # None
    PROVE  objs[g] # None /\ Renamed(h, n, a, e)[g].data = objs[g].data
<1>1. CASE ~e.done
  BY <1>1 DEF Renamed
<1>2. CASE e.done
  <2>1. h \in Handles /\ objs[h] # None
    BY <1>2, EndsDone DEF RenameEnds
  <2>2. objs[h] \in Objects
    BY <2>1 DEF TypeOK
  <2> DEFINE o == [[objs[h] EXCEPT !.name = n] EXCEPT !.aside = a]
  <2>3. o.data = objs[h].data
    BY <2>2 DEF Objects
  <2>4. Renamed(h, n, a, e) = [objs EXCEPT ![h] = o]
    BY <1>2 DEF Renamed
  <2> HIDE DEF o
  <2> QED
    BY <2>1, <2>3, <2>4 DEF TypeOK
<1> QED
  BY <1>1, <1>2

\* A delete leaves every other object with the contents it had.
LEMMA DeletedData ==
    ASSUME TypeOK, NEW h, NEW e \in DeleteEnds(h), NEW g \in Handles, Deleted(h, e)[g] # None
    PROVE  objs[g] # None /\ Deleted(h, e)[g].data = objs[g].data
BY DEF Deleted, TypeOK

\* Contents a well spool can hold are not torn.
LEMMA CutWhole ==
    ASSUME NEW x \in Data, x.ver # Torn, NEW n \in 0..x.len
    PROVE  Cut(x, n).ver # Torn
BY SetsAssumption DEF Cut, Data, NoBytes

\* A change through a whole spool file leaves it whole.
LEMMA ChangedWhole ==
    ASSUME NEW q \in Pendings, ~q.broken, NEW n \in 0..MaxLen, NEW x \in Changed(q, n)
    PROVE  x.ver # Torn
BY SetsAssumption DEF Changed, NoBytes

\* The spool file that adopt_object hands over is whole.
LEMMA AdoptedWhole ==
    ASSUME TypeOK, TornNeverSent, NEW h \in Handles, NEW size, NEW k, NEW a \in Adopted(h, size, k),
           a.rc = "OK"
    PROVE  a.data.ver # Torn
<1>1. NoBytes.ver # Torn
  BY SetsAssumption DEF NoBytes
<1>2. \A x \in Copies(h, size) : x.ver # Torn
  BY CutWhole DEF Copies, TypeOK, Objects, TornNeverSent
<1>3. a.data \in Copies(h, size) \cup {NoBytes}
  <2> DEFINE copy == k /\ size > 0
  <2> HIDE DEF copy
  <2>1. \/ a \in {[rc |-> "OK", data |-> x, stray |-> FALSE] :
                     x \in IF copy THEN Copies(h, size) ELSE {NoBytes}}
        \/ a \in (IF "spool" \in Faults
                   THEN {[rc |-> "EIO", data |-> NoBytes, stray |-> FALSE]}
                        \cup (IF copy THEN {[rc |-> "ENOSPC", data |-> NoBytes, stray |-> FALSE]}
                              ELSE {})
                   ELSE {})
        \/ a \in (IF copy /\ (objs[h] = None \/ "copy" \in Faults)
                   THEN {[rc |-> "EIO", data |-> NoBytes, stray |-> TRUE]} ELSE {})
    BY Zenon DEF Adopted, copy
  <2>2. \/ \E x \in Copies(h, size) \cup {NoBytes} : a = [rc |-> "OK", data |-> x, stray |-> FALSE]
        \/ a = [rc |-> "EIO", data |-> NoBytes, stray |-> FALSE]
        \/ a = [rc |-> "ENOSPC", data |-> NoBytes, stray |-> FALSE]
        \/ a = [rc |-> "EIO", data |-> NoBytes, stray |-> TRUE]
    BY <2>1, Zenon
  <2> QED
    BY <2>2
<1> QED
  BY <1>1, <1>2, <1>3

\* A Pending that ends, or starts, a send keeps its contents and its mark.
LEMMA FinishTorn ==
    ASSUME Inv, TornInv, NEW op, NEW fd, NEW p \in Paths, NEW q \in Pendings, NEW rc,
           q.data.ver = Torn => q.broken, Finish(op, fd, p, q, rc)
    PROVE  TornMarked' /\ SendsWhole'
<1>1. cb' = NotRunning
  BY DEF Finish, Answer
<1>2. [q EXCEPT !.sent = rc].data = q.data /\ [q EXCEPT !.sent = rc].broken = q.broken
  BY DEF Pendings
<1> DEFINE q2 == [q EXCEPT !.sent = rc]
<1>3. pending' = [pending EXCEPT ![p] = IF PutsBack(op) THEN q2 ELSE None]
  BY DEF Finish
<1> HIDE DEF q2
<1>4. q2.data.ver = Torn => q2.broken
  BY <1>2 DEF q2
<1>5. TornMarked'
  BY <1>3, <1>4 DEF TornMarked, TornInv, Inv, TypeOK
<1>6. SendsWhole'
  BY <1>1 DEF SendsWhole, NotRunning, SendPCs
<1> QED
  BY <1>5, <1>6

\* The start of send_pending keeps the marks, and enters a send only with a whole spool file.
LEMMA SendStartTorn ==
    ASSUME Inv, TornInv, NEW op, NEW fd, NEW p \in Paths, NEW q \in Pendings, NEW size,
           q.data.ver = Torn => q.broken, SendStart(op, fd, p, q, size)
    PROVE  TornMarked' /\ SendsWhole'
<1>1. ASSUME NEW rc, Finish(op, fd, p, q, rc)
      PROVE  TornMarked' /\ SendsWhole'
  BY <1>1, FinishTorn
<1>2. ASSUME NEW pc, ~q.broken, pending' = [pending EXCEPT ![p] = q],
             Running(op, fd, p, p, pc, NoHandle, NoHandle)
      PROVE  TornMarked' /\ SendsWhole'
  BY <1>2 DEF TornMarked, SendsWhole, TornInv, Inv, TypeOK, Running
<1> QED
  BY <1>1, <1>2 DEF SendStart, Unfit

\* Contents that were on the cellphone before the step are not torn.
SameData == \A g \in Handles : objs'[g] # None => objs[g] # None /\ objs'[g].data = objs[g].data

\* A step that leaves all contents alone sends nothing torn.
LEMMA SameDataTorn == TornNeverSent /\ SameData => TornNeverSent'
BY DEF TornNeverSent, SameData

\* A step that changes no Pending and does not enter send_pending.
LEMMA QuietTorn ==
    ASSUME TornInv, pending' = pending, cb'.pc \notin SendPCs
    PROVE  TornMarked' /\ SendsWhole'
BY DEF TornInv, TornMarked, SendsWhole

\* getattr and readdir.
LEMMA LookTorn ==
    ASSUME Inv, TornInv, \/ \E p \in Paths : OpGetattr(p)
                         \/ \E d \in Dirs : OpReaddir(d)
    PROVE  TornInv'
BY DEF OpGetattr, OpReaddir, device, host, TornInv, TornNeverSent, TornMarked, SendsWhole

\* unlink, and op_rename up to its first change of the cellphone.
LEMMA UnlinkTorn == ASSUME Inv, TornInv, NEW p \in Paths, OpUnlink(p) PROVE TornInv'
<1>1. PICK r \in Resolve(listing, entry, p) : OpUnlink(p)!2!(r)
  BY DEF OpUnlink
<1>2. cb'.pc \notin SendPCs /\ pending' = pending
  BY <1>1 DEF OpUnlink, host, Answer, NotRunning, SendPCs
<1>3. SameData
  <2>1. CASE UNCHANGED objs
    BY <2>1 DEF SameData
  <2>2. CASE \E e \in DeleteEnds(r.h) : objs' = Deleted(r.h, e)
    BY <2>2, DeletedData DEF SameData, Inv
  <2> QED
    BY <1>1, <2>1, <2>2
<1> QED
  BY <1>2, <1>3, QuietTorn, SameDataTorn DEF TornInv

\* The checks of op_rename keep the torn-file invariant.
LEMMA RenameTorn ==
    ASSUME Inv, TornInv, NEW from \in Paths, NEW to \in Paths, OpRename(from, to)
    PROVE  TornInv'
<1>1. pending' = pending /\ objs' = objs
  BY DEF OpRename, host, device
<1>2. cb'.pc \notin SendPCs
  BY DEF OpRename, RenameAnswer, Running, NotRunning, RenameRest, SendPCs
<1> QED
  BY <1>1, <1>2, QuietTorn DEF TornInv, TornNeverSent

\* The steps of op_rename move and delete objects and change no contents.
LEMMA RenameStepTorn == ASSUME Inv, TornInv, RenameStep PROVE TornInv'
<1>0. cb.pc \in PCs \ SendPCs /\ "ren_name" \notin SendPCs /\ "ren_move" \notin SendPCs
      /\ "ren_del" \notin SendPCs /\ "ren_back" \notin SendPCs /\ "idle" \notin SendPCs
  BY DEF RenameStep, RenameAside, RenameMove, RenameName, RenamePutBack, RenameDelete, PCs, SendPCs
<1>1. pending' = pending
  BY DEF RenameStep, RenameAside, RenameMove, RenameName, RenamePutBack, RenameDelete, host
<1>2. cb \in Callbacks /\ cb.h \in Handles /\ cb.to.name \in Names
  BY <1>0, RenameContext
<1>3. \A pc : Goto(pc) => cb'.pc = pc
  BY <1>2 DEF Goto, Callbacks
<1>4. \A rc : RenameDone(rc) => cb'.pc = "idle"
  BY DEF RenameDone, RenameAnswer, NotRunning
<1>5. cb'.pc \notin SendPCs
  <2>1. CASE RenameAside
    BY <1>0, <1>3, <1>4, <2>1 DEF RenameAside, RenameRest
  <2>2. CASE RenameMove
    BY <1>0, <1>3, <1>4, <2>2 DEF RenameMove
  <2>3. CASE RenameName
    BY <1>0, <1>3, <1>4, <2>3 DEF RenameName
  <2>4. CASE RenamePutBack \/ RenameDelete
    BY <1>0, <1>4, <2>4 DEF RenamePutBack, RenameDelete
  <2> QED
    BY <2>1, <2>2, <2>3, <2>4 DEF RenameStep
<1>6. SameData
  <2>1. ASSUME NEW h, NEW a \in 0..MaxCount, NEW e \in RenameEnds(h, cb.to.name, a),
               objs' = Renamed(h, cb.to.name, a, e)
        PROVE  SameData
    BY <1>2, <2>1, RenamedData DEF SameData, Inv
  <2>2. 0 \in 0..MaxCount /\ (count < MaxCount => count + 1 \in 0..MaxCount)
    BY BoundsAssumption DEF Inv, TypeOK
  <2>3. CASE RenameAside
    BY <2>1, <2>2, <2>3 DEF RenameAside
  <2>4. CASE RenameMove
    <3>1. CASE UNCHANGED objs
      BY <3>1 DEF SameData
    <3>2. CASE objs[cb.h] # None /\ objs' = [objs EXCEPT ![cb.h].dir = cb.to.dir]
      <4>1. objs[cb.h] \in Objects
        BY <1>2, <3>2 DEF Inv, TypeOK
      <4> DEFINE o == [objs[cb.h] EXCEPT !.dir = cb.to.dir]
      <4>2. o.data = objs[cb.h].data
        BY <4>1 DEF Objects
      <4>3. objs' = [objs EXCEPT ![cb.h] = o]
        BY <3>2
      <4> HIDE DEF o
      <4> QED
        BY <1>2, <3>2, <4>2, <4>3 DEF SameData, Inv, TypeOK
    <3> QED
      BY <2>4, <3>1, <3>2, EndsDone DEF RenameMove
  <2>5. CASE RenameName
    <3>1. CASE UNCHANGED objs
      BY <3>1 DEF SameData
    <3> QED
      BY <2>1, <2>2, <2>5, <3>1 DEF RenameName
  <2>6. CASE RenamePutBack
    BY <2>1, <2>2, <2>6 DEF RenamePutBack
  <2>7. CASE RenameDelete
    BY <2>7, DeletedData DEF RenameDelete, SameData, Inv
  <2> QED
    BY <2>3, <2>4, <2>5, <2>6, <2>7 DEF RenameStep
<1> QED
  BY <1>1, <1>5, <1>6, QuietTorn, SameDataTorn DEF TornInv

\* A callback that changes one Pending, keeps the mark with the torn
\* contents, and answers.
LEMMA PutTorn ==
    ASSUME Inv, TornInv, NEW p \in Paths, NEW q, q.data.ver = Torn => q.broken,
           pending' = [pending EXCEPT ![p] = q], cb' = NotRunning, objs' = objs
    PROVE  TornInv'
<1>1. TornMarked'
  BY DEF TornInv, TornMarked, Inv, TypeOK
<1>2. SendsWhole' /\ TornNeverSent'
  BY DEF TornInv, TornNeverSent, SendsWhole, SendPCs, NotRunning
<1> QED
  BY <1>1, <1>2 DEF TornInv

\* A callback that changes no Pending, and answers.
LEMMA AnsweredTorn ==
    ASSUME Inv, TornInv, pending' = pending, cb' = NotRunning, objs' = objs
    PROVE  TornInv'
BY DEF TornInv, TornNeverSent, TornMarked, SendsWhole, SendPCs, NotRunning

\* A new Pending holds the contents its spool file was given.
LEMMA NewPendingTorn ==
    ASSUME NEW x, NEW h
    PROVE  NewPending(x, h).data = x
BY DEF NewPending

\* op_open keeps the torn-file invariant.
LEMMA OpenTorn ==
    ASSUME Inv, TornInv, NEW fd \in FDs, NEW p \in Paths, NEW w \in BOOLEAN, NEW trunc \in BOOLEAN,
           OpOpen(fd, p, w, trunc)
    PROVE  TornInv'
<1>1. PICK r \in Resolve(listing, entry, p) : OpOpen(fd, p, w, trunc)!4!(r)
  BY DEF OpOpen
<1>2. r.h = NoHandle \/ r.h \in Handles
  BY ResolveType, Parts DEF TreeOK, Inv
<1>3. objs' = objs /\ cb' = NotRunning
  BY <1>1 DEF OpOpen, device, Answer
<1>4. CASE pending' = pending
  BY <1>3, <1>4, AnsweredTorn
<1>5. ASSUME r.h # NoHandle, NEW a \in Adopted(r.h, r.entry[r.h].size, ~trunc), a.rc = "OK",
             pending' = [pending EXCEPT ![p] = NewPending(a.data, r.h)]
      PROVE  TornInv'
  <2>1. a.data.ver # Torn
    BY <1>2, <1>5, AdoptedWhole DEF Inv, TornInv
  <2>2. NewPending(a.data, r.h).data = a.data
    BY NewPendingTorn
  <2> QED
    BY <1>3, <1>5, <2>1, <2>2, PutTorn
<1> QED
  BY <1>1, <1>4, <1>5 DEF host

\* op_create keeps the torn-file invariant.
LEMMA CreateTorn ==
    ASSUME Inv, TornInv, NEW fd \in FDs, NEW p \in Paths, OpCreate(fd, p)
    PROVE  TornInv'
<1>1. objs' = objs /\ cb' = NotRunning
  BY DEF OpCreate, device, Answer
<1>2. NewPending(NoBytes, NoHandle).data.ver # Torn
  BY SetsAssumption DEF NewPending, NoBytes
<1>3. pending' = pending \/ pending' = [pending EXCEPT ![p] = NewPending(NoBytes, NoHandle)]
  BY DEF OpCreate
<1> QED
  BY <1>1, <1>2, <1>3, PutTorn, AnsweredTorn

\* A change of the spool file that the program was told of.
LEMMA AcceptedTorn ==
    ASSUME Inv, TornInv, NEW p \in Paths, pending[p] # None, NEW x,
           x.ver = Torn => pending[p].broken,
           Accepted(p, x), cb' = NotRunning, objs' = objs
    PROVE  TornInv'
<1> DEFINE q == [pending[p] EXCEPT !.data = x]
<1>1. pending[p] \in Pendings
  BY DEF Inv, TypeOK
<1>2. q.data = x /\ q.broken = pending[p].broken
  BY <1>1 DEF Pendings
<1>3. pending' = [pending EXCEPT ![p] = q]
  BY SMTT(60) DEF Accepted
<1> HIDE DEF q
<1> QED
  BY <1>2, <1>3, PutTorn

\* op_write keeps the torn-file invariant: a write cut short marks the Pending.
LEMMA WriteTorn == ASSUME Inv, TornInv, NEW fd \in FDs, OpWrite(fd) PROVE TornInv'
<1> DEFINE p == fds[fd].path
<1>1. p \in Paths
  BY DEF OpWrite, Inv, TypeOK, OpenFiles
<1>2. objs' = objs /\ cb' = NotRunning
  BY DEF OpWrite, device, Answer
<1>3. pending[p] # None => pending[p] \in Pendings
  BY <1>1 DEF Inv, TypeOK
<1>4. CASE pending' = pending
  BY <1>2, <1>4, AnsweredTorn
<1>5. ASSUME pending[p] # None, NEW n \in {m \in 1..MaxLen : m >= pending[p].data.len},
             NEW x \in Changed(pending[p], n), Accepted(p, x)
      PROVE  TornInv'
  <2>1. n \in 0..MaxLen
    BY BoundsAssumption
  <2>2. x.ver = Torn => pending[p].broken
    BY <1>3, <1>5, <2>1, ChangedWhole
  <2> HIDE DEF p
  <2> QED
    BY <1>1, <1>2, <1>5, <2>2, AcceptedTorn
<1>6. ASSUME pending[p] # None, NEW x, pending' = [pending EXCEPT ![p].data = x, ![p].broken = TRUE]
      PROVE  TornInv'
  <2> DEFINE q == [[pending[p] EXCEPT !.data = x] EXCEPT !.broken = TRUE]
  <2>1. pending' = [pending EXCEPT ![p] = q]
    BY <1>1, <1>6 DEF Inv, TypeOK
  <2>2. q.broken
    BY <1>3, <1>6 DEF Pendings
  <2> HIDE DEF p, q
  <2> QED
    BY <1>1, <1>2, <2>1, <2>2, PutTorn
<1> QED
  BY <1>4, <1>5, <1>6 DEF OpWrite

\* op_truncate on a file that is open keeps the torn-file invariant.
LEMMA TruncateSpoolTorn ==
    ASSUME Inv, TornInv, NEW p \in Paths, NEW n \in 0..MaxLen, OpTruncateSpool(p, n)
    PROVE  TornInv'
<1>1. objs' = objs /\ cb' = NotRunning /\ pending[p] # None
  BY DEF OpTruncateSpool, device, Answer
<1>2. pending[p] \in Pendings /\ pending[p].data \in Data
  BY <1>1 DEF Inv, TypeOK, Pendings
<1>3. CASE pending' = pending
  BY <1>1, <1>3, AnsweredTorn
<1>4. CASE n <= pending[p].data.len /\ Accepted(p, Cut(pending[p].data, n))
  <2>1. n \in 0..pending[p].data.len
    BY <1>2, <1>4, BoundsAssumption DEF Data, NoBytes
  <2>2. Cut(pending[p].data, n).ver = Torn => pending[p].broken
    BY <1>1, <1>2, <2>1, CutWhole DEF TornInv, TornMarked
  <2> QED
    BY <1>1, <1>4, <2>2, AcceptedTorn
<1>5. ASSUME NEW x \in Changed(pending[p], n), Accepted(p, x)
      PROVE  TornInv'
  BY <1>1, <1>2, <1>5, ChangedWhole, AcceptedTorn
<1> QED
  BY <1>3, <1>4, <1>5 DEF OpTruncateSpool

\* flush and release send the spool file, or answer from what was sent.
LEMMA CloseTorn ==
    ASSUME Inv, TornInv, NEW fd \in FDs, OpFlush(fd) \/ OpRelease(fd)
    PROVE  TornInv'
<1> DEFINE p == fds[fd].path
<1>1. p \in Paths
  BY DEF OpFlush, OpRelease, Inv, TypeOK, OpenFiles
<1>2. objs' = objs
  BY DEF OpFlush, OpRelease, device
<1>3. pending[p] # None => pending[p] \in Pendings /\ (pending[p].data.ver = Torn => pending[p].broken)
  BY <1>1 DEF Inv, TypeOK, TornInv, TornMarked
<1>4. TornNeverSent'
  BY <1>2 DEF TornInv, TornNeverSent
<1>5. ASSUME NEW op, NEW rc, Answer(op, p, fd, rc), UNCHANGED pending
      PROVE  TornInv'
  BY <1>2, <1>5, AnsweredTorn DEF Answer
<1>6. ASSUME pending[p] # None, Finish("release", fd, p, pending[p], "OK")
      PROVE  TornInv'
  <2> HIDE DEF p
  <2> QED
    BY <1>1, <1>3, <1>4, <1>6, FinishTorn DEF TornInv
<1>7. ASSUME pending[p] # None, NEW op, NEW size, SendStart(op, fd, p, pending[p], size)
      PROVE  TornInv'
  <2> HIDE DEF p
  <2> QED
    BY <1>1, <1>3, <1>4, <1>7, SendStartTorn DEF TornInv
<1> QED
  BY <1>5, <1>6, <1>7 DEF OpFlush, OpRelease, Answered

\* truncate of a file nobody writes sends what it cut from a whole copy.
LEMMA TruncateTorn ==
    ASSUME Inv, TornInv, NEW p \in Paths, NEW n \in 0..MaxLen, OpTruncate(p, n)
    PROVE  TornInv'
<1>1. PICK r \in Resolve(listing, entry, p) : OpTruncate(p, n)!2!(r)
  BY DEF OpTruncate
<1>2. r.h = NoHandle \/ r.h \in Handles
  BY ResolveType, Parts DEF TreeOK, Inv
<1>3. objs' = objs /\ TornNeverSent'
  BY DEF OpTruncate, device, TornInv, TornNeverSent
<1>4. ASSUME pending' = pending, NEW rc, Answer("truncate", p, None, rc)
      PROVE  TornInv'
  BY <1>3, <1>4, AnsweredTorn DEF Answer
<1>5. ASSUME r.h # NoHandle, NEW a \in Adopted(r.h, r.entry[r.h].size, n > 0), a.rc = "OK"
      PROVE  a.data \in Data /\ a.data.ver # Torn /\ r.h \in Handles
  BY <1>2, <1>5, AdoptedType, AdoptedWhole DEF Inv, TornInv
<1>6. ASSUME r.h # NoHandle, NEW a \in Adopted(r.h, r.entry[r.h].size, n > 0), a.rc = "OK",
             pending' = [pending EXCEPT ![p] = NewPending(a.data, r.h)],
             Answer("truncate", p, None, "EIO")
      PROVE  TornInv'
  <2>1. NewPending(a.data, r.h).data.ver # Torn
    BY <1>5, <1>6, NewPendingTorn
  <2> QED
    BY <1>3, <1>6, <2>1, PutTorn DEF Answer
<1>7. ASSUME r.h # NoHandle, NEW a \in Adopted(r.h, r.entry[r.h].size, n > 0), a.rc = "OK",
             NEW x \in IF n <= a.data.len THEN {Cut(a.data, n)} ELSE [ver: Vers, len: {n}],
             SendStart("truncate", None, p, NewPending(x, r.h), SizeIn(r.entry, r.h))
      PROVE  TornInv'
  <2>1. a.data \in Data /\ a.data.ver # Torn /\ r.h \in Handles
    BY <1>5, <1>7
  <2>2. a.data.len \in 0..MaxLen
    BY <2>1, BoundsAssumption DEF Data, NoBytes
  <2>3. x.ver # Torn /\ x \in Data
    <3>1. CASE n <= a.data.len
      <4>1. n \in 0..a.data.len
        BY <2>2, <3>1, BoundsAssumption
      <4> QED
        BY <1>7, <2>1, <3>1, <4>1, CutWhole, CutType
    <3>2. CASE ~(n <= a.data.len)
      BY <1>7, <2>2, <3>2, SetsAssumption, BoundsAssumption DEF Data
    <3> QED
      BY <3>1, <3>2
  <2>4. NewPending(x, r.h) \in Pendings /\ NewPending(x, r.h).data.ver # Torn
    BY <2>1, <2>3, NewPendingTorn, NewPendingType
  <2> QED
    BY <1>3, <1>7, <2>4, SendStartTorn DEF TornInv
<1> QED
  BY <1>1, <1>4, <1>6, <1>7 DEF host

\* A step of send_pending: what it knows of the Pending it sends.
LEMMA SendingWhole ==
    ASSUME Inv, TornInv, cb.pc \in SendPCs
    PROVE  ~Q.broken /\ Q \in Pendings /\ Q # None /\ Q.data \in Data /\ Q.data.ver # Torn
           /\ cb.path \in Paths /\ cb \in Callbacks
BY SendContext DEF TornInv, SendsWhole, TornMarked, Q, Pendings

\* A step of send_pending that goes on with the same Pending.
LEMMA GoOnTorn ==
    ASSUME Inv, TornInv, cb.pc \in SendPCs, pending' = pending, cb'.path = cb.path
    PROVE  TornMarked' /\ SendsWhole'
BY DEF TornInv, TornMarked, SendsWhole

\* The answer of a callback after a send keeps the marks.
LEMMA FinishQTorn ==
    ASSUME Inv, TornInv, cb.pc \in SendPCs, NEW q \in Pendings, ~q.broken, q.data = Q.data, NEW rc,
           Finish(cb.op, cb.fd, cb.path, q, rc)
    PROVE  TornMarked' /\ SendsWhole'
BY SendingWhole, FinishTorn

\* The way out of a failed send keeps the marks.
LEMMA AfterFailureTorn ==
    ASSUME Inv, TornInv, cb.pc \in SendPCs, AfterFailure
    PROVE  TornMarked' /\ SendsWhole'
<1>1. CASE Q.replaces # NoHandle
  <2>1. cb'.path = cb.path
    BY <1>1, SendingWhole DEF AfterFailure, Goto, Callbacks
  <2> QED
    BY <1>1, <2>1, GoOnTorn DEF AfterFailure
<1>2. CASE Q.replaces = NoHandle
  <2> DEFINE q == [Q EXCEPT !.keep = Q.keep \/ cb.gone]
  <2>1. q \in Pendings /\ ~q.broken /\ q.data = Q.data
    BY SendingWhole DEF Pendings, Callbacks
  <2>2. Finish(cb.op, cb.fd, cb.path, q, "EIO")
    BY <1>2 DEF AfterFailure, SendFailed
  <2> HIDE DEF q
  <2> QED
    BY <2>1, <2>2, FinishQTorn
<1> QED
  BY <1>1, <1>2

\* Moving the old object aside keeps the torn-file invariant.
LEMMA SendAsideTorn == ASSUME Inv, TornInv, SendAside PROVE TornInv'
<1>0. cb.pc \in SendPCs
  BY DEF SendAside, SendPCs
<1>1. PICK e \in RenameEnds(Q.replaces, cb.path.name, count + 1) : SendAside!3!(e)
  BY DEF SendAside
<1>2. cb.path.name \in Names /\ count + 1 \in 0..MaxCount
  BY <1>0, SendContext, BoundsAssumption DEF SendAside, Inv, TypeOK, Paths
<1>3. SameData
  BY <1>1, <1>2, RenamedData DEF SameData, Inv
<1>4. TornMarked' /\ SendsWhole'
  <2>1. CASE e.told
    BY <1>0, <1>1, <2>1, SendingWhole, GoOnTorn DEF Goto, Callbacks
  <2>2. CASE ~e.told
    BY <1>0, <1>1, <2>2, SendingWhole, FinishQTorn
  <2> QED
    BY <2>1, <2>2
<1> QED
  BY <1>3, <1>4, SameDataTorn DEF TornInv

\* Deleting the old object first keeps the torn-file invariant.
LEMMA SendDeleteFirstTorn == ASSUME Inv, TornInv, SendDeleteFirst PROVE TornInv'
<1>0. cb.pc \in SendPCs
  BY DEF SendDeleteFirst, SendPCs
<1>1. PICK e \in DeleteEnds(Q.replaces) : SendDeleteFirst!2!(e)
  BY DEF SendDeleteFirst
<1>2. SameData
  BY <1>1, DeletedData DEF SameData, Inv
<1>3. TornMarked' /\ SendsWhole'
  <2>1. CASE e.told
    <3> DEFINE q == [Q EXCEPT !.replaces = NoHandle]
    <3>1. q.data = Q.data /\ q.broken = Q.broken
      BY <1>0, SendingWhole DEF Pendings
    <3>2. pending' = [pending EXCEPT ![cb.path] = q]
      BY <1>1, <2>1 DEF Q
    <3>3. cb'.path = cb.path
      BY <1>0, <1>1, <2>1, SendingWhole DEF Callbacks
    <3> HIDE DEF q
    <3> QED
      BY <1>0, <3>1, <3>2, <3>3, SendingWhole DEF TornInv, TornMarked, SendsWhole, Inv, TypeOK
  <2>2. CASE ~e.told
    BY <1>0, <1>1, <2>2, SendingWhole, FinishQTorn
  <2> QED
    BY <2>1, <2>2
<1> QED
  BY <1>2, <1>3, SameDataTorn DEF TornInv

\* SendObjectInfo keeps the torn-file invariant: its object is empty.
LEMMA SendAnnounceTorn == ASSUME Inv, TornInv, SendAnnounce PROVE TornInv'
<1>0. cb.pc \in SendPCs
  BY DEF SendAnnounce, SendPCs
<1>1. PICK e \in IF Q.data.len <= MaxPayload THEN Ends("announce", TRUE)
                 ELSE Ends("announce", FALSE) : SendAnnounce!2!(e)
  BY DEF SendAnnounce
<1>2. TornNeverSent'
  <2> DEFINE o == [dir |-> cb.path.dir, name |-> cb.path.name, aside |-> 0, data |-> NoBytes]
  <2>1. o.data.ver # Torn
    BY SetsAssumption DEF NoBytes
  <2>2. objs' = objs \/ objs' = [objs EXCEPT ![nextH] = o]
    BY <1>1 DEF device
  <2> HIDE DEF o
  <2> QED
    BY <2>1, <2>2 DEF TornInv, TornNeverSent, Inv, TypeOK
<1>3. TornMarked' /\ SendsWhole'
  <2>1. CASE e.told
    BY <1>0, <1>1, <2>1, SendingWhole, GoOnTorn DEF Callbacks
  <2>2. CASE ~e.told
    BY <1>0, <1>1, <2>2, AfterFailureTorn
  <2> QED
    BY <2>1, <2>2
<1> QED
  BY <1>2, <1>3 DEF TornInv

\* SendObject keeps the torn-file invariant: only a whole spool file goes out whole.
LEMMA SendDataTorn == ASSUME Inv, TornInv, SendData PROVE TornInv'
<1>0. cb.pc \in SendPCs /\ cb.h \in Handles /\ objs[cb.h] \in Objects
  BY DEF SendData, SendPCs, Inv, CallbackOK, Idle, TypeOK
<1>1. ASSUME NEW x, x.ver # Torn, objs' = [objs EXCEPT ![cb.h].data = x]
      PROVE  TornNeverSent'
  <2> DEFINE o == [objs[cb.h] EXCEPT !.data = x]
  <2>1. o.data.ver # Torn
    BY <1>0, <1>1 DEF Objects
  <2>2. objs' = [objs EXCEPT ![cb.h] = o]
    BY <1>1
  <2> HIDE DEF o
  <2> QED
    BY <2>1, <2>2 DEF TornInv, TornNeverSent, Inv, TypeOK
<1>2. ASSUME objs' = [objs EXCEPT ![cb.h] = None]
      PROVE  TornNeverSent'
  BY <1>2 DEF TornInv, TornNeverSent, Inv, TypeOK
<1>3. ASSUME NEW n \in {m \in 0..MaxLen : m < Q.data.len}
      PROVE  Cut(Q.data, n).ver # Torn
  <2>1. n \in 0..Q.data.len
    BY <1>0, SendingWhole, BoundsAssumption DEF Data, NoBytes
  <2> QED
    BY <1>0, <2>1, SendingWhole, CutWhole
<1>4. TornNeverSent'
  BY <1>0, <1>1, <1>2, <1>3, SendingWhole DEF SendData
<1>5. ASSUME Goto("delold"), UNCHANGED <<pending, kept, fds, reply, listing>>
      PROVE  TornMarked' /\ SendsWhole'
  BY <1>0, <1>5, SendingWhole, GoOnTorn DEF Goto, Callbacks
<1>6. ASSUME Finish(cb.op, cb.fd, cb.path, Q, "OK")
      PROVE  TornMarked' /\ SendsWhole'
  BY <1>0, <1>6, SendingWhole, FinishQTorn
<1>7. AfterFailure => TornMarked' /\ SendsWhole'
  BY <1>0, AfterFailureTorn
<1>8. TornMarked' /\ SendsWhole'
  BY <1>5, <1>6, <1>7 DEF SendData
<1> QED
  BY <1>4, <1>8 DEF TornInv

\* The last step of send_pending, with the old object gone or put back.
LEMMA SendEndTorn == ASSUME Inv, TornInv, SendDeleteOld \/ SendPutBack PROVE TornInv'
<1>0. cb.pc \in SendPCs
  BY DEF SendDeleteOld, SendPutBack, SendPCs
<1> DEFINE q == [Q EXCEPT !.replaces = NoHandle]
<1>1. q \in Pendings /\ ~q.broken /\ q.data = Q.data
  BY <1>0, SendingWhole DEF Pendings
<1>2. TornMarked' /\ SendsWhole'
  <2>1. PICK rc \in Codes : Finish(cb.op, cb.fd, cb.path, q, rc)
    BY DEF SendDeleteOld, SendPutBack, Codes
  <2> HIDE DEF q
  <2> QED
    BY <1>0, <1>1, <2>1, FinishQTorn
<1>3. SameData
  <2>1. CASE SendDeleteOld
    BY <2>1, DeletedData DEF SendDeleteOld, SameData, Inv
  <2>2. CASE SendPutBack
    <3>1. cb.path.name \in Names /\ 0 \in 0..MaxCount
      BY <1>0, SendContext, BoundsAssumption DEF Paths
    <3> QED
      BY <2>2, <3>1, RenamedData DEF SendPutBack, SameData, Inv
  <2> QED
    BY <2>1, <2>2
<1> QED
  BY <1>2, <1>3, SameDataTorn DEF TornInv

\* A crash and an unmount leave nothing torn on the cellphone.
LEMMA RemountTorn == ASSUME Inv, TornInv, Crash \/ Unmount PROVE TornInv'
BY DEF Crash, Unmount, Remount, device, TornInv, TornNeverSent, TornMarked, SendsWhole, SendPCs,
       NotRunning

\* Every step keeps the torn-file invariant.
LEMMA NextTorn == Inv /\ TornInv /\ [Next]_vars => TornInv'
<1> SUFFICES ASSUME Inv, TornInv, [Next]_vars PROVE TornInv'
  OBVIOUS
<1>1. CASE UNCHANGED vars
  BY <1>1 DEF vars, TornInv, TornNeverSent, TornMarked, SendsWhole
<1>2. CASE Next
  BY <1>2, LookTorn, OpenTorn, CreateTorn, WriteTorn, CloseTorn, TruncateSpoolTorn, TruncateTorn,
     UnlinkTorn, RenameTorn, SendAsideTorn, SendDeleteFirstTorn, SendAnnounceTorn, SendDataTorn,
     SendEndTorn, RenameStepTorn, RemountTorn
     DEF Next, SendStep
<1> QED
  BY <1>1, <1>2

\* A mount starts with no torn file.
LEMMA InitTorn == Init => TornInv
BY SetsAssumption DEF Init, TornInv, TornNeverSent, TornMarked, SendsWhole, SendPCs, NotRunning

\* A spool file that a failed write broke never reaches the cellphone, for
\* every set of files, programs, sizes and faults: not when a close sends it,
\* not when a truncate cuts it first, not when a rename moves objects around.
THEOREM NothingTorn == Spec => []TornNeverSent
<1>1. Spec => [](Inv /\ TornInv)
  BY InitInv, NextInv, InitTorn, NextTorn, PTL DEF Spec
<1>2. TornInv => TornNeverSent
  BY DEF TornInv
<1> QED
  BY <1>1, <1>2, PTL

-----------------------------------------------------------------------------
(* What the cellphone holds no copy of is in a spool file.                 *)

\* The strengthening: the spool file that holds the contents is marked to be
\* kept, or send_pending is between the delete of the old object and the end
\* of the send, where every way out marks it or hands the contents over.
GoneFor(p) == cb.pc \in {"announce", "data"} /\ cb.gone /\ cb.path = p
Saved(p) == \E s \in kept : s.path = p /\ s.data = owed[p]
Marked(p) == pending[p] # None /\ pending[p].data = owed[p] /\ (pending[p].keep \/ GoneFor(p))
Covered(p) == owed[p] # None => Marked(p) \/ Saved(p)
GoneOK == (cb.pc \in SendPCs /\ cb.gone) =>
             cb.pc \in {"announce", "data"} /\ pending[cb.path].replaces = NoHandle
OwedInv == (\A p \in Paths : Covered(p)) /\ GoneOK

\* A path the step does not touch.
LEMMA SameCovered ==
    ASSUME NEW p \in Paths, Covered(p), pending'[p] = pending[p], owed'[p] = owed[p],
           kept \subseteq kept', GoneFor(p) => GoneFor(p)'
    PROVE  Covered(p)'
BY DEF Covered, Marked, Saved

\* No object went first while no callback, or op_rename, runs.
LEMMA NotSending == ASSUME cb.pc \notin SendPCs PROVE \A p : ~GoneFor(p)
BY DEF GoneFor, SendPCs

\* A callback that answered has no object to account for.
LEMMA AnsweredGone == cb' = NotRunning => GoneOK'
BY DEF GoneOK, SendPCs, NotRunning

\* A step that touches no Pending, outside of send_pending.
LEMMA QuietOwed ==
    ASSUME OwedInv, cb.pc \notin SendPCs, cb'.pc \notin SendPCs, pending' = pending, owed' = owed,
           kept \subseteq kept'
    PROVE  OwedInv'
<1>1. \A p \in Paths : Covered(p)'
  BY NotSending, SameCovered DEF OwedInv
<1> QED
  BY <1>1 DEF OwedInv, GoneOK

\* A step that makes a Pending where there was none, and answers.
LEMMA NewOwed ==
    ASSUME Inv, OwedInv, Idle, NEW p \in Paths, pending[p] = None, NEW q,
           pending' = [pending EXCEPT ![p] = q], owed' = owed, kept \subseteq kept', cb' = NotRunning
    PROVE  OwedInv'
<1>1. cb.pc \notin SendPCs
  BY DEF Idle, SendPCs
<1>2. \A r \in Paths \ {p} : Covered(r)'
  BY <1>1, NotSending, SameCovered DEF OwedInv, Inv, TypeOK
<1>3. Covered(p)'
  BY DEF OwedInv, Covered, Marked, Saved
<1> QED
  BY <1>2, <1>3, AnsweredGone DEF OwedInv

\* A change of a spool file: contents that were owed from it stay owed from it.
LEMMA ChangeOwed ==
    ASSUME Inv, OwedInv, Idle, NEW p \in Paths, pending[p] # None, NEW q \in Pendings,
           q.keep = pending[p].keep, pending' = [pending EXCEPT ![p] = q],
           owed' = IF pending[p].keep THEN [owed EXCEPT ![p] = q.data] ELSE owed,
           kept' = kept, cb' = NotRunning
    PROVE  OwedInv'
<1>1. cb.pc \notin SendPCs
  BY DEF Idle, SendPCs
<1>2. \A r \in Paths \ {p} : Covered(r)'
  BY <1>1, NotSending, SameCovered DEF OwedInv, Inv, TypeOK
<1>3. CASE pending[p].keep
  <2>1. owed'[p] = q.data /\ pending'[p] = q
    BY <1>3 DEF Inv, TypeOK
  <2>2. Covered(p)'
    BY <1>3, <2>1, NoneAssumption DEF Covered, Marked
  <2> QED
    BY <1>2, <2>2, AnsweredGone DEF OwedInv
<1>4. CASE ~pending[p].keep
  <2>1. Covered(p)'
    BY <1>1, <1>4, NotSending DEF OwedInv, Covered, Marked, Saved
  <2> QED
    BY <1>2, <2>1, AnsweredGone DEF OwedInv
<1> QED
  BY <1>3, <1>4

\* The end of send_pending: the contents owed of the path are marked, or saved.
LEMMA FinishOwed ==
    ASSUME Inv, OwedInv, NEW op, NEW fd, NEW p \in Paths, NEW q \in Pendings, NEW rc \in Codes,
           Finish(op, fd, p, q, rc),
           cb.pc \in SendPCs => cb.path = p,
           \A r \in Paths \ {p} : owed'[r] = owed[r],
           owed'[p] # None => \/ q.keep /\ q.data = owed'[p]
                              \/ \E s \in kept : s.path = p /\ s.data = owed'[p]
    PROVE  OwedInv'
<1> DEFINE q2 == [q EXCEPT !.sent = rc]
<1>1. q2 \in Pendings /\ q2.data = q.data /\ q2.keep = q.keep
  BY DEF Pendings
<1>2. /\ pending' = [pending EXCEPT ![p] = IF PutsBack(op) THEN q2 ELSE None]
      /\ kept' = IF PutsBack(op) THEN kept ELSE kept \cup Dropped(p, q)
      /\ cb' = NotRunning
  BY DEF Finish, Answer
<1> HIDE DEF q2
<1>3. ASSUME NEW r \in Paths \ {p}
      PROVE  Covered(r)'
  <2>1. pending'[r] = pending[r] /\ kept \subseteq kept' /\ owed'[r] = owed[r]
    BY <1>2, <1>3 DEF Inv, TypeOK
  <2>2. ~GoneFor(r)
    BY <1>3 DEF GoneFor, SendPCs
  <2> QED
    BY <1>3, <2>1, <2>2, SameCovered DEF OwedInv
<1>4. Covered(p)'
  <2>1. CASE PutsBack(op)
    <3>1. pending'[p] = q2 /\ kept' = kept
      BY <1>2, <2>1 DEF Inv, TypeOK
    <3>2. q2 # None
      BY <1>1, NoneAssumption
    <3>3. CASE q.keep /\ q.data = owed'[p]
      BY <1>1, <3>1, <3>2, <3>3 DEF Covered, Marked
    <3>4. CASE \E s \in kept : s.path = p /\ s.data = owed'[p]
      BY <3>1, <3>4 DEF Covered, Saved
    <3>5. CASE owed'[p] = None
      BY <3>5 DEF Covered
    <3> QED
      BY <3>3, <3>4, <3>5
  <2>2. CASE ~PutsBack(op)
    <3>1. kept' = kept \cup Dropped(p, q)
      BY <1>2, <2>2
    <3>2. CASE q.keep /\ q.data = owed'[p]
      <4> DEFINE s == [path |-> p, data |-> q.data, why |-> "kept"]
      <4>1. s \in kept' /\ s.path = p /\ s.data = owed'[p]
        BY <3>1, <3>2 DEF Dropped
      <4> QED
        BY <4>1 DEF Covered, Saved
    <3>3. CASE \E s \in kept : s.path = p /\ s.data = owed'[p]
      BY <3>1, <3>3 DEF Covered, Saved
    <3>4. CASE owed'[p] = None
      BY <3>4 DEF Covered
    <3> QED
      BY <3>2, <3>3, <3>4
  <2> QED
    BY <2>1, <2>2
<1> QED
  BY <1>2, <1>3, <1>4, AnsweredGone DEF OwedInv

\* The same, when nothing went first: what was owed is owed.
LEMMA FinishSameOwed ==
    ASSUME Inv, OwedInv, NEW op, NEW fd, NEW p \in Paths, NEW q \in Pendings, NEW rc \in Codes,
           Finish(op, fd, p, q, rc), pending[p] # None => q.data = pending[p].data /\ q.keep = pending[p].keep,
           cb.pc \in SendPCs => cb.path = p /\ ~cb.gone, owed' = owed
    PROVE  OwedInv'
<1>1. ~GoneFor(p)
  BY DEF GoneFor, SendPCs
<1>2. owed[p] # None => \/ q.keep /\ q.data = owed[p]
                        \/ \E s \in kept : s.path = p /\ s.data = owed[p]
  BY <1>1 DEF OwedInv, Covered, Marked, Saved
<1> QED
  BY <1>2, FinishOwed

\* The start of send_pending keeps what was owed.
LEMMA SendStartOwed ==
    ASSUME Inv, OwedInv, Idle, NEW op, NEW fd, NEW p \in Paths, NEW q \in Pendings, NEW size,
           pending[p] = None \/ pending[p] = q, owed' = owed, SendStart(op, fd, p, q, size)
    PROVE  OwedInv'
<1>0. cb.pc \notin SendPCs
  BY DEF Idle, SendPCs
<1>1. ASSUME NEW rc \in Codes, Finish(op, fd, p, q, rc)
      PROVE  OwedInv'
  BY <1>0, <1>1, FinishSameOwed
<1>2. ASSUME NEW pc, pending' = [pending EXCEPT ![p] = q], UNCHANGED <<kept, fds>>,
             Running(op, fd, p, p, pc, NoHandle, NoHandle)
      PROVE  OwedInv'
  <2>1. GoneOK'
    BY <1>2 DEF Running, GoneOK
  <2>2. \A r \in Paths \ {p} : Covered(r)'
    BY <1>0, <1>2, NotSending, SameCovered DEF OwedInv, Inv, TypeOK
  <2>3. Covered(p)'
    <3>1. CASE pending[p] = None
      BY <1>2, <3>1 DEF OwedInv, Covered, Marked, Saved
    <3>2. CASE pending[p] = q
      BY <1>0, <1>2, <3>2, NotSending, SameCovered DEF OwedInv, Inv, TypeOK
    <3> QED
      BY <3>1, <3>2
  <2> QED
    BY <2>1, <2>2, <2>3 DEF OwedInv
<1> QED
  BY <1>1, <1>2 DEF SendStart, Codes

\* The callbacks that change nothing a Pending holds.
LEMMA LookOwed ==
    ASSUME Inv, OwedInv, \/ \E p \in Paths : OpGetattr(p) \/ OpUnlink(p)
                         \/ \E d \in Dirs : OpReaddir(d)
                         \/ \E from, to \in Paths : OpRename(from, to)
    PROVE  OwedInv'
<1>1. pending' = pending /\ owed' = owed /\ kept' = kept /\ cb.pc \notin SendPCs
  BY DEF OpGetattr, OpUnlink, OpReaddir, OpRename, host, Idle, SendPCs
<1>2. cb'.pc \notin SendPCs
  <2>1. CASE \E p \in Paths : OpGetattr(p)
    BY <1>1, <2>1 DEF OpGetattr
  <2>2. CASE \E d \in Dirs : OpReaddir(d)
    BY <1>1, <2>2 DEF OpReaddir
  <2>3. CASE \E p \in Paths : OpUnlink(p)
    BY <2>3 DEF OpUnlink, Answer, NotRunning, SendPCs
  <2>4. CASE \E from, to \in Paths : OpRename(from, to)
    BY <2>4 DEF OpRename, RenameAnswer, Running, NotRunning, RenameRest, SendPCs
  <2> QED
    BY <2>1, <2>2, <2>3, <2>4
<1> QED
  BY <1>1, <1>2, QuietOwed

\* op_open keeps what the mount owes.
LEMMA OpenOwed ==
    ASSUME Inv, OwedInv, NEW fd \in FDs, NEW p \in Paths, NEW w \in BOOLEAN, NEW trunc \in BOOLEAN,
           OpOpen(fd, p, w, trunc)
    PROVE  OwedInv'
<1>1. PICK r \in Resolve(listing, entry, p) : OpOpen(fd, p, w, trunc)!4!(r)
  BY DEF OpOpen
<1>2. Idle /\ owed' = owed /\ cb' = NotRunning /\ kept \subseteq kept'
  BY <1>1 DEF OpOpen, Answer, host, Stray
<1>3. cb.pc \notin SendPCs /\ cb'.pc \notin SendPCs
  BY <1>2 DEF Idle, SendPCs, NotRunning
<1>4. pending' = pending \/ (pending[p] = None /\ \E q : pending' = [pending EXCEPT ![p] = q])
  BY <1>1 DEF host
<1> QED
  BY <1>2, <1>3, <1>4, QuietOwed, NewOwed

\* op_create keeps what the mount owes.
LEMMA CreateOwed ==
    ASSUME Inv, OwedInv, NEW fd \in FDs, NEW p \in Paths, OpCreate(fd, p)
    PROVE  OwedInv'
<1>1. Idle /\ owed' = owed /\ cb' = NotRunning /\ kept' = kept /\ pending[p] = None
  BY DEF OpCreate, Answer
<1>2. cb.pc \notin SendPCs /\ cb'.pc \notin SendPCs
  BY <1>1 DEF Idle, SendPCs, NotRunning
<1>3. pending' = pending \/ \E q : pending' = [pending EXCEPT ![p] = q]
  BY DEF OpCreate
<1> QED
  BY <1>1, <1>2, <1>3, QuietOwed, NewOwed

\* A change that a program is told of goes into the spool file, which keeps what is owed.
LEMMA AcceptedOwed ==
    ASSUME Inv, OwedInv, Idle, NEW p \in Paths, pending[p] # None, NEW x \in Data,
           Accepted(p, x), kept' = kept, cb' = NotRunning
    PROVE  OwedInv'
<1> DEFINE q == [pending[p] EXCEPT !.data = x]
<1>1. pending[p] \in Pendings
  BY DEF Inv, TypeOK
<1>2. q \in Pendings /\ q.data = x /\ q.keep = pending[p].keep
  BY <1>1 DEF Pendings
<1>3. pending' = [pending EXCEPT ![p] = q]
  BY DEF Accepted
<1> HIDE DEF q
<1>4. owed' = IF pending[p].keep THEN [owed EXCEPT ![p] = q.data] ELSE owed
  BY <1>2 DEF Accepted
<1> QED
  BY <1>2, <1>3, <1>4, ChangeOwed

\* A write, whole or broken, is owed from the spool file it went to.
LEMMA WriteOwed == ASSUME Inv, OwedInv, NEW fd \in FDs, OpWrite(fd) PROVE OwedInv'
<1> DEFINE p == fds[fd].path
<1>1. p \in Paths
  BY DEF OpWrite, Inv, TypeOK, OpenFiles
<1>2. Idle /\ kept' = kept /\ cb' = NotRunning /\ cb.pc \notin SendPCs /\ cb'.pc \notin SendPCs
  <2>1. Idle /\ kept' = kept /\ cb' = NotRunning
    BY Zenon DEF OpWrite, Answer
  <2> QED
    BY <2>1 DEF Idle, SendPCs, NotRunning
<1>3. pending[p] # None => pending[p] \in Pendings /\ pending[p].data \in Data
  BY <1>1 DEF Inv, TypeOK, Pendings
<1>4. CASE UNCHANGED <<pending, fds, owed>>
  BY <1>2, <1>4, QuietOwed
<1>5. ASSUME pending[p] # None, NEW n \in {m \in 1..MaxLen : m >= pending[p].data.len},
             NEW x \in Changed(pending[p], n), Accepted(p, x)
      PROVE  OwedInv'
  <2>1. x \in Data
    BY ChangedType, BoundsAssumption
  <2> HIDE DEF p
  <2> QED
    BY <1>1, <1>2, <1>5, <2>1, AcceptedOwed
<1>6. ASSUME pending[p] # None, MaxLen > 0, NEW x,
             x = [ver |-> Torn, len |-> IF pending[p].data.len = 0 THEN 1 ELSE pending[p].data.len],
             pending' = [pending EXCEPT ![p].data = x, ![p].broken = TRUE],
             owed' = IF pending[p].keep THEN [owed EXCEPT ![p] = x] ELSE owed
      PROVE  OwedInv'
  <2> DEFINE q == [[pending[p] EXCEPT !.data = x] EXCEPT !.broken = TRUE]
  <2>1. x \in Data
    BY <1>3, <1>6, TornData, Zenon
  <2>2. q \in Pendings /\ q.data = x /\ q.keep = pending[p].keep
    BY <1>3, <1>6, <2>1 DEF Pendings
  <2>3. pending' = [pending EXCEPT ![p] = q]
    BY <1>1, <1>6 DEF Inv, TypeOK
  <2> HIDE DEF p, q
  <2>4. owed' = IF pending[p].keep THEN [owed EXCEPT ![p] = q.data] ELSE owed
    BY <1>6, <2>2
  <2> QED
    BY <1>1, <1>2, <1>6, <2>2, <2>3, <2>4, ChangeOwed
<1> QED
  BY <1>4, <1>5, <1>6 DEF OpWrite

\* op_truncate on a file that is open keeps what the mount owes.
LEMMA TruncateSpoolOwed ==
    ASSUME Inv, OwedInv, NEW p \in Paths, NEW n \in 0..MaxLen, OpTruncateSpool(p, n)
    PROVE  OwedInv'
<1>1. /\ Idle /\ kept' = kept /\ cb' = NotRunning /\ pending[p] # None
      /\ cb.pc \notin SendPCs /\ cb'.pc \notin SendPCs
  BY DEF OpTruncateSpool, Answer, Idle, SendPCs, NotRunning
<1>2. pending[p].data \in Data
  BY <1>1 DEF Inv, TypeOK, Pendings
<1>3. CASE UNCHANGED <<pending, fds, owed>>
  BY <1>1, <1>3, QuietOwed
<1>4. CASE n <= pending[p].data.len /\ Accepted(p, Cut(pending[p].data, n))
  <2>1. n \in 0..pending[p].data.len
    BY <1>2, <1>4, BoundsAssumption DEF Data, NoBytes
  <2>2. Cut(pending[p].data, n) \in Data
    BY <1>2, <2>1, CutType
  <2> QED
    BY <1>1, <1>4, <2>2, AcceptedOwed
<1>5. ASSUME NEW x \in Changed(pending[p], n), Accepted(p, x)
      PROVE  OwedInv'
  BY <1>1, <1>5, ChangedType, AcceptedOwed
<1> QED
  BY <1>3, <1>4, <1>5 DEF OpTruncateSpool

\* op_flush and op_release keep what the mount owes, whether or not a send starts.
LEMMA CloseOwed ==
    ASSUME Inv, OwedInv, NEW fd \in FDs, OpFlush(fd) \/ OpRelease(fd)
    PROVE  OwedInv'
<1> DEFINE p == fds[fd].path
<1>1. p \in Paths
  BY DEF OpFlush, OpRelease, Inv, TypeOK, OpenFiles
<1>2. Idle /\ owed' = owed /\ cb.pc \notin SendPCs
  BY DEF OpFlush, OpRelease, Idle, SendPCs
<1>3. pending[p] # None => pending[p] \in Pendings
  BY <1>1 DEF Inv, TypeOK
<1>4. ASSUME NEW op, NEW rc, Answer(op, p, fd, rc), UNCHANGED <<pending, kept>>
      PROVE  OwedInv'
  <2>1. cb'.pc \notin SendPCs
    BY <1>4 DEF Answer, NotRunning, SendPCs
  <2> QED
    BY <1>2, <1>4, <2>1, QuietOwed
<1>5. ASSUME pending[p] # None, Finish("release", fd, p, pending[p], "OK")
      PROVE  OwedInv'
  <2> HIDE DEF p
  <2> QED
    BY <1>1, <1>2, <1>3, <1>5, FinishSameOwed DEF Codes
<1>6. ASSUME pending[p] # None, NEW op, NEW size, SendStart(op, fd, p, pending[p], size)
      PROVE  OwedInv'
  <2> HIDE DEF p
  <2> QED
    BY <1>1, <1>2, <1>3, <1>6, SendStartOwed
<1> QED
  BY <1>4, <1>5, <1>6 DEF OpFlush, OpRelease, Answered

\* op_truncate on a file that is not open keeps what the mount owes.
LEMMA TruncateOwed ==
    ASSUME Inv, OwedInv, NEW p \in Paths, NEW n \in 0..MaxLen, OpTruncate(p, n)
    PROVE  OwedInv'
<1>1. PICK r \in Resolve(listing, entry, p) : OpTruncate(p, n)!2!(r)
  BY DEF OpTruncate
<1>2. r.h = NoHandle \/ r.h \in Handles
  BY ResolveType, Parts DEF TreeOK, Inv
<1>3. Idle /\ pending[p] = None /\ owed' = owed /\ cb.pc \notin SendPCs
  BY DEF OpTruncate, Idle, SendPCs
<1>4. ASSUME pending' = pending, kept \subseteq kept', NEW rc, Answer("truncate", p, None, rc)
      PROVE  OwedInv'
  <2>1. cb'.pc \notin SendPCs
    BY <1>4 DEF Answer, NotRunning, SendPCs
  <2> QED
    BY <1>3, <1>4, <2>1, QuietOwed
<1>5. ASSUME NEW q, pending' = [pending EXCEPT ![p] = q], kept' = kept,
             Answer("truncate", p, None, "EIO")
      PROVE  OwedInv'
  BY <1>3, <1>5, NewOwed DEF Answer
<1>6. ASSUME r.h # NoHandle, NEW a \in Adopted(r.h, r.entry[r.h].size, n > 0), a.rc = "OK",
             NEW x \in IF n <= a.data.len THEN {Cut(a.data, n)} ELSE [ver: Vers, len: {n}],
             SendStart("truncate", None, p, NewPending(x, r.h), SizeIn(r.entry, r.h))
      PROVE  OwedInv'
  <2>1. a.data \in Data /\ r.h \in Handles
    BY <1>2, <1>6, AdoptedType DEF Inv
  <2>2. a.data.len \in 0..MaxLen
    BY <2>1, BoundsAssumption DEF Data, NoBytes
  <2>3. x \in Data
    <3>1. CASE n <= a.data.len
      <4>1. n \in 0..a.data.len
        BY <2>2, <3>1, BoundsAssumption
      <4> QED
        BY <1>6, <2>1, <3>1, <4>1, CutType
    <3>2. CASE ~(n <= a.data.len)
      BY <1>6, <2>2, <3>2, BoundsAssumption DEF Data
    <3> QED
      BY <3>1, <3>2
  <2>4. NewPending(x, r.h) \in Pendings
    BY <2>1, <2>3, NewPendingType
  <2> QED
    BY <1>3, <1>6, <2>4, SendStartOwed
<1>7. ASSUME NEW a PROVE kept \subseteq Stray(p, a)
  BY DEF Stray
<1> QED
  BY <1>1, <1>4, <1>5, <1>6, <1>7 DEF host

\* A step of send_pending that goes on and does not touch what is owed.
LEMMA GoOnOwed ==
    ASSUME Inv, OwedInv, cb.pc \in SendPCs, pending' = pending, kept' = kept, owed' = owed,
           cb'.path = cb.path, cb'.gone = cb.gone,
           cb.gone => cb'.pc \in {"announce", "data"}
    PROVE  OwedInv'
<1>1. \A p \in Paths : Covered(p)'
  BY SameCovered DEF OwedInv, GoneFor
<1> QED
  BY <1>1 DEF OwedInv, GoneOK

\* What a step of send_pending can end with, when nothing went first.
LEMMA FinishQOwed ==
    ASSUME Inv, OwedInv, cb.pc \in SendPCs, ~cb.gone, NEW q \in Pendings, q.data = Q.data,
           q.keep = Q.keep, NEW rc \in Codes, owed' = owed, Finish(cb.op, cb.fd, cb.path, q, rc)
    PROVE  OwedInv'
BY SendContext, FinishSameOwed DEF Q

\* Moving the old object aside keeps what the mount owes.
LEMMA SendAsideOwed == ASSUME Inv, OwedInv, SendAside PROVE OwedInv'
<1>0. cb.pc \in SendPCs /\ ~cb.gone
  BY DEF SendAside, SendPCs, OwedInv, GoneOK
<1>1. PICK e \in RenameEnds(Q.replaces, cb.path.name, count + 1) : SendAside!3!(e)
  BY DEF SendAside
<1>2. owed' = owed
  BY DEF SendAside
<1>3. CASE e.told
  BY <1>0, <1>1, <1>2, <1>3, SendContext, GoOnOwed DEF Goto, Callbacks
<1>4. CASE ~e.told
  BY <1>0, <1>1, <1>2, <1>4, SendContext, FinishQOwed DEF Codes
<1> QED
  BY <1>3, <1>4

\* The delete of the old object is told whenever it is done, so the contents
\* that are owed from here are the ones send_pending goes on to send.
LEMMA SendDeleteFirstOwed ==
    ASSUME Inv, OwedInv, "delete" \notin Faults, SendDeleteFirst
    PROVE  OwedInv'
<1>0. cb.pc \in SendPCs /\ ~cb.gone
  BY DEF SendDeleteFirst, SendPCs, OwedInv, GoneOK
<1>1. PICK e \in DeleteEnds(Q.replaces) : SendDeleteFirst!2!(e)
  BY DEF SendDeleteFirst
<1>2. e.done <=> e.told
  BY DEF DeleteEnds, Ends
<1>3. CASE e.told
  <2> DEFINE q == [Q EXCEPT !.replaces = NoHandle]
  <2>1. q \in Pendings /\ q.data = Q.data /\ q.replaces = NoHandle
    BY <1>0, SendContext DEF Pendings
  <2>2. pending' = [pending EXCEPT ![cb.path] = q]
    BY <1>1, <1>3 DEF Q
  <2>3. cb'.path = cb.path /\ cb'.pc = "announce" /\ cb'.gone
    BY <1>0, <1>1, <1>3, SendContext DEF Callbacks
  <2>4. owed' = [owed EXCEPT ![cb.path] = Q.data] /\ kept' = kept /\ cb.path \in Paths
    BY <1>0, <1>1, <1>2, <1>3, SendContext
  <2> HIDE DEF q
  <2>5. pending'[cb.path] = q /\ q # None /\ owed'[cb.path] = Q.data
    BY <2>1, <2>2, <2>4, NoneAssumption DEF Inv, TypeOK
  <2>6. Covered(cb.path)'
    BY <2>1, <2>3, <2>5 DEF Covered, Marked, GoneFor
  <2>7. ASSUME NEW r \in Paths, r # cb.path
        PROVE  Covered(r)'
    BY <2>2, <2>4, <2>7, SameCovered DEF OwedInv, GoneFor, Inv, TypeOK
  <2>8. GoneOK'
    BY <2>1, <2>3, <2>5 DEF GoneOK
  <2>9. ASSUME NEW r \in Paths PROVE Covered(r)'
    <3>1. CASE r = cb.path
      BY <2>6, <3>1, <2>3, <2>1, <2>5 DEF Covered, Marked, GoneFor
    <3>2. CASE r # cb.path
      BY <2>7, <3>2
    <3> QED
      BY <3>1, <3>2
  <2> QED
    BY <2>8, <2>9 DEF OwedInv
<1>4. CASE ~e.told
  BY <1>0, <1>1, <1>2, <1>4, SendContext, FinishQOwed DEF Codes
<1> QED
  BY <1>3, <1>4

\* Every way out of a failed announce or send marks the spool file, when the
\* old object went first.
LEMMA AfterFailureOwed ==
    ASSUME Inv, OwedInv, cb.pc \in SendPCs, AfterFailure,
           owed' = owed \/ owed' = [owed EXCEPT ![cb.path] = None]
    PROVE  OwedInv'
<1>0. cb \in Callbacks /\ cb.path \in Paths /\ Q \in Pendings /\ Q # None
  BY SendContext
<1>1. CASE Q.replaces # NoHandle
  <2>1. ~cb.gone /\ cb'.path = cb.path /\ cb'.gone = cb.gone /\ pending' = pending /\ kept' = kept
        /\ cb'.pc = "putback"
    BY <1>0, <1>1 DEF AfterFailure, Goto, Callbacks, OwedInv, GoneOK, Q
  <2>2. ASSUME NEW r \in Paths, owed'[r] = owed[r] PROVE Covered(r)'
    BY <2>1, <2>2, SameCovered DEF OwedInv, GoneFor
  <2>3. ASSUME NEW r \in Paths, owed'[r] = None PROVE Covered(r)'
    BY <2>3 DEF Covered
  <2>4. \A r \in Paths : owed'[r] = owed[r] \/ owed'[r] = None
    BY DEF Inv, TypeOK
  <2>5. GoneOK'
    BY <2>1 DEF GoneOK
  <2> QED
    BY <2>2, <2>3, <2>4, <2>5 DEF OwedInv
<1>2. CASE Q.replaces = NoHandle
  <2> DEFINE q == [Q EXCEPT !.keep = Q.keep \/ cb.gone]
  <2>1. q \in Pendings /\ q.data = Q.data /\ (q.keep <=> Q.keep \/ cb.gone)
    BY <1>0 DEF Pendings, Callbacks
  <2>2. Finish(cb.op, cb.fd, cb.path, q, "EIO")
    BY <1>2 DEF AfterFailure, SendFailed
  <2> HIDE DEF q
  <2>3. \A r \in Paths \ {cb.path} : owed'[r] = owed[r]
    BY DEF Inv, TypeOK
  <2>4. owed'[cb.path] # None => owed'[cb.path] = owed[cb.path]
    BY <1>0 DEF Inv, TypeOK
  <2>5. Marked(cb.path) => q.data = owed[cb.path] /\ q.keep
    BY <2>1 DEF Marked, GoneFor, Q
  <2>6. owed[cb.path] # None => Marked(cb.path) \/ \E s \in kept : s.path = cb.path /\ s.data = owed[cb.path]
    BY <1>0 DEF OwedInv, Covered, Saved
  <2>7. owed'[cb.path] # None => \/ q.keep /\ q.data = owed'[cb.path]
                                 \/ \E s \in kept : s.path = cb.path /\ s.data = owed'[cb.path]
    BY <2>4, <2>5, <2>6
  <2> QED
    BY <1>0, <2>1, <2>2, <2>3, <2>7, FinishOwed, SMTT(60) DEF Codes
<1> QED
  BY <1>1, <1>2

\* SendObjectInfo keeps what the mount owes.
LEMMA SendAnnounceOwed == ASSUME Inv, OwedInv, SendAnnounce PROVE OwedInv'
<1>0. cb.pc \in SendPCs /\ owed' = owed
  BY DEF SendAnnounce, SendPCs
<1>1. PICK e \in IF Q.data.len <= MaxPayload THEN Ends("announce", TRUE)
                 ELSE Ends("announce", FALSE) : SendAnnounce!2!(e)
  BY DEF SendAnnounce
<1>2. CASE e.told
  BY <1>0, <1>1, <1>2, SendContext, GoOnOwed DEF Callbacks
<1>3. CASE ~e.told
  BY <1>0, <1>1, <1>3, AfterFailureOwed
<1> QED
  BY <1>2, <1>3

\* Contents that arrived are owed no more.
LEMMA SendDataOwed == ASSUME Inv, OwedInv, SendData PROVE OwedInv'
<1>0. cb.pc \in SendPCs /\ cb \in Callbacks /\ cb.path \in Paths /\ Q \in Pendings
  BY SendContext DEF SendData, SendPCs
<1>1. CASE AfterFailure /\ (UNCHANGED owed \/ owed' = [owed EXCEPT ![cb.path] = None])
  BY <1>0, <1>1, AfterFailureOwed
<1>2. ASSUME owed' = [owed EXCEPT ![cb.path] = None]
      PROVE  owed'[cb.path] = None /\ \A r \in Paths \ {cb.path} : owed'[r] = owed[r]
  BY <1>0, <1>2 DEF Inv, TypeOK
<1>3. CASE /\ Q.replaces # NoHandle /\ Goto("delold") /\ UNCHANGED <<pending, kept, fds, reply, listing>>
           /\ owed' = [owed EXCEPT ![cb.path] = None]
  <2>1. ~cb.gone /\ cb'.gone = cb.gone
    BY <1>0, <1>3 DEF Goto, Callbacks, OwedInv, GoneOK, Q
  <2>2. ASSUME NEW r \in Paths \ {cb.path} PROVE Covered(r)'
    BY <1>2, <1>3, <2>1, SameCovered DEF OwedInv, GoneFor
  <2>3. owed'[cb.path] = None
    BY <1>2, <1>3
  <2>4. ASSUME NEW r \in Paths PROVE Covered(r)'
    BY <2>2, <2>3 DEF Covered
  <2> QED
    BY <2>1, <2>4 DEF OwedInv, GoneOK
<1>4. CASE /\ Finish(cb.op, cb.fd, cb.path, Q, "OK")
           /\ owed' = [owed EXCEPT ![cb.path] = None]
  BY <1>0, <1>2, <1>4, FinishOwed DEF Codes
<1> QED
  BY <1>1, <1>3, <1>4 DEF SendData

\* The last steps of a send keep what the mount owes.
LEMMA SendEndOwed == ASSUME Inv, OwedInv, SendDeleteOld \/ SendPutBack PROVE OwedInv'
<1>0. cb.pc \in SendPCs /\ ~cb.gone /\ owed' = owed
  BY DEF SendDeleteOld, SendPutBack, SendPCs, OwedInv, GoneOK
<1> DEFINE q == [Q EXCEPT !.replaces = NoHandle]
<1>1. q \in Pendings /\ q.data = Q.data /\ q.keep = Q.keep
  BY <1>0, SendContext DEF Pendings
<1>2. PICK rc \in Codes : Finish(cb.op, cb.fd, cb.path, q, rc)
  BY DEF SendDeleteOld, SendPutBack, Codes
<1> HIDE DEF q
<1> QED
  BY <1>0, <1>1, <1>2, FinishQOwed

\* The steps of op_rename keep what the mount owes.
LEMMA RenameStepOwed == ASSUME Inv, OwedInv, RenameStep PROVE OwedInv'
<1>0. cb.pc \in PCs \ SendPCs /\ "ren_name" \notin SendPCs /\ "ren_move" \notin SendPCs
      /\ "ren_del" \notin SendPCs /\ "ren_back" \notin SendPCs /\ "idle" \notin SendPCs
  BY DEF RenameStep, RenameAside, RenameMove, RenameName, RenamePutBack, RenameDelete, PCs, SendPCs
<1>1. pending' = pending /\ owed' = owed /\ kept' = kept
  BY DEF RenameStep, RenameAside, RenameMove, RenameName, RenamePutBack, RenameDelete, host
<1>2. \A pc : Goto(pc) => cb'.pc = pc
  BY <1>0, RenameContext DEF Goto, Callbacks
<1>3. \A rc : RenameDone(rc) => cb'.pc = "idle"
  BY DEF RenameDone, RenameAnswer, NotRunning
<1>4. cb'.pc \notin SendPCs
  <2>1. CASE RenameAside
    BY <1>0, <1>2, <1>3, <2>1 DEF RenameAside, RenameRest
  <2>2. CASE RenameMove
    BY <1>0, <1>2, <1>3, <2>2 DEF RenameMove
  <2>3. CASE RenameName
    BY <1>0, <1>2, <1>3, <2>3 DEF RenameName
  <2>4. CASE RenamePutBack \/ RenameDelete
    BY <1>0, <1>3, <2>4 DEF RenamePutBack, RenameDelete
  <2> QED
    BY <2>1, <2>2, <2>3, <2>4 DEF RenameStep
<1> QED
  BY <1>0, <1>1, <1>4, QuietOwed

\* The mount dies, and every spool file stays; or it ends between callbacks,
\* and the marked ones stay.
LEMMA RemountOwed == ASSUME Inv, OwedInv, Crash \/ Unmount PROVE OwedInv'
<1>1. owed' = owed /\ cb' = NotRunning /\ kept \subseteq kept'
  BY DEF Crash, Unmount, Remount
<1>2. ASSUME NEW p \in Paths, owed[p] # None, Marked(p)
      PROVE  \E s \in kept' : s.path = p /\ s.data = owed[p]
  <2>1. CASE Crash
    <3> DEFINE s == [path |-> p, data |-> pending[p].data, why |-> "crash"]
    <3>1. s \in kept' /\ s.path = p /\ s.data = owed[p]
      BY <1>2, <2>1 DEF Crash, Marked
    <3> QED
      BY <3>1
  <2>2. CASE Unmount
    <3> DEFINE s == [path |-> p, data |-> pending[p].data, why |-> "kept"]
    <3>1. pending[p] # None /\ pending[p].keep
      BY <1>2, <2>2 DEF Unmount, Marked, Idle, GoneFor
    <3>2. s \in Dropped(p, pending[p])
      BY <3>1 DEF Dropped
    <3>3. s \in kept' /\ s.path = p /\ s.data = owed[p]
      BY <1>2, <2>2, <3>1, <3>2 DEF Unmount, Marked
    <3> QED
      BY <3>3
  <2> QED
    BY <2>1, <2>2
<1>3. ASSUME NEW p \in Paths PROVE Covered(p)'
  BY <1>1, <1>2 DEF OwedInv, Covered, Saved
<1> QED
  BY <1>1, <1>3, AnsweredGone DEF OwedInv

\* Every step keeps what the mount owes, on a cellphone that never refuses a delete.
LEMMA NextOwed == "delete" \notin Faults /\ Inv /\ OwedInv /\ [Next]_vars => OwedInv'
<1> SUFFICES ASSUME "delete" \notin Faults, Inv, OwedInv, [Next]_vars PROVE OwedInv'
  OBVIOUS
<1>1. CASE UNCHANGED vars
  BY <1>1 DEF vars, OwedInv, Covered, Marked, Saved, GoneFor, GoneOK
<1>2. CASE Next
  BY <1>2, LookOwed, OpenOwed, CreateOwed, WriteOwed, CloseOwed, TruncateSpoolOwed, TruncateOwed,
     SendAsideOwed, SendDeleteFirstOwed, SendAnnounceOwed, SendDataOwed, SendEndOwed,
     RenameStepOwed, RemountOwed
     DEF Next, SendStep
<1> QED
  BY <1>1, <1>2

\* A mount starts owing nothing.
LEMMA InitOwed == Init => OwedInv
BY DEF Init, OwedInv, Covered, GoneOK, SendPCs, NotRunning

\* If the cellphone tells of every delete it does, then the contents it holds
\* no copy of are in a spool file of the host, whatever else fails or dies:
\* the announce, the send, its answer, a later write, the mount itself.
THEOREM OwedContentsSafe == ASSUME "delete" \notin Faults PROVE Spec => []OwedIsKept
<1>1. Init => Inv /\ OwedInv
  BY InitInv, InitOwed
<1>2. Inv /\ OwedInv /\ [Next]_vars => (Inv /\ OwedInv)'
  BY NextInv, NextOwed
<1>3. OwedInv => OwedIsKept
  BY DEF OwedInv, Covered, Marked, Saved, OwedIsKept
<1> QED
  BY <1>1, <1>2, <1>3, PTL DEF Spec

-----------------------------------------------------------------------------
(* A close that answers 0 tells the truth.                                 *)

\* The Pending q holds what every open file of the path wrote.
Fits(p, q) == \A f \in Opens(p) :
    fds[f].wrote # None => fds[f].writer /\ (q.broken \/ q.data = fds[f].wrote)
\* The strengthening, for a path: `sent` is set by a flush of its writer,
\* and "OK" in it means that the cellphone holds the spool file.
PathOK(p) ==
    /\ Fits(p, pending[p])
    /\ (pending[p] # None /\ pending[p].sent # NotSent) =>
         /\ \E f \in Writes(p) : fds[f].flushed
         /\ ~(cb.pc \in SendPCs /\ cb.path = p)
    /\ (pending[p] # None /\ pending[p].sent = "OK") =>
         ~pending[p].broken /\ Holds(p.dir, p.name, pending[p].data)
\* A flush answered 0 because of what `sent` holds.
ReplyTrue == (reply.op = "flush" /\ reply.rc = "OK") =>
    /\ reply.fd \in FDs /\ fds[reply.fd] # None /\ fds[reply.fd].path = reply.path
    /\ fds[reply.fd].writer => pending[reply.path] # None /\ pending[reply.path].sent = "OK"
SentInv == (\A p \in Paths : PathOK(p)) /\ ReplyTrue

\* The step takes no contents away from the path.
KeptAt(q) == \A x : Holds(q.dir, q.name, x) => Holds(q.dir, q.name, x)'
\* The step leaves alone what programs hold open, and what they wrote,
\* but for the path.
OnlyPath(p) ==
    /\ \A q \in Paths : q # p => pending'[q] = pending[q]
    /\ \A f \in FDs : \/ fds'[f] = fds[f]
                      \/ /\ fds[f] = None \/ fds[f].path = p
                         /\ fds'[f] = None \/ fds'[f].path = p
    /\ \A q \in Paths : (q # p /\ Writes(q) # {}) => KeptAt(q)

\* A path stays as it is while the step works on another one.
LEMMA OtherPaths ==
    ASSUME NEW p, OnlyPath(p), cb'.pc \notin SendPCs \/ cb'.path = p,
           NEW q \in Paths, q # p, PathOK(q)
    PROVE  PathOK(q)'
<1>1. pending'[q] = pending[q] /\ Opens(q)' = Opens(q) /\ Writes(q)' = Writes(q)
  BY DEF OnlyPath, Opens, Writes
<1>2. \A f \in Opens(q) : fds'[f] = fds[f]
  BY DEF OnlyPath, Opens
<1>3. Fits(q, pending[q])'
  BY <1>1, <1>2 DEF Fits, PathOK
<1>4. (pending[q] # None /\ pending[q].sent # NotSent) => \E f \in Writes(q) : fds'[f].flushed
  BY <1>2 DEF PathOK, Writes, Opens
<1>5. (pending[q] # None /\ pending[q].sent = "OK") => Writes(q) # {}
  BY DEF PathOK, NotSent
<1>6. (pending[q] # None /\ pending[q].sent = "OK") =>
         ~pending[q].broken /\ Holds(q.dir, q.name, pending[q].data)'
  <2>1. (pending[q] # None /\ pending[q].sent = "OK") => KeptAt(q)
    BY <1>5 DEF OnlyPath
  <2> QED
    BY <1>1, <2>1 DEF PathOK, KeptAt, Holds
<1>7. ~(cb'.pc \in SendPCs /\ cb'.path = q)
  OBVIOUS
<1> QED
  BY <1>1, <1>3, <1>4, <1>6, <1>7 DEF PathOK, Holds

\* The objects stay, or the one that changes is under the path.
LEMMA HoldsOthers ==
    ASSUME NEW p \in Paths, NEW h, OnlyObject(h), h \in Handles => Under(h, p), NEW q \in Paths, q # p
    PROVE  KeptAt(q)
<1> SUFFICES ASSUME NEW x, Holds(q.dir, q.name, x)
             PROVE  Holds(q.dir, q.name, x)'
  BY DEF KeptAt
<1>1. PICK g \in Handles : /\ objs[g] # None /\ objs[g].dir = q.dir /\ objs[g].name = q.name
                           /\ objs[g].aside = 0 /\ objs[g].data = x
  BY DEF Holds
<1>2. q.dir # p.dir \/ q.name # p.name
  BY DEF Paths
<1>3. objs'[g] = objs[g]
  BY <1>1, <1>2 DEF OnlyObject, Under
<1> QED
  BY <1>1, <1>3 DEF Holds

\* The objects stay.
LEMMA HoldsAll == ASSUME UNCHANGED objs PROVE \A q : KeptAt(q)
BY DEF KeptAt, Holds

\* An answer that is not of a flush.
LEMMA OtherReply ==
    ASSUME NEW op, op # "flush", NEW p, NEW fd, NEW rc, Answer(op, p, fd, rc)
    PROVE  ReplyTrue' /\ cb'.pc \notin SendPCs
BY DEF Answer, ReplyTrue, NoReply, NotRunning, SendPCs

\* A Pending that is not sent yet, and fits its open files.
LEMMA UnsentPath ==
    ASSUME NEW p, Fits(p, pending[p])', pending'[p] = None \/ pending'[p].sent = NotSent
    PROVE  PathOK(p)'
BY DEF PathOK, NotSent

\* The end of send_pending.
LEMMA FinishFlush ==
    ASSUME Inv, WriterInv, SentInv, NEW op \in {"flush", "release", "truncate"}, NEW fd, NEW p \in Paths,
           NEW q \in Pendings, NEW rc \in Codes, Caller(op, fd, p), Fits(p, q),
           \A r \in Paths : (r # p /\ Writes(r) # {}) => KeptAt(r),
           (op = "flush" /\ rc = "OK") => ~q.broken /\ Holds(p.dir, p.name, q.data)',
           Finish(op, fd, p, q, rc)
    PROVE  SentInv'
<1> DEFINE q2 == IF PutsBack(op) THEN [q EXCEPT !.sent = rc] ELSE None
<1>0. pending' = [pending EXCEPT ![p] = q2] /\ pending \in [Paths -> Pendings \cup {None}]
  BY DEF Finish, Inv, TypeOK
<1>1. op # "truncate" => /\ fd \in FDs /\ fds[fd] \in OpenFiles /\ fds[fd] # None
                         /\ fds[fd].path = p /\ fds[fd].writer
  BY DEF Caller, Writes, Inv, TypeOK
<1>2. cb' = NotRunning /\ cb'.pc \notin SendPCs
  BY DEF Finish, Answer, NotRunning, SendPCs
<1>3. CASE op = "flush"
  <2> DEFINE o == [fds[fd] EXCEPT !.flushed = TRUE]
  <2>1. fds' = [fds EXCEPT ![fd] = o] /\ fds \in [FDs -> OpenFiles \cup {None}]
    BY <1>3 DEF Finish, Inv, TypeOK
  <2>2. o # None /\ o.path = p /\ o.writer = fds[fd].writer /\ o.wrote = fds[fd].wrote /\ o.flushed
    BY <1>1, <1>3, NoneAssumption DEF OpenFiles
  <2>3. q2 # None /\ q2.sent = rc /\ q2.data = q.data /\ q2.broken = q.broken
    BY <1>3, NoneAssumption DEF PutsBack, Pendings
  <2> HIDE DEF q2, o
  <2>4. pending'[p] = q2 /\ \A r \in Paths : r # p => pending'[r] = pending[r]
    BY <1>0
  <2>5. fds'[fd] = o /\ \A f \in FDs : f # fd => fds'[f] = fds[f]
    BY <1>1, <1>3, <2>1
  <2>6. OnlyPath(p)
    BY <1>1, <1>3, <2>2, <2>4, <2>5 DEF OnlyPath
  <2>7. Fits(p, pending[p])'
    <3>1. Opens(p)' = Opens(p)
      BY <1>1, <1>3, <2>2, <2>5 DEF Opens
    <3>2. \A f \in Opens(p) : fds'[f].wrote = fds[f].wrote /\ fds'[f].writer = fds[f].writer
      BY <2>2, <2>5 DEF Opens
    <3>3. pending'[p].data = q.data /\ pending'[p].broken = q.broken
      BY <2>3, <2>4
    <3> QED
      BY <3>1, <3>2, <3>3 DEF Fits
  <2>8. fd \in Writes(p)' /\ fds'[fd].flushed
    BY <1>1, <1>3, <2>2, <2>5 DEF Writes
  <2>9. rc = "OK" => ~pending'[p].broken /\ Holds(p.dir, p.name, pending[p].data)'
    BY <1>3, <2>3, <2>4 DEF Holds
  <2>10. PathOK(p)'
    BY <1>2, <2>3, <2>4, <2>7, <2>8, <2>9 DEF PathOK
  <2>11. reply' = [op |-> "flush", path |-> p, fd |-> fd, rc |-> rc, h |-> NoHandle]
    BY <1>3 DEF Finish, Answer, Watched
  <2>12. ReplyTrue'
    BY <1>1, <1>3, <2>2, <2>3, <2>4, <2>5, <2>11 DEF ReplyTrue
  <2> QED
    BY <1>2, <2>6, <2>10, <2>12, OtherPaths DEF SentInv
<1>4. CASE op # "flush"
  <2>1. q2 = None
    BY <1>4 DEF PutsBack
  <2>2. pending'[p] = None /\ \A r \in Paths : r # p => pending'[r] = pending[r]
    BY <1>0, <2>1
  <2>3. \A f \in FDs : fds'[f] = fds[f] \/ (op = "release" /\ f = fd /\ fds'[f] = None)
    BY <1>1, <1>4 DEF Finish, Inv, TypeOK
  <2>4. OnlyPath(p)
    BY <1>1, <2>2, <2>3 DEF OnlyPath
  <2>5. \A f \in Opens(p)' : f \in Opens(p) /\ fds'[f] = fds[f] /\ f \notin Writes(p)
    <3>1. CASE op = "release"
      <4>1. Writes(p) = {fd}
        BY <1>1, <3>1 DEF WriterInv, OneWriter, Writes
      <4>2. fds'[fd] = None
        BY <1>1, <3>1 DEF Finish, Inv, TypeOK
      <4> QED
        BY <2>3, <4>1, <4>2 DEF Opens
    <3>2. CASE op = "truncate"
      BY <2>3, <3>2 DEF Opens, Caller
    <3> QED
      BY <1>4, <3>1, <3>2
  <2>6. Fits(p, pending[p])'
    BY <2>5 DEF Fits, Opens, Writes
  <2>7. PathOK(p)'
    BY <2>2, <2>6, UnsentPath
  <2>8. ReplyTrue'
    <3>1. Answer(op, p, fd, IF op = "release" THEN "OK" ELSE rc)
      BY DEF Finish
    <3> QED
      BY <1>4, <3>1, OtherReply
  <2> QED
    BY <1>2, <2>4, <2>7, <2>8, OtherPaths DEF SentInv
<1> QED
  BY <1>3, <1>4

\* The start of send_pending, for a Pending that is not sent yet.
LEMMA SendStartFlush ==
    ASSUME Inv, WriterInv, SentInv, UNCHANGED objs, NEW op \in {"flush", "release", "truncate"}, NEW fd,
           NEW p \in Paths, NEW q \in Pendings, q.sent = NotSent, NEW size, Caller(op, fd, p), Fits(p, q),
           SendStart(op, fd, p, q, size)
    PROVE  SentInv'
<1>1. \A r : KeptAt(r)
  BY HoldsAll
<1>2. ASSUME NEW rc \in {"ENOSPC", "EIO"}, Finish(op, fd, p, q, rc)
      PROVE  SentInv'
  <2>1. rc \in Codes /\ rc # "OK"
    BY <1>2 DEF Codes
  <2> QED
    BY <1>1, <1>2, <2>1, FinishFlush
<1>3. ASSUME NEW pc, pending' = [pending EXCEPT ![p] = q], UNCHANGED fds,
             Running(op, fd, p, p, pc, NoHandle, NoHandle)
      PROVE  SentInv'
  <2>1. cb'.path = p /\ reply' = NoReply
    BY <1>3 DEF Running
  <2>2. OnlyPath(p) /\ pending'[p] = q
    BY <1>1, <1>3 DEF OnlyPath, Inv, TypeOK
  <2>3. Fits(p, pending[p])'
    BY <1>3, <2>2 DEF Fits, Opens
  <2>4. PathOK(p)'
    BY <2>2, <2>3, UnsentPath
  <2>5. ReplyTrue'
    BY <2>1 DEF ReplyTrue, NoReply
  <2> QED
    BY <2>1, <2>2, <2>4, <2>5, OtherPaths DEF SentInv
<1> QED
  BY <1>2, <1>3 DEF SendStart

-----------------------------------------------------------------------------

\* A writer that has not closed the file has a Pending that is not sent.
LEMMA UnflushedUnsent ==
    ASSUME WriterInv, NEW p \in Paths, PathOK(p), pending[p] # None, NEW f \in Writes(p), ~fds[f].flushed
    PROVE  pending[p].sent = NotSent
BY DEF WriterInv, OneWriter, PathOK

\* A path without a writer fits every Pending.
LEMMA NobodyFits ==
    ASSUME NEW p \in Paths, PathOK(p), Writes(p) = {}
    PROVE  \A q : Fits(p, q)
BY DEF PathOK, Fits, Writes, Opens

\* getattr and readdir.
LEMMA LookFlush ==
    ASSUME SentInv, \/ \E p \in Paths : OpGetattr(p)
                    \/ \E d \in Dirs : OpReaddir(d)
    PROVE  SentInv'
<1>1. UNCHANGED <<objs, pending, fds, cb, reply>>
  BY DEF OpGetattr, OpReaddir, device, host
<1> QED
  BY <1>1 DEF SentInv, PathOK, ReplyTrue, Fits, Opens, Writes, Holds

\* unlink removes an object from a path that nobody holds open.
LEMMA UnlinkFlush ==
    ASSUME Inv, HandleInv, NamesInv, SentInv, NEW p \in Paths, OpUnlink(p)
    PROVE  SentInv'
<1>1. /\ UNCHANGED <<pending, fds>> /\ Idle /\ Opens(p) = {} /\ cb'.pc \notin SendPCs
      /\ ReplyTrue'
  <2>1. \E rc : Answer("unlink", p, None, rc)
    BY DEF OpUnlink
  <2> QED
    BY <2>1, OtherReply DEF OpUnlink, host
<1>2. PICK r \in Resolve(listing, entry, p) : OpUnlink(p)!2!(r)
  BY DEF OpUnlink
<1>3. r.h \in Handles => Under(r.h, p)
  <2>1. \A d \in Dirs : TrueIn(listing, entry, d)
    BY <1>1 DEF NamesInv, TreeTrue, Unsettled, Idle
  <2>2. listing \in Listings /\ entry \in EntryMaps /\ TypeOK /\ Known(objs)
    BY Parts DEF Inv, TreeOK, HandleInv, FreshInv
  <2> QED
    BY <2>1, <2>2, ResolveTrue DEF NoHandle, Handles
<1>4. OnlyObject(r.h)
  BY <1>2, DeletedIs DEF OnlyObject
<1>5. \A q \in Paths : q # p => KeptAt(q)
  BY <1>3, <1>4, HoldsOthers
<1>6. OnlyPath(p)
  BY <1>1, <1>5 DEF OnlyPath
<1>7. PathOK(p)'
  <2>1. Opens(p)' = {} /\ pending'[p] = pending[p]
    BY <1>1 DEF Opens
  <2>2. pending[p] = None \/ pending[p].sent = NotSent
    BY <1>1 DEF SentInv, PathOK, Writes, Opens
  <2> QED
    BY <2>1, <2>2, UnsentPath DEF Fits
<1> QED
  BY <1>1, <1>6, <1>7, OtherPaths DEF SentInv

\* A file is opened: what it wrote is not known yet.
LEMMA OpenedFlush ==
    ASSUME Inv, WriterInv, SentInv, UNCHANGED objs, NEW fd \in FDs, fds[fd] = None, NEW p \in Paths,
           NEW w \in BOOLEAN, fds' = [fds EXCEPT ![fd] = Opened(p, w)],
           \/ UNCHANGED pending
           \/ /\ pending[p] = None
              /\ \E x, h : pending' = [pending EXCEPT ![p] = NewPending(x, h)],
           cb'.pc \notin SendPCs, ReplyTrue'
    PROVE  SentInv'
<1>1. Opened(p, w) # None /\ Opened(p, w).path = p /\ Opened(p, w).wrote = None
  BY NoneAssumption, OpenedType DEF Opened
<1>2. fds'[fd] = Opened(p, w) /\ \A f \in FDs : f # fd => fds'[f] = fds[f]
  BY DEF Inv, TypeOK
<1>3. OnlyPath(p)
  BY <1>1, <1>2, HoldsAll DEF OnlyPath, Inv, TypeOK
<1>4. ASSUME NEW q, Fits(p, q)
      PROVE  \A f \in Opens(p)' : fds'[f].wrote # None =>
                fds'[f].writer /\ (q.broken \/ q.data = fds'[f].wrote)
  BY <1>1, <1>2, <1>4 DEF Fits, Opens
<1>5. PathOK(p)'
  <2>1. CASE UNCHANGED pending
    <3>1. Fits(p, pending[p])'
      BY <1>4, <2>1 DEF Fits, SentInv, PathOK
    <3>2. \A f \in Writes(p) : f \in Writes(p)' /\ fds'[f] = fds[f]
      BY <1>1, <1>2 DEF Writes
    <3>3. pending'[p] = pending[p] /\ KeptAt(p)
      BY <2>1, HoldsAll
    <3>4. PathOK(p)
      BY DEF SentInv
    <3>5. (pending[p] # None /\ pending[p].sent # NotSent) => \E f \in Writes(p)' : fds'[f].flushed
      BY <3>2, <3>4 DEF PathOK
    <3> QED
      BY <3>1, <3>3, <3>4, <3>5 DEF PathOK, KeptAt, Holds
  <2>2. ASSUME NEW x, NEW h, pending[p] = None, pending' = [pending EXCEPT ![p] = NewPending(x, h)]
        PROVE  PathOK(p)'
    <3>1. pending'[p] = NewPending(x, h) /\ NewPending(x, h).sent = NotSent
      BY <2>2 DEF NewPending, Inv, TypeOK
    <3>2. Writes(p) = {}
      BY <2>2 DEF WriterInv, SpoolForWriter
    <3>3. Fits(p, NewPending(x, h))
      BY <3>2, NobodyFits DEF SentInv
    <3>4. Fits(p, pending[p])'
      BY <1>4, <3>1, <3>3 DEF Fits
    <3> QED
      BY <3>1, <3>4, UnsentPath
  <2> QED
    BY <2>1, <2>2
<1> QED
  BY <1>3, <1>5, OtherPaths DEF SentInv

\* Nothing is opened.
LEMMA QuietFlush ==
    ASSUME SentInv, UNCHANGED <<objs, pending, fds>>, cb'.pc \notin SendPCs, ReplyTrue'
    PROVE  SentInv'
BY DEF SentInv, PathOK, Fits, Opens, Writes, Holds

\* open and create.
LEMMA OpenFlush ==
    ASSUME Inv, WriterInv, SentInv, NEW fd \in FDs, NEW p \in Paths,
           OpCreate(fd, p) \/ \E w, trunc \in BOOLEAN : OpOpen(fd, p, w, trunc)
    PROVE  SentInv'
<1>1. UNCHANGED objs /\ fds[fd] = None
  BY DEF OpOpen, OpCreate, device
<1>2. cb'.pc \notin SendPCs /\ ReplyTrue'
  <2>1. \E rc : Answer("open", p, fd, rc) \/ Answer("create", p, fd, rc)
    BY DEF OpOpen, OpCreate
  <2> QED
    BY <2>1, OtherReply
<1> DEFINE Open ==
      /\ \E w \in BOOLEAN : fds' = [fds EXCEPT ![fd] = Opened(p, w)]
      /\ \/ UNCHANGED pending
         \/ pending[p] = None /\ \E x, h : pending' = [pending EXCEPT ![p] = NewPending(x, h)]
<1>3. UNCHANGED <<pending, fds>> \/ Open
  <2>1. CASE OpCreate(fd, p)
    BY <2>1 DEF OpCreate
  <2>2. ASSUME NEW w \in BOOLEAN, NEW trunc \in BOOLEAN, OpOpen(fd, p, w, trunc)
        PROVE  UNCHANGED <<pending, fds>> \/ Open
    <3>1. PICK r \in Resolve(listing, entry, p) : OpOpen(fd, p, w, trunc)!4!(r)
      BY <2>2 DEF OpOpen
    <3> QED
      BY <3>1 DEF host
  <2> QED
    BY <2>1, <2>2
<1> QED
  BY <1>1, <1>2, <1>3, OpenedFlush, QuietFlush

\* A change of a spool file that a program was told of.
LEMMA AcceptedFlush ==
    ASSUME Inv, WriterInv, SentInv, UNCHANGED objs, NEW p \in Paths, pending[p] # None,
           pending[p].sent = NotSent, NEW x \in Data, Accepted(p, x), cb'.pc \notin SendPCs, ReplyTrue'
    PROVE  SentInv'
<1> DEFINE q == [pending[p] EXCEPT !.data = x]
<1>1. q.data = x /\ q.sent = NotSent
  BY DEF Inv, TypeOK, Pendings
<1>2. pending' = [pending EXCEPT ![p] = q]
  BY DEF Accepted
<1> HIDE DEF q
<1>3. pending'[p] = q /\ \A r \in Paths : r # p => pending'[r] = pending[r]
  BY <1>2 DEF Inv, TypeOK
<1>4. ASSUME NEW f \in Writes(p)
      PROVE  fds'[f] # None /\ fds'[f].path = p /\ fds'[f].writer /\ fds'[f].wrote = x
  <2>1. fds'[f] = [fds[f] EXCEPT !.wrote = x] /\ fds[f] \in OpenFiles /\ fds[f].path = p /\ fds[f].writer
    BY <1>4 DEF Accepted, Writes, Inv, TypeOK
  <2> QED
    BY <2>1, NoneAssumption DEF OpenFiles
<1>5. \A f \in FDs : f \notin Writes(p) => fds'[f] = fds[f]
  BY DEF Accepted
<1>6. OnlyPath(p)
  BY <1>3, <1>4, <1>5, HoldsAll DEF OnlyPath, Writes
<1>7. Fits(p, pending[p])'
  <2>1. \A f \in Opens(p)' : f \notin Writes(p) => fds'[f].wrote = None
    BY <1>5 DEF Opens, Writes, SentInv, PathOK, Fits
  <2> QED
    BY <1>1, <1>3, <1>4, <2>1 DEF Fits, Opens
<1>8. PathOK(p)'
  BY <1>1, <1>3, <1>7, UnsentPath
<1> QED
  BY <1>6, <1>8, OtherPaths DEF SentInv

\* A write that breaks off marks the spool file.
LEMMA BrokenFlush ==
    ASSUME Inv, WriterInv, SentInv, UNCHANGED <<objs, fds>>, NEW p \in Paths, pending[p] # None,
           pending[p].sent = NotSent, NEW x \in Data, pending' = [pending EXCEPT ![p].data = x, ![p].broken = TRUE],
           cb'.pc \notin SendPCs, ReplyTrue'
    PROVE  SentInv'
<1> DEFINE q == [[pending[p] EXCEPT !.data = x] EXCEPT !.broken = TRUE]
<1>1. q.broken /\ q.sent = NotSent
  BY DEF Inv, TypeOK, Pendings
<1>2. pending' = [pending EXCEPT ![p] = q]
  BY DEF Inv, TypeOK
<1> HIDE DEF q
<1>3. pending'[p] = q /\ \A r \in Paths : r # p => pending'[r] = pending[r]
  BY <1>2 DEF Inv, TypeOK
<1>4. OnlyPath(p)
  BY <1>3, HoldsAll DEF OnlyPath
<1>5. Fits(p, pending[p])'
  BY <1>1, <1>3 DEF Fits, Opens, SentInv, PathOK
<1>6. PathOK(p)'
  BY <1>1, <1>3, <1>5, UnsentPath
<1> QED
  BY <1>4, <1>6, OtherPaths DEF SentInv

\* write: its open file was not closed, so nothing was sent.
LEMMA WriteFlush ==
    ASSUME LoneWriters, Inv, WriterInv, SentInv, NEW fd \in FDs, OpWrite(fd)
    PROVE  SentInv'
<1> DEFINE p == fds[fd].path
<1>1. p \in Paths /\ UNCHANGED objs /\ fd \in Writes(p) /\ ~fds[fd].flushed
  BY DEF OpWrite, Inv, TypeOK, OpenFiles, device, Writes, LoneWriters
<1>2. cb'.pc \notin SendPCs /\ ReplyTrue'
  <2>1. \E rc : Answer("write", p, fd, rc)
    BY DEF OpWrite
  <2> HIDE DEF p
  <2> QED
    BY <2>1, OtherReply
<1>3. pending[p] # None => pending[p].sent = NotSent
  <2> HIDE DEF p
  <2> QED
    BY <1>1, UnflushedUnsent DEF SentInv
<1>4. CASE UNCHANGED <<pending, fds>>
  BY <1>1, <1>2, <1>4, QuietFlush
<1>5. ASSUME pending[p] # None, NEW n \in {m \in 1..MaxLen : m >= pending[p].data.len},
             NEW x \in Changed(pending[p], n), Accepted(p, x)
      PROVE  SentInv'
  <2>1. x \in Data
    BY ChangedType, BoundsAssumption
  <2> HIDE DEF p
  <2> QED
    BY <1>1, <1>2, <1>3, <1>5, <2>1, AcceptedFlush
<1>6. ASSUME pending[p] # None, UNCHANGED fds, NEW x \in Data,
             pending' = [pending EXCEPT ![p].data = x, ![p].broken = TRUE]
      PROVE  SentInv'
  <2> HIDE DEF p
  <2> QED
    BY <1>1, <1>2, <1>3, <1>6, BrokenFlush
<1>7. ASSUME pending[p] # None, MaxLen > 0
      PROVE  [ver |-> Torn, len |-> IF pending[p].data.len = 0 THEN 1 ELSE pending[p].data.len] \in Data
  BY <1>1, <1>7, TornData DEF Inv, TypeOK, Pendings
<1> QED
  BY <1>4, <1>5, <1>6, <1>7 DEF OpWrite

\* truncate of a file that is open, and was not closed.
LEMMA TruncateSpoolFlush ==
    ASSUME LoneWriters, Inv, WriterInv, SentInv, NEW p \in Paths, NEW n \in 0..MaxLen, OpTruncateSpool(p, n)
    PROVE  SentInv'
<1>1. UNCHANGED objs /\ pending[p] # None /\ pending[p].sent = NotSent
  BY DEF OpTruncateSpool, device, LoneWriters
<1>2. cb'.pc \notin SendPCs /\ ReplyTrue'
  <2>1. \E rc : Answer("truncate", p, None, rc)
    BY DEF OpTruncateSpool
  <2> QED
    BY <2>1, OtherReply
<1>3. CASE UNCHANGED <<pending, fds>>
  BY <1>1, <1>2, <1>3, QuietFlush
<1>4. ASSUME NEW x \in Data, Accepted(p, x)
      PROVE  SentInv'
  BY <1>1, <1>2, <1>4, AcceptedFlush
<1>5. n <= pending[p].data.len => Cut(pending[p].data, n) \in Data
  <2>1. pending[p].data \in Data /\ pending[p].data.len \in Nat
    BY <1>1, BoundsAssumption DEF Inv, TypeOK, Pendings, Data, NoBytes
  <2> QED
    BY <2>1, CutType
<1>6. \A x \in Changed(pending[p], n) : x \in Data
  BY ChangedType
<1> QED
  BY <1>3, <1>4, <1>5, <1>6 DEF OpTruncateSpool

\* flush answers at once, or sends.
LEMMA FlushFlush ==
    ASSUME Inv, WriterInv, SentInv, NEW fd \in FDs, OpFlush(fd)
    PROVE  SentInv'
<1>0. PICK p \in Paths : p = fds[fd].path
  BY DEF OpFlush, Inv, TypeOK, OpenFiles
<1> DEFINE o == [fds[fd] EXCEPT !.flushed = TRUE]
<1>1. UNCHANGED objs /\ fds[fd] \in OpenFiles /\ fds[fd] # None
  BY DEF OpFlush, Inv, TypeOK, OpenFiles, device
<1>2. o # None /\ o.path = p /\ o.writer = fds[fd].writer /\ o.wrote = fds[fd].wrote /\ o.flushed
  BY <1>0, <1>1, NoneAssumption DEF OpenFiles
<1>3. PathOK(p) /\ (fds[fd].writer => fd \in Writes(p) /\ pending[p] # None)
  BY <1>0, <1>1 DEF SentInv, Writes, WriterInv, SpoolForWriter
<1>4. ASSUME NEW rc, Answer("flush", p, fd, rc), fds' = [fds EXCEPT ![fd].flushed = TRUE], UNCHANGED pending,
             rc = "OK" => ~fds[fd].writer \/ pending[p].sent = "OK"
      PROVE  SentInv'
  <2>1. fds'[fd] = o /\ \A f \in FDs : f # fd => fds'[f] = fds[f]
    BY <1>4 DEF Inv, TypeOK
  <2>2. cb'.pc \notin SendPCs /\ reply' = [op |-> "flush", path |-> p, fd |-> fd, rc |-> rc, h |-> NoHandle]
    BY <1>4 DEF Answer, NotRunning, SendPCs, Watched
  <2> HIDE DEF o
  <2>3. OnlyPath(p)
    BY <1>0, <1>1, <1>2, <1>4, <2>1, HoldsAll DEF OnlyPath
  <2>4. Opens(p)' = Opens(p) /\ Writes(p)' = Writes(p)
    BY <1>0, <1>1, <1>2, <2>1 DEF Opens, Writes
  <2>5. \A f \in FDs : fds'[f].wrote = fds[f].wrote /\ fds'[f].writer = fds[f].writer
                       /\ (fds[f].flushed => fds'[f].flushed)
    BY <1>2, <2>1
  <2>6. Fits(p, pending[p])'
    BY <1>3, <1>4, <2>4, <2>5 DEF Fits, PathOK, Opens
  <2>7. (pending[p] # None /\ pending[p].sent # NotSent) => \E f \in Writes(p)' : fds'[f].flushed
    BY <1>3, <2>4, <2>5 DEF PathOK, Writes
  <2>8. PathOK(p)'
    BY <1>0, <1>1, <1>3, <1>4, <2>2, <2>6, <2>7 DEF PathOK, Holds
  <2>9. ReplyTrue'
    BY <1>0, <1>2, <1>3, <1>4, <2>1, <2>2 DEF ReplyTrue
  <2> QED
    BY <2>2, <2>3, <2>8, <2>9, OtherPaths DEF SentInv
<1>5. ASSUME fds[fd].writer, pending[p] # None, pending[p].sent = NotSent, NEW size,
             SendStart("flush", fd, p, pending[p], size)
      PROVE  SentInv'
  <2>1. pending[p] \in Pendings /\ Fits(p, pending[p]) /\ Caller("flush", fd, p)
    BY <1>0, <1>1, <1>3, <1>5 DEF Inv, TypeOK, PathOK, Caller
  <2> QED
    BY <1>0, <1>1, <1>5, <2>1, SendStartFlush
<1>6. \/ \E rc : /\ Answer("flush", p, fd, rc) /\ fds' = [fds EXCEPT ![fd].flushed = TRUE] /\ UNCHANGED pending
                 /\ rc = "OK" => ~fds[fd].writer \/ pending[p].sent = "OK"
      \/ /\ fds[fd].writer /\ pending[p] # None /\ pending[p].sent = NotSent
         /\ \E size : SendStart("flush", fd, p, pending[p], size)
  BY <1>0, <1>3 DEF OpFlush, Answered
<1> QED
  BY <1>4, <1>5, <1>6

\* release closes the open file.
LEMMA ReleaseFlush ==
    ASSUME Inv, WriterInv, SentInv, NEW fd \in FDs, OpRelease(fd)
    PROVE  SentInv'
<1>0. PICK p \in Paths : p = fds[fd].path
  BY DEF OpRelease, Inv, TypeOK, OpenFiles
<1>1. UNCHANGED objs /\ fds[fd] # None
  BY DEF OpRelease, Inv, TypeOK, OpenFiles, device
<1>2. PathOK(p) /\ (fds[fd].writer => fd \in Writes(p) /\ pending[p] # None)
  BY <1>0, <1>1 DEF SentInv, Writes, WriterInv, SpoolForWriter
<1>3. CASE /\ ~fds[fd].writer /\ Answer("release", p, fd, "OK")
           /\ fds' = [fds EXCEPT ![fd] = None] /\ UNCHANGED pending
  <2>1. fds'[fd] = None /\ \A f \in FDs : f # fd => fds'[f] = fds[f]
    BY <1>3 DEF Inv, TypeOK
  <2>2. cb'.pc \notin SendPCs /\ ReplyTrue'
    BY <1>3, OtherReply
  <2>3. OnlyPath(p)
    BY <1>0, <1>1, <1>3, <2>1, HoldsAll DEF OnlyPath
  <2>4. Writes(p)' = Writes(p) /\ \A f \in Opens(p)' : f \in Opens(p) /\ fds'[f] = fds[f]
    BY <1>3, <2>1 DEF Opens, Writes
  <2>5. \A f \in Writes(p) : fds'[f] = fds[f]
    BY <1>3, <2>1 DEF Writes
  <2>6. Fits(p, pending[p])'
    BY <1>2, <1>3, <2>4 DEF Fits, PathOK
  <2>7. (pending[p] # None /\ pending[p].sent # NotSent) => \E f \in Writes(p)' : fds'[f].flushed
    BY <1>2, <2>4, <2>5 DEF PathOK
  <2>8. PathOK(p)'
    BY <1>0, <1>1, <1>2, <1>3, <2>2, <2>6, <2>7 DEF PathOK, Holds
  <2> QED
    BY <2>2, <2>3, <2>8, OtherPaths DEF SentInv
<1>4. ASSUME fds[fd].writer, pending[p] # None
      PROVE  /\ pending[p] \in Pendings /\ Fits(p, pending[p]) /\ Caller("release", fd, p)
             /\ \A r : KeptAt(r)
  <2> QED
    BY <1>1, <1>2, <1>4, HoldsAll DEF Inv, TypeOK, PathOK, Caller
<1>5. ASSUME fds[fd].writer, pending[p] # None, Finish("release", fd, p, pending[p], "OK")
      PROVE  SentInv'
  <2> QED
    BY <1>0, <1>1, <1>4, <1>5, FinishFlush DEF Codes
<1>6. ASSUME fds[fd].writer, pending[p] # None, pending[p].sent = NotSent, NEW size,
             SendStart("release", fd, p, pending[p], size)
      PROVE  SentInv'
  <2> QED
    BY <1>0, <1>1, <1>4, <1>6, SendStartFlush
<1> QED
  BY <1>0, <1>2, <1>3, <1>5, <1>6 DEF OpRelease, Answered

\* truncate of a file that nobody writes.
LEMMA TruncateFlush ==
    ASSUME Inv, WriterInv, SentInv, NEW p \in Paths, NEW n \in 0..MaxLen, OpTruncate(p, n)
    PROVE  SentInv'
<1>1. UNCHANGED objs /\ pending[p] = None /\ Writes(p) = {} /\ \A q : Fits(p, q)
  <2>1. UNCHANGED objs /\ pending[p] = None
    BY DEF OpTruncate, device
  <2>2. Writes(p) = {}
    BY <2>1 DEF WriterInv, SpoolForWriter
  <2> QED
    BY <2>1, <2>2, NobodyFits DEF SentInv
<1>2. PICK r \in Resolve(listing, entry, p) : OpTruncate(p, n)!2!(r)
  BY DEF OpTruncate
<1>3. ASSUME NEW rc, Answer("truncate", p, None, rc)
      PROVE  cb'.pc \notin SendPCs /\ ReplyTrue'
  BY <1>3, OtherReply
<1>4. CASE r.h = NoHandle
  BY <1>1, <1>2, <1>3, <1>4, QuietFlush DEF host
<1>5. CASE r.h # NoHandle
  <2>1. PICK a \in Adopted(r.h, r.entry[r.h].size, n > 0) :
          \/ a.rc # "OK" /\ Answer("truncate", p, None, a.rc) /\ UNCHANGED <<pending, fds>>
          \/ /\ UNCHANGED fds
             /\ pending' = [pending EXCEPT ![p] = NewPending(a.data, r.h)]
             /\ Answer("truncate", p, None, "EIO")
          \/ \E x \in IF n <= a.data.len THEN {Cut(a.data, n)} ELSE [ver: Vers, len: {n}] :
                SendStart("truncate", None, p, NewPending(x, r.h), SizeIn(r.entry, r.h))
    BY <1>2, <1>5
  <2>2. a.data \in Data /\ r.h \in Handles
    BY <1>5, ResolveType, AdoptedType, Parts DEF TreeOK, Inv
  <2>3. CASE Answer("truncate", p, None, a.rc) /\ UNCHANGED <<pending, fds>>
    BY <1>1, <1>3, <2>3, QuietFlush
  <2>4. CASE /\ UNCHANGED fds /\ pending' = [pending EXCEPT ![p] = NewPending(a.data, r.h)]
             /\ Answer("truncate", p, None, "EIO")
    <3>1. pending'[p] = NewPending(a.data, r.h) /\ NewPending(a.data, r.h).sent = NotSent
      BY <2>4 DEF NewPending, Inv, TypeOK
    <3>2. OnlyPath(p)
      BY <1>1, <2>4, HoldsAll DEF OnlyPath, Inv, TypeOK
    <3>3. Fits(p, pending[p])'
      BY <1>1, <2>4, <3>1 DEF Fits, Opens
    <3>4. PathOK(p)'
      BY <3>1, <3>3, UnsentPath
    <3> QED
      BY <1>3, <2>4, <3>2, <3>4, OtherPaths DEF SentInv
  <2>5. ASSUME NEW x \in IF n <= a.data.len THEN {Cut(a.data, n)} ELSE [ver: Vers, len: {n}], NEW size,
               SendStart("truncate", None, p, NewPending(x, r.h), size)
        PROVE  SentInv'
    <3>1. x \in Data
      BY <2>2, <2>5, TruncatedType
    <3>2. NewPending(x, r.h) \in Pendings /\ NewPending(x, r.h).sent = NotSent
      BY <2>2, <3>1, NewPendingType DEF NewPending
    <3>3. Caller("truncate", None, p)
      BY <1>1 DEF Caller
    <3> QED
      BY <1>1, <2>5, <3>2, <3>3, SendStartFlush
  <2> QED
    BY <2>1, <2>3, <2>4, <2>5
<1> QED
  BY <1>4, <1>5

\* What send_pending changes on the cellphone is under its path.
LEMMA SendKeeps ==
    ASSUME Inv, HandleInv, NamesInv, SendStep, NEW p \in Paths, p # cb.path
    PROVE  KeptAt(p)
<1>1. cb.pc \in SendPCs /\ cb.path \in Paths /\ Q \in Pendings /\ Q # None /\ OnlyObject(Target)
  BY SendEffect, SendTouches, SendContext
<1>2. Target \in Handles => Under(Target, cb.path)
  <2>1. CASE cb.pc = "announce"
    <3>1. nextH \in Handles => objs[nextH] = None
      BY BoundsAssumption DEF HandleInv, FreshInv, Known, Inv, TypeOK
    <3> QED
      BY <2>1, <3>1 DEF Target, Under
  <2>2. CASE cb.pc = "data"
    BY <2>2 DEF Target, HandleInv, NewObject, At, Under
  <2>3. CASE cb.pc \notin {"announce", "data"}
    BY <1>1, <2>3 DEF Target, NamesInv, ReplacesTrue, Q, NoHandle, Handles
  <2> QED
    BY <2>1, <2>2, <2>3
<1> QED
  BY <1>1, <1>2, HoldsOthers

\* When the new object is whole, and when the old one goes, the name holds
\* what was in the spool file.
LEMMA SentHolds ==
    ASSUME Inv, HandleInv, NEW p, p = cb.path, NEW x, x = Q.data,
           \/ SendData /\ objs' = [objs EXCEPT ![cb.h].data = x]
           \/ SendDeleteOld
    PROVE  Holds(p.dir, p.name, x)'
<1>1. /\ cb.h \in Handles /\ At(cb.h, p) /\ cb.h # Q.replaces
      /\ cb.pc = "delold" => objs[cb.h].data = x
  BY DEF SendData, SendDeleteOld, HandleInv, NewObject
<1>2. objs[cb.h] \in Objects
  BY <1>1 DEF At, Inv, TypeOK
<1>3. CASE SendData /\ objs' = [objs EXCEPT ![cb.h].data = x]
  <2> DEFINE o == [objs[cb.h] EXCEPT !.data = x]
  <2>0. x \in Data
    BY <1>3, SendContext DEF SendData, SendPCs, Pendings
  <2>1. /\ o.dir = p.dir /\ o.name = p.name /\ o.aside = 0 /\ o.data = x /\ o # None
    BY <1>1, <1>2, <2>0, NoneAssumption DEF Objects, At
  <2>2. objs'[cb.h] = o
    BY <1>1, <1>3 DEF Inv, TypeOK
  <2> HIDE DEF o
  <2> QED
    BY <1>1, <2>1, <2>2 DEF Holds
<1>4. CASE SendDeleteOld
  <2>1. OnlyObject(Q.replaces)
    BY <1>4, DeletedIs DEF SendDeleteOld
  <2>2. objs'[cb.h] = objs[cb.h] /\ objs[cb.h].data = x
    BY <1>1, <1>4, <2>1 DEF OnlyObject, SendDeleteOld
  <2> QED
    BY <1>1, <2>2 DEF Holds, At
<1> QED
  BY <1>3, <1>4

\* Every step of send_pending.
LEMMA SendStepFlush ==
    ASSUME Inv, WriterInv, HandleInv, NamesInv, TornInv, SentInv, SendStep
    PROVE  SentInv'
<1>0. PICK p \in Paths : p = cb.path
  BY SendEffect, SendContext
<1>1. /\ cb.pc \in SendPCs /\ cb \in Callbacks /\ cb.op \in {"flush", "release", "truncate"}
      /\ Q \in Pendings /\ Q # None /\ Q = pending[p] /\ Caller(cb.op, cb.fd, p) /\ ~Q.broken
  BY <1>0, SendEffect, SendContext DEF WriterInv, SenderWrites, Caller, Q, TornInv, SendsWhole
<1>2. \A r \in Paths : (r # p /\ Writes(r) # {}) => KeptAt(r)
  BY <1>0, SendKeeps
<1>3. Fits(p, Q) /\ Q.sent = NotSent
  BY <1>0, <1>1 DEF SentInv, PathOK
<1>4. ASSUME NEW q \in Pendings, q.data = Q.data, q.broken = Q.broken, NEW rc \in {"OK", "EIO"},
             rc = "OK" => Holds(p.dir, p.name, q.data)', Finish(cb.op, cb.fd, cb.path, q, rc)
      PROVE  SentInv'
  <2>1. Fits(p, q)
    BY <1>3, <1>4 DEF Fits
  <2>2. Finish(cb.op, cb.fd, p, q, rc) /\ rc \in Codes
    BY <1>0, <1>4 DEF Codes
  <2> QED
    BY <1>1, <1>2, <1>4, <2>1, <2>2, FinishFlush
<1>5. ASSUME NEW q \in Pendings, q.data = Q.data, q.broken = Q.broken, q.sent = NotSent,
             pending' = [pending EXCEPT ![p] = q], UNCHANGED <<fds, reply>>, cb'.path = p
      PROVE  SentInv'
  <2>1. OnlyPath(p) /\ pending'[p] = q
    BY <1>2, <1>5 DEF OnlyPath, Inv, TypeOK
  <2>2. Fits(p, pending[p])'
    BY <1>3, <1>5, <2>1 DEF Fits, Opens
  <2>3. PathOK(p)'
    BY <1>5, <2>1, <2>2, UnsentPath
  <2>4. ReplyTrue'
    BY <1>1, <1>5 DEF ReplyTrue, HandleInv, QuietReply, Idle, SendPCs, NoReply
  <2> QED
    BY <1>5, <2>1, <2>3, <2>4, OtherPaths DEF SentInv
<1>6. ASSUME UNCHANGED <<pending, fds, reply>>, cb'.path = p
      PROVE  SentInv'
  <2>1. pending' = [pending EXCEPT ![p] = Q]
    BY <1>1, <1>6 DEF Inv, TypeOK
  <2> QED
    BY <1>1, <1>3, <1>5, <1>6, <2>1
<1>7. ASSUME NEW pc, Goto(pc), UNCHANGED <<pending, fds, reply>>
      PROVE  SentInv'
  BY <1>0, <1>1, <1>6, <1>7 DEF Goto, Callbacks
<1> DEFINE q1 == [Q EXCEPT !.replaces = NoHandle]
           q2 == [Q EXCEPT !.keep = @ \/ cb.gone]
<1>8. /\ q1 \in Pendings /\ q1.data = Q.data /\ q1.broken = Q.broken /\ q1.sent = Q.sent
      /\ q2 \in Pendings /\ q2.data = Q.data /\ q2.broken = Q.broken
  BY <1>1 DEF Pendings, Callbacks
<1>9. AfterFailure => SentInv'
  <2>1. AfterFailure => \/ Goto("putback") /\ UNCHANGED <<pending, fds, reply>>
                        \/ Finish(cb.op, cb.fd, cb.path, q2, "EIO")
    BY DEF AfterFailure, SendFailed
  <2> HIDE DEF q2
  <2> QED
    BY <1>4, <1>7, <1>8, <2>1
<1>10. CASE SendAside
  BY <1>1, <1>4, <1>7, <1>10 DEF SendAside
<1>11. CASE SendDeleteFirst
  <2>1. \/ /\ pending' = [pending EXCEPT ![cb.path].replaces = NoHandle]
           /\ cb' = [cb EXCEPT !.pc = "announce", !.gone = TRUE]
           /\ UNCHANGED <<kept, fds, reply>>
        \/ Finish(cb.op, cb.fd, cb.path, Q, "EIO")
    BY <1>11 DEF SendDeleteFirst
  <2>2. ASSUME pending' = [pending EXCEPT ![cb.path].replaces = NoHandle],
               cb' = [cb EXCEPT !.pc = "announce", !.gone = TRUE], UNCHANGED <<fds, reply>>
        PROVE  SentInv'
    <3>1. pending' = [pending EXCEPT ![p] = q1]
      BY <1>0, <1>1, <2>2 DEF Inv, TypeOK
    <3>2. cb'.path = p
      BY <1>0, <1>1, <2>2 DEF Callbacks
    <3> HIDE DEF q1
    <3> QED
      BY <1>3, <1>5, <1>8, <2>2, <3>1, <3>2
  <2> QED
    BY <1>1, <1>4, <2>1, <2>2
<1>12. CASE SendAnnounce
  <2>1. \/ \E h : cb' = [cb EXCEPT !.pc = "data", !.h = h] /\ UNCHANGED <<pending, fds, reply>>
        \/ AfterFailure
    BY <1>12 DEF SendAnnounce
  <2>2. \A h : cb' = [cb EXCEPT !.pc = "data", !.h = h] => cb'.path = p
    BY <1>0, <1>1 DEF Callbacks
  <2> QED
    BY <1>6, <1>9, <2>1, <2>2
<1>13. CASE SendData
  <2>1. \/ Goto("delold") /\ UNCHANGED <<pending, fds, reply>>
        \/ Finish(cb.op, cb.fd, cb.path, Q, "OK") /\ objs' = [objs EXCEPT ![cb.h].data = Q.data]
        \/ AfterFailure
    BY <1>13 DEF SendData
  <2>2. ASSUME NEW x, x = Q.data, objs' = [objs EXCEPT ![cb.h].data = Q.data]
        PROVE  Holds(p.dir, p.name, x)'
    BY <1>0, <1>13, <2>2, SentHolds
  <2>3. ASSUME NEW q, q = Q, Finish(cb.op, cb.fd, cb.path, Q, "OK"), objs' = [objs EXCEPT ![cb.h].data = Q.data]
        PROVE  SentInv'
    BY <1>1, <1>4, <2>2, <2>3
  <2> QED
    BY <1>7, <1>9, <2>1, <2>3
<1>14. CASE SendDeleteOld
  <2>1. Finish(cb.op, cb.fd, cb.path, q1, "OK")
    BY <1>14 DEF SendDeleteOld
  <2>2. ASSUME NEW x, x = Q.data
        PROVE  Holds(p.dir, p.name, x)'
    BY <1>0, <1>14, <2>2, SentHolds
  <2> HIDE DEF q1
  <2>3. ASSUME NEW q, q = q1
        PROVE  SentInv'
    BY <1>4, <1>8, <2>1, <2>2, <2>3
  <2> QED
    BY <2>3
<1>15. CASE SendPutBack
  <2>1. Finish(cb.op, cb.fd, cb.path, q1, "EIO")
    BY <1>15 DEF SendPutBack
  <2> HIDE DEF q1
  <2> QED
    BY <1>4, <1>8, <2>1
<1> QED
  BY <1>10, <1>11, <1>12, <1>13, <1>14, <1>15 DEF SendStep

\* The checks of op_rename.
LEMMA RenameFlush ==
    ASSUME SentInv, NEW from \in Paths, NEW to \in Paths, OpRename(from, to)
    PROVE  SentInv'
<1>1. UNCHANGED <<objs, pending, fds>>
  BY DEF OpRename, device, host
<1>2. /\ cb'.pc \notin SendPCs
      /\ reply' = NoReply \/ reply'.op = "rename"
  <2>1. \A rc, h : RenameAnswer(to, h, rc) => cb'.pc = "idle" /\ reply'.op = "rename"
    BY DEF RenameAnswer, NotRunning
  <2>2. \A pc, h, t : Running("rename", None, from, to, pc, h, t) => cb'.pc = pc /\ reply' = NoReply
    BY DEF Running
  <2>3. {"idle", "ren_aside", RenameRest(from, to)} \cap SendPCs = {}
    BY DEF RenameRest, SendPCs
  <2> QED
    BY <2>1, <2>2, <2>3 DEF OpRename
<1>3. ReplyTrue'
  BY <1>2 DEF ReplyTrue, NoReply
<1> QED
  BY <1>1, <1>2, <1>3, QuietFlush

\* What a step of op_rename changes is under one of its two paths.
LEMMA RenameKeeps ==
    ASSUME SteadyNames, Inv, WriterInv, NamesInv, RenameStep, NEW p \in Paths, p # cb.path, p # cb.to
    PROVE  KeptAt(p)
<1>0. /\ cb.pc \in RenamePCs /\ cb.h \in Handles /\ cb.path \in Paths /\ cb.to \in Paths
      /\ cb.path.dir = cb.to.dir \/ cb.path.name = cb.to.name
      /\ cb.to.name \in Names /\ 0 \in 0..MaxCount /\ (count < MaxCount => count + 1 \in 0..MaxCount)
      /\ entry[cb.h].name = cb.path.name
  BY RenameEffect, RenameSteady, BoundsAssumption DEF Paths, Inv, TypeOK, NamesInv, RenameTrue
<1>1. cb.old \in Handles => Under(cb.old, cb.to)
  BY <1>0 DEF NamesInv, RenameTrue, NoHandle, Handles
<1>2. ASSUME OnlyObject(cb.old)
      PROVE  KeptAt(p)
  BY <1>0, <1>1, <1>2, HoldsOthers
<1>3. ASSUME OnlyObject(cb.h), Under(cb.h, cb.path)
      PROVE  KeptAt(p)
  BY <1>0, <1>3, HoldsOthers
<1>4. ASSUME UNCHANGED objs
      PROVE  KeptAt(p)
  BY <1>4, HoldsAll
<1>5. CASE RenameAside
  BY <1>0, <1>2, <1>5, RenamedIs DEF RenameAside
<1>6. CASE RenamePutBack
  BY <1>0, <1>2, <1>6, RenamedIs DEF RenamePutBack
<1>7. CASE RenameDelete
  BY <1>2, <1>7, DeletedIs DEF RenameDelete
<1>8. CASE RenameMove
  <2>1. objs' = objs \/ \E o : objs' = [objs EXCEPT ![cb.h] = o]
    BY <1>8 DEF RenameMove
  <2>2. OnlyObject(cb.h)
    BY <1>0, <2>1 DEF OnlyObject, Inv, TypeOK
  <2>3. Under(cb.h, cb.path)
    BY <1>0, <1>8 DEF RenameMove, NamesInv, RenameTrue
  <2> QED
    BY <1>3, <2>2, <2>3
<1>9. CASE RenameName
  <2>1. CASE UNCHANGED objs
    BY <1>4, <2>1
  <2>2. CASE /\ entry[cb.h].name # cb.to.name
             /\ \E e \in RenameEnds(cb.h, cb.to.name, 0) : objs' = Renamed(cb.h, cb.to.name, 0, e)
    <3>1. Under(cb.h, [dir |-> cb.to.dir, name |-> cb.path.name])
      BY <1>0, <1>9 DEF NamesInv, RenameTrue, RenameName
    <3>2. Under(cb.h, cb.path)
      BY <1>0, <2>2, <3>1 DEF Under
    <3> QED
      BY <1>0, <1>3, <2>2, <3>2, RenamedIs
  <2> QED
    BY <1>9, <2>1, <2>2 DEF RenameName
<1> QED
  BY <1>5, <1>6, <1>7, <1>8, <1>9 DEF RenameStep

\* Every step of op_rename.
LEMMA RenameStepFlush ==
    ASSUME SteadyNames, Inv, WriterInv, HandleInv, NamesInv, SentInv, RenameStep
    PROVE  SentInv'
<1>1. /\ cb.pc \in RenamePCs /\ UNCHANGED <<pending, fds>>
      /\ cb' = NotRunning \/ (cb'.pc \in RenamePCs /\ reply' = reply)
  BY RenameEffect, RenameStepWriters
<1>2. Opens(cb.path) = {} /\ Opens(cb.to) = {}
  BY <1>1 DEF WriterInv, NobodyHolds
<1>3. cb'.pc \notin SendPCs
  BY <1>1 DEF NotRunning, SendPCs, RenamePCs, PCs
<1>4. ReplyTrue'
  <2>1. reply = NoReply
    BY <1>1 DEF HandleInv, QuietReply, Idle, RenamePCs, PCs
  <2>2. reply' = reply \/ reply'.op = "rename"
    BY DEF RenameStep, RenameAside, RenameMove, RenameName, RenamePutBack, RenameDelete,
       RenameDone, RenameAnswer
  <2> QED
    BY <2>1, <2>2 DEF ReplyTrue, NoReply
<1>5. ASSUME NEW p \in Paths
      PROVE  PathOK(p)'
  <2>1. PathOK(p) /\ pending'[p] = pending[p] /\ Opens(p)' = Opens(p) /\ Writes(p)' = Writes(p)
    BY <1>1 DEF SentInv, Opens, Writes
  <2>2. (pending[p] # None /\ pending[p].sent = "OK") => KeptAt(p)
    <3>1. Writes(p) # {} => Opens(p) # {}
      BY DEF Writes, Opens
    <3>2. (pending[p] # None /\ pending[p].sent = "OK") => Opens(p) # {}
      BY <2>1, <3>1 DEF PathOK, NotSent
    <3> QED
      BY <1>2, <3>2, RenameKeeps
  <2> QED
    BY <1>1, <1>3, <2>1, <2>2 DEF PathOK, Fits, KeptAt, Holds
<1> QED
  BY <1>4, <1>5 DEF SentInv

\* A mount starts with no open file and no Pending.
LEMMA RemountFlush == ASSUME Crash \/ Unmount PROVE SentInv'
<1>1. /\ pending' = [p \in Paths |-> None] /\ fds' = [f \in FDs |-> None] /\ reply' = NoReply
  BY DEF Crash, Unmount, Remount
<1> QED
  BY <1>1 DEF SentInv, PathOK, Fits, Opens, ReplyTrue, NoReply

\* Every step keeps `sent` true.
LEMMA NextFlush ==
    ASSUME LoneWriters, SteadyNames, Inv, WriterInv, HandleInv, NamesInv, TornInv, SentInv, [Next]_vars
    PROVE  SentInv'
<1>1. CASE UNCHANGED vars
  BY <1>1 DEF vars, SentInv, PathOK, Fits, Opens, Writes, ReplyTrue, Holds
<1>2. CASE Next
  <2>1. ASSUME NEW p \in Paths, OpGetattr(p) \/ OpUnlink(p)
        PROVE  SentInv'
    BY <2>1, LookFlush, UnlinkFlush
  <2>2. ASSUME NEW d \in Dirs, OpReaddir(d)
        PROVE  SentInv'
    BY <2>2, LookFlush
  <2>3. ASSUME NEW fd \in FDs, NEW p \in Paths, NEW w \in BOOLEAN, NEW trunc \in BOOLEAN,
               OpOpen(fd, p, w, trunc) \/ OpCreate(fd, p)
        PROVE  SentInv'
    BY <2>3, OpenFlush
  <2>4. ASSUME NEW fd \in FDs, OpWrite(fd) \/ OpFlush(fd) \/ OpRelease(fd)
        PROVE  SentInv'
    BY <2>4, WriteFlush, FlushFlush, ReleaseFlush
  <2>5. ASSUME NEW p \in Paths, NEW n \in 0..MaxLen, OpTruncateSpool(p, n) \/ OpTruncate(p, n)
        PROVE  SentInv'
    BY <2>5, TruncateSpoolFlush, TruncateFlush
  <2>6. ASSUME NEW from \in Paths, NEW to \in Paths, OpRename(from, to)
        PROVE  SentInv'
    BY <2>6, RenameFlush
  <2>7. SendStep \/ RenameStep \/ Crash \/ Unmount => SentInv'
    BY SendStepFlush, RenameStepFlush, RemountFlush
  <2> QED
    BY <1>2, <2>1, <2>2, <2>3, <2>4, <2>5, <2>6, <2>7 DEF Next
<1> QED
  BY <1>1, <1>2

\* The first mount starts with no open file and no Pending.
LEMMA InitFlush == Init => SentInv
BY DEF Init, SentInv, PathOK, Fits, Opens, ReplyTrue, NoReply

\* The invariants that the answers rest on, together.
LEMMA MountInv ==
    ASSUME LoneWriters, SteadyNames
    PROVE  Spec => [](Inv /\ WriterInv /\ HandleInv /\ NamesInv /\ TornInv /\ SentInv)
<1> DEFINE All == Inv /\ WriterInv /\ HandleInv /\ NamesInv /\ TornInv /\ SentInv
<1>1. Init => All
  BY InitInv, InitWriters, InitHandles, InitNames, InitTorn, InitFlush
<1>2. All /\ [Next]_vars => All'
  BY NextInv, NextWriters, NextHandles, NextNames, NextTorn, NextFlush
<1> HIDE DEF All
<1>3. Spec => []All
  BY <1>1, <1>2, PTL DEF Spec
<1>4. All => Inv /\ WriterInv /\ HandleInv /\ NamesInv /\ TornInv /\ SentInv
  BY DEF All
<1> QED
  BY <1>3, <1>4, PTL

\* A close that answers 0 tells the truth: the cellphone holds, under the
\* name of the file, the last contents that a write of that open file put
\* in, whatever operation fails or loses its answer before (op_flush and
\* `sent`); with lone writers, and renames that keep the tree true.
THEOREM FlushIsTrue == ASSUME LoneWriters, SteadyNames PROVE Spec => []FlushTellsTruth
<1>1. Inv /\ WriterInv /\ SentInv => FlushTellsTruth
  <2> SUFFICES ASSUME Inv, WriterInv, SentInv,
                      reply.op = "flush", reply.rc = "OK", fds[reply.fd].wrote # None
               PROVE  Holds(reply.path.dir, reply.path.name, fds[reply.fd].wrote)
    BY DEF FlushTellsTruth
  <2>1. /\ reply.fd \in FDs /\ fds[reply.fd] # None /\ fds[reply.fd].path = reply.path
        /\ fds[reply.fd].writer => pending[reply.path] # None /\ pending[reply.path].sent = "OK"
    BY DEF SentInv, ReplyTrue
  <2>2. reply.path \in Paths /\ reply.fd \in Opens(reply.path)
    BY <2>1 DEF Inv, TypeOK, OpenFiles, Opens
  <2>3. PathOK(reply.path)
    BY <2>2 DEF SentInv
  <2>4. /\ fds[reply.fd].writer
        /\ pending[reply.path].broken \/ pending[reply.path].data = fds[reply.fd].wrote
    BY <2>2, <2>3 DEF PathOK, Fits
  <2> QED
    BY <2>1, <2>3, <2>4 DEF PathOK
<1> QED
  BY <1>1, MountInv, PTL

-----------------------------------------------------------------------------
(* What the tree says of the objects is exact, as far as answers are not   *)
(* lost.                                                                   *)

\* send_pending has changed the folder, and forgets it at its end.
Going(d) == cb.pc \in {"announce", "data", "delold", "putback"} /\ cb.path.dir = d
Loose(d) == Unsettled(d) \/ Going(d)
\* A listed object is in the folder and, as no delete and no rename loses
\* its answer, is there and has the name of its entry.
ExactIn(l, e, d) == l[d] # None => \A h \in l[d] :
    /\ e[h].dir = d
    /\ "delete" \notin Faults => objs[h] # None
    /\ ("rename" \notin Faults /\ objs[h] # None) => objs[h].aside = e[h].aside
TreeExact == \A d \in Dirs : Loose(d) \/ ExactIn(listing, entry, d)
\* The object that op_rename moves has its name itself, and is there once
\* an operation on it succeeded.
MovedExact == cb.pc \in RenamePCs =>
    /\ ("rename" \notin Faults /\ objs[cb.h] # None /\ cb.pc # "ren_back") => objs[cb.h].aside = 0
    /\ (cb.pc = "ren_del" \/ (cb.pc = "ren_name" /\ cb.path.dir # cb.to.dir)) => objs[cb.h] # None
\* No rename that a program asks for can lose its answer.
ToldNames == \A from, to \in Paths :
    (<<from, to>> \in Renames /\ from # to) => "rename" \notin Faults
RenameReply == (ToldNames /\ reply.op = "rename" /\ reply.rc = "OK") => At(reply.h, reply.path)
ExactInv == TreeExact /\ MovedExact /\ RenameReply

\* A listing is exact, and every other listing goes on to be.
LEMMA ListExact ==
    ASSUME TypeOK, NEW l \in Listings, NEW e \in EntryMaps, NEW d \in Dirs,
           \A c \in Dirs : TrueIn(l, e, c) /\ ExactIn(l, e, c), NEW c \in Dirs
    PROVE  ExactIn([l EXCEPT ![d] = Listed(d)], Seen(e, d), c)
<1>1. ASSUME NEW h \in Listed(d)
      PROVE  /\ Seen(e, d)[h].dir = d /\ Seen(e, d)[h].aside = objs[h].aside
             /\ h \in Handles /\ objs[h] # None
  BY <1>1 DEF Listed, Seen
<1>2. ASSUME NEW h \in Handles, h \notin Listed(d)
      PROVE  Seen(e, d)[h] = e[h]
  BY <1>2 DEF Seen
<1>3. CASE c = d
  BY <1>1, <1>3 DEF ExactIn, Listings
<1>4. CASE c # d
  <2>1. [l EXCEPT ![d] = Listed(d)][c] = l[c] /\ (l[c] # None => l[c] \subseteq Handles)
    BY <1>4 DEF Listings
  <2>2. ASSUME l[c] # None, NEW h \in l[c]
        PROVE  h \notin Listed(d)
    BY <1>4, <2>2 DEF TrueIn, Under, Listed
  <2> QED
    BY <1>2, <2>1, <2>2 DEF ExactIn
<1> QED
  BY <1>3, <1>4

\* resolve leaves an exact tree, and gives an object that has the name.
LEMMA ResolveExact ==
    ASSUME TypeOK, Known(objs), NEW l \in Listings, NEW e \in EntryMaps,
           \A d \in Dirs : TrueIn(l, e, d) /\ ExactIn(l, e, d), NEW p \in Paths, NEW r \in Resolve(l, e, p)
    PROVE  /\ \A d \in Dirs : ExactIn(r.listing, r.entry, d)
           /\ r.h # NoHandle =>
                /\ "delete" \notin Faults => objs[r.h] # None
                /\ ("rename" \notin Faults /\ objs[r.h] # None) => objs[r.h].aside = 0
<1>0. p.dir \in Dirs
  BY DEF Paths
<1>1. \A d \in Dirs : ExactIn(r.listing, r.entry, d)
  <2> DEFINE l2 == [l EXCEPT ![p.dir] = Listed(p.dir)]
             e2 == Seen(e, p.dir)
  <2>1. \A d \in Dirs : ExactIn(l2, e2, d)
    BY <1>0, ListExact
  <2>2. (r.listing = l /\ r.entry = e) \/ (r.listing = l2 /\ r.entry = e2)
    <3>1. CASE l[p.dir] # None
      BY <3>1 DEF Resolve
    <3>2. CASE l[p.dir] = None
      <4>1. \/ \E x : r = [h |-> x, listing |-> l2, entry |-> e2]
            \/ r = [h |-> NoHandle, listing |-> l, entry |-> e]
        <5> HIDE DEF l2, e2
        <5> QED
          BY <3>2 DEF Resolve, l2, e2
      <4> HIDE DEF l2, e2
      <4> QED
        BY <4>1
    <3> QED
      BY <3>1, <3>2
  <2> HIDE DEF l2, e2
  <2> QED
    BY <2>1, <2>2
<1>2. r.h # NoHandle => /\ r.listing[p.dir] # None /\ r.h \in r.listing[p.dir] /\ r.entry[r.h].aside = 0
  BY ResolveTrue
<1> QED
  BY <1>0, <1>1, <1>2 DEF ExactIn

\* The step changes the objects of the folder only where an answer can be lost.
SameIn(d) == \A h \in Handles : h < nextH =>
    \/ objs'[h] = objs[h]
    \/ /\ objs[h] # None
       /\ \/ objs[h].dir # d
          \/ "delete" \in Faults /\ objs'[h] = None
          \/ "rename" \in Faults /\ objs'[h] # None

\* A listing stays exact while the objects of its folder stay.
LEMMA ExactKept ==
    ASSUME NEW d \in Dirs, NEW l \in Listings, NEW e, TrueIn(l, e, d), ExactIn(l, e, d), SameIn(d),
           listing'[d] \in {l[d], None}, entry' = e
    PROVE  ExactIn(listing, entry, d)'
<1>1. CASE listing'[d] = None
  BY <1>1 DEF ExactIn
<1>2. CASE listing'[d] = l[d] /\ l[d] # None
  <2>1. ASSUME NEW h \in l[d]
        PROVE  /\ h \in Handles /\ h < nextH /\ (objs[h] # None => objs[h].dir = d) /\ e[h].dir = d
               /\ "delete" \notin Faults => objs[h] # None
               /\ ("rename" \notin Faults /\ objs[h] # None) => objs[h].aside = e[h].aside
    BY <1>2, <2>1 DEF TrueIn, ExactIn, Listings, Under
  <2>2. ASSUME NEW h \in l[d]
        PROVE  /\ "delete" \notin Faults => objs'[h] # None
               /\ ("rename" \notin Faults /\ objs'[h] # None) => objs'[h].aside = e[h].aside
    BY <2>1, <2>2 DEF SameIn
  <2> QED
    BY <1>2, <2>1, <2>2 DEF ExactIn
<1> QED
  BY <1>1, <1>2

\* An object of another folder is the only one that changes.
LEMMA OtherSame ==
    ASSUME NEW h, OnlyObject(h), NEW d, NEW c, c # d,
           h \in Handles => (objs[h] # None /\ objs[h].dir = c) \/ objs'[h] = objs[h] \/ ~(h < nextH)
    PROVE  SameIn(d)
BY DEF OnlyObject, SameIn

\* The other callbacks do not answer for a rename.
LEMMA OtherAnswer ==
    /\ \A op, p, fd, rc : (op # "rename" /\ Answer(op, p, fd, rc)) => reply'.op # "rename"
    /\ \A op, p, fd, q, size : (op # "rename" /\ SendStart(op, fd, p, q, size)) => reply'.op # "rename"
    /\ \A op, p, fd, q, rc : (op # "rename" /\ Finish(op, fd, p, q, rc)) => reply'.op # "rename"
<1>1. \A op, p, fd, rc : (op # "rename" /\ Answer(op, p, fd, rc)) => reply'.op # "rename"
  BY DEF Answer, NoReply
<1>2. \A op, p, fd, q, rc : (op # "rename" /\ Finish(op, fd, p, q, rc)) => reply'.op # "rename"
  BY <1>1 DEF Finish
<1>3. \A op, p, fd, to, pc, h, old : Running(op, fd, p, to, pc, h, old) => reply'.op # "rename"
  BY DEF Running, NoReply
<1> QED
  BY <1>1, <1>2, <1>3 DEF SendStart

\* getattr, unlink, open, create and truncate.
LEMMA FindExact ==
    ASSUME Inv, HandleInv, NamesInv, ExactInv, NEW p \in Paths,
           \/ OpGetattr(p)
           \/ OpUnlink(p)
           \/ \E fd \in FDs, w, trunc \in BOOLEAN : OpOpen(fd, p, w, trunc)
           \/ \E fd \in FDs : OpCreate(fd, p)
           \/ \E n \in 0..MaxLen : OpTruncate(p, n)
    PROVE  ExactInv'
<1>1. (\E r : Found(p, r)) /\ Starts /\ Idle /\ nextH' = nextH
  BY FindEffect
<1>2. /\ listing \in Listings /\ entry \in EntryMaps /\ TypeOK /\ Known(objs) /\ p.dir \in Dirs
      /\ \A d \in Dirs : TrueIn(listing, entry, d) /\ ExactIn(listing, entry, d)
  BY <1>1, Parts DEF Inv, TreeOK, HandleInv, FreshInv, Paths, NamesInv, TreeTrue, Unsettled, Idle,
     ExactInv, TreeExact, Loose, Going
<1>3. ASSUME NEW r \in Resolve(listing, entry, p)
      PROVE  /\ r.listing \in Listings /\ r.entry \in EntryMaps
             /\ \A d \in Dirs : TrueIn(r.listing, r.entry, d) /\ ExactIn(r.listing, r.entry, d)
             /\ r.h # NoHandle => r.h \in Handles /\ Under(r.h, p)
  BY <1>2, ResolveType, ResolveTrue, ResolveExact
<1>4. ASSUME NEW d \in Dirs
      PROVE  ExactIn(listing, entry, d)'
  <2>1. CASE OpUnlink(p)
    <3>1. PICK r \in Resolve(listing, entry, p) : OpUnlink(p)!2!(r)
      BY <2>1 DEF OpUnlink
    <3>2. CASE objs' = objs
      <4>1. listing'[d] \in {r.listing[d], None} /\ SameIn(d)
        BY <1>2, <1>3, <3>1, <3>2 DEF SameIn, Forget, Listings
      <4> QED
        BY <1>3, <3>1, <4>1, ExactKept
    <3>3. CASE objs' # objs
      <4>1. PICK e \in DeleteEnds(r.h) :
              /\ objs' = Deleted(r.h, e)
              /\ listing' = IF e.told THEN Forget(r.listing, p.dir) ELSE r.listing
        BY <3>1, <3>3
      <4>2. /\ OnlyObject(r.h) /\ r.h \in Handles /\ objs[r.h] # None /\ objs'[r.h] = None
            /\ "delete" \notin Faults => e.told
        BY <3>3, <4>1, DeletedIs
      <4>3. objs[r.h].dir = p.dir
        BY <1>3, <4>2 DEF Under, NoHandle, Handles
      <4>4. CASE d = p.dir /\ e.told
        <5>1. listing'[d] = None
          BY <1>2, <1>3, <4>1, <4>4 DEF Forget, Listings
        <5> QED
          BY <5>1 DEF ExactIn
      <4>5. CASE d # p.dir \/ ~e.told
        <5>1. listing'[d] \in {r.listing[d], None} /\ SameIn(d)
          BY <1>2, <1>3, <4>1, <4>2, <4>3, <4>5 DEF SameIn, OnlyObject, Forget, Listings
        <5> QED
          BY <1>3, <3>1, <5>1, ExactKept
      <4> QED
        BY <4>4, <4>5
    <3> QED
      BY <3>2, <3>3
  <2>2. CASE ~OpUnlink(p)
    <3>1. PICK r : Found(p, r)
      BY <1>1
    <3>2. SameIn(d)
      <4>1. objs' = objs
        <5>1. OpGetattr(p) => objs' = objs
          BY DEF OpGetattr, device
        <5>2. (\E fd \in FDs, w, trunc \in BOOLEAN : OpOpen(fd, p, w, trunc)) => objs' = objs
          BY DEF OpOpen, device
        <5>3. (\E fd \in FDs : OpCreate(fd, p)) \/ (\E n \in 0..MaxLen : OpTruncate(p, n)) => objs' = objs
          BY DEF OpCreate, OpTruncate, device
        <5> QED
          BY <2>2, <5>1, <5>2, <5>3
      <4> QED
        BY <4>1 DEF SameIn
    <3>3. r \in Resolve(listing, entry, p) /\ entry' = r.entry
      BY <3>1 DEF Found
    <3>4. listing'[d] \in {r.listing[d], None}
      BY <1>2, <1>3, <3>1, <3>3 DEF Found, Forget, Listings
    <3> QED
      BY <1>3, <3>2, <3>3, <3>4, ExactKept
  <2> QED
    BY <2>1, <2>2
<1>5. MovedExact'
  BY <1>1 DEF MovedExact, Starts, StartPCs, RenamePCs, PCs, SendPCs
<1>6. RenameReply'
  <2>1. CASE OpGetattr(p)
    BY <2>1 DEF OpGetattr, device, RenameReply, ExactInv, At
  <2>2. CASE ~OpGetattr(p)
    <3>1. reply'.op # "rename"
      <4>1. OpUnlink(p) => reply'.op # "rename"
        BY OtherAnswer DEF OpUnlink
      <4>2. (\E fd \in FDs, w, trunc \in BOOLEAN : OpOpen(fd, p, w, trunc)) => reply'.op # "rename"
        <5>1. (\E fd \in FDs, w, trunc \in BOOLEAN : OpOpen(fd, p, w, trunc))
                => \E fd, rc : Answer("open", p, fd, rc)
          BY DEF OpOpen
        <5> QED
          BY <5>1, OtherAnswer
      <4>3. (\E fd \in FDs : OpCreate(fd, p)) => reply'.op # "rename"
        BY OtherAnswer DEF OpCreate
      <4>4. (\E n \in 0..MaxLen : OpTruncate(p, n)) => reply'.op # "rename"
        BY OtherAnswer DEF OpTruncate
      <4> QED
        BY <2>2, <4>1, <4>2, <4>3, <4>4
    <3> QED
      BY <3>1 DEF RenameReply
  <2> QED
    BY <2>1, <2>2
<1> QED
  BY <1>4, <1>5, <1>6 DEF ExactInv, TreeExact

\* write, flush, release, and truncate of an open file.
LEMMA SpoolExact ==
    ASSUME Inv, NamesInv, ExactInv,
           \/ \E fd \in FDs : OpWrite(fd) \/ OpFlush(fd) \/ OpRelease(fd)
           \/ \E p \in Paths, n \in 0..MaxLen : OpTruncateSpool(p, n)
    PROVE  ExactInv'
<1>1. Starts /\ Idle /\ UNCHANGED <<objs, listing, entry>>
  BY SpoolEffect DEF device, tree
<1>2. TreeExact'
  <2>1. \A d \in Dirs : ExactIn(listing, entry, d)
    BY <1>1 DEF ExactInv, TreeExact, Loose, Going, Unsettled, Idle
  <2> QED
    BY <1>1, <2>1 DEF TreeExact, ExactIn
<1>3. MovedExact'
  BY <1>1 DEF MovedExact, Starts, StartPCs, RenamePCs, PCs, SendPCs
<1>4. RenameReply'
  <2>1. reply'.op # "rename"
    BY OtherAnswer DEF OpWrite, OpFlush, OpRelease, OpTruncateSpool
  <2> QED
    BY <2>1 DEF RenameReply
<1> QED
  BY <1>2, <1>3, <1>4 DEF ExactInv

\* readdir lists a folder.
LEMMA ReaddirExact ==
    ASSUME Inv, NamesInv, ExactInv, NEW d \in Dirs, OpReaddir(d)
    PROVE  ExactInv'
<1>1. /\ UNCHANGED <<objs, cb, reply>> /\ Idle
      /\ listing' = [listing EXCEPT ![d] = Listed(d)] /\ entry' = Seen(entry, d)
  BY DEF OpReaddir, device
<1>2. \A c \in Dirs : TrueIn(listing, entry, c) /\ ExactIn(listing, entry, c)
  BY <1>1 DEF NamesInv, TreeTrue, Unsettled, Idle, ExactInv, TreeExact, Loose, Going
<1>3. ASSUME NEW c \in Dirs
      PROVE  ExactIn(listing', entry', c)
  <2>1. listing \in Listings /\ entry \in EntryMaps /\ TypeOK
    BY Parts DEF Inv, TreeOK
  <2> QED
    BY <1>1, <1>2, <2>1, ListExact
<1>4. TreeExact'
  BY <1>1, <1>3 DEF TreeExact, ExactIn
<1> QED
  BY <1>1, <1>4 DEF ExactInv, MovedExact, RenameReply, At, Idle, RenamePCs, PCs

\* The checks of op_rename: no object is at both paths.
LEMMA RenameExact ==
    ASSUME Inv, HandleInv, NamesInv, ExactInv, NEW from \in Paths, NEW to \in Paths, OpRename(from, to)
    PROVE  ExactInv'
<1>1. UNCHANGED objs /\ Idle /\ from # to
  BY DEF OpRename, device
<1>2. /\ listing \in Listings /\ entry \in EntryMaps /\ TypeOK /\ Known(objs)
      /\ from.dir \in Dirs /\ to.dir \in Dirs
      /\ \A d \in Dirs : TrueIn(listing, entry, d) /\ ExactIn(listing, entry, d)
  BY <1>1, Parts DEF Inv, TreeOK, HandleInv, FreshInv, Paths, NamesInv, TreeTrue, Unsettled, Idle,
     ExactInv, TreeExact, Loose, Going
<1>3. PICK r \in Resolve(listing, entry, from) : OpRename(from, to)!3!(r)
  BY DEF OpRename
<1>4. /\ r.listing \in Listings /\ r.entry \in EntryMaps
      /\ \A d \in Dirs : TrueIn(r.listing, r.entry, d) /\ ExactIn(r.listing, r.entry, d)
      /\ r.h # NoHandle =>
           /\ r.h \in Handles /\ Under(r.h, from) /\ r.entry[r.h].name = from.name
           /\ r.listing[from.dir] # None /\ r.h \in r.listing[from.dir]
           /\ ("rename" \notin Faults /\ objs[r.h] # None) => objs[r.h].aside = 0
  BY <1>2, ResolveType, ResolveTrue, ResolveExact
<1>5. ASSUME NEW rc, NEW h, RenameAnswer(to, h, rc)
      PROVE  cb'.pc = "idle" /\ reply'.rc = rc
  BY <1>5 DEF RenameAnswer, NotRunning
<1>6. CASE r.h = NoHandle
  <2>1. cb'.pc = "idle" /\ reply'.rc = "ENOENT" /\ listing' = r.listing /\ entry' = r.entry
    BY <1>3, <1>5, <1>6
  <2>2. TreeExact'
    BY <1>1, <1>4, <2>1 DEF TreeExact, ExactIn
  <2> QED
    BY <2>1, <2>2 DEF ExactInv, MovedExact, RenameReply, RenamePCs, PCs
<1>7. CASE r.h # NoHandle
  <2>1. PICK t \in Resolve(r.listing, r.entry, to) :
          /\ listing' = t.listing /\ entry' = t.entry
          /\ IF t.h = r.h
             THEN RenameAnswer(to, r.h, "OK")
             ELSE Running("rename", None, from, to,
                          IF t.h # NoHandle THEN "ren_aside" ELSE RenameRest(from, to), r.h, t.h)
    BY <1>3, <1>7
  <2>2. /\ \A d \in Dirs : ExactIn(t.listing, t.entry, d)
        /\ t.h # NoHandle => /\ t.listing[to.dir] # None /\ t.h \in t.listing[to.dir]
                             /\ t.entry[t.h].name = to.name
    BY <1>2, <1>4, ResolveTrue, ResolveExact
  <2>3. t.h # r.h
    <3> SUFFICES ASSUME t.h = r.h PROVE FALSE
      OBVIOUS
    <3>1. \/ t.entry = r.entry /\ t.listing = r.listing
          \/ /\ t.entry = Seen(r.entry, to.dir) /\ r.listing[to.dir] = None
             /\ t.listing = [r.listing EXCEPT ![to.dir] = Listed(to.dir)]
      <4> DEFINE l2 == [r.listing EXCEPT ![to.dir] = Listed(to.dir)]
                 e2 == Seen(r.entry, to.dir)
      <4>1. CASE r.listing[to.dir] # None
        BY <4>1 DEF Resolve
      <4>2. CASE r.listing[to.dir] = None
        <5>1. \/ \E x : t = [h |-> x, listing |-> l2, entry |-> e2]
              \/ t = [h |-> NoHandle, listing |-> r.listing, entry |-> r.entry]
          <6> HIDE DEF l2, e2
          <6> QED
            BY <4>2 DEF Resolve, l2, e2
        <5>2. \/ t.listing = l2 /\ t.entry = e2
              \/ t.listing = r.listing /\ t.entry = r.entry
          <6> HIDE DEF l2, e2
          <6> QED
            BY <5>1
        <5> QED
          BY <4>2, <5>2
      <4> QED
        BY <4>1, <4>2
    <3>2. t.entry[r.h].name = from.name
      BY <1>4, <1>7, <3>1 DEF Seen, Listed, Under
    <3>3. t.listing[from.dir] = r.listing[from.dir]
      BY <1>2, <1>4, <1>7, <3>1 DEF Listings
    <3>4. t.entry[r.h].dir = from.dir
      BY <1>2, <1>4, <1>7, <2>2, <3>3 DEF ExactIn
    <3>5. t.entry[r.h].dir = to.dir /\ t.entry[r.h].name = to.name
      BY <1>2, <1>7, <2>2 DEF ExactIn
    <3>6. from.dir = to.dir /\ from.name = to.name
      BY <3>2, <3>4, <3>5
    <3>7. from = [dir |-> from.dir, name |-> from.name] /\ to = [dir |-> to.dir, name |-> to.name]
      BY DEF Paths
    <3> QED
      BY <1>1, <3>6, <3>7
  <2>4. /\ cb'.pc = IF t.h # NoHandle THEN "ren_aside" ELSE RenameRest(from, to)
        /\ cb'.path = from /\ cb'.to = to /\ cb'.h = r.h /\ reply' = NoReply
    BY <2>1, <2>3 DEF Running
  <2>5. TreeExact'
    BY <1>1, <2>1, <2>2 DEF TreeExact, ExactIn
  <2>6. cb'.pc # "ren_del" /\ (cb'.pc = "ren_name" => from.dir = to.dir)
    BY <2>4 DEF RenameRest
  <2>7. MovedExact'
    BY <1>1, <1>4, <1>7, <2>4, <2>6 DEF MovedExact
  <2> QED
    BY <2>4, <2>5, <2>7 DEF ExactInv, RenameReply, NoReply
<1> QED
  BY <1>6, <1>7

\* Every step of send_pending after the first forgets the folder at its end.
LEMMA SendForgets ==
    ASSUME Inv, SendStep, Going(cb.path.dir)
    PROVE  \/ cb'.pc \in {"announce", "data", "delold", "putback"} /\ cb'.path = cb.path
           \/ listing' = Forget(listing, cb.path.dir)
<1>0. cb \in Callbacks
  BY SendEffect, SendContext
<1>1. \A pc : Goto(pc) => cb'.pc = pc /\ cb'.path = cb.path
  BY <1>0 DEF Goto, Callbacks
<1>2. ASSUME AfterFailure
      PROVE  Goto("putback") \/ listing' = Forget(listing, cb.path.dir)
  BY <1>2 DEF AfterFailure, SendFailed
<1>3. CASE SendAnnounce
  <2>1. \A h : cb' = [cb EXCEPT !.pc = "data", !.h = h] => cb'.pc = "data" /\ cb'.path = cb.path
    BY <1>0 DEF Callbacks
  <2> QED
    BY <1>1, <1>2, <1>3, <2>1 DEF SendAnnounce
<1>4. CASE SendData
  BY <1>1, <1>2, <1>4 DEF SendData
<1>5. CASE SendDeleteOld \/ SendPutBack
  BY <1>5 DEF SendDeleteOld, SendPutBack
<1>6. ~SendAside /\ ~SendDeleteFirst
  BY DEF Going, SendAside, SendDeleteFirst
<1> QED
  BY <1>3, <1>4, <1>5, <1>6 DEF SendStep

\* Every step of send_pending.
LEMMA SendStepExact == ASSUME Inv, HandleInv, NamesInv, ExactInv, SendStep PROVE ExactInv'
<1>1. /\ cb.pc \in SendPCs /\ entry' = entry
      /\ listing' = listing \/ listing' = Forget(listing, cb.path.dir)
      /\ cb' = NotRunning \/ (cb'.pc \in SendPCs /\ cb'.path = cb.path /\ reply' = reply)
  BY SendEffect
<1>2. /\ cb \in Callbacks /\ cb.path \in Paths /\ cb.path.dir \in Dirs /\ Q \in Pendings /\ Q # None
      /\ listing \in Listings /\ cb.op # "rename" /\ cb.path.name \in Names
  BY <1>1, SendContext, Parts DEF Paths, Inv, TreeOK
<1>3. \A d \in Dirs : TrueIn(listing, entry, d)
  BY <1>1 DEF NamesInv, TreeTrue, Unsettled, SendPCs
<1>4. ASSUME NEW d \in Dirs, d # cb.path.dir
      PROVE  ExactIn(listing, entry, d)'
  <2>1. ExactIn(listing, entry, d)
    BY <1>1, <1>4 DEF ExactInv, TreeExact, Loose, Going, Unsettled, SendPCs
  <2>2. SameIn(d)
    <3>1. OnlyObject(Target) /\ (nextH' = nextH => NoneNew)
      BY SendTouches, BoundsAssumption DEF Inv, TypeOK
    <3>2. CASE cb.pc = "announce"
      <4>1. Target = nextH /\ ~(nextH < nextH)
        BY <3>2, BoundsAssumption DEF Target, Inv, TypeOK
      <4> QED
        BY <3>1, <4>1 DEF OnlyObject, SameIn
    <3>3. CASE cb.pc = "data"
      BY <1>4, <3>1, <3>3, OtherSame DEF Target, HandleInv, NewObject, At
    <3>4. CASE cb.pc \notin {"announce", "data"}
      <4>1. Target = Q.replaces
        BY <3>4 DEF Target
      <4>2. NoneNew
        BY <3>4, SendTouches
      <4>3. Target \in Handles => Under(Target, cb.path)
        BY <1>2, <4>1 DEF NamesInv, ReplacesTrue, Q, NoHandle, Handles
      <4>4. Target \in Handles => (objs[Target] # None /\ objs[Target].dir = cb.path.dir)
                                  \/ objs'[Target] = objs[Target]
        BY <4>2, <4>3 DEF Under, NoneNew
      <4> QED
        BY <1>4, <3>1, <4>4, OtherSame
    <3> QED
      BY <3>2, <3>3, <3>4
  <2>3. listing'[d] \in {listing[d], None}
    BY <1>1, <1>2, <1>4 DEF Forget, Listings
  <2> QED
    BY <1>1, <1>2, <1>3, <2>1, <2>2, <2>3, ExactKept
<1>5. ASSUME NEW d \in Dirs, d = cb.path.dir
      PROVE  Loose(d)' \/ ExactIn(listing, entry, d)'
  <2>1. CASE listing' = Forget(listing, d)
    BY <1>2, <1>5, <2>1 DEF ExactIn, Forget, Listings
  <2>2. CASE Going(d)
    <3>1. \/ cb'.pc \in {"announce", "data", "delold", "putback"} /\ cb'.path = cb.path
          \/ listing' = Forget(listing, d)
      BY <1>5, <2>2, SendForgets
    <3> QED
      BY <1>5, <2>1, <3>1 DEF Loose, Going
  <2>3. CASE ~Going(d)
    <3>1. cb.pc \in {"aside", "delfirst"} /\ ExactIn(listing, entry, d)
      BY <1>1, <1>5, <2>3 DEF Going, SendPCs, ExactInv, TreeExact, Loose, Unsettled
    <3>2. Q.replaces \in Handles => Under(Q.replaces, cb.path)
      BY <1>2 DEF NamesInv, ReplacesTrue, Q, NoHandle, Handles
    <3>3. CASE SendAside
      <4>1. PICK e \in RenameEnds(Q.replaces, cb.path.name, count + 1) :
              /\ objs' = Renamed(Q.replaces, cb.path.name, count + 1, e)
              /\ e.told => Goto("announce")
              /\ UNCHANGED tree
        BY <3>3 DEF SendAside
      <4>2. e.told => Going(d)'
        BY <1>2, <1>5, <4>1 DEF Going, Goto, Callbacks
      <4>3. count + 1 \in 0..MaxCount
        BY <3>3, BoundsAssumption DEF SendAside, Inv, TypeOK
      <4>4. /\ OnlyObject(Q.replaces) /\ (~e.done => objs' = objs)
            /\ e.done => Q.replaces \in Handles /\ objs[Q.replaces] # None /\ objs'[Q.replaces] # None
            /\ "rename" \notin Faults => (e.done => e.told)
        BY <1>2, <4>1, <4>3, RenamedIs
      <4>5. ~e.told => SameIn(d)
        BY <4>4 DEF SameIn, OnlyObject
      <4> QED
        BY <1>2, <1>3, <3>1, <4>1, <4>2, <4>5, ExactKept DEF Loose, tree
    <3>4. CASE SendDeleteFirst
      <4>1. PICK e \in DeleteEnds(Q.replaces) :
              /\ objs' = Deleted(Q.replaces, e)
              /\ e.told => cb' = [cb EXCEPT !.pc = "announce", !.gone = TRUE]
              /\ UNCHANGED tree
        BY <3>4 DEF SendDeleteFirst
      <4>2. e.told => Going(d)'
        BY <1>2, <1>5, <4>1 DEF Going, Callbacks
      <4>3. /\ OnlyObject(Q.replaces) /\ (~e.done => objs' = objs)
            /\ e.done => Q.replaces \in Handles /\ objs[Q.replaces] # None /\ objs'[Q.replaces] = None
            /\ "delete" \notin Faults => (e.done => e.told)
        BY <4>1, DeletedIs
      <4>4. ~e.told => SameIn(d)
        BY <4>3 DEF SameIn, OnlyObject
      <4> QED
        BY <1>2, <1>3, <3>1, <4>1, <4>2, <4>4, ExactKept DEF Loose, tree
    <3> QED
      BY <3>1, <3>3, <3>4 DEF SendStep, SendAnnounce, SendData, SendDeleteOld, SendPutBack
  <2> QED
    BY <2>2, <2>3
<1>6. TreeExact'
  BY <1>4, <1>5 DEF TreeExact
<1>7. MovedExact'
  BY <1>1 DEF MovedExact, NotRunning, RenamePCs, PCs, SendPCs
<1>8. RenameReply'
  <2>1. reply = NoReply
    BY <1>1 DEF HandleInv, QuietReply, Idle, SendPCs
  <2>2. reply' = reply \/ reply'.op # "rename"
    BY <1>2, OtherAnswer DEF SendStep, SendAside, SendDeleteFirst, SendAnnounce, SendData, SendDeleteOld,
       SendPutBack, AfterFailure, SendFailed
  <2> QED
    BY <2>1, <2>2 DEF RenameReply, NoReply
<1> QED
  BY <1>6, <1>7, <1>8 DEF ExactInv

\* What a step of op_rename finds.
LEMMA RenameFinds ==
    ASSUME SteadyNames, Inv, WriterInv, RenameTrue, RenameStep
    PROVE  /\ cb.pc \in RenamePCs /\ cb \in Callbacks /\ cb.h \in Handles
           /\ cb.old \in Handles \cup {NoHandle} /\ NoHandle \notin Handles
           /\ cb.to.name \in Names /\ cb.path.dir \in Dirs /\ cb.to.dir \in Dirs
           /\ cb.path.dir = cb.to.dir \/ cb.path.name = cb.to.name
           /\ ~(cb.path.dir = cb.to.dir /\ cb.path.name = cb.to.name)
           /\ "move" \notin Faults /\ entry[cb.h].name = cb.path.name
           /\ cb.old # NoHandle => cb.old # cb.h /\ Under(cb.old, cb.to)
           /\ 0 \in 0..MaxCount /\ (count < MaxCount => count + 1 \in 0..MaxCount)
           /\ listing \in Listings
<1>1. /\ cb.pc \in RenamePCs /\ cb \in Callbacks /\ cb.h \in Handles
      /\ cb.old \in Handles \cup {NoHandle} /\ cb.path \in Paths /\ cb.to \in Paths
      /\ cb.path.dir = cb.to.dir \/ cb.path.name = cb.to.name
      /\ "move" \notin Faults
  BY RenameEffect, RenameSteady
<1>2. cb.path # cb.to /\ entry[cb.h].name = cb.path.name
      /\ (cb.old # NoHandle => cb.old # cb.h /\ Under(cb.old, cb.to))
  BY <1>1 DEF RenameTrue
<1>3. /\ cb.path = [dir |-> cb.path.dir, name |-> cb.path.name]
      /\ cb.to = [dir |-> cb.to.dir, name |-> cb.to.name]
      /\ cb.to.name \in Names /\ cb.path.dir \in Dirs /\ cb.to.dir \in Dirs
  BY <1>1 DEF Paths
<1>4. ~(cb.path.dir = cb.to.dir /\ cb.path.name = cb.to.name)
  BY <1>2, <1>3
<1>5. /\ 0 \in 0..MaxCount /\ (count < MaxCount => count + 1 \in 0..MaxCount)
      /\ NoHandle \notin Handles /\ listing \in Listings
  BY Parts, BoundsAssumption DEF Inv, TypeOK, TreeOK, NoHandle, Handles
<1> QED
  BY <1>1, <1>2, <1>3, <1>4, <1>5

\* The object that a step of op_rename renames, removes or puts back is the
\* old one, or the one that is to get the path.
LEMMA RenamedTarget ==
    ASSUME Inv, cb.to.name \in Names, NEW h, NEW a \in 0..MaxCount,
           NEW e \in RenameEnds(h, cb.to.name, a), objs' = Renamed(h, cb.to.name, a, e)
    PROVE  /\ OnlyObject(h)
           /\ ~e.done => objs' = objs
           /\ e.done => /\ h \in Handles /\ objs[h] # None /\ objs'[h] # None
                        /\ objs'[h].dir = objs[h].dir /\ objs'[h].name = cb.to.name
                        /\ objs'[h].aside = a
           /\ e.told => e.done
           /\ "rename" \notin Faults => (e.done => e.told)
<1> DEFINE n == cb.to.name
<1>1. n \in Names /\ e \in RenameEnds(h, n, a) /\ objs' = Renamed(h, n, a, e)
  OBVIOUS
<1> HIDE DEF n
<1>2. /\ OnlyObject(h)
      /\ ~e.done => objs' = objs
      /\ e.done => /\ h \in Handles /\ objs[h] # None /\ objs'[h] # None
                   /\ objs'[h].dir = objs[h].dir /\ objs'[h].name = n
                   /\ objs'[h].aside = a
      /\ e.told => e.done
      /\ "rename" \notin Faults => (e.done => e.told)
  BY <1>1, RenamedIs
<1> QED
  BY <1>2 DEF n

\* A step of op_rename changes no object of a folder whose listing it keeps.
LEMMA RenameSame ==
    ASSUME SteadyNames, Inv, WriterInv, RenameTrue, RenameStep, NEW d \in Dirs,
           listing'[d] # None, ~Unsettled(d)'
    PROVE  SameIn(d)
<1>0. /\ cb.pc \in RenamePCs /\ cb \in Callbacks /\ cb.h \in Handles
      /\ cb.old \in Handles \cup {NoHandle} /\ NoHandle \notin Handles
      /\ cb.to.name \in Names /\ cb.path.dir \in Dirs /\ cb.to.dir \in Dirs
      /\ cb.path.dir = cb.to.dir \/ cb.path.name = cb.to.name
      /\ "move" \notin Faults /\ entry[cb.h].name = cb.path.name
      /\ cb.old # NoHandle => cb.old # cb.h /\ Under(cb.old, cb.to)
      /\ 0 \in 0..MaxCount /\ (count < MaxCount => count + 1 \in 0..MaxCount)
      /\ listing \in Listings
  BY RenameFinds
<1>1. ASSUME NEW pc, Goto(pc)
      PROVE  cb'.pc = pc /\ cb'.path = cb.path /\ cb'.to = cb.to
  BY <1>0, <1>1 DEF Goto, Callbacks
<1>2. objs' = objs => SameIn(d)
  BY DEF SameIn
<1>3. ASSUME NEW h \in Handles, OnlyObject(h), d # cb.to.dir,
             objs[h] # None => objs[h].dir = cb.to.dir, objs[h] = None => objs'[h] = None
      PROVE  SameIn(d)
  BY <1>3, OtherSame
<1>4. CASE RenameAside
  <2>1. PICK e \in RenameEnds(cb.old, cb.to.name, count + 1) : RenameAside!3!(e)
    BY <1>4 DEF RenameAside
  <2>2. /\ OnlyObject(cb.old) /\ (~e.done => objs' = objs)
        /\ e.done => cb.old \in Handles /\ objs[cb.old] # None /\ objs'[cb.old] # None
        /\ "rename" \notin Faults => (e.done => e.told)
    <3>1. count + 1 \in 0..MaxCount /\ objs' = Renamed(cb.old, cb.to.name, count + 1, e)
      BY <1>0, <1>4, <2>1 DEF RenameAside
    <3> QED
      BY <1>0, <3>1, RenamedTarget
  <2>3. e.told => d # cb.to.dir
    BY <1>0, <2>1 DEF Forget, Listings
  <2>4. CASE e.done /\ e.told
    BY <1>0, <1>3, <2>2, <2>3, <2>4 DEF Under
  <2>5. CASE e.done /\ ~e.told
    BY <2>2, <2>5 DEF SameIn, OnlyObject
  <2> QED
    BY <1>2, <2>2, <2>4, <2>5
<1>5. CASE RenameMove
  <2>1. Under(cb.h, cb.path) /\ cb.path.dir # cb.to.dir
    BY <1>0, <1>5 DEF RenameMove, RenameTrue
  <2>2. CASE objs' # objs
    <3>1. Goto("ren_name") /\ objs[cb.h] # None /\ \E o : objs' = [objs EXCEPT ![cb.h] = o]
      BY <1>0, <1>5, <2>2, EndsTold, EndsDone DEF RenameMove
    <3>2. d # cb.path.dir /\ objs[cb.h].dir = cb.path.dir
      BY <1>1, <2>1, <3>1 DEF Unsettled, Under
    <3> QED
      BY <3>1, <3>2 DEF SameIn, Inv, TypeOK
  <2> QED
    BY <1>2, <2>2
<1>6. CASE RenameName
  <2>1. CASE objs' # objs
    <3>1. PICK e \in RenameEnds(cb.h, cb.to.name, 0) :
            /\ objs' = Renamed(cb.h, cb.to.name, 0, e)
            /\ cb.path.name # cb.to.name
            /\ \/ Goto("ren_del") \/ Goto("ren_back")
               \/ listing' = RenameForget(listing) \/ listing' = Forget(listing, cb.to.dir)
      BY <1>0, <1>6, <2>1 DEF RenameName
    <3>2. OnlyObject(cb.h) /\ objs[cb.h] # None
      BY <1>0, <2>1, <3>1, RenamedTarget
    <3>3. objs[cb.h].dir = cb.to.dir
      BY <1>0, <1>6, <3>2 DEF RenameName, RenameTrue, Under
    <3>4. d # cb.to.dir
      BY <1>0, <1>1, <3>1 DEF Unsettled, RenameForget, Forget, Listings
    <3> QED
      BY <1>0, <1>3, <3>2, <3>3, <3>4
  <2> QED
    BY <1>2, <2>1
<1>7. CASE RenamePutBack
  <2>1. d # cb.to.dir
    BY <1>0, <1>7 DEF RenamePutBack, Forget, Listings
  <2>2. PICK e \in RenameEnds(cb.old, cb.to.name, 0) : objs' = Renamed(cb.old, cb.to.name, 0, e)
    BY <1>7 DEF RenamePutBack
  <2>3. OnlyObject(cb.old) /\ (~e.done => objs' = objs) /\ (e.done => cb.old \in Handles /\ objs[cb.old] # None)
    BY <1>0, <2>2, RenamedTarget
  <2> QED
    BY <1>0, <1>2, <1>3, <2>1, <2>3 DEF Under
<1>8. CASE RenameDelete
  <2>1. d # cb.to.dir
    BY <1>0, <1>8 DEF RenameDelete, RenameForget, Forget, Listings
  <2>2. PICK e \in DeleteEnds(cb.old) : objs' = Deleted(cb.old, e)
    BY <1>8 DEF RenameDelete
  <2>3. OnlyObject(cb.old) /\ (~e.done => objs' = objs) /\ (e.done => cb.old \in Handles /\ objs[cb.old] # None)
    BY <2>2, DeletedIs
  <2> QED
    BY <1>0, <1>2, <1>3, <2>1, <2>3 DEF Under
<1> QED
  BY <1>4, <1>5, <1>6, <1>7, <1>8 DEF RenameStep

\* The object that is to get the path, after a step of op_rename: it has its
\* name itself; it is there once an operation on it succeeded; it is at the
\* path when op_rename answers 0.
LEMMA RenameStepMoved ==
    ASSUME SteadyNames, Inv, WriterInv, NamesInv, ExactInv, RenameStep
    PROVE  /\ cb'.pc \in RenamePCs =>
                /\ ("rename" \notin Faults /\ objs'[cb.h] # None /\ cb'.pc # "ren_back") => objs'[cb.h].aside = 0
                /\ (cb'.pc = "ren_del" \/ (cb'.pc = "ren_name" /\ cb.path.dir # cb.to.dir)) => objs'[cb.h] # None
           /\ (cb' = NotRunning /\ reply'.rc = "OK" /\ "rename" \notin Faults) =>
                /\ objs'[cb.h] # None /\ objs'[cb.h].dir = cb.to.dir
                /\ objs'[cb.h].name = cb.to.name /\ objs'[cb.h].aside = 0
<1>0. /\ cb.pc \in RenamePCs /\ cb \in Callbacks /\ cb.h \in Handles /\ NoHandle \notin Handles
      /\ cb.to.name \in Names
      /\ cb.path.dir = cb.to.dir \/ cb.path.name = cb.to.name
      /\ ~(cb.path.dir = cb.to.dir /\ cb.path.name = cb.to.name)
      /\ entry[cb.h].name = cb.path.name
      /\ cb.old # NoHandle => cb.old # cb.h
      /\ 0 \in 0..MaxCount /\ (count < MaxCount => count + 1 \in 0..MaxCount)
  BY RenameFinds DEF NamesInv
<1>1. ASSUME NEW pc, Goto(pc)
      PROVE  cb'.pc = pc
  BY <1>0, <1>1 DEF Goto, Callbacks
<1>2. ASSUME NEW rc, RenameDone(rc)
      PROVE  cb'.pc = "idle" /\ reply'.rc = rc
  BY <1>2 DEF RenameDone, RenameAnswer, NotRunning
<1>3. /\ ("rename" \notin Faults /\ objs[cb.h] # None /\ cb.pc # "ren_back") => objs[cb.h].aside = 0
      /\ (cb.pc = "ren_del" \/ (cb.pc = "ren_name" /\ cb.path.dir # cb.to.dir)) => objs[cb.h] # None
  BY <1>0 DEF ExactInv, MovedExact
<1>4. "idle" \notin RenamePCs /\ NotRunning.pc = "idle"
  BY DEF RenamePCs, PCs, NotRunning
<1>5. CASE RenameAside
  <2>1. PICK e \in RenameEnds(cb.old, cb.to.name, count + 1) : RenameAside!3!(e)
    BY <1>5 DEF RenameAside
  <2>2. OnlyObject(cb.old) /\ (~e.done => objs' = objs) /\ (e.done => cb.old \in Handles)
    BY <1>0, <1>5, <2>1, RenamedTarget DEF RenameAside
  <2>3. objs'[cb.h] = objs[cb.h]
    BY <1>0, <2>2 DEF OnlyObject
  <2>4. (cb'.pc = "idle" /\ reply'.rc = "EIO") \/ cb'.pc = RenameRest(cb.path, cb.to)
    BY <1>1, <1>2, <2>1
  <2>5. cb.pc = "ren_aside"
    BY <1>5 DEF RenameAside
  <2> QED
    BY <1>3, <1>4, <2>3, <2>4, <2>5 DEF RenameRest, RenamePCs
<1>6. CASE RenameMove
  <2>0. cb.pc = "ren_move"
    BY <1>6 DEF RenameMove
  <2>1. CASE \E rc \in {"ENOTSUP", "EIO"} : RenameDone(rc)
    BY <1>2, <1>4, <2>1
  <2>2. CASE \A rc \in {"ENOTSUP", "EIO"} : ~RenameDone(rc)
    <3>1. PICK e \in Ends("move", objs[cb.h] # None) :
             /\ objs' = IF e.done THEN [objs EXCEPT ![cb.h].dir = cb.to.dir] ELSE objs
             /\ e.told /\ Goto("ren_name")
      BY <1>6, <2>2 DEF RenameMove
    <3>2. e.done /\ objs[cb.h] # None
      BY <3>1, EndsTold, EndsDone
    <3>3. objs[cb.h] \in Objects /\ objs' = [objs EXCEPT ![cb.h] = [objs[cb.h] EXCEPT !.dir = cb.to.dir]]
      BY <1>0, <3>1, <3>2 DEF Inv, TypeOK
    <3>4. objs'[cb.h].aside = objs[cb.h].aside /\ objs'[cb.h] \in Objects
      BY <1>0, <3>3, RenameFinds DEF Objects, Inv, TypeOK, NamesInv
    <3> QED
      BY <1>1, <1>3, <1>4, <2>0, <3>1, <3>2, <3>4, NoneAssumption
  <2> QED
    BY <2>1, <2>2
<1>7. CASE RenameName
  <2>0. cb.pc = "ren_name" /\ (objs[cb.h] # None => objs[cb.h].dir = cb.to.dir /\ objs[cb.h].name = cb.path.name)
    BY <1>0, <1>7 DEF RenameName, NamesInv, RenameTrue, Under
  <2>1. CASE \E rc \in {"ENOTSUP", "EIO"} : RenameDone(rc)
    BY <1>2, <1>4, <2>1
  <2>2. CASE cb.path.name = cb.to.name
    <3>1. objs' = objs /\ objs[cb.h] # None
      BY <1>0, <1>3, <1>7, <2>0, <2>2 DEF RenameName
    <3>2. cb'.pc \in {"idle", "ren_del"}
      BY <1>0, <1>1, <1>2, <1>7, <2>2 DEF RenameName
    <3> QED
      BY <1>3, <1>4, <2>0, <2>2, <3>1, <3>2 DEF At
  <2>3. CASE cb.path.name # cb.to.name /\ \A rc \in {"ENOTSUP", "EIO"} : ~RenameDone(rc)
    <3>1. PICK e \in RenameEnds(cb.h, cb.to.name, 0) :
            /\ objs' = Renamed(cb.h, cb.to.name, 0, e)
            /\ Goto("ren_back") \/ (e.told /\ Goto("ren_del")) \/ (e.told /\ RenameDone("OK"))
      BY <1>0, <1>7, <2>3 DEF RenameName
    <3>2. /\ e.told => e.done
          /\ e.done => /\ objs[cb.h] # None /\ objs'[cb.h] # None /\ objs'[cb.h].dir = objs[cb.h].dir
                       /\ objs'[cb.h].name = cb.to.name /\ objs'[cb.h].aside = 0
      BY <1>0, <3>1, RenamedTarget
    <3> QED
      BY <1>1, <1>2, <1>4, <2>0, <3>1, <3>2 DEF At
  <2> QED
    BY <2>1, <2>2, <2>3
<1>8. CASE RenamePutBack
  BY <1>2, <1>4, <1>8 DEF RenamePutBack
<1>9. CASE RenameDelete
  <2>0. cb.pc = "ren_del" /\ Under(cb.h, cb.to) /\ cb.old # NoHandle /\ cb'.pc = "idle"
    BY <1>0, <1>2, <1>9 DEF RenameDelete, NamesInv, RenameTrue
  <2>1. PICK e \in DeleteEnds(cb.old) : objs' = Deleted(cb.old, e)
    BY <1>9 DEF RenameDelete
  <2>2. objs'[cb.h] = objs[cb.h]
    BY <1>0, <2>0, <2>1, DeletedIs DEF OnlyObject
  <2> QED
    BY <1>3, <1>4, <2>0, <2>2 DEF At, Under
<1> QED
  BY <1>5, <1>6, <1>7, <1>8, <1>9 DEF RenameStep

\* Every step of op_rename.
LEMMA RenameStepExact ==
    ASSUME SteadyNames, Inv, WriterInv, HandleInv, NamesInv, ExactInv, RenameStep
    PROVE  ExactInv'
<1>1. /\ cb.pc \in RenamePCs /\ UNCHANGED <<nextH, entry>>
      /\ \/ cb' = NotRunning
         \/ /\ cb'.pc \in RenamePCs /\ cb'.path = cb.path /\ cb'.to = cb.to /\ cb'.h = cb.h
            /\ cb'.old = cb.old /\ reply' = reply
  BY RenameEffect
<1>2. ASSUME NEW d \in Dirs, listing'[d] # None, ~Unsettled(d)'
      PROVE  ExactIn(listing, entry, d)'
  <2>1. listing'[d] = listing[d] /\ ~Unsettled(d)
    BY <1>2, RenameListings DEF NamesInv
  <2>2. TrueIn(listing, entry, d) /\ ExactIn(listing, entry, d) /\ listing \in Listings
    BY <1>1, <2>1, Parts DEF NamesInv, TreeTrue, ExactInv, TreeExact, Loose, Going, RenamePCs, PCs, SendPCs, Inv, TreeOK
  <2>3. SameIn(d)
    BY <1>2, RenameSame DEF NamesInv
  <2> QED
    BY <1>1, <2>1, <2>2, <2>3, ExactKept
<1>3. TreeExact'
  BY <1>2 DEF TreeExact, Loose, ExactIn
<1>4. /\ cb'.pc \in RenamePCs =>
           /\ ("rename" \notin Faults /\ objs'[cb.h] # None /\ cb'.pc # "ren_back") => objs'[cb.h].aside = 0
           /\ (cb'.pc = "ren_del" \/ (cb'.pc = "ren_name" /\ cb.path.dir # cb.to.dir)) => objs'[cb.h] # None
      /\ (cb' = NotRunning /\ reply'.rc = "OK" /\ "rename" \notin Faults) =>
                /\ objs'[cb.h] # None /\ objs'[cb.h].dir = cb.to.dir
                /\ objs'[cb.h].name = cb.to.name /\ objs'[cb.h].aside = 0
  BY RenameStepMoved
<1>5. MovedExact'
  BY <1>1, <1>4 DEF MovedExact, NotRunning, RenamePCs, PCs
<1>6. RenameReply'
  <2>1. CASE cb' = NotRunning
    <3>1. reply'.path = cb.to /\ reply'.h = cb.h
      <4>1. \E rc : RenameDone(rc)
        <5>1. \A pc : Goto(pc) => cb' # NotRunning
          <6>1. cb \in Callbacks
            BY <1>1, RenameContext DEF RenamePCs
          <6> QED
            BY <6>1 DEF Goto, Callbacks, NotRunning
        <5> QED
          BY <2>1, <5>1 DEF RenameStep, RenameAside, RenameMove, RenameName, RenamePutBack, RenameDelete
      <4> QED
        BY <4>1 DEF RenameDone, RenameAnswer
    <3>2. ToldNames => "rename" \notin Faults
      BY <1>1, RenameFinds, RenameSteady DEF ToldNames, NamesInv, RenameTrue
    <3> QED
      BY <1>4, <2>1, <3>1, <3>2 DEF RenameReply, At
  <2>2. CASE reply' = reply
    <3>1. reply = NoReply
      BY <1>1 DEF HandleInv, QuietReply, Idle, RenamePCs, PCs
    <3> QED
      BY <2>2, <3>1 DEF RenameReply, NoReply
  <2> QED
    BY <1>1, <2>1, <2>2
<1> QED
  BY <1>3, <1>5, <1>6 DEF ExactInv

\* A mount starts with an empty tree and no callback.
LEMMA RemountExact == ASSUME Crash \/ Unmount PROVE ExactInv'
<1>1. /\ listing' = [d \in Dirs |-> None] /\ cb' = NotRunning /\ reply' = NoReply
  BY DEF Crash, Unmount, Remount
<1> QED
  BY <1>1 DEF ExactInv, TreeExact, ExactIn, MovedExact, RenameReply, NotRunning, NoReply, RenamePCs, PCs

\* Every step keeps the tree exact.
LEMMA NextExact ==
    ASSUME SteadyNames, Inv, WriterInv, HandleInv, NamesInv, ExactInv, [Next]_vars
    PROVE  ExactInv'
<1>1. CASE UNCHANGED vars
  BY <1>1 DEF vars, ExactInv, TreeExact, Loose, Going, Unsettled, ExactIn, MovedExact, RenameReply, At
<1>2. CASE Next
  BY <1>2, FindExact, SpoolExact, ReaddirExact, RenameExact, SendStepExact, RenameStepExact, RemountExact
     DEF Next
<1> QED
  BY <1>1, <1>2

\* The first mount starts with an empty tree and no callback.
LEMMA InitExact == Init => ExactInv
BY DEF Init, ExactInv, TreeExact, ExactIn, MovedExact, RenameReply, NotRunning, NoReply, RenamePCs, PCs

\* The invariants that op_rename rests on, together.
LEMMA MountExact ==
    ASSUME LoneWriters, SteadyNames
    PROVE  Spec => [](Inv /\ WriterInv /\ HandleInv /\ NamesInv /\ TornInv /\ ExactInv)
<1> DEFINE All == Inv /\ WriterInv /\ HandleInv /\ NamesInv /\ TornInv /\ ExactInv
<1>1. Init => All
  BY InitInv, InitWriters, InitHandles, InitNames, InitTorn, InitExact
<1>2. All /\ [Next]_vars => All'
  BY NextInv, NextWriters, NextHandles, NextNames, NextTorn, NextExact
<1> HIDE DEF All
<1>3. Spec => []All
  BY <1>1, <1>2, PTL DEF Spec
<1>4. All => Inv /\ WriterInv /\ HandleInv /\ NamesInv /\ TornInv /\ ExactInv
  BY DEF All
<1> QED
  BY <1>3, <1>4, PTL

\* A rename that answers 0 is done: the object that the old path named is
\* under the new path, although each step trusted the tree (op_rename); with
\* lone writers, renames that keep the tree true, and no answer of a rename
\* lost.
THEOREM RenameIsTrue ==
    ASSUME LoneWriters, SteadyNames, ToldNames
    PROVE  Spec => []RenameTellsTruth
<1>1. ExactInv => RenameTellsTruth
  BY DEF ExactInv, RenameReply, RenameTellsTruth
<1> QED
  BY <1>1, MountExact, PTL

\* The steps of send_pending that remove an object.
LEMMA SendRemoves ==
    ASSUME Inv, HandleInv, TornInv, SendStep, NEW h \in Handles, objs[h] # None, objs'[h] = None
    PROVE  \/ cb.pc = "data" /\ h = cb.h
           \/ cb.pc = "delold" /\ Holds(cb.path.dir, cb.path.name, Q.data)
           \/ cb.pc = "delfirst" /\ owed'[cb.path] = Q.data /\ ~Q.broken
<1>0. /\ cb.pc \in SendPCs /\ cb \in Callbacks /\ cb.path \in Paths /\ cb.path.name \in Names
      /\ Q \in Pendings /\ 0 \in 0..MaxCount /\ (count < MaxCount => count + 1 \in 0..MaxCount)
  BY SendEffect, SendContext, BoundsAssumption DEF Paths, Inv, TypeOK
<1>1. ASSUME NEW g, NEW a \in 0..MaxCount, NEW e \in RenameEnds(g, cb.path.name, a),
             objs' = Renamed(g, cb.path.name, a, e)
      PROVE  FALSE
  <2> DEFINE n == cb.path.name
  <2>1. n \in Names /\ e \in RenameEnds(g, n, a) /\ objs' = Renamed(g, n, a, e)
    BY <1>0, <1>1
  <2> HIDE DEF n
  <2>2. OnlyObject(g) /\ (~e.done => objs' = objs) /\ (e.done => objs'[g] # None)
    BY <2>1, RenamedIs
  <2> QED
    BY <2>2 DEF OnlyObject
<1>2. CASE SendAside
  BY <1>0, <1>1, <1>2 DEF SendAside
<1>3. CASE SendPutBack
  BY <1>0, <1>1, <1>3 DEF SendPutBack
<1>4. CASE SendDeleteFirst
  <2>1. PICK e \in DeleteEnds(Q.replaces) :
          /\ objs' = Deleted(Q.replaces, e)
          /\ owed' = IF e.done THEN [owed EXCEPT ![cb.path] = Q.data] ELSE owed
    BY <1>4 DEF SendDeleteFirst
  <2>2. e.done
    BY <2>1, DeletedIs
  <2>3. ~Q.broken
    BY <1>0 DEF TornInv, SendsWhole, Q
  <2> QED
    BY <1>0, <1>4, <2>1, <2>2, <2>3 DEF SendDeleteFirst, Inv, TypeOK
<1>5. CASE SendAnnounce
  <2>1. objs' = objs \/ \E o : objs' = [objs EXCEPT ![nextH] = o] /\ o \in Objects
    <3>1. [dir |-> cb.path.dir, name |-> cb.path.name, aside |-> 0, data |-> NoBytes] \in Objects
      BY <1>0 DEF Paths, Objects, Data
    <3> QED
      BY <1>5, <3>1 DEF SendAnnounce, device
  <2> QED
    BY <2>1, NoneAssumption DEF Inv, TypeOK
<1>6. CASE SendData
  <2>1. Target = cb.h /\ cb.pc = "data"
    BY <1>6 DEF SendData, Target
  <2> QED
    BY <2>1, SendTouches DEF OnlyObject
<1>7. CASE SendDeleteOld
  <2>1. cb.pc = "delold" /\ cb.h \in Handles /\ At(cb.h, cb.path) /\ objs[cb.h].data = Q.data
    BY <1>7 DEF SendDeleteOld, HandleInv, NewObject
  <2> QED
    BY <2>1 DEF Holds, At
<1> QED
  BY <1>2, <1>3, <1>4, <1>5, <1>6, <1>7 DEF SendStep

\* The step of op_rename that removes an object.
LEMMA RenameRemoves ==
    ASSUME SteadyNames, ToldNames, Inv, WriterInv, NamesInv, ExactInv, RenameStep,
           NEW h \in Handles, objs[h] # None, objs'[h] = None
    PROVE  cb.pc = "ren_del" /\ At(cb.h, cb.to)
<1>0. /\ cb.pc \in RenamePCs /\ cb.h \in Handles /\ cb.to.name \in Names
      /\ 0 \in 0..MaxCount /\ (count < MaxCount => count + 1 \in 0..MaxCount)
      /\ cb.path \in Paths /\ cb.to \in Paths /\ cb.to.dir \in Dirs
  BY RenameFinds, RenameSteady DEF NamesInv
<1>1. ASSUME NEW g, NEW a \in 0..MaxCount, NEW e \in RenameEnds(g, cb.to.name, a),
             objs' = Renamed(g, cb.to.name, a, e)
      PROVE  FALSE
  BY <1>0, <1>1, RenamedTarget DEF OnlyObject
<1>2. ~RenameAside /\ ~RenamePutBack
  BY <1>0, <1>1 DEF RenameAside, RenamePutBack
<1>3. ~RenameName
  BY <1>0, <1>1 DEF RenameName
<1>4. ~RenameMove
  <2> SUFFICES ASSUME RenameMove PROVE FALSE
    OBVIOUS
  <2>1. objs[cb.h] # None /\ objs' = [objs EXCEPT ![cb.h] = [objs[cb.h] EXCEPT !.dir = cb.to.dir]]
    BY EndsDone DEF RenameMove
  <2>2. [objs[cb.h] EXCEPT !.dir = cb.to.dir] \in Objects
    BY <1>0, <2>1 DEF Objects, Inv, TypeOK
  <2> QED
    BY <1>0, <2>1, <2>2, NoneAssumption DEF Inv, TypeOK
<1>5. RenameDelete
  BY <1>2, <1>3, <1>4 DEF RenameStep
<1>6. cb.pc = "ren_del"
  BY <1>5 DEF RenameDelete
<1>7. "rename" \notin Faults /\ Under(cb.h, cb.to)
  BY <1>0, <1>6 DEF ToldNames, NamesInv, RenameTrue
<1> QED
  BY <1>0, <1>6, <1>7 DEF ExactInv, MovedExact, Under, At

\* No other callback removes an object, but unlink.
LEMMA OthersRemove ==
    ASSUME Next, ~SendStep, ~RenameStep, \A p \in Paths : ~OpUnlink(p)
    PROVE  UNCHANGED objs
<1>1. ASSUME NEW p \in Paths, OpGetattr(p)
      PROVE  UNCHANGED objs
  BY <1>1 DEF OpGetattr, device
<1>2. ASSUME NEW d \in Dirs, OpReaddir(d)
      PROVE  UNCHANGED objs
  BY <1>2 DEF OpReaddir, device
<1>3. ASSUME NEW fd \in FDs, NEW p \in Paths, NEW w \in BOOLEAN, NEW trunc \in BOOLEAN,
             OpOpen(fd, p, w, trunc) \/ OpCreate(fd, p)
      PROVE  UNCHANGED objs
  BY <1>3 DEF OpOpen, OpCreate, device
<1>4. ASSUME NEW fd \in FDs, OpWrite(fd) \/ OpFlush(fd) \/ OpRelease(fd)
      PROVE  UNCHANGED objs
  BY <1>4 DEF OpWrite, OpFlush, OpRelease, device
<1>5. ASSUME NEW p \in Paths, NEW n \in 0..MaxLen, OpTruncateSpool(p, n) \/ OpTruncate(p, n)
      PROVE  UNCHANGED objs
  BY <1>5 DEF OpTruncateSpool, OpTruncate, device
<1>6. ASSUME NEW from \in Paths, NEW to \in Paths, OpRename(from, to)
      PROVE  UNCHANGED objs
  BY <1>6 DEF OpRename, device
<1>7. Crash \/ Unmount => UNCHANGED objs
  BY DEF Crash, Unmount, Remount, device
<1> QED
  BY <1>1, <1>2, <1>3, <1>4, <1>5, <1>6, <1>7 DEF Next

\* The mount removes an object only when a program asked to remove it, or
\* another object already holds the name with whole contents, or the spool
\* file of the host holds the contents that replace it (send_pending and
\* op_rename); with lone writers, renames that keep the tree true, and no
\* answer of a rename lost.
THEOREM OldCopyLast ==
    ASSUME LoneWriters, SteadyNames, ToldNames
    PROVE  Spec => OldCopyOutlives
<1> DEFINE All == Inv /\ WriterInv /\ HandleInv /\ NamesInv /\ TornInv /\ ExactInv
           LastOf == \A h \in Handles : (objs[h] # None /\ objs'[h] = None) =>
               \/ reply'.op = "unlink"
               \/ cb.pc = "data" /\ h = cb.h
               \/ cb.pc = "delold" /\ Holds(cb.path.dir, cb.path.name, Q.data)
               \/ cb.pc = "ren_del" /\ At(cb.h, cb.to)
               \/ cb.pc = "delfirst" /\ owed'[cb.path] = Q.data /\ ~Q.broken
<1>1. ASSUME All, [Next]_vars
      PROVE  [LastOf]_vars
  <2> SUFFICES ASSUME Next, NEW h \in Handles, objs[h] # None, objs'[h] = None
               PROVE  \/ reply'.op = "unlink"
                      \/ cb.pc = "data" /\ h = cb.h
                      \/ cb.pc = "delold" /\ Holds(cb.path.dir, cb.path.name, Q.data)
                      \/ cb.pc = "ren_del" /\ At(cb.h, cb.to)
                      \/ cb.pc = "delfirst" /\ owed'[cb.path] = Q.data /\ ~Q.broken
    BY <1>1
  <2>1. ASSUME NEW p \in Paths, OpUnlink(p)
        PROVE  reply'.op = "unlink"
    BY <2>1 DEF OpUnlink, Answer, Watched
  <2>2. CASE SendStep
    BY <1>1, <2>2, SendRemoves
  <2>3. CASE RenameStep
    BY <1>1, <2>3, RenameRemoves
  <2> QED
    BY <2>1, <2>2, <2>3, OthersRemove
<1>2. Spec => []All
  BY MountExact
<1> HIDE DEF All
<1>3. Spec => [][LastOf]_vars
  BY <1>1, <1>2, PTL DEF Spec
<1> QED
  BY <1>3 DEF OldCopyOutlives

-----------------------------------------------------------------------------
(* Spool files that nobody owns.                                           *)

NoStray == \A s \in kept : s.why # "stray"
\* The step leaves no stray spool file.
KeepsNoStray == \A s \in kept' : s \in kept \/ s.why # "stray"
\* The faults that leave a spool file behind without an owner: the copy of
\* the old bytes fails, and adopt_for_write does not remove what it made; a
\* delete is not told of, and the tree names an object that is gone; the cut
\* fails, and op_truncate leaves its Pending in the map.
Tidy == "copy" \notin Faults /\ "delete" \notin Faults /\ "setlen" \notin Faults

\* Drop for Pending leaves a spool file only to keep it.
LEMMA DropKeeps == \A p, q : \A s \in Dropped(p, q) : s.why # "stray"
BY DEF Dropped

\* The end of send_pending drops the Pending or puts it back.
LEMMA FinishStray ==
    ASSUME NEW op, NEW fd, NEW p, NEW q, NEW rc, Finish(op, fd, p, q, rc)
    PROVE  KeepsNoStray
BY DropKeeps DEF Finish, KeepsNoStray

\* Its start leaves the spool files alone, or ends at once.
LEMMA SendStartStray ==
    ASSUME NEW op, NEW fd, NEW p, NEW q, NEW size, SendStart(op, fd, p, q, size)
    PROVE  KeepsNoStray
BY FinishStray DEF SendStart, KeepsNoStray

\* adopt_for_write leaves nothing behind when the object is there and its
\* bytes can be read.
LEMMA AdoptedStray ==
    ASSUME Tidy, NEW h, objs[h] # None, NEW size, NEW whole, NEW a \in Adopted(h, size, whole), NEW p
    PROVE  Stray(p, a) = kept
<1>1. a.stray = FALSE
  BY DEF Adopted, Tidy
<1> QED
  BY <1>1 DEF Stray

\* open and truncate.
LEMMA OpenStray ==
    ASSUME Tidy, Inv, HandleInv, NamesInv, ExactInv, NEW p \in Paths,
           \/ \E fd \in FDs, w, trunc \in BOOLEAN : OpOpen(fd, p, w, trunc)
           \/ \E n \in 0..MaxLen : OpTruncate(p, n)
    PROVE  KeepsNoStray
<1>1. Idle
  BY DEF OpOpen, OpTruncate
<1>2. /\ listing \in Listings /\ entry \in EntryMaps /\ TypeOK /\ Known(objs)
      /\ \A d \in Dirs : TrueIn(listing, entry, d) /\ ExactIn(listing, entry, d)
  BY <1>1, Parts DEF Inv, TreeOK, HandleInv, FreshInv, NamesInv, TreeTrue, Unsettled, Idle,
     ExactInv, TreeExact, Loose, Going
<1>3. ASSUME NEW r \in Resolve(listing, entry, p), r.h # NoHandle
      PROVE  objs[r.h] # None
  BY <1>2, <1>3, ResolveExact DEF Tidy
<1>4. CASE kept' = kept
  BY <1>4 DEF KeepsNoStray
<1>5. ASSUME NEW fd \in FDs, NEW w \in BOOLEAN, NEW trunc \in BOOLEAN, OpOpen(fd, p, w, trunc), kept' # kept
      PROVE  FALSE
  <2>1. PICK r \in Resolve(listing, entry, p) :
          /\ r.h # NoHandle
          /\ \E a \in Adopted(r.h, r.entry[r.h].size, ~trunc) : kept' = Stray(p, a)
    BY <1>5 DEF OpOpen, host
  <2> QED
    BY <1>3, <1>5, <2>1, AdoptedStray
<1>6. ASSUME NEW n \in 0..MaxLen, OpTruncate(p, n), kept' # kept
      PROVE  KeepsNoStray
  <2>1. PICK r \in Resolve(listing, entry, p) :
          /\ r.h # NoHandle
          /\ \E a \in Adopted(r.h, r.entry[r.h].size, n > 0) :
               \/ kept' = Stray(p, a)
               \/ \E x : SendStart("truncate", None, p, NewPending(x, r.h), SizeIn(r.entry, r.h))
    BY <1>6 DEF OpTruncate, host
  <2> QED
    BY <1>3, <1>6, <2>1, AdoptedStray, SendStartStray
<1> QED
  BY <1>4, <1>5, <1>6

\* The steps of send_pending end in Finish or leave the spool files alone.
LEMMA SendStray == ASSUME SendStep PROVE KeepsNoStray
<1>1. kept' = kept \/ \E op, fd, p, q, rc : Finish(op, fd, p, q, rc)
  <2>1. AfterFailure => kept' = kept \/ \E op, fd, p, q, rc : Finish(op, fd, p, q, rc)
    BY DEF AfterFailure, SendFailed
  <2> QED
    BY <2>1 DEF SendStep, SendAside, SendDeleteFirst, SendAnnounce, SendData, SendDeleteOld, SendPutBack
<1> QED
  BY <1>1, FinishStray DEF KeepsNoStray

\* The end of a mount.
LEMMA RemountStray == ASSUME Crash \/ Unmount PROVE KeepsNoStray
<1>1. CASE Crash
  BY <1>1 DEF Crash, KeepsNoStray
<1>2. CASE Unmount
  BY <1>2, DropKeeps DEF Unmount, KeepsNoStray
<1> QED
  BY <1>1, <1>2

\* Every step.
LEMMA NextStray ==
    ASSUME Tidy, Inv, HandleInv, NamesInv, ExactInv, NoStray, [Next]_vars
    PROVE  NoStray'
<1>1. KeepsNoStray
  <2>1. CASE kept' = kept
    BY <2>1 DEF KeepsNoStray
  <2>2. ASSUME NEW fd \in FDs, OpFlush(fd) \/ OpRelease(fd)
        PROVE  KeepsNoStray
    BY <2>1, <2>2, SendStartStray, FinishStray DEF OpFlush, OpRelease, Answered
  <2>3. \/ kept' = kept
        \/ \E p \in Paths : \/ \E fd \in FDs, w, trunc \in BOOLEAN : OpOpen(fd, p, w, trunc)
                            \/ \E n \in 0..MaxLen : OpTruncate(p, n)
        \/ \E fd \in FDs : OpFlush(fd) \/ OpRelease(fd)
        \/ SendStep \/ Crash \/ Unmount
    BY RenameEffect DEF Next, vars, OpGetattr, OpUnlink, OpReaddir, OpCreate, OpWrite, OpTruncateSpool,
       OpRename, host
  <2> QED
    BY <2>1, <2>2, <2>3, OpenStray, SendStray, RemountStray
<1> QED
  BY <1>1 DEF NoStray, KeepsNoStray

\* Between callbacks, a spool file belongs to an open writer, or is the only
\* copy of its contents, or was left by a mount that died (adopt_for_write,
\* op_truncate, Drop for Pending); with lone writers, renames that keep the
\* tree true, and none of the three faults that leave one behind.
THEOREM SpoolsHaveOwners ==
    ASSUME LoneWriters, SteadyNames, Tidy
    PROVE  Spec => []SpoolsAreOwned
<1> DEFINE All == Inv /\ WriterInv /\ HandleInv /\ NamesInv /\ TornInv /\ ExactInv
<1>1. Init => NoStray
  BY DEF Init, NoStray
<1>2. All /\ NoStray /\ [Next]_vars => NoStray'
  BY NextStray
<1>3. Spec => []All
  BY MountExact
<1>4. ASSUME All, NoStray
      PROVE  SpoolsAreOwned
  <2>1. Idle => \A p : ~Truncating(p)
    BY DEF Idle, Truncating, SendPCs
  <2> QED
    BY <1>4, <2>1 DEF SpoolsAreOwned, NoStray, WriterInv, Owned, Tidy
<1> HIDE DEF All
<1> QED
  BY <1>1, <1>2, <1>3, <1>4, PTL DEF Spec
=============================================================================
