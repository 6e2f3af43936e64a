------------------------------- MODULE MtpFs -------------------------------
(***************************************************************************)
(* The write path of the mount: the callbacks of crates/mtpfs/src/main.rs  *)
(* that make, change, rename and remove files.                             *)
(*                                                                         *)
(* libfuse runs one callback at a time (main adds `-s`) and every callback *)
(* holds the one lock, so callbacks never overlap.  Inside a callback the  *)
(* mount does several operations on the cellphone; each is a step here,    *)
(* because each can fail, can lose its answer, and the mount can die       *)
(* between any two of them.                                                *)
(*                                                                         *)
(* A file is a path (folder and name); its contents are a version and a    *)
(* length.  What the model leaves out: folders made or removed while the   *)
(* mount runs, and changes the cellphone's own programs make.              *)
(***************************************************************************)
EXTENDS Naturals, FiniteSets

CONSTANTS
    Dirs,          \* the folders
    Names,         \* the names a program uses inside a folder
    Vers,          \* versions of contents a program can write
    Empty, Torn,   \* the version of no bytes, and of a spool a write broke
    FDs,           \* open files (one per open(2), shared by dup and fork)
    None,          \* nothing
    MaxLen,        \* bound: the longest contents
    MaxPayload,    \* the largest object MTP can carry (MAX_PAYLOAD_LEN)
    MaxHandle,     \* bound: handles the cellphone gives out
    MaxCount,      \* bound: numbers SPOOL_COUNT gives out in one mount
    MaxMounts,     \* bound: how often the file system is mounted
    Faults,        \* the faults that can happen, see FaultKinds
    SharedWriters, \* may a program write after a close, or two programs write one path
    Renames,       \* the pairs of paths that programs rename
    RenameOpen,    \* may a path that a writer holds open be renamed
    CanMove,       \* does the cellphone support MoveObject
    CanRename      \* does the cellphone support SetObjectPropValue

\* list, copy: the cellphone fails to list a folder, or to give the old bytes
\* delete, rename, move, announce, send: the answer is lost, the work is done
\* cut: a failed SendObject leaves part of the object behind
\* write, spool, setlen: the disk of the host fails a spool operation
FaultKinds ==
    {"list", "copy", "delete", "rename", "move", "announce", "send", "cut",
     "write", "spool", "setlen"}

ASSUME SetsAssumption ==
    /\ IsFiniteSet(Dirs)
    /\ Empty \notin Vers /\ Torn \notin Vers /\ Empty # Torn
    /\ Faults \subseteq FaultKinds

ASSUME BoundsAssumption ==
    /\ MaxLen \in Nat /\ MaxPayload \in Nat /\ MaxHandle \in Nat
    /\ MaxCount \in Nat /\ MaxMounts \in Nat

ASSUME FlagsAssumption ==
    {SharedWriters, RenameOpen, CanMove, CanRename} \subseteq BOOLEAN

NoHandle == 0
Handles == 1..MaxHandle
Paths == [dir: Dirs, name: Names]
NoBytes == [ver |-> Empty, len |-> 0]
Data == {NoBytes} \cup [ver: Vers \cup {Torn}, len: 1..MaxLen]

\* An object on the cellphone. `aside` 0 is the name itself, and n > 0 is
\* the name with ".bsdroid-old-<n - 1>" behind it.
Objects == [dir: Dirs, name: Names, aside: 0..MaxCount, data: Data]
\* An entry of the tree: what the last listing said of an object.
Entries == [dir: Dirs, name: Names, aside: 0..MaxCount, size: 0..MaxLen]

Codes == {"OK", "EIO", "ENOSPC", "ENOENT", "EROFS", "ENOTSUP"}
NotSent == "NotSent"

\* A file a program is writing. Its spool file lives as long as it does.
Pendings ==
    [data: Data, sent: Codes \cup {NotSent}, replaces: Handles \cup {NoHandle},
     broken: BOOLEAN, keep: BOOLEAN]

\* An open file. `flushed`: a descriptor of it was closed. `wrote`: the
\* contents of the file after the last write this open file knows succeeded.
OpenFiles ==
    [path: Paths, writer: BOOLEAN, flushed: BOOLEAN, wrote: Data \cup {None}]

\* A spool file on the disk that belongs to no Pending, and how it came to stay.
SpoolFiles == [path: Paths, data: Data, why: {"kept", "stray", "crash"}]

Ops == {"open", "create", "write", "flush", "release", "truncate", "unlink", "rename"}

\* The callback that runs: its operation, the file, the step it does next,
\* the object it sends or renames (h), the object it moved aside (old), and
\* whether the old copy went first (gone).
PCs == {"aside", "delfirst", "announce", "data", "delold", "putback",
        "ren_aside", "ren_move", "ren_name", "ren_back", "ren_del"}
NotRunning == [pc |-> "idle"]
Callbacks ==
    [pc: PCs, op: {"flush", "release", "truncate", "rename"}, fd: FDs \cup {None},
     path: Paths, to: Paths, h: Handles \cup {NoHandle},
     old: Handles \cup {NoHandle}, gone: BOOLEAN]

\* The last answer a program got.
NoReply == [op |-> "none"]
Replies == [op: Ops, path: Paths, fd: FDs \cup {None}, rc: Codes, h: Handles \cup {NoHandle}]

ASSUME NoneAssumption ==
    None \notin Objects /\ None \notin Pendings /\ None \notin OpenFiles

\* A folder that was never listed is told from every listing.
ASSUME UnlistedAssumption == \A S \in SUBSET Handles : S # None

VARIABLES
    objs,     \* the cellphone: handle -> object
    nextH,    \* the cellphone: the next handle it gives out
    listing,  \* Tree.listed: folder -> handles of the last listing, or None
    entry,    \* Tree.entries: handle -> entry; entries are never removed
    pending,  \* Fs.pending: path -> Pending
    count,    \* SPOOL_COUNT
    kept,     \* spool files left on the disk of the host
    fds,      \* the open files of programs
    cb,       \* the callback that runs
    reply,    \* the last answer
    owed,     \* history: contents the cellphone has no copy of, old or new
    mounts    \* how often the file system was mounted

device == <<objs, nextH>>
tree == <<listing, entry>>
host == <<pending, count, kept>>
vars == <<objs, nextH, listing, entry, pending, count, kept, fds, cb, reply, owed, mounts>>

-----------------------------------------------------------------------------
(* The cellphone, as the callbacks use it.                                 *)

Free(d, n, a) == \A h \in Handles :
    objs[h] # None => ~(objs[h].dir = d /\ objs[h].name = n /\ objs[h].aside = a)

Holds(d, n, x) == \E h \in Handles :
    /\ objs[h] # None
    /\ objs[h].dir = d /\ objs[h].name = n /\ objs[h].aside = 0 /\ objs[h].data = x

\* How one operation can end: whether the cellphone did the work, and
\* whether the host was told that it did.
Ends(kind, can) ==
    {[done |-> FALSE, told |-> FALSE]}
    \cup (IF can THEN {[done |-> TRUE, told |-> TRUE]} ELSE {})
    \cup (IF can /\ kind \in Faults THEN {[done |-> TRUE, told |-> FALSE]} ELSE {})

\* SetObjectPropValue of the name. A cellphone refuses a name that is taken.
RenameEnds(h, n, a) ==
    IF h \in Handles /\ objs[h] # None
    THEN Ends("rename", Free(objs[h].dir, n, a))
    ELSE Ends("rename", FALSE)

DeleteEnds(h) == Ends("delete", h \in Handles /\ objs[h] # None)

Renamed(h, n, a, e) ==
    IF e.done THEN [objs EXCEPT ![h] = [@ EXCEPT !.name = n, !.aside = a]] ELSE objs

Deleted(h, e) == IF e.done THEN [objs EXCEPT ![h] = None] ELSE objs

-----------------------------------------------------------------------------
(* The tree of listings.                                                   *)

\* children_named: the objects of a listing that hold the name.
Named(l, e, p) == {h \in l : e[h] # None /\ e[h].name = p.name /\ e[h].aside = 0}

Listed(d) == {h \in Handles : objs[h] # None /\ objs[h].dir = d}

Seen(e, d) == [h \in Handles |->
    IF h \in Listed(d)
    THEN [dir |-> d, name |-> objs[h].name, aside |-> objs[h].aside, size |-> objs[h].data.len]
    ELSE e[h]]

Matches(l, e, p) == IF Named(l[p.dir], e, p) = {} THEN {NoHandle} ELSE Named(l[p.dir], e, p)

\* resolve: every way it can end, as the handle and the tree it leaves.
Resolve(l, e, p) ==
    IF l[p.dir] # None
    THEN {[h |-> x, listing |-> l, entry |-> e] : x \in Matches(l, e, p)}
    ELSE LET l2 == [l EXCEPT ![p.dir] = Listed(p.dir)]
             e2 == Seen(e, p.dir)
         IN {[h |-> x, listing |-> l2, entry |-> e2] : x \in Matches(l2, e2, p)}
            \cup (IF "list" \in Faults
                  THEN {[h |-> NoHandle, listing |-> l, entry |-> e]} ELSE {})

Forget(l, d) == [l EXCEPT ![d] = None]

-----------------------------------------------------------------------------
(* Answers.                                                                *)

\* The answers the properties look back at; the others leave no trace.
Watched == {"flush", "unlink"}

Answer(op, p, fd, rc) ==
    /\ cb' = NotRunning
    /\ reply' = IF op \in Watched
                THEN [op |-> op, path |-> p, fd |-> fd, rc |-> rc, h |-> NoHandle] ELSE NoReply

\* The answer of op_rename, for the object h that was to get the path.
RenameAnswer(to, h, rc) ==
    /\ cb' = NotRunning
    /\ reply' = [op |-> "rename", path |-> to, fd |-> None, rc |-> rc, h |-> h]

Running(op, fd, p, to, pc, h, old) ==
    /\ cb' = [pc |-> pc, op |-> op, fd |-> fd, path |-> p, to |-> to,
              h |-> h, old |-> old, gone |-> FALSE]
    /\ reply' = NoReply

Goto(pc) == cb' = [cb EXCEPT !.pc = pc]

Writes(p) == {f \in FDs : fds[f] # None /\ fds[f].path = p /\ fds[f].writer}
Opens(p) == {f \in FDs : fds[f] # None /\ fds[f].path = p}

\* Drop for Pending: the spool file goes, unless keep_spool is set.
MutDropped(p, q) == {}
Dropped(p, q) ==
    IF q.keep THEN {[path |-> p, data |-> q.data, why |-> "kept"]} ELSE {}

Idle == cb.pc = "idle"

-----------------------------------------------------------------------------
(* getattr and readdir change nothing but the tree.                        *)

OpGetattr(p) ==
    /\ Idle /\ pending[p] = None
    /\ \E r \in Resolve(listing, entry, p) :
         listing' = r.listing /\ entry' = r.entry
    /\ UNCHANGED <<device, host, fds, cb, reply, owed, mounts>>

OpReaddir(d) ==
    /\ Idle /\ listing[d] = None
    /\ listing' = [listing EXCEPT ![d] = Listed(d)]
    /\ entry' = Seen(entry, d)
    /\ UNCHANGED <<device, host, fds, cb, reply, owed, mounts>>

-----------------------------------------------------------------------------
(* open, create, write.                                                    *)

Cut(x, n) == IF n = 0 THEN NoBytes ELSE [x EXCEPT !.len = n]

NewPending(x, h) ==
    [data |-> x, sent |-> NotSent, replaces |-> h, broken |-> FALSE, keep |-> FALSE]

\* copy_object_to_spool: what the spool can hold when the copy ends well.
\* A device that gives no more bytes ends the copy early, without a fault.
Copies(h, size) ==
    IF objs[h] = None THEN {}
    ELSE {Cut(objs[h].data, n) : n \in {m \in 0..objs[h].data.len :
            m <= size /\ (m = size \/ m = objs[h].data.len \/ "copy" \in Faults)}}

\* adopt_for_write: the ends of it, as an error number, the spool file, and
\* whether the spool file is left behind with no owner.
Adopted(h, size, keepBytes) ==
    LET copy == keepBytes /\ size > 0
        made == IF copy THEN Copies(h, size) ELSE {NoBytes}
    IN  {[rc |-> "OK", data |-> x, stray |-> FALSE] : x \in made}
        \cup (IF "spool" \in Faults
              THEN {[rc |-> "EIO", data |-> NoBytes, stray |-> FALSE]}
                   \cup (IF copy THEN {[rc |-> "ENOSPC", data |-> NoBytes, stray |-> FALSE]} ELSE {})
              ELSE {})
        \cup (IF copy /\ (objs[h] = None \/ "copy" \in Faults)
              THEN {[rc |-> "EIO", data |-> NoBytes, stray |-> TRUE]} ELSE {})

Stray(p, a) ==
    IF a.stray THEN kept \cup {[path |-> p, data |-> a.data, why |-> "stray"]} ELSE kept

MutOpened(p, w) ==
    [path |-> p, writer |-> w \/ pending[p] # None, flushed |-> FALSE, wrote |-> None]
Opened(p, w) == [path |-> p, writer |-> w, flushed |-> FALSE, wrote |-> None]

OpOpen(fd, p, w, trunc) ==
    /\ Idle /\ fds[fd] = None /\ count < MaxCount
    /\ trunc => w
    /\ w /\ ~SharedWriters => Writes(p) = {}
    /\ \E r \in Resolve(listing, entry, p) :
         /\ listing' = r.listing /\ entry' = r.entry
         /\ \/ /\ r.h = NoHandle
               /\ Answer("open", p, fd, "ENOENT")
               /\ UNCHANGED <<host, fds>>
            \/ /\ r.h # NoHandle /\ (~w \/ pending[p] # None)
               /\ fds' = [fds EXCEPT ![fd] = Opened(p, w)]
               /\ Answer("open", p, fd, "OK")
               /\ UNCHANGED host
            \/ /\ r.h # NoHandle /\ w /\ pending[p] = None
               /\ \E a \in Adopted(r.h, r.entry[r.h].size, ~trunc) :
                    /\ count' = count + 1
                    /\ kept' = Stray(p, a)
                    /\ IF a.rc = "OK"
                       THEN /\ pending' = [pending EXCEPT ![p] = NewPending(a.data, r.h)]
                            /\ fds' = [fds EXCEPT ![fd] = Opened(p, TRUE)]
                       ELSE UNCHANGED <<pending, fds>>
                    /\ Answer("open", p, fd, a.rc)
    /\ UNCHANGED <<device, owed, mounts>>

\* The kernel asks for create when getattr found no file.
OpCreate(fd, p) ==
    /\ Idle /\ fds[fd] = None /\ count < MaxCount /\ pending[p] = None
    /\ \E r \in Resolve(listing, entry, p) :
         r.h = NoHandle /\ listing' = r.listing /\ entry' = r.entry
    /\ count' = count + 1
    /\ \/ /\ pending' = [pending EXCEPT ![p] = NewPending(NoBytes, NoHandle)]
          /\ fds' = [fds EXCEPT ![fd] = Opened(p, TRUE)]
          /\ Answer("create", p, fd, "OK")
       \/ /\ "spool" \in Faults
          /\ Answer("create", p, fd, "EIO")
          /\ UNCHANGED <<pending, fds>>
    /\ UNCHANGED <<device, kept, owed, mounts>>

\* The spool of p holds x after a change a program was told of.
Accepted(p, x) ==
    /\ pending' = [pending EXCEPT ![p].data = x]
    /\ fds' = [f \in FDs |-> IF f \in Writes(p) THEN [fds[f] EXCEPT !.wrote = x] ELSE fds[f]]
    /\ owed' = IF pending[p].keep THEN [owed EXCEPT ![p] = x] ELSE owed

\* The contents a change that ends at length n can leave. Torn stays torn.
Changed(q, n) ==
    IF n = 0 THEN {NoBytes}
    ELSE [ver: IF q.broken THEN {Torn} ELSE Vers, len: {n}]

OpWrite(fd) ==
    /\ Idle /\ fds[fd] # None /\ fds[fd].writer
    /\ SharedWriters \/ ~fds[fd].flushed
    /\ LET p == fds[fd].path IN
       \/ /\ pending[p] = None
          /\ Answer("write", p, fd, "EROFS")
          /\ UNCHANGED <<pending, fds, owed>>
       \/ /\ pending[p] # None
          /\ \E n \in {m \in 1..MaxLen : m >= pending[p].data.len} :
               \E x \in Changed(pending[p], n) : Accepted(p, x)
          /\ Answer("write", p, fd, "OK")
       \/ /\ pending[p] # None /\ "write" \in Faults /\ MaxLen > 0
          /\ LET x == [ver |-> Torn, len |-> IF pending[p].data.len = 0 THEN 1 ELSE pending[p].data.len]
             IN /\ pending' = [pending EXCEPT ![p].data = x, ![p].broken = TRUE]
                /\ owed' = IF pending[p].keep THEN [owed EXCEPT ![p] = x] ELSE owed
          /\ Answer("write", p, fd, "ENOSPC")
          /\ UNCHANGED fds
    /\ UNCHANGED <<device, tree, count, kept, mounts>>

-----------------------------------------------------------------------------
(* send_pending, and the callbacks that call it.                           *)

\* flush puts the Pending back into the map; release and truncate drop it.
MutPutsBack(op) == op # "release"
PutsBack(op) == op = "flush"

\* The end of send_pending for the callback that called it.
Finish(op, fd, p, q, rc) ==
    /\ pending' = [pending EXCEPT ![p] = IF PutsBack(op) THEN [q EXCEPT !.sent = rc] ELSE None]
    /\ kept' = IF PutsBack(op) THEN kept ELSE kept \cup Dropped(p, q)
    /\ fds' = CASE op = "flush" -> [fds EXCEPT ![fd].flushed = TRUE]
                [] op = "release" -> [fds EXCEPT ![fd] = None]
                [] OTHER -> fds
    /\ Answer(op, p, fd, IF op = "release" THEN "OK" ELSE rc)

\* How much room the cellphone says it has; MaxLen stands for plenty, which
\* is also what the code takes a missing answer for.
Room == 0..MaxLen

\* A spool file that took only part of a write must not go to the cellphone.
MutUnfit(q) == FALSE
Unfit(q) == q.broken

\* The first part of send_pending, up to the first change of the cellphone.
\* q is the Pending; spare is the free space and oldSize the size in the tree.
SendStart(op, fd, p, q, oldSize) ==
    \/ /\ Unfit(q)
       /\ Finish(op, fd, p, q, "ENOSPC")
    \/ /\ ~Unfit(q) /\ "spool" \in Faults
       /\ Finish(op, fd, p, q, "EIO")
    \/ /\ ~Unfit(q) /\ q.replaces = NoHandle
       /\ pending' = [pending EXCEPT ![p] = q]
       /\ Running(op, fd, p, p, "announce", NoHandle, NoHandle)
       /\ UNCHANGED <<kept, fds>>
    \/ /\ ~Unfit(q) /\ q.replaces # NoHandle
       /\ \E spare \in Room :
            IF spare >= q.data.len
            THEN /\ pending' = [pending EXCEPT ![p] = q]
                 /\ Running(op, fd, p, p, "aside", NoHandle, NoHandle)
                 /\ UNCHANGED <<kept, fds>>
            ELSE IF spare + oldSize >= q.data.len
            THEN /\ pending' = [pending EXCEPT ![p] = q]
                 /\ Running(op, fd, p, p, "delfirst", NoHandle, NoHandle)
                 /\ UNCHANGED <<kept, fds>>
            ELSE Finish(op, fd, p, q, "ENOSPC")

SizeIn(e, h) == IF h = NoHandle \/ e[h] = None THEN 0 ELSE e[h].size

\* A send of this Pending has ended, and its answer is kept.
MutAnswered(q) == TRUE
Answered(q) == q.sent # NotSent

OpFlush(fd) ==
    /\ Idle /\ fds[fd] # None
    /\ LET p == fds[fd].path IN
       \/ /\ ~fds[fd].writer \/ pending[p] = None
          /\ Answer("flush", p, fd, "OK")
          /\ fds' = [fds EXCEPT ![fd].flushed = TRUE]
          /\ UNCHANGED <<pending, kept>>
       \/ /\ fds[fd].writer /\ pending[p] # None /\ Answered(pending[p])
          /\ Answer("flush", p, fd, pending[p].sent)
          /\ fds' = [fds EXCEPT ![fd].flushed = TRUE]
          /\ UNCHANGED <<pending, kept>>
       \/ /\ fds[fd].writer /\ pending[p] # None /\ ~Answered(pending[p])
          /\ SendStart("flush", fd, p, pending[p], SizeIn(entry, pending[p].replaces))
    /\ UNCHANGED <<device, tree, count, owed, mounts>>

OpRelease(fd) ==
    /\ Idle /\ fds[fd] # None
    /\ LET p == fds[fd].path IN
       \/ /\ ~fds[fd].writer \/ pending[p] = None
          /\ Answer("release", p, fd, "OK")
          /\ fds' = [fds EXCEPT ![fd] = None]
          /\ UNCHANGED <<pending, kept>>
       \/ /\ fds[fd].writer /\ pending[p] # None /\ Answered(pending[p])
          /\ Finish("release", fd, p, pending[p], "OK")
       \/ /\ fds[fd].writer /\ pending[p] # None /\ ~Answered(pending[p])
          /\ SendStart("release", fd, p, pending[p], SizeIn(entry, pending[p].replaces))
    /\ UNCHANGED <<device, tree, count, owed, mounts>>

\* truncate of a file some program is writing.
OpTruncateSpool(p, n) ==
    /\ Idle /\ pending[p] # None
    /\ SharedWriters \/ pending[p].sent = NotSent
    /\ \/ /\ \/ /\ n <= pending[p].data.len
                /\ Accepted(p, Cut(pending[p].data, n))
             \/ /\ n > pending[p].data.len
                /\ \E x \in Changed(pending[p], n) : Accepted(p, x)
          /\ Answer("truncate", p, None, "OK")
       \/ /\ "setlen" \in Faults
          /\ Answer("truncate", p, None, "EIO")
          /\ UNCHANGED <<pending, fds, owed>>
    /\ UNCHANGED <<device, tree, count, kept, mounts>>

\* truncate of a file nobody is writing: adopt, cut, and send now.
OpTruncate(p, n) ==
    /\ Idle /\ pending[p] = None /\ count < MaxCount
    /\ \E r \in Resolve(listing, entry, p) :
         /\ listing' = r.listing /\ entry' = r.entry
         /\ \/ /\ r.h = NoHandle
               /\ Answer("truncate", p, None, "ENOENT")
               /\ UNCHANGED <<host, fds>>
            \/ /\ r.h # NoHandle
               /\ count' = count + 1
               /\ \E a \in Adopted(r.h, r.entry[r.h].size, n > 0) :
                    \/ /\ a.rc # "OK"
                       /\ kept' = Stray(p, a)
                       /\ Answer("truncate", p, None, a.rc)
                       /\ UNCHANGED <<pending, fds>>
                    \/ /\ a.rc = "OK" /\ "setlen" \in Faults
                       /\ pending' = [pending EXCEPT ![p] = NewPending(a.data, r.h)]
                       /\ Answer("truncate", p, None, "EIO")
                       /\ UNCHANGED <<kept, fds>>
                    \/ /\ a.rc = "OK"
                       /\ \E x \in IF n <= a.data.len THEN {Cut(a.data, n)}
                                   ELSE [ver: Vers, len: {n}] :
                            SendStart("truncate", None, p, NewPending(x, r.h), SizeIn(r.entry, r.h))
    /\ UNCHANGED <<device, owed, mounts>>

Q == pending[cb.path]

\* The old object moves aside: two copies fit.
SendAside ==
    /\ cb.pc = "aside" /\ count < MaxCount
    /\ count' = count + 1
    /\ \E e \in RenameEnds(Q.replaces, cb.path.name, count + 1) :
         /\ objs' = Renamed(Q.replaces, cb.path.name, count + 1, e)
         /\ IF e.told
            THEN Goto("announce") /\ UNCHANGED <<pending, kept, fds, reply>>
            ELSE Finish(cb.op, cb.fd, cb.path, Q, "EIO")
    /\ UNCHANGED <<nextH, tree, owed, mounts>>

\* The old object goes first: two copies do not fit.
SendDeleteFirst ==
    /\ cb.pc = "delfirst"
    /\ \E e \in DeleteEnds(Q.replaces) :
         /\ objs' = Deleted(Q.replaces, e)
         /\ owed' = IF e.done THEN [owed EXCEPT ![cb.path] = Q.data] ELSE owed
         /\ IF e.told
            THEN /\ pending' = [pending EXCEPT ![cb.path].replaces = NoHandle]
                 /\ cb' = [cb EXCEPT !.pc = "announce", !.gone = TRUE]
                 /\ UNCHANGED <<kept, fds, reply>>
            ELSE Finish(cb.op, cb.fd, cb.path, Q, "EIO")
    /\ UNCHANGED <<nextH, tree, count, mounts>>

\* The end of a send that failed, when no old object waits under another name.
SendFailed ==
    /\ Finish(cb.op, cb.fd, cb.path, [Q EXCEPT !.keep = @ \/ cb.gone], "EIO")
    /\ listing' = Forget(listing, cb.path.dir)

MutAfterFailure ==
    IF Q.replaces # NoHandle
    THEN Goto("delold") /\ UNCHANGED <<pending, kept, fds, reply, listing>>
    ELSE SendFailed
AfterFailure ==
    IF Q.replaces # NoHandle
    THEN Goto("putback") /\ UNCHANGED <<pending, kept, fds, reply, listing>>
    ELSE SendFailed

\* SendObjectInfo: the cellphone makes an empty object and gives its handle.
\* A name that is taken can be refused, or shared by two objects.
SendAnnounce ==
    /\ cb.pc = "announce" /\ nextH <= MaxHandle
    /\ \E e \in IF Q.data.len <= MaxPayload THEN Ends("announce", TRUE) ELSE Ends("announce", FALSE) :
         /\ IF e.done
            THEN /\ objs' = [objs EXCEPT ![nextH] =
                      [dir |-> cb.path.dir, name |-> cb.path.name, aside |-> 0, data |-> NoBytes]]
                 /\ nextH' = nextH + 1
            ELSE UNCHANGED device
         /\ IF e.told
            THEN /\ cb' = [cb EXCEPT !.pc = "data", !.h = nextH]
                 /\ UNCHANGED <<pending, kept, fds, reply, listing>>
            ELSE AfterFailure
    /\ UNCHANGED <<entry, count, owed, mounts>>

\* SendObject: the bytes of the spool file. After a fault the cellphone
\* removes the object, or keeps the part that arrived.
SendData ==
    /\ cb.pc = "data"
    /\ \/ /\ \E e \in Ends("send", TRUE) :
               /\ e.done
               /\ objs' = [objs EXCEPT ![cb.h].data = Q.data]
               /\ owed' = [owed EXCEPT ![cb.path] = None]
               /\ IF e.told
                  THEN IF Q.replaces # NoHandle
                       THEN Goto("delold") /\ UNCHANGED <<pending, kept, fds, reply, listing>>
                       ELSE /\ Finish(cb.op, cb.fd, cb.path, Q, "OK")
                            /\ listing' = Forget(listing, cb.path.dir)
                  ELSE AfterFailure
       \/ /\ objs' = [objs EXCEPT ![cb.h] = None]
          /\ AfterFailure
          /\ UNCHANGED owed
       \/ /\ "cut" \in Faults
          /\ \E n \in {m \in 0..MaxLen : m < Q.data.len} :
               objs' = [objs EXCEPT ![cb.h].data = Cut(Q.data, n)]
          /\ AfterFailure
          /\ UNCHANGED owed
    /\ UNCHANGED <<nextH, entry, count, mounts>>

\* The new contents hold the name: the old object goes, or stays untidily.
SendDeleteOld ==
    /\ cb.pc = "delold"
    /\ \E e \in DeleteEnds(Q.replaces) : objs' = Deleted(Q.replaces, e)
    /\ Finish(cb.op, cb.fd, cb.path, [Q EXCEPT !.replaces = NoHandle], "OK")
    /\ listing' = Forget(listing, cb.path.dir)
    /\ UNCHANGED <<nextH, entry, count, owed, mounts>>

\* The send failed: the old object takes its name back, if it can.
SendPutBack ==
    /\ cb.pc = "putback"
    /\ \E e \in RenameEnds(Q.replaces, cb.path.name, 0) :
         objs' = Renamed(Q.replaces, cb.path.name, 0, e)
    /\ Finish(cb.op, cb.fd, cb.path, [Q EXCEPT !.replaces = NoHandle], "EIO")
    /\ listing' = Forget(listing, cb.path.dir)
    /\ UNCHANGED <<nextH, entry, count, owed, mounts>>

SendStep ==
    \/ SendAside \/ SendDeleteFirst \/ SendAnnounce \/ SendData
    \/ SendDeleteOld \/ SendPutBack

-----------------------------------------------------------------------------
(* unlink and rename.                                                      *)

\* libfuse turns the unlink of an open file into a rename, so the callback
\* sees a path nobody holds open.
OpUnlink(p) ==
    /\ Idle /\ Opens(p) = {}
    /\ \E r \in Resolve(listing, entry, p) :
         /\ entry' = r.entry
         /\ \/ /\ r.h = NoHandle
               /\ listing' = r.listing
               /\ Answer("unlink", p, None, "ENOENT")
               /\ UNCHANGED objs
            \/ /\ r.h # NoHandle
               /\ \E e \in DeleteEnds(r.h) :
                    /\ objs' = Deleted(r.h, e)
                    /\ listing' = IF e.told THEN Forget(r.listing, p.dir) ELSE r.listing
                    /\ Answer("unlink", p, None, IF e.told THEN "OK" ELSE "EIO")
    /\ UNCHANGED <<nextH, host, fds, owed, mounts>>

\* Where op_rename goes on after the target, if any, moved out of the way.
MutRenameRest(from, to) == "ren_name"
RenameRest(from, to) == IF from.dir # to.dir THEN "ren_move" ELSE "ren_name"

\* op_rename up to its first change of the cellphone. The kernel answers a
\* rename of a path onto itself; two paths can still name one object, when a
\* stale listing holds it.
OpRename(from, to) ==
    /\ Idle /\ from # to /\ <<from, to>> \in Renames
    /\ Opens(to) = {} /\ (RenameOpen \/ Opens(from) = {})
    /\ \E r \in Resolve(listing, entry, from) :
         \/ /\ r.h = NoHandle
            /\ listing' = r.listing /\ entry' = r.entry
            /\ RenameAnswer(to, NoHandle, "ENOENT")
         \/ /\ r.h # NoHandle
            /\ \E t \in Resolve(r.listing, r.entry, to) :
                 /\ listing' = t.listing /\ entry' = t.entry
                 /\ IF t.h = r.h
                    THEN RenameAnswer(to, r.h, "OK")
                    ELSE Running("rename", None, from, to,
                                 IF t.h # NoHandle THEN "ren_aside" ELSE RenameRest(from, to),
                                 r.h, t.h)
    /\ UNCHANGED <<device, host, fds, owed, mounts>>

\* The end of op_rename. libfuse gives an open file its new path.
RenameDone(rc) ==
    /\ RenameAnswer(cb.to, cb.h, rc)
    /\ fds' = [f \in FDs |->
                 IF rc = "OK" /\ f \in Opens(cb.path)
                 THEN [fds[f] EXCEPT !.path = cb.to] ELSE fds[f]]

RenameAside ==
    /\ cb.pc = "ren_aside" /\ count < MaxCount
    /\ count' = count + 1
    /\ \E e \in RenameEnds(cb.old, cb.to.name, count + 1) :
         /\ objs' = Renamed(cb.old, cb.to.name, count + 1, e)
         /\ IF e.told
            THEN /\ listing' = Forget(listing, cb.to.dir)
                 /\ Goto(RenameRest(cb.path, cb.to))
                 /\ UNCHANGED <<reply, fds>>
            ELSE RenameDone("EIO") /\ UNCHANGED listing
    /\ UNCHANGED <<nextH, entry, pending, kept, owed, mounts>>

\* MoveObject keeps the name the object has. A fault here ends the callback.
RenameMove ==
    /\ cb.pc = "ren_move"
    /\ \/ /\ ~CanMove
          /\ RenameDone("ENOTSUP")
          /\ UNCHANGED objs
       \/ /\ CanMove
          /\ \E e \in Ends("move", objs[cb.h] # None) :
               /\ objs' = IF e.done THEN [objs EXCEPT ![cb.h].dir = cb.to.dir] ELSE objs
               /\ IF e.told
                  THEN Goto("ren_name") /\ UNCHANGED <<reply, fds>>
                  ELSE RenameDone("EIO")
    /\ UNCHANGED <<nextH, tree, host, owed, mounts>>

\* The tail of op_rename that succeeds, with no object aside.
RenameForget(l) == Forget(Forget(l, cb.path.dir), cb.to.dir)

RenameName ==
    /\ cb.pc = "ren_name"
    /\ \/ /\ entry[cb.h].name # cb.to.name /\ ~CanRename
          /\ RenameDone("ENOTSUP")
          /\ UNCHANGED <<objs, listing>>
       \/ /\ entry[cb.h].name # cb.to.name /\ CanRename
          /\ \E e \in RenameEnds(cb.h, cb.to.name, 0) :
               /\ objs' = Renamed(cb.h, cb.to.name, 0, e)
               /\ IF e.told
                  THEN IF cb.old # NoHandle
                       THEN Goto("ren_del") /\ UNCHANGED <<reply, fds, listing>>
                       ELSE RenameDone("OK") /\ listing' = RenameForget(listing)
                  ELSE IF cb.old # NoHandle
                       THEN Goto("ren_back") /\ UNCHANGED <<reply, fds, listing>>
                       ELSE RenameDone("EIO") /\ listing' = Forget(listing, cb.to.dir)
       \/ /\ entry[cb.h].name = cb.to.name
          /\ IF cb.old # NoHandle
             THEN Goto("ren_del") /\ UNCHANGED <<reply, fds, listing>>
             ELSE RenameDone("OK") /\ listing' = RenameForget(listing)
          /\ UNCHANGED objs
    /\ UNCHANGED <<nextH, entry, host, owed, mounts>>

RenamePutBack ==
    /\ cb.pc = "ren_back"
    /\ \E e \in RenameEnds(cb.old, cb.to.name, 0) :
         objs' = Renamed(cb.old, cb.to.name, 0, e)
    /\ listing' = Forget(listing, cb.to.dir)
    /\ RenameDone("EIO")
    /\ UNCHANGED <<nextH, entry, host, owed, mounts>>

RenameDelete ==
    /\ cb.pc = "ren_del"
    /\ \E e \in DeleteEnds(cb.old) : objs' = Deleted(cb.old, e)
    /\ listing' = RenameForget(listing)
    /\ RenameDone("OK")
    /\ UNCHANGED <<nextH, entry, host, owed, mounts>>

RenameStep ==
    \/ RenameAside \/ RenameMove \/ RenameName \/ RenamePutBack \/ RenameDelete

-----------------------------------------------------------------------------
(* The end of a mount, and the next one.                                   *)

\* A new mount starts with an empty tree, no Pending and SPOOL_COUNT at 0.
Remount ==
    /\ mounts < MaxMounts /\ mounts' = mounts + 1
    /\ listing' = [d \in Dirs |-> None]
    /\ entry' = [h \in Handles |-> None]
    /\ pending' = [p \in Paths |-> None]
    /\ count' = 0
    /\ fds' = [f \in FDs |-> None]
    /\ cb' = NotRunning /\ reply' = NoReply
    /\ UNCHANGED <<device, owed>>

\* The program dies: no Drop runs, so every spool file stays.
Crash ==
    /\ kept' = kept \cup {[path |-> p, data |-> pending[p].data, why |-> "crash"] :
                            p \in {x \in Paths : pending[x] # None}}
    /\ Remount

\* main ends: FS becomes None, and every Pending drops.
Unmount ==
    /\ Idle
    /\ kept' = kept \cup UNION {Dropped(p, pending[p]) : p \in {x \in Paths : pending[x] # None}}
    /\ Remount

-----------------------------------------------------------------------------

\* The cellphone starts with one whole file in one place, or more.
Init ==
    /\ objs \in [Handles -> {None} \cup
                   [dir: Dirs, name: Names, aside: {0}, data: [ver: Vers, len: 1..MaxLen]]]
    /\ \A g, h \in Handles : (objs[g] # None /\ objs[h] # None /\ g # h)
          => <<objs[g].dir, objs[g].name>> # <<objs[h].dir, objs[h].name>>
    /\ nextH \in 1..MaxHandle + 1
    /\ \A h \in Handles : objs[h] # None <=> h < nextH
    /\ listing = [d \in Dirs |-> None]
    /\ entry = [h \in Handles |-> None]
    /\ pending = [p \in Paths |-> None]
    /\ count = 0
    /\ kept = {}
    /\ fds = [f \in FDs |-> None]
    /\ cb = NotRunning
    /\ reply = NoReply
    /\ owed = [p \in Paths |-> None]
    /\ mounts = 1

Next ==
    \/ \E p \in Paths : OpGetattr(p) \/ OpUnlink(p)
    \/ \E d \in Dirs : OpReaddir(d)
    \/ \E fd \in FDs, p \in Paths, w, trunc \in BOOLEAN : OpOpen(fd, p, w, trunc)
    \/ \E fd \in FDs, p \in Paths : OpCreate(fd, p)
    \/ \E fd \in FDs : OpWrite(fd) \/ OpFlush(fd) \/ OpRelease(fd)
    \/ \E p \in Paths, n \in 0..MaxLen : OpTruncateSpool(p, n) \/ OpTruncate(p, n)
    \/ \E from, to \in Paths : OpRename(from, to)
    \/ SendStep
    \/ RenameStep
    \/ Crash
    \/ Unmount

Spec == Init /\ [][Next]_vars

-----------------------------------------------------------------------------
(* Properties.                                                             *)

\* Every variable has its type. An answer is an error number that some step
\* gave: a flush never answers with what no send has left in `sent`.
TypeOK ==
    /\ objs \in [Handles -> Objects \cup {None}]
    /\ nextH \in 1..MaxHandle + 1
    /\ listing \in [Dirs -> (SUBSET Handles) \cup {None}]
    /\ entry \in [Handles -> Entries \cup {None}]
    /\ pending \in [Paths -> Pendings \cup {None}]
    /\ count \in 0..MaxCount
    /\ kept \subseteq SpoolFiles
    /\ fds \in [FDs -> OpenFiles \cup {None}]
    /\ cb \in Callbacks \cup {NotRunning}
    /\ reply \in Replies \cup {NoReply}
    /\ owed \in [Paths -> Data \cup {None}]
    /\ mounts \in 1..MaxMounts \cup {1}

\* What the cellphone holds no copy of, because the old object had to go
\* before the new one arrived, is in a spool file of the host, whatever
\* fails or dies afterwards (send_pending, keep_spool and Drop for Pending).
OwedIsKept == \A p \in Paths : owed[p] # None =>
    \/ pending[p] # None /\ pending[p].data = owed[p]
    \/ \E s \in kept : s.path = p /\ s.data = owed[p]

\* No part of a spool file that a write broke ever reaches the cellphone,
\* not from flush, release, truncate or a retry (`broken` in send_pending).
TornNeverSent == \A h \in Handles : objs[h] # None => objs[h].data.ver # Torn

\* A close that answers 0 tells the truth: the cellphone holds, under the
\* name of the file, the last contents a write of that open file put in
\* (op_flush, and the answer it keeps in `sent`).
FlushTellsTruth ==
    (reply.op = "flush" /\ reply.rc = "OK" /\ fds[reply.fd].wrote # None)
        => Holds(reply.path.dir, reply.path.name, fds[reply.fd].wrote)

\* A program that opened a file to write it keeps its spool file until it
\* closes the file, whoever else opens and closes the same path (FH_WRITER).
WriterHasSpool == \A f \in FDs :
    (fds[f] # None /\ fds[f].writer) => pending[fds[f].path] # None

\* Between callbacks, a spool file belongs to an open writer, or is the only
\* copy of its contents, or was left by a mount that died (Drop for Pending).
SpoolsAreOwned == Idle =>
    /\ \A p \in Paths : pending[p] # None => Writes(p) # {}
    /\ \A s \in kept : s.why # "stray"

At(h, p) == objs[h] # None /\ objs[h].dir = p.dir /\ objs[h].name = p.name /\ objs[h].aside = 0

\* A rename that answers 0 is done: the object that the old path named is
\* under the new path, although each step trusted the tree (op_rename).
RenameTellsTruth ==
    (reply.op = "rename" /\ reply.rc = "OK") => At(reply.h, reply.path)

\* The mount removes an object only when a program asked to remove it, or
\* another object already holds the name with whole contents, or the spool
\* file of the host holds the contents that replace it (send_pending and
\* op_rename: the old object goes last).
OldCopyOutlives == [][
    \A h \in Handles : (objs[h] # None /\ objs'[h] = None) =>
        \/ reply'.op = "unlink"
        \/ cb.pc = "data" /\ h = cb.h
        \/ cb.pc = "delold" /\ Holds(cb.path.dir, cb.path.name, Q.data)
        \/ cb.pc = "ren_del" /\ At(cb.h, cb.to)
        \/ cb.pc = "delfirst" /\ owed'[cb.path] = Q.data /\ ~Q.broken ]_vars
=============================================================================
