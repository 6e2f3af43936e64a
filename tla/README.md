# A TLA+ model of bsdroid

bsdroid mounts an Android cellphone on FreeBSD. It speaks MTP over USB and gives
the files of the cellphone to programs through FUSE. This directory models the
parts of it that can go wrong in ways a test hardly reaches, checks them with
TLC on small instances, and proves the most important results with TLAPS.

Paths below are relative to the repository.

## The system

| Part | Where | State | Operations |
| --- | --- | --- | --- |
| FUSE callbacks | `crates/mtpfs/src/main.rs` | `Fs`: session, tree, map of path to `Pending`; spool files on the disk; `SPOOL_COUNT` | getattr, readdir, open, create, read, write, flush, release, truncate, rename, unlink, mkdir, rmdir |
| Tree of listings | `crates/mtpfs/src/tree.rs` | entries by handle, listed folders | set_children, lookup, forget_listing |
| Backend | `crates/mtpfs/src/backend.rs` | session, read cache, what the cellphone supports | open with retries, list, read_at, send_object_stream, rename, move, delete |
| MTP session | `crates/mtp-session/src/lib.rs` | transaction id, `session_open`, endpoints | operation, operation_sending, read_answer, drain, repair, drop |
| Protocol | `crates/ptp-proto/src/lib.rs` | none | containers, strings, datasets |
| USB | `crates/usb-freebsd/src/` | device handle, two bulk transfers | descriptors, discovery, read and write with a deadline |
| Automount | `tools/automount/bsdroid-automount` | a lock and a state file per cellphone, the mount table | attach, detach |
| Tools | `crates/mtpprobe`, `crates/hex-fixture` | none of their own | coldstart and reopen reset a device and open it again; the others print what a device says, or read fixtures |

**How they interact.** libfuse runs one callback at a time: `main` adds `-s`, and
every callback takes the one lock `FS`. A callback resolves a path with the tree,
which asks the backend for a listing when it has none. The backend turns each
operation into a command, an optional data phase and a response on the session,
and each transfer has a deadline. Bytes a program writes go to a spool file; the
close (`flush`) sends the whole object. Automount starts one mount for a cellphone
that joins the bus and ends it when the cellphone leaves.

**What is hard.** Callbacks do not overlap, but programs do: two open files of one
path, a second descriptor, a reader beside a writer, a rename of an open file. One
callback does up to five operations on the cellphone, and each can be refused, be
done with its answer lost, or be cut; the mount can die between any two. The tree
is a cache that other steps make stale. The session can pass a deadline with the
answer still on its way. A program that dies leaves all of that for the next one.
`PROJECT.json` lists the hazards with their lines.

**What makes each part correct.**

- *Write path:* nothing a program was told is written gets lost or torn; `close`
  tells the truth; the old contents outlive the arrival of the new ones.
- *Rename:* an answer of 0 means it is done; a refusal leaves the folder as it was.
- *Session:* an answer belongs to its command; a dead program does not stop the
  next one; every call ends; an unmount leaves no session open.
- *Data phase:* the cellphone gets exactly the promised bytes and a clear end.
- *Read path:* a read gives the bytes a direct read would give.
- *Listings:* a listing is right about everything that stood still while it was
  read; a remove takes the object its path names.
- *Protocol and descriptors:* what was meant is read back; what is cut is a fault.
- *USB:* no pointer outlives what it points into; a search that misses is right;
  every search and wait ends.
- *Automount:* a folder carries one mount; a detach ends its own mount and no other.

## The modules

| Module | What it is |
| --- | --- |
| `MtpFs` | the callbacks of the write path, rename and unlink, with the tree and the cellphone |
| `MtpFs_proofs`, `MtpFsSafety_proofs` | its types, owners of spool files, handles and names; and the theorems on contents, answers, renames and removals |
| `Folders_proofs`, `ReadPath_proofs`, `MtpSession_proofs`, `DataPhase_proofs`, `Bus_proofs`, `Automount_proofs` | the theorems of the module of that name, and their inductive invariants |
| `Folders` | walks over paths, listings in both ways, mkdir, rmdir and unlink, and a cellphone that changes by itself |
| `ReadPath` | reads through the cache, and the changes that drop it |
| `FileReads` | what a read promises, in one step; `ReadPath` implements it |
| `MtpSession` | sessions of several programs, one after the other, with one cellphone |
| `DataPhase` | the chunks and packets of a payload, the joined reads of an answer, and drain |
| `PtpWire` | the containers, strings and datasets of `ptp-proto` as operators over bytes |
| `UsbDescriptors` | the walks over descriptors and the choice of the MTP interface, as operators |
| `Parsers` | feeds both with whole and cut inputs and compares with what was meant |
| `Bus` | searching, opening and letting go of a device on a bus that changes |
| `Automount` | attach and detach of several cellphones |
| `MC...` | one for each module that TLC runs: its name for the .cfg, symmetry, sets of renames |

### MtpFs

A path is a folder and a name; contents are a version and a length. `pending`,
`listing`, `entry` and `count` are `Fs.pending`, `Tree.listed`, `Tree.entries` and
`SPOOL_COUNT`. `kept` holds the spool files that no `Pending` owns and why they
stayed. `fds` are the open files of programs with the `FH_WRITER` mark; `objs` are
the objects of the cellphone. An object that moved aside has `aside` above 0, which
stands for `.bsdroid-old-<n>`. `owed` is a history variable: the contents of a path
whose old object the mount removed before the new one arrived.

A callback that needs no change of the cellphone is one action (`OpOpen`,
`OpWrite`, ...). `send_pending` and `op_rename` are one action per operation on the
cellphone (`SendAside` ... `SendPutBack`, `RenameAside` ... `RenameDelete`); `cb`
says which comes next. While `cb` runs no other callback starts, but `Crash` can
happen. Every operation on the cellphone can end in three ways (`Ends`): not done,
done and told, or done with the answer lost when that fault is in `Faults`.

External, from how the code uses it: the cellphone refuses a name that is taken by
a rename; it may accept a second object of one name; after a failed send it keeps a
part or nothing. libfuse turns the unlink of an open file into a rename, and gives
an open file its new path after a rename.

A `Pending` of the model is sent to the path it stands under. The code sends it to
`Pending.parent` and `Pending.name`, which it took from the tree; the two differ only for
an object that a stale listing shows in a folder it has left (see *Stale listing* below).

### MtpSession

`outq` holds what the host wrote and the cellphone has not taken, `inq` what the
host has not read. `stage` is the call a program is in: `open`, `repair`, `reopen`,
`info`, `storage` (`Mtp::open_once`), `get` and `send` (file operations), `close`
(`Drop for Mtp`) and `reclose` (`Drop for Session`). A call writes its command,
perhaps its payload, and reads one or two containers (`phase`). `Failed` and
`Outcome` say where each call goes. A container carries the number of the command
it answers; the code never looks at it, so no guard does: `paired` records whether
the answers were the right ones. `clean` is true while no fault happened since a
session started with nothing on its way to the cellphone.

What is promised begins on a quiet cellphone (`Quiet`): nothing is on its way to it and it
does not wait for a payload. A program that dies inside a payload leaves one that takes
the next command for the rest of it; `Paired`, `OpensAfterAnyone` and `EndedIsClosed` say
nothing of the session that meets it, and only `CallsEnd` does.

Left out: a cellphone that answers "already open" for ever, also after the close of the
repair (`wedged` of `open_session_or_repair`), on which every mount ends with a fault code;
the USB reset of `BSDROID_USB_RESET`, off by default; a cellphone that
lacks partial reads, for which every mount fails in the same way; empty packets in
the endpoint, which belong to the data phase.

### ReadPath and FileReads

`size` and `ver` are the objects of the cellphone: the byte at position `i` is
`<<ver, i>>`, so bytes of different objects and places can be told apart. `known` is
the size the tree holds, `cache` is `Mtp.cache`, `rd` the read that runs, `wide` says
whether the cellphone has `GetPartialObject64`; without it an offset is cut to
`Offsets` values. One turn of the loop in `read_at` is one action: `ReadHit` (the
cache gives a part), `ReadMiss` (`read_from_device` with one or two requests),
`ReadGone` and `ReadFails` (EIO). `Delete` and `Send` are what the other callbacks do
to the objects; a cellphone can give a handle again.

`FileReads` is the abstract specification: a read is one step, and it gives bytes that
stand in one object at the place asked for, as many as asked for unless the cellphone
gave less. The object is one that had the handle at some time since the mount last
listed it: when the cellphone gives a handle to a second and a third object between two
requests, nothing tells the mount, and an answer can be of the one in the middle. It has
no cache, no loop, no split and no read ahead. Where an offset does not fit the 32 bits of
`GetPartialObject` it promises the number of bytes and not which ones (`Right`): the code
cuts the offset and gives bytes of another place, which this abstraction permits. Bytes
that a narrow offset can name are right, in the cache too. `ReadPath` instantiates
it with its own variables (`Files`); the cache and the read that runs are the internal
state the mapping hides, and a step of the loop that does not answer is a stutter.

### DataPhase

One operation with its data phases. Sending: `Command`, `First` (header and payload),
`Loop`, `Finish` (with the empty packet), over a configuration that
`Config::normalised` made. `Take` is the cellphone: it counts bytes, and a write that is
no whole number of packets, or empty, ends the data phase. `Wrap` is the width of the
length field. Answering: `CellphoneAnswers` puts packets into the endpoint (`line`): a
container that can hold fewer bytes than it declares (`length`), or more (`given`), whose
header can come alone, with a response or without. `ReadOnce` is one bulk read: it ends
with a short packet or a full buffer. `ReadFirst`, `ReadMore` and `ReadResponse` are
`read_answer`; `Drop` is a program that stops anywhere, and `Drain` and `DrainEnds` are
the drain of the next one, with its limit of reads (`MaxReadRounds`). `whole` and `exact`
are history, set when the cellphone answers: its answer keeps to the protocol, and its
last transfer is a whole number of buffers.

Two kinds of sizes are named `Misfit`: a buffer that is no whole number of packets, where
a read can meet a packet it has no room for, and an `exact` transfer, whose empty packet
a read meets alone. The promises on taking an answer and on draining are made outside
them; both are facts of the sizes, and neither is recorded by the reads.

### PtpWire, UsbDescriptors and Parsers

A buffer is a sequence of bytes and a reader is a buffer, a position and a verdict. A
layout lists the fields of a dataset in the order the source reads them, so
`StorageInfo`, `ObjectInfo` and `DeviceInfo` are one operator `Parse` with three
layouts. Bytes have `Base` values, not 256: the limits that come from the width of a
field (characters of a string, bytes of a container, elements of an array) are then
small enough to reach. Codes of operations, properties and classes are small numbers;
which class fields make an interface MTP, vendor or adb is one value. `Parsers` has
one action for each kind of input; it chooses what the cellphone means, encodes it
independently of the parsers, cuts it at a byte, and records what the parser gives. Among
the descriptors are broken ones (`Broken`): of no length, and an interface and an endpoint
too short for their fields.

### Bus

`list` is what `Backend::new` took from the bus, `held` the shares of the backend
(`Rc<Backend>`): of the caller, of the handles and of the open device; `dev` and `xfers`
are the open device and its two transfers. `drops` lists what Rust drops at a return,
in its order, and `DropOne` drops one value at a time, so that bus events fall in
between. `Look`, `Inspect` and `FindsNothing` are `discover::find`; the commands around
it are `Mtp::open` with `find_with_patience` (`mount`), mtpprobe's `coldstart` (`first`,
`leave`, `return`, `connect`) and `reopen`, with the check before its cycles (`check`). The
backend of that check lives as long as `reopen` runs; nothing points into it after the
check, so the model lets it go there. A cellphone has a new stay number each time
it joins, and its MTP interface answers some time after (`BecomeReady`).

### Folders

`objs` and `alive` are the cellphone; `entries`, `children` (its domain is the set of
listed folders) and `fast` are `Tree` and `Mtp.fast_list`. `Walk` is one round of
`resolve`; a folder that is not listed is listed by three property requests
(`ByProperties`) or by handles and infos (`GetHandles`, `GetInfo`, `InfosEnd`). `Delete`
and `Mkdir` are the request and what follows it in the tree. `PhoneMakes` and
`PhoneRemoves` happen between any two requests. `stayed` and `seen` are history: what
has been in a folder ever since its listing began, and what was there at some time
since. `older` is history too: the folders whose listing came the older way. Objects are
of the `Kinds` of the instance: a folder or not, a size, and whether the ObjectInfo
dataset of the object parses. The older way drops an object whose dataset does not parse
and goes on (`Parsed`, `backend.rs:692-701`), and has the size of a field of 32 bits
(`InfoEntry`, `MaxField`); a cellphone with a larger object gives the largest value of the
field, and no property depends on which. The walk is the same for every callback, so the
model picks the callback when the walk arrives. External: a folder can hold two objects of
one name; a handle is never given again, an object never changes its name, and a parent is
older than what it holds.

### Automount

devd takes one event at a time and waits for a detach; an attach is a process of its
own (`att`), behind a lock for its cellphone. `mounts` is the mount table: a folder can
carry several mounts, the last on top. `starting` are the mtpfs processes that have a
cellphone and no mount yet. All cellphones of the model are of one kind and want one
label, so folder n is `<label>-<n>`. `astray` is history: cellphones that left in the
middle of their attach or were ejected, whose state file can be stale; `StateNamesOwn`,
`LiveStays` and `DeadGoes` promise nothing of their state files and mounts, `OneMountEach`
and `HelpersEnd` hold for them too.

## How the modules fit

`MtpFs` takes each operation of the backend as one step with its possible ends
(`Ends`). `MtpSession` is where such an end comes from: a lost answer of `MtpFs` is a
call of `MtpSession` that failed after the cellphone took the command. `MtpSession`
in turn takes a data phase as one transfer, which `DataPhase` opens up, and a container
as a record, which `PtpWire` reads from bytes. `ReadPath` opens up the reads that
`MtpFs` copies into a spool file (`Copies`), and `Folders` the listings that `MtpFs` and
`ReadPath` take in one step (`Listed`, `List`). `Bus` comes before all of them: its
`Connect` is the session `MtpSession` opens, and its `Inspect` looks at what
`UsbDescriptors` reads. `Automount` starts and ends the whole.

## The runs

| Run | Result | What it asks |
| --- | --- | --- |
| `write` | pass | the write path of one file, two open files, two mounts, all faults but a lost delete |
| `rename` | pass | renames and writes over two folders and two names |
| `session` | pass | two programs, every fault, late answers without limit |
| `reads` | pass | reads in any order over two handles, with short, failed and lost answers and narrow offsets |
| `send_sizes` | pass | payloads 0..40, answers 3..21, six packet sizes, seven chunks and seven buffers, the length field at its limit |
| `automount` | pass | two cellphones, two nodes, two helpers, four joins, cut off anywhere |
| `parse` | pass | containers, commands, datasets, property lists and descriptors, cut at every byte |
| `find` | pass | mount, cold start and reopen over two cellphones that join three times |
| `folders` | pass | paths of two names, three objects of three kinds, every fault |
| `lost_delete` | violation | the answer of a delete is lost |
| `rename_open` | violation | a file is renamed while a program writes it |
| `late_answer` | violation | an answer comes after its deadline |

**Properties.** `OwedIsKept`: contents the cellphone has no copy of are in a spool
file. `TornNeverSent`: a spool file that a write broke never reaches the cellphone.
`FlushTellsTruth`: after a close that answers 0 the cellphone holds the last
contents written. `WriterHasSpool`: no other close takes a writer's spool file away.
`SpoolsAreOwned`: no spool file is left without reason. `RenameTellsTruth`: a rename
that answers 0 is done. `OldCopyOutlives`: the mount removes an object only when
something safe replaces it. `Paired`, `OpensAfterAnyone`, `EndedIsClosed`: a session on
a quiet cellphone gets its own answers, opens whatever was left behind, and closes.
`CallsEnd`: every call and every mount attempt ends. `ImplementsFileReads`: the refinement
above; `CacheIsRight`: the cache holds bytes of the object that has its handle now, which
the refinement rests on; `ReadsEnd`: the loop ends. `EndsOnlyWhole`, `EndIsSeen`,
`RoundsSuffice`: the cellphone sees the end of a payload exactly behind its last byte, and
no loop bound stops a transfer. `AnswerIsWhole`: an operation that ends well has all the
bytes that came and no fewer than were declared. `WholeIsTaken`: a whole answer is taken,
and `DrainEmpties`: a drain leaves nothing for the next command to mistake, both at every
size that is no `Misfit`. `OneMountEach`, `StateNamesOwn`, `LiveStays`, `DeadGoes`,
`HelpersEnd`: the promises of automount above. `DatasetsReadBack`, `ListingsReadBack`,
`DescriptorsReadBack`: the parsers against what the input was made from, with the fault
exactly where it is due. `PointersLive`, `MissIsRight`, `CommandsEnd`: ownership, search
and waits on the bus. `ListingIsRight`, `DeletesNamed`: listings and removes on a cellphone
that changes by itself.

**Bounds.** One path is enough for the write path because a `Pending` is keyed by
its path and no callback of it touches two; two open files show every pair of
roles (writer and writer, writer and reader, two closes). Lengths 0..2 with
`MaxPayload` 1 give an empty file, one that can be sent and one too large. Two
handles give an old and a new object, so one replacement runs to its end; a second
one needs a third handle and is cut off by the guard of `SendAnnounce`. The mount
can be restarted once. The rename run has two folders and two names, so that a
target can exist and a move and a change of name can be told apart; it allows
renames that change one of the two (`PlainRenames`), because a rename that changes
both reaches the stale listing below. The session run has two programs, two
attempts, two questions for a storage, one file operation and one fault besides
late answers. The read run has objects of up to two bytes, reads of up to three, a read
ahead of one and packets of two, so reads hit, cross and miss the cache, and the last read
is split; each handle is given three times, so that an object can come and go between two
requests, and a narrow offset names one byte of the two. The send
run covers payloads of several chunks, chunks below, at and above whole packets,
packets below and above the header, answers of several reads and one byte above
`MAX_DATA_BYTES`. The automount run needs four joins for a cellphone that leaves and
comes back while the other one does the same; one turn of waiting stands for 25,
because nothing but the count tells the turns apart. The parse run has up to four
descriptors and two property elements, so an endpoint can follow a class descriptor and
a second interface, and an object can be met twice; names of up to four units pass the
limit of two. The find run has two looks, two tries and two waits, so that each bound is
reached and not reached. The folders run has a folder in the root, an object in it and a
third one that comes while the others are listed, of either name; the kinds are a folder, a
file whose size does not fit the field and one whose dataset does not parse. Its `VIEW`
leaves out what no later step and no property reads: objects that are gone and that no
answer names, entries that no listing and no call leads to, and the histories of folders
without a listing, which a listing begins anew. Deadlock is checked in `find` and
`folders`; in the others a program that reached a bound, or an idle one, stops.

**Flags.** `SharedWriters`, `RenameOpen`, `CanMove` and the members of `Faults` separate
what holds from what does not: the passing runs leave out exactly the cases that the
violation runs, or the list below, show.

**Fairness.** `MtpFs`, `DataPhase`, `Parsers` and `Folders` state none; their properties
are safety properties. `MtpSession` assumes weak fairness of the steps a program takes by
itself: a thread that can go on does. Nothing is assumed of the cellphone. A read that
gets nothing passes its deadline, which the code gives to every transfer. `ReadPath`
assumes weak fairness of a callback that runs, without its fault: the loop ends by itself.
`Bus` assumes it of the steps of a command, and nothing of the bus, which may change for
ever. `Automount` assumes it of devd, of each helper and of mtpfs, whose start ends in
a mount or an error because all it does has a deadline (`CallsEnd`, `CommandsEnd`).

## What the violation runs show

1. `lost_delete`: a delete that worked without an answer loses old and new contents
   (`send_pending` returns before it sets `keep_spool`).
2. `rename_open`: `op_rename` does not move the `Pending` to the new path.
3. `late_answer`: a file operation gets the bytes of the one before it.

Each finding in `PROJECT.json` quotes the line of the repository it disagrees with.

## Divergences without a run

Met while modelling, and reproducible by the values named:

- *Two writers* (`write` with `SharedWriters = TRUE`, `FlushTellsTruth`): `op_flush`
  gives the kept answer of the first send (`main.rs:1275`), so bytes written after it
  through another descriptor are accepted, never sent, and `close` says 0, though
  `docs/07-filesystem-design.md:155` has the close send the whole object.
- *Stale listing* (`rename` with `Renames <- AllRenames`, `OldCopyOutlives`): after a move
  that worked and a name that was refused only the listing of the new folder is forgotten
  (`main.rs:932`), and a later rename of the stale path removes its target, before anything
  holds the name (`docs/10-what-works.md:100`).
- *Refused move* (`CanMove = FALSE`): `op_rename` answers ENOTSUP with the target still
  under its `.bsdroid-old` name (`main.rs:902`), while line 922 puts it back, "so the folder
  looks as it did".
- *Spool left behind* (`rename` with the fault `copy` or `setlen`, `SpoolsAreOwned`):
  `adopt_for_write` and `op_truncate` leave a spool file when one step fails, against
  `docs/10-what-works.md:295`.
- *Drain* (`send_sizes` without `Misfit` in `DrainEmpties`): `drain` takes a read without
  bytes for an empty endpoint (`lib.rs:891`). A data container of a whole number of buffers
  ends with an empty packet; a drain that meets it alone stops there and leaves the response
  to the next command, while `recover` is said to drop what the device still holds
  (`lib.rs:860`).
- *Last packet*: `split_final_read` looks at the payload alone (`backend.rs:328`), and the
  packet that hangs the cellphone (`docs/07-filesystem-design.md:43`) also holds the header:
  a file of 500 bytes on packets of 512 is not split.
- *Automount*, with a member added to `Faults`: `together` (two cellphones of one kind take
  one folder, because the lock is per cellphone), `slow` (a mount appears after the helper
  gave up, so no state file names it), `busy` (a detach unmounts a cellphone that is slow to
  answer), `lag` (devd handles a detach after the cellphone came back), `holds` (umount -f fails too,
  and the state file is gone already, so the dead mount stays).
- *Folders*: `op_rmdir` never looks whether the folder is empty, and DeleteObject removes
  what it holds; an object that vanishes between the three requests is listed with size 0
  and as a file; one object that vanishes during the older way fails the whole listing, and
  `resolve` turns that into ENOENT.
- *Bus*: the list of devices is taken once for all looks of `find_with_patience`, so a
  cellphone that joins during them is not seen, and `NoDevice` is not tried again;
  coldstart's waits look at any device, not at the one `-d` names.
- *Data phase*: `read_answer` refuses a whole answer whose length is a multiple of the read
  buffer, because its empty packet is where the response is due (`WholeIsTaken` without
  `Misfit`).
- *Listings*: the older way leaves out an object whose dataset does not parse, without a
  word unless debugging is on, though the comment there (`backend.rs:695`) speaks of that
  as a fault of an earlier version; `op_mkdir` and a write can then make a second object of
  the name.
- *Descriptors*: a still imaging interface without its endpoints hides a complete vendor
  one, because the search stops at the first match.

## The proofs

All theorems hold for every value of the constants that the named assumptions of the
modules allow: any sets of names, cellphones, versions and open files, any bounds, and,
where not said otherwise, any faults. In each module a property alone is not inductive;
`Inv` is the strengthening, TLC checked it before it was proved, and there is one lemma
for each action.

- *Write path.* `TypeCorrect` (`MtpFs_proofs`): `TypeOK` needs `CallbackOK`, what the
  next step of a callback relies on, because `SendData` writes into the object that
  `SendAnnounce` made and `Finish` puts back the `Pending` the send took. `NothingTorn`
  (`MtpFsSafety_proofs`): torn contents are marked `broken` (`TornMarked`) and a callback
  inside a send has a whole spool file (`SendsWhole`). `OwedContentsSafe`, when no delete
  loses its answer, which is exactly the finding `lost_delete`: for each path, where the
  owed contents are and that the `Pending` that holds them will keep its spool file, or
  that the running send has marked the old object as gone (`GoneOK`).
- *What the write path answers and removes.* Five theorems, each under `LoneWriters`
  (neither `SharedWriters` nor `RenameOpen`: with either one TLC breaks `FlushTellsTruth`, see
  *Two writers* and `rename_open` above). The invariants, in layers:
  - `WriterInv` (`MtpFs_proofs`): a path has one writer; a send runs for the writer of its
    path, or for a truncate of a path without one; a rename runs for paths nobody holds
    open; a `Pending` has a writer, or is the one truncate sends. It gives
    `WritersKeepSpools`, for all faults.
  - `HandleInv`: the tree and `Pending.replaces` name no handle that the cellphone has not
    given out, so the object a send made is never the one it replaces. `NamesInv`: a listed
    object that is still there has the folder and the name the tree says, except in the two
    folders of a running rename, which forgets them at its end; what a `Pending` replaces is
    at its path; and where the two objects of a rename are at each step.
  - `SentInv`: a kept answer `sent = "OK"` means the cellphone holds the contents of the spool
    file under the name, and those are what the open file wrote. It gives `FlushIsTrue`.
  - `ExactInv`: while no answer of a delete or of a rename is lost, a listed object is there
    and has the very name, also the number behind it when it is aside; and the object that a
    rename moves is there once an operation on it succeeded. It gives `RenameIsTrue`, and
    `OldCopyLast`, which says that `OldCopyOutlives` holds of every step.
  - `NoStray`, with `WriterInv`, gives `SpoolsHaveOwners`.

  `SteadyNames` is the hypothesis of all but `WritersKeepSpools`. It says: where a program
  renames one path to another, the rename changes the folder or the name and not both, no
  answer of a move is lost, and no cut of a spool file fails. A file system whose programs
  rename nothing meets it with every fault. The first limit is what `PlainRenames` is for. For
  a lost answer of a move TLC breaks `RenameTellsTruth` and `OldCopyOutlives` on the instance
  of the run `rename`. The third is there for the proof alone: a failed cut leaves a `Pending`
  that nobody writes, and a rename of its path moves the object from under it (`NamesInv` does
  not hold then), but TLC finds no property broken by it. `ToldNames` of `RenameIsTrue` and
  `OldCopyLast`: where a program renames, no answer of a rename is lost; TLC breaks both
  properties without it. `Tidy` of `SpoolsHaveOwners`: no fault `copy`, `delete` or `setlen`;
  each of them alone leaves a spool file without an owner. The run `write` meets `LoneWriters`,
  `SteadyNames` and `ToldNames` (it has one path) with all its faults, and the run `rename` meets all
  four. `UnlistedAssumption` says that the value for a folder without a listing is not a listing.
- *Listings* (`Folders_proofs`). `ListingsStayRight` and `RemovesTheNamed`. The invariant
  says what each request of a running listing was told: everything that stayed (in the older
  way, all of it that parses), nothing that was never there, and whatever is still there is in every later answer too
  (`PropsOK`), so that the fold of the three answers gives each object its own name, kind
  and size. An entry of the tree is right about parent and name for ever, and about all of
  it while its object is there (`EntriesOK`); a parent is older than what it holds
  (`DeviceOK`). That a walk ends at the object of its path, for paths of any length
  (`LookupLeads`), is an induction along the path; the provers take no induction rule over a
  predicate, so it takes the least position where the claim fails (`LeastOf`). `WaysIs` and
  `LookupsIs` show in the same way that the two recursive functions exist.
- *Read path* (`ReadPath_proofs`). `ReadPathTypeCorrect`, `CacheHoldsTheObject` and
  `ReadsAreAtomic`, the refinement of `FileReads`: every step of the loop is a stutter but
  the one that answers. The invariant says that the bytes a read has so far all stand in
  one object that had the handle since the last listing (`ReadOK`, `SeenOK`). The attempt
  to prove the first form of `FileReads`, which named the object of now or of the last
  listing, failed for a handle that is given twice between two requests; TLC shows it with
  `MaxVersion = 2`, which the run has since.
- *Session* (`MtpSession_proofs`). `SessionTypeCorrect`, `AnswersPaired`,
  `MountsAfterAnyone`, `EndsClosed`. `CleanOK` says, for a session without a fault, exactly
  what is in the two endpoints at each stage and phase of a call and whether the cellphone
  has a session open; the pairing of answers follows, since the code compares nothing.
- *Data phase* (`DataPhase_proofs`). `DataPhaseTypeCorrect`, `NoEarlyEnd`, `EndAlwaysSeen`,
  `BoundsSuffice`, `AnswersAreWhole`, `WholeAnswersTaken`, `DrainLeavesNothing`. `SendOK`
  relates what was written, what the cellphone counted and the packet boundary between
  them; `AnswerOK` relates the packets of the endpoint to the rest of the container. For
  the drain, `LineOK` says that outside the misfits every read that can still come brings
  bytes while packets are left: the endpoint holds the rest of a data transfer that is no
  whole number of buffers, and perhaps a response behind it (`Clean`); a read keeps that,
  and one without bytes finds nothing (`NoBytesRead`). `DrainOK` says that what is left fits
  into the reads the drain has left (`Room`), so that its limit does not stop it early.
  Assumptions on the sizes: packets, chunks and buffers are any numbers, from which
  `Config::normalised` makes the configuration; `MinBuffer` holds a header; and `MaxData` is a multiple of
  `MinBuffer`, as `MAX_DATA_BYTES` (64 GiB) is of `READ_BUFFER_MIN` (512); the number of rounds is
  their quotient, and without the multiple the bound would be one read short.
- *Bus* (`Bus_proofs`). `NoDanglingPointer` and `NoDeviceMissed`. The invariant lists what a
  program owns at each place and in each state of a drop (`Holds`, `DropsOK`), and that no
  device which a search passed over answered all through the look (`MissedOK`); that needs
  stays with numbers of their own and the fact that a stay which answered at the beginning
  of a look answers until it ends (`BusOK`).
- *Automount* (`Automount_proofs`). `AutomountTypeCorrect` for all faults, and
  `NoFolderShared`, `StateFilesOwn`, `DetachSparesLive` and `DeadMountsGo` under `Calm`: none
  of `holds`, `together`, `busy`, `lag` and `slow` happens, the faults which the helper does
  not withstand (listed above with what goes wrong; its run has the other five). The
  invariant: devd has one event at most and the bus stands as it says (`QueueOK`); one cellphone is attached at a time (`AloneOK`), nobody else
  has its node (`NodeOK`) and its lock leaves one process behind it (`LockOK`), so that a
  free folder is still free when its mount appears (`StartOK`, `OwnOK`); a mount that answers
  is named by a state file or by the process that is about to write it (`LiveOK`); the state
  file of a cellphone that is not astray names its mount (`StateOK`), and a mount that does
  not answer is the one a detach is about to take (`DeadOK`, `DevdOK`). Assumption:
  `MOUNT_WAIT` is at least 1 (it is 25), for a helper that never looks would write no state file.

**Only model-checked.** The liveness properties (`CallsEnd`, `ReadsEnd`, `CommandsEnd`,
`HelpersEnd`): out of the prover's reach. `DatasetsReadBack`, `ListingsReadBack` and
`DescriptorsReadBack`: what the recursive parsers compute for every input is an induction
over data.

## The plan

1. Reads that a spool file answers, and renames of folders with open files below them.
2. An abstract file store that `MtpFs` implements for one writer per path; `NamesInv`,
   `SentInv` and `ExactInv` are what its refinement would rest on.

## Not modelled

`hex-fixture` (tests only) and the generated bindings; the commands of `mtpprobe` that
only print; the callbacks that change nothing (statfs, utimens, chmod, chown); the names of
codes and other texts for a person; control transfers of USB (strings, stalls, the PTP
reset request), whose outcome the host does not keep; a read that a spool file answers,
which is one read of a file of the host; a rename of a folder while a file below it is
open; `Tree::path_of`, which only its tests call; the limit of 64 rounds of `resolve`, which
a path of the model does not reach.
