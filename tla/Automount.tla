----------------------------- MODULE Automount -----------------------------
(***************************************************************************)
(* The automount helper: tools/automount/bsdroid-automount, which devd     *)
(* starts for every cellphone that joins or leaves the bus.                *)
(*                                                                         *)
(* devd handles one event after the other and waits for a detach; an       *)
(* attach goes on in a process of its own, behind a lock for its           *)
(* cellphone.  They share the state files, the mount table and the bus.    *)
(* All cellphones are of one model, so they all want one folder: folder n  *)
(* is <label>-<n>, and folder 1 is <label>.                                *)
(***************************************************************************)
EXTENDS Integers, Sequences, SequencesExt

CONSTANTS
    Phones,     \* cellphones; each has a serial number, the key of its files
    Nodes,      \* names of USB nodes (cdev)
    Helpers,    \* bound: attach processes at one time
    MaxFolder,  \* the last folder the search tries (9)
    MountWait,  \* MOUNT_WAIT, in turns of the loop
    MaxJoins,   \* bound: how often a cellphone joins the bus
    Faults,     \* what can happen, see FaultKinds
    None        \* no node, no folder, no process

\* charge: a cellphone gives no MTP, or mtpfs is not there
\* nomount: mtpfs gives up, or the folder cannot be made
\* holds: umount fails, with -f too;  expire: lockf passes its deadline
\* together: a cellphone joins while another one is being mounted
\* leave: a cellphone leaves while it is being mounted
\* busy: ls of a mount that works takes more than 5 seconds
\* lag: cellphones come and go while devd still has events to handle
\* slow: a mount appears when its helper no longer waits for it
\* eject: a person unmounts a folder
FaultKinds == {"charge", "nomount", "holds", "expire", "together", "leave", "busy", "lag", "slow", "eject"}

Folders == 1..MaxFolder

ASSUME FolderAssumption == MaxFolder \in Nat \ {0} /\ MountWait \in Nat \ {0} /\ MaxJoins \in Nat
ASSUME FaultsAssumption == Faults \subseteq FaultKinds
ASSUME NoneAssumption == None \notin Phones \cup Nodes \cup Helpers \cup Folders

VARIABLES
    bus,      \* cellphone -> its node, or None
    joins,    \* how often a cellphone joined
    events,   \* what devd has not handled yet
    devd,     \* the detach that devd waits for
    att,      \* attach process -> what it does
    lock,     \* cellphone -> the process that holds bsdroid-lock
    state,    \* cellphone -> the folder in bsdroid-mount, or None
    starting, \* mtpfs processes that have a cellphone and no mount yet
    mounts,   \* folder -> its mounts, the last one on top
    astray    \* history: cellphones that left while they were being mounted, or that
              \* were unmounted while on the bus: their state file can be stale

files == <<lock, state>>
vars == <<bus, joins, events, devd, att, lock, state, starting, mounts, astray>>

Events == [kind: {"attach", "detach"}, node: Nodes, phone: Phones]
NoAttach == [pc |-> "none", node |-> None, phone |-> None, point |-> None, i |-> 0]
Attaches == [pc: {"none", "lock", "check", "name", "find", "start", "wait", "write"},
             node: Nodes \cup {None}, phone: Phones \cup {None},
             point: Folders \cup {None}, i: 0..MountWait]
NoDetach == [pc |-> "none", phone |-> None, point |-> None]
Detaches == [pc: {"none", "find", "umount"}, phone: Phones \cup {None}, point: Folders \cup {None}]
Mounts == [phone: Phones, live: BOOLEAN]

Top(f) == Last(mounts[f])
At(node) == {p \in Phones : bus[p] = node}

\* mounted_at
MountedAt(f) == mounts[f] # <<>>

\* An attach of a cellphone is under way, its mtpfs included.
Attaching(p) ==
    \/ \E h \in Helpers : att[h].pc # "none" /\ att[h].phone = p
    \/ \E s \in starting : s.phone = p
    \/ \E i \in 1..Len(events) : events[i].kind = "attach" /\ events[i].phone = p

-----------------------------------------------------------------------------
(* An attach.                                                              *)

\* devd starts the process and goes on.
DevdAttach(h) ==
    /\ events # <<>> /\ Head(events).kind = "attach" /\ devd.pc = "none" /\ att[h].pc = "none"
    /\ att' = [att EXCEPT ![h] = [NoAttach EXCEPT !.pc = "lock", !.node = Head(events).node,
                                                  !.phone = Head(events).phone]]
    /\ events' = Tail(events)
    /\ UNCHANGED <<bus, joins, devd, files, starting, mounts, astray>>

\* The process goes to a step, or ends and gives up its lock.
Go(h, pc) == att' = [att EXCEPT ![h].pc = pc] /\ UNCHANGED lock
End(h) ==
    /\ att' = [att EXCEPT ![h] = NoAttach]
    /\ lock' = [lock EXCEPT ![att[h].phone] = IF @ = h THEN None ELSE @]

\* lockf -t: the lock, or the deadline.
AttachLock(h) ==
    /\ att[h].pc = "lock"
    /\ \/ /\ lock[att[h].phone] = None
          /\ lock' = [lock EXCEPT ![att[h].phone] = h]
          /\ att' = [att EXCEPT ![h].pc = "check"]
       \/ "expire" \in Faults /\ lock[att[h].phone] # None /\ End(h)
    /\ UNCHANGED <<bus, joins, events, devd, state, starting, mounts, astray>>

\* "already holds a mount"
AttachCheck(h) ==
    LET f == state[att[h].phone] IN
    /\ att[h].pc = "check"
    /\ IF f # None /\ MountedAt(f) THEN End(h) ELSE Go(h, "name")
    /\ UNCHANGED <<bus, joins, events, devd, state, starting, mounts, astray>>

\* mtpfs --name, for the cellphone that has the node now.
AttachName(h) ==
    /\ att[h].pc = "name"
    /\ \/ At(att[h].node) # {} /\ Go(h, "find")
       \/ (At(att[h].node) = {} \/ "charge" \in Faults) /\ End(h)
    /\ UNCHANGED <<bus, joins, events, devd, state, starting, mounts, astray>>

\* The first folder that no mount holds.
MutFree(f) == TRUE
Free(f) == ~MountedAt(f)

AttachFind(h) ==
    /\ att[h].pc = "find"
    /\ IF \E f \in Folders : Free(f)
       THEN /\ att' = [att EXCEPT ![h].pc = "start",
                                  ![h].point = CHOOSE f \in Folders :
                                      Free(f) /\ \A g \in Folders : Free(g) => f <= g]
            /\ UNCHANGED lock
       ELSE End(h)
    /\ UNCHANGED <<bus, joins, events, devd, state, starting, mounts, astray>>

\* mkdir and chown, then mtpfs takes the cellphone that has the node, or gives up.
AttachStart(h) ==
    /\ att[h].pc = "start"
    /\ \/ /\ \E p \in At(att[h].node) :
                starting' = starting \cup {[phone |-> p, live |-> TRUE, point |-> att[h].point]}
          /\ Go(h, "wait")
       \/ (At(att[h].node) = {} \/ "nomount" \in Faults) /\ Go(h, "wait") /\ UNCHANGED starting
       \/ "nomount" \in Faults /\ End(h) /\ UNCHANGED starting
    /\ UNCHANGED <<bus, joins, events, devd, state, mounts, astray>>

\* One turn of the wait.
MutWaits(h) == att[h].i <= MountWait
Waits(h) == att[h].i < MountWait
MutTurn(i) == i
Turn(i) == i + 1
Coming(h) == \E s \in starting : s.point = att[h].point

AttachWait(h) ==
    /\ att[h].pc = "wait"
    /\ "slow" \in Faults \/ MountedAt(att[h].point) \/ ~Coming(h)
    /\ IF ~Waits(h) THEN End(h)
       ELSE IF MountedAt(att[h].point) THEN Go(h, "write")
       ELSE IF At(att[h].node) = {} THEN End(h)
       ELSE att' = [att EXCEPT ![h].i = Turn(@)] /\ UNCHANGED lock
    /\ UNCHANGED <<bus, joins, events, devd, state, starting, mounts, astray>>

\* The state file.
AttachWrite(h) ==
    /\ att[h].pc = "write"
    /\ state' = [state EXCEPT ![att[h].phone] = att[h].point]
    /\ End(h)
    /\ UNCHANGED <<bus, joins, events, devd, starting, mounts, astray>>

-----------------------------------------------------------------------------
(* A detach. It takes no lock, and devd waits for it.                      *)

\* The state file is read and removed.
MutAfterRead(p) == state
AfterRead(p) == [state EXCEPT ![p] = None]

DetachRead ==
    /\ events # <<>> /\ Head(events).kind = "detach" /\ devd.pc = "none"
    /\ events' = Tail(events)
    /\ LET p == Head(events).phone IN
       /\ devd' = [pc |-> "find", phone |-> p, point |-> state[p]]
       /\ state' = AfterRead(p)
    /\ UNCHANGED <<bus, joins, att, lock, starting, mounts, astray>>

\* The scan: ls of a mount whose cellphone is gone fails, and one that is slow
\* runs into its timeout.
MutLooksDead == {f \in Folders : MountedAt(f)}
LooksDead == {f \in Folders : MountedAt(f) /\ (~Top(f).live \/ "busy" \in Faults)}
Answers == {f \in Folders : MountedAt(f) /\ Top(f).live}

\* Without a folder that is mounted, the scan takes the first that looks dead.
DetachFind ==
    LET known == devd.point # None /\ MountedAt(devd.point)
        goOn(f) == devd' = [devd EXCEPT !.pc = "umount", !.point = f]
    IN
    /\ devd.pc = "find"
    /\ \/ known /\ goOn(devd.point)
       \/ ~known /\ \E f \in LooksDead : goOn(f)
       \/ ~known /\ LooksDead \subseteq Answers /\ devd' = NoDetach
    /\ UNCHANGED <<bus, joins, events, att, files, starting, mounts, astray>>

\* umount, or umount -f for a cellphone that is gone.
MutUnmounted(f) == IF MountedAt(f) /\ Top(f).live THEN Front(mounts[f]) ELSE mounts[f]
Unmounted(f) == IF MountedAt(f) THEN Front(mounts[f]) ELSE mounts[f]

DetachUmount ==
    /\ devd.pc = "umount"
    /\ devd' = NoDetach
    /\ \/ mounts' = [mounts EXCEPT ![devd.point] = Unmounted(devd.point)]
       \/ "holds" \in Faults /\ UNCHANGED mounts
    /\ astray' = astray \cup {p \in Phones : MountedAt(devd.point) /\ Top(devd.point) = [phone |-> p, live |-> TRUE]}
    /\ UNCHANGED <<bus, joins, events, att, files, starting>>

-----------------------------------------------------------------------------
(* The bus, mtpfs and a person.                                            *)

Event(kind, node, p) == events' = Append(events, [kind |-> kind, node |-> node, phone |-> p])

DevdIsIdle == events = <<>> /\ devd.pc = "none"
Left(p, m) == IF m.phone = p THEN [m EXCEPT !.live = FALSE] ELSE m

\* A cellphone joins and takes a node that is free.
Join(p, node) ==
    /\ bus[p] = None /\ At(node) = {} /\ joins < MaxJoins
    /\ "lag" \in Faults \/ DevdIsIdle
    /\ "together" \in Faults \/ \A q \in Phones \ {p} : ~Attaching(q)
    /\ bus' = [bus EXCEPT ![p] = node]
    /\ joins' = joins + 1
    /\ Event("attach", node, p)
    /\ UNCHANGED <<devd, att, files, starting, mounts, astray>>

\* It leaves, and its mount answers nothing from then on.
Leave(p) ==
    /\ bus[p] # None
    /\ "lag" \in Faults \/ DevdIsIdle
    /\ "leave" \in Faults \/ ~Attaching(p)
    /\ bus' = [bus EXCEPT ![p] = None]
    /\ Event("detach", bus[p], p)
    /\ mounts' = [f \in Folders |-> [i \in 1..Len(mounts[f]) |-> Left(p, mounts[f][i])]]
    /\ starting' = {Left(p, s) : s \in starting}
    /\ astray' = IF Attaching(p) THEN astray \cup {p} ELSE astray
    /\ UNCHANGED <<joins, devd, att, files>>

\* The mount of an mtpfs process appears, or the process ends.
MountAppears(s) ==
    /\ mounts' = [mounts EXCEPT ![s.point] = Append(@, [phone |-> s.phone, live |-> s.live])]
    /\ starting' = starting \ {s}
    /\ UNCHANGED <<bus, joins, events, devd, att, files, astray>>
MountFails(s) ==
    /\ "nomount" \in Faults \/ ~s.live
    /\ starting' = starting \ {s}
    /\ UNCHANGED <<bus, joins, events, devd, att, files, mounts, astray>>

\* A person unmounts a folder, not in the moment a detach runs.
Eject(f) ==
    /\ "eject" \in Faults /\ MountedAt(f) /\ devd.pc = "none"
    /\ astray' = astray \cup {Top(f).phone}
    /\ mounts' = [mounts EXCEPT ![f] = Front(@)]
    /\ UNCHANGED <<bus, joins, events, devd, att, files, starting>>

Init ==
    /\ bus = [p \in Phones |-> None] /\ joins = 0 /\ events = <<>>
    /\ devd = NoDetach /\ att = [h \in Helpers |-> NoAttach]
    /\ lock = [p \in Phones |-> None] /\ state = [p \in Phones |-> None]
    /\ starting = {} /\ mounts = [f \in Folders |-> <<>>] /\ astray = {}

AttachStep(h) ==
    \/ AttachLock(h) \/ AttachCheck(h) \/ AttachName(h) \/ AttachFind(h)
    \/ AttachStart(h) \/ AttachWait(h) \/ AttachWrite(h)
DevdStep == (\E h \in Helpers : DevdAttach(h)) \/ DetachRead \/ DetachFind \/ DetachUmount
MtpfsStep == \E s \in starting : MountAppears(s) \/ MountFails(s)

Next ==
    \/ \E h \in Helpers : AttachStep(h)
    \/ DevdStep
    \/ \E p \in Phones, node \in Nodes : Join(p, node)
    \/ \E p \in Phones : Leave(p)
    \/ MtpfsStep
    \/ \E f \in Folders : Eject(f)

\* Processes of the host go on; mtpfs mounts or ends, for all it does has a deadline.
Spec ==
    /\ Init /\ [][Next]_vars
    /\ WF_vars(DevdStep) /\ WF_vars(MtpfsStep) /\ \A h \in Helpers : WF_vars(AttachStep(h))

-----------------------------------------------------------------------------
(* Properties.                                                             *)

\* The variables hold values of their kind; the wait of a helper stays within
\* MOUNT_WAIT.
TypeOK ==
    /\ bus \in [Phones -> Nodes \cup {None}] /\ joins \in 0..MaxJoins
    /\ events \in Seq(Events) /\ devd \in Detaches /\ att \in [Helpers -> Attaches]
    /\ lock \in [Phones -> Helpers \cup {None}] /\ state \in [Phones -> Folders \cup {None}]
    /\ starting \in SUBSET [phone: Phones, live: BOOLEAN, point: Folders]
    /\ mounts \in [Folders -> Seq(Mounts)] /\ astray \in SUBSET Phones

\* "The second cellphone must not take the folder of the first one", and no
\* cellphone is mounted twice, though its second attach may start while the
\* first still runs (the search for a folder, and lockf).
OneMountEach ==
    /\ \A f \in Folders : Len(mounts[f]) <= 1
    /\ \A f, g \in Folders :
          f # g /\ MountedAt(f) /\ MountedAt(g) /\ Top(f).live /\ Top(g).live => Top(f).phone # Top(g).phone

\* A state file never names a folder that another cellphone is mounted on: its
\* detach would unmount that one. It can do so only for a cellphone that went
\* astray (the write of the state file, and rm -f in detach).
StateNamesOwn ==
    \A p \in Phones \ astray : state[p] # None /\ MountedAt(state[p]) => Top(state[p]).phone = p

Unmounts == devd.pc = "umount" /\ devd' = NoDetach /\ mounts' # mounts

\* A detach unmounts no cellphone that is on the bus, unless the one that left
\* had gone astray (the state file, and the scan as the owner of the mount).
LiveStays == [][Unmounts => ~Top(devd.point).live \/ devd.phone \in astray]_vars

\* When nothing runs any more, the mount of every cellphone that left is gone,
\* except for one that left in the middle of its attach: its mount can appear
\* behind its detach (detach with its scan).
DeadGoes ==
    DevdIsIdle /\ starting = {} /\ (\A h \in Helpers : att[h].pc = "none")
        => \A f \in Folders : MountedAt(f) /\ Top(f).phone \notin astray => Top(f).live

\* Every attach process ends and gives up its lock: it waits MOUNT_WAIT turns
\* at most, and for the lock until the process before it ends.
HelpersEnd == \A h \in Helpers : att[h].pc # "none" ~> att[h].pc = "none"
=============================================================================
