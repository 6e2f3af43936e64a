--------------------------------- MODULE Bus ---------------------------------
(***************************************************************************)
(* Finding, opening and letting go of a cellphone: discover.rs and         *)
(* device.rs of crates/usb-freebsd, Mtp::open of crates/mtpfs, and the     *)
(* cold start and reopen commands of crates/mtpprobe.                      *)
(*                                                                         *)
(* Cellphones join and leave the bus at any time. One program at a time    *)
(* searches the list of devices, which is taken once for each backend,     *)
(* opens a device and its two transfers, uses it, and lets everything go;  *)
(* what it lets go, in which order, is what Rust drops at that place.      *)
(***************************************************************************)
EXTENDS Integers, Sequences

CONSTANTS
    Phones,          \* cellphones, each a vendor and product of its own
    MaxAddr,         \* bound: addresses on the bus
    MaxPlugs,        \* bound: how often a cellphone joins the bus
    FindAttempts,    \* FIND_ATTEMPTS: looks of one search, and tries of Mtp::open
    LeaveAttempts,   \* LEAVE_ATTEMPTS and RETURN_ATTEMPTS of a cold start
    Cycles,          \* bound: cycles of the reopen command
    Faults           \* the faults that can happen, see FaultKinds

\* backend: the library gives no backend
\* transfer: a transfer cannot be opened
\* session: a session fails although the cellphone is there
\* refuse: the cellphone answers with a fault code, or cannot read a part
\* root: a reset is refused, because the user is not root
FaultKinds == {"backend", "transfer", "session", "refuse", "root"}

ASSUME BoundsAssumption ==
    /\ MaxAddr \in Nat /\ MaxPlugs \in Nat /\ Cycles \in Nat \ {0}
    /\ FindAttempts \in Nat \ {0} /\ LeaveAttempts \in Nat \ {0}
ASSUME FaultsAssumption == Faults \subseteq FaultKinds

Addrs == 1..MaxAddr
Nobody == [phone |-> "none", plug |-> 0]

VARIABLES
    bus,     \* address -> the cellphone there, and the number of its stay
    ready,   \* stays whose MTP interface answers
    plugs,   \* how many stays there were
    pc,      \* what the program does next
    call,    \* the command, what it searches, and its counters
    list,    \* the devices the backend knows
    at,      \* the device the search looks at
    held,    \* who holds a share of the backend: Rc<Backend>
    dev,     \* the OpenDevice, or NoDevice
    xfers,   \* the open transfers
    drops,   \* what is being dropped, in order, and pc after it
    steady   \* history: stays that answered when this look began

env == <<bus, ready, plugs>>
owned == <<held, dev, xfers>>
vars == <<bus, ready, plugs, pc, call, list, at, held, dev, xfers, drops, steady>>

NoDevice == [addr |-> 0, phone |-> "none", plug |-> 0]
Entries == [addr: Addrs, phone: Phones, plug: 1..MaxPlugs]
Selectors == [kind: {"any"}] \cup [kind: {"node"}, addr: Addrs] \cup [kind: {"ids"}, phone: Phones]
NoCall == [kind |-> "none"]
NotDropping == [what |-> <<>>, then |-> "none"]

\* The addresses of the cellphones on the bus, in order.
InOrder ==
    {s \in UNION {[1..n -> Addrs] : n \in 0..MaxAddr} :
        /\ {s[i] : i \in DOMAIN s} = {a \in Addrs : bus[a] # Nobody}
        /\ \A i, j \in DOMAIN s : i < j => s[i] < s[j]}

Plugged(e) == bus[e.addr].plug = e.plug
Answers(e) == Plugged(e) /\ e.plug \in ready

-----------------------------------------------------------------------------
(* The bus.                                                                *)

Join(p, a) ==
    /\ bus[a] = Nobody /\ \A b \in Addrs : bus[b].phone # p
    /\ plugs < MaxPlugs /\ plugs' = plugs + 1
    /\ bus' = [bus EXCEPT ![a] = [phone |-> p, plug |-> plugs + 1]]
    /\ UNCHANGED <<ready, pc, call, list, at, owned, drops, steady>>

\* The MTP interface comes some time after the device.
BecomeReady(a) ==
    /\ bus[a] # Nobody /\ bus[a].plug \notin ready
    /\ ready' = ready \cup {bus[a].plug}
    /\ UNCHANGED <<bus, plugs, pc, call, list, at, owned, drops, steady>>

Leave(a) ==
    /\ bus[a] # Nobody
    /\ bus' = [bus EXCEPT ![a] = Nobody]
    /\ ready' = ready \ {bus[a].plug}
    /\ UNCHANGED <<plugs, pc, call, list, at, owned, drops, steady>>

-----------------------------------------------------------------------------
(* Dropping.                                                               *)

\* Drop for OpenDevice, and then its field: the device closes, and its share
\* of the backend goes after it.
Release(what) ==
    CASE what = "device" -> dev' = NoDevice /\ held' = held \ {"device"} /\ UNCHANGED xfers
      [] what = "caller" -> held' = held \ {"caller"} /\ UNCHANGED <<dev, xfers>>
      [] OTHER -> xfers' = xfers \ {what} /\ UNCHANGED <<held, dev>>

\* The fields of MtpDevice in their order: the channels, then the device.
MutMtpDevice == <<"device", "write", "read">>
MtpDevice == <<"write", "read", "device">>

\* The locals of a command that ends are gone.
Locals ==
    IF pc' \in {"idle", "mounted"}
    THEN call' = NoCall /\ list' = <<>> /\ at' = 1 /\ steady' = {}
    ELSE UNCHANGED <<call, list, at, steady>>

\* One value goes. Bus events can come in between.
DropOne ==
    /\ pc = "drop"
    /\ Release(Head(drops.what))
    /\ IF Len(drops.what) = 1 THEN pc' = drops.then /\ drops' = NotDropping
       ELSE drops' = [drops EXCEPT !.what = Tail(@)] /\ UNCHANGED pc
    /\ Locals
    /\ UNCHANGED env

Drop(what, then) == pc' = "drop" /\ drops' = [what |-> what, then |-> then]

-----------------------------------------------------------------------------
(* The search.                                                             *)

\* Mtp::open with a name for the device or without one.
StartMount(want) ==
    /\ pc = "idle" /\ pc' = "alloc"
    /\ call' = [kind |-> "mount", want |-> want, try |-> 1, look |-> 1]
    /\ UNCHANGED <<env, list, at, owned, drops, steady>>

\* mtpprobe coldstart
StartCold(want) ==
    /\ pc = "idle" /\ pc' = "alloc"
    /\ call' = [kind |-> "first", want |-> want, node |-> want, left |-> FALSE, n |-> 1]
    /\ UNCHANGED <<env, list, at, owned, drops, steady>>

\* mtpprobe reopen. It first checks that there is a device; the backend of that
\* check lives until the command ends, but nothing points into it any more, and
\* each cycle has a backend of its own.
StartReopen(want) ==
    /\ pc = "idle" /\ pc' = "alloc"
    /\ call' = [kind |-> "check", want |-> want, n |-> 1]
    /\ UNCHANGED <<env, list, at, owned, drops, steady>>

\* Where an error of one try leads: Usb and Session errors are worth another.
AfterTry == IF call.kind = "mount" /\ call.try < FindAttempts THEN "again" ELSE "idle"

\* Backend::new: the library takes the list of devices. Every handle of
\* devices() holds a share of the backend, and so does the caller.
Backend ==
    /\ pc = "alloc" /\ pc' = "look"
    /\ \E s \in InOrder :
          list' = [i \in DOMAIN s |-> [addr |-> s[i], phone |-> bus[s[i]].phone, plug |-> bus[s[i]].plug]]
    /\ at' = 1 /\ held' = {"caller", "handles"} /\ steady' = ready
    /\ UNCHANGED <<env, call, dev, xfers, drops>>

NoBackend ==
    /\ pc = "alloc" /\ "backend" \in Faults
    /\ pc' = AfterTry /\ Locals
    /\ UNCHANGED <<env, owned, drops>>

\* Selector::matches
Matches(want, e) ==
    \/ want.kind = "any"
    \/ want.kind = "node" /\ want.addr = e.addr
    \/ want.kind = "ids" /\ want.phone = e.phone

\* DeviceHandle::open gives the device the share of its handle.
MutShares == held
Shares == held \cup {"device"}

\* find: the devices one after another. A device that does not match or does
\* not open is passed over.
Look ==
    /\ pc = "look" /\ at <= Len(list)
    /\ IF Matches(call.want, list[at]) /\ Plugged(list[at])
       THEN dev' = list[at] /\ held' = Shares /\ pc' = "inspect" /\ UNCHANGED at
       ELSE at' = at + 1 /\ UNCHANGED <<dev, held, pc>>
    /\ UNCHANGED <<env, call, list, xfers, drops, steady>>

\* A device that gives no MTP interface does not end the search.
MutAfterMiss == Len(list) + 1
AfterMiss == at + 1

\* inspect: the descriptors of the open device say whether it carries MTP.
Inspect ==
    /\ pc = "inspect"
    /\ IF Answers(dev) THEN pc' = "found" /\ held' = held \ {"handles"} /\ UNCHANGED <<at, drops>>
       ELSE Drop(<<"device">>, "look") /\ at' = AfterMiss /\ UNCHANGED held
    /\ UNCHANGED <<env, call, list, dev, xfers, steady>>

\* The list ends, and the handles go.
FindsNothing ==
    /\ pc = "look" /\ at > Len(list)
    /\ pc' = "nothing" /\ held' = held \ {"handles"}
    /\ UNCHANGED <<env, call, list, at, dev, xfers, drops, steady>>

-----------------------------------------------------------------------------
(* Mtp::open.                                                              *)

\* find_with_patience: another look at the devices of the same backend, and
\* in the end NoDevice, which is not worth another try.
LooksAgain == call.look < FindAttempts
MountFindsNothing ==
    /\ pc = "nothing" /\ call.kind = "mount"
    /\ IF LooksAgain
       THEN /\ call' = [call EXCEPT !.look = @ + 1] /\ pc' = "look" /\ at' = 1
            /\ held' = held \cup {"handles"} /\ steady' = ready
            /\ UNCHANGED drops
       ELSE Drop(<<"caller">>, "idle") /\ UNCHANGED <<call, at, held, steady>>
    /\ UNCHANGED <<env, list, dev, xfers>>

\* Mtp::open begins its next try.
MutTryAgain ==
    /\ pc = "again" /\ pc' = "alloc"
    /\ call' = [call EXCEPT !.look = 1]
    /\ UNCHANGED <<env, list, at, owned, drops, steady>>
TryAgain ==
    /\ pc = "again" /\ pc' = "alloc"
    /\ call' = [call EXCEPT !.try = @ + 1, !.look = 1]
    /\ UNCHANGED <<env, list, at, owned, drops, steady>>

Opens == call.kind \in {"mount", "connect", "reopen"}

\* into_mtp: the transfer that writes, and then the one that reads. When the
\* second does not open, the first goes, then the device.
OpenWrite ==
    /\ pc = "found" /\ Opens
    /\ \/ Plugged(dev) /\ xfers' = {"write"} /\ pc' = "half" /\ UNCHANGED drops
       \/ /\ ~Plugged(dev) \/ "transfer" \in Faults
          /\ Drop(<<"device", "caller">>, AfterTry) /\ UNCHANGED xfers
    /\ UNCHANGED <<env, call, list, at, held, dev, steady>>
OpenRead ==
    /\ pc = "half"
    /\ \/ Plugged(dev) /\ xfers' = {"write", "read"} /\ pc' = "session" /\ UNCHANGED drops
       \/ /\ ~Plugged(dev) \/ "transfer" \in Faults
          /\ Drop(<<"write", "device", "caller">>, AfterTry) /\ UNCHANGED xfers
    /\ UNCHANGED <<env, call, list, at, held, dev, steady>>

\* The session opens and the device says what it can do, or not; a fault code
\* is not worth another try. The local share of the backend goes either way.
\* The commands of mtpprobe let everything go when they are done.
Connect ==
    /\ pc = "session"
    /\ \/ /\ Answers(dev)
          /\ IF call.kind = "mount" THEN Drop(<<"caller">>, "mounted")
             ELSE IF call.kind = "reopen" /\ call.n < Cycles THEN Drop(<<"caller">> \o MtpDevice, "cycle")
             ELSE Drop(<<"caller">> \o MtpDevice, "idle")
       \/ /\ ~Answers(dev) \/ "session" \in Faults
          /\ Drop(MtpDevice \o <<"caller">>, AfterTry)
       \/ /\ "refuse" \in Faults
          /\ Drop(MtpDevice \o <<"caller">>, "idle")
    /\ UNCHANGED <<env, call, list, at, owned, steady>>

\* The device of the first check closes, and the cycles begin.
CheckFound ==
    /\ pc = "found" /\ call.kind = "check"
    /\ Drop(<<"device", "caller">>, "alloc") /\ call' = [call EXCEPT !.kind = "reopen"]
    /\ UNCHANGED <<env, list, at, owned, steady>>

NextCycle ==
    /\ pc = "cycle" /\ pc' = "alloc"
    /\ call' = [call EXCEPT !.n = @ + 1]
    /\ UNCHANGED <<env, list, at, owned, drops, steady>>

\* The mount ends. BSDROID_USB_RESET makes the cellphone leave and come back.
Unmount ==
    /\ pc = "mounted"
    /\ Drop(MtpDevice, "idle")
    /\ \/ UNCHANGED env
       \/ /\ Plugged(dev)
          /\ bus' = [bus EXCEPT ![dev.addr] = Nobody]
          /\ ready' = ready \ {dev.plug} /\ UNCHANGED plugs
    /\ UNCHANGED <<call, list, at, owned, steady>>

-----------------------------------------------------------------------------
(* mtpprobe coldstart.                                                     *)

\* The device is found and reset: it leaves the bus and comes back by itself.
ColdReset ==
    /\ pc = "found" /\ call.kind = "first"
    /\ \/ /\ Drop(<<"device", "caller">>, "alloc")
          /\ call' = [call EXCEPT !.kind = "leave", !.want = [kind |-> "any"], !.n = 1]
       \/ /\ "root" \in Faults \/ ~Plugged(dev)
          /\ Drop(<<"device", "caller">>, "idle") /\ UNCHANGED call
    /\ UNCHANGED <<env, list, at, owned, steady>>

\* Step 1 waits until no device answers, and step 2 until one does. Each look
\* is a search of its own, with a backend of its own, for any device.
ColdFound ==
    /\ pc = "found" /\ call.kind \in {"leave", "return"}
    /\ Drop(<<"device", "caller">>, "alloc")
    /\ call' = IF call.kind = "return"
               THEN [call EXCEPT !.kind = "connect", !.want = call.node]
               ELSE IF call.n < LeaveAttempts THEN [call EXCEPT !.n = @ + 1]
               ELSE [call EXCEPT !.kind = "return", !.n = 1]
    /\ UNCHANGED <<env, list, at, owned, steady>>
ColdFindsNothing ==
    /\ pc = "nothing" /\ call.kind \in {"leave", "return"}
    /\ IF call.kind = "leave"
       THEN call' = [call EXCEPT !.kind = "return", !.left = TRUE, !.n = 1] /\ Drop(<<"caller">>, "alloc")
       ELSE IF call.n < LeaveAttempts
       THEN call' = [call EXCEPT !.n = @ + 1] /\ Drop(<<"caller">>, "alloc")
       ELSE Drop(<<"caller">>, "idle") /\ UNCHANGED call
    /\ UNCHANGED <<env, list, at, owned, steady>>

\* find_mtp of a command: nothing found ends it.
CommandFindsNothing ==
    /\ pc = "nothing" /\ call.kind \in {"first", "check", "connect", "reopen"}
    /\ Drop(<<"caller">>, "idle")
    /\ UNCHANGED <<env, call, list, at, owned, steady>>

-----------------------------------------------------------------------------
Init ==
    /\ bus = [a \in Addrs |-> Nobody] /\ ready = {} /\ plugs = 0
    /\ pc = "idle" /\ call = NoCall /\ list = <<>> /\ at = 1
    /\ held = {} /\ dev = NoDevice /\ xfers = {}
    /\ drops = NotDropping /\ steady = {}

BusEvent ==
    \/ \E p \in Phones, a \in Addrs : Join(p, a)
    \/ \E a \in Addrs : BecomeReady(a) \/ Leave(a)

Start == \E want \in Selectors : StartMount(want) \/ StartCold(want) \/ StartReopen(want)

Step ==
    \/ DropOne \/ Backend \/ NoBackend \/ Look \/ Inspect \/ FindsNothing
    \/ MountFindsNothing \/ TryAgain \/ OpenWrite \/ OpenRead \/ Connect \/ CheckFound \/ NextCycle
    \/ ColdReset \/ ColdFound \/ ColdFindsNothing \/ CommandFindsNothing

Next == BusEvent \/ Start \/ Step \/ Unmount

\* A program that runs goes on.
Spec == Init /\ [][Next]_vars /\ WF_vars(Step)

-----------------------------------------------------------------------------
(* Properties.                                                             *)

\* Every pointer the unsafe code keeps points at something the library has not
\* freed: an open transfer has its device, and an open device its backend, on
\* every way out of every call, whatever failed and whoever left the bus; and
\* a program that ended has let everything go, so that the next open of the
\* device meets no leftover (MtpDevice, OpenDevice, BulkChannel, Backend).
PointersLive ==
    /\ xfers # {} => dev # NoDevice
    /\ dev # NoDevice => held # {}
    /\ pc \in {"idle", "alloc", "again", "cycle"} => held = {} /\ dev = NoDevice /\ xfers = {}

\* A search that finds nothing is right: no device of its list that matches
\* the name was on the bus and answered from the beginning of the last look to
\* its end, whatever other devices gave (find, inspect, find_with_patience). A
\* cold start that says the device left is right for the same reason.
MissIsRight ==
    pc = "nothing" =>
        \A i \in 1..Len(list) :
            ~(Matches(call.want, list[i]) /\ Answers(list[i]) /\ list[i].plug \in steady)

\* Every command ends, on a bus that never rests: each search has a last look,
\* each open a last try and each wait a last attempt (FIND_ATTEMPTS,
\* LEAVE_ATTEMPTS, RETURN_ATTEMPTS).
CommandsEnd == pc # "idle" ~> pc \in {"idle", "mounted"}
=============================================================================
