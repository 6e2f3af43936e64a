------------------------------ MODULE Bus_proofs ------------------------------
(***************************************************************************)
(* What TLAPS proves of the search for a cellphone and of what a program   *)
(* owns, for every set of cellphones, every number of addresses and stays, *)
(* every limit of the loops and every set of faults.                       *)
(***************************************************************************)
EXTENDS Bus, SequenceTheorems, TLAPS

-----------------------------------------------------------------------------
(* The inductive invariant.                                                *)

\* Stays have numbers of their own, and a stay that answered at the beginning
\* of a look answers until it ends.
BusOK ==
    /\ plugs \in Nat /\ DOMAIN bus = Addrs
    /\ \A a \in Addrs : bus[a].plug \in 0..plugs /\ (bus[a] # Nobody => bus[a].plug # 0)
    /\ \A a, b \in Addrs : bus[a].plug = bus[b].plug /\ a # b => bus[a].plug = 0
    /\ ready \subseteq 1..plugs /\ steady \subseteq 1..plugs
    /\ \A a \in Addrs : bus[a].plug \in steady => bus[a].plug \in ready

\* The devices of the list are stays that began before it was taken.
ListOK ==
    /\ Len(list) \in Nat /\ at \in Nat \ {0}
    /\ \A i \in 1..Len(list) : list[i].addr \in Addrs /\ list[i].plug \in 0..plugs

\* What a search has passed over gave it no reason to stop.
Missed(e) == ~(Matches(call.want, e) /\ Answers(e) /\ e.plug \in steady)
Searches == pc \in {"look", "inspect", "nothing"} \/ (pc = "drop" /\ drops.then = "look")
MissedOK ==
    /\ Searches => \A i \in 1..Len(list) : i < at => Missed(list[i])
    /\ pc = "nothing" => at > Len(list)

\* What the program owns at each place.
Owns(shares, device, transfers) ==
    /\ held = shares /\ xfers = transfers
    /\ IF device THEN dev.addr \in Addrs ELSE dev = NoDevice

Ends == {"idle", "alloc", "again", "cycle"}
Both == {"write", "read"}
Holds ==
    /\ pc \in Ends => Owns({}, FALSE, {})
    /\ pc = "look" => Owns({"caller", "handles"}, FALSE, {})
    /\ pc = "inspect" => Owns({"caller", "handles", "device"}, TRUE, {}) /\ at <= Len(list) /\ dev = list[at]
    /\ pc = "nothing" => Owns({"caller"}, FALSE, {})
    /\ pc = "found" => Owns({"caller", "device"}, TRUE, {})
    /\ pc = "half" => Owns({"caller", "device"}, TRUE, {"write"})
    /\ pc = "session" => Owns({"caller", "device"}, TRUE, Both)
    /\ pc = "mounted" => Owns({"device"}, TRUE, Both)

\* What it still owns while it lets go.
Unwinds(what, shares, device, transfers) ==
    /\ drops = [what |-> what, then |-> drops.then] /\ drops.then \in Ends
    /\ Owns(shares, device, transfers)
DropsOK ==
    pc = "drop" =>
        \/ /\ drops.what = <<"device">> /\ drops.then = "look"
           /\ Owns({"caller", "handles", "device"}, TRUE, {})
        \/ /\ drops.what = <<"caller">> /\ drops.then = "mounted"
           /\ Owns({"caller", "device"}, TRUE, Both)
        \/ Unwinds(<<"caller">>, {"caller"}, FALSE, {})
        \/ Unwinds(<<"device">>, {"device"}, TRUE, {})
        \/ Unwinds(<<"device", "caller">>, {"caller", "device"}, TRUE, {})
        \/ Unwinds(<<"read", "device">>, {"device"}, TRUE, {"read"})
        \/ Unwinds(<<"read", "device", "caller">>, {"caller", "device"}, TRUE, {"read"})
        \/ Unwinds(<<"write", "device", "caller">>, {"caller", "device"}, TRUE, {"write"})
        \/ Unwinds(<<"write", "read", "device">>, {"device"}, TRUE, Both)
        \/ Unwinds(<<"write", "read", "device", "caller">>, {"caller", "device"}, TRUE, Both)
        \/ Unwinds(<<"caller", "write", "read", "device">>, {"caller", "device"}, TRUE, Both)
Places == {"idle", "alloc", "again", "cycle", "look", "inspect", "nothing", "found", "half", "session", "mounted", "drop"}
OwnedOK == pc \in Places /\ Holds /\ DropsOK

Inv == BusOK /\ ListOK /\ MissedOK /\ OwnedOK

-----------------------------------------------------------------------------
(* The bus.                                                                *)

\* What a search passed over stays passed over while the bus changes.
LEMMA MissedKept ==
    ASSUME ListOK, MissedOK, UNCHANGED <<pc, call, list, at, drops, steady>>, plugs' \in Nat, plugs' >= plugs,
           \A e : e.addr \in Addrs /\ e.plug \in 0..plugs /\ Missed(e) => Missed(e)', plugs \in Nat
    PROVE  ListOK' /\ MissedOK'
<1>1. ListOK'
  BY DEF ListOK
<1>2. (pc = "nothing" => at > Len(list))' /\ Searches' = Searches
  BY DEF MissedOK, Searches
<1>3. ASSUME Searches, NEW i \in 1..Len(list), i < at PROVE Missed(list[i])'
  <2>1. PICK e : e = list[i]
    OBVIOUS
  <2>2. Missed(e) /\ e.addr \in Addrs /\ e.plug \in 0..plugs
    BY <1>3, <2>1 DEF MissedOK, ListOK
  <2>3. Missed(e)'
    BY <2>2
  <2> QED
    BY <2>1, <2>3
<1> QED
  BY <1>1, <1>2, <1>3 DEF MissedOK

\* What a program owns does not depend on the bus.
LEMMA OwnedKept == ASSUME OwnedOK, UNCHANGED <<pc, list, at, owned, drops>> PROVE OwnedOK'
<1>1. pc' = pc /\ list' = list /\ at' = at /\ held' = held /\ dev' = dev /\ xfers' = xfers /\ drops' = drops
  BY DEF owned
<1> QED
  BY <1>1, Zenon DEF OwnedOK, Holds, DropsOK, Owns, Unwinds

\* A stay that begins has a number that no list knows.
LEMMA JoinStep == ASSUME Inv, NEW p \in Phones, NEW a \in Addrs, Join(p, a) PROVE Inv'
<1>1. /\ bus[a] = Nobody /\ plugs' = plugs + 1 /\ bus' = [bus EXCEPT ![a] = [phone |-> p, plug |-> plugs + 1]]
      /\ UNCHANGED <<ready, pc, call, list, at, owned, drops, steady>>
  BY DEF Join
<1>2. BusOK /\ ListOK /\ MissedOK /\ OwnedOK /\ plugs \in Nat /\ DOMAIN bus = Addrs
  BY DEF Inv, BusOK
<1>3. /\ bus'[a].plug = plugs + 1 /\ DOMAIN bus' = Addrs
      /\ \A b \in Addrs : b # a => bus'[b] = bus[b]
  BY <1>1, <1>2
<1>4. BusOK'
  BY <1>1, <1>2, <1>3 DEF BusOK
<1>5. ASSUME NEW e, e.addr \in Addrs, e.plug \in 0..plugs, Missed(e) PROVE Missed(e)'
  <2>1. Plugged(e)' => Plugged(e)
    BY <1>2, <1>3, <1>5 DEF Plugged
  <2>2. call' = call /\ ready' = ready /\ steady' = steady
    BY <1>1
  <2> QED
    BY <1>5, <2>1, <2>2 DEF Missed, Answers, Matches
<1>6. ListOK' /\ MissedOK'
  BY <1>1, <1>2, <1>5, MissedKept
<1> QED
  BY <1>1, <1>2, <1>4, <1>6, OwnedKept DEF Inv

\* A stay that becomes ready now did not answer when the look began.
LEMMA BecomeReadyStep == ASSUME Inv, NEW a \in Addrs, BecomeReady(a) PROVE Inv'
<1>1. /\ bus[a] # Nobody /\ bus[a].plug \notin ready /\ ready' = ready \cup {bus[a].plug}
      /\ UNCHANGED <<bus, plugs, pc, call, list, at, owned, drops, steady>>
  BY DEF BecomeReady
<1>2. BusOK /\ ListOK /\ MissedOK /\ OwnedOK /\ plugs \in Nat
  BY DEF Inv, BusOK
<1>3. BusOK'
  BY <1>1, <1>2 DEF BusOK
<1>4. ASSUME NEW e, e.addr \in Addrs, e.plug \in 0..plugs, Missed(e) PROVE Missed(e)'
  <2>1. call' = call /\ bus' = bus /\ steady' = steady
    BY <1>1
  <2>2. Plugged(e) /\ e.plug \in steady => e.plug \in ready
    BY <1>2, <1>4 DEF Plugged, BusOK
  <2> QED
    BY <1>4, <2>1, <2>2 DEF Missed, Answers, Matches, Plugged
<1>5. ListOK' /\ MissedOK'
  BY <1>1, <1>2, <1>4, MissedKept
<1> QED
  BY <1>1, <1>2, <1>3, <1>5, OwnedKept DEF Inv

\* A stay that ends does not answer any more.
LEMMA GoneBus ==
    ASSUME BusOK, NEW a \in Addrs, bus' = [bus EXCEPT ![a] = Nobody],
           ready' = ready \ {bus[a].plug}, plugs' = plugs, steady' = steady
    PROVE  /\ BusOK'
           /\ \A e : e.addr \in Addrs /\ e.plug \in 0..plugs /\ call' = call /\ Missed(e) => Missed(e)'
<1>1. /\ bus'[a].plug = 0 /\ bus'[a] = Nobody /\ DOMAIN bus' = Addrs
      /\ \A b \in Addrs : b # a => bus'[b] = bus[b]
  BY DEF BusOK, Nobody
<1>2. BusOK'
  <2>1. /\ plugs' \in Nat /\ DOMAIN bus' = Addrs
        /\ ready' \subseteq 1..plugs' /\ steady' \subseteq 1..plugs' /\ 0 \notin steady'
    <3>1. plugs \in Nat /\ ready \subseteq 1..plugs /\ steady \subseteq 1..plugs
      BY DEF BusOK
    <3>2. ready' \subseteq ready /\ plugs' = plugs /\ steady' = steady
      OBVIOUS
    <3>3. plugs' \in Nat /\ DOMAIN bus' = Addrs
      BY ONLY <1>1, <3>1, <3>2
    <3>4. ready' \subseteq 1..plugs' /\ steady' \subseteq 1..plugs'
      BY ONLY <3>1, <3>2
    <3>5. 0 \notin steady'
      BY ONLY <3>1, <3>2
    <3> QED
      BY ONLY <3>3, <3>4, <3>5
  <2>2. \A b \in Addrs : bus'[b].plug \in 0..plugs' /\ (bus'[b] # Nobody => bus'[b].plug # 0)
    BY <1>1 DEF BusOK
  <2>3. \A b, c \in Addrs : bus'[b].plug = bus'[c].plug /\ b # c => bus'[b].plug = 0
    BY <1>1 DEF BusOK
  <2>4. ASSUME NEW b \in Addrs, bus'[b].plug \in steady' PROVE bus'[b].plug \in ready'
    <3>1. b # a /\ bus'[b] = bus[b] /\ bus[b].plug # 0
      BY <1>1, <2>1, <2>4
    <3>2. bus[b].plug \in ready /\ bus[b].plug # bus[a].plug
      BY <2>4, <3>1 DEF BusOK
    <3> QED
      BY <3>1, <3>2
  <2> QED
    BY <2>1, <2>2, <2>3, <2>4 DEF BusOK
<1>3. ASSUME NEW e, e.addr \in Addrs, e.plug \in 0..plugs, call' = call, Missed(e) PROVE Missed(e)'
  <2>1. Plugged(e)' => Plugged(e) \/ e.plug = 0
    BY <1>1, <1>3 DEF Plugged
  <2>2. 0 \notin ready /\ ready' \subseteq ready
    BY DEF BusOK
  <2> QED
    BY <1>3, <2>1, <2>2 DEF Missed, Answers, Matches
<1> QED
  BY <1>2, <1>3

\* A cellphone leaves.
LEMMA LeaveStep == ASSUME Inv, NEW a \in Addrs, Leave(a) PROVE Inv'
<1>1. /\ bus[a] # Nobody /\ bus' = [bus EXCEPT ![a] = Nobody] /\ ready' = ready \ {bus[a].plug} /\ plugs' = plugs
      /\ UNCHANGED <<pc, call, list, at, owned, drops, steady>> /\ steady' = steady /\ call' = call
  BY DEF Leave
<1>2. BusOK /\ ListOK /\ MissedOK /\ OwnedOK /\ plugs \in Nat
  BY DEF Inv, BusOK
<1>3. BusOK' /\ \A e : e.addr \in Addrs /\ e.plug \in 0..plugs /\ Missed(e) => Missed(e)'
  BY <1>1, <1>2, GoneBus
<1>4. ListOK' /\ MissedOK'
  BY <1>1, <1>2, <1>3, MissedKept
<1> QED
  BY <1>1, <1>2, <1>3, <1>4, OwnedKept DEF Inv

-----------------------------------------------------------------------------
(* The steps of a program.                                                 *)

\* The bus and the list of a step that leaves them.
LEMMA BusKept == ASSUME BusOK, UNCHANGED <<env, steady>> PROVE BusOK'
BY DEF BusOK, env

\* A list that stays, and a place in it.
LEMMA ListKept ==
    ASSUME ListOK, UNCHANGED list, plugs' = plugs, at' \in Nat \ {0}
    PROVE  ListOK'
BY DEF ListOK

\* What was passed over, in a step that does not touch the bus.
LEMMA PassedKept ==
    ASSUME MissedOK, UNCHANGED <<bus, ready, call, list, steady>>, Searches, pc' = "nothing" => at' > Len(list),
           \A i \in 1..Len(list) : i < at' /\ ~(i < at) => Missed(list[i])
    PROVE  MissedOK'
<1>1. ASSUME NEW i \in 1..Len(list), i < at' PROVE Missed(list[i])
  BY <1>1 DEF MissedOK
<1>2. \A i \in 1..Len(list) : Missed(list[i])' = Missed(list[i])
  BY DEF Missed, Answers, Plugged, Matches
<1> QED
  BY <1>1, <1>2 DEF MissedOK

\* A step that does not search.
LEMMA NoSearch == ASSUME ~Searches' PROVE MissedOK'
BY DEF MissedOK, Searches

\* A command begins.
LEMMA StartStep ==
    ASSUME Inv, NEW want \in Selectors, StartMount(want) \/ StartCold(want) \/ StartReopen(want)
    PROVE  Inv'
<1>1. pc = "idle" /\ pc' = "alloc" /\ UNCHANGED <<env, list, at, owned, drops, steady>>
  BY DEF StartMount, StartCold, StartReopen
<1>2. BusOK'
  BY <1>1, BusKept DEF Inv
<1>3. ListOK'
  BY <1>1, ListKept DEF Inv, ListOK, env
<1>4. MissedOK'
  BY <1>1, NoSearch DEF Searches
<1>5. OwnedOK'
  BY <1>1 DEF Inv, OwnedOK, Holds, DropsOK, Owns, Ends, Places, owned
<1> QED
  BY <1>2, <1>3, <1>4, <1>5 DEF Inv

\* The locals of a command stay, or go with it.
LEMMA LocalsKeep == ASSUME BusOK, ListOK, Locals, UNCHANGED env PROVE BusOK' /\ ListOK'
<1>1. CASE pc' \in {"idle", "mounted"}
  <2>1. list' = <<>> /\ at' = 1 /\ steady' = {} /\ bus' = bus /\ ready' = ready /\ plugs' = plugs
    BY <1>1 DEF Locals, env
  <2>2. Len(list') = 0
    BY <2>1
  <2> QED
    BY <2>1, <2>2 DEF BusOK, ListOK
<1>2. CASE pc' \notin {"idle", "mounted"}
  <2>1. UNCHANGED <<call, list, at, steady>>
    BY <1>2 DEF Locals
  <2> QED
    BY <2>1, BusKept, ListKept DEF env, ListOK
<1> QED
  BY <1>1, <1>2

\* The end of a try leads to another one, or to the end of the command.
LEMMA AfterTryIs == AfterTry \in {"again", "idle"}
BY DEF AfterTry

\* The order in which the parts of a device go, as sequences.
LEMMA OrdersAre ==
    /\ <<"caller">> \o MtpDevice = <<"caller", "write", "read", "device">>
    /\ MtpDevice \o <<"caller">> = <<"write", "read", "device", "caller">>
    /\ MtpDevice = <<"write", "read", "device">>
<1> DEFINE S == {"write", "read", "device", "caller"}
           d == <<"write", "read", "device">>
           c == <<"caller">>
<1>1. MtpDevice = d /\ d \in Seq(S) /\ c \in Seq(S) /\ Len(d) = 3 /\ Len(c) = 1
  BY DEF MtpDevice
<1>2. c \o d = <<"caller", "write", "read", "device">>
  <2> DEFINE t == <<"caller", "write", "read", "device">>
  <2>1. t \in Seq(S) /\ Len(t) = 4
    OBVIOUS
  <2>2. c \o d \in Seq(S) /\ Len(c \o d) = 4 /\ \A i \in 1..4 : (c \o d)[i] = IF i <= 1 THEN c[i] ELSE d[i - 1]
    BY <1>1, ConcatProperties
  <2>3. \A i \in 1..4 : i = 1 \/ i = 2 \/ i = 3 \/ i = 4
    OBVIOUS
  <2>4. \A i \in 1..4 : (c \o d)[i] = t[i]
    BY <2>2, <2>3
  <2> QED
    BY <2>1, <2>2, <2>4, SeqEqual
<1>3. d \o c = <<"write", "read", "device", "caller">>
  <2> DEFINE t == <<"write", "read", "device", "caller">>
  <2>1. t \in Seq(S) /\ Len(t) = 4
    OBVIOUS
  <2>2. d \o c \in Seq(S) /\ Len(d \o c) = 4 /\ \A i \in 1..4 : (d \o c)[i] = IF i <= 3 THEN d[i] ELSE c[i - 3]
    BY <1>1, ConcatProperties
  <2>3. \A i \in 1..4 : i = 1 \/ i = 2 \/ i = 3 \/ i = 4
    OBVIOUS
  <2>4. \A i \in 1..4 : (d \o c)[i] = t[i]
    BY <2>2, <2>3
  <2> QED
    BY <2>1, <2>2, <2>4, SeqEqual
<1> QED
  BY <1>1, <1>2, <1>3

\* The backend takes the list.
LEMMA BackendStep == ASSUME Inv, Backend PROVE Inv'
<1>1. /\ pc = "alloc" /\ pc' = "look" /\ at' = 1 /\ held' = {"caller", "handles"} /\ steady' = ready
      /\ UNCHANGED <<env, call, dev, xfers, drops>>
  BY DEF Backend
<1>2. PICK s \in InOrder :
        list' = [i \in DOMAIN s |-> [addr |-> s[i], phone |-> bus[s[i]].phone, plug |-> bus[s[i]].plug]]
  BY DEF Backend
<1>3. PICK n \in 0..MaxAddr : s \in [1..n -> Addrs]
  BY <1>2 DEF InOrder
<1>4. n \in Nat /\ DOMAIN s = 1..n
  BY <1>3, BoundsAssumption
<1>5. BusOK'
  BY <1>1 DEF Inv, BusOK, env
<1>6. ListOK'
  <2>1. PICK r : r = list'
    OBVIOUS
  <2>2. DOMAIN r = 1..n /\ r = [i \in 1..n |-> r[i]]
    BY <1>2, <1>4, <2>1
  <2>3. r \in [1..n -> {r[i] : i \in 1..n}]
    BY <2>2
  <2>4. r \in Seq({r[i] : i \in 1..n})
    BY <1>4, <2>3, SeqDef
  <2>5. Len(r) \in Nat /\ DOMAIN r = 1..Len(r)
    BY <2>4, LenProperties
  <2>6. ASSUME NEW i \in 1..n PROVE r[i].addr \in Addrs /\ r[i].plug \in 0..plugs
    <3>1. r[i] = [addr |-> s[i], phone |-> bus[s[i]].phone, plug |-> bus[s[i]].plug] /\ s[i] \in Addrs
      BY <1>2, <1>3, <1>4, <2>1, <2>6
    <3> QED
      BY <3>1 DEF Inv, BusOK
  <2> QED
    BY <1>1, <2>1, <2>2, <2>5, <2>6 DEF ListOK, env
<1>7. MissedOK'
  <2>1. \A i \in 1..Len(list') : ~(i < at')
    BY <1>1, <1>6 DEF ListOK
  <2> QED
    BY <1>1, <2>1 DEF MissedOK
<1>8. OwnedOK'
  BY <1>1 DEF Inv, OwnedOK, Holds, DropsOK, Owns, Ends, Places
<1> QED
  BY <1>5, <1>6, <1>7, <1>8 DEF Inv

\* There is no backend.
LEMMA NoBackendStep == ASSUME Inv, NoBackend PROVE Inv'
<1>1. pc = "alloc" /\ pc' = AfterTry /\ Locals /\ UNCHANGED <<env, owned, drops>>
  BY DEF NoBackend
<1>2. pc' \in {"again", "idle"}
  BY <1>1, AfterTryIs
<1>3. BusOK' /\ ListOK'
  BY <1>1, LocalsKeep DEF Inv
<1>4. MissedOK'
  BY <1>2, NoSearch DEF Searches
<1>5. OwnedOK'
  BY <1>1, <1>2 DEF Inv, OwnedOK, Holds, DropsOK, Owns, Ends, Places, owned
<1> QED
  BY <1>3, <1>4, <1>5 DEF Inv

\* The search opens a device, or passes it over.
LEMMA LookStep == ASSUME Inv, Look PROVE Inv'
<1>1. /\ pc = "look" /\ at <= Len(list) /\ UNCHANGED <<env, call, list, xfers, drops, steady>>
      /\ IF Matches(call.want, list[at]) /\ Plugged(list[at])
         THEN dev' = list[at] /\ held' = Shares /\ pc' = "inspect" /\ UNCHANGED at
         ELSE at' = at + 1 /\ UNCHANGED <<dev, held, pc>>
  BY DEF Look
<1>2. BusOK /\ ListOK /\ MissedOK /\ OwnedOK /\ Searches
  BY <1>1 DEF Inv, Searches
<1>3. at \in 1..Len(list) /\ at \in Nat \ {0} /\ Len(list) \in Nat
  BY <1>1, <1>2 DEF ListOK
<1>4. BusOK'
  BY <1>1, <1>2, BusKept
<1>5. held = {"caller", "handles"} /\ dev = NoDevice /\ xfers = {}
  BY <1>1, <1>2 DEF OwnedOK, Holds, Owns
<1>6. CASE Matches(call.want, list[at]) /\ Plugged(list[at])
  <2>1. dev' = list[at] /\ held' = {"caller", "handles", "device"} /\ pc' = "inspect" /\ at' = at
    BY <1>1, <1>5, <1>6 DEF Shares
  <2>2. list[at].addr \in Addrs
    BY <1>2, <1>3 DEF ListOK
  <2>3. ListOK'
    BY <1>1, <1>2, <1>3, <2>1, ListKept DEF env
  <2>4. MissedOK'
    BY <1>1, <1>2, <2>1, PassedKept DEF env
  <2>5. OwnedOK'
    BY <1>1, <1>5, <2>1, <2>2 DEF OwnedOK, Holds, DropsOK, Owns, Ends, Places
  <2> QED
    BY <1>4, <2>3, <2>4, <2>5 DEF Inv
<1>7. CASE ~(Matches(call.want, list[at]) /\ Plugged(list[at]))
  <2>1. at' = at + 1 /\ dev' = dev /\ held' = held /\ pc' = pc
    BY <1>1, <1>7
  <2>2. ListOK'
    BY <1>1, <1>2, <1>3, <2>1, ListKept DEF env
  <2>3. Missed(list[at])
    BY <1>7 DEF Missed, Answers
  <2>4. \A i \in 1..Len(list) : i < at' /\ ~(i < at) => i = at
    BY <1>3, <2>1
  <2>5. MissedOK'
    BY <1>1, <1>2, <2>1, <2>3, <2>4, PassedKept DEF env
  <2>6. OwnedOK'
    BY <1>1, <1>5, <2>1 DEF OwnedOK, Holds, DropsOK, Owns, Ends, Places
  <2> QED
    BY <1>4, <2>2, <2>5, <2>6 DEF Inv
<1> QED
  BY <1>6, <1>7

\* The device that was opened carries MTP, or the search goes on behind it.
LEMMA InspectStep == ASSUME Inv, Inspect PROVE Inv'
<1>1. /\ pc = "inspect" /\ UNCHANGED <<env, call, list, dev, xfers, steady>>
      /\ IF Answers(dev) THEN pc' = "found" /\ held' = held \ {"handles"} /\ UNCHANGED <<at, drops>>
         ELSE Drop(<<"device">>, "look") /\ at' = AfterMiss /\ UNCHANGED held
  BY DEF Inspect
<1>2. BusOK /\ ListOK /\ MissedOK /\ OwnedOK /\ Searches
  BY <1>1 DEF Inv, Searches
<1>3. /\ held = {"caller", "handles", "device"} /\ dev.addr \in Addrs /\ xfers = {} /\ at <= Len(list) /\ dev = list[at]
  BY <1>1, <1>2 DEF OwnedOK, Holds, Owns
<1>4. at \in 1..Len(list) /\ at \in Nat \ {0} /\ Len(list) \in Nat
  BY <1>2, <1>3 DEF ListOK
<1>5. BusOK'
  BY <1>1, <1>2, BusKept
<1>6. CASE Answers(dev)
  <2>1. pc' = "found" /\ held' = {"caller", "device"} /\ at' = at
    BY <1>1, <1>3, <1>6
  <2>2. ListOK'
    BY <1>1, <1>2, <1>4, <2>1, ListKept DEF env
  <2>3. MissedOK'
    BY <2>1, NoSearch DEF Searches
  <2>4. OwnedOK'
    BY <1>1, <1>3, <2>1 DEF OwnedOK, Holds, DropsOK, Owns, Ends, Places
  <2> QED
    BY <1>5, <2>2, <2>3, <2>4 DEF Inv
<1>7. CASE ~Answers(dev)
  <2>1. pc' = "drop" /\ drops' = [what |-> <<"device">>, then |-> "look"] /\ at' = at + 1 /\ held' = held
    BY <1>1, <1>7 DEF Drop, AfterMiss
  <2>2. ListOK'
    BY <1>1, <1>2, <1>4, <2>1, ListKept DEF env
  <2>3. Missed(list[at])
    BY <1>3, <1>7 DEF Missed
  <2>4. \A i \in 1..Len(list) : i < at' /\ ~(i < at) => i = at
    BY <1>4, <2>1
  <2>5. MissedOK'
    BY <1>1, <1>2, <2>1, <2>3, <2>4, PassedKept DEF env
  <2>6. OwnedOK'
    BY <1>1, <1>3, <2>1 DEF OwnedOK, Holds, DropsOK, Owns, Ends, Places
  <2> QED
    BY <1>5, <2>2, <2>5, <2>6 DEF Inv
<1> QED
  BY <1>6, <1>7

\* The list ends.
LEMMA FindsNothingStep == ASSUME Inv, FindsNothing PROVE Inv'
<1>1. /\ pc = "look" /\ at > Len(list) /\ pc' = "nothing" /\ held' = held \ {"handles"}
      /\ UNCHANGED <<env, call, list, at, dev, xfers, drops, steady>>
  BY DEF FindsNothing
<1>2. BusOK /\ ListOK /\ MissedOK /\ OwnedOK /\ Searches
  BY <1>1 DEF Inv, Searches
<1>3. held = {"caller", "handles"} /\ dev = NoDevice /\ xfers = {}
  BY <1>1, <1>2 DEF OwnedOK, Holds, Owns
<1>4. BusOK' /\ ListOK'
  BY <1>1, <1>2, BusKept, ListKept DEF env, ListOK
<1>5. MissedOK'
  BY <1>1, <1>2, PassedKept DEF env
<1>6. OwnedOK'
  BY <1>1, <1>3 DEF OwnedOK, Holds, DropsOK, Owns, Ends, Places
<1> QED
  BY <1>4, <1>5, <1>6 DEF Inv

-----------------------------------------------------------------------------
(* The ways out of a search.                                               *)

\* A step that only begins to let go of what the program owns.
LEMMA UnwindStep ==
    ASSUME Inv, pc' = "drop", drops'.then # "look", DropsOK', UNCHANGED <<env, list, at, steady>>
    PROVE  Inv'
<1>1. BusOK' /\ ListOK'
  BY BusKept, ListKept DEF Inv, env, ListOK
<1>2. MissedOK'
  BY NoSearch DEF Searches
<1>3. OwnedOK'
  BY DEF OwnedOK, Holds, Ends, Places
<1> QED
  BY <1>1, <1>2, <1>3 DEF Inv

\* A mount looks again with the same list, or gives up.
LEMMA MountFindsNothingStep == ASSUME Inv, MountFindsNothing PROVE Inv'
<1>1. /\ pc = "nothing" /\ UNCHANGED <<env, list, dev, xfers>>
      /\ IF LooksAgain
         THEN /\ pc' = "look" /\ at' = 1 /\ held' = held \cup {"handles"} /\ steady' = ready /\ drops' = drops
         ELSE Drop(<<"caller">>, "idle") /\ UNCHANGED <<call, at, held, steady>>
  BY DEF MountFindsNothing
<1>2. held = {"caller"} /\ dev = NoDevice /\ xfers = {}
  BY <1>1 DEF Inv, OwnedOK, Holds, Owns
<1>3. CASE LooksAgain
  <2>1. /\ pc' = "look" /\ at' = 1 /\ held' = {"caller", "handles"} /\ steady' = ready /\ dev' = NoDevice
        /\ xfers' = {} /\ bus' = bus /\ ready' = ready /\ plugs' = plugs /\ list' = list
    BY <1>1, <1>2, <1>3 DEF env
  <2>2. BusOK'
    BY <2>1 DEF Inv, BusOK
  <2>3. ListOK'
    BY <2>1, ListKept DEF Inv
  <2>4. \A i \in 1..Len(list') : ~(i < at')
    BY <2>1, <2>3 DEF ListOK
  <2>5. MissedOK'
    BY <2>1, <2>4 DEF MissedOK
  <2>6. OwnedOK'
    BY <2>1 DEF OwnedOK, Holds, DropsOK, Owns, Ends, Places
  <2> QED
    BY <2>2, <2>3, <2>5, <2>6 DEF Inv
<1>4. CASE ~LooksAgain
  <2>1. /\ pc' = "drop" /\ drops' = [what |-> <<"caller">>, then |-> "idle"] /\ UNCHANGED <<at, held, steady>>
    BY <1>1, <1>4 DEF Drop
  <2>2. DropsOK'
    BY <1>1, <1>2, <2>1 DEF DropsOK, Unwinds, Owns, Ends
  <2> QED
    BY <1>1, <2>1, <2>2, UnwindStep
<1> QED
  BY <1>3, <1>4

\* The next try, and the next cycle, begin with nothing.
LEMMA BeginsAgainStep == ASSUME Inv, TryAgain \/ NextCycle PROVE Inv'
<1>1. pc \in Ends /\ pc' = "alloc" /\ UNCHANGED <<env, list, at, owned, drops, steady>>
  BY DEF TryAgain, NextCycle, Ends
<1>2. BusOK' /\ ListOK'
  BY <1>1, BusKept, ListKept DEF Inv, env, ListOK
<1>3. MissedOK'
  BY <1>1, NoSearch DEF Searches
<1>4. OwnedOK'
  BY <1>1 DEF Inv, OwnedOK, Holds, DropsOK, Owns, Ends, Places, owned
<1> QED
  BY <1>2, <1>3, <1>4 DEF Inv

\* The first transfer opens, or the device goes.
LEMMA OpenWriteStep == ASSUME Inv, OpenWrite PROVE Inv'
<1>1. pc = "found" /\ UNCHANGED <<env, call, list, at, held, dev, steady>>
  BY DEF OpenWrite
<1>2. held = {"caller", "device"} /\ dev.addr \in Addrs /\ xfers = {}
  BY <1>1 DEF Inv, OwnedOK, Holds, Owns
<1>3. CASE xfers' = {"write"} /\ pc' = "half"
  <2>1. BusOK' /\ ListOK'
    BY <1>1, BusKept, ListKept DEF Inv, env, ListOK
  <2>2. MissedOK'
    BY <1>3, NoSearch DEF Searches
  <2>3. OwnedOK'
    BY <1>1, <1>2, <1>3 DEF OwnedOK, Holds, DropsOK, Owns, Ends, Places
  <2> QED
    BY <2>1, <2>2, <2>3 DEF Inv
<1>4. CASE Drop(<<"device", "caller">>, AfterTry) /\ UNCHANGED xfers
  <2>1. pc' = "drop" /\ drops' = [what |-> <<"device", "caller">>, then |-> AfterTry] /\ xfers' = xfers
    BY <1>4 DEF Drop
  <2>2. DropsOK'
    BY <1>1, <1>2, <2>1, AfterTryIs DEF DropsOK, Unwinds, Owns, Ends
  <2> QED
    BY <1>1, <2>1, <2>2, AfterTryIs, UnwindStep
<1> QED
  BY <1>3, <1>4 DEF OpenWrite

\* The second transfer opens, or everything goes.
LEMMA OpenReadStep == ASSUME Inv, OpenRead PROVE Inv'
<1>1. pc = "half" /\ UNCHANGED <<env, call, list, at, held, dev, steady>>
  BY DEF OpenRead
<1>2. held = {"caller", "device"} /\ dev.addr \in Addrs /\ xfers = {"write"}
  BY <1>1 DEF Inv, OwnedOK, Holds, Owns
<1>3. CASE xfers' = {"write", "read"} /\ pc' = "session"
  <2>1. BusOK' /\ ListOK'
    BY <1>1, BusKept, ListKept DEF Inv, env, ListOK
  <2>2. MissedOK'
    BY <1>3, NoSearch DEF Searches
  <2>3. OwnedOK'
    BY <1>1, <1>2, <1>3 DEF OwnedOK, Holds, DropsOK, Owns, Ends, Places, Both
  <2> QED
    BY <2>1, <2>2, <2>3 DEF Inv
<1>4. CASE Drop(<<"write", "device", "caller">>, AfterTry) /\ UNCHANGED xfers
  <2>1. pc' = "drop" /\ drops' = [what |-> <<"write", "device", "caller">>, then |-> AfterTry] /\ xfers' = xfers
    BY <1>4 DEF Drop
  <2>2. DropsOK'
    BY <1>1, <1>2, <2>1, AfterTryIs DEF DropsOK, Unwinds, Owns, Ends
  <2> QED
    BY <1>1, <2>1, <2>2, AfterTryIs, UnwindStep
<1> QED
  BY <1>3, <1>4 DEF OpenRead

\* The session opens or not, and the parts go in their order.
LEMMA ConnectStep == ASSUME Inv, Connect PROVE Inv'
<1>1. pc = "session" /\ pc' = "drop" /\ UNCHANGED <<env, call, list, at, held, dev, xfers, steady>>
  BY DEF Connect, Drop, owned
<1>2. held = {"caller", "device"} /\ dev.addr \in Addrs /\ xfers = Both
  BY <1>1 DEF Inv, OwnedOK, Holds, Owns
<1>3. \/ drops' = [what |-> <<"caller">>, then |-> "mounted"]
      \/ \E x \in Ends : drops' = [what |-> <<"caller", "write", "read", "device">>, then |-> x]
      \/ \E x \in Ends : drops' = [what |-> <<"write", "read", "device", "caller">>, then |-> x]
  BY OrdersAre, AfterTryIs DEF Connect, Drop, Ends
<1>4. DropsOK' /\ drops'.then # "look"
  BY <1>1, <1>2, <1>3 DEF DropsOK, Unwinds, Owns, Ends
<1> QED
  BY <1>1, <1>4, UnwindStep

\* A cold start and the other commands let go of what they found.
LEMMA ColdStep == ASSUME Inv, CheckFound \/ ColdReset \/ ColdFound PROVE Inv'
<1>1. pc = "found" /\ pc' = "drop" /\ UNCHANGED <<env, list, at, held, dev, xfers, steady>>
  BY DEF CheckFound, ColdReset, ColdFound, Drop, owned
<1>2. held = {"caller", "device"} /\ dev.addr \in Addrs /\ xfers = {}
  BY <1>1 DEF Inv, OwnedOK, Holds, Owns
<1>3. \E x \in Ends : drops' = [what |-> <<"device", "caller">>, then |-> x]
  BY DEF CheckFound, ColdReset, ColdFound, Drop, Ends
<1>4. DropsOK' /\ drops'.then # "look"
  BY <1>1, <1>2, <1>3 DEF DropsOK, Unwinds, Owns, Ends
<1> QED
  BY <1>1, <1>4, UnwindStep

\* And of the backend, when they found nothing.
LEMMA NothingStep == ASSUME Inv, ColdFindsNothing \/ CommandFindsNothing PROVE Inv'
<1>1. pc = "nothing" /\ pc' = "drop" /\ UNCHANGED <<env, list, at, held, dev, xfers, steady>>
  BY DEF ColdFindsNothing, CommandFindsNothing, Drop, owned
<1>2. held = {"caller"} /\ dev = NoDevice /\ xfers = {}
  BY <1>1 DEF Inv, OwnedOK, Holds, Owns
<1>3. \E x \in Ends : drops' = [what |-> <<"caller">>, then |-> x]
  BY DEF ColdFindsNothing, CommandFindsNothing, Drop, Ends
<1>4. DropsOK' /\ drops'.then # "look"
  BY <1>1, <1>2, <1>3 DEF DropsOK, Unwinds, Owns, Ends
<1> QED
  BY <1>1, <1>4, UnwindStep

\* The mount ends, and a reset can take the cellphone off the bus.
LEMMA UnmountStep == ASSUME Inv, Unmount PROVE Inv'
<1>1. pc = "mounted" /\ pc' = "drop" /\ UNCHANGED <<call, list, at, held, dev, xfers, steady>>
  BY DEF Unmount, Drop, owned
<1>2. held = {"device"} /\ dev.addr \in Addrs /\ xfers = Both
  BY <1>1 DEF Inv, OwnedOK, Holds, Owns
<1>3. drops' = [what |-> <<"write", "read", "device">>, then |-> "idle"]
  BY OrdersAre DEF Unmount, Drop
<1>4. DropsOK'
  BY <1>1, <1>2, <1>3 DEF DropsOK, Unwinds, Owns, Ends
<1>5. CASE UNCHANGED env
  BY <1>1, <1>3, <1>4, <1>5, UnwindStep
<1>6. CASE /\ Plugged(dev) /\ bus' = [bus EXCEPT ![dev.addr] = Nobody]
           /\ ready' = ready \ {dev.plug} /\ UNCHANGED plugs
  <2>1. PICK a \in Addrs : a = dev.addr
    BY <1>2
  <2>2. bus' = [bus EXCEPT ![a] = Nobody] /\ ready' = ready \ {bus[a].plug} /\ plugs' = plugs /\ steady' = steady
    BY <1>1, <1>6, <2>1 DEF Plugged
  <2>3. BusOK'
    BY <2>2, GoneBus DEF Inv
  <2>4. ListOK'
    BY <1>1, <2>2, ListKept DEF Inv, ListOK
  <2>5. MissedOK'
    BY <1>1, <1>3, NoSearch DEF Searches
  <2>6. OwnedOK'
    BY <1>1, <1>4 DEF OwnedOK, Holds, Ends, Places
  <2> QED
    BY <2>3, <2>4, <2>5, <2>6 DEF Inv
<1> QED
  BY <1>5, <1>6 DEF Unmount

-----------------------------------------------------------------------------
(* Letting go.                                                             *)

\* The first and the rest of each order in which values go.
LEMMA FirstAndRest ==
    /\ \A x : Head(<<x>>) = x /\ Len(<<x>>) = 1
    /\ \A x, y : Head(<<x, y>>) = x /\ Len(<<x, y>>) = 2 /\ Tail(<<x, y>>) = <<y>>
    /\ \A x, y, z : Head(<<x, y, z>>) = x /\ Len(<<x, y, z>>) = 3 /\ Tail(<<x, y, z>>) = <<y, z>>
    /\ \A x, y, z, w :
          Head(<<x, y, z, w>>) = x /\ Len(<<x, y, z, w>>) = 4 /\ Tail(<<x, y, z, w>>) = <<y, z, w>>
OBVIOUS

\* A value goes, and others follow it.
LEMMA DropMore ==
    ASSUME Inv, DropOne, Len(drops.what) # 1, drops.then \in Ends, DropsOK'
    PROVE  Inv'
<1>1. pc = "drop" /\ pc' = "drop" /\ drops' = [drops EXCEPT !.what = Tail(@)] /\ Locals /\ UNCHANGED env
  BY DEF DropOne
<1>2. BusOK' /\ ListOK'
  BY <1>1, LocalsKeep DEF Inv
<1>3. MissedOK'
  <2>1. drops'.then = drops.then
    BY <1>1
  <2> QED
    BY <1>1, <2>1, NoSearch DEF Searches, Ends
<1>4. OwnedOK'
  BY <1>1 DEF OwnedOK, Holds, Ends, Places
<1> QED
  BY <1>2, <1>3, <1>4 DEF Inv

\* The last value goes, and the program has nothing left.
LEMMA DropLast ==
    ASSUME Inv, DropOne, Len(drops.what) = 1, drops.then \in Ends, Owns({}, FALSE, {})'
    PROVE  Inv'
<1>1. pc = "drop" /\ pc' \in Ends /\ drops' = NotDropping /\ Locals /\ UNCHANGED env
  BY DEF DropOne
<1>2. BusOK' /\ ListOK'
  BY <1>1, LocalsKeep DEF Inv
<1>3. MissedOK'
  BY <1>1, NoSearch DEF Searches, Ends
<1>4. OwnedOK'
  BY <1>1 DEF OwnedOK, Holds, DropsOK, Ends, Places
<1> QED
  BY <1>2, <1>3, <1>4 DEF Inv

\* The step that lets one value go.
LEMMA DropOneStep == ASSUME Inv, DropOne PROVE Inv'
<1>1. pc = "drop" /\ Release(Head(drops.what)) /\ Locals /\ UNCHANGED env
  BY DEF DropOne
<1>2. CASE /\ drops.what = <<"device">> /\ drops.then = "look"
           /\ Owns({"caller", "handles", "device"}, TRUE, {})
  <2>1. Head(drops.what) = "device" /\ Len(drops.what) = 1
    BY <1>2, FirstAndRest
  <2>2. pc' = "look" /\ drops' = NotDropping /\ dev' = NoDevice /\ held' = {"caller", "handles"} /\ xfers' = {}
    BY <1>1, <1>2, <2>1 DEF DropOne, Release, Owns
  <2>3. UNCHANGED <<call, list, at, steady>>
    BY <1>1, <2>2 DEF Locals
  <2>4. BusOK' /\ ListOK'
    BY <1>1, LocalsKeep DEF Inv
  <2>5. MissedOK'
    BY <1>1, <1>2, <2>2, <2>3, PassedKept DEF Inv, Searches, env
  <2>6. OwnedOK'
    BY <2>2 DEF OwnedOK, Holds, DropsOK, Owns, Ends, Places
  <2> QED
    BY <2>4, <2>5, <2>6 DEF Inv
<1>3. CASE /\ drops.what = <<"caller">> /\ drops.then = "mounted"
           /\ Owns({"caller", "device"}, TRUE, Both)
  <2>1. Head(drops.what) = "caller" /\ Len(drops.what) = 1
    BY <1>3, FirstAndRest
  <2>2. pc' = "mounted" /\ dev' = dev /\ dev.addr \in Addrs /\ held' = {"device"} /\ xfers' = Both
    BY <1>1, <1>3, <2>1 DEF DropOne, Release, Owns
  <2>3. BusOK' /\ ListOK'
    BY <1>1, LocalsKeep DEF Inv
  <2>4. MissedOK'
    BY <2>2, NoSearch DEF Searches
  <2>5. OwnedOK'
    BY <2>2 DEF OwnedOK, Holds, DropsOK, Owns, Ends, Places
  <2> QED
    BY <2>3, <2>4, <2>5 DEF Inv
<1>4. CASE Unwinds(<<"caller">>, {"caller"}, FALSE, {})
  <2>1. /\ drops.what = <<"caller">> /\ drops.then \in Ends /\ held = {"caller"}
        /\ xfers = {} /\ dev = NoDevice
    BY <1>4 DEF Unwinds, Owns
  <2>2. Head(<<"caller">>) = "caller" /\ Len(<<"caller">>) = 1
    BY FirstAndRest
  <2>3. Owns({}, FALSE, {})'
    BY <1>1, <2>1, <2>2 DEF Release, Owns
  <2> QED
    BY <2>1, <2>2, <2>3, DropLast
<1>5. CASE Unwinds(<<"device">>, {"device"}, TRUE, {})
  <2>1. /\ drops.what = <<"device">> /\ drops.then \in Ends /\ held = {"device"}
        /\ xfers = {} /\ dev.addr \in Addrs
    BY <1>5 DEF Unwinds, Owns
  <2>2. Head(<<"device">>) = "device" /\ Len(<<"device">>) = 1
    BY FirstAndRest
  <2>3. Owns({}, FALSE, {})'
    BY <1>1, <2>1, <2>2 DEF Release, Owns
  <2> QED
    BY <2>1, <2>2, <2>3, DropLast
<1>6. CASE Unwinds(<<"device", "caller">>, {"caller", "device"}, TRUE, {})
  <2>1. /\ drops.what = <<"device", "caller">> /\ drops.then \in Ends /\ held = {"caller", "device"}
        /\ xfers = {} /\ dev.addr \in Addrs
    BY <1>6 DEF Unwinds, Owns
  <2>2. Head(<<"device", "caller">>) = "device" /\ Len(<<"device", "caller">>) = 2 /\ Tail(<<"device", "caller">>) = <<"caller">>
    BY FirstAndRest
  <2>3. held' = {"caller"} /\ xfers' = {} /\ dev' = NoDevice
    BY <1>1, <2>1, <2>2 DEF Release, Both
  <2>4. drops' = [what |-> <<"caller">>, then |-> drops.then]
    BY <1>6, <2>1, <2>2 DEF Unwinds, DropOne
  <2>5. DropsOK'
    BY <2>1, <2>3, <2>4 DEF DropsOK, Unwinds, Owns
  <2> QED
    BY <2>1, <2>2, <2>5, DropMore
<1>7. CASE Unwinds(<<"read", "device">>, {"device"}, TRUE, {"read"})
  <2>1. /\ drops.what = <<"read", "device">> /\ drops.then \in Ends /\ held = {"device"}
        /\ xfers = {"read"} /\ dev.addr \in Addrs
    BY <1>7 DEF Unwinds, Owns
  <2>2. Head(<<"read", "device">>) = "read" /\ Len(<<"read", "device">>) = 2 /\ Tail(<<"read", "device">>) = <<"device">>
    BY FirstAndRest
  <2>3. held' = {"device"} /\ xfers' = {} /\ dev' = dev
    BY <1>1, <2>1, <2>2 DEF Release, Both
  <2>4. drops' = [what |-> <<"device">>, then |-> drops.then]
    BY <1>7, <2>1, <2>2 DEF Unwinds, DropOne
  <2>5. DropsOK'
    BY <2>1, <2>3, <2>4 DEF DropsOK, Unwinds, Owns
  <2> QED
    BY <2>1, <2>2, <2>5, DropMore
<1>8. CASE Unwinds(<<"read", "device", "caller">>, {"caller", "device"}, TRUE, {"read"})
  <2>1. /\ drops.what = <<"read", "device", "caller">> /\ drops.then \in Ends /\ held = {"caller", "device"}
        /\ xfers = {"read"} /\ dev.addr \in Addrs
    BY <1>8 DEF Unwinds, Owns
  <2>2. Head(<<"read", "device", "caller">>) = "read" /\ Len(<<"read", "device", "caller">>) = 3 /\ Tail(<<"read", "device", "caller">>) = <<"device", "caller">>
    BY FirstAndRest
  <2>3. held' = {"caller", "device"} /\ xfers' = {} /\ dev' = dev
    BY <1>1, <2>1, <2>2 DEF Release, Both
  <2>4. drops' = [what |-> <<"device", "caller">>, then |-> drops.then]
    BY <1>8, <2>1, <2>2 DEF Unwinds, DropOne
  <2>5. DropsOK'
    BY <2>1, <2>3, <2>4 DEF DropsOK, Unwinds, Owns
  <2> QED
    BY <2>1, <2>2, <2>5, DropMore
<1>9. CASE Unwinds(<<"write", "device", "caller">>, {"caller", "device"}, TRUE, {"write"})
  <2>1. /\ drops.what = <<"write", "device", "caller">> /\ drops.then \in Ends /\ held = {"caller", "device"}
        /\ xfers = {"write"} /\ dev.addr \in Addrs
    BY <1>9 DEF Unwinds, Owns
  <2>2. Head(<<"write", "device", "caller">>) = "write" /\ Len(<<"write", "device", "caller">>) = 3 /\ Tail(<<"write", "device", "caller">>) = <<"device", "caller">>
    BY FirstAndRest
  <2>3. held' = {"caller", "device"} /\ xfers' = {} /\ dev' = dev
    BY <1>1, <2>1, <2>2 DEF Release, Both
  <2>4. drops' = [what |-> <<"device", "caller">>, then |-> drops.then]
    BY <1>9, <2>1, <2>2 DEF Unwinds, DropOne
  <2>5. DropsOK'
    BY <2>1, <2>3, <2>4 DEF DropsOK, Unwinds, Owns
  <2> QED
    BY <2>1, <2>2, <2>5, DropMore
<1>10. CASE Unwinds(<<"write", "read", "device">>, {"device"}, TRUE, Both)
  <2>1. /\ drops.what = <<"write", "read", "device">> /\ drops.then \in Ends /\ held = {"device"}
        /\ xfers = Both /\ dev.addr \in Addrs
    BY <1>10 DEF Unwinds, Owns
  <2>2. Head(<<"write", "read", "device">>) = "write" /\ Len(<<"write", "read", "device">>) = 3 /\ Tail(<<"write", "read", "device">>) = <<"read", "device">>
    BY FirstAndRest
  <2>3. held' = {"device"} /\ xfers' = {"read"} /\ dev' = dev
    BY <1>1, <2>1, <2>2 DEF Release, Both
  <2>4. drops' = [what |-> <<"read", "device">>, then |-> drops.then]
    BY <1>10, <2>1, <2>2 DEF Unwinds, DropOne
  <2>5. DropsOK'
    BY <2>1, <2>3, <2>4 DEF DropsOK, Unwinds, Owns
  <2> QED
    BY <2>1, <2>2, <2>5, DropMore
<1>11. CASE Unwinds(<<"write", "read", "device", "caller">>, {"caller", "device"}, TRUE, Both)
  <2>1. /\ drops.what = <<"write", "read", "device", "caller">> /\ drops.then \in Ends /\ held = {"caller", "device"}
        /\ xfers = Both /\ dev.addr \in Addrs
    BY <1>11 DEF Unwinds, Owns
  <2>2. Head(<<"write", "read", "device", "caller">>) = "write" /\ Len(<<"write", "read", "device", "caller">>) = 4 /\ Tail(<<"write", "read", "device", "caller">>) = <<"read", "device", "caller">>
    BY FirstAndRest
  <2>3. held' = {"caller", "device"} /\ xfers' = {"read"} /\ dev' = dev
    BY <1>1, <2>1, <2>2 DEF Release, Both
  <2>4. drops' = [what |-> <<"read", "device", "caller">>, then |-> drops.then]
    BY <1>11, <2>1, <2>2 DEF Unwinds, DropOne
  <2>5. DropsOK'
    BY <2>1, <2>3, <2>4 DEF DropsOK, Unwinds, Owns
  <2> QED
    BY <2>1, <2>2, <2>5, DropMore
<1>12. CASE Unwinds(<<"caller", "write", "read", "device">>, {"caller", "device"}, TRUE, Both)
  <2>1. /\ drops.what = <<"caller", "write", "read", "device">> /\ drops.then \in Ends /\ held = {"caller", "device"}
        /\ xfers = Both /\ dev.addr \in Addrs
    BY <1>12 DEF Unwinds, Owns
  <2>2. Head(<<"caller", "write", "read", "device">>) = "caller" /\ Len(<<"caller", "write", "read", "device">>) = 4 /\ Tail(<<"caller", "write", "read", "device">>) = <<"write", "read", "device">>
    BY FirstAndRest
  <2>3. held' = {"device"} /\ xfers' = Both /\ dev' = dev
    BY <1>1, <2>1, <2>2 DEF Release, Both
  <2>4. drops' = [what |-> <<"write", "read", "device">>, then |-> drops.then]
    BY <1>12, <2>1, <2>2 DEF Unwinds, DropOne
  <2>5. DropsOK'
    BY <2>1, <2>3, <2>4 DEF DropsOK, Unwinds, Owns
  <2> QED
    BY <2>1, <2>2, <2>5, DropMore
<1> QED
  BY <1>1, <1>2, <1>3, <1>4, <1>5, <1>6, <1>7, <1>8, <1>9, <1>10, <1>11, <1>12 DEF Inv, OwnedOK, DropsOK

-----------------------------------------------------------------------------
(* The theorems.                                                           *)

\* Nothing is on the bus and nothing is owned at the beginning.
LEMMA InitInv == Init => Inv
<1> SUFFICES ASSUME Init PROVE Inv
  OBVIOUS
<1>1. BusOK
  BY DEF Init, BusOK, Nobody
<1>2. ListOK /\ MissedOK
  BY DEF Init, ListOK, MissedOK, Searches
<1>3. OwnedOK
  BY DEF Init, OwnedOK, Holds, DropsOK, Owns, Places, Ends
<1> QED
  BY <1>1, <1>2, <1>3 DEF Inv

\* Every step keeps the invariant.
LEMMA NextInv == Inv /\ [Next]_vars => Inv'
<1> SUFFICES ASSUME Inv, [Next]_vars PROVE Inv'
  OBVIOUS
<1>1. CASE BusEvent
  BY <1>1, JoinStep, BecomeReadyStep, LeaveStep DEF BusEvent
<1>2. CASE Start
  BY <1>2, StartStep DEF Start
<1>3. CASE Step
  BY <1>3, DropOneStep, BackendStep, NoBackendStep, LookStep, InspectStep, FindsNothingStep, MountFindsNothingStep,
     BeginsAgainStep, OpenWriteStep, OpenReadStep, ConnectStep, ColdStep, NothingStep DEF Step
<1>4. CASE Unmount
  BY <1>4, UnmountStep
<1>5. CASE UNCHANGED vars
  <2>1. UNCHANGED <<env, pc, call, list, at, owned, drops, steady>>
    BY <1>5 DEF vars, env, owned
  <2>2. BusOK'
    BY <2>1, BusKept DEF Inv
  <2>3. ListOK'
    BY <2>1, ListKept DEF Inv, env, ListOK
  <2>4. MissedOK'
    BY <2>1 DEF Inv, MissedOK, Searches, Missed, Answers, Plugged, Matches, env
  <2>5. OwnedOK'
    BY <2>1, OwnedKept DEF Inv
  <2> QED
    BY <2>2, <2>3, <2>4, <2>5 DEF Inv
<1> QED
  BY <1>1, <1>2, <1>3, <1>4, <1>5 DEF Next

\* The invariant holds in every reachable state.
LEMMA Invariance == Spec => []Inv
BY InitInv, NextInv, PTL DEF Spec

\* Every pointer the unsafe code keeps points at something the library has not
\* freed, on every way out of every call, whichever device leaves the bus at
\* whichever moment and whichever call fails (OpenDevice, MtpDevice, Backend).
THEOREM NoDanglingPointer == Spec => []PointersLive
<1>1. Inv => PointersLive
  <2> SUFFICES ASSUME Inv PROVE PointersLive
    OBVIOUS
  <2>1. dev.addr \in Addrs => dev # NoDevice
    BY BoundsAssumption DEF Addrs, NoDevice
  <2>2. pc \in Places /\ Holds /\ DropsOK
    BY DEF Inv, OwnedOK
  <2>3. CASE pc = "drop"
    BY <2>1, <2>2, <2>3 DEF DropsOK, Unwinds, Owns, PointersLive
  <2>4. CASE pc # "drop"
    BY <2>1, <2>2, <2>4 DEF Holds, Places, Owns, Ends, PointersLive
  <2> QED
    BY <2>3, <2>4
<1> QED
  BY <1>1, Invariance, PTL

\* A search that finds nothing is right, for any number of devices, searches
\* and looks: what it passed over did not answer all through the last look
\* (find, inspect, find_with_patience).
THEOREM NoDeviceMissed == Spec => []MissIsRight
<1>1. Inv => MissIsRight
  <2> SUFFICES ASSUME Inv, pc = "nothing", NEW i \in 1..Len(list) PROVE Missed(list[i])
    BY DEF MissIsRight, Missed
  <2>1. at > Len(list) /\ at \in Nat /\ Len(list) \in Nat
    BY DEF Inv, MissedOK, ListOK
  <2>2. i < at
    BY <2>1
  <2> QED
    BY <2>2 DEF Inv, MissedOK, Searches
<1> QED
  BY <1>1, Invariance, PTL
===============================================================================
