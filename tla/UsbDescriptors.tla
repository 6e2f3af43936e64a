--------------------------- MODULE UsbDescriptors ----------------------------
(***************************************************************************)
(* The descriptors of crates/usb-freebsd/src/descriptor.rs: the walk over  *)
(* a configuration descriptor and over a BOS descriptor, and the choice of *)
(* the interface that carries MTP.                                         *)
(*                                                                         *)
(* A buffer is a sequence of bytes, with the real sizes and places of the  *)
(* fields. The three numbers of a class are kept together as one class     *)
(* byte: they are always compared together.                                *)
(***************************************************************************)
EXTENDS Integers, Sequences, SequencesExt

TypeConfiguration == 2
TypeInterface == 4
TypeEndpoint == 5
TypeBos == 15
TypeCapability == 16

\* The classes the code tells apart: still imaging, a vendor class that may
\* carry MTP, adb, and any other.
ClassMtp == 1
ClassVendor == 2
ClassAdb == 3
ClassOther == 4

\* The transfer types, and the bit of an address that says "to the host".
Bulk == 2
Interrupt == 3
DirectionIn == 128

Error(kind) == [ok |-> FALSE, error |-> kind]

\* A number of two bytes.
Short(buf, at) == buf[at] + 256 * buf[at + 1]

-----------------------------------------------------------------------------
(* ConfigDescriptor::parse. Positions count from 0, as in the code: the    *)
(* byte at position p is buf[p + 1].                                       *)

IsMtp(i) == i.class = ClassMtp
IsVendorMtpCandidate(i) == i.class = ClassVendor /\ i.string_index # 0
IsAdb(i) == i.class = ClassAdb

InterfaceAt(buf, pos) ==
    [number |-> buf[pos + 3], alternate |-> buf[pos + 4], class |-> buf[pos + 6],
     string_index |-> buf[pos + 9], endpoints |-> <<>>]
EndpointAt(buf, pos) ==
    [address |-> buf[pos + 3], type |-> buf[pos + 4] % 4, packet |-> Short(buf, pos + 5)]

\* An endpoint belongs to the interface before it, and no other descriptor
\* comes between the two.
Owned(interfaces, ep) ==
    [interfaces EXCEPT ![Len(interfaces)].endpoints = Append(@, ep)]

\* What one descriptor does to the list.
MutMeets(buf, pos, interfaces) ==
    IF buf[pos + 2] = TypeInterface THEN Append(interfaces, InterfaceAt(buf, pos))
    ELSE IF buf[pos + 2] = TypeEndpoint
    THEN [interfaces EXCEPT ![1].endpoints = Append(@, EndpointAt(buf, pos))]
    ELSE interfaces
Meets(buf, pos, interfaces) ==
    IF buf[pos + 2] = TypeInterface THEN Append(interfaces, InterfaceAt(buf, pos))
    ELSE IF buf[pos + 2] = TypeEndpoint THEN Owned(interfaces, EndpointAt(buf, pos))
    ELSE interfaces

\* The fault that one descriptor is, or none.
Fault(buf, pos, end, interfaces) ==
    LET len == buf[pos + 1]
        kind == buf[pos + 2]
    IN  IF len = 0 THEN "ZeroLength"
        ELSE IF pos + len > end THEN "RunsPastEnd"
        ELSE IF kind = TypeInterface /\ len < 9 THEN "TooShort"
        ELSE IF kind = TypeEndpoint /\ len < 7 THEN "TooShort"
        ELSE IF kind = TypeEndpoint /\ interfaces = <<>> THEN "EndpointWithoutInterface"
        ELSE "none"

\* The walk: it advances by the length of each descriptor, and a length of 0
\* is a fault, so it ends.
RECURSIVE Walk(_, _, _, _)
Walk(buf, pos, end, interfaces) ==
    IF pos + 2 > end THEN [ok |-> TRUE, interfaces |-> interfaces]
    ELSE IF Fault(buf, pos, end, interfaces) # "none"
    THEN Error(Fault(buf, pos, end, interfaces))
    ELSE Walk(buf, pos + buf[pos + 1], end, Meets(buf, pos, interfaces))

\* The smaller of the buffer and the declared length ends the walk.
ConfigParse(buf) ==
    IF Len(buf) < 9 THEN Error("TooShort")
    ELSE IF buf[2] # TypeConfiguration THEN Error("WrongType")
    ELSE IF buf[1] = 0 THEN Error("ZeroLength")
    ELSE Walk(buf, buf[1], Min({Len(buf), Short(buf, 3)}), <<>>)

-----------------------------------------------------------------------------
(* MtpInterface::find_with_names.                                          *)

IsIn(e) == e.address >= DirectionIn
IsBulk(e) == e.type = Bulk

Find(s, Test(_)) == SelectInSeq(s, Test)

\* from_interface: the first bulk endpoint of each direction.
FromInterface(i) ==
    LET in == Find(i.endpoints, LAMBDA e : IsBulk(e) /\ IsIn(e))
        out == Find(i.endpoints, LAMBDA e : IsBulk(e) /\ ~IsIn(e))
        event == Find(i.endpoints, LAMBDA e : e.type = Interrupt /\ IsIn(e))
    IN  IF in = 0 \/ out = 0 THEN Error("IncompleteMtpEndpoints")
        ELSE [ok |-> TRUE, number |-> i.number, alternate |-> i.alternate,
              bulk_in |-> i.endpoints[in].address, bulk_out |-> i.endpoints[out].address,
              interrupt_in |-> IF event = 0 THEN 0 ELSE i.endpoints[event].address,
              packet |-> i.endpoints[in].packet]

\* The still imaging class first, then a vendor interface whose name is MTP.
\* Named holds the string indexes whose name reads as MTP.
MutFindWithNames(interfaces, Named) ==
    LET at == Find(interfaces, LAMBDA i : IsMtp(i) \/ i.class = ClassAdb \/ IsVendorMtpCandidate(i))
    IN  IF at # 0 THEN FromInterface(interfaces[at]) ELSE Error("NoMtpInterface")
FindWithNames(interfaces, Named) ==
    LET still == Find(interfaces, IsMtp)
        vendor == Find(interfaces, LAMBDA i : IsVendorMtpCandidate(i) /\ i.string_index \in Named)
    IN  IF still # 0 THEN FromInterface(interfaces[still])
        ELSE IF vendor # 0 THEN FromInterface(interfaces[vendor])
        ELSE Error("NoMtpInterface")

-----------------------------------------------------------------------------
(* DeviceCapabilities::parse and supports_faster_than_high.                *)

SuperSpeed == 3
SuperSpeedPlus == 10

Faster(buf, pos) == buf[pos + 2] = TypeCapability /\ buf[pos + 3] \in {SuperSpeed, SuperSpeedPlus}

RECURSIVE WalkBos(_, _, _, _)
WalkBos(buf, pos, end, faster) ==
    IF pos + 3 > end THEN [ok |-> TRUE, faster |-> faster]
    ELSE IF buf[pos + 1] = 0 THEN Error("ZeroLength")
    ELSE IF pos + buf[pos + 1] > end THEN Error("RunsPastEnd")
    ELSE WalkBos(buf, pos + buf[pos + 1], end, faster \/ Faster(buf, pos))

CapabilitiesParse(buf) ==
    IF Len(buf) < 5 THEN Error("TooShort")
    ELSE IF buf[2] # TypeBos THEN Error("WrongType")
    ELSE IF buf[1] = 0 THEN Error("ZeroLength")
    ELSE WalkBos(buf, buf[1], Min({Len(buf), Short(buf, 3)}), FALSE)
=============================================================================
