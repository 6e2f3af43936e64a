------------------------------- MODULE PtpWire -------------------------------
(***************************************************************************)
(* The wire format of crates/ptp-proto/src/lib.rs: containers, strings,    *)
(* arrays, datasets and property lists, as operators on byte sequences.    *)
(*                                                                         *)
(* The widths of the fields are the real ones. A byte counts to Base, which *)
(* is 256 on the wire; a small Base brings the limits of a byte (254        *)
(* characters in a string) and of a length field within reach.             *)
(*                                                                         *)
(* A dataset is a layout: the fields of the Rust struct in the order that  *)
(* its parse function reads them, each with its type.                      *)
(***************************************************************************)
EXTENDS Integers, Sequences, SequencesExt, TLC

CONSTANTS
    Base,    \* the values of a byte
    Leads,   \* code units that start a surrogate pair
    Trails   \* code units that end one

ASSUME BaseAssumption == Base \in Nat /\ Base >= 4
ASSUME UnitsAssumption ==
    Leads \cap Trails = {} /\ Leads \cup Trails \subseteq 1..(Base * Base - 1)

Bytes == 0..(Base - 1)

\* to_le_bytes and from_le_bytes.
Le(n, w) == [i \in 1..w |-> (n \div Base^(i - 1)) % Base]
FromLe(b) == FoldRight(LAMBDA x, acc : x + Base * acc, b, 0)

-----------------------------------------------------------------------------
(* Reader: a buffer, the position, whether the last read worked, what it   *)
(* gave, and the fields that were read so far.                             *)

Reader(buf) == [buf |-> buf, pos |-> 0, ok |-> TRUE, val |-> <<>>, rec |-> <<>>]
Remaining(r) == Len(r.buf) - r.pos

\* A read that fails leaves the position.
Take(r, n) ==
    IF Remaining(r) < n THEN [r EXCEPT !.ok = FALSE, !.val = <<>>]
    ELSE [r EXCEPT !.pos = @ + n, !.val = SubSeq(r.buf, r.pos + 1, r.pos + n)]

Width == [u8 |-> 1, u16 |-> 2, u32 |-> 4, u64 |-> 8]
ReadNumber(r, type) ==
    LET s == Take(r, Width[type]) IN IF s.ok THEN [s EXCEPT !.val = FromLe(@)] ELSE s

\* String::from_utf16: a lead and a trail come together or not at all.
IsUtf16(units) ==
    \A i \in 1..Len(units) :
        /\ units[i] \in Leads => i < Len(units) /\ units[i + 1] \in Trails
        /\ units[i] \in Trails => i > 1 /\ units[i - 1] \in Leads

Units(bytes) == [i \in 1..(Len(bytes) \div 2) |-> FromLe(SubSeq(bytes, 2 * i - 1, 2 * i))]
WithoutEnd(units) == IF Last(units) = 0 THEN Front(units) ELSE units

\* read_string. The count byte is taken even when the characters do not follow.
ReadString(r) ==
    LET count == ReadNumber(r, "u8")
        chars == Take(count, 2 * count.val)
        text == WithoutEnd(Units(chars.val))
    IN  IF ~count.ok \/ count.val = 0 THEN [count EXCEPT !.val = <<>>]
        ELSE IF ~chars.ok THEN chars
        ELSE [chars EXCEPT !.ok = IsUtf16(text), !.val = text]

\* read_array: the count is held against the bytes that are there.
ReadArray(r, type) ==
    LET count == ReadNumber(r, "u32")
        body == Take(count, count.val * Width[type])
        item(i) == FromLe(SubSeq(body.val, (i - 1) * Width[type] + 1, i * Width[type]))
    IN  IF ~count.ok THEN count
        ELSE IF ~body.ok THEN body
        ELSE [body EXCEPT !.val = [i \in 1..count.val |-> item(i)]]

\* unwrap_or_default: a string that does not read is empty, and the reader
\* stands where the attempt left it.
OrDefault(r) == IF r.ok THEN r ELSE [r EXCEPT !.ok = TRUE, !.val = <<>>]

Read(r, type) ==
    CASE type \in DOMAIN Width -> ReadNumber(r, type)
      [] type = "string" -> ReadString(r)
      [] type = "optional" -> OrDefault(ReadString(r))
      [] type = "u16s" -> ReadArray(r, "u16")
      [] type = "u32s" -> ReadArray(r, "u32")

\* Reads the fields of a layout one after another, up to the first fault.
Keep(r, name) == [r EXCEPT !.rec = (name :> r.val) @@ @]
ReadFields(r, layout) ==
    LET step(acc, field) == IF acc.ok THEN Keep(Read(acc, field[2]), field[1]) ELSE acc
    IN  FoldLeft(step, r, layout)
Parse(buf, layout) == ReadFields(Reader(buf), layout)

-----------------------------------------------------------------------------
(* Containers.                                                             *)

HeaderLen == 12
Commands == 1
Datas == 2
ContainerTypes == 1..4

HeaderLayout == <<
    <<"length", "u32">>, <<"kind", "u16">>, <<"code", "u16">>, <<"transaction_id", "u32">> >>

\* Header::parse: a type from 1 to 4.
OfKnownType(h) == [h EXCEPT !.ok = @ /\ h.rec["kind"] \in ContainerTypes]
HeaderParse(buf) == OfKnownType(Parse(buf, HeaderLayout))

\* Container::parse: the length field covers the header, and the buffer holds
\* what it declares.
WithPayload(h) ==
    IF ~h.ok \/ h.rec["length"] < HeaderLen \/ h.rec["length"] > Len(h.buf) THEN [ok |-> FALSE]
    ELSE [ok |-> TRUE, kind |-> h.rec["kind"], code |-> h.rec["code"],
          transaction_id |-> h.rec["transaction_id"],
          payload |-> SubSeq(h.buf, HeaderLen + 1, h.rec["length"])]
ContainerParse(buf) == WithPayload(HeaderParse(buf))

\* Container::parameters: what is left over behind the last whole one goes.
Parameters(payload) ==
    [i \in 1..(Len(payload) \div 4) |-> FromLe(SubSeq(payload, 4 * i - 3, 4 * i))]

MaxPayloadLen == Base^4 - 1 - HeaderLen
MutTooLarge(n) == n > MaxPayloadLen + HeaderLen
TooLarge(n) == n > MaxPayloadLen

\* push_header: the length field has four bytes, and a larger number is cut.
Header(length, kind, code, id) == Le(length, 4) \o Le(kind, 2) \o Le(code, 2) \o Le(id, 4)

\* build, with container_length; a payload that does not fit gives an error.
Build(kind, code, id, payload) ==
    IF TooLarge(Len(payload)) THEN [ok |-> FALSE]
    ELSE [ok |-> TRUE, bytes |-> Header(HeaderLen + Len(payload), kind, code, id) \o payload]

MaxParams == 5

\* build_command: the first five parameters go out.
BuildCommand(code, id, params) ==
    LET sent == SubSeq(params, 1, Min({Len(params), MaxParams}))
    IN  Header(HeaderLen + 4 * Len(sent), Commands, code, id)
            \o FlattenSeq([i \in 1..Len(sent) |-> Le(sent[i], 4)])

-----------------------------------------------------------------------------
(* Datasets.                                                               *)

\* The count byte holds the characters and the terminator.
MaxUnits == Base - 2

\* How much of a name goes out: never half of a character.
MutTaken(units) == Min({Len(units), MaxUnits})
Taken(units) ==
    LET most == Min({Len(units), MaxUnits})
    IN  IF most < Len(units) /\ most > 0 /\ units[most] \in Leads THEN most - 1 ELSE most

PushString(units) ==
    IF units = <<>> THEN <<0>>
    ELSE <<Taken(units) + 1>> \o FlattenSeq([i \in 1..Taken(units) |-> Le(units[i], 2)]) \o <<0, 0>>

\* The fields of GetStorageInfo, GetObjectInfo and GetDeviceInfo.
StorageInfo == <<
    <<"storage_type", "u16">>, <<"filesystem_type", "u16">>, <<"access_capability", "u16">>,
    <<"max_capacity", "u64">>, <<"free_space_in_bytes", "u64">>, <<"free_space_in_objects", "u32">>,
    <<"storage_description", "string">>, <<"volume_identifier", "string">> >>

ObjectInfo == <<
    <<"storage_id", "u32">>, <<"object_format", "u16">>, <<"protection_status", "u16">>,
    <<"compressed_size", "u32">>, <<"thumb_format", "u16">>, <<"thumb_compressed_size", "u32">>,
    <<"thumb_pix_width", "u32">>, <<"thumb_pix_height", "u32">>, <<"image_pix_width", "u32">>,
    <<"image_pix_height", "u32">>, <<"image_bit_depth", "u32">>, <<"parent_object", "u32">>,
    <<"association_type", "u16">>, <<"association_desc", "u32">>, <<"sequence_number", "u32">>,
    <<"filename", "string">>, <<"capture_date", "optional">>, <<"modification_date", "optional">> >>

DeviceInfo == <<
    <<"standard_version", "u16">>, <<"vendor_extension_id", "u32">>,
    <<"vendor_extension_version", "u16">>, <<"vendor_extension_desc", "string">>,
    <<"functional_mode", "u16">>, <<"operations_supported", "u16s">>,
    <<"events_supported", "u16s">>, <<"device_properties_supported", "u16s">>,
    <<"capture_formats", "u16s">>, <<"image_formats", "u16s">>, <<"manufacturer", "optional">>,
    <<"model", "optional">>, <<"device_version", "optional">>, <<"serial_number", "optional">> >>

\* The codes of format, as small numbers.
Association == 1
Undefined == 2

\* ObjectInfo::build_for_send: fifteen numbers and four strings.
BuildForSend(storage, parent, name, size, folder) ==
    Le(storage, 4) \o Le(IF folder THEN Association ELSE Undefined, 2) \o Le(0, 2) \o Le(size, 4)
        \o Le(0, 2) \o Le(0, 4) \o Le(0, 4) \o Le(0, 4)
        \o Le(0, 4) \o Le(0, 4) \o Le(0, 4)
        \o Le(parent, 4) \o Le(IF folder THEN 1 ELSE 0, 2) \o Le(0, 4) \o Le(0, 4)
        \o PushString(name) \o PushString(<<>>) \o PushString(<<>>) \o PushString(<<>>)

-----------------------------------------------------------------------------
(* Property lists.                                                         *)

\* The codes of prop and datatype, as small numbers.
PropFileName == 1
PropSize == 2
PropFormat == 3
PropParent == 4
PropStorage == 5
NumberTypes == <<"u8", "u8", "u16", "u16", "u32", "u32", "u64", "u64">>
WideTypes == {9, 10}
TypeStr == Base * Base - 1

\* The value of one property: a number, a text, or a wide one that is skipped.
ReadValue(r, kind) ==
    IF kind \in DOMAIN NumberTypes
    THEN LET s == ReadNumber(r, NumberTypes[kind]) IN [s EXCEPT !.val = <<"number", @>>]
    ELSE IF kind \in WideTypes THEN [Take(r, 16) EXCEPT !.val = <<"wide", 0>>]
    ELSE IF kind = TypeStr THEN LET s == ReadString(r) IN [s EXCEPT !.val = <<"text", @>>]
    ELSE [r EXCEPT !.ok = FALSE]

\* parse_object_prop_list: count elements, or a fault. A list that is shorter
\* than its count is a fault, and so is a type of unknown width.
ElementLayout == << <<"handle", "u32">>, <<"code", "u16">>, <<"kind", "u16">> >>
WithValue(r) == IF r.ok THEN Keep(ReadValue(r, r.rec["kind"]), "value") ELSE r
WithElement(acc, r) ==
    [r |-> r,
     out |-> IF ~r.ok THEN acc.out
             ELSE Append(acc.out, [handle |-> r.rec["handle"], code |-> r.rec["code"],
                                   value |-> r.rec["value"]])]
ReadElements(count) ==
    LET step(acc, i) ==
            IF acc.r.ok THEN WithElement(acc, WithValue(ReadFields(acc.r, ElementLayout))) ELSE acc
    IN  FoldLeft(step, [r |-> count, out |-> <<>>],
                 [i \in 1..(IF count.ok THEN count.val ELSE 0) |-> i])
ParsePropList(data) == ReadElements(ReadNumber(Reader(data), "u32"))

\* fold_prop_list: one record for each handle, in the order of the first
\* element, with the values of the last elements; a format is cut to 16 bits,
\* a parent and a storage to 32.
EmptyRecord(h) == [handle |-> h, name |-> <<>>, size |-> 0, format |-> 0,
                   parent |-> 0, storage |-> 0]
WithProperty(rec, e) ==
    CASE e.code = PropFileName /\ e.value[1] = "text" -> [rec EXCEPT !.name = e.value[2]]
      [] e.code = PropSize /\ e.value[1] = "number" -> [rec EXCEPT !.size = e.value[2]]
      [] e.code = PropFormat /\ e.value[1] = "number" -> [rec EXCEPT !.format = e.value[2] % Base^2]
      [] e.code = PropParent /\ e.value[1] = "number" -> [rec EXCEPT !.parent = e.value[2] % Base^4]
      [] e.code = PropStorage /\ e.value[1] = "number" -> [rec EXCEPT !.storage = e.value[2] % Base^4]
      [] OTHER -> rec
MutFoldPropList(entries) ==
    LET step(out, e) == Append(out, WithProperty(EmptyRecord(e.handle), e))
    IN  FoldLeft(step, <<>>, entries)
FoldPropList(entries) ==
    LET step(out, e) ==
            LET at == SelectInSeq(out, LAMBDA rec : rec.handle = e.handle)
            IN  IF at = 0 THEN Append(out, WithProperty(EmptyRecord(e.handle), e))
                ELSE [out EXCEPT ![at] = WithProperty(@, e)]
    IN  FoldLeft(step, <<>>, entries)

\* drop_the_folder: a listing with a depth of 1 holds the folder itself.
DropTheFolder(records, folder) == SelectSeq(records, LAMBDA rec : rec.handle # folder)
=============================================================================
