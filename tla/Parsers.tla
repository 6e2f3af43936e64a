------------------------------ MODULE Parsers -------------------------------
(***************************************************************************)
(* The parsers of PtpWire and UsbDescriptors against what the cellphone    *)
(* meant: each step takes one input, which can be cut, announce a wrong    *)
(* count or declare a wrong length, and keeps what the parser gives.       *)
(***************************************************************************)
EXTENDS PtpWire, UsbDescriptors

CONSTANTS
    MaxDescriptors, \* bound: descriptors in a configuration
    MaxEntries,     \* bound: elements in a property list
    MaxName         \* bound: code units in a name

ASSUME ParsersAssumption ==
    MaxDescriptors \in Nat /\ MaxEntries \in Nat /\ MaxName \in Nat /\ Base * Base > 12

VARIABLES
    input,  \* what the parser got, and what the cellphone meant by it
    got     \* what the parser gave

vars == <<input, got>>

Fresh == input = [kind |-> "none"]

-----------------------------------------------------------------------------
(* What the cellphone puts on the wire.                                    *)

Chosen(n, type) == CASE type \in DOMAIN Width -> 1
                     [] type \in {"string", "optional"} -> <<5, 6>>
                     [] type = "u16s" -> <<n, 2>>
                     [] OTHER -> <<n>>
Encoded(v, type) ==
    CASE type \in DOMAIN Width -> Le(v, Width[type])
      [] type \in {"string", "optional"} -> PushString(v)
      [] type = "u16s" -> Le(Len(v), 4) \o FlattenSeq([i \in 1..Len(v) |-> Le(v[i], 2)])
      [] OTHER -> Le(Len(v), 4) \o FlattenSeq([i \in 1..Len(v) |-> Le(v[i], 4)])

\* The bytes of the first k fields of a dataset.
Dataset(layout, k) ==
    FlattenSeq([i \in 1..k |-> Encoded(Chosen(1, layout[i][2]), layout[i][2])])
Layouts == [storage |-> StorageInfo, object |-> ObjectInfo, device |-> DeviceInfo]

\* A property list: the values carry their type, and 0 is a type nobody knows.
Values == {[kind |-> 2, val |-> <<"number", 3>>], [kind |-> 8, val |-> <<"number", Base^2 + 5>>],
           [kind |-> 10, val |-> <<"wide", 0>>], [kind |-> TypeStr, val |-> <<"text", <<5>> >>],
           [kind |-> TypeStr, val |-> <<"text", <<6, 7>> >>], [kind |-> 0, val |-> <<"wide", 0>>]}
Elements == {[handle |-> h, code |-> c, kind |-> v.kind, value |-> v.val] :
                h \in 1..2, c \in {PropFileName, PropSize, PropFormat}, v \in Values}
ElementBytes(e) ==
    Le(e.handle, 4) \o Le(e.code, 2) \o Le(e.kind, 2)
        \o (CASE e.value[1] = "text" -> PushString(e.value[2])
              [] e.value[1] = "number" -> Le(e.value[2], IF e.kind = 2 THEN 1 ELSE 8)
              [] OTHER -> Le(0, 16))
PropBytes(es) == FlattenSeq([i \in 1..Len(es) |-> ElementBytes(es[i])])

\* Descriptors of a cellphone: interfaces, endpoints, and a class descriptor;
\* and descriptors that no length can be right for.
Broken == {<<0, 36>>, <<8, TypeInterface, 1, 0, 0, ClassMtp, 0, 0>>, <<6, TypeEndpoint, 1, Bulk, 64, 0>>}
Descriptors ==
    {<<9, TypeInterface, c, 0, 0, c, 0, 0, 5>> : c \in {ClassMtp, ClassVendor, ClassAdb}}
    \cup {<<9, TypeInterface, 0, 0, 0, ClassVendor, 0, 0, 0>>}
    \cup {<<7, TypeEndpoint, 1, Bulk, 64, 0, 0>>, <<7, TypeEndpoint, DirectionIn + 1, Bulk, 64, 0, 0>>,
          <<7, TypeEndpoint, DirectionIn + 2, Interrupt, 8, 0, 0>>, <<3, 36, 4>>}
    \cup Broken
ConfigBytes(ds, declared) ==
    <<9, TypeConfiguration, declared % 256, declared \div 256, 1, 1, 0, 128, 50>> \o FlattenSeq(ds)
ConfigLen(ds) == 9 + Len(FlattenSeq(ds))

Capabilities == {<<3, TypeCapability, 2>>, <<10, TypeCapability, SuperSpeed, 0, 8, 0, 0, 0, 0, 0>>,
                 <<4, 1, SuperSpeed, 0>>}
BosBytes(cs, declared) == <<5, TypeBos, declared % 256, declared \div 256, 1>> \o FlattenSeq(cs)
BosLen(cs) == 5 + Len(FlattenSeq(cs))

Names == {n \in SeqOf({5} \cup Leads \cup Trails, MaxName) : IsUtf16(n)}

Cut(bytes, n) == SubSeq(bytes, 1, n)

-----------------------------------------------------------------------------
(* One step for each parser.                                               *)

ReadContainer ==
    /\ Fresh
    /\ \E kind \in 0..5, n \in {0, 1, 4, 5, MaxPayloadLen, MaxPayloadLen + 1, Base^4 - 1}, lost \in 0..2 :
         LET made == Build(kind, 7, 9, [i \in 1..n |-> i % Base])
             bytes == IF made.ok THEN Cut(made.bytes, Max({0, Len(made.bytes) - lost})) ELSE <<>>
         IN  /\ input' = [kind |-> "container", type |-> kind, n |-> n, made |-> made.ok, lost |-> lost]
             /\ got' = ContainerParse(bytes)

ReadCommand ==
    /\ Fresh
    /\ \E n \in 0..7 :
         \E parsed \in {ContainerParse(BuildCommand(7, 9, [i \in 1..n |-> i]))} :
             /\ input' = [kind |-> "command", n |-> n]
             /\ got' = [ok |-> parsed.ok, params |-> Parameters(parsed.payload)]

ReadSentObject ==
    /\ Fresh
    /\ \E name \in Names, folder \in BOOLEAN, size \in {0, 1, 200} :
         /\ input' = [kind |-> "sent", name |-> name, folder |-> folder, size |-> size]
         /\ got' = Parse(BuildForSend(3, 4, name, size, folder), ObjectInfo)

ReadDataset ==
    /\ Fresh
    /\ \E set \in DOMAIN Layouts :
         LET bytes == Dataset(Layouts[set], Len(Layouts[set]))
         IN  \E n \in 0..Len(bytes) :
               /\ input' = [kind |-> "dataset", set |-> set, cut |-> n]
               /\ got' = Parse(Cut(bytes, n), Layouts[set])

ReadPropList ==
    /\ Fresh
    /\ \E es \in SeqOf(Elements, MaxEntries) :
         LET bytes == PropBytes(es)
         IN  \E count \in 0..(Len(es) + 1), n \in {Len(bytes)} \cup {k \in 0..Len(bytes) : k % 5 = 3} :
               \E parsed \in {ParsePropList(Le(count, 4) \o Cut(bytes, n))} :
                   /\ input' = [kind |-> "props", es |-> es, count |-> count, cut |-> n]
                   /\ got' = [ok |-> parsed.r.ok, out |-> parsed.out,
                              records |-> FoldPropList(parsed.out),
                              listed |-> DropTheFolder(FoldPropList(parsed.out), 1)]

ReadConfig ==
    /\ Fresh
    /\ \E ds \in SeqOf(Descriptors, MaxDescriptors), short \in {0, 1, 8}, wrong \in {-3, 0, 4}, named \in SUBSET {5} :
         LET bytes == ConfigBytes(ds, ConfigLen(ds) + wrong)
         IN  \E parsed \in {ConfigParse(Cut(bytes, Max({9, Len(bytes) - short})))} :
             /\ input' = [kind |-> "config", ds |-> ds, named |-> named,
                          end |-> Min({Max({9, Len(bytes) - short}), Len(bytes) + wrong})]
             /\ got' = [parsed |-> parsed,
                        mtp |-> IF parsed.ok THEN FindWithNames(parsed.interfaces, named) ELSE parsed]

ReadBos ==
    /\ Fresh
    /\ \E cs \in SeqOf(Capabilities, 3), short \in 0..5 :
         LET bytes == BosBytes(cs, BosLen(cs))
             end == Max({5, Len(bytes) - short})
         IN  /\ input' = [kind |-> "bos", cs |-> cs, end |-> end]
             /\ got' = CapabilitiesParse(Cut(bytes, end))

Init == input = [kind |-> "none"] /\ got = [ok |-> FALSE]

Next ==
    \/ ReadContainer \/ ReadCommand \/ ReadSentObject \/ ReadDataset
    \/ ReadPropList \/ ReadConfig \/ ReadBos

Spec == Init /\ [][Next]_vars

-----------------------------------------------------------------------------
(* Properties.                                                             *)

\* How many of the parts of a sequence lie whole within a count of bytes.
Whole(parts, n) ==
    Max({0} \cup {k \in 0..Len(parts) : Len(FlattenSeq(SubSeq(parts, 1, k))) <= n})

\* A container, a command and a dataset read back as what was meant: a length
\* field that could not count the payload was refused, a container that is not
\* all there is a fault, a name that is too long is cut between two characters,
\* and a dataset that stops early is a fault unless only the optional strings
\* are missing (build, Container::parse, push_string, the parse functions).
DatasetsReadBack ==
    /\ input.kind = "container" =>
         /\ input.made <=> input.n + HeaderLen < Base^4
         /\ got.ok <=> input.made /\ input.lost = 0 /\ input.type \in 1..4
         /\ got.ok => got.kind = input.type /\ got.code = 7 /\ got.transaction_id = 9
                        /\ Len(got.payload) = input.n
    /\ input.kind = "command" =>
         got.ok /\ got.params = [i \in 1..Min({input.n, 5}) |-> i]
    /\ input.kind = "sent" =>
         /\ got.ok /\ got.rec["compressed_size"] = input.size /\ got.rec["parent_object"] = 4
         /\ (got.rec["object_format"] = Association) <=> input.folder
         /\ IsPrefix(got.rec["filename"], input.name) /\ IsUtf16(got.rec["filename"])
         /\ Len(got.rec["filename"]) >= Min({Len(input.name), Base - 3})
         /\ Len(input.name) <= Base - 2 => got.rec["filename"] = input.name
    /\ input.kind = "dataset" =>
         LET layout == Layouts[input.set]
             parts == [i \in 1..Len(layout) |-> Encoded(Chosen(1, layout[i][2]), layout[i][2])]
             k == Whole(parts, input.cut)
         IN  /\ got.ok <=> \A i \in (k + 1)..Len(layout) : layout[i][2] = "optional"
             /\ got.ok => \A i \in 1..k : got.rec[layout[i][1]] = Chosen(1, layout[i][2])
             /\ got.ok /\ Len(Dataset(layout, k)) = input.cut =>
                  \A i \in (k + 1)..Len(layout) : got.rec[layout[i][1]] = <<>>

\* A property list gives exactly the elements it announces, or a fault, however
\* it is cut; and the fold gives one record for each object, in the order of
\* the first element, with the last value of each property, without the folder
\* itself (parse_object_prop_list, fold_prop_list, drop_the_folder).
ListingsReadBack ==
    input.kind = "props" =>
        LET es == input.es
            whole == Whole([i \in 1..Len(es) |-> ElementBytes(es[i])], input.cut)
            Of(i) == [handle |-> es[i].handle, code |-> es[i].code, value |-> es[i].value]
            Giving(h, c, t) == {i \in 1..Len(got.out) : es[i].handle = h /\ es[i].code = c /\ es[i].value[1] = t}
            FirstOf(h) == Min({i \in 1..Len(got.out) : es[i].handle = h})
        IN  /\ got.ok <=> input.count <= whole /\ \A i \in 1..input.count : es[i].kind # 0
            /\ got.ok => got.out = [i \in 1..input.count |-> Of(i)]
            /\ {got.records[i].handle : i \in 1..Len(got.records)} = {got.out[i].handle : i \in 1..Len(got.out)}
            /\ \A i, j \in 1..Len(got.records) : i < j => FirstOf(got.records[i].handle) < FirstOf(got.records[j].handle)
            /\ \A i \in 1..Len(got.records) :
                 LET rec == got.records[i]
                     names == Giving(rec.handle, PropFileName, "text")
                     sizes == Giving(rec.handle, PropSize, "number")
                     formats == Giving(rec.handle, PropFormat, "number")
                 IN  /\ rec.name = IF names = {} THEN <<>> ELSE es[Max(names)].value[2]
                     /\ rec.size = IF sizes = {} THEN 0 ELSE es[Max(sizes)].value[2]
                     /\ rec.format = IF formats = {} THEN 0 ELSE es[Max(formats)].value[2] % Base^2
            /\ \A i \in 1..Len(got.listed) : got.listed[i].handle = 2

\* A configuration gives the interfaces that lie whole within it, each with
\* the endpoints between it and the next one, or a fault, as a length of zero or
\* one too short for its kind is wherever it stands; the interface that is taken
\* for MTP is one that says so, by class or by name, with endpoints of its own,
\* and never adb (ConfigDescriptor::parse, find_with_names).
DescriptorsReadBack ==
    /\ input.kind = "config" =>
         LET ds == input.ds
             k == Whole(ds, input.end - 9)
             left == input.end - ConfigLen(SubSeq(ds, 1, k))
             At(kind) == {i \in 1..k : ds[i][2] = kind}
             Owner(i) == Max({0} \cup {j \in At(TypeInterface) : j < i})
             Addresses(j) == {ds[i][3] : i \in {i \in At(TypeEndpoint) : Owner(i) = j /\ ds[i][4] = Bulk}}
             still == {j \in At(TypeInterface) : ds[j][6] = ClassMtp}
             vendor == {j \in At(TypeInterface) : ds[j][6] = ClassVendor /\ ds[j][9] \in input.named}
             right == Min(IF still # {} THEN still ELSE vendor)
         IN  /\ got.parsed.ok <=> /\ left < 2 /\ \A i \in 1..k : ds[i] \notin Broken
                                  /\ \A i \in At(TypeEndpoint) : Owner(i) # 0
             /\ got.parsed.ok =>
                  /\ Len(got.parsed.interfaces) = Len(SelectSeq(SubSeq(ds, 1, k), LAMBDA d : d[2] = TypeInterface))
                  /\ got.mtp.ok <=> still \cup vendor # {} /\ Addresses(right) = {1, DirectionIn + 1}
             /\ got.mtp.ok =>
                  got.mtp.number = ds[right][3] /\ got.mtp.bulk_in = DirectionIn + 1 /\ got.mtp.bulk_out = 1
    /\ input.kind = "bos" =>
         LET k == Whole(input.cs, input.end - 5)
         IN  /\ got.ok <=> input.end - BosLen(SubSeq(input.cs, 1, k)) < 3
             /\ got.ok => got.faster = \E i \in 1..k : input.cs[i][2] = TypeCapability /\ input.cs[i][3] = SuperSpeed
=============================================================================
