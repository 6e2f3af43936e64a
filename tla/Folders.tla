------------------------------- MODULE Folders -------------------------------
(***************************************************************************)
(* Walking and changing folders: Tree of tree.rs, Mtp::list of backend.rs  *)
(* and resolve, op_getattr, op_readdir, op_mkdir, op_unlink and op_rmdir   *)
(* of main.rs, in crates/mtpfs.                                            *)
(*                                                                         *)
(* The mount runs one call at a time (the lock FS), but a call is several  *)
(* requests, and the cellphone makes and removes objects by itself between *)
(* any two of them: while a folder is being listed, and long after.        *)
(***************************************************************************)
EXTENDS Integers, Sequences, SequencesExt

CONSTANTS
    Names,       \* names of objects
    Kinds,       \* kinds of objects: a folder or not, the size, and whether
                 \* the ObjectInfo dataset of the object parses
    MaxField,    \* the largest size an ObjectInfo dataset holds, 2^32 - 1
    MaxHandle,   \* bound: objects there ever are
    MaxDepth,    \* bound: names in a path
    Faults       \* the faults that can happen, see FaultKinds

\* self: a request for a property gives the folder as well (Samsung)
\* refuse: the cellphone answers a request with a fault code
\* lost: the cellphone did what was asked, and the answer does not come
FaultKinds == {"self", "refuse", "lost"}

ASSUME BoundsAssumption == MaxHandle \in Nat /\ MaxDepth \in Nat \ {0}
ASSUME FaultsAssumption == Faults \subseteq FaultKinds
ASSUME KindsAssumption == Kinds \subseteq [dir: BOOLEAN, size: Nat, parses: BOOLEAN] /\ MaxField \in Nat

Root == 0
Handles == 1..MaxHandle
Paths == UNION {[1..n -> Names] : n \in 0..MaxDepth}

VARIABLES
    objs,      \* the objects there ever were, by handle: parent, name, kind
    alive,     \* the handles of the objects on the cellphone
    entries,   \* Tree::entries
    children,  \* Tree::children; its domain is Tree::listed
    fast,      \* Mtp::fast_list
    pc,        \* the request the call makes next
    call,      \* the call
    older,     \* history: the folders whose listing came the older way
    stayed,    \* history: what is in a folder since its listing began
    seen       \* history: what was in a folder at some time since then

device == <<objs, alive>>
tree == <<entries, children, older>>
vars == <<objs, alive, entries, children, fast, pc, call, older, stayed, seen>>

-----------------------------------------------------------------------------
(* The cellphone.                                                          *)

Exists(h) == h = Root \/ h \in alive
IsFolder(h) == h = Root \/ (h \in alive /\ objs[h].dir)
Kids(f) == {h \in alive : objs[h].parent = f}

\* The names on the way from the root to an object. A parent is older.
Ways(os) ==
    LET way[o \in 0..Len(os)] == IF o = Root THEN <<>> ELSE Append(way[os[o].parent], os[o].name)
    IN way
PathOf(h) == Ways(objs)[h]

\* An object and what it holds.
Above ==
    LET up[o \in 0..Len(objs)] == IF o = Root THEN {} ELSE {o} \cup up[objs[o].parent]
    IN up
Subtree(h) == {o \in alive : h \in Above[o]}

\* MTP allows two objects of one name in a folder.
Fits(f) == IsFolder(f) /\ Len(PathOf(f)) < MaxDepth /\ Len(objs) < MaxHandle
Make(f, name, kind) ==
    /\ objs' = Append(objs, [parent |-> f, name |-> name,
                             dir |-> kind.dir, size |-> kind.size, parses |-> kind.parses])
    /\ alive' = alive \cup {Len(objs) + 1}

\* What is made or removed without an answer to the mount bears on a listing
\* only as something that may be seen or not. What the mount did and heard of
\* must be seen.
MadeUnheard(f) ==
    /\ seen' = [seen EXCEPT ![f] = @ \cup {Len(objs) + 1}] /\ UNCHANGED stayed
MadeHeard(f) ==
    /\ seen' = [seen EXCEPT ![f] = @ \cup {Len(objs) + 1}]
    /\ stayed' = [stayed EXCEPT ![f] = @ \cup {Len(objs) + 1}]
GoneUnheard(h) ==
    /\ stayed' = [f \in DOMAIN stayed |-> stayed[f] \ Subtree(h)] /\ UNCHANGED seen
GoneHeard(h) ==
    /\ stayed' = [f \in DOMAIN stayed |-> stayed[f] \ Subtree(h)]
    /\ seen' = [f \in DOMAIN seen |-> seen[f] \ {h}]

\* A step of the walk makes no request and meets no change of the cellphone.
PhoneMakes(f, name, kind) ==
    /\ pc \notin {"walk", "arrived"}
    /\ Fits(f) /\ Make(f, name, kind) /\ MadeUnheard(f)
    /\ UNCHANGED <<tree, fast, pc, call>>
PhoneRemoves(h) ==
    /\ pc \notin {"walk", "arrived"} /\ h \in alive
    /\ alive' = alive \ Subtree(h) /\ GoneUnheard(h)
    /\ UNCHANGED <<objs, tree, fast, pc, call>>

-----------------------------------------------------------------------------
(* The tree.                                                               *)

\* children_named: the children of a listed folder that carry a name. The
\* first one is taken; CHOOSE stands for the order of the listing.
Named(f, name) == {h \in children[f] : entries[h].name = name}

\* Tree::lookup: from the root, until a folder that is not listed.
Onward(prev, name) ==
    IF prev.is # "found" THEN prev
    ELSE IF prev.h \notin DOMAIN children THEN [is |-> "need", h |-> prev.h]
    ELSE IF Named(prev.h, name) = {} THEN [is |-> "none", h |-> Root]
    ELSE [is |-> "found", h |-> CHOOSE h \in Named(prev.h, name) : TRUE]
Lookups(path) ==
    LET at[i \in 0..Len(path)] ==
            IF i = 0 THEN [is |-> "found", h |-> Root] ELSE Onward(at[i - 1], path[i])
    IN at
Lookup(path) == Lookups(path)[Len(path)]

\* Tree::forget_listing: the objects stay.
MutForget(f) == children
Forget(f) == [g \in DOMAIN children \ {f} |-> children[g]]

\* Tree::set_children
SetChildren(f, es) ==
    /\ entries' = [h \in DOMAIN entries \cup DOMAIN es |-> IF h \in DOMAIN es THEN es[h] ELSE entries[h]]
    /\ children' = [g \in DOMAIN children \cup {f} |-> IF g = f THEN DOMAIN es ELSE children[g]]

\* What an object is, and what its ObjectInfo dataset says: compressed_size is
\* a field of 32 bits.
Entry(h) == [parent |-> objs[h].parent, name |-> objs[h].name, dir |-> objs[h].dir, size |-> objs[h].size]
InfoEntry(h) == [Entry(h) EXCEPT !.size = IF @ <= MaxField THEN @ ELSE MaxField]
Says(f, h) == IF f \in older THEN InfoEntry(h) ELSE Entry(h)

-----------------------------------------------------------------------------
(* Calls.                                                                  *)

NoCall == [path |-> <<>>]
Return == pc' = "idle" /\ call' = NoCall

\* Every operation resolves a path first, op_mkdir the path of the folder
\* (split_parent). The walk is the same for all of them, so the model picks
\* the operation when the walk arrives.
Call(path) ==
    /\ pc = "idle" /\ pc' = "walk"
    /\ call' = [path |-> path, h |-> Root, op |-> "none", name |-> "none",
                folder |-> Root, got |-> <<>>, left |-> {}]
    /\ UNCHANGED <<device, tree, fast, stayed, seen>>

\* Mtp::list begins: the fast way, or the older way.
List(f) ==
    /\ pc' = IF fast THEN "props" ELSE "handles"
    /\ call' = [call EXCEPT !.folder = f]
    /\ stayed' = [stayed EXCEPT ![f] = Kids(f)] /\ seen' = [seen EXCEPT ![f] = Kids(f)]

\* resolve: one round.
Walk ==
    /\ pc = "walk"
    /\ LET found == Lookup(call.path) IN
       \/ /\ found.is = "found" /\ pc' = "arrived"
          /\ call' = [call EXCEPT !.h = found.h] /\ UNCHANGED <<stayed, seen>>
       \/ found.is = "need" /\ List(found.h)
       \/ found.is = "none" /\ Return /\ UNCHANGED <<stayed, seen>>
    /\ UNCHANGED <<device, tree, fast>>

\* op_getattr answers from the tree.
OpGetattr ==
    /\ pc = "arrived" /\ Return
    /\ UNCHANGED <<device, tree, fast, stayed, seen>>

\* op_readdir lists the folder when the walk did not.
OpReaddir ==
    /\ pc = "arrived"
    /\ IF call.h \in DOMAIN children THEN Return /\ UNCHANGED <<stayed, seen>> ELSE List(call.h)
    /\ UNCHANGED <<device, tree, fast>>

OpMkdir(name) ==
    /\ pc = "arrived" /\ pc' = "mkdir" /\ call' = [call EXCEPT !.name = name]
    /\ UNCHANGED <<device, tree, fast, stayed, seen>>

\* remove, for op_unlink and op_rmdir: the kind the tree holds is the kind the
\* operation wants.
MutKindAgrees(h, op) == TRUE
KindAgrees(h, op) == entries[h].dir = (op = "rmdir")
OpRemove(op) ==
    /\ pc = "arrived"
    /\ IF call.h # Root /\ KindAgrees(call.h, op)
       THEN pc' = "delete" /\ call' = [call EXCEPT !.op = op]
       ELSE Return
    /\ UNCHANGED <<device, tree, fast, stayed, seen>>

\* A request fails: the folder is gone, or the cellphone answers a fault code.
RequestFails == ~Exists(call.folder) \/ "refuse" \in Faults

\* list_by_properties asks for the names, then the sizes, then the formats,
\* and folds the three answers by handle. The folder is not a child of its own.
Records(got) == (UNION Range(got)) \ {call.folder}
Property == Len(call.got) + 1
Answered == Kids(call.folder) \cup (IF "self" \in Faults THEN {call.folder} \ {Root} ELSE {})

\* A record without a name fails the fast way. A size or a format no answer
\* gave is 0.
Folds(got) == Records(got) \subseteq got[1]
Folded(got) ==
    [h \in Records(got) |->
        [parent |-> call.folder, name |-> objs[h].name,
         dir |-> h \in got[3] /\ objs[h].dir, size |-> IF h \in got[2] THEN objs[h].size ELSE 0]]

ByProperties ==
    /\ pc = "props" /\ Exists(call.folder)
    /\ LET got == Append(call.got, Answered) IN
       IF Property < 3 THEN call' = [call EXCEPT !.got = got] /\ UNCHANGED <<tree, fast, pc>>
       ELSE IF Folds(got)
       THEN SetChildren(call.folder, Folded(got)) /\ pc' = "walk"
            /\ call' = [call EXCEPT !.got = <<>>, !.folder = Root] /\ UNCHANGED <<fast, older>>
       ELSE fast' = FALSE /\ pc' = "handles" /\ call' = [call EXCEPT !.got = <<>>] /\ UNCHANGED tree
    /\ UNCHANGED <<device, stayed, seen>>

\* A fault turns the fast way off for the rest of the session.
PropertiesFail ==
    /\ pc = "props" /\ RequestFails
    /\ fast' = FALSE /\ pc' = "handles" /\ call' = [call EXCEPT !.got = <<>>]
    /\ UNCHANGED <<device, tree, stayed, seen>>

\* list_one_at_a_time
GetHandles ==
    /\ pc = "handles" /\ Exists(call.folder)
    /\ pc' = "infos" /\ call' = [call EXCEPT !.left = Kids(call.folder), !.got = <<{}>>]
    /\ UNCHANGED <<device, tree, fast, stayed, seen>>
\* An object whose dataset does not parse is left out, and the listing goes on.
Parsed(h) == {k \in {h} : objs[k].parses}
GetInfo ==
    /\ pc = "infos" /\ \E h \in call.left \cap alive :
        call' = [call EXCEPT !.left = @ \ {h}, !.got = <<@[1] \cup Parsed(h)>>]
    /\ UNCHANGED <<device, tree, fast, pc, stayed, seen>>
InfosEnd ==
    /\ pc = "infos" /\ call.left = {}
    /\ SetChildren(call.folder, [h \in call.got[1] |-> [InfoEntry(h) EXCEPT !.parent = call.folder]])
    /\ older' = older \cup {call.folder}
    /\ pc' = "walk" /\ call' = [call EXCEPT !.got = <<>>, !.folder = Root]
    /\ UNCHANGED <<device, fast, stayed, seen>>

\* One object that vanished, or one fault, fails the whole listing and the
\* call: ENOENT from resolve, EIO from op_readdir.
ListFails ==
    /\ \/ pc = "handles" /\ RequestFails
       \/ pc = "infos" /\ call.left # {} /\ (call.left \ alive # {} \/ "refuse" \in Faults)
    /\ Return
    /\ UNCHANGED <<device, tree, fast, stayed, seen>>

\* remove: DeleteObject, which takes what a folder holds with it, and then
\* the listing of the folder goes. The entry says which folder that is.
Delete ==
    /\ pc = "delete" /\ call.h \in alive
    /\ alive' = alive \ Subtree(call.h) /\ UNCHANGED objs
    /\ \/ GoneHeard(call.h) /\ children' = Forget(entries[call.h].parent)
       \/ "lost" \in Faults /\ GoneUnheard(call.h) /\ UNCHANGED children
    /\ Return /\ UNCHANGED <<entries, older, fast>>

\* op_mkdir: SendObjectInfo, and then the listing of the folder goes.
Mkdir ==
    /\ pc = "mkdir" /\ Fits(call.h)
    /\ \E kind \in Kinds : kind.dir /\ Make(call.h, call.name, kind)
    /\ \/ MadeHeard(call.h) /\ children' = Forget(call.h)
       \/ "lost" \in Faults /\ MadeUnheard(call.h) /\ UNCHANGED children
    /\ Return /\ UNCHANGED <<entries, older, fast>>

ChangeFails ==
    /\ \/ pc = "delete" /\ (call.h \notin alive \/ "refuse" \in Faults)
       \/ pc = "mkdir" /\ (~Fits(call.h) \/ "refuse" \in Faults)
    /\ Return
    /\ UNCHANGED <<device, tree, fast, stayed, seen>>

-----------------------------------------------------------------------------
Init ==
    /\ objs = <<>> /\ alive = {}
    /\ entries = [h \in {} |-> {}] /\ children = [f \in {} |-> {}] /\ fast \in BOOLEAN
    /\ pc = "idle" /\ call = NoCall /\ older = {}
    /\ stayed = [f \in {Root} \cup Handles |-> {}] /\ seen = [f \in {Root} \cup Handles |-> {}]

Next ==
    \/ \E f \in {Root} \cup alive, name \in Names, kind \in Kinds : PhoneMakes(f, name, kind)
    \/ \E h \in alive : PhoneRemoves(h)
    \/ \E path \in Paths : Call(path)
    \/ Walk \/ OpGetattr \/ OpReaddir
    \/ \E name \in Names : OpMkdir(name)
    \/ \E op \in {"unlink", "rmdir"} : OpRemove(op)
    \/ ByProperties \/ PropertiesFail \/ GetHandles \/ GetInfo \/ InfosEnd \/ ListFails
    \/ Delete \/ Mkdir \/ ChangeFails

Spec == Init /\ [][Next]_vars

-----------------------------------------------------------------------------
(* Properties.                                                             *)

\* A listing the tree keeps is right about everything that stood still. It
\* holds each object that was in the folder ever since the listing began, and
\* each folder the mount made with success; it holds no object that was not in
\* the folder at some time since then, not the folder itself, and none the
\* mount removed with success; and each object that is still there has its own
\* name, kind and size. That is so for the three requests of the fast way, also
\* after a fault has turned it off, and whatever the cellphone makes and removes
\* in between. The older way is less: it lacks the objects whose dataset does
\* not parse, and no others, and it has the sizes as far as the field of the
\* dataset goes (list, fold_prop_list, drop_the_folder, list_one_at_a_time,
\* set_children, forget_listing).
ListingIsRight ==
    \A f \in DOMAIN children :
        /\ children[f] \subseteq seen[f]
        /\ \A h \in stayed[f] \ children[f] : f \in older /\ ~objs[h].parses
        /\ \A h \in children[f] \cap alive : entries[h] = Says(f, h)

\* What the mount removes is an object the path names on the cellphone at that
\* moment, of the kind the call wants; the handle came from listings that can
\* be old by then, and that can lack an object (resolve, remove).
DeletesNamed ==
    [][Delete => PathOf(call.h) = call.path /\ objs[call.h].dir = (call.op = "rmdir")]_vars
=============================================================================
