----------------------------- MODULE FileReads ------------------------------
(***************************************************************************)
(* What the mount promises to a program that reads a file, with no cache,  *)
(* no loop and no read ahead: a read is one step, and it gives bytes that  *)
(* stand in one object at the place the program asked for.                 *)
(*                                                                         *)
(* ReadPath is shown to implement this module.                             *)
(***************************************************************************)
EXTENDS Integers, Sequences

CONSTANTS
    Handles,    \* handles of objects
    MaxSize,    \* bound: the size of an object
    MaxVersion, \* bound: objects made under one handle
    Offsets     \* what a narrow offset can name: 2^32 in the protocol

VARIABLES
    wide,    \* the cellphone takes offsets of any size
    size,    \* handle -> size of its object, or -1
    ver,     \* handle -> which object has had the handle last
    known,   \* handle -> size in the last listing, or -1
    seen,    \* handle -> which object that listing met
    answer   \* what a read just gave, or NoAnswer

objects == <<size, ver>>
listing == <<known, seen>>
vars == <<wide, size, ver, known, seen, answer>>

Gone == -1
NoAnswer == [out |-> <<>>, off |-> 0, want |-> 0, whole |-> FALSE]

\* Bytes that stand in object v from an offset on. Behind what a narrow
\* offset can name, the cellphone decides which bytes it gives.
Right(out, v, off) ==
    \A i \in 1..Len(out) : wide \/ off + i <= Offsets => out[i] = <<v, off + i - 1>>

\* A program reads up to n bytes. The bytes are of one object: the one that
\* has the handle, the one the last listing met, or one that had the handle
\* between the two. They are all the program asked for as far as the listing
\* says the file goes, unless the cellphone gave less.
Read(h, off, want) ==
    /\ known[h] # Gone
    /\ answer'.off = off /\ answer'.want = want
    /\ off + want <= known[h] \/ want = 0
    /\ Len(answer'.out) <= want
    /\ answer'.whole => Len(answer'.out) = want
    /\ \E v \in seen[h]..ver[h] : Right(answer'.out, v, off)
    /\ UNCHANGED <<wide, objects, listing>>

\* The program asks, or a fault answers its question with EIO.
Ask == answer' = NoAnswer /\ UNCHANGED <<wide, objects, listing>>

\* A listing tells what it meets, and leaves the rest.
List ==
    /\ \A h \in Handles :
         IF size[h] = Gone THEN known'[h] = known[h] /\ seen'[h] = seen[h]
         ELSE known'[h] = size[h] /\ seen'[h] = ver[h]
    /\ answer' = NoAnswer
    /\ UNCHANGED <<wide, objects>>

Remove(h) ==
    /\ size[h] # Gone /\ size' = [size EXCEPT ![h] = Gone]
    /\ answer' = NoAnswer
    /\ UNCHANGED <<wide, ver, listing>>

\* A new object takes a handle that is free.
Make(h, n) ==
    /\ size[h] = Gone /\ size' = [size EXCEPT ![h] = n]
    /\ ver' = [ver EXCEPT ![h] = @ + 1]
    /\ answer' = NoAnswer
    /\ UNCHANGED <<wide, listing>>

Init ==
    /\ wide \in BOOLEAN
    /\ size \in [Handles -> {Gone} \cup 0..MaxSize]
    /\ ver = [h \in Handles |-> 0]
    /\ known = size /\ seen = ver
    /\ answer = NoAnswer

Next ==
    \/ Ask
    \/ \E h \in Handles, off \in 0..MaxSize, want \in 0..MaxSize : Read(h, off, want)
    \/ List
    \/ \E h \in Handles : Remove(h)
    \/ \E h \in Handles, n \in 0..MaxSize : Make(h, n)

Spec == Init /\ [][Next]_vars
=============================================================================
