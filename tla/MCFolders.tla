------------------------------ MODULE MCFolders ------------------------------
(* Folders for TLC. The names are alike, so TLC takes one of each symmetric *)
(* set of states. The objects are a folder, a file whose size the dataset   *)
(* cannot hold, and a file whose dataset does not parse.                    *)
EXTENDS Folders, TLC

Alike == Permutations(Names)
FewKinds == {[dir |-> TRUE, size |-> 0, parses |-> TRUE],
             [dir |-> FALSE, size |-> 2, parses |-> TRUE],
             [dir |-> FALSE, size |-> 1, parses |-> FALSE]}

\* What a later step or a property reads: of the objects that are gone, those
\* an answer holds; of the entries, those a listing or the call leads to; of
\* the histories, those of folders with a listing or in the middle of one,
\* since a listing begins them anew.
Lists == pc \in {"props", "handles", "infos"}
Told == IF Lists THEN (UNION Range(call.got)) \ {Root} ELSE {}
Reached == UNION Range(children) \cup (IF pc \in {"arrived", "delete"} THEN {call.h} ELSE {})
Watched == DOMAIN children \cup (IF Lists THEN {call.folder} ELSE {})
Read == <<Len(objs), [h \in alive \cup Told |-> objs[h]], alive, children, fast, pc, call,
          older \cap DOMAIN children, [h \in Reached \cap DOMAIN entries |-> entries[h]],
          [f \in Watched |-> <<stayed[f], seen[f]>>]>>
=============================================================================
