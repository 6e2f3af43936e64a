------------------------------ MODULE MCMtpFs ------------------------------
(* MtpFs for TLC: the constants are given in the .cfg files.               *)
EXTENDS MtpFs, TLC

Symmetry ==
    Permutations(Dirs) \cup Permutations(Names) \cup Permutations(Vers) \cup Permutations(FDs)

AllRenames == Paths \X Paths
\* Renames that change the folder or the name, and not both.
PlainRenames == {r \in AllRenames : r[1].dir = r[2].dir \/ r[1].name = r[2].name}
=============================================================================
