----------------------------- MODULE MCMFSTree -----------------------------
(***************************************************************************)
(* Instances of MFSServerTree for TLC.                                     *)
(***************************************************************************)
EXTENDS MFSServerTree

(***************************************************************************)
(* The first bytes of a text, as a number: outside the table, or an inode. *)
(***************************************************************************)
TextNumbers == [text \in Texts |-> IF text = "a" THEN 9 ELSE 1]

(***************************************************************************)
(* What stands there can read as a directory that is empty, or is not.     *)
(***************************************************************************)
TwoScraps == {ZeroInode, [EmptyDir(0) EXCEPT !.size = 3, !.blocks = [j \in BlockIndices |-> 0]]}
UnusedScrap == {UnusedEnt}
UntilHarm == harm = {}
ImageOnly == <<image, harm>>
=============================================================================
