---------------------------- MODULE MCMFSServer ----------------------------
(***************************************************************************)
(* Instances of MFSServer for TLC.                                         *)
(***************************************************************************)
EXTENDS MFSServerClaims, TLC

(***************************************************************************)
(* The first bytes of a text, as a number: below 0, or an inode.           *)
(***************************************************************************)
TextNumbers == [text \in Texts |-> IF text = "a" THEN -2 ELSE 1]

(***************************************************************************)
(* What stray bytes decode to: a zeroed inode, which reads as an empty     *)
(* directory of no blocks, or a file that claims block 0; an unused entry. *)
(***************************************************************************)
ZeroScrap == {ZeroInode}
UnusedScrap == {UnusedEnt}
TwoScraps == {ZeroInode,
              [ZeroInode EXCEPT !.type = MFS_REGULAR_FILE, !.blocks = [@ EXCEPT ![0] = 0]]}

(***************************************************************************)
(* Exploration ends in the first state after a defect has struck; the      *)
(* properties are still checked on the step into it.                       *)
(***************************************************************************)
UntilHarm == harm = {}

(***************************************************************************)
(* The reply of the last request does not bear on what follows.            *)
(***************************************************************************)
ImageOnly == <<image, harm>>
=============================================================================
