---------------------------- MODULE MCMFSCrash ----------------------------
(***************************************************************************)
(* Instances of MFSCrash for TLC.                                          *)
(***************************************************************************)
EXTENDS MFSCrash, MFSCalls

TreeCalls ==
  {MFS_Creat(0, MFS_REGULAR_FILE, "a"), MFS_Unlink(0, "a"),
   MFS_Creat(0, MFS_DIRECTORY, "b"), MFS_Unlink(0, "b"),
   MFS_Creat(1, MFS_REGULAR_FILE, "a"), MFS_Unlink(1, "a"),
   MFS_Write(1, "x", 0), MFS_Write(2, "a", 1)}

ASSUME CallsAgree == CreatsAgree

(***************************************************************************)
(* The first bytes of a text, as a number: outside the table, or a file.   *)
(***************************************************************************)
TextNumbers == [text \in Texts |-> IF text = "a" THEN 7 ELSE 2]

ZeroScrap == {ZeroInode}
UnusedScrap == {UnusedEnt}
TwoScraps == {ZeroInode,
              [ZeroInode EXCEPT !.type = MFS_REGULAR_FILE, !.blocks = [@ EXCEPT ![0] = 0]]}
UntilTorn == harm = {} /\ ~torn
ButReply == <<image, harm, crash>>
=============================================================================
