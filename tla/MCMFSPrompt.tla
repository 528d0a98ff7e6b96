---------------------------- MODULE MCMFSPrompt ----------------------------
(***************************************************************************)
(* Instances of MFSPrompt for TLC.                                         *)
(***************************************************************************)
EXTENDS MFSPrompt

AllCalls ==
  {MFS_Init, MFS_Lookup(0, "a"), MFS_Stat(0), MFS_Stat(1), MFS_Read(1, 0),
   MFS_Write(1, "x", 0), MFS_Write(1, "y", 0), MFS_Write(1, "x", 1),
   MFS_Creat(0, MFS_DIRECTORY, "a"), MFS_Creat(0, MFS_REGULAR_FILE, "a"),
   MFS_Creat(1, MFS_REGULAR_FILE, "a"), MFS_Unlink(0, "a"), MFS_Unlink(1, "a")}
OneClient == {"client"}
TextNumbers == [text \in Texts |-> 1]
ZeroScrap == {ZeroInode}
UnusedScrap == {UnusedEnt}
UntilHarm == harm = {}
=============================================================================
