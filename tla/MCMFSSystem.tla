---------------------------- MODULE MCMFSSystem ----------------------------
(***************************************************************************)
(* Instances of MFSSystem for TLC.                                         *)
(***************************************************************************)
EXTENDS MFSSystem, TLC

CONSTANTS c1, c2

OneClient == {c1}
TwoClients == {c1, c2}
Swaps == Permutations(TwoClients)

Creat(name) == MFS_Creat(0, MFS_REGULAR_FILE, name)
Writes == {MFS_Write(1, "x", 0), MFS_Write(1, "y", 0)}

FileCalls == {Creat("a")} \cup Writes
OwnCalls == {Creat("a"), MFS_Unlink(0, "a"), MFS_Write(1, "x", 0)}
SharedCalls == FileCalls \cup {Creat("b"), MFS_Unlink(0, "a"), MFS_Unlink(0, "b")}

TextNumbers == [text \in Texts |-> 1]
ZeroScrap == {ZeroInode}
UnusedScrap == {UnusedEnt}
=============================================================================
