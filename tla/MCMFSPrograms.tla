--------------------------- MODULE MCMFSPrograms ---------------------------
(***************************************************************************)
(* An instance of MFSPrograms for TLC.                                     *)
(***************************************************************************)
EXTENDS MFSPrograms

NamesInTests ==
  {Dot, DotDot, "file.txt", "file1.txt", "bin", "usr", "file0", "whatever", "dir"}
  \cup {DirNames[i] : i \in 1 .. 14}
MessagesInTests == {step.message : step \in UNION {Range(Programs[p]) : p \in DOMAIN Programs}}
OneClient == {"client"}
(***************************************************************************)
(* The tests fill a block with the byte 99.                                *)
(***************************************************************************)
TextNumbers == [text \in Texts |-> 1667457891]

ZeroScrap == {ZeroInode}
UnusedScrap == {UnusedEnt}
=============================================================================
