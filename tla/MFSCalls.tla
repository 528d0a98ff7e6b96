------------------------------ MODULE MFSCalls ------------------------------
(***************************************************************************)
(* The messages that the client library mfs.c makes of its arguments:      *)
(* zeroed, then filled in.                                                 *)
(***************************************************************************)
EXTENDS MFSImage

Message == [message_type |-> "", inum |-> 0, type |-> 0, block |-> 0,
            name |-> Blank, buffer |-> Blank]

MFS_Init == [Message EXCEPT !.message_type = "I"]
MFS_Lookup(pinum, name) ==
  [Message EXCEPT !.message_type = "L", !.inum = pinum, !.name = name]
MFS_Stat(inum) == [Message EXCEPT !.message_type = "S", !.inum = inum]
MFS_Write(inum, buffer, block) ==
  [Message EXCEPT !.message_type = "W", !.inum = inum, !.block = block, !.buffer = buffer]
MFS_Read(inum, block) ==
  [Message EXCEPT !.message_type = "R", !.inum = inum, !.block = block]
MFS_Creat(pinum, type, name) ==
  [Message EXCEPT !.message_type = "C", !.inum = pinum, !.type = type, !.name = name]
MFS_Unlink(pinum, name) ==
  [Message EXCEPT !.message_type = "U", !.inum = pinum, !.name = name]

(***************************************************************************)
(* The messages that the server is sent.  The inum of a Lookup or a Stat   *)
(* is one of the table: the server does not look before it takes it.       *)
(***************************************************************************)
Messages ==
  {MFS_Init}
  \cup {MFS_Lookup(n, name) : n \in Inums, name \in Names}
  \cup {MFS_Stat(n) : n \in Inums}
  \cup {MFS_Read(n, j) : n \in InumArgs, j \in BlockArgs}
  \cup {MFS_Write(n, text, j) : n \in InumArgs, j \in BlockArgs, text \in Texts}
  \cup {MFS_Creat(n, type, name) : n \in InumArgs, type \in TypeArgs, name \in Names}
  \cup {MFS_Unlink(n, name) : n \in InumArgs, name \in Names}
=============================================================================
