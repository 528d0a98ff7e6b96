--------------------------- MODULE MFSServerTree ---------------------------
(***************************************************************************)
(* The server implements the tree of MFSTree.                              *)
(***************************************************************************)
EXTENDS MFSServer, MFSCalls

VARIABLE asked  \* history: the request that was answered last

AskedInit == Init /\ asked = Message
AskedNext == \E m \in Messages : Handle(m) /\ asked' = m
AskedSpec == AskedInit /\ [][AskedNext]_<<vars, asked>>

-----------------------------------------------------------------------------
(***************************************************************************)
(* The tree that an image stands for.                                      *)
(***************************************************************************)
NamesIn(d, S) ==
  {name \in Names : \E i \in S : EntAt(inodes[d], i, data).name = name
                                 /\ EntAt(inodes[d], i, data).inum >= 0}
FirstWith(d, S, name) ==
  Min({i \in S : EntAt(inodes[d], i, data).name = name
                 /\ EntAt(inodes[d], i, data).inum >= 0})
NamesTo(d, S) ==
  [name \in NamesIn(d, S) |-> EntAt(inodes[d], FirstWith(d, S, name), data).inum]

Listing(d) == [entries |-> NamesTo(d, 2 .. inodes[d].size - 1),
               leftovers |-> NamesTo(d, 0 .. 1),
               made |-> inodes[d].size - 2]
TreeDirs == [d \in Dirs |-> Listing(d)]

TextOf(n) == [j \in {j \in BlockIndices : inodes[n].blocks[j] # -1} |->
                data[inodes[n].blocks[j]][0].name]
TreeFiles == [n \in InUse \ Dirs |-> TextOf(n)]

TreeAnswer == [success |-> reply.success, stats |-> reply.stats,
               text |-> reply.buffer[0].name]

Tree == INSTANCE MFSTree WITH
          Ids <- Inums,
          Numbers <- Inums \cup TextInums,
          BlocksPerNode <- MFS_INODE_BLOCKS_SIZE,
          EntsPerBlock <- DirEntsPerBlock,
          TotalBlocks <- MFS_DATA_REGION_SIZE,
          Overrun <- InodesPerDirEnt,
          Contents <- Names \cup Texts \cup {Dot, DotDot, Blank},
          dirs <- TreeDirs,
          files <- TreeFiles,
          answer <- TreeAnswer,
          broken <- ~Sound

(***************************************************************************)
(* Every request does to the tree what MFSTree says, and is answered as it *)
(* says: it is refused only for a reason that can be seen in the tree, a   *)
(* full disk is full, and nothing but the request's own node changes.  And *)
(* the image comes to harm only by the requests that MFSTree warns of.     *)
(***************************************************************************)
ImplementsTree == Tree!Spec
=============================================================================
