-------------------------- MODULE MFSServerProofs --------------------------
(***************************************************************************)
(* Proofs about MFSServer, for every size of the image and every set of    *)
(* names and texts.                                                        *)
(***************************************************************************)
EXTENDS MFSServer, WellFoundedInduction, TLAPS

-----------------------------------------------------------------------------
(***************************************************************************)
(* Arithmetic.                                                             *)
(***************************************************************************)

(***************************************************************************)
(* Entry n of a table of k blocks of e entries is in one of the blocks.    *)
(***************************************************************************)
LEMMA DivBelow ==
  ASSUME NEW e \in Nat \ {0}, NEW k \in Nat, NEW n \in Nat, n < e * k
  PROVE  n \div e \in 0 .. k - 1 /\ n % e \in 0 .. e - 1
OBVIOUS

(***************************************************************************)
(* An entry takes the room of one inode at least.                          *)
(***************************************************************************)
LEMMA EntryOverInodes == InodesPerDirEnt \in Nat \ {0}
<1>1. \A e, i \in Nat \ {0} : (e + i - 1) \div i \in Nat \ {0}
  OBVIOUS
<1>. QED BY <1>1, SizesAssumption DEF InodesPerDirEnt

(***************************************************************************)
(* There is room for "." and ".." in an inode.                             *)
(***************************************************************************)
LEMMA RoomForDefaults ==
  /\ DirEntsPerBlock * MFS_INODE_BLOCKS_SIZE \in Nat
  /\ 2 <= DirEntsPerBlock * MFS_INODE_BLOCKS_SIZE
<1>1. \A e \in Nat \ {0, 1}, k \in Nat \ {0} : e * k \in Nat /\ 2 <= e * k
  OBVIOUS
<1>. QED BY <1>1, SizesAssumption

(***************************************************************************)
(* The least element of a set of natural numbers exists: what the loops of *)
(* search_Directory and next_available_* return.                           *)
(***************************************************************************)
Below == {p \in Nat \X Nat : p[1] < p[2]}

LEMMA BelowWF == IsWellFoundedOn(Below, Nat)
<1>1. OpToRel(<, Nat) = Below
  BY Zenon DEF OpToRel, Below
<1>2. QED
  BY ONLY <1>1, NatLessThanWellFounded

LEMMA MinOfNats ==
  ASSUME NEW S, S \subseteq Nat, S # {}
  PROVE  Min(S) \in S /\ \A y \in S : Min(S) <= y
<1>1. PICK x \in S : \A y \in S : ~ (<<y, x>> \in Below)
  BY BelowWF, WFMin
<1>2. ASSUME NEW y \in S PROVE x <= y
  <2>1. x \in Nat /\ y \in Nat
    OBVIOUS
  <2>2. ASSUME y < x PROVE <<y, x>> \in Below
    BY <2>1, <2>2 DEF Below
  <2>. QED BY <1>1, <2>1, <2>2
<1>3. QED
  BY <1>2 DEF Min

-----------------------------------------------------------------------------
(***************************************************************************)
(* The helpers of the handlers.                                            *)
(***************************************************************************)

(***************************************************************************)
(* next_available_block and next_available_inode give a free number, or -1 *)
(* when there is none.                                                     *)
(***************************************************************************)
LEMMA NextAvailable ==
  ASSUME NEW S, S \subseteq Nat, NEW bitmap \in [S -> {0, 1}]
  PROVE  LET x == next_available(bitmap, S)
         IN  /\ x \in S \cup {-1}
             /\ x # -1 => x \in S /\ bitmap[x] = 0
             /\ x = -1 => \A y \in S : bitmap[y] = 1
<1>1. CASE \E x \in S : bitmap[x] = 0
  <2>. DEFINE Free == {x \in S : bitmap[x] = 0}
  <2>1. Min(Free) \in Free
    BY <1>1, MinOfNats
  <2>. QED BY <1>1, <2>1 DEF next_available
<1>2. CASE ~ \E x \in S : bitmap[x] = 0
  BY <1>2 DEF next_available
<1>. QED BY <1>1, <1>2

(***************************************************************************)
(* search_Directory finds an entry in use that has the name, or tells that *)
(* there is none.                                                          *)
(***************************************************************************)
LEMMA SearchFinds ==
  ASSUME NEW inode \in Inode, NEW name, NEW contents
  PROVE  LET i == search_Directory(inode, name, contents)
         IN  /\ i = -1 <=> Hits(inode, name, contents) = {}
             /\ i # -1 => i \in Hits(inode, name, contents)
<1>. DEFINE H == Hits(inode, name, contents)
<1>1. H \subseteq Nat
  BY DEF Hits, Inode
<1>2. CASE H = {}
  BY <1>2 DEF search_Directory
<1>3. CASE H # {}
  <2>1. Min(H) \in H
    BY <1>1, <1>3, MinOfNats
  <2>. QED BY <1>1, <1>3, <2>1 DEF search_Directory
<1>. QED BY <1>2, <1>3

(***************************************************************************)
(* An inode number that valid_inum lets through is in use.                 *)
(***************************************************************************)
LEMMA ValidInum ==
  ASSUME NEW inum \in InumArgs, InumOK(inum)
  PROVE  inum \in Inums /\ inode_bitmap[inum] = 1
BY SizesAssumption DEF InumArgs, InumOK, valid_inum, Inums

LEMMA ImageTypes ==
  /\ Inums \subseteq Nat /\ 0 \in Inums
  /\ Blocks \subseteq Nat /\ 0 \in Blocks
  /\ Slots \subseteq Nat /\ 0 \in Slots /\ 1 \in Slots
  /\ BlockIndices \subseteq Nat /\ 0 \in BlockIndices
BY SizesAssumption DEF Inums, Blocks, Slots, BlockIndices

LEMMA ContentTypes ==
  /\ ZeroEnt \in DirEnt /\ UnusedEnt \in DirEnt
  /\ \A text \in Texts : TextBlock(text) \in DataBlock
  /\ NoBuffer \in DataBlock
  /\ RootBlock \in DataBlock
  /\ FreshData \in [Pointers -> DataBlock]
  /\ \A ent \in DirEnt : ent.inum \in Int
<1>1. ZeroEnt \in DirEnt /\ UnusedEnt \in DirEnt
  BY ImageTypes DEF ZeroEnt, UnusedEnt, DirEnt
<1>2. \A text \in Texts : TextBlock(text) \in DataBlock
  <2>. SUFFICES ASSUME NEW text \in Texts
                PROVE  [inum |-> TextInum[text], name |-> text] \in DirEnt
    BY DEF TextBlock, DataBlock
  <2>. QED BY DEF DirEnt, TextInums
<1>3. NoBuffer \in DataBlock
  BY <1>1 DEF NoBuffer, DataBlock
<1>4. RootBlock \in DataBlock
  BY <1>1, ImageTypes DEF RootBlock, DataBlock, DirEnt
<1>5. FreshData \in [Pointers -> DataBlock]
  BY <1>1, <1>4 DEF FreshData, DataBlock
<1>6. \A ent \in DirEnt : ent.inum \in Int
  BY DataAssumption DEF DirEnt, Inums, TextInums
<1>. QED BY <1>1, <1>2, <1>3, <1>4, <1>5, <1>6

LEMMA InodeTypes ==
  /\ NoBlocks \in [BlockIndices -> Pointers]
  /\ ZeroInode \in Inode
  /\ \A b \in Pointers : EmptyDir(b) \in Inode
  /\ \A t \in Int, b \in Pointers : NewInode(t, b) \in Inode
<1>1. NoBlocks \in [BlockIndices -> Pointers]
  BY DEF NoBlocks, Pointers
<1>2. ZeroInode \in Inode
  BY <1>1 DEF ZeroInode, Inode
<1>3. ASSUME NEW b \in Pointers PROVE EmptyDir(b) \in Inode
  <2>1. [NoBlocks EXCEPT ![0] = b] \in [BlockIndices -> Pointers]
    BY <1>1
  <2>. QED BY <2>1 DEF EmptyDir, Inode, MFS_DIRECTORY
<1>4. ASSUME NEW t \in Int, NEW b \in Pointers PROVE NewInode(t, b) \in Inode
  BY <1>1, <1>2, <1>3 DEF NewInode, ZeroInode, Inode
<1>. QED BY <1>1, <1>2, <1>3, <1>4

LEMMA StatsTypes ==
  /\ NoStats \in [type : Int, size : Int, blocks : Nat]
  /\ \A inode \in Inode : StatsOf(inode) \in [type : Int, size : Int, blocks : Nat]
BY DEF NoStats, StatsOf, Inode

LEMMA ReplyTypesKnown ==
  /\ "" \in ReplyTypes /\ "I" \in ReplyTypes /\ "L" \in ReplyTypes /\ "S" \in ReplyTypes
  /\ "W" \in ReplyTypes /\ "R" \in ReplyTypes /\ "C" \in ReplyTypes /\ "U" \in ReplyTypes
BY Zenon DEF ReplyTypes

LEMMA RepliesTyped ==
  /\ \A t \in ReplyTypes, n \in Int : Reply(t, n) \in Replies
  /\ 0 \in Int /\ -1 \in Int
BY ContentTypes, StatsTypes DEF Reply, Replies

-----------------------------------------------------------------------------
(***************************************************************************)
(* Type correctness.  What the reply of Lookup is typed by is that, until  *)
(* a defect strikes, no directory in use has more entries than fit in its  *)
(* table: reply_Creat stops at MFS_INODE_BLOCKS_SIZE full blocks.  (An     *)
(* inode in use is then a directory or a file, which tells Write from      *)
(* Creat.)                                                                 *)
(***************************************************************************)
EntriesFit(inode) == inode.size <= DirEntsPerBlock * MFS_INODE_BLOCKS_SIZE
DirSizes ==
  harm = {} => \A d \in Inums :
                 inode_bitmap[d] = 1 => /\ inodes[d].type \in TypeArgs
                                        /\ ~IsFile(d) => EntriesFit(inodes[d])

TypeInv == TypeOK /\ DirSizes

LEMMA EntryTypes ==
  ASSUME NEW inode \in Inode, NEW contents \in [Pointers -> DataBlock],
         EntriesFit(inode), NEW i \in 0 .. inode.size - 1
  PROVE  /\ EntBlock(inode, i) \in Pointers
         /\ i % DirEntsPerBlock \in Slots
         /\ EntAt(inode, i, contents) \in DirEnt
<1>1. i \in Nat /\ i < DirEntsPerBlock * MFS_INODE_BLOCKS_SIZE
  BY SizesAssumption DEF Inode, EntriesFit
<1>2. i \div DirEntsPerBlock \in BlockIndices /\ i % DirEntsPerBlock \in Slots
  BY <1>1, DivBelow, SizesAssumption DEF BlockIndices, Slots
<1>3. EntBlock(inode, i) \in Pointers
  BY <1>2 DEF EntBlock, Inode
<1>. QED BY <1>2, <1>3 DEF EntAt, DataBlock

LEMMA AnswerKeepsTypes ==
  ASSUME TypeInv, NEW r, Answer(r), harm = {} => r \in Replies
  PROVE  TypeInv'
BY DEF TypeInv, TypeOK, DirSizes, IsFile, Answer, image

(***************************************************************************)
(* Until a defect has struck, an inode that valid_inum lets through has    *)
(* its type.                                                               *)
(***************************************************************************)
LEMMA TypesBefore ==
  ASSUME TypeOK, harm = {}
  PROVE  /\ inode_bitmap \in [Inums -> {0, 1}] /\ data_bitmap \in [Blocks -> {0, 1}]
         /\ inodes = [n \in Inums |-> inodes[n]] /\ data \in [Pointers -> DataBlock]
         /\ \A n \in Inums : inode_bitmap[n] = 1 => inodes[n] \in Inode
         /\ \A n \in InumArgs : InumOK(n) => /\ n \in Inums /\ inode_bitmap[n] = 1
                                           /\ inodes[n] \in Inode
BY ValidInum DEF TypeOK

(***************************************************************************)
(* A request strikes a defect or leaves things typed.                      *)
(***************************************************************************)
LEMMA TypedUnlessHarmed ==
  ASSUME harm' \subseteq Harms,
         harm' = {} =>
           /\ inode_bitmap' \in [Inums -> {0, 1}] /\ data_bitmap' \in [Blocks -> {0, 1}]
           /\ inodes' = [n \in Inums |-> inodes'[n]] /\ data' \in [Pointers -> DataBlock]
           /\ reply' \in Replies
           /\ \A n \in Inums :
                inode_bitmap'[n] = 1 =>
                  /\ inodes'[n] \in Inode /\ inodes'[n].type \in TypeArgs
                  /\ inodes'[n].type # MFS_REGULAR_FILE => EntriesFit(inodes'[n])
  PROVE  TypeInv'
BY DEF TypeInv, TypeOK, DirSizes, IsFile

LEMMA InitTypes == Init => TypeInv
<1>. SUFFICES ASSUME Init PROVE TypeInv
  OBVIOUS
<1>1. inode_bitmap \in [Inums -> {0, 1}] /\ data_bitmap \in [Blocks -> {0, 1}]
  BY DEF Init, FreshBitmap
<1>2. inodes \in [Inums -> Inode]
  BY InodeTypes, ImageTypes DEF Init, FreshInodes, Pointers
<1>3. data \in [Pointers -> DataBlock]
  BY ContentTypes DEF Init
<1>4. reply \in Replies
  BY ReplyTypesKnown, RepliesTyped DEF Init
<1>5. \A d \in Inums : EntriesFit(inodes[d]) /\ inodes[d].type \in TypeArgs
  <2>1. EntriesFit(EmptyDir(0)) /\ EntriesFit(ZeroInode)
    BY RoomForDefaults DEF EmptyDir, ZeroInode, EntriesFit
  <2>2. EmptyDir(0).type \in TypeArgs /\ ZeroInode.type \in TypeArgs
    BY DEF EmptyDir, ZeroInode, TypeArgs, MFS_DIRECTORY
  <2>. QED BY <2>1, <2>2 DEF Init, FreshInodes
<1>. QED
  BY <1>1, <1>2, <1>3, <1>4, <1>5 DEF TypeInv, TypeOK, DirSizes, Init

LEMMA ReadingKeepsTypes ==
  ASSUME TypeInv,
         \/ reply_Init
         \/ \E pinum \in Inums, name \in Names : reply_Lookup(pinum, name)
         \/ \E inum \in Inums : reply_Stat(inum)
         \/ \E inum \in InumArgs, block \in BlockArgs : reply_Read(inum, block)
  PROVE  TypeInv'
<1>1. CASE reply_Init
  BY <1>1, ReplyTypesKnown, RepliesTyped, AnswerKeepsTypes DEF reply_Init
<1>2. ASSUME NEW pinum \in Inums, NEW name \in Names, reply_Lookup(pinum, name)
      PROVE  TypeInv'
  <2>1. CASE Answer(Reply("L", -1))
    BY <2>1, ReplyTypesKnown, RepliesTyped, AnswerKeepsTypes
  <2>2. CASE /\ LookupHits(pinum, name)
             /\ Answer(Reply("L", EntAt(inodes[pinum], Found(pinum, name), data).inum))
    <3>1. ASSUME harm = {}
          PROVE  EntAt(inodes[pinum], Found(pinum, name), data).inum \in Int
      <4>1. inode_bitmap[pinum] = 1
        BY <2>2, <3>1, TypesBefore DEF TypeInv, LookupHits
      <4>2. inodes[pinum] \in Inode /\ data \in [Pointers -> DataBlock]
        BY <3>1, <4>1, TypesBefore DEF TypeInv
      <4>3. EntriesFit(inodes[pinum])
        BY <2>2, <3>1, <4>1 DEF TypeInv, DirSizes, LookupHits
      <4>4. Found(pinum, name) \in 0 .. inodes[pinum].size - 1
        BY <2>2, <4>2, SearchFinds DEF LookupHits, Found, Hits
      <4>5. EntAt(inodes[pinum], Found(pinum, name), data) \in DirEnt
        BY <4>2, <4>3, <4>4, EntryTypes
      <4>. QED BY <4>5, ContentTypes
    <3>. QED BY <2>2, <3>1, ReplyTypesKnown, RepliesTyped, AnswerKeepsTypes
  <2>. QED BY <1>2, <2>1, <2>2 DEF reply_Lookup
<1>3. ASSUME NEW inum \in Inums, reply_Stat(inum)
      PROVE  TypeInv'
  <2>1. Reply("S", -1) \in Replies
    BY ReplyTypesKnown, RepliesTyped
  <2>2. ASSUME harm = {}, inode_bitmap[inum] # 0
        PROVE  [Reply("S", 0) EXCEPT !.stats = StatsOf(inodes[inum])] \in Replies
    <3>1. Reply("S", 0) \in Replies
      BY ReplyTypesKnown, RepliesTyped
    <3>2. StatsOf(inodes[inum]) \in [type : Int, size : Int, blocks : Nat]
      BY <2>2, StatsTypes, TypesBefore DEF TypeInv
    <3>. QED BY <3>1, <3>2 DEF Replies
  <2>. QED BY <1>3, <2>1, <2>2, AnswerKeepsTypes DEF reply_Stat
<1>4. ASSUME NEW inum \in InumArgs, NEW block \in BlockArgs, reply_Read(inum, block)
      PROVE  TypeInv'
  <2>1. CASE Answer(Reply("R", -1))
    BY <2>1, ReplyTypesKnown, RepliesTyped, AnswerKeepsTypes
  <2>2. CASE /\ ReadOK(inum, block)
             /\ Answer([Reply("R", 0) EXCEPT !.buffer = data[inodes[inum].blocks[block]]])
    <3>1. ASSUME harm = {}
          PROVE  [Reply("R", 0) EXCEPT !.buffer = data[inodes[inum].blocks[block]]] \in Replies
      <4>1. block \in BlockIndices
        BY <2>2, SizesAssumption DEF ReadOK, BlockOK, valid_block, BlockIndices, BlockArgs
      <4>2. inodes[inum] \in Inode /\ data \in [Pointers -> DataBlock]
        BY <2>2, <3>1, TypesBefore DEF ReadOK, TypeInv
      <4>3. data[inodes[inum].blocks[block]] \in DataBlock
        BY <4>1, <4>2 DEF Inode
      <4>4. Reply("R", 0) \in Replies
        BY ReplyTypesKnown, RepliesTyped
      <4>. QED BY <4>3, <4>4 DEF Replies
    <3>. QED BY <2>2, <3>1, AnswerKeepsTypes
  <2>. QED BY <1>4, <2>1, <2>2 DEF reply_Read
<1>. QED BY <1>1, <1>2, <1>3, <1>4

(***************************************************************************)
(* The handlers that write.                                                *)
(***************************************************************************)
LEMMA OccupiedTypes ==
  ASSUME NEW S, NEW bitmap \in [S -> {0, 1}], NEW x
  PROVE  Occupied(bitmap, x) \in [S -> {0, 1}]
BY DEF Occupied

LEMMA PushTypes ==
  ASSUME NEW inode \in Inode, NEW block, NEW b \in Pointers
  PROVE  push_inode_update(inode, block, b) \in Inode
<1>1. [inode.blocks EXCEPT ![block] = b] \in [BlockIndices -> Pointers]
  BY DEF Inode
<1>2. inode.size + DirEntsPerBlock \in Nat /\ inode.block_nums + 1 \in Nat
  BY SizesAssumption DEF Inode
<1>3. (IF inode.type = MFS_DIRECTORY THEN inode.real_size + 1 ELSE inode.real_size) \in Int
  BY DEF Inode
<1>. QED BY <1>1, <1>2, <1>3 DEF push_inode_update, Inode

LEMMA WriteKeepsTypes ==
  ASSUME TypeInv, NEW inum \in InumArgs, NEW block \in BlockArgs, NEW text \in Texts,
         reply_Write(inum, block, text)
  PROVE  TypeInv'
<1>1. CASE Answer(Reply("W", -1))
  BY <1>1, ReplyTypesKnown, RepliesTyped, AnswerKeepsTypes
<1>2. CASE WriteInPlace(inum, block, text)
  <2>1. reply' \in Replies
    BY <1>2, ReplyTypesKnown, RepliesTyped DEF WriteInPlace
  <2>2. data \in [Pointers -> DataBlock] => data' \in [Pointers -> DataBlock]
    BY <1>2, ContentTypes DEF WriteInPlace
  <2>. QED BY <1>2, <2>1, <2>2 DEF WriteInPlace, TypeInv, TypeOK, DirSizes, IsFile
<1>3. CASE WriteNewBlock(inum, block, text)
  <2>. DEFINE b == next_available_block(data_bitmap)
  <2>1. harm' \subseteq Harms /\ (harm' = {} => harm = {})
    BY <1>3 DEF WriteNewBlock, TypeInv, TypeOK, Harms, Struck
  <2>. SUFFICES ASSUME harm' = {}
                PROVE  /\ inode_bitmap' \in [Inums -> {0, 1}] /\ data_bitmap' \in [Blocks -> {0, 1}]
                       /\ inodes' = [n \in Inums |-> inodes'[n]] /\ data' \in [Pointers -> DataBlock]
                       /\ reply' \in Replies
                       /\ \A n \in Inums :
                            inode_bitmap'[n] = 1 =>
                              /\ inodes'[n] \in Inode /\ inodes'[n].type \in TypeArgs
                              /\ inodes'[n].type # MFS_REGULAR_FILE => EntriesFit(inodes'[n])
    BY <2>1, TypedUnlessHarmed
  <2>2. harm = {} /\ TypeOK
    BY <2>1 DEF TypeInv
  <2>3. /\ inum \in Inums /\ inode_bitmap[inum] = 1 /\ inodes[inum] \in Inode
        /\ inodes[inum].type # MFS_DIRECTORY
    BY <1>3, <2>2, TypesBefore DEF WriteNewBlock, WriteOK
  <2>4. b \in Pointers
    BY <1>3, <2>2, TypesBefore, NextAvailable, ImageTypes
       DEF WriteNewBlock, next_available_block, Pointers
  <2>5. data' \in [Pointers -> DataBlock]
    BY <1>3, <2>2, TypesBefore, ContentTypes DEF WriteNewBlock
  <2>6. inodes' = [inodes EXCEPT ![inum] = push_inode_update(inodes[inum], block, b)]
    BY <1>3 DEF WriteNewBlock
  <2>7. push_inode_update(inodes[inum], block, b) \in Inode
    BY <2>3, <2>4, PushTypes
  <2>8. push_inode_update(inodes[inum], block, b).type = inodes[inum].type
    BY <2>3 DEF push_inode_update, Inode
  <2>9. inodes[inum].type = MFS_REGULAR_FILE
    BY <2>2, <2>3 DEF TypeInv, DirSizes, TypeArgs
  <2>. HIDE DEF b
  <2>10. inodes' = [n \in Inums |-> inodes'[n]]
    BY <2>2, <2>6, TypesBefore
  <2>11. /\ inodes'[inum] = push_inode_update(inodes[inum], block, b)
         /\ \A n \in Inums \ {inum} : inodes'[n] = inodes[n]
    BY <2>2, <2>3, <2>6, TypesBefore
  <2>12. inode_bitmap' = inode_bitmap /\ inode_bitmap \in [Inums -> {0, 1}]
    BY <1>3, <2>2, TypesBefore DEF WriteNewBlock
  <2>13. data_bitmap' \in [Blocks -> {0, 1}]
    BY <1>3, <2>2, TypesBefore, OccupiedTypes DEF WriteNewBlock
  <2>14. reply' \in Replies
    BY <1>3, ReplyTypesKnown, RepliesTyped DEF WriteNewBlock
  <2>15. ASSUME NEW n \in Inums, inode_bitmap'[n] = 1
         PROVE  /\ inodes'[n] \in Inode /\ inodes'[n].type \in TypeArgs
                /\ inodes'[n].type # MFS_REGULAR_FILE => EntriesFit(inodes'[n])
    <3>1. CASE n = inum
      BY <2>7, <2>8, <2>9, <2>11, <3>1 DEF TypeArgs
    <3>2. CASE n # inum
      BY <2>2, <2>11, <2>12, <2>15, <3>2, TypesBefore DEF TypeInv, DirSizes, IsFile
    <3>. QED BY <3>1, <3>2
  <2>. QED BY <2>5, <2>10, <2>12, <2>13, <2>14, <2>15
<1>4. CASE WritePastTable(inum, block, text)
  BY <1>4 DEF WritePastTable, TypeInv, TypeOK, Harms, DirSizes
<1>. QED
  BY <1>1, <1>2, <1>3, <1>4 DEF reply_Write, WriteRefused, WriteNoSpace

(***************************************************************************)
(* The inode of a directory that gets an entry, in block b if it needs one.*)
(***************************************************************************)
LEMMA WithEntryTypes ==
  ASSUME NEW dir \in Inode, NEW b, BlockNeeded(dir) => b \in Pointers
  PROVE  /\ WithEntry(dir, b) \in Inode
         /\ WithEntry(dir, b).type = dir.type
         /\ WithEntry(dir, b).size = dir.size + 1
<1>1. (IF BlockNeeded(dir) THEN [dir.blocks EXCEPT ![dir.block_nums] = b] ELSE dir.blocks)
        \in [BlockIndices -> Pointers]
  BY DEF Inode
<1>2. (IF BlockNeeded(dir) THEN dir.block_nums + 1 ELSE dir.block_nums) \in Nat
  BY DEF Inode
<1>3. dir.size + 1 \in Nat /\ dir.real_size + 1 \in Int
  BY DEF Inode
<1>. QED BY <1>1, <1>2, <1>3 DEF WithEntry, Inode

LEMMA EnteredTypes ==
  ASSUME NEW contents \in [Pointers -> DataBlock], NEW b, NEW s, NEW ent \in DirEnt
  PROVE  [contents EXCEPT ![b] = [@ EXCEPT ![s] = ent]] \in [Pointers -> DataBlock]
BY DEF DataBlock

LEMMA CreatNewKeepsTypes ==
  ASSUME TypeInv, NEW pinum \in InumArgs, NEW t \in TypeArgs, NEW name \in Names,
         CreatNew(pinum, t, name)
  PROVE  TypeInv'
<1>. DEFINE
  dir == inodes[pinum]
  new_inum == next_available_inode(inode_bitmap)
  entry_block == IF BlockNeeded(dir) THEN next_available_block(data_bitmap)
                 ELSE LastBlock(dir)
  bitmap == TakenForEntry(dir, data_bitmap)
  own_block == IF t = MFS_DIRECTORY THEN next_available_block(bitmap) ELSE -1
  slot == SlotForEntry(dir)
  ent == [inum |-> new_inum, name |-> name]
  entered == [data EXCEPT ![entry_block] = [@ EXCEPT ![slot] = ent]]
  tail == IF entry_block = -1 THEN TailHits(slot) ELSE {}
  stray == IF t = MFS_DIRECTORY THEN StrayHits(new_inum) ELSE {}
<1>1. /\ harm' \subseteq Harms
      /\ harm' = {} => /\ harm = {}
                       /\ entry_block # -1
                       /\ \A n \in stray : inode_bitmap[n] # 1
                       /\ ~(t = MFS_DIRECTORY /\ SpillsOver(new_inum))
  <2>1. harm' = harm
           \cup Struck("no_block", entry_block = -1 \/ (t = MFS_DIRECTORY /\ own_block = -1))
           \cup Struck("stray_write", (t = MFS_DIRECTORY /\ SpillsOver(new_inum))
                                        \/ \E n \in stray : inode_bitmap[n] = 1)
    BY Zenon DEF CreatNew
  <2>. HIDE DEF entry_block, own_block, stray, new_inum
  <2>. QED BY <2>1 DEF Struck, Harms, TypeInv, TypeOK
<1>. SUFFICES ASSUME harm' = {}
              PROVE  /\ inode_bitmap' \in [Inums -> {0, 1}] /\ data_bitmap' \in [Blocks -> {0, 1}]
                     /\ inodes' = [n \in Inums |-> inodes'[n]] /\ data' \in [Pointers -> DataBlock]
                     /\ reply' \in Replies
                     /\ \A n \in Inums :
                          inode_bitmap'[n] = 1 =>
                            /\ inodes'[n] \in Inode /\ inodes'[n].type \in TypeArgs
                            /\ inodes'[n].type # MFS_REGULAR_FILE => EntriesFit(inodes'[n])
  <2>. HIDE DEF entry_block, stray, new_inum
  <2>. QED BY <1>1, TypedUnlessHarmed
<1>2. TypeOK /\ harm = {}
  BY <1>1 DEF TypeInv
<1>3. pinum \in Inums /\ dir \in Inode /\ inode_bitmap[pinum] = 1 /\ ~IsFile(pinum)
  BY <1>2, TypesBefore DEF CreatNew, CreatOK
<1>4. new_inum \in Inums /\ inode_bitmap[new_inum] = 0
  BY <1>2, TypesBefore, NextAvailable, ImageTypes DEF CreatNew, HasRoom, next_available_inode
<1>5. BlockNeeded(dir) => entry_block \in Pointers
  BY <1>2, TypesBefore, NextAvailable, ImageTypes DEF next_available_block, Pointers
<1>6. bitmap \in [Blocks -> {0, 1}]
  BY <1>2, TypesBefore, OccupiedTypes DEF TakenForEntry
<1>7. own_block \in Pointers
  BY <1>6, NextAvailable, ImageTypes DEF next_available_block, Pointers
<1>8. t \in Int
  BY DEF TypeArgs, MFS_DIRECTORY, MFS_REGULAR_FILE
<1>9. PICK scrap \in [tail \cup stray -> ScrapInodes] :
        inodes' = [n \in Inums |->
             IF n \in stray THEN
               IF n = new_inum + 1 THEN [scrap[n] EXCEPT !.type = new_inum] ELSE scrap[n]
             ELSE IF n = new_inum THEN NewInode(t, own_block)
             ELSE IF n \in tail THEN scrap[n]
             ELSE IF n = pinum THEN WithEntry(dir, entry_block)
             ELSE inodes[n]]
  BY Zenon DEF CreatNew
<1>10. inode_bitmap' \in [Inums -> {0, 1}] /\ data_bitmap' \in [Blocks -> {0, 1}]
  BY <1>2, <1>6, TypesBefore, OccupiedTypes DEF CreatNew
<1>11. data' \in [Pointers -> DataBlock]
  <2>1. ent \in DirEnt
    BY <1>4 DEF DirEnt
  <2>2. entered \in [Pointers -> DataBlock]
    BY <1>2, <2>1, TypesBefore, EnteredTypes
  <2>3. data' = entered \/ (t = MFS_DIRECTORY /\ SpillsOver(new_inum))
    BY Zenon DEF CreatNew
  <2>. HIDE DEF entered, entry_block, stray, new_inum
  <2>. QED BY <1>1, <2>2, <2>3
<1>12. reply' \in Replies
  BY ReplyTypesKnown, RepliesTyped DEF CreatNew
<1>13. inodes' = [n \in Inums |-> inodes'[n]]
  <2>. HIDE DEF dir, new_inum, entry_block, bitmap, own_block, tail, stray
  <2>. QED BY <1>9
<1>14. ASSUME NEW d \in Inums, inode_bitmap'[d] = 1
       PROVE  /\ inodes'[d] \in Inode /\ inodes'[d].type \in TypeArgs
              /\ inodes'[d].type # MFS_REGULAR_FILE => EntriesFit(inodes'[d])
  <2>1. d = new_inum \/ inode_bitmap[d] = 1
    BY <1>2, <1>4, <1>14, TypesBefore DEF CreatNew, Occupied
  <2>2. d \notin stray /\ d \notin tail
    <3>1. new_inum \notin stray
      BY <1>4, ImageTypes DEF StrayHits
    <3>. QED BY <1>1, <2>1, <3>1
  <2>3. CASE d = new_inum
    <3>1. inodes'[d] = NewInode(t, own_block)
      BY <1>9, <2>2, <2>3
    <3>2. NewInode(t, own_block).type \in TypeArgs
      BY DEF NewInode, EmptyDir, ZeroInode, TypeArgs
    <3>3. EntriesFit(NewInode(t, own_block))
      BY RoomForDefaults DEF NewInode, EmptyDir, ZeroInode, EntriesFit
    <3>4. NewInode(t, own_block) \in Inode
      BY <1>7, <1>8, InodeTypes
    <3>. QED BY <3>1, <3>2, <3>3, <3>4
  <2>4. CASE d # new_inum /\ d = pinum
    <3>1. inodes'[d] = WithEntry(dir, entry_block)
      BY <1>9, <2>2, <2>4
    <3>2. dir.type \in TypeArgs /\ EntriesFit(dir)
      BY <1>2, <1>3 DEF TypeInv, DirSizes
    <3>3. dir.size # MFS_INODE_BLOCKS_SIZE * DirEntsPerBlock
      BY DEF CreatNew, HasRoom
    <3>4. dir.size + 1 <= DirEntsPerBlock * MFS_INODE_BLOCKS_SIZE
      BY <1>3, <3>2, <3>3, SizesAssumption DEF EntriesFit, Inode
    <3>. QED BY <1>3, <1>5, <3>1, <3>2, <3>4, WithEntryTypes DEF EntriesFit
  <2>5. CASE d # new_inum /\ d # pinum
    <3>1. inodes'[d] = inodes[d]
      BY <1>9, <2>2, <2>5
    <3>. QED BY <1>2, <2>1, <2>5, <3>1, TypesBefore DEF TypeInv, DirSizes, IsFile
  <2>. QED BY <2>3, <2>4, <2>5
<1>. QED
  BY <1>10, <1>11, <1>12, <1>13, <1>14

(***************************************************************************)
(* Storing nothing leaves the blocks as they are.                          *)
(***************************************************************************)
LEMMA NothingStored ==
  ASSUME NEW contents, contents = [b \in Pointers |-> [s \in Slots |-> contents[b][s]]]
  PROVE  WithEntries(contents, Nowhere) = contents
BY DEF WithEntries, Nowhere

LEMMA BlocksShaped ==
  ASSUME NEW contents \in [Pointers -> DataBlock]
  PROVE  contents = [b \in Pointers |-> [s \in Slots |-> contents[b][s]]]
<1>1. \A b \in Pointers : contents[b] = [s \in Slots |-> contents[b][s]]
  BY DEF DataBlock
<1>. QED BY <1>1

(***************************************************************************)
(* Until a defect has struck, what Unlink takes away is an entry that      *)
(* leads to an inode of the table.                                         *)
(***************************************************************************)
UnlinkMade(pinum, name) ==
  LET i == Found(pinum, name)
      inum == EntryFor(pinum, name).inum
  IN  /\ UnlinkOK(pinum)
      /\ i # -1
      /\ Removable(inodes[inum])
      /\ data' = [data EXCEPT ![EntBlock(inodes[pinum], i)] =
                    [@ EXCEPT ![i % DirEntsPerBlock] = UnusedEnt]]
      /\ inodes' = [[inodes EXCEPT ![pinum].real_size = @ - 1]
                      EXCEPT ![inum] = decomission_inode(inodes[inum])]
      /\ inode_bitmap' = [inode_bitmap EXCEPT ![inum] = 0]
      /\ data_bitmap' = decomission_blocks(inodes[inum], data_bitmap)
      /\ reply' = Reply("U", 0)
      /\ harm' = harm \cup Struck("default_entry", i < 2)

LEMMA InTable ==
  ASSUME NEW n \in Inums
  PROVE  Loaded(n) = {inodes[n]} /\ EntriesOver(n) = {Nowhere}
BY DEF Loaded, EntriesOver

LEMMA RemovesMade ==
  ASSUME TypeOK, NEW pinum \in InumArgs, NEW name, UnlinkRemove(pinum, name), harm' = {}
  PROVE  /\ UnlinkMade(pinum, name)
         /\ harm = {}
         /\ Found(pinum, name) >= 2
         /\ EntryFor(pinum, name).inum \in Inums
<1>. DEFINE i == Found(pinum, name)
            inum == EntryFor(pinum, name).inum
            removed == [data EXCEPT ![EntBlock(inodes[pinum], i)] =
                          [@ EXCEPT ![i % DirEntsPerBlock] = UnusedEnt]]
<1>1. /\ harm' = harm \cup Struck("default_entry", NotMade(pinum, name))
      /\ UnlinkOK(pinum) /\ i # -1
      /\ \E unlinked \in LoadedFor(pinum, name) :
           /\ Removable(unlinked)
           /\ inodes' = [[inodes EXCEPT ![pinum].real_size = @ - 1]
                           EXCEPT ![inum] = decomission_inode(unlinked)]
           /\ data_bitmap' = decomission_blocks(unlinked, data_bitmap)
      /\ inode_bitmap' = [inode_bitmap EXCEPT ![inum] = 0]
      /\ \E ents \in EntriesOver(inum) : data' = WithEntries(removed, ents)
      /\ reply' = Reply("U", 0)
  BY Zenon DEF UnlinkRemove
<1>2. harm = {} /\ ~NotMade(pinum, name)
  BY <1>1 DEF Struck
<1>3. ~(i < 2) /\ inum \in Inums
  BY <1>2 DEF NotMade
<1>4. LoadedFor(pinum, name) = {inodes[inum]} /\ EntriesOver(inum) = {Nowhere}
  BY <1>3, InTable DEF LoadedFor
<1>5. removed \in [Pointers -> DataBlock]
  BY <1>2, TypesBefore, ContentTypes, EnteredTypes
<1>. HIDE DEF removed
<1>6. WithEntries(removed, Nowhere) = removed
  BY <1>5, BlocksShaped, NothingStored
<1>7. data' = removed
  BY <1>1, <1>4, <1>6
<1>8. harm' = harm \cup Struck("default_entry", i < 2)
  BY <1>1, <1>2, <1>3 DEF Struck
<1>9. UnlinkMade(pinum, name)
  BY <1>1, <1>4, <1>7, <1>8, Zenon DEF UnlinkMade, removed
<1>10. i >= 2
  <2>1. inodes[pinum] \in Inode
    BY <1>1, <1>2, TypesBefore DEF UnlinkOK
  <2>2. i \in Hits(inodes[pinum], name, data)
    BY <1>1, <2>1, SearchFinds DEF Found
  <2>3. i \in Int
    BY <2>1, <2>2 DEF Hits, Inode
  <2>. QED BY <1>3, <2>3
<1>. QED BY <1>2, <1>3, <1>9, <1>10

LEMMA UnlinkRemoveKeepsTypes ==
  ASSUME TypeInv, NEW pinum \in InumArgs, NEW name \in Names, UnlinkRemove(pinum, name)
  PROVE  TypeInv'
<1>. DEFINE inum == EntryFor(pinum, name).inum
<1>1. harm' \subseteq Harms
  BY DEF UnlinkRemove, Struck, Harms, TypeInv, TypeOK
<1>. SUFFICES ASSUME harm' = {}
              PROVE  /\ inode_bitmap' \in [Inums -> {0, 1}] /\ data_bitmap' \in [Blocks -> {0, 1}]
                     /\ inodes' = [n \in Inums |-> inodes'[n]] /\ data' \in [Pointers -> DataBlock]
                     /\ reply' \in Replies
                     /\ \A n \in Inums :
                          inode_bitmap'[n] = 1 =>
                            /\ inodes'[n] \in Inode /\ inodes'[n].type \in TypeArgs
                            /\ inodes'[n].type # MFS_REGULAR_FILE => EntriesFit(inodes'[n])
  BY <1>1, TypedUnlessHarmed
<1>2. TypeOK /\ harm = {} /\ UnlinkMade(pinum, name) /\ inum \in Inums
  BY RemovesMade DEF TypeInv
<1>3. pinum \in Inums /\ inode_bitmap[pinum] = 1
  BY <1>2, TypesBefore DEF UnlinkMade, UnlinkOK
<1>4. \A inode \in Inode : /\ [inode EXCEPT !.real_size = @ - 1] \in Inode
                           /\ [inode EXCEPT !.real_size = @ - 1].type = inode.type
                           /\ [inode EXCEPT !.real_size = @ - 1].size = inode.size
  BY DEF Inode
<1>5. inodes' = [[inodes EXCEPT ![pinum].real_size = @ - 1]
                   EXCEPT ![inum] = decomission_inode(inodes[inum])]
  BY <1>2 DEF UnlinkMade
<1>6. inode_bitmap' = [inode_bitmap EXCEPT ![inum] = 0]
  BY <1>2 DEF UnlinkMade
<1>7. data_bitmap' \in [Blocks -> {0, 1}]
  BY <1>2, TypesBefore DEF UnlinkMade, decomission_blocks
<1>8. data' \in [Pointers -> DataBlock]
  BY <1>2, TypesBefore, ContentTypes, EnteredTypes DEF UnlinkMade
<1>9. reply' \in Replies
  BY <1>2, ReplyTypesKnown, RepliesTyped DEF UnlinkMade
<1>. HIDE DEF inum
<1>10. inodes' = [n \in Inums |-> inodes'[n]]
  BY <1>2, <1>5, TypesBefore
<1>11. ASSUME NEW d \in Inums, inode_bitmap'[d] = 1
       PROVE  /\ inodes'[d] \in Inode /\ inodes'[d].type \in TypeArgs
              /\ inodes'[d].type # MFS_REGULAR_FILE => EntriesFit(inodes'[d])
  <2>1. d # inum /\ inode_bitmap[d] = 1
    BY <1>2, <1>6, <1>11, TypesBefore
  <2>2. /\ inodes[d] \in Inode /\ inodes[d].type \in TypeArgs
        /\ inodes[d].type # MFS_REGULAR_FILE => EntriesFit(inodes[d])
    BY <1>2, <2>1, TypesBefore DEF TypeInv, DirSizes, IsFile
  <2>3. inodes'[d] = IF d = pinum THEN [inodes[d] EXCEPT !.real_size = @ - 1] ELSE inodes[d]
    BY <1>2, <1>5, <2>1, TypesBefore
  <2>. QED BY <1>4, <2>2, <2>3 DEF EntriesFit
<1>. QED
  BY <1>2, <1>6, <1>7, <1>8, <1>9, <1>10, <1>11, TypesBefore

LEMMA NextKeepsTypes == TypeInv /\ [Next]_vars => TypeInv'
<1>. SUFFICES ASSUME TypeInv, [Next]_vars PROVE TypeInv'
  OBVIOUS
<1>1. CASE \/ reply_Init
           \/ \E pinum \in Inums, name \in Names : reply_Lookup(pinum, name)
           \/ \E inum \in Inums : reply_Stat(inum)
           \/ \E inum \in InumArgs, block \in BlockArgs : reply_Read(inum, block)
  BY <1>1, ReadingKeepsTypes
<1>2. ASSUME NEW inum \in InumArgs, NEW block \in BlockArgs, NEW text \in Texts,
             reply_Write(inum, block, text)
      PROVE  TypeInv'
  BY <1>2, WriteKeepsTypes
<1>3. ASSUME NEW pinum \in InumArgs, NEW name \in Names, NEW t \in TypeArgs,
             reply_Creat(pinum, t, name)
      PROVE  TypeInv'
  BY <1>3, CreatNewKeepsTypes, AnswerKeepsTypes, ReplyTypesKnown, RepliesTyped
     DEF reply_Creat, CreatRefused, CreatExists
<1>4. ASSUME NEW pinum \in InumArgs, NEW name \in Names, reply_Unlink(pinum, name)
      PROVE  TypeInv'
  BY <1>4, UnlinkRemoveKeepsTypes, AnswerKeepsTypes, ReplyTypesKnown, RepliesTyped
     DEF reply_Unlink, UnlinkRefused, UnlinkAbsent
<1>5. CASE UNCHANGED vars
  BY <1>5 DEF vars, TypeInv, TypeOK, DirSizes, IsFile
<1>. QED BY <1>1, <1>2, <1>3, <1>4, <1>5 DEF Next

(***************************************************************************)
(* The variables keep their types as long as no defect has struck,         *)
(* whatever the requests, whatever numbers the first bytes of the texts    *)
(* are and whatever the stray bytes decode to: handlers find no pointer    *)
(* out of range in an inode in use, though inodes that are not in use may  *)
(* hold anything by then.                                                  *)
(***************************************************************************)
THEOREM TypeCorrect == Spec => []TypeOK
<1>1. TypeInv => TypeOK
  BY DEF TypeInv
<1>. QED BY <1>1, InitTypes, NextKeepsTypes, PTL DEF Spec
=============================================================================
