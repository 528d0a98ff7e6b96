------------------------------ MODULE MFSImage ------------------------------
(***************************************************************************)
(* The file system image that the server keeps on disk, and the helper     *)
(* functions of server.c that read it.                                     *)
(*                                                                         *)
(* The image is two bitmaps (inodes, data blocks), an inode table and a    *)
(* data region.  A data block holds either a file's bytes or directory     *)
(* entries.  Sizes are counted in directory entries: a 4096-byte block is  *)
(* DirEntsPerBlock entries of 256 bytes.                                   *)
(***************************************************************************)
EXTENDS FiniteSetsExt

CONSTANTS
  MFS_INODE_TABLE_SIZE,  \* number of inodes (4096 in mfs.h)
  MFS_DATA_REGION_SIZE,  \* number of data blocks (4096)
  MFS_INODE_BLOCKS_SIZE, \* block pointers of an inode (10)
  DirEntsPerBlock,       \* directory entries of a block (16)
  EntSize,               \* bytes of a directory entry (256)
  InodeSize,             \* bytes of an inode (56)
  Names,                 \* names that callers pass
  Texts,                 \* contents that callers write, one value for a block
  TextInum,              \* for each text, the number that its first four bytes are
  ScrapInodes,           \* what bytes that are no inode decode to,
  ScrapEnts,             \*   that are no directory entry,
  ScrapBytes             \*   and that are no part of a bitmap

MFS_DIRECTORY == 0
MFS_REGULAR_FILE == 1

Dot == "."
DotDot == ".."
Blank == ""      \* the name in a zeroed entry

Inums == 0 .. MFS_INODE_TABLE_SIZE - 1
Blocks == 0 .. MFS_DATA_REGION_SIZE - 1
Pointers == Blocks \cup {-1}
BlockIndices == 0 .. MFS_INODE_BLOCKS_SIZE - 1
Slots == 0 .. DirEntsPerBlock - 1

BlockSize == DirEntsPerBlock * EntSize
TableSize == MFS_INODE_TABLE_SIZE * InodeSize
InodesPerDirEnt == (EntSize + InodeSize - 1) \div InodeSize  \* 5, the last one in part

(***************************************************************************)
(* What callers pass for an inode number, a block and a type.              *)
(***************************************************************************)
InumArgs == Inums \cup {-1}
BlockArgs == -1 .. MFS_INODE_BLOCKS_SIZE + 1
TypeArgs == {MFS_DIRECTORY, MFS_REGULAR_FILE}

(***************************************************************************)
(* A directory entry; inum -1 means not used.  A block of a file is the    *)
(* same text in every slot.  Read as an entry, it has the text for a name, *)
(* and for an inum what the bytes before that are: any number whatever.    *)
(***************************************************************************)
TextInums == {TextInum[text] : text \in Texts}
DirEnt == [inum : Inums \cup {-1} \cup TextInums,
           name : Names \cup Texts \cup {Dot, DotDot, Blank}]
DataBlock == [Slots -> DirEnt]

Inode == [type       : Int,   \* directory (0), regular file (1)
          size       : Nat,   \* entries ever used, or 16 for each block of a file
          real_size  : Int,   \* entries in use, for a directory
          block_nums : Nat,
          blocks     : [BlockIndices -> Pointers]]

ASSUME SizesAssumption ==
  /\ MFS_INODE_TABLE_SIZE \in Nat \ {0}
  /\ MFS_DATA_REGION_SIZE \in Nat \ {0}
  /\ MFS_INODE_BLOCKS_SIZE \in Nat \ {0}
  /\ DirEntsPerBlock \in Nat \ {0, 1}    \* "." and ".." fit in one block
  /\ EntSize \in Nat \ {0} /\ InodeSize \in Nat \ {0}

ASSUME DataAssumption ==
  /\ TextInum \in [Texts -> Int]
  /\ ScrapInodes # {} /\ ScrapEnts # {} /\ ScrapBytes # {}

-----------------------------------------------------------------------------
(***************************************************************************)
(* Contents.                                                               *)
(***************************************************************************)
ZeroEnt == [inum |-> 0, name |-> Blank]
UnusedEnt == [inum |-> -1, name |-> Blank]
TextBlock(text) == [s \in Slots |-> [inum |-> TextInum[text], name |-> text]]

NoBlocks == [j \in BlockIndices |-> -1]
ZeroInode == [type |-> 0, size |-> 0, real_size |-> 0, block_nums |-> 0,
              blocks |-> NoBlocks]
EmptyDir(block) == [type |-> MFS_DIRECTORY, size |-> 2, real_size |-> 2,
                    block_nums |-> 1, blocks |-> [NoBlocks EXCEPT ![0] = block]]

(***************************************************************************)
(* The image that MFS_File_System_Init writes.                             *)
(***************************************************************************)
FreshBitmap(S) == [x \in S |-> IF x = 0 THEN 1 ELSE 0]
FreshInodes == [n \in Inums |-> IF n = 0 THEN EmptyDir(0) ELSE ZeroInode]
RootBlock == [s \in Slots |-> CASE s = 0 -> [inum |-> 0, name |-> Dot]
                                [] s = 1 -> [inum |-> 0, name |-> DotDot]
                                [] OTHER -> ZeroEnt]
FreshData == [b \in Pointers |-> IF b = 0 THEN RootBlock ELSE [s \in Slots |-> ZeroEnt]]

-----------------------------------------------------------------------------
(***************************************************************************)
(* Reading the image.  valid_inum and valid_block give -1 for "no".        *)
(***************************************************************************)
valid_inum(inum, inode_bitmap) ==
  IF inum < 0 \/ inum > MFS_INODE_TABLE_SIZE THEN -1
  ELSE IF inode_bitmap[inum] = 1 THEN inum ELSE -1

valid_block(inode, block, data_bitmap) ==
  IF block < 0 \/ block >= MFS_INODE_BLOCKS_SIZE THEN -1
  ELSE LET b == inode.blocks[block]
       IN  IF b < 0 \/ b > MFS_DATA_REGION_SIZE THEN -1
           ELSE IF data_bitmap[b] = 1 THEN b ELSE -1

(***************************************************************************)
(* Entry number i of a directory.                                          *)
(***************************************************************************)
EntBlock(inode, i) == inode.blocks[i \div DirEntsPerBlock]
EntAt(inode, i, data) == data[EntBlock(inode, i)][i % DirEntsPerBlock]

(* Mutant: as many entries as there are live ones. *)
Hits_RealSize(inode, name, data) ==
  {i \in 0 .. inode.real_size - 1 : /\ EntAt(inode, i, data).name = name
                                    /\ EntAt(inode, i, data).inum >= 0}

Hits(inode, name, data) ==
  {i \in 0 .. inode.size - 1 : /\ EntAt(inode, i, data).name = name
                               /\ EntAt(inode, i, data).inum >= 0}

(***************************************************************************)
(* The number of the first entry in use with that name, or -1.             *)
(***************************************************************************)
search_Directory(inode, name, data) ==
  IF Hits(inode, name, data) = {} THEN -1 ELSE Min(Hits(inode, name, data))

(* Mutant: only the first block. *)
empty_Directory_OneBlock(inode, data) ==
  \A i \in 2 .. DirEntsPerBlock - 1 : EntAt(inode, i, data).inum < 0

empty_Directory(inode, data) ==
  \A i \in 2 .. inode.size - 1 : EntAt(inode, i, data).inum < 0

(* Mutant: where the loop stops, when it finds nothing. *)
next_available_LoopIndex(bitmap, S) ==
  IF \E x \in S : bitmap[x] = 0 THEN Min({x \in S : bitmap[x] = 0}) ELSE Cardinality(S)

(* Mutant: the last free one. *)
next_available_Last(bitmap, S) ==
  IF \E x \in S : bitmap[x] = 0 THEN Max({x \in S : bitmap[x] = 0}) ELSE -1

next_available(bitmap, S) ==
  IF \E x \in S : bitmap[x] = 0 THEN Min({x \in S : bitmap[x] = 0}) ELSE -1
next_available_block(data_bitmap) == next_available(data_bitmap, Blocks)
next_available_inode(inode_bitmap) == next_available(inode_bitmap, Inums)

(***************************************************************************)
(* Computing the new image.  EXCEPT at an index outside the domain leaves  *)
(* a function unchanged: Occupied(bitmap, -1) is bitmap.                   *)
(***************************************************************************)
Occupied(bitmap, x) == [bitmap EXCEPT ![x] = 1]

(* Mutant: the loop starts at 1. *)
decomission_blocks_FromOne(inode, data_bitmap) ==
  [b \in Blocks |-> IF \E j \in BlockIndices \ {0} : inode.blocks[j] = b
                    THEN 0 ELSE data_bitmap[b]]

decomission_blocks(inode, data_bitmap) ==
  [b \in Blocks |-> IF \E j \in BlockIndices : inode.blocks[j] = b
                    THEN 0 ELSE data_bitmap[b]]
decomission_inode(inode) == [inode EXCEPT !.blocks = NoBlocks]

(* Mutants: block_nums is not counted; the pointer goes to the first free  *)
(* place; the pointer is not stored.                                       *)
push_inode_update_Uncounted(inode, block, b) ==
  [inode EXCEPT !.blocks = [@ EXCEPT ![block] = b], !.size = @ + DirEntsPerBlock]
push_inode_update_Append(inode, block, b) ==
  [inode EXCEPT !.blocks = [@ EXCEPT ![inode.block_nums] = b],
                !.block_nums = @ + 1, !.size = @ + DirEntsPerBlock]
push_inode_update_NoPointer(inode, block, b) ==
  [inode EXCEPT !.block_nums = @ + 1, !.size = @ + DirEntsPerBlock]

push_inode_update(inode, block, b) ==
  [inode EXCEPT !.blocks = [@ EXCEPT ![block] = b],
                !.block_nums = @ + 1,
                !.size = @ + DirEntsPerBlock,
                !.real_size = IF inode.type = MFS_DIRECTORY THEN @ + 1 ELSE @]

Overlay(f, S, g) == [x \in DOMAIN f |-> IF x \in S THEN g[x] ELSE f[x]]

(***************************************************************************)
(* Entries stored at places <<block, slot>>.                               *)
(***************************************************************************)
Nowhere == [x \in {} |-> x]
WithEntries(data, ents) ==
  [b \in Pointers |-> [s \in Slots |->
     IF <<b, s>> \in DOMAIN ents THEN ents[<<b, s>>] ELSE data[b][s]]]

(***************************************************************************)
(* The inodes that some of the bytes from .. to - 1 of the table belong to *)
(***************************************************************************)
InodesOver(from, to) == {n \in Inums : n * InodeSize < to /\ from < (n + 1) * InodeSize}
=============================================================================
