----------------------------- MODULE MFSServer -----------------------------
(***************************************************************************)
(* The file server: the handlers reply_Init, ..., reply_Unlink of server.c *)
(* and the loop of main that calls them, one request at a time, on the     *)
(* image of MFSImage.                                                      *)
(*                                                                         *)
(* A step is one request: what its handler reads, every write it makes to  *)
(* the image, in the order it makes them, and the reply it sends.  What a  *)
(* crash between those writes leaves behind is not modelled here.          *)
(***************************************************************************)
EXTENDS MFSImage

VARIABLES
  inode_bitmap,  \* 1 for the inodes in use
  data_bitmap,   \* 1 for the data blocks in use
  inodes,        \* the inode table
  data,          \* the blocks; block -1 is the 4096 bytes before the region
  reply,         \* the last reply sent
  harm           \* history: the known defects that have struck so far

image == <<inode_bitmap, data_bitmap, inodes, data>>
vars == <<inode_bitmap, data_bitmap, inodes, data, reply, harm>>

(***************************************************************************)
(* The defects of server.c that damage the image.  Nothing in the code     *)
(* reads or writes harm: it tells the states the server was meant to reach *)
(* from the others.                                                        *)
(*   "stray_write"   Creat of a directory writes over inodes in use, or    *)
(*                   over the first entry of the root (server.c:658-660)   *)
(*   "no_block"      Creat goes on when no data block is free              *)
(*                   (server.c:594-596, 616-617)                           *)
(*   "default_entry" Unlink takes away "." or "..", or what a directory    *)
(*                   has in their place (server.c:716-720)                 *)
(*   "past_table"    Write at block 10 of a table of 10 (server.c:474)     *)
(***************************************************************************)
Harms == {"stray_write", "no_block", "default_entry", "past_table"}
Struck(what, condition) == IF condition THEN {what} ELSE {}

NoStats == [type |-> 0, size |-> 0, blocks |-> 0]
NoBuffer == [s \in Slots |-> ZeroEnt]

(***************************************************************************)
(* A reply starts zeroed: a handler that does not set success leaves 0.    *)
(***************************************************************************)
Reply(type, success) ==
  [reply_type |-> type, success |-> success, stats |-> NoStats, buffer |-> NoBuffer]

ReplyTypes == {"", "I", "L", "S", "W", "R", "C", "U"}
Replies == [reply_type : ReplyTypes,
            success : Int,
            stats : [type : Int, size : Int, blocks : Nat],
            buffer : DataBlock]

(***************************************************************************)
(* The types of the variables.  They hold until a defect has struck: from  *)
(* then on stray bytes may be taken for entries, inodes in use or bitmaps. *)
(* The inodes that are not in use can hold such bytes before that.         *)
(***************************************************************************)
TypeOK ==
  /\ harm \subseteq Harms
  /\ harm = {} =>
       /\ inode_bitmap \in [Inums -> {0, 1}]
       /\ data_bitmap \in [Blocks -> {0, 1}]
       /\ inodes = [n \in Inums |-> inodes[n]]
       /\ \A n \in Inums : inode_bitmap[n] = 1 => inodes[n] \in Inode
       /\ data \in [Pointers -> DataBlock]
       /\ reply \in Replies

Init ==
  /\ inode_bitmap = FreshBitmap(Inums)
  /\ data_bitmap = FreshBitmap(Blocks)
  /\ inodes = FreshInodes
  /\ data = FreshData
  /\ reply = Reply("", 0)
  /\ harm = {}

(***************************************************************************)
(* The reply is all that changes.                                          *)
(***************************************************************************)
Answer(r) == reply' = r /\ UNCHANGED <<image, harm>>

-----------------------------------------------------------------------------
(***************************************************************************)
(* Requests that read.  reply_Lookup and reply_Stat index the bitmap with  *)
(* the caller's inum unchecked, and take any byte but 0 for a mark; only   *)
(* inums of the table are passed here.                                     *)
(***************************************************************************)
reply_Init == Answer(Reply("I", 0))

IsFile(inum) == inodes[inum].type = MFS_REGULAR_FILE
Found(inum, name) == search_Directory(inodes[inum], name, data)

LookupHits(pinum, name) ==
  inode_bitmap[pinum] # 0 /\ ~IsFile(pinum) /\ Found(pinum, name) # -1

reply_Lookup(pinum, name) ==
  \/ ~LookupHits(pinum, name) /\ Answer(Reply("L", -1))
  \/ /\ LookupHits(pinum, name)
     /\ Answer(Reply("L", EntAt(inodes[pinum], Found(pinum, name), data).inum))

(* Mutant: size for real_size. *)
StatsOf_Slots(inode) ==
  [type |-> inode.type, size |-> inode.size, blocks |-> inode.block_nums]

StatsOf(inode) ==
  [type |-> inode.type,
   size |-> IF inode.type = MFS_DIRECTORY THEN inode.real_size ELSE inode.size,
   blocks |-> inode.block_nums]

reply_Stat(inum) ==
  \/ inode_bitmap[inum] = 0 /\ Answer(Reply("S", -1))
  \/ /\ inode_bitmap[inum] # 0
     /\ Answer([Reply("S", 0) EXCEPT !.stats = StatsOf(inodes[inum])])

InumOK(inum) == valid_inum(inum, inode_bitmap) # -1
BlockOK(inum, block) == valid_block(inodes[inum], block, data_bitmap) # -1

ReadOK(inum, block) == InumOK(inum) /\ BlockOK(inum, block)

reply_Read(inum, block) ==
  \/ ~ReadOK(inum, block) /\ Answer(Reply("R", -1))
  \/ /\ ReadOK(inum, block)
     /\ Answer([Reply("R", 0) EXCEPT !.buffer = data[inodes[inum].blocks[block]]])

-----------------------------------------------------------------------------
(***************************************************************************)
(* Write.  The test on the block index lets the size of the table through. *)
(***************************************************************************)
WriteOK(inum, block) ==
  /\ InumOK(inum)
  /\ inodes[inum].type # MFS_DIRECTORY
  /\ block \in 0 .. MFS_INODE_BLOCKS_SIZE

(* Mutant: success is left as the zeroed reply has it. *)
WriteRefused_Silent(inum, block) == ~WriteOK(inum, block) /\ Answer(Reply("W", 0))

WriteRefused(inum, block) == ~WriteOK(inum, block) /\ Answer(Reply("W", -1))

(* Mutant: the index in the file taken for the number of a block. *)
WriteInPlace_Index(inum, block, text) ==
  /\ WriteOK(inum, block)
  /\ block \in BlockIndices
  /\ inodes[inum].blocks[block] # -1
  /\ data' = [data EXCEPT ![block] = TextBlock(text)]
  /\ reply' = Reply("W", 0)
  /\ UNCHANGED <<inode_bitmap, data_bitmap, inodes, harm>>

WriteInPlace(inum, block, text) ==
  /\ WriteOK(inum, block)
  /\ block \in BlockIndices
  /\ inodes[inum].blocks[block] # -1
  /\ data' = [data EXCEPT ![inodes[inum].blocks[block]] = TextBlock(text)]
  /\ reply' = Reply("W", 0)
  /\ UNCHANGED <<inode_bitmap, data_bitmap, inodes, harm>>

(***************************************************************************)
(* The pointer in the table is -1: a block is taken for it.                *)
(***************************************************************************)
WriteNewBlock(inum, block, text) ==
  LET b == next_available_block(data_bitmap)
  IN  /\ WriteOK(inum, block)
      /\ block \in BlockIndices => inodes[inum].blocks[block] = -1
      /\ b # -1
      /\ data' = [data EXCEPT ![b] = TextBlock(text)]
      /\ inodes' = [inodes EXCEPT ![inum] = push_inode_update(@, block, b)]
      /\ data_bitmap' = Occupied(data_bitmap, b)
      /\ reply' = Reply("W", 0)
      /\ harm' = harm \cup Struck("past_table", block \notin BlockIndices)
      /\ UNCHANGED inode_bitmap

WriteNoSpace(inum, block) ==
  /\ WriteOK(inum, block)
  /\ block \in BlockIndices => inodes[inum].blocks[block] = -1
  /\ next_available_block(data_bitmap) = -1
  /\ Answer(Reply("W", -1))

(***************************************************************************)
(* The word after the last pointer of the table is whatever the stack      *)
(* holds, and is taken for the number of a block (times 4096, as an int).  *)
(* When it is -1, WriteNewBlock takes a block and the pointer to it is     *)
(* lost, or WriteNoSpace.  Else the text lands past the image, on a block, *)
(* or, the numbers below 0, on a part of the inode table or on a bitmap;   *)
(* and when the lseek fails, where the file position is, on the inodes     *)
(* after this one and from the end of the table on to the first block.     *)
(***************************************************************************)
InodesHit(from) ==
  LET hit == InodesOver(from, from + BlockSize)
  IN  \E scrap \in [hit -> ScrapInodes] : inodes' = Overlay(inodes, hit, scrap)

EntriesHit(past) ==
  LET hit == {0} \X {s \in Slots : s * EntSize < past - TableSize}
  IN  \E ents \in [hit -> ScrapEnts] : data' = WithEntries(data, ents)

WritePastTable(inum, block, text) ==
  LET position == (inum + 1) * InodeSize
  IN  /\ WriteOK(inum, block)
      /\ block = MFS_INODE_BLOCKS_SIZE
      /\ \/ UNCHANGED image
         \/ /\ \E b \in Blocks : data' = [data EXCEPT ![b] = TextBlock(text)]
            /\ UNCHANGED <<inode_bitmap, data_bitmap, inodes>>
         \/ /\ \E k \in 1 .. TableSize : InodesHit(TableSize - k * BlockSize)
            /\ UNCHANGED <<inode_bitmap, data_bitmap, data>>
         \/ /\ data_bitmap' \in [Blocks -> ScrapBytes]
            /\ UNCHANGED <<inode_bitmap, inodes, data>>
         \/ /\ inode_bitmap' \in [Inums -> ScrapBytes]
            /\ UNCHANGED <<data_bitmap, inodes, data>>
         \/ /\ InodesHit(position) /\ EntriesHit(position + BlockSize)
            /\ UNCHANGED <<inode_bitmap, data_bitmap>>
      /\ reply' = Reply("W", 0)
      /\ harm' = harm \cup {"past_table"}

reply_Write(inum, block, text) ==
  \/ WriteRefused(inum, block)
  \/ WriteInPlace(inum, block, text)
  \/ WriteNewBlock(inum, block, text)
  \/ WriteNoSpace(inum, block)
  \/ WritePastTable(inum, block, text)

-----------------------------------------------------------------------------
(***************************************************************************)
(* Creat.  A name that is there already is a success and changes nothing.  *)
(***************************************************************************)
CreatOK(pinum) == InumOK(pinum) /\ ~IsFile(pinum)
HasRoom(pinum) ==
  /\ inodes[pinum].size # MFS_INODE_BLOCKS_SIZE * DirEntsPerBlock
  /\ next_available_inode(inode_bitmap) # -1

CreatExists(pinum, name) ==
  /\ CreatOK(pinum)
  /\ Found(pinum, name) # -1
  /\ Answer(Reply("C", 0))

(* Mutant: asks for room before it looks for the name. *)
CreatRefused_RoomFirst(pinum, name) ==
  ~(CreatOK(pinum) /\ HasRoom(pinum)) /\ Answer(Reply("C", -1))

CreatRefused(pinum, name) ==
  /\ ~(CreatOK(pinum) /\ (Found(pinum, name) # -1 \/ HasRoom(pinum)))
  /\ Answer(Reply("C", -1))

(***************************************************************************)
(* The parent's inode with one more entry, in a new block when the ones it *)
(* has are full.  Whether a block was found is not checked.                *)
(***************************************************************************)
(* Mutant: one entry late. *)
BlockNeeded_Late(dir) == dir.size > DirEntsPerBlock * dir.block_nums

BlockNeeded(dir) == dir.size + 1 > DirEntsPerBlock * dir.block_nums

WithEntry(dir, b) ==
  [dir EXCEPT !.blocks = IF BlockNeeded(dir) THEN [@ EXCEPT ![dir.block_nums] = b] ELSE @,
              !.block_nums = IF BlockNeeded(dir) THEN @ + 1 ELSE @,
              !.size = @ + 1,
              !.real_size = @ + 1]

(***************************************************************************)
(* The data bitmap once the entry has its block; the new directory's own   *)
(* block is looked for in this one.                                        *)
(***************************************************************************)
(* Mutant: looks in the bitmap as it is on disk. *)
TakenForEntry_OnDisk(dir, bitmap) == bitmap

TakenForEntry(dir, bitmap) ==
  IF BlockNeeded(dir) THEN Occupied(bitmap, next_available_block(bitmap)) ELSE bitmap

LastBlock(dir) == dir.blocks[dir.block_nums - 1]
SlotForEntry(dir) == IF BlockNeeded(dir) THEN 0 ELSE dir.size % DirEntsPerBlock

NewInode(type, own_block) ==
  IF type = MFS_DIRECTORY THEN EmptyDir(own_block) ELSE [ZeroInode EXCEPT !.type = type]

(***************************************************************************)
(* An entry written to slot s of block -1 lands on these inodes.           *)
(***************************************************************************)
TailHits(s) ==
  LET start == TableSize - (DirEntsPerBlock - s) * EntSize
  IN  InodesOver(start, start + EntSize)

(***************************************************************************)
(* The last lseek of reply_Creat gets a size where it takes a whence and   *)
(* fails, so the entry "." of a new directory is written where the file    *)
(* position is: on the inodes after the new one, the first of which gets   *)
(* new_inum as its type, and from the end of the table on to the first     *)
(* entry of block 0.                                                       *)
(***************************************************************************)
StrayHits(new_inum) == Inums \cap (new_inum + 1 .. new_inum + InodesPerDirEnt)
SpillsOver(new_inum) == new_inum + InodesPerDirEnt >= MFS_INODE_TABLE_SIZE
SpilledEnts(new_inum) ==
  IF new_inum = MFS_INODE_TABLE_SIZE - 1 THEN {[inum |-> new_inum, name |-> Dot]} ELSE ScrapEnts

CreatNew(pinum, type, name) ==
  LET dir == inodes[pinum]
      new_inum == next_available_inode(inode_bitmap)
      entry_block == IF BlockNeeded(dir) THEN next_available_block(data_bitmap)
                     ELSE LastBlock(dir)
      bitmap == TakenForEntry(dir, data_bitmap)
      own_block == IF type = MFS_DIRECTORY THEN next_available_block(bitmap) ELSE -1
      slot == SlotForEntry(dir)
      entered == [data EXCEPT ![entry_block] =
                    [@ EXCEPT ![slot] = [inum |-> new_inum, name |-> name]]]
      tail == IF entry_block = -1 THEN TailHits(slot) ELSE {}
      stray == IF type = MFS_DIRECTORY THEN StrayHits(new_inum) ELSE {}
      spills == type = MFS_DIRECTORY /\ SpillsOver(new_inum)
  IN  /\ CreatOK(pinum)
      /\ Found(pinum, name) = -1
      /\ HasRoom(pinum)
      /\ inode_bitmap' = Occupied(inode_bitmap, new_inum)
      /\ data_bitmap' = Occupied(bitmap, own_block)
      /\ \E scrap \in [tail \cup stray -> ScrapInodes] :
           inodes' = [n \in Inums |->
             IF n \in stray THEN
               IF n = new_inum + 1 THEN [scrap[n] EXCEPT !.type = new_inum] ELSE scrap[n]
             ELSE IF n = new_inum THEN NewInode(type, own_block)
             ELSE IF n \in tail THEN scrap[n]
             ELSE IF n = pinum THEN WithEntry(dir, entry_block)
             ELSE inodes[n]]
      /\ \/ ~spills /\ data' = entered
         \/ /\ spills
            /\ \E ent \in SpilledEnts(new_inum) :
                 data' = [entered EXCEPT ![0] = [@ EXCEPT ![0] = ent]]
      /\ reply' = Reply("C", 0)
      /\ harm' = harm
           \cup Struck("no_block", entry_block = -1 \/ (type = MFS_DIRECTORY /\ own_block = -1))
           \cup Struck("stray_write", spills \/ \E n \in stray : inode_bitmap[n] = 1)

reply_Creat(pinum, type, name) ==
  \/ CreatRefused(pinum, name)
  \/ CreatExists(pinum, name)
  \/ CreatNew(pinum, type, name)

-----------------------------------------------------------------------------
(***************************************************************************)
(* Unlink.  A name that is not there is a success and changes nothing.     *)
(***************************************************************************)
UnlinkOK(pinum) == InumOK(pinum) /\ inodes[pinum].type = MFS_DIRECTORY

EntryFor(pinum, name) == EntAt(inodes[pinum], Found(pinum, name), data)
InodeFor(pinum, name) == inodes[EntryFor(pinum, name).inum]
Removable(inode) == inode.type # MFS_DIRECTORY \/ empty_Directory(inode, data)

(***************************************************************************)
(* A text that is found as an entry can have a number outside the table.   *)
(* load_inode takes what lies there for an inode, and what is stored there *)
(* in the end falls on an entry or two of the data region, or past it.     *)
(* (The byte that decomission_file clears lies outside of the bitmap too:  *)
(* it is one of the stack, and what that breaks is left out.)              *)
(***************************************************************************)
Loaded(n) == IF n \in Inums THEN {inodes[n]} ELSE ScrapInodes

PlaceAfter(p) == IF p[2] = DirEntsPerBlock - 1 THEN <<p[1] + 1, 0>> ELSE <<p[1], p[2] + 1>>
StraddledPlaces == UNION {{{p}, {p, PlaceAfter(p)}} : p \in Blocks \X Slots}
EntriesOver(n) ==
  {Nowhere} \cup IF n \in Inums THEN {} ELSE UNION {[places -> ScrapEnts] : places \in StraddledPlaces}

LoadedFor(pinum, name) == Loaded(EntryFor(pinum, name).inum)

UnlinkRefused(pinum, name) ==
  /\ UnlinkOK(pinum) =>
       /\ Found(pinum, name) # -1
       /\ \E unlinked \in LoadedFor(pinum, name) : ~Removable(unlinked)
  /\ Answer(Reply("U", -1))

UnlinkAbsent(pinum, name) ==
  /\ UnlinkOK(pinum)
  /\ Found(pinum, name) = -1
  /\ Answer(Reply("U", 0))

(***************************************************************************)
(* Whether the entry is none that Creat made: one of the first two of the  *)
(* directory (and any of another number, but there is none among the rest).*)
(***************************************************************************)
NotMade(pinum, name) ==
  Found(pinum, name) < 2 \/ EntryFor(pinum, name).inum \notin Inums

(***************************************************************************)
(* The slot of the entry is not used again: the directory's size stays.    *)
(***************************************************************************)
UnlinkRemove(pinum, name) ==
  LET i == Found(pinum, name)
      inum == EntryFor(pinum, name).inum
      removed == [data EXCEPT ![EntBlock(inodes[pinum], i)] =
                    [@ EXCEPT ![i % DirEntsPerBlock] = UnusedEnt]]
  IN  /\ UnlinkOK(pinum)
      /\ i # -1
      /\ \E unlinked \in LoadedFor(pinum, name) :
           /\ Removable(unlinked)
           /\ inodes' = [[inodes EXCEPT ![pinum].real_size = @ - 1]
                           EXCEPT ![inum] = decomission_inode(unlinked)]
           /\ data_bitmap' = decomission_blocks(unlinked, data_bitmap)
      /\ inode_bitmap' = [inode_bitmap EXCEPT ![inum] = 0]
      /\ \E ents \in EntriesOver(inum) : data' = WithEntries(removed, ents)
      /\ reply' = Reply("U", 0)
      /\ harm' = harm \cup Struck("default_entry", NotMade(pinum, name))

reply_Unlink(pinum, name) ==
  \/ UnlinkRefused(pinum, name)
  \/ UnlinkAbsent(pinum, name)
  \/ UnlinkRemove(pinum, name)

-----------------------------------------------------------------------------
(***************************************************************************)
(* The loop of main.                                                       *)
(***************************************************************************)
(***************************************************************************)
(* valid_inum lets inode number 4096 through, if the byte after its bitmap *)
(* happens to be 1; load_inode then takes the first entry of the root for  *)
(* an inode, the type of which is the inum of that entry.  A Write there   *)
(* is refused either way while that is 0; what Read, Creat and Unlink do   *)
(* there is not modelled.                                                  *)
(***************************************************************************)
WriteBehindTable == data[0][0].inum = MFS_DIRECTORY /\ Answer(Reply("W", -1))

Handle(m) ==
  \/ m.message_type = "I" /\ reply_Init
  \/ m.message_type = "L" /\ reply_Lookup(m.inum, m.name)
  \/ m.message_type = "S" /\ reply_Stat(m.inum)
  \/ m.message_type = "R" /\ reply_Read(m.inum, m.block)
  \/ /\ m.message_type = "W" /\ m.inum # MFS_INODE_TABLE_SIZE
     /\ reply_Write(m.inum, m.block, m.buffer)
  \/ m.message_type = "W" /\ m.inum = MFS_INODE_TABLE_SIZE /\ WriteBehindTable
  \/ m.message_type = "C" /\ reply_Creat(m.inum, m.type, m.name)
  \/ m.message_type = "U" /\ reply_Unlink(m.inum, m.name)

Next ==
  \/ reply_Init
  \/ \E pinum \in Inums, name \in Names : reply_Lookup(pinum, name)
  \/ \E inum \in Inums : reply_Stat(inum)
  \/ \E inum \in InumArgs, block \in BlockArgs :
       \/ reply_Read(inum, block)
       \/ \E text \in Texts : reply_Write(inum, block, text)
  \/ \E pinum \in InumArgs, name \in Names :
       \/ \E type \in TypeArgs : reply_Creat(pinum, type, name)
       \/ reply_Unlink(pinum, name)

Spec == Init /\ [][Next]_vars

-----------------------------------------------------------------------------
(***************************************************************************)
(* What the image means.                                                   *)
(***************************************************************************)
Sound == harm = {}

InUse == {n \in Inums : inode_bitmap[n] = 1}
Dirs == {n \in InUse : inodes[n].type = MFS_DIRECTORY}
Owners(b) == {p \in InUse \X BlockIndices : inodes[p[1]].blocks[p[2]] = b}

(***************************************************************************)
(* The entries of a directory that Creat made and Unlink has not removed,  *)
(* and the tree that they span.                                            *)
(***************************************************************************)
Live(d) == {i \in 2 .. inodes[d].size - 1 : EntAt(inodes[d], i, data).inum # -1}
Target(d, i) == EntAt(inodes[d], i, data).inum
Children(d) == {Target(d, i) : i \in Live(d)}

(***************************************************************************)
(* No block serves two pointers of inodes in use: a write to a file can    *)
(* never show in another file or in a directory.  Rests on every handler   *)
(* taking blocks from the bitmap and Unlink giving back only its own.      *)
(***************************************************************************)
NoSharedBlock == Sound => \A b \in Blocks : Cardinality(Owners(b)) <= 1

(***************************************************************************)
(* A data block is marked in the bitmap exactly when an inode in use       *)
(* points at it: none is lost, and none in use can be handed out again.    *)
(***************************************************************************)
BitmapExact == Sound => \A b \in Blocks : data_bitmap[b] = 1 <=> Owners(b) # {}

(***************************************************************************)
(* Every entry of a directory names an inode in use that is not the root,  *)
(* and no inode has two entries, so Unlink frees what nothing else names.  *)
(***************************************************************************)
LinksSound ==
  Sound => \A d, e \in Dirs : \A i \in Live(d), j \in Live(e) :
             /\ Target(d, i) \in InUse \ {0}
             /\ Target(d, i) = Target(e, j) => d = e /\ i = j

(***************************************************************************)
(* Every inode in use can be reached from the root: Unlink never cuts off  *)
(* a directory that still has something in it, and Creat links what it     *)
(* makes.                                                                  *)
(***************************************************************************)
Reachable ==
  Sound => \A S \in SUBSET InUse :
             0 \in S /\ (\A d \in S \cap Dirs : Children(d) \subseteq S) => S = InUse

(***************************************************************************)
(* The numbers kept in an inode agree with what is on the disk: real_size  *)
(* (which Stat reports for a directory) with the entries, block_nums with  *)
(* the pointers, and the entries of a directory lie in blocks it owns.     *)
(***************************************************************************)
Accounts ==
  Sound =>
    /\ 0 \in Dirs
    /\ \A n \in InUse :
         inodes[n].block_nums = Cardinality({j \in BlockIndices : inodes[n].blocks[j] # -1})
    /\ \A n \in InUse \ Dirs : inodes[n].size = DirEntsPerBlock * inodes[n].block_nums
    /\ \A d \in Dirs :
         /\ inodes[d].real_size = 2 + Cardinality(Live(d))
         /\ inodes[d].size <= DirEntsPerBlock * inodes[d].block_nums
         /\ \A i \in 0 .. inodes[d].size - 1 : EntBlock(inodes[d], i) # -1

(***************************************************************************)
(* No directory has two entries with one name, so that after Unlink of a   *)
(* name, Lookup does not find an older one behind it.                      *)
(***************************************************************************)
NamesUnique ==
  Sound => \A d \in Dirs : \A i, j \in Live(d) :
             EntAt(inodes[d], i, data).name = EntAt(inodes[d], j, data).name => i = j

(***************************************************************************)
(* What stands behind the inode table reads as a directory, so that a      *)
(* Write to inode number 4096 is refused though valid_inum lets it pass:   *)
(* the root keeps block 0, and its first entry is never handed out.        *)
(***************************************************************************)
DirectoryBehindTable == Sound => data[0][0].inum = MFS_DIRECTORY

(***************************************************************************)
(* What Read finds in a block of a file is what the last Write to that     *)
(* block of that file put there: no other request changes it but the       *)
(* Unlink that removes the file.                                           *)
(***************************************************************************)
Readable(n, j) == n \in InUse \ Dirs /\ BlockOK(n, j)

Kept(n, j) == Readable(n, j)' /\ data'[inodes'[n].blocks[j]] = data[inodes[n].blocks[j]]
Written(n, j) ==
  \E text \in Texts :
    /\ reply_Write(n, j, text)
    /\ Readable(n, j)' /\ data'[inodes'[n].blocks[j]] = TextBlock(text)
Removed(n) ==
  \E d \in Inums, name \in Names : UnlinkRemove(d, name) /\ EntryFor(d, name).inum = n

DurableBlocks ==
  [][\A n \in Inums, j \in BlockIndices :
       Readable(n, j) /\ harm' = {} => Kept(n, j) \/ Written(n, j) \/ Removed(n)]_vars

(***************************************************************************)
(* The client repeats a request until a reply comes (mfs.c:57-68), so the  *)
(* server may carry out a request whose reply was lost again.  The second  *)
(* time round it must answer success and leave the image as it is.         *)
(***************************************************************************)
RetryIsNoop ==
  [][harm' = {} =>
       \A n \in Inums :
         /\ \A name \in Names :
              /\ (\E type \in TypeArgs : CreatNew(n, type, name)) =>
                   CreatOK(n)' /\ Found(n, name)' # -1
              /\ UnlinkRemove(n, name) => UnlinkOK(n)' /\ Found(n, name)' = -1
         /\ \A block \in BlockArgs, text \in Texts :
              reply_Write(n, block, text) /\ reply'.success = 0 =>
                /\ WriteOK(n, block)'
                /\ inodes'[n].blocks[block] # -1
                /\ data'[inodes'[n].blocks[block]] = TextBlock(text)]_vars

=============================================================================
