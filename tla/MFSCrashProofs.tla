--------------------------- MODULE MFSCrashProofs ---------------------------
(***************************************************************************)
(* Proofs about MFSCrash: the writes of a handler, made one after the      *)
(* other, amount to the step of MFSServer that the handler is, whatever    *)
(* image the kills before it have left.                                    *)
(***************************************************************************)
EXTENDS MFSCrash, MFSServerProofs

-----------------------------------------------------------------------------
(***************************************************************************)
(* The helpers of the server as MFSCrash sees it are the helpers.          *)
(***************************************************************************)
LEMMA SameSearch ==
  ASSUME NEW inode, NEW i, NEW name, NEW blocks
  PROVE  /\ Server!EntBlock(inode, i) = EntBlock(inode, i)
         /\ Server!EntAt(inode, i, blocks) = EntAt(inode, i, blocks)
         /\ Server!search_Directory(inode, name, blocks) = search_Directory(inode, name, blocks)
         /\ Server!empty_Directory(inode, blocks) <=> empty_Directory(inode, blocks)
BY DEF EntBlock, EntAt, Hits, search_Directory, empty_Directory, Min, Server!EntBlock,
       Server!EntAt, Server!Hits, Server!search_Directory, Server!empty_Directory, Server!Min

LEMMA SameValid ==
  ASSUME NEW n, NEW inode, NEW j, NEW bitmap
  PROVE  /\ Server!valid_inum(n, bitmap) = valid_inum(n, bitmap)
         /\ Server!valid_block(inode, j, bitmap) = valid_block(inode, j, bitmap)
BY DEF valid_inum, valid_block, Server!valid_inum, Server!valid_block

LEMMA SameAllocation ==
  ASSUME NEW bitmap, NEW x, NEW inode, NEW j, NEW b
  PROVE  /\ Server!next_available_block(bitmap) = next_available_block(bitmap)
         /\ Server!next_available_inode(bitmap) = next_available_inode(bitmap)
         /\ Server!Occupied(bitmap, x) = Occupied(bitmap, x)
         /\ Server!decomission_blocks(inode, bitmap) = decomission_blocks(inode, bitmap)
         /\ Server!decomission_inode(inode) = decomission_inode(inode)
         /\ Server!push_inode_update(inode, j, b) = push_inode_update(inode, j, b)
<1>1. /\ Server!next_available_block(bitmap) = next_available_block(bitmap)
      /\ Server!next_available_inode(bitmap) = next_available_inode(bitmap)
  BY DEF next_available_block, next_available_inode, next_available, Blocks, Inums, Min,
         Server!next_available_block, Server!next_available_inode, Server!next_available,
         Server!Blocks, Server!Inums, Server!Min
<1>2. /\ Server!Occupied(bitmap, x) = Occupied(bitmap, x)
      /\ Server!decomission_blocks(inode, bitmap) = decomission_blocks(inode, bitmap)
  BY DEF Occupied, decomission_blocks, Blocks, BlockIndices, Server!Occupied,
         Server!decomission_blocks, Server!Blocks, Server!BlockIndices
<1>3. Server!decomission_inode(inode) = decomission_inode(inode)
  BY DEF decomission_inode, NoBlocks, BlockIndices, Server!decomission_inode, Server!NoBlocks,
         Server!BlockIndices
<1>4. Server!push_inode_update(inode, j, b) = push_inode_update(inode, j, b)
  BY DEF push_inode_update, MFS_DIRECTORY, Server!push_inode_update, Server!MFS_DIRECTORY
<1>. QED BY <1>1, <1>2, <1>3, <1>4

LEMMA SameContents ==
  ASSUME NEW text, NEW t, NEW b, NEW dir
  PROVE  /\ Server!TextBlock(text) = TextBlock(text)
         /\ Server!UnusedEnt = UnusedEnt
         /\ Server!NewInode(t, b) = NewInode(t, b)
         /\ Server!WithEntry(dir, b) = WithEntry(dir, b)
         /\ Server!BlockNeeded(dir) <=> BlockNeeded(dir)
         /\ Server!LastBlock(dir) = LastBlock(dir)
         /\ Server!SlotForEntry(dir) = SlotForEntry(dir)
         /\ \A bitmap : Server!TakenForEntry(dir, bitmap) = TakenForEntry(dir, bitmap)
<1>1. Server!BlockNeeded(dir) <=> BlockNeeded(dir)
  BY DEF BlockNeeded, Server!BlockNeeded
<1>2. /\ Server!TextBlock(text) = TextBlock(text)
      /\ Server!UnusedEnt = UnusedEnt
      /\ Server!NewInode(t, b) = NewInode(t, b)
  BY DEF TextBlock, Slots, UnusedEnt, Blank, NewInode, EmptyDir, ZeroInode, NoBlocks,
         BlockIndices, MFS_DIRECTORY, Server!TextBlock, Server!Slots, Server!UnusedEnt,
         Server!Blank, Server!NewInode, Server!EmptyDir, Server!ZeroInode, Server!NoBlocks,
         Server!BlockIndices, Server!MFS_DIRECTORY
<1>3. /\ Server!LastBlock(dir) = LastBlock(dir)
      /\ Server!SlotForEntry(dir) = SlotForEntry(dir)
  BY <1>1 DEF LastBlock, SlotForEntry, Server!LastBlock, Server!SlotForEntry
<1>4. Server!WithEntry(dir, b) = WithEntry(dir, b)
  BY DEF WithEntry, BlockNeeded, Server!WithEntry, Server!BlockNeeded
<1>5. \A bitmap : Server!TakenForEntry(dir, bitmap) = TakenForEntry(dir, bitmap)
  BY <1>1, SameAllocation DEF TakenForEntry, Server!TakenForEntry
<1>. QED BY <1>1, <1>2, <1>3, <1>4, <1>5

LEMMA SameReplies ==
  ASSUME NEW t, NEW success, NEW inode, NEW what, NEW n, NEW s
  PROVE  /\ Server!Reply(t, success) = Reply(t, success)
         /\ Server!StatsOf(inode) = StatsOf(inode)
         /\ \A condition \in BOOLEAN : Server!Struck(what, condition) = Struck(what, condition)
         /\ Server!StrayHits(n) = StrayHits(n)
         /\ Server!TailHits(s) = TailHits(s)
         /\ Server!SpillsOver(n) <=> SpillsOver(n)
         /\ Server!SpilledEnts(n) = SpilledEnts(n)
<1>1. /\ Server!Reply(t, success) = Reply(t, success)
      /\ Server!StatsOf(inode) = StatsOf(inode)
  BY DEF Reply, NoStats, NoBuffer, Slots, ZeroEnt, Blank, StatsOf, MFS_DIRECTORY, Server!Reply,
         Server!NoStats, Server!NoBuffer, Server!Slots, Server!ZeroEnt, Server!Blank,
         Server!StatsOf, Server!MFS_DIRECTORY
<1>2. \A condition \in BOOLEAN : Server!Struck(what, condition) = Struck(what, condition)
  BY DEF Struck, Server!Struck
<1>3. /\ Server!InodesPerDirEnt = InodesPerDirEnt /\ Server!TableSize = TableSize
      /\ Server!Inums = Inums
  BY DEF InodesPerDirEnt, TableSize, Inums, Server!InodesPerDirEnt, Server!TableSize,
         Server!Inums
<1>4. /\ Server!StrayHits(n) = StrayHits(n)
      /\ Server!SpillsOver(n) <=> SpillsOver(n)
  BY <1>3 DEF StrayHits, SpillsOver, Server!StrayHits, Server!SpillsOver
<1>5. Server!TailHits(s) = TailHits(s)
  BY <1>3 DEF TailHits, InodesOver, Server!TailHits, Server!InodesOver
<1>6. Server!SpilledEnts(n) = SpilledEnts(n)
  BY DEF SpilledEnts, Dot, Server!SpilledEnts, Server!Dot
<1>. QED BY <1>1, <1>2, <1>4, <1>5, <1>6

LEMMA SamePlaces ==
  ASSUME NEW n, NEW blocks, NEW ents
  PROVE  /\ Server!EntriesOver(n) = EntriesOver(n)
         /\ Server!WithEntries(blocks, ents) = WithEntries(blocks, ents)
<1>1. /\ Server!Nowhere = Nowhere /\ Server!Inums = Inums /\ Server!Blocks = Blocks
      /\ Server!Slots = Slots /\ Server!Pointers = Pointers
  BY DEF Nowhere, Inums, Blocks, Slots, Pointers, Server!Nowhere, Server!Inums, Server!Blocks,
         Server!Slots, Server!Pointers
<1>2. Server!WithEntries(blocks, ents) = WithEntries(blocks, ents)
  BY <1>1 DEF WithEntries, Server!WithEntries
<1>3. \A p : Server!PlaceAfter(p) = PlaceAfter(p)
  BY DEF PlaceAfter, Server!PlaceAfter
<1>4. Server!StraddledPlaces = StraddledPlaces
  BY <1>1, <1>3, Zenon DEF StraddledPlaces, Server!StraddledPlaces
<1>5. Server!EntriesOver(n) = EntriesOver(n)
  BY <1>1, <1>4, Zenon DEF EntriesOver, Server!EntriesOver
<1>. QED BY <1>2, <1>5

-----------------------------------------------------------------------------
(***************************************************************************)
(* What a handler looks at before it does anything, for any image.         *)
(***************************************************************************)
InumIn(img, n) == valid_inum(n, img.inode_bitmap) # -1
BlockIn(img, n, j) == valid_block(img.inodes[n], j, img.data_bitmap) # -1
FoundIn(img, d, name) == search_Directory(img.inodes[d], name, img.data)
WritableIn(img, n, j) ==
  InumIn(img, n) /\ img.inodes[n].type # MFS_DIRECTORY /\ j \in 0 .. MFS_INODE_BLOCKS_SIZE
HasInodeIn(img, d) ==
  /\ img.inodes[d].size # MFS_INODE_BLOCKS_SIZE * DirEntsPerBlock
  /\ next_available_inode(img.inode_bitmap) # -1
NoFileIn(img, d) == InumIn(img, d) /\ img.inodes[d].type # MFS_REGULAR_FILE
DirIn(img, d) == InumIn(img, d) /\ img.inodes[d].type = MFS_DIRECTORY
EntryIn(img, d, name) == EntAt(img.inodes[d], FoundIn(img, d, name), img.data)
LoadedIn(img, n) == IF n \in Inums THEN {img.inodes[n]} ELSE ScrapInodes
RemovableIn(img, inode) == inode.type # MFS_DIRECTORY \/ empty_Directory(inode, img.data)
NotMadeIn(img, d, name) ==
  FoundIn(img, d, name) < 2 \/ EntryIn(img, d, name).inum \notin Inums

LEMMA ImageLooks ==
  ASSUME NEW n, NEW j, NEW name
  PROVE  /\ InumOK(n) <=> InumIn(Snapshot, n)
         /\ BlockOK(n, j) <=> BlockIn(Snapshot, n, j)
         /\ Found(n, name) = FoundIn(Snapshot, n, name)
         /\ WriteOK(n, j) <=> WritableIn(Snapshot, n, j)
         /\ HasRoom(n) <=> HasInodeIn(Snapshot, n)
         /\ CreatOK(n) <=> NoFileIn(Snapshot, n)
         /\ UnlinkOK(n) <=> DirIn(Snapshot, n)
         /\ EntryFor(n, name) = EntryIn(Snapshot, n, name)
         /\ LoadedFor(n, name) = LoadedIn(Snapshot, EntryIn(Snapshot, n, name).inum)
         /\ \A inode : Removable(inode) <=> RemovableIn(Snapshot, inode)
         /\ NotMade(n, name) <=> NotMadeIn(Snapshot, n, name)
BY DEF Snapshot, InumOK, BlockOK, Found, WriteOK, HasRoom, CreatOK, IsFile, UnlinkOK, EntryFor,
       LoadedFor, Loaded, Removable, NotMade, InumIn, BlockIn, FoundIn, WritableIn, HasInodeIn,
       NoFileIn, DirIn, EntryIn, LoadedIn, RemovableIn, NotMadeIn

LEMMA SeenLooks ==
  ASSUME NEW n, NEW j, NEW name
  PROVE  /\ Server!InumOK(n) <=> InumIn(Seen, n)
         /\ Server!BlockOK(n, j) <=> BlockIn(Seen, n, j)
         /\ Server!Found(n, name) = FoundIn(Seen, n, name)
         /\ Server!WriteOK(n, j) <=> WritableIn(Seen, n, j)
         /\ Server!HasRoom(n) <=> HasInodeIn(Seen, n)
         /\ Server!CreatOK(n) <=> NoFileIn(Seen, n)
         /\ Server!UnlinkOK(n) <=> DirIn(Seen, n)
         /\ Server!EntryFor(n, name) = EntryIn(Seen, n, name)
         /\ Server!LoadedFor(n, name) = LoadedIn(Seen, EntryIn(Seen, n, name).inum)
         /\ \A inode : Server!Removable(inode) <=> RemovableIn(Seen, inode)
         /\ Server!NotMade(n, name) <=> NotMadeIn(Seen, n, name)
<1>1. /\ Server!InumOK(n) <=> InumIn(Seen, n)
      /\ Server!BlockOK(n, j) <=> BlockIn(Seen, n, j)
  BY SameValid DEF InumIn, BlockIn, Server!InumOK, Server!BlockOK
<1>2. Server!Found(n, name) = FoundIn(Seen, n, name)
  BY SameSearch DEF FoundIn, Server!Found
<1>3. /\ Server!WriteOK(n, j) <=> WritableIn(Seen, n, j)
      /\ Server!CreatOK(n) <=> NoFileIn(Seen, n)
      /\ Server!UnlinkOK(n) <=> DirIn(Seen, n)
  BY <1>1 DEF WritableIn, NoFileIn, DirIn, MFS_DIRECTORY, MFS_REGULAR_FILE, Server!WriteOK,
              Server!CreatOK, Server!IsFile, Server!UnlinkOK, Server!MFS_DIRECTORY,
              Server!MFS_REGULAR_FILE
<1>4. Server!HasRoom(n) <=> HasInodeIn(Seen, n)
  BY SameAllocation DEF HasInodeIn, Server!HasRoom
<1>5. Server!EntryFor(n, name) = EntryIn(Seen, n, name)
  BY <1>2, SameSearch DEF EntryIn, Server!EntryFor
<1>6. Server!Inums = Inums
  BY DEF Inums, Server!Inums
<1>7. Server!LoadedFor(n, name) = LoadedIn(Seen, EntryIn(Seen, n, name).inum)
  BY <1>5, <1>6 DEF LoadedIn, Server!LoadedFor, Server!Loaded
<1>8. \A inode : Server!Removable(inode) <=> RemovableIn(Seen, inode)
  BY SameSearch DEF RemovableIn, MFS_DIRECTORY, Server!Removable, Server!MFS_DIRECTORY
<1>9. Server!NotMade(n, name) <=> NotMadeIn(Seen, n, name)
  BY <1>2, <1>5, <1>6 DEF NotMadeIn, Server!NotMade
<1>. QED BY <1>1, <1>2, <1>3, <1>4, <1>5, <1>7, <1>8, <1>9

-----------------------------------------------------------------------------
(***************************************************************************)
(* What a request that writes makes of an image.                           *)
(***************************************************************************)
FreeInum(img) == next_available_inode(img.inode_bitmap)
FreeBlock(img) == next_available_block(img.data_bitmap)
EntryBlockIn(img, d) ==
  IF BlockNeeded(img.inodes[d]) THEN FreeBlock(img) ELSE LastBlock(img.inodes[d])
OwnBlockIn(img, d, t) ==
  IF t = MFS_DIRECTORY THEN next_available_block(TakenForEntry(img.inodes[d], img.data_bitmap))
  ELSE -1

Overwritten(img, p, text) ==
  [inode_bitmap |-> img.inode_bitmap,
   data_bitmap  |-> img.data_bitmap,
   inodes       |-> img.inodes,
   data         |-> [img.data EXCEPT ![p] = TextBlock(text)],
   harm         |-> img.harm]

Extended(img, n, j, text) ==
  [inode_bitmap |-> img.inode_bitmap,
   data_bitmap  |-> Occupied(img.data_bitmap, FreeBlock(img)),
   inodes       |-> [img.inodes EXCEPT ![n] = push_inode_update(img.inodes[n], j, FreeBlock(img))],
   data         |-> [img.data EXCEPT ![FreeBlock(img)] = TextBlock(text)],
   harm         |-> img.harm]

EntryRemoved(img, d, name) ==
  LET i == FoundIn(img, d, name)
  IN  [img.data EXCEPT ![EntBlock(img.inodes[d], i)] =
         [@ EXCEPT ![i % DirEntsPerBlock] = UnusedEnt]]

WithoutEntry(img, d, name, unlinked, ents) ==
  LET n == EntryIn(img, d, name).inum
  IN  [inode_bitmap |-> [img.inode_bitmap EXCEPT ![n] = 0],
       data_bitmap  |-> decomission_blocks(unlinked, img.data_bitmap),
       inodes       |-> [[img.inodes EXCEPT ![d] = [img.inodes[d] EXCEPT !.real_size = @ - 1]]
                           EXCEPT ![n] = decomission_inode(unlinked)],
       data         |-> WithEntries(EntryRemoved(img, d, name), ents),
       harm         |-> img.harm \cup Struck("default_entry", NotMadeIn(img, d, name))]

CreatedInodes(img, d, t, scrap) ==
  LET new == FreeInum(img)
  IN  [n \in Inums |->
         IF t = MFS_DIRECTORY /\ n \in StrayHits(new) THEN
           IF n = new + 1 THEN [scrap[n] EXCEPT !.type = new] ELSE scrap[n]
         ELSE IF n = new THEN NewInode(t, OwnBlockIn(img, d, t))
         ELSE IF EntryBlockIn(img, d) = -1 /\ n \in TailHits(SlotForEntry(img.inodes[d])) THEN scrap[n]
         ELSE IF n = d THEN WithEntry(img.inodes[d], EntryBlockIn(img, d))
         ELSE img.inodes[n]]

CreatedData(img, d, t, name, ent) ==
  LET entered == [img.data EXCEPT ![EntryBlockIn(img, d)] =
                    [@ EXCEPT ![SlotForEntry(img.inodes[d])] =
                       [inum |-> FreeInum(img), name |-> name]]]
  IN  IF t = MFS_DIRECTORY /\ SpillsOver(FreeInum(img))
      THEN [entered EXCEPT ![0] = [@ EXCEPT ![0] = ent]]
      ELSE entered

WithFile(img, d, t, name, scrap, ent) ==
  LET new == FreeInum(img)
      own == OwnBlockIn(img, d, t)
  IN  [inode_bitmap |-> Occupied(img.inode_bitmap, new),
       data_bitmap  |-> Occupied(TakenForEntry(img.inodes[d], img.data_bitmap), own),
       inodes       |-> CreatedInodes(img, d, t, scrap),
       data         |-> CreatedData(img, d, t, name, ent),
       harm         |-> (img.harm
                         \cup Struck("no_block", EntryBlockIn(img, d) = -1
                                                 \/ (t = MFS_DIRECTORY /\ own = -1)))
                         \cup Struck("stray_write",
                                     t = MFS_DIRECTORY
                                     /\ (SpillsOver(new)
                                         \/ \E n \in StrayHits(new) : img.inode_bitmap[n] = 1))]

(***************************************************************************)
(* The images that request m may end in when it finds image img.           *)
(***************************************************************************)
Overwrites(img, m, final) ==
  /\ m.message_type = "W"
  /\ WritableIn(img, m.inum, m.block)
  /\ img.inodes[m.inum].blocks[m.block] # -1
  /\ final = Overwritten(img, img.inodes[m.inum].blocks[m.block], m.buffer)

Extends(img, m, final) ==
  /\ m.message_type = "W"
  /\ WritableIn(img, m.inum, m.block)
  /\ img.inodes[m.inum].blocks[m.block] = -1
  /\ FreeBlock(img) # -1
  /\ final = Extended(img, m.inum, m.block, m.buffer)

Unlinks(img, m, unlinked, ents, final) ==
  /\ m.message_type = "U"
  /\ DirIn(img, m.inum)
  /\ FoundIn(img, m.inum, m.name) # -1
  /\ unlinked \in LoadedIn(img, EntryIn(img, m.inum, m.name).inum)
  /\ RemovableIn(img, unlinked)
  /\ ents \in EntriesOver(EntryIn(img, m.inum, m.name).inum)
  /\ final = WithoutEntry(img, m.inum, m.name, unlinked, ents)

Creates(img, m, scrap, ent, final) ==
  /\ m.message_type = "C"
  /\ NoFileIn(img, m.inum)
  /\ FoundIn(img, m.inum, m.name) = -1
  /\ HasInodeIn(img, m.inum)
  /\ SpillsOver(FreeInum(img)) => ent \in SpilledEnts(FreeInum(img))
  /\ final = WithFile(img, m.inum, m.type, m.name, scrap, ent)

Outcome(img, m, final) ==
  \/ Overwrites(img, m, final)
  \/ Extends(img, m, final)
  \/ \E unlinked, ents : Unlinks(img, m, unlinked, ents, final)
  \/ \E scrap \in [Inums -> ScrapInodes] : \E ent : Creates(img, m, scrap, ent, final)

(***************************************************************************)
(* The writes yet to be made bring the image to final: the last of those   *)
(* that touch a place stores there what final has, and what none of them   *)
(* touches is there already.                                               *)
(***************************************************************************)
Ends(stored, n, now, place, content) ==
  \E i \in 0 .. n :
    /\ \A j \in i + 1 .. n : place \notin DOMAIN stored[j]
    /\ i = 0 => now = content
    /\ i # 0 => place \in DOMAIN stored[i] /\ stored[i][place] = content

InodeBits(ws) == [i \in 1 .. Len(ws) |-> ws[i].inode_bitmap]
DataBits(ws) == [i \in 1 .. Len(ws) |-> ws[i].data_bitmap]
InodeWrites(ws) == [i \in 1 .. Len(ws) |-> ws[i].inodes]
DataWrites(ws) == [i \in 1 .. Len(ws) |-> ws[i].data]

Coming(ws, img, final) ==
  /\ \A n \in Inums : Ends(InodeBits(ws), Len(ws), img.inode_bitmap[n], n, final.inode_bitmap[n])
  /\ \A b \in Blocks : Ends(DataBits(ws), Len(ws), img.data_bitmap[b], b, final.data_bitmap[b])
  /\ \A n \in Inums : Ends(InodeWrites(ws), Len(ws), img.inodes[n], n, final.inodes[n])
  /\ \A b \in Pointers, s \in Slots :
       Ends(DataWrites(ws), Len(ws), img.data[b][s], <<b, s>>, final.data[b][s])

Shaped(img) ==
  /\ img.inode_bitmap = [n \in Inums |-> img.inode_bitmap[n]]
  /\ img.data_bitmap = [b \in Blocks |-> img.data_bitmap[b]]
  /\ img.inodes = [n \in Inums |-> img.inodes[n]]
  /\ img.data = [b \in Pointers |-> [s \in Slots |-> img.data[b][s]]]

WritingInv ==
  server = "writing" =>
    /\ call \in Calls
    /\ \E S : writes \in Seq(S)
    /\ \E final : /\ Outcome(before, call, final)
                  /\ Shaped(final)
                  /\ Coming(writes, Snapshot, final)
                  /\ harm = final.harm

CrashInv ==
  /\ call = Idle \/ call \in Calls
  /\ Shaped(Snapshot)
  /\ server = "writing" => Shaped(before)
  /\ WritingInv

-----------------------------------------------------------------------------
(***************************************************************************)
(* One write is made, and the others bring the image to the same end.      *)
(***************************************************************************)
LEMMA EndsOn ==
  ASSUME NEW stored, NEW rest, NEW n \in Nat, n # 0, NEW now, NEW after, NEW place, NEW content,
         \A i \in 1 .. n - 1 : rest[i] = stored[i + 1],
         place \in DOMAIN stored[1] => after = stored[1][place],
         place \notin DOMAIN stored[1] => after = now,
         Ends(stored, n, now, place, content)
  PROVE  Ends(rest, n - 1, after, place, content)
<1>1. PICK i \in 0 .. n :
        /\ \A j \in i + 1 .. n : place \notin DOMAIN stored[j]
        /\ i = 0 => now = content
        /\ i # 0 => place \in DOMAIN stored[i] /\ stored[i][place] = content
  BY DEF Ends
<1>2. CASE i = 0
  <2>1. \A j \in 1 .. n - 1 : place \notin DOMAIN rest[j]
    BY <1>1, <1>2
  <2>2. after = content
    BY <1>1, <1>2
  <2>. QED BY <2>1, <2>2 DEF Ends
<1>3. CASE i = 1
  <2>1. \A j \in 1 .. n - 1 : place \notin DOMAIN rest[j]
    BY <1>1, <1>3
  <2>2. after = content
    BY <1>1, <1>3
  <2>. QED BY <2>1, <2>2 DEF Ends
<1>4. CASE i > 1
  <2>1. i - 1 \in 1 .. n - 1 /\ rest[i - 1] = stored[i]
    BY <1>1, <1>4
  <2>2. \A j \in i .. n - 1 : place \notin DOMAIN rest[j]
    BY <1>1, <1>4
  <2>. QED BY <1>1, <1>4, <2>1, <2>2 DEF Ends
<1>. QED BY <1>1, <1>2, <1>3, <1>4

LEMMA RestOfWrites ==
  ASSUME NEW S, NEW ws \in Seq(S), ws # << >>
  PROVE  /\ Len(ws) \in Nat \ {0}
         /\ Len(Tail(ws)) = Len(ws) - 1
         /\ \A i \in 1 .. Len(ws) - 1 : Tail(ws)[i] = ws[i + 1]
         /\ Head(ws) = ws[1]
         /\ Tail(ws) \in Seq(S)
OBVIOUS

-----------------------------------------------------------------------------
(***************************************************************************)
(* A write leaves the image the shape it has.                              *)
(***************************************************************************)
LEMMA MadePlaces ==
  ASSUME NEW store, Made(store), Shaped(Snapshot)
  PROVE  /\ Shaped(Snapshot)'
         /\ \A n \in Inums :
              inode_bitmap'[n] = IF n \in DOMAIN store.inode_bitmap THEN store.inode_bitmap[n]
                                 ELSE inode_bitmap[n]
         /\ \A b \in Blocks :
              data_bitmap'[b] = IF b \in DOMAIN store.data_bitmap THEN store.data_bitmap[b]
                                ELSE data_bitmap[b]
         /\ \A n \in Inums :
              inodes'[n] = IF n \in DOMAIN store.inodes THEN store.inodes[n] ELSE inodes[n]
         /\ \A b \in Pointers, s \in Slots :
              data'[b][s] = IF <<b, s>> \in DOMAIN store.data THEN store.data[<<b, s>>]
                            ELSE data[b][s]
<1>1. /\ inode_bitmap = [n \in Inums |-> inode_bitmap[n]]
      /\ data_bitmap = [b \in Blocks |-> data_bitmap[b]]
      /\ inodes = [n \in Inums |-> inodes[n]]
  BY DEF Shaped, Snapshot
<1>2. DOMAIN inode_bitmap = Inums /\ DOMAIN data_bitmap = Blocks /\ DOMAIN inodes = Inums
  BY <1>1
<1>3. inode_bitmap' = [n \in Inums |-> IF n \in DOMAIN store.inode_bitmap
                                       THEN store.inode_bitmap[n] ELSE inode_bitmap[n]]
  BY <1>2 DEF Made, Overlay
<1>4. data_bitmap' = [b \in Blocks |-> IF b \in DOMAIN store.data_bitmap
                                       THEN store.data_bitmap[b] ELSE data_bitmap[b]]
  BY <1>2 DEF Made, Overlay
<1>5. inodes' = [n \in Inums |-> IF n \in DOMAIN store.inodes THEN store.inodes[n] ELSE inodes[n]]
  BY <1>2 DEF Made, Overlay
<1>6. data' = [b \in Pointers |-> [s \in Slots |->
                 IF <<b, s>> \in DOMAIN store.data THEN store.data[<<b, s>>] ELSE data[b][s]]]
  BY DEF Made, WithEntries
<1>7. data' = [b \in Pointers |-> [s \in Slots |-> data'[b][s]]]
  BY <1>6
<1>8. Shaped(Snapshot)'
  BY <1>3, <1>4, <1>5, <1>7 DEF Shaped, Snapshot
<1>. QED BY <1>3, <1>4, <1>5, <1>6, <1>8

LEMMA ComingOn ==
  ASSUME NEW S, writes \in Seq(S), writes # << >>, Made(Head(writes)), Shaped(Snapshot),
         NEW final, Coming(writes, Snapshot, final)
  PROVE  Coming(Tail(writes), Snapshot', final)
<1>. DEFINE n == Len(writes)
            ws == Tail(writes)
<1>1. /\ n \in Nat /\ n # 0
      /\ Len(ws) = n - 1
      /\ \A i \in 1 .. n - 1 : ws[i] = writes[i + 1]
      /\ Head(writes) = writes[1]
  BY RestOfWrites
<1>2. Made(writes[1])
  BY <1>1
<1>3. /\ \A x \in Inums :
           inode_bitmap'[x] = IF x \in DOMAIN writes[1].inode_bitmap THEN writes[1].inode_bitmap[x]
                              ELSE inode_bitmap[x]
      /\ \A x \in Blocks :
           data_bitmap'[x] = IF x \in DOMAIN writes[1].data_bitmap THEN writes[1].data_bitmap[x]
                             ELSE data_bitmap[x]
      /\ \A x \in Inums :
           inodes'[x] = IF x \in DOMAIN writes[1].inodes THEN writes[1].inodes[x] ELSE inodes[x]
      /\ \A b \in Pointers, s \in Slots :
           data'[b][s] = IF <<b, s>> \in DOMAIN writes[1].data THEN writes[1].data[<<b, s>>]
                         ELSE data[b][s]
  BY <1>2, MadePlaces
<1>4. ASSUME NEW x \in Inums
      PROVE  Ends(InodeBits(ws), n - 1, inode_bitmap'[x], x, final.inode_bitmap[x])
  <2>1. \A i \in 1 .. n - 1 : InodeBits(ws)[i] = InodeBits(writes)[i + 1]
    BY <1>1 DEF InodeBits
  <2>2. InodeBits(writes)[1] = writes[1].inode_bitmap
    BY <1>1 DEF InodeBits
  <2>3. Ends(InodeBits(writes), n, inode_bitmap[x], x, final.inode_bitmap[x])
    BY DEF Coming, Snapshot
  <2>. HIDE DEF n, ws
  <2>. QED BY <1>1, <1>3, <2>1, <2>2, <2>3, EndsOn
<1>5. ASSUME NEW x \in Blocks
      PROVE  Ends(DataBits(ws), n - 1, data_bitmap'[x], x, final.data_bitmap[x])
  <2>1. \A i \in 1 .. n - 1 : DataBits(ws)[i] = DataBits(writes)[i + 1]
    BY <1>1 DEF DataBits
  <2>2. DataBits(writes)[1] = writes[1].data_bitmap
    BY <1>1 DEF DataBits
  <2>3. Ends(DataBits(writes), n, data_bitmap[x], x, final.data_bitmap[x])
    BY DEF Coming, Snapshot
  <2>. HIDE DEF n, ws
  <2>. QED BY <1>1, <1>3, <2>1, <2>2, <2>3, EndsOn
<1>6. ASSUME NEW x \in Inums
      PROVE  Ends(InodeWrites(ws), n - 1, inodes'[x], x, final.inodes[x])
  <2>1. \A i \in 1 .. n - 1 : InodeWrites(ws)[i] = InodeWrites(writes)[i + 1]
    BY <1>1 DEF InodeWrites
  <2>2. InodeWrites(writes)[1] = writes[1].inodes
    BY <1>1 DEF InodeWrites
  <2>3. Ends(InodeWrites(writes), n, inodes[x], x, final.inodes[x])
    BY DEF Coming, Snapshot
  <2>. HIDE DEF n, ws
  <2>. QED BY <1>1, <1>3, <2>1, <2>2, <2>3, EndsOn
<1>7. ASSUME NEW b \in Pointers, NEW s \in Slots
      PROVE  Ends(DataWrites(ws), n - 1, data'[b][s], <<b, s>>, final.data[b][s])
  <2>1. \A i \in 1 .. n - 1 : DataWrites(ws)[i] = DataWrites(writes)[i + 1]
    BY <1>1 DEF DataWrites
  <2>2. DataWrites(writes)[1] = writes[1].data
    BY <1>1 DEF DataWrites
  <2>3. Ends(DataWrites(writes), n, data[b][s], <<b, s>>, final.data[b][s])
    BY DEF Coming, Snapshot
  <2>. HIDE DEF n, ws
  <2>. QED BY <1>1, <1>3, <2>1, <2>2, <2>3, EndsOn
<1>. QED BY <1>1, <1>4, <1>5, <1>6, <1>7 DEF Coming, Snapshot

(***************************************************************************)
(* When no write is left, the image is the one they lead to.               *)
(***************************************************************************)
LEMMA NothingComing ==
  ASSUME NEW final, Shaped(Snapshot), Shaped(final), Coming(<< >>, Snapshot, final)
  PROVE  /\ inode_bitmap = final.inode_bitmap
         /\ data_bitmap = final.data_bitmap
         /\ inodes = final.inodes
         /\ data = final.data
<1>1. ASSUME NEW stored, NEW now, NEW place, NEW content, Ends(stored, 0, now, place, content)
      PROVE  now = content
  BY <1>1 DEF Ends
<1>2. Len(<< >>) = 0
  OBVIOUS
<1>3. /\ Snapshot.inode_bitmap = inode_bitmap /\ Snapshot.data_bitmap = data_bitmap
      /\ Snapshot.inodes = inodes /\ Snapshot.data = data
  BY DEF Snapshot
<1>4. /\ \A n \in Inums : inode_bitmap[n] = final.inode_bitmap[n]
      /\ \A n \in Blocks : data_bitmap[n] = final.data_bitmap[n]
      /\ \A n \in Inums : inodes[n] = final.inodes[n]
  BY <1>1, <1>2, <1>3 DEF Coming
<1>5. ASSUME NEW b \in Pointers, NEW s \in Slots
      PROVE  data[b][s] = final.data[b][s]
  <2>1. Ends(DataWrites(<< >>), Len(<< >>), Snapshot.data[b][s], <<b, s>>, final.data[b][s])
    BY Zenon DEF Coming
  <2>2. Ends(DataWrites(<< >>), 0, data[b][s], <<b, s>>, final.data[b][s])
    BY <1>2, <1>3, <2>1
  <2>. QED BY <1>1, <2>2, Zenon
<1>6. \A b \in Pointers, s \in Slots : data[b][s] = final.data[b][s]
  BY <1>5, Zenon
<1>7. inode_bitmap = final.inode_bitmap
  BY <1>4 DEF Shaped, Snapshot
<1>8. data_bitmap = final.data_bitmap
  BY <1>4 DEF Shaped, Snapshot
<1>9. inodes = final.inodes
  BY <1>4 DEF Shaped, Snapshot
<1>10. /\ data = [b \in Pointers |-> [s \in Slots |-> data[b][s]]]
       /\ final.data = [b \in Pointers |-> [s \in Slots |-> final.data[b][s]]]
  BY DEF Shaped, Snapshot
<1>11. \A b \in Pointers : [s \in Slots |-> data[b][s]] = [s \in Slots |-> final.data[b][s]]
  BY <1>6
<1>12. data = final.data
  BY <1>10, <1>11
<1>. QED BY <1>7, <1>8, <1>9, <1>12

-----------------------------------------------------------------------------
(***************************************************************************)
(* Where the last of some writes ends.                                     *)
(***************************************************************************)
LEMMA EndsNow ==
  ASSUME NEW stored, NEW now, NEW place
  PROVE  Ends(stored, 0, now, place, now)
BY DEF Ends

LEMMA EndsLater ==
  ASSUME NEW stored, NEW n \in Nat, NEW now, NEW place, NEW sofar, NEW content,
         Ends(stored, n, now, place, sofar),
         content = IF place \in DOMAIN stored[n + 1] THEN stored[n + 1][place] ELSE sofar
  PROVE  Ends(stored, n + 1, now, place, content)
<1>1. CASE place \in DOMAIN stored[n + 1]
  <2>1. \A j \in n + 2 .. n + 1 : place \notin DOMAIN stored[j]
    OBVIOUS
  <2>. QED BY <1>1, <2>1 DEF Ends
<1>2. CASE place \notin DOMAIN stored[n + 1]
  <2>1. PICK i \in 0 .. n : /\ \A j \in i + 1 .. n : place \notin DOMAIN stored[j]
                            /\ i = 0 => now = sofar
                            /\ i # 0 => place \in DOMAIN stored[i] /\ stored[i][place] = sofar
    BY DEF Ends
  <2>2. \A j \in i + 1 .. n + 1 : place \notin DOMAIN stored[j]
    BY <1>2, <2>1
  <2>3. content = sofar
    BY <1>2
  <2>. QED BY <2>1, <2>2, <2>3 DEF Ends
<1>. QED BY <1>1, <1>2

After(stored, k, place, sofar) ==
  IF place \in DOMAIN stored[k] THEN stored[k][place] ELSE sofar

LEMMA NowherePlaces == DOMAIN Nowhere = {}
BY DEF Nowhere

LEMMA Untouched ==
  ASSUME NEW stored, NEW n \in Nat, \A i \in 1 .. n : stored[i] = Nowhere, NEW now, NEW place
  PROVE  Ends(stored, n, now, place, now)
<1>1. \A i \in 1 .. n : place \notin DOMAIN stored[i]
  BY NowherePlaces
<1>. QED BY <1>1 DEF Ends

LEMMA TouchedOnce ==
  ASSUME NEW stored, NEW n \in Nat, NEW now, NEW place, NEW content,
         \E k \in 1 .. n : /\ \A i \in 1 .. n : i # k => stored[i] = Nowhere
                           /\ After(stored, k, place, now) = content
  PROVE  Ends(stored, n, now, place, content)
<1>1. PICK k \in 1 .. n : /\ \A i \in 1 .. n : i # k => stored[i] = Nowhere
                          /\ After(stored, k, place, now) = content
  OBVIOUS
<1>2. \A i \in 1 .. n : i # k => place \notin DOMAIN stored[i]
  BY <1>1, NowherePlaces
<1>3. CASE place \in DOMAIN stored[k]
  <2>1. \A j \in k + 1 .. n : place \notin DOMAIN stored[j]
    BY <1>2
  <2>2. content = stored[k][place]
    BY <1>1, <1>3 DEF After
  <2>. QED BY <1>3, <2>1, <2>2 DEF Ends
<1>4. CASE place \notin DOMAIN stored[k]
  <2>1. content = now
    BY <1>1, <1>4 DEF After
  <2>. QED BY <1>2, <1>4, <2>1 DEF Ends
<1>. QED BY <1>3, <1>4

LEMMA EndsOfFive ==
  ASSUME NEW stored, NEW now, NEW place
  PROVE  /\ Ends(stored, 5, now, place,
                 After(stored, 5, place, After(stored, 4, place, After(stored, 3, place,
                   After(stored, 2, place, After(stored, 1, place, now))))))
         /\ Ends(stored, 6, now, place,
                 After(stored, 6, place, After(stored, 5, place, After(stored, 4, place,
                   After(stored, 3, place, After(stored, 2, place,
                     After(stored, 1, place, now)))))))
<1>1. ASSUME NEW n \in Nat, NEW sofar, Ends(stored, n, now, place, sofar)
      PROVE  Ends(stored, n + 1, now, place, After(stored, n + 1, place, sofar))
  BY <1>1, EndsLater DEF After
<1>. DEFINE a1 == After(stored, 1, place, now)
            a2 == After(stored, 2, place, a1)
            a3 == After(stored, 3, place, a2)
            a4 == After(stored, 4, place, a3)
            a5 == After(stored, 5, place, a4)
            a6 == After(stored, 6, place, a5)
<1>. HIDE DEF a1, a2, a3, a4, a5, a6
<1>2. Ends(stored, 1, now, place, a1)
  BY <1>1, EndsNow, 0 + 1 = 1 DEF a1
<1>3. Ends(stored, 2, now, place, a2)
  BY <1>1, <1>2, 1 + 1 = 2 DEF a2
<1>4. Ends(stored, 3, now, place, a3)
  BY <1>1, <1>3, 2 + 1 = 3 DEF a3
<1>5. Ends(stored, 4, now, place, a4)
  BY <1>1, <1>4, 3 + 1 = 4 DEF a4
<1>6. Ends(stored, 5, now, place, a5)
  BY <1>1, <1>5, 4 + 1 = 5 DEF a5
<1>7. Ends(stored, 6, now, place, a6)
  BY <1>1, <1>6, 5 + 1 = 6 DEF a6
<1>. QED BY <1>6, <1>7 DEF a1, a2, a3, a4, a5, a6

(***************************************************************************)
(* The tuples of writes.                                                   *)
(***************************************************************************)
Three(ws, a, b, c) == Len(ws) = 3 /\ ws[1] = a /\ ws[2] = b /\ ws[3] = c
Five(ws, a, b, c, d, e) ==
  /\ Len(ws) = 5
  /\ ws[1] = a /\ ws[2] = b /\ ws[3] = c /\ ws[4] = d /\ ws[5] = e
Six(ws, a, b, c, d, e, f) ==
  /\ Len(ws) = 6
  /\ ws[1] = a /\ ws[2] = b /\ ws[3] = c /\ ws[4] = d /\ ws[5] = e /\ ws[6] = f

LEMMA OneWrite ==
  ASSUME NEW a, NEW ws, ws = << a >>
  PROVE  /\ Len(ws) = 1 /\ ws[1] = a
         /\ \E S : ws \in Seq(S)
<1>1. ws \in Seq({a})
  OBVIOUS
<1>. QED BY <1>1

LEMMA ThreeWrites ==
  ASSUME NEW a, NEW b, NEW c
  PROVE  /\ Three(<< a, b, c >>, a, b, c)
         /\ \E S : << a, b, c >> \in Seq(S)
<1>1. << a, b, c >> \in Seq({a, b, c})
  OBVIOUS
<1>2. Three(<< a, b, c >>, a, b, c)
  BY DEF Three
<1>. QED BY <1>1, <1>2

LEMMA FiveWrites ==
  ASSUME NEW a, NEW b, NEW c, NEW d, NEW e
  PROVE  /\ Five(<< a, b, c, d, e >>, a, b, c, d, e)
         /\ \E S : << a, b, c, d, e >> \in Seq(S)
<1>1. << a, b, c, d, e >> \in Seq({a, b, c, d, e})
  OBVIOUS
<1>2. Five(<< a, b, c, d, e >>, a, b, c, d, e)
  BY DEF Five
<1>. QED BY <1>1, <1>2

LEMMA SixWrites ==
  ASSUME NEW a, NEW b, NEW c, NEW d, NEW e, NEW f, NEW ws, ws = << a, b, c, d, e >> \o << f >>
  PROVE  /\ Six(ws, a, b, c, d, e, f)
         /\ \E S : ws \in Seq(S)
<1>1. /\ Len(ws) = 6
      /\ ws[1] = a /\ ws[2] = b /\ ws[3] = c /\ ws[4] = d /\ ws[5] = e /\ ws[6] = f
  OBVIOUS
<1>2. PICK T : T = {a, b, c, d, e, f}
  OBVIOUS
<1>3. PICK five, one : five = << a, b, c, d, e >> /\ one = << f >>
  OBVIOUS
<1>4. five \in Seq(T) /\ one \in Seq(T)
  BY <1>2, <1>3
<1>5. five \o one \in Seq(T)
  BY <1>4
<1>6. ws \in Seq(T)
  BY <1>3, <1>5
<1>. QED BY <1>1, <1>6 DEF Six

LEMMA WriteFields ==
  ASSUME NEW ws, NEW i \in 1 .. Len(ws)
  PROVE  /\ InodeBits(ws)[i] = ws[i].inode_bitmap
         /\ DataBits(ws)[i] = ws[i].data_bitmap
         /\ InodeWrites(ws)[i] = ws[i].inodes
         /\ DataWrites(ws)[i] = ws[i].data
BY DEF InodeBits, DataBits, InodeWrites, DataWrites

LEMMA FieldsOfThree ==
  ASSUME NEW ws, Len(ws) = 3
  PROVE  /\ InodeBits(ws)[1] = ws[1].inode_bitmap /\ InodeBits(ws)[2] = ws[2].inode_bitmap
         /\ InodeBits(ws)[3] = ws[3].inode_bitmap
         /\ DataBits(ws)[1] = ws[1].data_bitmap /\ DataBits(ws)[2] = ws[2].data_bitmap
         /\ DataBits(ws)[3] = ws[3].data_bitmap
         /\ InodeWrites(ws)[1] = ws[1].inodes /\ InodeWrites(ws)[2] = ws[2].inodes
         /\ InodeWrites(ws)[3] = ws[3].inodes
         /\ DataWrites(ws)[1] = ws[1].data /\ DataWrites(ws)[2] = ws[2].data
         /\ DataWrites(ws)[3] = ws[3].data
<1>1. 1 \in 1 .. Len(ws) /\ 2 \in 1 .. Len(ws) /\ 3 \in 1 .. Len(ws)
  OBVIOUS
<1>. QED BY <1>1, WriteFields

LEMMA FieldsOfFive ==
  ASSUME NEW ws, Len(ws) \in {5, 6}
  PROVE  /\ InodeBits(ws)[1] = ws[1].inode_bitmap /\ InodeBits(ws)[2] = ws[2].inode_bitmap
         /\ InodeBits(ws)[3] = ws[3].inode_bitmap /\ InodeBits(ws)[4] = ws[4].inode_bitmap
         /\ InodeBits(ws)[5] = ws[5].inode_bitmap
         /\ DataBits(ws)[1] = ws[1].data_bitmap /\ DataBits(ws)[2] = ws[2].data_bitmap
         /\ DataBits(ws)[3] = ws[3].data_bitmap /\ DataBits(ws)[4] = ws[4].data_bitmap
         /\ DataBits(ws)[5] = ws[5].data_bitmap
         /\ InodeWrites(ws)[1] = ws[1].inodes /\ InodeWrites(ws)[2] = ws[2].inodes
         /\ InodeWrites(ws)[3] = ws[3].inodes /\ InodeWrites(ws)[4] = ws[4].inodes
         /\ InodeWrites(ws)[5] = ws[5].inodes
         /\ DataWrites(ws)[1] = ws[1].data /\ DataWrites(ws)[2] = ws[2].data
         /\ DataWrites(ws)[3] = ws[3].data /\ DataWrites(ws)[4] = ws[4].data
         /\ DataWrites(ws)[5] = ws[5].data
<1>1. /\ 1 \in 1 .. Len(ws) /\ 2 \in 1 .. Len(ws) /\ 3 \in 1 .. Len(ws)
      /\ 4 \in 1 .. Len(ws) /\ 5 \in 1 .. Len(ws)
  OBVIOUS
<1>. QED BY <1>1, WriteFields

(***************************************************************************)
(* What each kind of write stores.                                         *)
(***************************************************************************)
LEMMA AtPlace ==
  ASSUME NEW place, NEW content
  PROVE  DOMAIN At(place, content) = {place} /\ At(place, content)[place] = content
BY DEF At

LEMMA StoreBits ==
  ASSUME NEW bitmap
  PROVE  /\ StoreInodeBitmap(bitmap).inode_bitmap = bitmap
         /\ StoreInodeBitmap(bitmap).data_bitmap = Nowhere
         /\ StoreInodeBitmap(bitmap).inodes = Nowhere
         /\ StoreInodeBitmap(bitmap).data = Nowhere
         /\ StoreDataBitmap(bitmap).inode_bitmap = Nowhere
         /\ StoreDataBitmap(bitmap).data_bitmap = bitmap
         /\ StoreDataBitmap(bitmap).inodes = Nowhere
         /\ StoreDataBitmap(bitmap).data = Nowhere
BY DEF StoreInodeBitmap, StoreDataBitmap, Store

LEMMA StoreInodes ==
  ASSUME NEW n, NEW inode
  PROVE  /\ StoreInode(n, inode).inode_bitmap = Nowhere
         /\ StoreInode(n, inode).data_bitmap = Nowhere
         /\ StoreInode(n, inode).inodes = At(n, inode)
         /\ StoreInode(n, inode).data = Nowhere
BY DEF StoreInode, Store

LEMMA StoreEntries ==
  ASSUME NEW b, NEW s, NEW ent
  PROVE  /\ StoreEntry(b, s, ent).inode_bitmap = Nowhere
         /\ StoreEntry(b, s, ent).data_bitmap = Nowhere
         /\ StoreEntry(b, s, ent).inodes = Nowhere
         /\ StoreEntry(b, s, ent).data = At(<<b, s>>, ent)
BY DEF StoreEntry, Store

LEMMA StoreTexts ==
  ASSUME NEW b, NEW text
  PROVE  /\ StoreBlock(b, text).inode_bitmap = Nowhere
         /\ StoreBlock(b, text).data_bitmap = Nowhere
         /\ StoreBlock(b, text).inodes = Nowhere
         /\ DOMAIN StoreBlock(b, text).data = {b} \X Slots
         /\ \A s \in Slots : StoreBlock(b, text).data[<<b, s>>] = TextBlock(text)[s]
BY DEF StoreBlock, Store

-----------------------------------------------------------------------------
(***************************************************************************)
(* Write to a block that is there.                                         *)
(***************************************************************************)
LEMMA NothingAfter ==
  ASSUME NEW stored, NEW k, stored[k] = Nowhere, NEW place, NEW sofar
  PROVE  After(stored, k, place, sofar) = sofar
BY NowherePlaces DEF After

LEMMA StoredAt ==
  ASSUME NEW stored, NEW k, NEW p, NEW content, stored[k] = At(p, content), NEW place, NEW sofar
  PROVE  /\ place = p => After(stored, k, place, sofar) = content
         /\ place # p => After(stored, k, place, sofar) = sofar
<1>1. DOMAIN stored[k] = {p} /\ stored[k][p] = content
  BY DEF At
<1>. QED BY <1>1 DEF After

LEMMA OverwriteComing ==
  ASSUME Shaped(Snapshot), NEW p, NEW text,
         NEW ws, Len(ws) = 1, ws[1] = StoreBlock(p, text),
         NEW final, final = Overwritten(Snapshot, p, text)
  PROVE  Shaped(final) /\ Coming(ws, Snapshot, final)
<1>1. /\ final.inode_bitmap = inode_bitmap
      /\ final.data_bitmap = data_bitmap
      /\ final.inodes = inodes
      /\ final.data = [data EXCEPT ![p] = TextBlock(text)]
  BY DEF Overwritten, Snapshot
<1>2. /\ \A i \in 1 .. 1 : InodeBits(ws)[i] = Nowhere
      /\ \A i \in 1 .. 1 : DataBits(ws)[i] = Nowhere
      /\ \A i \in 1 .. 1 : InodeWrites(ws)[i] = Nowhere
      /\ DataWrites(ws)[1] = StoreBlock(p, text).data
  BY WriteFields, StoreTexts
<1>3. /\ inode_bitmap = [x \in Inums |-> inode_bitmap[x]]
      /\ data_bitmap = [b \in Blocks |-> data_bitmap[b]]
      /\ inodes = [x \in Inums |-> inodes[x]]
      /\ data = [b \in Pointers |-> [s \in Slots |-> data[b][s]]]
  BY DEF Shaped, Snapshot
<1>4. final.data = [b \in Pointers |-> IF b = p THEN TextBlock(text) ELSE data[b]]
  BY <1>1, <1>3
<1>5. Coming(ws, Snapshot, final)
  <2>1. ASSUME NEW x \in Inums
        PROVE  Ends(InodeBits(ws), 1, inode_bitmap[x], x, final.inode_bitmap[x])
    BY <1>1, <1>2, Untouched
  <2>2. ASSUME NEW b \in Blocks
        PROVE  Ends(DataBits(ws), 1, data_bitmap[b], b, final.data_bitmap[b])
    BY <1>1, <1>2, Untouched
  <2>3. ASSUME NEW x \in Inums
        PROVE  Ends(InodeWrites(ws), 1, inodes[x], x, final.inodes[x])
    BY <1>1, <1>2, Untouched
  <2>4. ASSUME NEW b \in Pointers, NEW s \in Slots
        PROVE  Ends(DataWrites(ws), 1, data[b][s], <<b, s>>, final.data[b][s])
    <3>1. CASE b = p
      <4>1. After(DataWrites(ws), 1, <<b, s>>, data[b][s]) = final.data[b][s]
        BY <1>2, <1>4, <3>1, StoreTexts DEF After
      <4>2. 1 \in 1 .. 1 /\ \A i \in 1 .. 1 : i # 1 => DataWrites(ws)[i] = Nowhere
        OBVIOUS
      <4>. QED BY <4>1, <4>2, TouchedOnce
    <3>2. CASE b # p
      <4>1. After(DataWrites(ws), 1, <<b, s>>, data[b][s]) = final.data[b][s]
        BY <1>2, <1>4, <3>2, StoreTexts DEF After
      <4>2. 1 \in 1 .. 1 /\ \A i \in 1 .. 1 : i # 1 => DataWrites(ws)[i] = Nowhere
        OBVIOUS
      <4>. QED BY <4>1, <4>2, TouchedOnce
    <3>. QED BY <3>1, <3>2
  <2>. QED BY <2>1, <2>2, <2>3, <2>4 DEF Coming, Snapshot
<1>6. final.data = [b \in Pointers |-> [s \in Slots |-> final.data[b][s]]]
  <2>1. \A b \in Pointers : final.data[b] = [s \in Slots |-> final.data[b][s]]
    BY <1>3, <1>4 DEF TextBlock
  <2>. QED BY <1>4, <2>1
<1>7. Shaped(final)
  BY <1>1, <1>3, <1>6 DEF Shaped
<1>. QED BY <1>5, <1>7

(***************************************************************************)
(* Write to a block that it takes.                                         *)
(***************************************************************************)
LEMMA ExtendComing ==
  ASSUME Shaped(Snapshot), NEW n, NEW j, NEW text, NEW new, new = next_available_block(data_bitmap),
         NEW ws, Len(ws) = 3,
         ws[1] = StoreBlock(new, text),
         ws[2] = StoreInode(n, push_inode_update(inodes[n], j, new)),
         ws[3] = StoreDataBitmap(At(new, 1)),
         NEW final, final = Extended(Snapshot, n, j, text)
  PROVE  Shaped(final) /\ Coming(ws, Snapshot, final)
<1>1. /\ final.inode_bitmap = inode_bitmap
      /\ final.data_bitmap = [data_bitmap EXCEPT ![new] = 1]
      /\ final.inodes = [inodes EXCEPT ![n] = push_inode_update(inodes[n], j, new)]
      /\ final.data = [data EXCEPT ![new] = TextBlock(text)]
  BY DEF Extended, Snapshot, FreeBlock, Occupied
<1>2. /\ \A i \in 1 .. 3 : InodeBits(ws)[i] = Nowhere
      /\ \A i \in 1 .. 3 : i # 3 => DataBits(ws)[i] = Nowhere
      /\ DataBits(ws)[3] = At(new, 1)
  BY FieldsOfThree, StoreTexts, StoreInodes, StoreBits
<1>3. /\ \A i \in 1 .. 3 : i # 2 => InodeWrites(ws)[i] = Nowhere
      /\ InodeWrites(ws)[2] = At(n, push_inode_update(inodes[n], j, new))
  BY FieldsOfThree, StoreTexts, StoreInodes, StoreBits
<1>4. /\ \A i \in 1 .. 3 : i # 1 => DataWrites(ws)[i] = Nowhere
      /\ DataWrites(ws)[1] = StoreBlock(new, text).data
  BY FieldsOfThree, StoreInodes, StoreBits
<1>5. /\ inode_bitmap = [x \in Inums |-> inode_bitmap[x]]
      /\ data_bitmap = [b \in Blocks |-> data_bitmap[b]]
      /\ inodes = [x \in Inums |-> inodes[x]]
      /\ data = [b \in Pointers |-> [s \in Slots |-> data[b][s]]]
  BY DEF Shaped, Snapshot
<1>6. /\ final.data_bitmap = [b \in Blocks |-> IF b = new THEN 1 ELSE data_bitmap[b]]
      /\ final.inodes = [x \in Inums |-> IF x = n THEN push_inode_update(inodes[n], j, new)
                                         ELSE inodes[x]]
      /\ final.data = [b \in Pointers |-> IF b = new THEN TextBlock(text) ELSE data[b]]
  BY <1>1, <1>5
<1>7. Coming(ws, Snapshot, final)
  <2>1. ASSUME NEW x \in Inums
        PROVE  Ends(InodeBits(ws), 3, inode_bitmap[x], x, final.inode_bitmap[x])
    BY <1>1, <1>2, Untouched
  <2>2. ASSUME NEW b \in Blocks
        PROVE  Ends(DataBits(ws), 3, data_bitmap[b], b, final.data_bitmap[b])
    <3>1. After(DataBits(ws), 3, b, data_bitmap[b]) = final.data_bitmap[b]
      <4>1. PICK one : one = 1
        OBVIOUS
      <4>2. DataBits(ws)[3] = At(new, one)
        BY <1>2, <4>1
      <4>3. After(DataBits(ws), 3, b, data_bitmap[b]) = IF b = new THEN one ELSE data_bitmap[b]
        BY <4>2, StoredAt
      <4>. QED BY <1>6, <4>1, <4>3
    <3>. QED BY <1>2, <3>1, TouchedOnce
  <2>3. ASSUME NEW x \in Inums
        PROVE  Ends(InodeWrites(ws), 3, inodes[x], x, final.inodes[x])
    <3>1. After(InodeWrites(ws), 2, x, inodes[x]) = final.inodes[x]
      BY <1>3, <1>6 DEF After, At
    <3>. QED BY <1>3, <3>1, TouchedOnce
  <2>4. ASSUME NEW b \in Pointers, NEW s \in Slots
        PROVE  Ends(DataWrites(ws), 3, data[b][s], <<b, s>>, final.data[b][s])
    <3>1. After(DataWrites(ws), 1, <<b, s>>, data[b][s]) = final.data[b][s]
      <4>1. CASE b = new
        BY <1>4, <1>6, <4>1, StoreTexts DEF After
      <4>2. CASE b # new
        BY <1>4, <1>6, <4>2, StoreTexts DEF After
      <4>. QED BY <4>1, <4>2
    <3>. QED BY <1>4, <3>1, TouchedOnce
  <2>. QED BY <2>1, <2>2, <2>3, <2>4 DEF Coming, Snapshot
<1>8. final.data = [b \in Pointers |-> [s \in Slots |-> final.data[b][s]]]
  <2>1. \A b \in Pointers : final.data[b] = [s \in Slots |-> final.data[b][s]]
    BY <1>5, <1>6 DEF TextBlock
  <2>. QED BY <1>6, <2>1
<1>9. /\ final.data_bitmap = [b \in Blocks |-> final.data_bitmap[b]]
      /\ final.inodes = [x \in Inums |-> final.inodes[x]]
      /\ final.inode_bitmap = [x \in Inums |-> final.inode_bitmap[x]]
  BY <1>1, <1>5, <1>6
<1>10. Shaped(final)
  BY <1>8, <1>9 DEF Shaped
<1>. QED BY <1>7, <1>10

(***************************************************************************)
(* Unlink.                                                                 *)
(***************************************************************************)
DataShaped(d) == d = [b \in Pointers |-> [s \in Slots |-> d[b][s]]]
Entered(d, p, s0, ent) == [d EXCEPT ![p] = [@ EXCEPT ![s0] = ent]]

EntryAt(d, place, ent, e) ==
  \A b \in Pointers, s \in Slots : /\ <<b, s>> = place => e[b][s] = ent
                                   /\ <<b, s>> # place => e[b][s] = d[b][s]

Covered(d, ents, e) ==
  \A b \in Pointers, s \in Slots :
    e[b][s] = IF <<b, s>> \in DOMAIN ents THEN ents[<<b, s>>] ELSE d[b][s]

StoreInodeAnd(n, inode, ents) == [StoreInode(n, inode) EXCEPT !.data = ents]

UnlinkLeads(ws, img, final, d, n, p, s0, ent, parent, gone, bits, marks, ents) ==
  /\ DOMAIN bits = Inums /\ DOMAIN marks = Blocks
  /\ Five(ws, StoreEntry(p, s0, ent), StoreInode(d, parent), StoreInodeBitmap(bits),
          StoreDataBitmap(marks), StoreInodeAnd(n, gone, ents))
  /\ final.inode_bitmap = bits
  /\ final.data_bitmap = marks
  /\ \A x \in Inums : /\ x = n => final.inodes[x] = gone
                      /\ x # n /\ x = d => final.inodes[x] = parent
                      /\ x # n /\ x # d => final.inodes[x] = img.inodes[x]
  /\ \E removed : EntryAt(img.data, <<p, s0>>, ent, removed) /\ Covered(removed, ents, final.data)

LEMMA StoreTwo ==
  ASSUME NEW n, NEW inode, NEW ents
  PROVE  /\ StoreInodeAnd(n, inode, ents).inode_bitmap = Nowhere
         /\ StoreInodeAnd(n, inode, ents).data_bitmap = Nowhere
         /\ StoreInodeAnd(n, inode, ents).inodes = At(n, inode)
         /\ StoreInodeAnd(n, inode, ents).data = ents
BY DEF StoreInodeAnd, StoreInode, Store

LEMMA UnlinkComing ==
  ASSUME NEW ws, NEW img, NEW final, NEW d, NEW n, NEW p, NEW s0, NEW ent, NEW parent, NEW gone,
         NEW bits, NEW marks, NEW ents,
         UnlinkLeads(ws, img, final, d, n, p, s0, ent, parent, gone, bits, marks, ents)
  PROVE  Coming(ws, img, final)
<1>1. /\ DOMAIN bits = Inums /\ DOMAIN marks = Blocks
      /\ final.inode_bitmap = bits /\ final.data_bitmap = marks
  BY DEF UnlinkLeads
<1>2. /\ Len(ws) = 5
      /\ ws[1] = StoreEntry(p, s0, ent) /\ ws[2] = StoreInode(d, parent)
      /\ ws[3] = StoreInodeBitmap(bits) /\ ws[4] = StoreDataBitmap(marks)
      /\ ws[5] = StoreInodeAnd(n, gone, ents)
  BY DEF UnlinkLeads, Five
<1>3. \A x \in Inums : /\ x = n => final.inodes[x] = gone
                       /\ x # n /\ x = d => final.inodes[x] = parent
                       /\ x # n /\ x # d => final.inodes[x] = img.inodes[x]
  BY DEF UnlinkLeads
<1>4. PICK removed :
        /\ \A b \in Pointers, s \in Slots :
             /\ <<b, s>> = <<p, s0>> => removed[b][s] = ent
             /\ <<b, s>> # <<p, s0>> => removed[b][s] = img.data[b][s]
        /\ \A b \in Pointers, s \in Slots :
             final.data[b][s] = IF <<b, s>> \in DOMAIN ents THEN ents[<<b, s>>]
                                ELSE removed[b][s]
  BY DEF UnlinkLeads, EntryAt, Covered
<1>5. /\ ws[1].inode_bitmap = Nowhere /\ ws[1].data_bitmap = Nowhere /\ ws[1].inodes = Nowhere
      /\ ws[1].data = At(<<p, s0>>, ent)
  BY <1>2, StoreEntries
<1>6. /\ ws[2].inode_bitmap = Nowhere /\ ws[2].data_bitmap = Nowhere /\ ws[2].data = Nowhere
      /\ ws[2].inodes = At(d, parent)
      /\ ws[5].inode_bitmap = Nowhere /\ ws[5].data_bitmap = Nowhere /\ ws[5].data = ents
      /\ ws[5].inodes = At(n, gone)
  BY <1>2, StoreInodes, StoreTwo
<1>7. /\ ws[3].inode_bitmap = bits /\ ws[3].data_bitmap = Nowhere /\ ws[3].inodes = Nowhere
      /\ ws[3].data = Nowhere
      /\ ws[4].data_bitmap = marks /\ ws[4].inode_bitmap = Nowhere /\ ws[4].inodes = Nowhere
      /\ ws[4].data = Nowhere
  BY <1>2, StoreBits
<1>8. /\ \A k \in 1 .. 5 : k # 3 => InodeBits(ws)[k] = Nowhere
      /\ InodeBits(ws)[3] = bits
  BY <1>2, <1>5, <1>6, <1>7, FieldsOfFive
<1>9. /\ \A k \in 1 .. 5 : k # 4 => DataBits(ws)[k] = Nowhere
      /\ DataBits(ws)[4] = marks
  BY <1>2, <1>5, <1>6, <1>7, FieldsOfFive
<1>10. /\ InodeWrites(ws)[1] = Nowhere /\ InodeWrites(ws)[3] = Nowhere
       /\ InodeWrites(ws)[4] = Nowhere
       /\ InodeWrites(ws)[2] = At(d, parent) /\ InodeWrites(ws)[5] = At(n, gone)
  BY <1>2, <1>5, <1>6, <1>7, FieldsOfFive
<1>11. /\ DataWrites(ws)[2] = Nowhere /\ DataWrites(ws)[3] = Nowhere
       /\ DataWrites(ws)[4] = Nowhere
       /\ DataWrites(ws)[1] = At(<<p, s0>>, ent) /\ DataWrites(ws)[5] = ents
  BY <1>2, <1>5, <1>6, <1>7, FieldsOfFive
<1>12. 5 \in Nat /\ 1 \in 1 .. 5 /\ 3 \in 1 .. 5 /\ 4 \in 1 .. 5
  OBVIOUS
<1>13. ASSUME NEW x \in Inums
       PROVE  Ends(InodeBits(ws), 5, img.inode_bitmap[x], x, final.inode_bitmap[x])
  <2>1. After(InodeBits(ws), 3, x, img.inode_bitmap[x]) = final.inode_bitmap[x]
    BY <1>1, <1>8 DEF After
  <2>. QED BY <1>8, <1>12, <2>1, TouchedOnce
<1>14. ASSUME NEW b \in Blocks
       PROVE  Ends(DataBits(ws), 5, img.data_bitmap[b], b, final.data_bitmap[b])
  <2>1. After(DataBits(ws), 4, b, img.data_bitmap[b]) = final.data_bitmap[b]
    BY <1>1, <1>9 DEF After
  <2>. QED BY <1>9, <1>12, <2>1, TouchedOnce
<1>15. ASSUME NEW x \in Inums
       PROVE  Ends(InodeWrites(ws), 5, img.inodes[x], x, final.inodes[x])
  <2>1. PICK y : y = After(InodeWrites(ws), 2, x, img.inodes[x])
    OBVIOUS
  <2>2. (x = d => y = parent) /\ (x # d => y = img.inodes[x])
    BY <1>10, <2>1 DEF After, At
  <2>3. /\ x = n => After(InodeWrites(ws), 5, x, y) = gone
        /\ x # n => After(InodeWrites(ws), 5, x, y) = y
    BY <1>10 DEF After, At
  <2>4. After(InodeWrites(ws), 5, x, y) = final.inodes[x]
    BY <1>3, <2>2, <2>3
  <2>5. /\ After(InodeWrites(ws), 1, x, img.inodes[x]) = img.inodes[x]
        /\ After(InodeWrites(ws), 3, x, y) = y
        /\ After(InodeWrites(ws), 4, x, y) = y
    BY <1>10 DEF After, Nowhere
  <2>6. Ends(InodeWrites(ws), 5, img.inodes[x], x,
             After(InodeWrites(ws), 5, x, After(InodeWrites(ws), 4, x,
               After(InodeWrites(ws), 3, x, After(InodeWrites(ws), 2, x,
                 After(InodeWrites(ws), 1, x, img.inodes[x]))))))
    BY EndsOfFive
  <2>. QED BY <2>1, <2>4, <2>5, <2>6
<1>16. ASSUME NEW b \in Pointers, NEW s \in Slots
       PROVE  Ends(DataWrites(ws), 5, img.data[b][s], <<b, s>>, final.data[b][s])
  <2>1. PICK y : y = After(DataWrites(ws), 1, <<b, s>>, img.data[b][s])
    OBVIOUS
  <2>2. y = removed[b][s]
    <3>1. /\ <<b, s>> = <<p, s0>> => y = ent
          /\ <<b, s>> # <<p, s0>> => y = img.data[b][s]
      BY <1>11, <2>1 DEF After, At
    <3>. QED BY <1>4, <3>1
  <2>3. After(DataWrites(ws), 5, <<b, s>>, y) = final.data[b][s]
    BY <1>4, <1>11, <2>2 DEF After
  <2>4. /\ After(DataWrites(ws), 2, <<b, s>>, y) = y
        /\ After(DataWrites(ws), 3, <<b, s>>, y) = y
        /\ After(DataWrites(ws), 4, <<b, s>>, y) = y
    BY <1>11, NothingAfter
  <2>5. Ends(DataWrites(ws), 5, img.data[b][s], <<b, s>>,
             After(DataWrites(ws), 5, <<b, s>>, After(DataWrites(ws), 4, <<b, s>>,
               After(DataWrites(ws), 3, <<b, s>>, After(DataWrites(ws), 2, <<b, s>>,
                 After(DataWrites(ws), 1, <<b, s>>, img.data[b][s]))))))
    BY EndsOfFive
  <2>. QED BY <2>1, <2>3, <2>4, <2>5
<1>. QED BY <1>2, <1>13, <1>14, <1>15, <1>16 DEF Coming

LEMMA FiveOrSix ==
  ASSUME NEW n \in {5, 6}, NEW k \in 1 .. n
  PROVE  k = 1 \/ k = 2 \/ k = 3 \/ k = 4 \/ k = 5 \/ (k = 6 /\ n = 6)
OBVIOUS

(***************************************************************************)
(* Creat: a file with five writes, a directory with the sixth that goes    *)
(* astray.                                                                 *)
(***************************************************************************)
CreatLeads(ws, img, final, d, new, place, ent, parent, made, bits, marks, tail, stray, spilled) ==
  /\ DOMAIN bits = Inums /\ DOMAIN marks = Blocks
  /\ Len(ws) \in {5, 6}
  /\ ws[1] = StoreInodeBitmap(bits)
  /\ ws[2] = StoreDataBitmap(marks)
  /\ ws[3] = StoreInode(d, parent)
  /\ ws[4].inode_bitmap = Nowhere /\ ws[4].data_bitmap = Nowhere
  /\ ws[4].inodes = tail /\ ws[4].data = At(place, ent)
  /\ ws[5] = StoreInode(new, made)
  /\ Len(ws) = 6 => /\ ws[6].inode_bitmap = Nowhere /\ ws[6].data_bitmap = Nowhere
                    /\ ws[6].inodes = stray /\ ws[6].data = spilled
  /\ Len(ws) = 5 => stray = Nowhere /\ spilled = Nowhere
  /\ final.inode_bitmap = bits
  /\ final.data_bitmap = marks

InodesLead(img, final, d, new, parent, made, tail, stray) ==
  \A x \in Inums :
    /\ x \in DOMAIN stray => final.inodes[x] = stray[x]
    /\ x \notin DOMAIN stray /\ x = new => final.inodes[x] = made
    /\ x \notin DOMAIN stray /\ x # new /\ x \in DOMAIN tail => final.inodes[x] = tail[x]
    /\ x \notin DOMAIN stray /\ x # new /\ x \notin DOMAIN tail /\ x = d =>
         final.inodes[x] = parent
    /\ x \notin DOMAIN stray /\ x # new /\ x \notin DOMAIN tail /\ x # d =>
         final.inodes[x] = img.inodes[x]

DataLead(img, final, place, ent, spilled) ==
  \A b \in Pointers, s \in Slots :
    /\ <<b, s>> \in DOMAIN spilled => final.data[b][s] = spilled[<<b, s>>]
    /\ <<b, s>> \notin DOMAIN spilled /\ <<b, s>> = place => final.data[b][s] = ent
    /\ <<b, s>> \notin DOMAIN spilled /\ <<b, s>> # place =>
         final.data[b][s] = img.data[b][s]

LEMMA CreatComing ==
  ASSUME NEW ws, NEW img, NEW final,
         NEW d, NEW new, NEW place, NEW ent, NEW parent, NEW made, NEW bits, NEW marks,
         NEW tail, NEW stray, NEW spilled,
         CreatLeads(ws, img, final, d, new, place, ent, parent, made, bits, marks, tail, stray,
                    spilled),
         InodesLead(img, final, d, new, parent, made, tail, stray),
         DataLead(img, final, place, ent, spilled)
  PROVE  Coming(ws, img, final)
<1>1. /\ DOMAIN bits = Inums /\ DOMAIN marks = Blocks
      /\ Len(ws) \in {5, 6}
      /\ ws[1] = StoreInodeBitmap(bits)
      /\ ws[2] = StoreDataBitmap(marks)
      /\ ws[3] = StoreInode(d, parent)
      /\ ws[4].inode_bitmap = Nowhere /\ ws[4].data_bitmap = Nowhere
      /\ ws[4].inodes = tail /\ ws[4].data = At(place, ent)
      /\ ws[5] = StoreInode(new, made)
      /\ Len(ws) = 6 => /\ ws[6].inode_bitmap = Nowhere /\ ws[6].data_bitmap = Nowhere
                        /\ ws[6].inodes = stray /\ ws[6].data = spilled
      /\ Len(ws) = 5 => stray = Nowhere /\ spilled = Nowhere
      /\ final.inode_bitmap = bits
      /\ final.data_bitmap = marks
  BY DEF CreatLeads
<1>2. /\ ws[1].inode_bitmap = bits /\ ws[1].data_bitmap = Nowhere /\ ws[1].inodes = Nowhere
      /\ ws[1].data = Nowhere
      /\ ws[2].data_bitmap = marks /\ ws[2].inode_bitmap = Nowhere /\ ws[2].inodes = Nowhere
      /\ ws[2].data = Nowhere
  BY <1>1, StoreBits
<1>3. /\ ws[3].inode_bitmap = Nowhere /\ ws[3].data_bitmap = Nowhere /\ ws[3].data = Nowhere
      /\ ws[3].inodes = At(d, parent)
      /\ ws[5].inode_bitmap = Nowhere /\ ws[5].data_bitmap = Nowhere /\ ws[5].data = Nowhere
      /\ ws[5].inodes = At(new, made)
  BY <1>1, StoreInodes
<1>4. Len(ws) = 6 => /\ InodeBits(ws)[6] = Nowhere /\ DataBits(ws)[6] = Nowhere
                     /\ InodeWrites(ws)[6] = stray /\ DataWrites(ws)[6] = spilled
  <2>1. Len(ws) = 6 => 6 \in 1 .. Len(ws)
    OBVIOUS
  <2>. QED BY <1>1, <2>1, WriteFields
<1>5. /\ \A k \in 1 .. Len(ws) : k # 1 => InodeBits(ws)[k] = Nowhere
      /\ InodeBits(ws)[1] = bits
  <2>1. /\ InodeBits(ws)[1] = bits /\ InodeBits(ws)[2] = Nowhere /\ InodeBits(ws)[3] = Nowhere
        /\ InodeBits(ws)[4] = Nowhere /\ InodeBits(ws)[5] = Nowhere
    BY <1>1, <1>2, <1>3, FieldsOfFive
  <2>2. \A k \in 1 .. Len(ws) :
          k = 1 \/ k = 2 \/ k = 3 \/ k = 4 \/ k = 5 \/ (k = 6 /\ Len(ws) = 6)
    BY <1>1, FiveOrSix, Zenon
  <2>. QED BY <1>4, <2>1, <2>2
<1>6. /\ \A k \in 1 .. Len(ws) : k # 2 => DataBits(ws)[k] = Nowhere
      /\ DataBits(ws)[2] = marks
  <2>1. /\ DataBits(ws)[1] = Nowhere /\ DataBits(ws)[2] = marks /\ DataBits(ws)[3] = Nowhere
        /\ DataBits(ws)[4] = Nowhere /\ DataBits(ws)[5] = Nowhere
    BY <1>1, <1>2, <1>3, FieldsOfFive
  <2>2. \A k \in 1 .. Len(ws) :
          k = 1 \/ k = 2 \/ k = 3 \/ k = 4 \/ k = 5 \/ (k = 6 /\ Len(ws) = 6)
    BY <1>1, FiveOrSix, Zenon
  <2>. QED BY <1>4, <2>1, <2>2
<1>7. /\ InodeWrites(ws)[1] = Nowhere /\ InodeWrites(ws)[2] = Nowhere
      /\ InodeWrites(ws)[3] = At(d, parent) /\ InodeWrites(ws)[4] = tail
      /\ InodeWrites(ws)[5] = At(new, made)
  BY <1>1, <1>2, <1>3, FieldsOfFive
<1>8. /\ DataWrites(ws)[1] = Nowhere /\ DataWrites(ws)[2] = Nowhere
      /\ DataWrites(ws)[3] = Nowhere /\ DataWrites(ws)[4] = At(place, ent)
      /\ DataWrites(ws)[5] = Nowhere
  BY <1>1, <1>2, <1>3, FieldsOfFive
<1>9. Len(ws) \in Nat /\ 1 \in 1 .. Len(ws) /\ 2 \in 1 .. Len(ws)
  BY <1>1
<1>10. ASSUME NEW x \in Inums
       PROVE  Ends(InodeBits(ws), Len(ws), img.inode_bitmap[x], x, final.inode_bitmap[x])
  <2>1. After(InodeBits(ws), 1, x, img.inode_bitmap[x]) = final.inode_bitmap[x]
    BY <1>1, <1>5 DEF After
  <2>. QED BY <1>5, <1>9, <2>1, TouchedOnce
<1>11. ASSUME NEW b \in Blocks
       PROVE  Ends(DataBits(ws), Len(ws), img.data_bitmap[b], b, final.data_bitmap[b])
  <2>1. After(DataBits(ws), 2, b, img.data_bitmap[b]) = final.data_bitmap[b]
    BY <1>1, <1>6 DEF After
  <2>. QED BY <1>6, <1>9, <2>1, TouchedOnce
<1>12. ASSUME NEW x \in Inums
       PROVE  Ends(InodeWrites(ws), Len(ws), img.inodes[x], x, final.inodes[x])
  <2>1. PICK was, y3, y4, y5, y6 :
          /\ was = img.inodes[x]
          /\ y3 = After(InodeWrites(ws), 3, x, was) /\ y4 = After(InodeWrites(ws), 4, x, y3)
          /\ y5 = After(InodeWrites(ws), 5, x, y4) /\ y6 = After(InodeWrites(ws), 6, x, y5)
    OBVIOUS
  <2>2. (x = d => y3 = parent) /\ (x # d => y3 = was)
    BY <1>7, <2>1 DEF After, At
  <2>3. (x \in DOMAIN tail => y4 = tail[x]) /\ (x \notin DOMAIN tail => y4 = y3)
    BY <1>7, <2>1 DEF After
  <2>4. (x = new => y5 = made) /\ (x # new => y5 = y4)
    BY <1>7, <2>1 DEF After, At
  <2>5. /\ After(InodeWrites(ws), 1, x, was) = was
        /\ After(InodeWrites(ws), 2, x, was) = was
    BY <1>7 DEF After, Nowhere
  <2>6. CASE Len(ws) = 5
    <3>1. x \notin DOMAIN stray
      BY <1>1, <2>6, NowherePlaces
    <3>2. y5 = final.inodes[x]
      BY <2>1, <2>2, <2>3, <2>4, <3>1 DEF InodesLead
    <3>3. Ends(InodeWrites(ws), 5, was, x, y5)
      BY <2>1, <2>5, EndsOfFive
    <3>. QED BY <2>1, <2>6, <3>2, <3>3
  <2>7. CASE Len(ws) = 6
    <3>1. (x \in DOMAIN stray => y6 = stray[x]) /\ (x \notin DOMAIN stray => y6 = y5)
      BY <1>4, <2>1, <2>7 DEF After
    <3>2. y6 = final.inodes[x]
      BY <2>1, <2>2, <2>3, <2>4, <3>1 DEF InodesLead
    <3>3. Ends(InodeWrites(ws), 6, was, x, y6)
      BY <2>1, <2>5, EndsOfFive
    <3>. QED BY <2>1, <2>7, <3>2, <3>3
  <2>. QED BY <1>1, <2>6, <2>7
<1>13. ASSUME NEW b \in Pointers, NEW s \in Slots
       PROVE  Ends(DataWrites(ws), Len(ws), img.data[b][s], <<b, s>>, final.data[b][s])
  <2>1. PICK was, at, y4, y6 :
          /\ was = img.data[b][s] /\ at = <<b, s>>
          /\ y4 = After(DataWrites(ws), 4, at, was) /\ y6 = After(DataWrites(ws), 6, at, y4)
    OBVIOUS
  <2>2. (at = place => y4 = ent) /\ (at # place => y4 = was)
    BY <1>8, <2>1 DEF After, At
  <2>3. /\ After(DataWrites(ws), 1, at, was) = was /\ After(DataWrites(ws), 2, at, was) = was
        /\ After(DataWrites(ws), 3, at, was) = was /\ After(DataWrites(ws), 5, at, y4) = y4
    BY <1>8 DEF After, Nowhere
  <2>4. /\ at \in DOMAIN spilled => final.data[b][s] = spilled[at]
        /\ at \notin DOMAIN spilled /\ at = place => final.data[b][s] = ent
        /\ at \notin DOMAIN spilled /\ at # place => final.data[b][s] = was
    BY <2>1 DEF DataLead
  <2>5. CASE Len(ws) = 5
    <3>1. at \notin DOMAIN spilled
      BY <1>1, <2>5, NowherePlaces
    <3>2. y4 = final.data[b][s]
      BY <2>2, <2>4, <3>1
    <3>3. Ends(DataWrites(ws), 5, was, at, y4)
      BY <2>1, <2>3, EndsOfFive
    <3>. QED BY <2>1, <2>5, <3>2, <3>3
  <2>6. CASE Len(ws) = 6
    <3>1. (at \in DOMAIN spilled => y6 = spilled[at]) /\ (at \notin DOMAIN spilled => y6 = y4)
      BY <1>4, <2>1, <2>6 DEF After
    <3>2. y6 = final.data[b][s]
      BY <2>2, <2>4, <3>1
    <3>3. Ends(DataWrites(ws), 6, was, at, y6)
      BY <2>1, <2>3, EndsOfFive
    <3>. QED BY <2>1, <2>6, <3>2, <3>3
  <2>. QED BY <1>1, <2>5, <2>6
<1>. QED BY <1>10, <1>11, <1>12, <1>13 DEF Coming

-----------------------------------------------------------------------------
(***************************************************************************)
(* The writes that a handler begins with lead to an image that its request *)
(* may end in.                                                             *)
(***************************************************************************)
LEMMA EntryStored ==
  ASSUME NEW d, DataShaped(d), NEW p, NEW s0, NEW ent
  PROVE  /\ DataShaped(Entered(d, p, s0, ent))
         /\ EntryAt(d, <<p, s0>>, ent, Entered(d, p, s0, ent))
<1>1. PICK e : e = [d EXCEPT ![p] = [@ EXCEPT ![s0] = ent]]
  OBVIOUS
<1>2. e = [b \in Pointers |-> IF b = p THEN [d[b] EXCEPT ![s0] = ent] ELSE d[b]]
  BY <1>1 DEF DataShaped
<1>3. ASSUME NEW b \in Pointers
      PROVE  /\ b = p => e[b] = [s \in Slots |-> IF s = s0 THEN ent ELSE d[b][s]]
             /\ b # p => e[b] = [s \in Slots |-> d[b][s]]
  <2>1. d[b] = [s \in Slots |-> d[b][s]]
    BY DEF DataShaped
  <2>2. b = p => e[b] = [d[b] EXCEPT ![s0] = ent]
    BY <1>2
  <2>3. [d[b] EXCEPT ![s0] = ent] = [s \in Slots |-> IF s = s0 THEN ent ELSE d[b][s]]
    BY <2>1
  <2>. QED BY <1>2, <2>1, <2>2, <2>3
<1>4. \A b \in Pointers : e[b] = [s \in Slots |-> e[b][s]]
  BY <1>3
<1>5. DOMAIN e = Pointers
  BY <1>2
<1>6. e = [b \in Pointers |-> [s \in Slots |-> e[b][s]]]
  BY <1>2, <1>4, <1>5
<1>7. ASSUME NEW b \in Pointers, NEW s \in Slots
      PROVE  /\ <<b, s>> = <<p, s0>> => e[b][s] = ent
             /\ <<b, s>> # <<p, s0>> => e[b][s] = d[b][s]
  BY <1>3
<1>. QED BY <1>1, <1>6, <1>7 DEF DataShaped, Entered, EntryAt

LEMMA UnlinkWrites ==
  ASSUME Shaped(Snapshot), NEW d, NEW name, NEW unlinked, NEW ents,
         NEW ws, ws = UnlinkStores(d, name, unlinked, ents),
         NEW final, final = WithoutEntry(Snapshot, d, name, unlinked, ents)
  PROVE  /\ \E S : ws \in Seq(S)
         /\ Shaped(final)
         /\ Coming(ws, Snapshot, final)
         /\ final.harm = harm \cup Struck("default_entry", NotMade(d, name))
<1>1. PICK i, n : i = Found(d, name) /\ n = EntryFor(d, name).inum
  OBVIOUS
<1>2. PICK p, s0, ent, parent, bits, marks, gone :
        /\ p = EntBlock(inodes[d], i) /\ s0 = i % DirEntsPerBlock /\ ent = UnusedEnt
        /\ parent = [inodes[d] EXCEPT !.real_size = @ - 1]
        /\ bits = [inode_bitmap EXCEPT ![n] = 0]
        /\ marks = decomission_blocks(unlinked, data_bitmap)
        /\ gone = decomission_inode(unlinked)
  OBVIOUS
<1>3. ws = << StoreEntry(p, s0, ent), StoreInode(d, parent), StoreInodeBitmap(bits),
              StoreDataBitmap(marks), StoreInodeAnd(n, gone, ents) >>
  BY <1>1, <1>2, Zenon DEF UnlinkStores, StoreInodeAnd
<1>4. /\ \E S : ws \in Seq(S)
      /\ Five(ws, StoreEntry(p, s0, ent), StoreInode(d, parent), StoreInodeBitmap(bits),
              StoreDataBitmap(marks), StoreInodeAnd(n, gone, ents))
  <2>1. ASSUME NEW a, NEW b, NEW c, NEW e, NEW f, ws = << a, b, c, e, f >>
        PROVE  (\E S : ws \in Seq(S)) /\ Five(ws, a, b, c, e, f)
    BY <2>1, FiveWrites
  <2>2. PICK a, b, c, e, f :
          /\ a = StoreEntry(p, s0, ent) /\ b = StoreInode(d, parent)
          /\ c = StoreInodeBitmap(bits) /\ e = StoreDataBitmap(marks)
          /\ f = StoreInodeAnd(n, gone, ents)
    OBVIOUS
  <2>3. ws = << a, b, c, e, f >>
    BY <1>3, <2>2, Zenon
  <2>4. (\E S : ws \in Seq(S)) /\ Five(ws, a, b, c, e, f)
    BY <2>1, <2>3, Zenon
  <2>. QED BY <2>2, <2>4, Zenon
<1>5. /\ i = FoundIn(Snapshot, d, name) /\ n = EntryIn(Snapshot, d, name).inum
      /\ NotMade(d, name) <=> NotMadeIn(Snapshot, d, name)
  BY <1>1, ImageLooks
<1>6. /\ final.inode_bitmap = [Snapshot.inode_bitmap EXCEPT ![n] = 0]
      /\ final.data_bitmap = decomission_blocks(unlinked, Snapshot.data_bitmap)
      /\ final.inodes = [[Snapshot.inodes EXCEPT
                            ![d] = [Snapshot.inodes[d] EXCEPT !.real_size = @ - 1]]
                           EXCEPT ![n] = gone]
      /\ final.data = WithEntries(EntryRemoved(Snapshot, d, name), ents)
      /\ final.harm = Snapshot.harm \cup Struck("default_entry", NotMadeIn(Snapshot, d, name))
  BY <1>2, <1>5 DEF WithoutEntry
<1>7. /\ final.inode_bitmap = bits
      /\ final.data_bitmap = marks
      /\ final.inodes = [[inodes EXCEPT ![d] = parent] EXCEPT ![n] = gone]
      /\ final.data = WithEntries([data EXCEPT ![p] = [@ EXCEPT ![s0] = ent]], ents)
      /\ final.harm = harm \cup Struck("default_entry", NotMade(d, name))
  <2>1. /\ Snapshot.inode_bitmap = inode_bitmap /\ Snapshot.data_bitmap = data_bitmap
        /\ Snapshot.inodes = inodes /\ Snapshot.data = data /\ Snapshot.harm = harm
    BY DEF Snapshot
  <2>2. EntryRemoved(Snapshot, d, name) = [data EXCEPT ![p] = [@ EXCEPT ![s0] = ent]]
    BY <1>2, <1>5, <2>1 DEF EntryRemoved
  <2>3. Struck("default_entry", NotMadeIn(Snapshot, d, name)) =
          Struck("default_entry", NotMade(d, name))
    BY <1>5 DEF Struck
  <2>. QED BY <1>2, <1>6, <2>1, <2>2, <2>3
<1>8. /\ inode_bitmap = [x \in Inums |-> inode_bitmap[x]]
      /\ data_bitmap = [b \in Blocks |-> data_bitmap[b]]
      /\ inodes = [x \in Inums |-> inodes[x]]
      /\ data = [b \in Pointers |-> [s \in Slots |-> data[b][s]]]
  BY DEF Shaped, Snapshot
<1>9. bits = [x \in Inums |-> bits[x]]
  BY <1>2, <1>8
<1>10. marks = [b \in Blocks |-> marks[b]]
  BY <1>2 DEF decomission_blocks
<1>11. final.inodes = [x \in Inums |-> IF x = n THEN gone ELSE IF x = d THEN parent ELSE inodes[x]]
  BY <1>7, <1>8
<1>12. /\ final.data = [b \in Pointers |-> [s \in Slots |-> final.data[b][s]]]
       /\ \E removed : EntryAt(data, <<p, s0>>, ent, removed) /\ Covered(removed, ents, final.data)
  <2>1. DataShaped(data)
    BY <1>8 DEF DataShaped
  <2>2. /\ DataShaped(Entered(data, p, s0, ent))
        /\ EntryAt(data, <<p, s0>>, ent, Entered(data, p, s0, ent))
    BY <2>1, EntryStored
  <2>3. PICK removed : removed = Entered(data, p, s0, ent)
    OBVIOUS
  <2>4. final.data = WithEntries(removed, ents)
    BY <1>7, <2>3 DEF Entered
  <2>5. final.data = [b \in Pointers |-> [s \in Slots |->
                        IF <<b, s>> \in DOMAIN ents THEN ents[<<b, s>>] ELSE removed[b][s]]]
    BY <2>4 DEF WithEntries
  <2>6. Covered(removed, ents, final.data)
    BY <2>5 DEF Covered
  <2>. QED BY <2>2, <2>3, <2>5, <2>6
<1>13. Shaped(final)
  BY <1>7, <1>9, <1>10, <1>11, <1>12 DEF Shaped
<1>14. Coming(ws, Snapshot, final)
  <2>1. PICK img : img = Snapshot
    OBVIOUS
  <2>2. img.inodes = inodes /\ img.data = data
    BY <2>1 DEF Snapshot
  <2>3. \A x \in Inums : /\ x = n => final.inodes[x] = gone
                         /\ x # n /\ x = d => final.inodes[x] = parent
                         /\ x # n /\ x # d => final.inodes[x] = img.inodes[x]
    BY <1>11, <2>2
  <2>4. DOMAIN bits = Inums /\ DOMAIN marks = Blocks
    BY <1>9, <1>10
  <2>5. UnlinkLeads(ws, img, final, d, n, p, s0, ent, parent, gone, bits, marks, ents)
    BY <1>4, <1>7, <1>12, <2>2, <2>3, <2>4 DEF UnlinkLeads
  <2>. QED BY <2>1, <2>5, UnlinkComing
<1>. QED BY <1>1, <1>4, <1>7, <1>13, <1>14

LEMMA StrayFields ==
  ASSUME NEW new, NEW scrap, NEW ent
  PROVE  /\ Stray(new, scrap, ent).inode_bitmap = Nowhere
         /\ Stray(new, scrap, ent).data_bitmap = Nowhere
         /\ Stray(new, scrap, ent).inodes =
              [n \in StrayHits(new) |-> IF n = new + 1 THEN [scrap[n] EXCEPT !.type = new] ELSE scrap[n]]
         /\ Stray(new, scrap, ent).data = IF SpillsOver(new) THEN At(<<0, 0>>, ent) ELSE Nowhere
<1>1. PICK f, g : /\ f = [n \in StrayHits(new) |->
                           IF n = new + 1 THEN [scrap[n] EXCEPT !.type = new] ELSE scrap[n]]
                  /\ g = IF SpillsOver(new) THEN At(<<0, 0>>, ent) ELSE Nowhere
  OBVIOUS
<1>2. Stray(new, scrap, ent) = [Store EXCEPT !.inodes = f, !.data = g]
  BY <1>1, Zenon DEF Stray
<1>3. [Store EXCEPT !.inodes = f, !.data = g] =
        [inode_bitmap |-> Nowhere, data_bitmap |-> Nowhere, inodes |-> f, data |-> g]
  <2>1. [Store EXCEPT !.inodes = f] =
          [inode_bitmap |-> Nowhere, data_bitmap |-> Nowhere, inodes |-> f, data |-> Nowhere]
    BY DEF Store
  <2>2. [Store EXCEPT !.inodes = f, !.data = g] = [[Store EXCEPT !.inodes = f] EXCEPT !.data = g]
    BY DEF Store
  <2>3. PICK s1 : s1 = [Store EXCEPT !.inodes = f]
    OBVIOUS
  <2>4. s1 = [inode_bitmap |-> Nowhere, data_bitmap |-> Nowhere, inodes |-> f, data |-> Nowhere]
    BY <2>1, <2>3
  <2>5. [s1 EXCEPT !.data = g] =
          [inode_bitmap |-> Nowhere, data_bitmap |-> Nowhere, inodes |-> f, data |-> g]
    BY <2>4
  <2>6. [Store EXCEPT !.inodes = f, !.data = g] = [s1 EXCEPT !.data = g]
    BY <2>2, <2>3, Zenon
  <2>. QED BY <2>5, <2>6
<1>4. Stray(new, scrap, ent) =
        [inode_bitmap |-> Nowhere, data_bitmap |-> Nowhere, inodes |-> f, data |-> g]
  BY <1>2, <1>3
<1>. QED BY <1>1, <1>4

LEMMA TailFields ==
  ASSUME NEW b, NEW s, NEW ent, NEW scrap, NEW w, w = WithTail(StoreEntry(b, s, ent), b, s, scrap)
  PROVE  /\ w.inode_bitmap = Nowhere
         /\ w.data_bitmap = Nowhere
         /\ w.inodes = IF b = -1 THEN [n \in TailHits(s) |-> scrap[n]] ELSE Nowhere
         /\ w.data = At(<<b, s>>, ent)
<1>1. PICK f, at : /\ f = IF b = -1 THEN [n \in TailHits(s) |-> scrap[n]] ELSE Nowhere
                   /\ at = At(<<b, s>>, ent)
  OBVIOUS
<1>2. StoreEntry(b, s, ent) =
        [inode_bitmap |-> Nowhere, data_bitmap |-> Nowhere, inodes |-> Nowhere, data |-> at]
  BY <1>1 DEF StoreEntry, Store
<1>3. w = [StoreEntry(b, s, ent) EXCEPT !.inodes = f]
  BY <1>1, Zenon DEF WithTail
<1>4. w = [inode_bitmap |-> Nowhere, data_bitmap |-> Nowhere, inodes |-> f, data |-> at]
  BY <1>2, <1>3
<1>. QED BY <1>1, <1>4

LEMMA CreatWrites ==
  ASSUME Shaped(Snapshot), NEW d, NEW t, NEW name, NEW scrap, NEW ent,
         NEW ws, ws = CreatStores(d, t, name, scrap, ent),
         NEW final, final = WithFile(Snapshot, d, t, name, scrap, ent)
  PROVE  /\ \E S : ws \in Seq(S)
         /\ Shaped(final)
         /\ Coming(ws, Snapshot, final)
         /\ final.harm =
              (harm \cup Struck("no_block", EntryBlock(inodes[d]) = -1
                                            \/ (t = MFS_DIRECTORY /\ OwnBlock(inodes[d], t) = -1)))
              \cup Struck("stray_write",
                          t = MFS_DIRECTORY
                          /\ (SpillsOver(NewInum)
                              \/ \E n \in StrayHits(NewInum) : inode_bitmap[n] = 1))
<1>1. PICK new, b, own, slot : /\ new = NewInum /\ b = EntryBlock(inodes[d])
                               /\ own = OwnBlock(inodes[d], t) /\ slot = SlotForEntry(inodes[d])
  OBVIOUS
<1>2. PICK parent, made, bits, marks, e1 :
        /\ parent = WithEntry(inodes[d], b) /\ made = NewInode(t, own)
        /\ bits = Occupied(inode_bitmap, new)
        /\ marks = Occupied(TakenForEntry(inodes[d], data_bitmap), own)
        /\ e1 = [inum |-> new, name |-> name]
  OBVIOUS
<1>3. /\ FreeInum(Snapshot) = new
      /\ EntryBlockIn(Snapshot, d) = b
      /\ OwnBlockIn(Snapshot, d, t) = own
  BY <1>1 DEF FreeInum, FreeBlock, EntryBlockIn, OwnBlockIn, NewInum, EntryBlock, OwnBlock, Snapshot
<1>4. /\ final.inode_bitmap = bits
      /\ final.data_bitmap = marks
      /\ final.inodes = CreatedInodes(Snapshot, d, t, scrap)
      /\ final.data = CreatedData(Snapshot, d, t, name, ent)
      /\ final.harm = (harm \cup Struck("no_block", b = -1 \/ (t = MFS_DIRECTORY /\ own = -1)))
                      \cup Struck("stray_write",
                                  t = MFS_DIRECTORY
                                  /\ (SpillsOver(new)
                                      \/ \E n \in StrayHits(new) : inode_bitmap[n] = 1))
  <2>1. PICK is, ds, h :
          /\ is = CreatedInodes(Snapshot, d, t, scrap)
          /\ ds = CreatedData(Snapshot, d, t, name, ent)
          /\ h = (harm \cup Struck("no_block", b = -1 \/ (t = MFS_DIRECTORY /\ own = -1)))
                 \cup Struck("stray_write",
                             t = MFS_DIRECTORY
                             /\ (SpillsOver(new)
                                 \/ \E n \in StrayHits(new) : inode_bitmap[n] = 1))
    OBVIOUS
  <2>2. /\ Snapshot.inode_bitmap = inode_bitmap /\ Snapshot.data_bitmap = data_bitmap
        /\ Snapshot.inodes = inodes /\ Snapshot.harm = harm
    BY DEF Snapshot
  <2>3. final = [inode_bitmap |-> bits, data_bitmap |-> marks, inodes |-> is, data |-> ds,
                 harm |-> h]
    BY <1>2, <1>3, <2>1, <2>2, Zenon DEF WithFile
  <2>. QED BY <2>1, <2>3
<1>5. PICK tail, stray, spilled :
        /\ tail = IF b = -1 THEN [n \in TailHits(slot) |-> scrap[n]] ELSE Nowhere
        /\ stray = IF t = MFS_DIRECTORY
                   THEN [n \in StrayHits(new) |->
                           IF n = new + 1 THEN [scrap[n] EXCEPT !.type = new] ELSE scrap[n]]
                   ELSE Nowhere
        /\ spilled = IF t = MFS_DIRECTORY /\ SpillsOver(new) THEN At(<<0, 0>>, ent) ELSE Nowhere
  OBVIOUS
<1>6. PICK w1, w2, w3, w4, w5, w6 :
        /\ w1 = StoreInodeBitmap(bits) /\ w2 = StoreDataBitmap(marks) /\ w3 = StoreInode(d, parent)
        /\ w4 = WithTail(StoreEntry(b, slot, e1), b, slot, scrap)
        /\ w5 = StoreInode(new, made) /\ w6 = Stray(new, scrap, ent)
  OBVIOUS
<1>7. ws = << w1, w2, w3, w4, w5 >> \o IF t = MFS_DIRECTORY THEN << w6 >> ELSE << >>
  BY <1>1, <1>2, <1>6, Zenon DEF CreatStores
<1>8. /\ \E S : ws \in Seq(S)
      /\ t = MFS_DIRECTORY => Six(ws, w1, w2, w3, w4, w5, w6)
      /\ t # MFS_DIRECTORY => Five(ws, w1, w2, w3, w4, w5)
  <2>1. CASE t = MFS_DIRECTORY
    <3>1. ws = << w1, w2, w3, w4, w5 >> \o << w6 >>
      BY <1>7, <2>1
    <3>. QED BY <2>1, <3>1, SixWrites
  <2>2. CASE t # MFS_DIRECTORY
    <3>1. ws = << w1, w2, w3, w4, w5 >> \o << >>
      BY <1>7, <2>2
    <3>2. ws = << w1, w2, w3, w4, w5 >>
      BY <3>1
    <3>. QED BY <2>2, <3>2, FiveWrites
  <2>. QED BY <2>1, <2>2
<1>9. /\ w4.inode_bitmap = Nowhere /\ w4.data_bitmap = Nowhere
      /\ w4.inodes = tail /\ w4.data = At(<<b, slot>>, e1)
  BY <1>5, <1>6, TailFields
<1>10. t = MFS_DIRECTORY => /\ w6.inode_bitmap = Nowhere /\ w6.data_bitmap = Nowhere
                            /\ w6.inodes = stray /\ w6.data = spilled
  BY <1>5, <1>6, StrayFields
<1>11. t # MFS_DIRECTORY => stray = Nowhere /\ spilled = Nowhere
  BY <1>5
<1>12. /\ inode_bitmap = [x \in Inums |-> inode_bitmap[x]]
       /\ data_bitmap = [x \in Blocks |-> data_bitmap[x]]
       /\ inodes = [x \in Inums |-> inodes[x]]
       /\ DataShaped(data)
  BY DEF Shaped, Snapshot, DataShaped
<1>13. bits = [x \in Inums |-> bits[x]] /\ marks = [x \in Blocks |-> marks[x]]
  BY <1>2, <1>12 DEF Occupied, TakenForEntry
<1>14. CreatLeads(ws, Snapshot, final, d, new, <<b, slot>>, e1, parent, made, bits, marks, tail,
                  stray, spilled)
  <2>1. DOMAIN bits = Inums /\ DOMAIN marks = Blocks
    BY <1>13
  <2>2. CASE t = MFS_DIRECTORY
    <3>1. /\ Len(ws) = 6
          /\ ws[1] = w1 /\ ws[2] = w2 /\ ws[3] = w3 /\ ws[4] = w4 /\ ws[5] = w5 /\ ws[6] = w6
      BY <1>8, <2>2 DEF Six
    <3>. QED BY <1>4, <1>6, <1>9, <1>10, <2>1, <2>2, <3>1 DEF CreatLeads
  <2>3. CASE t # MFS_DIRECTORY
    <3>1. /\ Len(ws) = 5
          /\ ws[1] = w1 /\ ws[2] = w2 /\ ws[3] = w3 /\ ws[4] = w4 /\ ws[5] = w5
      BY <1>8, <2>3 DEF Five
    <3>. QED BY <1>4, <1>6, <1>9, <1>11, <2>1, <2>3, <3>1 DEF CreatLeads
  <2>. QED BY <2>2, <2>3
<1>15. /\ DOMAIN tail = IF b = -1 THEN TailHits(slot) ELSE {}
       /\ \A x \in DOMAIN tail : tail[x] = scrap[x]
       /\ DOMAIN stray = IF t = MFS_DIRECTORY THEN StrayHits(new) ELSE {}
       /\ \A x \in DOMAIN stray :
            stray[x] = IF x = new + 1 THEN [scrap[x] EXCEPT !.type = new] ELSE scrap[x]
  BY <1>5, NowherePlaces
<1>16. /\ final.inodes = [x \in Inums |-> final.inodes[x]]
       /\ InodesLead(Snapshot, final, d, new, parent, made, tail, stray)
  <2>1. Snapshot.inodes = inodes
    BY DEF Snapshot
  <2>2. final.inodes =
          [x \in Inums |->
             IF t = MFS_DIRECTORY /\ x \in StrayHits(new) THEN
               IF x = new + 1 THEN [scrap[x] EXCEPT !.type = new] ELSE scrap[x]
             ELSE IF x = new THEN made
             ELSE IF b = -1 /\ x \in TailHits(slot) THEN scrap[x]
             ELSE IF x = d THEN parent
             ELSE inodes[x]]
    BY <1>1, <1>2, <1>3, <1>4, <2>1, Zenon DEF CreatedInodes
  <2>3. final.inodes = [x \in Inums |-> final.inodes[x]]
    BY <2>2
  <2>4. ASSUME NEW x \in Inums
        PROVE  /\ x \in DOMAIN stray => final.inodes[x] = stray[x]
               /\ x \notin DOMAIN stray /\ x = new => final.inodes[x] = made
               /\ x \notin DOMAIN stray /\ x # new /\ x \in DOMAIN tail =>
                    final.inodes[x] = tail[x]
               /\ x \notin DOMAIN stray /\ x # new /\ x \notin DOMAIN tail /\ x = d =>
                    final.inodes[x] = parent
               /\ x \notin DOMAIN stray /\ x # new /\ x \notin DOMAIN tail /\ x # d =>
                    final.inodes[x] = inodes[x]
    BY <1>15, <2>2
  <2>. QED BY <2>1, <2>3, <2>4 DEF InodesLead
<1>17. DataShaped(final.data) /\ DataLead(Snapshot, final, <<b, slot>>, e1, spilled)
  <2>1. Snapshot.data = data /\ Snapshot.inodes = inodes
    BY DEF Snapshot
  <2>2. PICK entered : entered = Entered(data, b, slot, e1)
    OBVIOUS
  <2>3. DataShaped(entered) /\ EntryAt(data, <<b, slot>>, e1, entered)
    BY <1>12, <2>2, EntryStored
  <2>4. final.data = IF t = MFS_DIRECTORY /\ SpillsOver(new) THEN Entered(entered, 0, 0, ent)
                     ELSE entered
    BY <1>1, <1>2, <1>3, <1>4, <2>1, <2>2, Zenon DEF CreatedData, Entered
  <2>5. CASE t = MFS_DIRECTORY /\ SpillsOver(new)
    <3>1. DOMAIN spilled = {<<0, 0>>} /\ spilled[<<0, 0>>] = ent
      BY <1>5, <2>5 DEF At
    <3>2. DataShaped(final.data) /\ EntryAt(entered, <<0, 0>>, ent, final.data)
      BY <2>3, <2>4, <2>5, EntryStored
    <3>3. ASSUME NEW x \in Pointers, NEW s \in Slots
          PROVE  /\ <<x, s>> \in DOMAIN spilled => final.data[x][s] = spilled[<<x, s>>]
                 /\ <<x, s>> \notin DOMAIN spilled /\ <<x, s>> = <<b, slot>> =>
                      final.data[x][s] = e1
                 /\ <<x, s>> \notin DOMAIN spilled /\ <<x, s>> # <<b, slot>> =>
                      final.data[x][s] = data[x][s]
      <4>1. /\ <<x, s>> = <<0, 0>> => final.data[x][s] = ent
            /\ <<x, s>> # <<0, 0>> => final.data[x][s] = entered[x][s]
        BY <3>2 DEF EntryAt
      <4>2. /\ <<x, s>> = <<b, slot>> => entered[x][s] = e1
            /\ <<x, s>> # <<b, slot>> => entered[x][s] = data[x][s]
        BY <2>3 DEF EntryAt
      <4>. QED BY <3>1, <4>1, <4>2
    <3>. QED BY <2>1, <3>2, <3>3 DEF DataLead
  <2>6. CASE ~(t = MFS_DIRECTORY /\ SpillsOver(new))
    <3>1. DOMAIN spilled = {}
      BY <1>5, <2>6, NowherePlaces
    <3>2. final.data = entered
      BY <2>4, <2>6
    <3>. QED BY <2>1, <2>3, <3>1, <3>2 DEF DataLead, EntryAt
  <2>. QED BY <2>5, <2>6
<1>18. Shaped(final)
  BY <1>4, <1>13, <1>16, <1>17 DEF Shaped, DataShaped
<1>19. Coming(ws, Snapshot, final)
  BY <1>14, <1>16, <1>17, CreatComing
<1>. QED BY <1>1, <1>4, <1>8, <1>18, <1>19

LEMMA WriteWrites ==
  ASSUME Shaped(Snapshot), NEW n, NEW j, NEW text, NEW ws, ws = WriteStores(n, j, text)
  PROVE  /\ \E S : ws \in Seq(S)
         /\ inodes[n].blocks[j] # -1 =>
              LET final == Overwritten(Snapshot, inodes[n].blocks[j], text)
              IN  Shaped(final) /\ Coming(ws, Snapshot, final)
         /\ inodes[n].blocks[j] = -1 =>
              LET final == Extended(Snapshot, n, j, text)
              IN  Shaped(final) /\ Coming(ws, Snapshot, final)
<1>1. PICK p, new : p = inodes[n].blocks[j] /\ new = next_available_block(data_bitmap)
  OBVIOUS
<1>2. CASE p # -1
  <2>1. ws = << StoreBlock(p, text) >>
    BY <1>1, <1>2, Zenon DEF WriteStores
  <2>2. Len(ws) = 1 /\ ws[1] = StoreBlock(p, text) /\ \E S : ws \in Seq(S)
    BY <2>1, OneWrite
  <2>3. PICK final : final = Overwritten(Snapshot, p, text)
    OBVIOUS
  <2>4. Shaped(final) /\ Coming(ws, Snapshot, final)
    BY <2>2, <2>3, OverwriteComing
  <2>. QED BY <1>1, <1>2, <2>2, <2>3, <2>4
<1>3. CASE p = -1
  <2>1. PICK a, b, c : /\ a = StoreBlock(new, text)
                       /\ b = StoreInode(n, push_inode_update(inodes[n], j, new))
                       /\ c = StoreDataBitmap(At(new, 1))
    OBVIOUS
  <2>2. ws = << a, b, c >>
    BY <1>1, <1>3, <2>1, Zenon DEF WriteStores
  <2>3. Three(ws, a, b, c) /\ \E S : ws \in Seq(S)
    BY <2>2, ThreeWrites
  <2>4. /\ Len(ws) = 3
        /\ ws[1] = StoreBlock(new, text)
        /\ ws[2] = StoreInode(n, push_inode_update(inodes[n], j, new))
        /\ ws[3] = StoreDataBitmap(At(new, 1))
    BY <2>1, <2>3 DEF Three
  <2>5. PICK final : final = Extended(Snapshot, n, j, text)
    OBVIOUS
  <2>6. Shaped(final) /\ Coming(ws, Snapshot, final)
    BY <1>1, <2>4, <2>5, ExtendComing
  <2>. QED BY <1>1, <1>3, <2>3, <2>5, <2>6
<1>. QED BY <1>2, <1>3

LEMMA CreatStoresOf ==
  ASSUME NEW Q, NEW T, NEW n, NEW t, NEW name,
         NEW ws \in {CreatStores(n, t, name, scrap, ent) : scrap \in Q, ent \in T}
  PROVE  \E scrap \in Q, ent \in T : ws = CreatStores(n, t, name, scrap, ent)
OBVIOUS

LEMMA UnlinkStoresOf ==
  ASSUME NEW Q, NEW T, NEW n, NEW name,
         NEW ws \in {UnlinkStores(n, name, unlinked, ents) : unlinked \in Q, ents \in T}
  PROVE  \E unlinked \in Q, ents \in T : ws = UnlinkStores(n, name, unlinked, ents)
OBVIOUS

LEMMA BeginLeads ==
  ASSUME Shaped(Snapshot), NEW m, Writing(m), NEW ws \in Stores(m)
  PROVE  /\ \E S : ws \in Seq(S)
         /\ \E final : /\ Outcome(Snapshot, m, final)
                       /\ Shaped(final)
                       /\ Coming(ws, Snapshot, final)
                       /\ harm \cup Strikes(m) = final.harm
<1>1. CASE m.message_type = "W"
  <2>1. /\ WriteOK(m.inum, m.block)
        /\ inodes[m.inum].blocks[m.block] # -1 \/ next_available_block(data_bitmap) # -1
    BY <1>1 DEF Writing
  <2>2. ws = WriteStores(m.inum, m.block, m.buffer)
    BY <1>1 DEF Stores
  <2>3. Strikes(m) = {}
    BY <1>1 DEF Strikes
  <2>4. WritableIn(Snapshot, m.inum, m.block)
    BY <2>1, ImageLooks
  <2>5. /\ Snapshot.inodes = inodes /\ Snapshot.harm = harm
        /\ FreeBlock(Snapshot) = next_available_block(data_bitmap)
    BY DEF Snapshot, FreeBlock
  <2>6. CASE inodes[m.inum].blocks[m.block] # -1
    <3>1. PICK final : final = Overwritten(Snapshot, inodes[m.inum].blocks[m.block], m.buffer)
      OBVIOUS
    <3>2. (\E S : ws \in Seq(S)) /\ Shaped(final) /\ Coming(ws, Snapshot, final)
      BY <2>2, <2>6, <3>1, WriteWrites
    <3>3. final.harm = harm
      BY <3>1 DEF Overwritten, Snapshot
    <3>4. Overwrites(Snapshot, m, final)
      BY <1>1, <2>4, <2>5, <2>6, <3>1 DEF Overwrites
    <3>. QED BY <2>3, <3>2, <3>3, <3>4 DEF Outcome
  <2>7. CASE inodes[m.inum].blocks[m.block] = -1
    <3>1. PICK final : final = Extended(Snapshot, m.inum, m.block, m.buffer)
      OBVIOUS
    <3>2. (\E S : ws \in Seq(S)) /\ Shaped(final) /\ Coming(ws, Snapshot, final)
      BY <2>2, <2>7, <3>1, WriteWrites
    <3>3. final.harm = harm
      BY <3>1 DEF Extended, Snapshot
    <3>4. Extends(Snapshot, m, final)
      BY <1>1, <2>1, <2>4, <2>5, <2>7, <3>1 DEF Extends
    <3>. QED BY <2>3, <3>2, <3>3, <3>4 DEF Outcome
  <2>. QED BY <2>6, <2>7
<1>2. CASE m.message_type = "U"
  <2>1. UnlinkOK(m.inum) /\ Found(m.inum, m.name) # -1
    BY <1>2 DEF Writing
  <2>2. PICK unlinked \in {inode \in LoadedFor(m.inum, m.name) : Removable(inode)},
             ents \in EntriesOver(EntryFor(m.inum, m.name).inum) :
          ws = UnlinkStores(m.inum, m.name, unlinked, ents)
    <3>1. Stores(m) =
            {UnlinkStores(m.inum, m.name, unlinked, ents) :
               unlinked \in {inode \in LoadedFor(m.inum, m.name) : Removable(inode)},
               ents \in EntriesOver(EntryFor(m.inum, m.name).inum)}
      BY <1>2 DEF Stores
    <3>. QED BY <3>1, UnlinkStoresOf
  <2>3. Strikes(m) = Struck("default_entry", NotMade(m.inum, m.name))
    BY <1>2 DEF Strikes
  <2>4. PICK final : final = WithoutEntry(Snapshot, m.inum, m.name, unlinked, ents)
    OBVIOUS
  <2>5. /\ \E S : ws \in Seq(S)
        /\ Shaped(final)
        /\ Coming(ws, Snapshot, final)
        /\ final.harm = harm \cup Struck("default_entry", NotMade(m.inum, m.name))
    BY <2>2, <2>4, UnlinkWrites
  <2>6. Unlinks(Snapshot, m, unlinked, ents, final)
    <3>1. unlinked \in LoadedFor(m.inum, m.name) /\ Removable(unlinked)
      BY <2>2
    <3>2. /\ DirIn(Snapshot, m.inum) /\ FoundIn(Snapshot, m.inum, m.name) # -1
          /\ unlinked \in LoadedIn(Snapshot, EntryIn(Snapshot, m.inum, m.name).inum)
          /\ RemovableIn(Snapshot, unlinked)
          /\ ents \in EntriesOver(EntryIn(Snapshot, m.inum, m.name).inum)
      BY <2>1, <2>2, <3>1, ImageLooks
    <3>. QED BY <1>2, <2>4, <3>2, Zenon DEF Unlinks
  <2>. QED BY <2>3, <2>5, <2>6 DEF Outcome
<1>3. CASE m.message_type = "C"
  <2>1. CreatOK(m.inum) /\ Found(m.inum, m.name) = -1 /\ HasRoom(m.inum)
    BY <1>3 DEF Writing
  <2>2. Stores(m) = {CreatStores(m.inum, m.type, m.name, scrap, ent) :
                       scrap \in [Inums -> ScrapInodes],
                       ent \in IF SpillsOver(NewInum) THEN SpilledEnts(NewInum) ELSE {ZeroEnt}}
    BY <1>3 DEF Stores
  <2>3. \E scrap \in [Inums -> ScrapInodes],
           ent \in IF SpillsOver(NewInum) THEN SpilledEnts(NewInum) ELSE {ZeroEnt} :
          ws = CreatStores(m.inum, m.type, m.name, scrap, ent)
    BY <2>2, CreatStoresOf
  <2>4. PICK scrap \in [Inums -> ScrapInodes],
             ent \in IF SpillsOver(NewInum) THEN SpilledEnts(NewInum) ELSE {ZeroEnt} :
          ws = CreatStores(m.inum, m.type, m.name, scrap, ent)
    BY <2>3
  <2>5. SpillsOver(NewInum) => ent \in SpilledEnts(NewInum)
    OBVIOUS
  <2>6. FreeInum(Snapshot) = NewInum
    BY DEF FreeInum, NewInum, Snapshot
  <2>7. PICK final : final = WithFile(Snapshot, m.inum, m.type, m.name, scrap, ent)
    OBVIOUS
  <2>8. /\ \E S : ws \in Seq(S)
        /\ Shaped(final)
        /\ Coming(ws, Snapshot, final)
    BY <2>4, <2>7, CreatWrites
  <2>9. final.harm = harm \cup Strikes(m)
    <3>1. PICK one, other :
            /\ one = Struck("no_block", EntryBlock(inodes[m.inum]) = -1
                              \/ (m.type = MFS_DIRECTORY /\ OwnBlock(inodes[m.inum], m.type) = -1))
            /\ other = Struck("stray_write",
                          m.type = MFS_DIRECTORY
                          /\ (SpillsOver(NewInum)
                              \/ \E n \in StrayHits(NewInum) : inode_bitmap[n] = 1))
      OBVIOUS
    <3>2. Strikes(m) = one \cup other
      BY <1>3, <3>1 DEF Strikes
    <3>3. final.harm =
            (harm \cup Struck("no_block", EntryBlock(inodes[m.inum]) = -1
                              \/ (m.type = MFS_DIRECTORY /\ OwnBlock(inodes[m.inum], m.type) = -1)))
            \cup Struck("stray_write",
                        m.type = MFS_DIRECTORY
                        /\ (SpillsOver(NewInum)
                            \/ \E n \in StrayHits(NewInum) : inode_bitmap[n] = 1))
      <4>1. ASSUME NEW d, NEW t, d = m.inum, t = m.type
            PROVE  final.harm =
                     (harm \cup Struck("no_block", EntryBlock(inodes[d]) = -1
                                       \/ (t = MFS_DIRECTORY /\ OwnBlock(inodes[d], t) = -1)))
                     \cup Struck("stray_write",
                                 t = MFS_DIRECTORY
                                 /\ (SpillsOver(NewInum)
                                     \/ \E n \in StrayHits(NewInum) : inode_bitmap[n] = 1))
        <5>1. /\ ws = CreatStores(d, t, m.name, scrap, ent)
              /\ final = WithFile(Snapshot, d, t, m.name, scrap, ent)
          BY <2>4, <2>7, <4>1
        <5>. QED BY <5>1, CreatWrites
      <4>. QED BY <4>1
    <3>4. final.harm = (harm \cup one) \cup other
      BY <3>1, <3>3, Zenon
    <3>. QED BY <3>2, <3>4
  <2>10. Creates(Snapshot, m, scrap, ent, final)
    BY <1>3, <2>1, <2>5, <2>6, <2>7, ImageLooks DEF Creates
  <2>. QED BY <2>8, <2>9, <2>10 DEF Outcome
<1>. QED BY <1>1, <1>2, <1>3 DEF Writing

-----------------------------------------------------------------------------
(***************************************************************************)
(* An outcome that has come about, and is answered with success, is a step *)
(* of the server that MFSCrash shows.                                      *)
(***************************************************************************)
Comes(final, t) ==
  /\ Seen'.inode_bitmap = final.inode_bitmap
  /\ Seen'.data_bitmap = final.data_bitmap
  /\ Seen'.inodes = final.inodes
  /\ Seen'.data = final.data
  /\ Seen'.harm = final.harm
  /\ Seen'.reply = Reply(t, 0)

LEMMA OverwriteServed ==
  ASSUME NEW m, m.inum \in Inums, m.block \in BlockIndices,
         NEW final, Overwrites(Seen, m, final), Comes(final, "W")
  PROVE  Server!Handle(m)
<1>1. PICK p : p = Seen.inodes[m.inum].blocks[m.block]
  OBVIOUS
<1>2. /\ m.message_type = "W" /\ WritableIn(Seen, m.inum, m.block)
      /\ p # -1 /\ final = Overwritten(Seen, p, m.buffer)
  BY <1>1 DEF Overwrites
<1>3. /\ Seen'.inode_bitmap = Seen.inode_bitmap /\ Seen'.data_bitmap = Seen.data_bitmap
      /\ Seen'.inodes = Seen.inodes /\ Seen'.harm = Seen.harm
      /\ Seen'.data = [Seen.data EXCEPT ![p] = TextBlock(m.buffer)]
      /\ Seen'.reply = Reply("W", 0)
  BY <1>2 DEF Comes, Overwritten
<1>4. Server!WriteOK(m.inum, m.block)
  BY <1>2, SeenLooks
<1>5. m.block \in Server!BlockIndices
  BY DEF BlockIndices, Server!BlockIndices
<1>6. Server!TextBlock(m.buffer) = TextBlock(m.buffer) /\ Server!Reply("W", 0) = Reply("W", 0)
  BY SameContents, SameReplies
<1>7. Server!WriteInPlace(m.inum, m.block, m.buffer)
  BY <1>1, <1>2, <1>3, <1>4, <1>5, <1>6 DEF Server!WriteInPlace
<1>8. m.inum # MFS_INODE_TABLE_SIZE
  BY SizesAssumption DEF Inums
<1>. QED BY <1>2, <1>7, <1>8 DEF Server!Handle, Server!reply_Write

LEMMA ExtendServed ==
  ASSUME NEW m, m.inum \in Inums, m.block \in BlockIndices,
         NEW final, Extends(Seen, m, final), Comes(final, "W")
  PROVE  Server!Handle(m)
<1>1. PICK b : b = FreeBlock(Seen)
  OBVIOUS
<1>2. /\ m.message_type = "W" /\ WritableIn(Seen, m.inum, m.block)
      /\ Seen.inodes[m.inum].blocks[m.block] = -1
      /\ b # -1 /\ final = Extended(Seen, m.inum, m.block, m.buffer)
  BY <1>1 DEF Extends
<1>3. /\ Seen'.inode_bitmap = Seen.inode_bitmap /\ Seen'.harm = Seen.harm
      /\ Seen'.data_bitmap = Occupied(Seen.data_bitmap, b)
      /\ Seen'.inodes = [Seen.inodes EXCEPT ![m.inum] =
                           push_inode_update(Seen.inodes[m.inum], m.block, b)]
      /\ Seen'.data = [Seen.data EXCEPT ![b] = TextBlock(m.buffer)]
      /\ Seen'.reply = Reply("W", 0)
  BY <1>1, <1>2 DEF Comes, Extended
<1>4. Server!WriteOK(m.inum, m.block)
  BY <1>2, SeenLooks
<1>5. m.block \in Server!BlockIndices
  BY DEF BlockIndices, Server!BlockIndices
<1>6. Server!TextBlock(m.buffer) = TextBlock(m.buffer) /\ Server!Reply("W", 0) = Reply("W", 0)
  BY SameContents, SameReplies
<1>7. /\ Server!next_available_block(Seen.data_bitmap) = b
      /\ Server!Occupied(Seen.data_bitmap, b) = Occupied(Seen.data_bitmap, b)
      /\ Server!push_inode_update(Seen.inodes[m.inum], m.block, b) =
           push_inode_update(Seen.inodes[m.inum], m.block, b)
  BY <1>1, SameAllocation DEF FreeBlock
<1>8. Server!Struck("past_table", m.block \notin Server!BlockIndices) = {}
  BY <1>5 DEF Server!Struck
<1>9. Server!WriteNewBlock(m.inum, m.block, m.buffer)
  BY <1>2, <1>3, <1>4, <1>5, <1>6, <1>7, <1>8 DEF Server!WriteNewBlock
<1>10. m.inum # MFS_INODE_TABLE_SIZE
  BY SizesAssumption DEF Inums
<1>. QED BY <1>2, <1>9, <1>10 DEF Server!Handle, Server!reply_Write

LEMMA UnlinkServed ==
  ASSUME NEW m, NEW unlinked, NEW ents, NEW final, Unlinks(Seen, m, unlinked, ents, final),
         Comes(final, "U")
  PROVE  Server!Handle(m)
<1>1. PICK d, name : d = m.inum /\ name = m.name
  OBVIOUS
<1>2. PICK i, n : i = FoundIn(Seen, d, name) /\ n = EntryIn(Seen, d, name).inum
  OBVIOUS
<1>3. /\ m.message_type = "U" /\ DirIn(Seen, d) /\ i # -1
      /\ unlinked \in LoadedIn(Seen, n) /\ RemovableIn(Seen, unlinked)
      /\ ents \in EntriesOver(n)
      /\ final = WithoutEntry(Seen, d, name, unlinked, ents)
  BY <1>1, <1>2 DEF Unlinks
<1>4. PICK parent : parent = [Seen.inodes[d] EXCEPT !.real_size = @ - 1]
  OBVIOUS
<1>5. /\ Seen'.inode_bitmap = [Seen.inode_bitmap EXCEPT ![n] = 0]
      /\ Seen'.data_bitmap = decomission_blocks(unlinked, Seen.data_bitmap)
      /\ Seen'.inodes = [[Seen.inodes EXCEPT ![d] = parent]
                           EXCEPT ![n] = decomission_inode(unlinked)]
      /\ Seen'.data = WithEntries([Seen.data EXCEPT ![EntBlock(Seen.inodes[d], i)] =
                                     [@ EXCEPT ![i % DirEntsPerBlock] = UnusedEnt]], ents)
      /\ Seen'.harm = Seen.harm \cup Struck("default_entry", NotMadeIn(Seen, d, name))
      /\ Seen'.reply = Reply("U", 0)
  <2>1. EntryRemoved(Seen, d, name) = [Seen.data EXCEPT ![EntBlock(Seen.inodes[d], i)] =
                                         [@ EXCEPT ![i % DirEntsPerBlock] = UnusedEnt]]
    BY <1>2, Zenon DEF EntryRemoved
  <2>2. /\ final.inode_bitmap = [Seen.inode_bitmap EXCEPT ![n] = 0]
        /\ final.data_bitmap = decomission_blocks(unlinked, Seen.data_bitmap)
        /\ final.inodes = [[Seen.inodes EXCEPT ![d] = parent]
                             EXCEPT ![n] = decomission_inode(unlinked)]
        /\ final.data = WithEntries(EntryRemoved(Seen, d, name), ents)
        /\ final.harm = Seen.harm \cup Struck("default_entry", NotMadeIn(Seen, d, name))
    BY <1>2, <1>3, <1>4 DEF WithoutEntry
  <2>. QED BY <2>1, <2>2, Zenon DEF Comes
<1>6. /\ Server!UnlinkOK(d)
      /\ Server!Found(d, name) = i
      /\ Server!EntryFor(d, name).inum = n
      /\ Server!Removable(unlinked)
      /\ Server!LoadedFor(d, name) = LoadedIn(Seen, n)
      /\ Server!NotMade(d, name) <=> NotMadeIn(Seen, d, name)
  BY <1>2, <1>3, SeenLooks
<1>7. /\ Server!EntBlock(Seen.inodes[d], i) = EntBlock(Seen.inodes[d], i)
      /\ Server!UnusedEnt = UnusedEnt
      /\ Server!decomission_blocks(unlinked, Seen.data_bitmap) =
           decomission_blocks(unlinked, Seen.data_bitmap)
      /\ Server!decomission_inode(unlinked) = decomission_inode(unlinked)
      /\ Server!Reply("U", 0) = Reply("U", 0)
      /\ Server!Struck("default_entry", Server!NotMade(d, name)) =
           Struck("default_entry", NotMadeIn(Seen, d, name))
      /\ Server!EntriesOver(n) = EntriesOver(n)
      /\ \A blocks : Server!WithEntries(blocks, ents) = WithEntries(blocks, ents)
  BY <1>6, SameSearch, SameContents, SameAllocation, SameReplies, SamePlaces
     DEF Struck, Server!Struck
<1>8. [Seen.inodes EXCEPT ![d].real_size = @ - 1] = [Seen.inodes EXCEPT ![d] = parent]
  BY <1>4
<1>9. PICK removed : removed = [Seen.data EXCEPT ![EntBlock(Seen.inodes[d], i)] =
                                  [@ EXCEPT ![i % DirEntsPerBlock] = UnusedEnt]]
  OBVIOUS
<1>10. \E some \in Server!EntriesOver(n) : Seen'.data = Server!WithEntries(removed, some)
  BY <1>3, <1>5, <1>7, <1>9, Zenon
<1>11. \E some \in Server!LoadedFor(d, name) :
         /\ Server!Removable(some)
         /\ Seen'.inodes = [[Seen.inodes EXCEPT ![d].real_size = @ - 1]
                              EXCEPT ![n] = Server!decomission_inode(some)]
         /\ Seen'.data_bitmap = Server!decomission_blocks(some, Seen.data_bitmap)
  BY <1>3, <1>5, <1>6, <1>7, <1>8, Zenon
<1>12. Server!UnlinkRemove(d, name)
  BY <1>3, <1>5, <1>6, <1>7, <1>9, <1>10, <1>11, Zenon DEF Server!UnlinkRemove
<1>. QED BY <1>1, <1>3, <1>12, Zenon DEF Server!Handle, Server!reply_Unlink

LEMMA SuchScrap ==
  ASSUME NEW S, S \subseteq Inums, NEW scrap \in [Inums -> ScrapInodes]
  PROVE  \E some \in [S -> ScrapInodes] : \A n \in S : some[n] = scrap[n]
<1>1. [n \in S |-> scrap[n]] \in [S -> ScrapInodes]
  OBVIOUS
<1>. QED BY <1>1

LEMMA CreateServed ==
  ASSUME NEW m, NEW scrap \in [Inums -> ScrapInodes], NEW ent,
         NEW final, Creates(Seen, m, scrap, ent, final), Comes(final, "C")
  PROVE  Server!Handle(m)
<1>1. PICK d, name, t : d = m.inum /\ name = m.name /\ t = m.type
  OBVIOUS
<1>2. PICK dir, new, b, bitmap, own, slot, tail, stray :
        /\ dir = Seen.inodes[d] /\ new = FreeInum(Seen) /\ b = EntryBlockIn(Seen, d)
        /\ bitmap = TakenForEntry(Seen.inodes[d], Seen.data_bitmap)
        /\ own = OwnBlockIn(Seen, d, t) /\ slot = SlotForEntry(Seen.inodes[d])
        /\ tail = IF b = -1 THEN TailHits(slot) ELSE {}
        /\ stray = IF t = MFS_DIRECTORY THEN StrayHits(new) ELSE {}
  OBVIOUS
<1>3. /\ m.message_type = "C" /\ NoFileIn(Seen, d) /\ FoundIn(Seen, d, name) = -1
      /\ HasInodeIn(Seen, d)
      /\ SpillsOver(new) => ent \in SpilledEnts(new)
      /\ final = WithFile(Seen, d, t, name, scrap, ent)
  BY <1>1, <1>2 DEF Creates
<1>4. PICK entered : entered = [Seen.data EXCEPT ![b] =
                                  [@ EXCEPT ![slot] = [inum |-> new, name |-> name]]]
  OBVIOUS
<1>5. /\ Seen'.inode_bitmap = Occupied(Seen.inode_bitmap, new)
      /\ Seen'.data_bitmap = Occupied(bitmap, own)
      /\ Seen'.inodes = CreatedInodes(Seen, d, t, scrap)
      /\ Seen'.data = CreatedData(Seen, d, t, name, ent)
      /\ Seen'.reply = Reply("C", 0)
  BY <1>2, <1>3, Zenon DEF Comes, WithFile
<1>6. Seen'.harm = (Seen.harm \cup Struck("no_block", b = -1 \/ (t = MFS_DIRECTORY /\ own = -1)))
                   \cup Struck("stray_write",
                               t = MFS_DIRECTORY
                               /\ (SpillsOver(new)
                                   \/ \E n \in StrayHits(new) : Seen.inode_bitmap[n] = 1))
  BY <1>2, <1>3, Zenon DEF Comes, WithFile
<1>7. PICK spills \in BOOLEAN : spills <=> t = MFS_DIRECTORY /\ SpillsOver(new)
  OBVIOUS
<1>8. /\ ~spills => Seen'.data = entered
      /\ spills => /\ ent \in SpilledEnts(new)
                   /\ Seen'.data = [entered EXCEPT ![0] = [@ EXCEPT ![0] = ent]]
  <2>1. CreatedData(Seen, d, t, name, ent) =
          IF spills THEN [entered EXCEPT ![0] = [@ EXCEPT ![0] = ent]] ELSE entered
    BY <1>2, <1>4, <1>7 DEF CreatedData
  <2>. QED BY <1>3, <1>5, <1>7, <2>1
<1>9. \E some \in [tail \cup stray -> ScrapInodes] :
        Seen'.inodes = [n \in Inums |->
          IF n \in stray THEN
            IF n = new + 1 THEN [some[n] EXCEPT !.type = new] ELSE some[n]
          ELSE IF n = new THEN NewInode(t, own)
          ELSE IF n \in tail THEN some[n]
          ELSE IF n = d THEN WithEntry(dir, b)
          ELSE Seen.inodes[n]]
  <2>1. tail \cup stray \subseteq Inums
    BY <1>2 DEF TailHits, StrayHits, InodesOver
  <2>2. PICK some \in [tail \cup stray -> ScrapInodes] :
          \A n \in tail \cup stray : some[n] = scrap[n]
    BY <2>1, SuchScrap
  <2>3. Seen'.inodes = [n \in Inums |->
          IF n \in stray THEN IF n = new + 1 THEN [scrap[n] EXCEPT !.type = new] ELSE scrap[n]
          ELSE IF n = new THEN NewInode(t, own)
          ELSE IF n \in tail THEN scrap[n]
          ELSE IF n = d THEN WithEntry(dir, b)
          ELSE Seen.inodes[n]]
    <3>1. Seen'.inodes = [n \in Inums |->
            IF t = MFS_DIRECTORY /\ n \in StrayHits(new) THEN
              IF n = new + 1 THEN [scrap[n] EXCEPT !.type = new] ELSE scrap[n]
            ELSE IF n = new THEN NewInode(t, own)
            ELSE IF b = -1 /\ n \in TailHits(slot) THEN scrap[n]
            ELSE IF n = d THEN WithEntry(dir, b)
            ELSE Seen.inodes[n]]
      BY <1>2, <1>5, Zenon DEF CreatedInodes
    <3>2. \A n : n \in stray <=> t = MFS_DIRECTORY /\ n \in StrayHits(new)
      BY <1>2
    <3>3. \A n : n \in tail <=> b = -1 /\ n \in TailHits(slot)
      BY <1>2
    <3>. QED BY <3>1, <3>2, <3>3
  <2>4. Seen'.inodes = [n \in Inums |->
          IF n \in stray THEN IF n = new + 1 THEN [some[n] EXCEPT !.type = new] ELSE some[n]
          ELSE IF n = new THEN NewInode(t, own)
          ELSE IF n \in tail THEN some[n]
          ELSE IF n = d THEN WithEntry(dir, b)
          ELSE Seen.inodes[n]]
    BY <2>2, <2>3
  <2>. QED BY <2>4

<1>10. Server!CreatOK(d) /\ Server!Found(d, name) = -1 /\ Server!HasRoom(d)
  BY <1>3, SeenLooks
<1>. DEFINE Sdir == Seen.inodes[d]
            Snew == Server!next_available_inode(Seen.inode_bitmap)
            Sb == IF Server!BlockNeeded(Sdir) THEN Server!next_available_block(Seen.data_bitmap)
                  ELSE Server!LastBlock(Sdir)
            Sbitmap == Server!TakenForEntry(Sdir, Seen.data_bitmap)
            Sown == IF t = Server!MFS_DIRECTORY THEN Server!next_available_block(Sbitmap) ELSE -1
            Sslot == Server!SlotForEntry(Sdir)
            Sentered == [Seen.data EXCEPT ![Sb] =
                           [@ EXCEPT ![Sslot] = [inum |-> Snew, name |-> name]]]
            Stail == IF Sb = -1 THEN Server!TailHits(Sslot) ELSE {}
            Sstray == IF t = Server!MFS_DIRECTORY THEN Server!StrayHits(Snew) ELSE {}
            Sspills == t = Server!MFS_DIRECTORY /\ Server!SpillsOver(Snew)
<1>11. Server!MFS_DIRECTORY = MFS_DIRECTORY /\ Server!Inums = Inums
  BY DEF MFS_DIRECTORY, Inums, Server!MFS_DIRECTORY, Server!Inums
<1>12. Sdir = dir /\ Snew = new
  BY <1>2, SameAllocation DEF FreeInum
<1>13. Sb = b /\ Sbitmap = bitmap
  BY <1>2, SameAllocation, SameContents DEF EntryBlockIn, FreeBlock
<1>14. Sown = own /\ Sslot = slot
  <2>1. Server!next_available_block(bitmap) = next_available_block(bitmap)
    BY SameAllocation
  <2>. QED BY <1>2, <1>11, <1>13, <2>1, SameContents DEF OwnBlockIn
<1>. HIDE DEF Snew, Sb, Sbitmap, Sown, Sslot
<1>15. Sentered = entered
  BY <1>4, <1>12, <1>13, <1>14
<1>16. Stail = tail /\ Sstray = stray /\ (Sspills <=> spills)
  BY <1>2, <1>7, <1>11, <1>12, <1>13, <1>14, SameReplies
<1>. HIDE DEF Sdir, Sentered, Stail, Sstray, Sspills
<1>17. Seen'.inode_bitmap = Server!Occupied(Seen.inode_bitmap, Snew)
  BY <1>5, <1>12, SameAllocation
<1>18. Seen'.data_bitmap = Server!Occupied(Sbitmap, Sown)
  BY <1>5, <1>13, <1>14, SameAllocation
<1>19. \E some \in [Stail \cup Sstray -> ScrapInodes] :
         Seen'.inodes = [n \in Server!Inums |->
           IF n \in Sstray THEN
             IF n = Snew + 1 THEN [some[n] EXCEPT !.type = Snew] ELSE some[n]
           ELSE IF n = Snew THEN Server!NewInode(t, Sown)
           ELSE IF n \in Stail THEN some[n]
           ELSE IF n = d THEN Server!WithEntry(Sdir, Sb)
           ELSE Seen.inodes[n]]
  <2>1. /\ Server!NewInode(t, Sown) = NewInode(t, own)
        /\ Server!WithEntry(Sdir, Sb) = WithEntry(dir, b)
    BY <1>12, <1>13, <1>14, SameContents
  <2>. QED BY <1>9, <1>11, <1>12, <1>16, <2>1
<1>20. \/ ~Sspills /\ Seen'.data = Sentered
       \/ /\ Sspills
          /\ \E some \in Server!SpilledEnts(Snew) :
               Seen'.data = [Sentered EXCEPT ![0] = [@ EXCEPT ![0] = some]]
  <2>1. Server!SpilledEnts(Snew) = SpilledEnts(new)
    BY <1>12, SameReplies
  <2>. QED BY <1>7, <1>8, <1>15, <1>16, <2>1
<1>21. Seen'.harm = Seen.harm
         \cup Server!Struck("no_block", Sb = -1 \/ (t = Server!MFS_DIRECTORY /\ Sown = -1))
         \cup Server!Struck("stray_write", Sspills \/ \E n \in Sstray : Seen.inode_bitmap[n] = 1)
  <2>1. Server!Struck("no_block", Sb = -1 \/ (t = Server!MFS_DIRECTORY /\ Sown = -1)) =
          Struck("no_block", b = -1 \/ (t = MFS_DIRECTORY /\ own = -1))
    BY <1>11, <1>13, <1>14 DEF Struck, Server!Struck
  <2>2. (Sspills \/ \E n \in Sstray : Seen.inode_bitmap[n] = 1) <=>
          t = MFS_DIRECTORY
          /\ (SpillsOver(new) \/ \E n \in StrayHits(new) : Seen.inode_bitmap[n] = 1)
    BY <1>2, <1>7, <1>16
  <2>3. Server!Struck("stray_write", Sspills \/ \E n \in Sstray : Seen.inode_bitmap[n] = 1) =
          Struck("stray_write",
                 t = MFS_DIRECTORY
                 /\ (SpillsOver(new) \/ \E n \in StrayHits(new) : Seen.inode_bitmap[n] = 1))
    BY <2>2 DEF Struck, Server!Struck
  <2>. QED BY <1>6, <2>1, <2>3
<1>22. Seen'.reply = Server!Reply("C", 0)
  BY <1>5, SameReplies
<1>23. Server!CreatNew(d, t, name)
  BY <1>10, <1>17, <1>18, <1>19, <1>20, <1>21, <1>22, Zenon
     DEF Server!CreatNew, Sdir, Snew, Sb, Sbitmap, Sown, Sslot, Sentered, Stail, Sstray, Sspills
<1>. QED BY <1>1, <1>3, <1>23, Zenon DEF Server!Handle, Server!reply_Creat

-----------------------------------------------------------------------------
(***************************************************************************)
(* The invariant: the image has its shape, and while a handler writes,     *)
(* what is still to be written brings the image it began with to an        *)
(* outcome of its request.                                                 *)
(***************************************************************************)
LEMMA CrashStarts == CrashInit => CrashInv
<1>1. SUFFICES ASSUME CrashInit PROVE CrashInv
  OBVIOUS
<1>2. Shaped(Snapshot)
  <2>1. /\ inode_bitmap = FreshBitmap(Inums) /\ data_bitmap = FreshBitmap(Blocks)
        /\ inodes = FreshInodes /\ data = FreshData
    BY <1>1 DEF CrashInit, Init
  <2>2. /\ inode_bitmap = [n \in Inums |-> inode_bitmap[n]]
        /\ data_bitmap = [b \in Blocks |-> data_bitmap[b]]
        /\ inodes = [n \in Inums |-> inodes[n]]
    BY <2>1 DEF FreshBitmap, FreshInodes
  <2>3. data = [b \in Pointers |-> [s \in Slots |-> data[b][s]]]
    <3>1. RootBlock = [s \in Slots |-> RootBlock[s]]
      BY DEF RootBlock
    <3>2. PICK empty : empty = [s \in Slots |-> ZeroEnt]
      OBVIOUS
    <3>3. empty = [s \in Slots |-> empty[s]]
      BY <3>2
    <3>4. data = [b \in Pointers |-> IF b = 0 THEN RootBlock ELSE empty]
      BY <2>1, <3>2 DEF FreshData
    <3>5. \A b \in Pointers : data[b] = [s \in Slots |-> data[b][s]]
      BY <3>1, <3>3, <3>4
    <3>6. data = [b \in Pointers |-> data[b]]
      BY <3>4
    <3>. QED BY <3>5, <3>6
  <2>. QED BY <2>2, <2>3 DEF Shaped, Snapshot
<1>. QED BY <1>1, <1>2 DEF CrashInit, CrashInv, WritingInv

(***************************************************************************)
(* A step that leaves the image and is not taken while a handler writes.   *)
(***************************************************************************)
LEMMA ShapeKept ==
  ASSUME CrashInv, UNCHANGED image, server' # "writing", call' = Idle \/ call' \in Calls
  PROVE  CrashInv'
<1>1. Shaped(Snapshot)'
  BY DEF CrashInv, Shaped, Snapshot, image
<1>. QED BY <1>1 DEF CrashInv, WritingInv

(***************************************************************************)
(* A request that does not write changes nothing but the reply, which it   *)
(* finds in the image.                                                     *)
(***************************************************************************)
StatAnswer(img, m, r) ==
  /\ m.message_type = "S"
  /\ \/ img.inode_bitmap[m.inum] = 0 /\ r = Reply("S", -1)
     \/ /\ img.inode_bitmap[m.inum] # 0
        /\ r = [Reply("S", 0) EXCEPT !.stats = StatsOf(img.inodes[m.inum])]

ReadAnswer(img, m, r) ==
  /\ m.message_type = "R"
  /\ \/ ~(InumIn(img, m.inum) /\ BlockIn(img, m.inum, m.block)) /\ r = Reply("R", -1)
     \/ /\ InumIn(img, m.inum) /\ BlockIn(img, m.inum, m.block)
        /\ r = [Reply("R", 0) EXCEPT !.buffer = img.data[img.inodes[m.inum].blocks[m.block]]]

WriteAnswer(img, m, r) ==
  /\ m.message_type = "W"
  /\ \/ ~WritableIn(img, m.inum, m.block)
     \/ /\ WritableIn(img, m.inum, m.block)
        /\ img.inodes[m.inum].blocks[m.block] = -1 /\ FreeBlock(img) = -1
  /\ r = Reply("W", -1)

CreatAnswer(img, m, r) ==
  /\ m.message_type = "C"
  /\ \/ /\ ~(/\ NoFileIn(img, m.inum)
             /\ FoundIn(img, m.inum, m.name) # -1 \/ HasInodeIn(img, m.inum))
        /\ r = Reply("C", -1)
     \/ /\ NoFileIn(img, m.inum) /\ FoundIn(img, m.inum, m.name) # -1
        /\ r = Reply("C", 0)

UnlinkAnswer(img, m, r) ==
  /\ m.message_type = "U"
  /\ \/ /\ DirIn(img, m.inum) =>
             /\ FoundIn(img, m.inum, m.name) # -1
             /\ \E unlinked \in LoadedIn(img, EntryIn(img, m.inum, m.name).inum) :
                  ~RemovableIn(img, unlinked)
        /\ r = Reply("U", -1)
     \/ /\ DirIn(img, m.inum) /\ FoundIn(img, m.inum, m.name) = -1
        /\ r = Reply("U", 0)

AnswerIn(img, m, r) ==
  \/ StatAnswer(img, m, r)
  \/ ReadAnswer(img, m, r)
  \/ WriteAnswer(img, m, r)
  \/ CreatAnswer(img, m, r)
  \/ UnlinkAnswer(img, m, r)

AnswersOnly(m) ==
  \/ ~Writing(m) /\ Handle(m)
  \/ m.message_type = "U" /\ UnlinkRefused(m.inum, m.name)

LEMMA UnlinkAnswered ==
  ASSUME NEW m, m.message_type = "U",
         UnlinkRefused(m.inum, m.name) \/ UnlinkAbsent(m.inum, m.name)
  PROVE  \E r : Answer(r) /\ AnswerIn(Snapshot, m, r)
<1>1. /\ UnlinkOK(m.inum) <=> DirIn(Snapshot, m.inum)
      /\ Found(m.inum, m.name) = FoundIn(Snapshot, m.inum, m.name)
      /\ LoadedFor(m.inum, m.name) =
           LoadedIn(Snapshot, EntryIn(Snapshot, m.inum, m.name).inum)
      /\ \A inode : Removable(inode) <=> RemovableIn(Snapshot, inode)
  BY ImageLooks
<1>. QED BY <1>1, Zenon DEF UnlinkRefused, UnlinkAbsent, AnswerIn, UnlinkAnswer

LEMMA OnlyAnswered ==
  ASSUME NEW m \in Calls, AnswersOnly(m)
  PROVE  \E r : Answer(r) /\ AnswerIn(Snapshot, m, r)
<1>1. /\ m.inum \in Inums /\ m.block \in BlockIndices
      /\ m.message_type \in {"S", "R", "W", "C", "U"}
  BY KilledCallsAssumption, Zenon
<1>2. m.message_type # "U" => ~Writing(m) /\ Handle(m)
  BY DEF AnswersOnly
<1>3. CASE m.message_type = "S"
  <2>1. reply_Stat(m.inum)
    BY <1>3, <1>2 DEF Handle
  <2>. QED BY <1>3, <2>1 DEF reply_Stat, Answer, AnswerIn, StatAnswer, Snapshot
<1>4. CASE m.message_type = "R"
  <2>1. reply_Read(m.inum, m.block)
    BY <1>4, <1>2 DEF Handle
  <2>2. \/ ~ReadOK(m.inum, m.block) /\ Answer(Reply("R", -1))
        \/ /\ ReadOK(m.inum, m.block)
           /\ Answer([Reply("R", 0) EXCEPT !.buffer = data[inodes[m.inum].blocks[m.block]]])
    BY <2>1 DEF reply_Read
  <2>3. ReadOK(m.inum, m.block) <=>
          InumIn(Snapshot, m.inum) /\ BlockIn(Snapshot, m.inum, m.block)
    BY ImageLooks DEF ReadOK
  <2>4. Snapshot.data = data /\ Snapshot.inodes = inodes
    BY DEF Snapshot
  <2>. QED BY <1>4, <2>2, <2>3, <2>4, Zenon DEF AnswerIn, ReadAnswer
<1>5. CASE m.message_type = "W"
  <2>1. reply_Write(m.inum, m.block, m.buffer)
    BY <1>1, <1>5, <1>2, SizesAssumption DEF Handle, Inums
  <2>2. ~(/\ WriteOK(m.inum, m.block)
          /\ inodes[m.inum].blocks[m.block] # -1 \/ next_available_block(data_bitmap) # -1)
    BY <1>5, <1>2 DEF Writing
  <2>3. m.block # MFS_INODE_BLOCKS_SIZE
    BY <1>1, SizesAssumption DEF BlockIndices
  <2>4. WriteRefused(m.inum, m.block) \/ WriteNoSpace(m.inum, m.block)
    BY <1>1, <2>1, <2>2, <2>3 DEF reply_Write, WriteInPlace, WriteNewBlock, WritePastTable
  <2>5. /\ Answer(Reply("W", -1))
        /\ \/ ~WriteOK(m.inum, m.block)
           \/ /\ WriteOK(m.inum, m.block)
              /\ inodes[m.inum].blocks[m.block] = -1
              /\ next_available_block(data_bitmap) = -1
    BY <1>1, <2>4 DEF WriteRefused, WriteNoSpace
  <2>6. WriteOK(m.inum, m.block) <=> WritableIn(Snapshot, m.inum, m.block)
    BY ImageLooks
  <2>7. Snapshot.inodes = inodes /\ FreeBlock(Snapshot) = next_available_block(data_bitmap)
    BY DEF Snapshot, FreeBlock
  <2>. QED BY <1>5, <2>5, <2>6, <2>7, Zenon DEF AnswerIn, WriteAnswer
<1>6. CASE m.message_type = "C"
  <2>1. reply_Creat(m.inum, m.type, m.name)
    BY <1>6, <1>2 DEF Handle
  <2>2. ~(CreatOK(m.inum) /\ Found(m.inum, m.name) = -1 /\ HasRoom(m.inum))
    BY <1>6, <1>2 DEF Writing
  <2>3. CreatRefused(m.inum, m.name) \/ CreatExists(m.inum, m.name)
    BY <2>1, <2>2, Zenon DEF reply_Creat, CreatNew
  <2>4. /\ CreatOK(m.inum) <=> NoFileIn(Snapshot, m.inum)
        /\ Found(m.inum, m.name) = FoundIn(Snapshot, m.inum, m.name)
        /\ HasRoom(m.inum) <=> HasInodeIn(Snapshot, m.inum)
    BY ImageLooks
  <2>. QED BY <1>6, <2>3, <2>4, Zenon DEF CreatRefused, CreatExists, AnswerIn, CreatAnswer
<1>7. CASE m.message_type = "U"
  <2>1. ASSUME ~Writing(m), Handle(m)
        PROVE  UnlinkRefused(m.inum, m.name) \/ UnlinkAbsent(m.inum, m.name)
    <3>1. reply_Unlink(m.inum, m.name)
      BY <1>7, <2>1 DEF Handle
    <3>2. ~(/\ UnlinkOK(m.inum) /\ Found(m.inum, m.name) # -1
            /\ \E unlinked \in LoadedFor(m.inum, m.name) : Removable(unlinked))
      BY <1>7, <2>1 DEF Writing
    <3>. QED BY <3>1, <3>2, Zenon DEF reply_Unlink, UnlinkRemove
  <2>. QED BY <1>7, <2>1, UnlinkAnswered, Zenon DEF AnswersOnly
<1>. QED BY <1>1, <1>3, <1>4, <1>5, <1>6, <1>7, Zenon

LEMMA AnswerServed ==
  ASSUME NEW m, m.inum \in Inums, m.block \in BlockIndices,
         NEW r, AnswerIn(Seen, m, r), Server!Answer(r)
  PROVE  Server!Handle(m)
<1>1. CASE StatAnswer(Seen, m, r)
  <2>1. /\ Server!StatsOf(Seen.inodes[m.inum]) = StatsOf(Seen.inodes[m.inum])
        /\ Server!Reply("S", 0) = Reply("S", 0) /\ Server!Reply("S", -1) = Reply("S", -1)
    BY SameReplies
  <2>2. Server!reply_Stat(m.inum)
    BY <1>1, <2>1, Zenon DEF StatAnswer, Server!reply_Stat
  <2>. QED BY <1>1, <2>2, Zenon DEF StatAnswer, Server!Handle
<1>2. CASE ReadAnswer(Seen, m, r)
  <2>1. /\ Server!InumOK(m.inum) <=> InumIn(Seen, m.inum)
        /\ Server!BlockOK(m.inum, m.block) <=> BlockIn(Seen, m.inum, m.block)
        /\ Server!Reply("R", 0) = Reply("R", 0) /\ Server!Reply("R", -1) = Reply("R", -1)
    BY SeenLooks, SameReplies
  <2>2. Server!reply_Read(m.inum, m.block)
    BY <1>2, <2>1, Zenon DEF ReadAnswer, Server!reply_Read, Server!ReadOK
  <2>. QED BY <1>2, <2>2, Zenon DEF ReadAnswer, Server!Handle
<1>3. CASE WriteAnswer(Seen, m, r)
  <2>1. /\ Server!WriteOK(m.inum, m.block) <=> WritableIn(Seen, m.inum, m.block)
        /\ Server!Reply("W", -1) = Reply("W", -1)
        /\ Server!next_available_block(Seen.data_bitmap) = FreeBlock(Seen)
    BY SeenLooks, SameReplies, SameAllocation DEF FreeBlock
  <2>2. Server!WriteRefused(m.inum, m.block) \/ Server!WriteNoSpace(m.inum, m.block)
    BY <1>3, <2>1, Zenon DEF WriteAnswer, Server!WriteRefused, Server!WriteNoSpace
  <2>3. m.inum # MFS_INODE_TABLE_SIZE
    BY SizesAssumption DEF Inums
  <2>. QED BY <1>3, <2>2, <2>3, Zenon DEF WriteAnswer, Server!Handle, Server!reply_Write
<1>4. CASE CreatAnswer(Seen, m, r)
  <2>1. /\ Server!CreatOK(m.inum) <=> NoFileIn(Seen, m.inum)
        /\ Server!Found(m.inum, m.name) = FoundIn(Seen, m.inum, m.name)
        /\ Server!HasRoom(m.inum) <=> HasInodeIn(Seen, m.inum)
        /\ Server!Reply("C", 0) = Reply("C", 0) /\ Server!Reply("C", -1) = Reply("C", -1)
    BY SeenLooks, SameReplies
  <2>2. Server!CreatRefused(m.inum, m.name) \/ Server!CreatExists(m.inum, m.name)
    BY <1>4, <2>1, Zenon DEF CreatAnswer, Server!CreatRefused, Server!CreatExists
  <2>. QED BY <1>4, <2>2, Zenon DEF CreatAnswer, Server!Handle, Server!reply_Creat
<1>5. CASE UnlinkAnswer(Seen, m, r)
  <2>1. /\ Server!UnlinkOK(m.inum) <=> DirIn(Seen, m.inum)
        /\ Server!Found(m.inum, m.name) = FoundIn(Seen, m.inum, m.name)
        /\ Server!LoadedFor(m.inum, m.name) = LoadedIn(Seen, EntryIn(Seen, m.inum, m.name).inum)
        /\ \A inode : Server!Removable(inode) <=> RemovableIn(Seen, inode)
        /\ Server!Reply("U", 0) = Reply("U", 0) /\ Server!Reply("U", -1) = Reply("U", -1)
    BY SeenLooks, SameReplies
  <2>2. Server!UnlinkRefused(m.inum, m.name) \/ Server!UnlinkAbsent(m.inum, m.name)
    BY <1>5, <2>1, Zenon DEF UnlinkAnswer, Server!UnlinkRefused, Server!UnlinkAbsent
  <2>. QED BY <1>5, <2>2, Zenon DEF UnlinkAnswer, Server!Handle, Server!reply_Unlink
<1>. QED BY <1>1, <1>2, <1>3, <1>4, <1>5 DEF AnswerIn

LEMMA BeginKeeps == CrashInv /\ Begin => CrashInv'
<1>1. SUFFICES ASSUME CrashInv, Begin PROVE CrashInv'
  OBVIOUS
<1>2. PICK m : m = call
  OBVIOUS
<1>3. PICK ws, img, h : ws = writes' /\ img = Snapshot /\ h = harm \cup Strikes(m)
  OBVIOUS
<1>4. /\ m \in Calls /\ Writing(m) /\ ws \in Stores(m)
      /\ call' = m /\ server' = "writing" /\ before' = img /\ harm' = h
      /\ UNCHANGED image
  BY <1>1, <1>2, <1>3 DEF Begin, CrashInv
<1>5. Shaped(Snapshot)
  BY <1>1 DEF CrashInv
<1>6. PICK final : /\ Outcome(Snapshot, m, final)
                   /\ Shaped(final)
                   /\ Coming(ws, Snapshot, final)
                   /\ harm \cup Strikes(m) = final.harm
  BY <1>4, <1>5, BeginLeads
<1>7. \E S : ws \in Seq(S)
  BY <1>4, <1>5, BeginLeads
<1>8. Shaped(Snapshot)' /\ Shaped(before)'
  BY <1>3, <1>4, <1>5 DEF Shaped, Snapshot, image
<1>9. Outcome(img, m, final) /\ Shaped(final) /\ h = final.harm
  BY <1>3, <1>6
<1>10. Coming(ws, Snapshot', final)
  BY <1>4, <1>6 DEF Coming, Snapshot, image
<1>11. /\ call' \in Calls
       /\ \E S : writes' \in Seq(S)
       /\ \E f : /\ Outcome(before', call', f)
                 /\ Shaped(f)
                 /\ Coming(writes', Snapshot', f)
                 /\ harm' = f.harm
  BY <1>3, <1>4, <1>7, <1>9, <1>10
<1>. QED BY <1>8, <1>11 DEF CrashInv, WritingInv

LEMMA MakeWriteKeeps == CrashInv /\ MakeWrite => CrashInv'
<1>1. SUFFICES ASSUME CrashInv, MakeWrite PROVE CrashInv'
  OBVIOUS
<1>2. /\ server = "writing" /\ writes # << >> /\ Made(Head(writes))
      /\ writes' = Tail(writes)
      /\ harm' = harm /\ call' = call /\ server' = server /\ before' = before
  BY <1>1 DEF MakeWrite
<1>3. /\ call \in Calls /\ Shaped(Snapshot) /\ Shaped(before)
      /\ \E S : writes \in Seq(S)
      /\ \E final : /\ Outcome(before, call, final)
                    /\ Shaped(final)
                    /\ Coming(writes, Snapshot, final)
                    /\ harm = final.harm
  BY <1>1, <1>2 DEF CrashInv, WritingInv
<1>4. PICK S : writes \in Seq(S)
  BY <1>3
<1>5. PICK final : /\ Outcome(before, call, final)
                   /\ Shaped(final)
                   /\ Coming(writes, Snapshot, final)
                   /\ harm = final.harm
  BY <1>3
<1>6. Coming(Tail(writes), Snapshot', final)
  BY <1>2, <1>3, <1>4, <1>5, ComingOn
<1>7. Tail(writes) \in Seq(S)
  BY <1>2, <1>4, RestOfWrites
<1>8. Shaped(Snapshot)'
  BY <1>2, <1>3, MadePlaces
<1>9. PICK b, c : b = before /\ c = call
  OBVIOUS
<1>10. /\ Outcome(b, c, final) /\ before' = b /\ call' = c /\ c \in Calls
       /\ Shaped(before')
  BY <1>2, <1>3, <1>5, <1>9
<1>11. /\ call' \in Calls
       /\ \E T : writes' \in Seq(T)
       /\ \E f : /\ Outcome(before', call', f)
                 /\ Shaped(f)
                 /\ Coming(writes', Snapshot', f)
                 /\ harm' = f.harm
  BY <1>2, <1>5, <1>6, <1>7, <1>10
<1>. QED BY <1>8, <1>10, <1>11 DEF CrashInv, WritingInv

LEMMA CrashKeeps == CrashInv /\ [CrashNext]_crashvars => CrashInv'
<1>1. SUFFICES ASSUME CrashInv, [CrashNext]_crashvars PROVE CrashInv'
  OBVIOUS
<1>2. CASE Boot \/ MakePart \/ \E m \in Calls : ClientCall(m)
  <2>1. server = "writing" => call # Idle
    BY <1>1, KilledCallsAssumption DEF CrashInv, WritingInv
  <2>2. /\ UNCHANGED image
        /\ server' # "writing"
        /\ call' = Idle \/ call' \in Calls
    BY <1>1, <1>2, <2>1 DEF CrashInv, Boot, MakePart, ClientCall, image, vars
  <2>. QED BY <1>1, <2>2, ShapeKept
<1>3. CASE Begin
  BY <1>1, <1>3, BeginKeeps
<1>4. CASE MakeWrite
  BY <1>1, <1>4, MakeWriteKeeps
<1>5. CASE Finish
  <2>1. /\ UNCHANGED image
        /\ server' # "writing"
        /\ call' = Idle \/ call' \in Calls
    BY <1>1, <1>5 DEF CrashInv, Finish, Delivered
  <2>. QED BY <1>1, <2>1, ShapeKept
<1>6. CASE AnswerOnly
  <2>1. PICK m : m = call
    OBVIOUS
  <2>2. m \in Calls /\ AnswersOnly(m)
    BY <1>1, <1>6, <2>1 DEF CrashInv, AnswerOnly, AnswersOnly
  <2>3. \E r : Answer(r)
    BY <2>2, OnlyAnswered, Zenon
  <2>4. /\ UNCHANGED image
        /\ server' # "writing"
        /\ call' = Idle \/ call' \in Calls
    BY <1>1, <1>6, <2>3 DEF CrashInv, AnswerOnly, Delivered, Answer
  <2>. QED BY <1>1, <2>4, ShapeKept
<1>7. CASE Kill
  <2>1. /\ UNCHANGED image
        /\ server' # "writing"
        /\ call' = Idle \/ call' \in Calls
    BY <1>1, <1>7 DEF CrashInv, Kill, image, vars
  <2>. QED BY <1>1, <2>1, ShapeKept
<1>8. CASE UNCHANGED crashvars
  <2>1. /\ UNCHANGED <<inode_bitmap, data_bitmap, inodes, data, reply, harm>>
        /\ UNCHANGED <<call, server, writes, before>>
    BY <1>8 DEF crashvars, vars, crash
  <2>2. Snapshot' = Snapshot
    BY <2>1 DEF Snapshot
  <2>3. PICK img, b, c, ws, h : img = Snapshot /\ b = before /\ c = call /\ ws = writes /\ h = harm
    OBVIOUS
  <2>4. Snapshot' = img /\ before' = b /\ call' = c /\ writes' = ws /\ harm' = h
    BY <2>1, <2>2, <2>3
  <2>5. /\ c = Idle \/ c \in Calls
        /\ Shaped(img)
        /\ server = "writing" => Shaped(b)
        /\ server = "writing" =>
             /\ c \in Calls
             /\ \E S : ws \in Seq(S)
             /\ \E final : /\ Outcome(b, c, final)
                           /\ Shaped(final)
                           /\ Coming(ws, img, final)
                           /\ h = final.harm
    BY <1>1, <2>3, Zenon DEF CrashInv, WritingInv
  <2>6. server' = server
    BY <2>1
  <2>. QED BY <2>4, <2>5, <2>6, Zenon DEF CrashInv, WritingInv
<1>. QED BY <1>1, <1>2, <1>3, <1>4, <1>5, <1>6, <1>7, <1>8 DEF CrashNext

-----------------------------------------------------------------------------
(***************************************************************************)
(* The step of MFSServer comes about when the handler has made its last    *)
(* write and answers, or when a request that does not write is answered.   *)
(***************************************************************************)
LEMMA FinishServes ==
  ASSUME CrashInv, Finish
  PROVE  call # Idle /\ Server!Handle(call)
<1>1. /\ server = "writing" /\ writes = << >> /\ server' = "serving"
      /\ reply' = Reply(call.message_type, 0)
      /\ UNCHANGED <<inode_bitmap, data_bitmap, inodes, data, harm>>
  BY DEF Finish, image
<1>2. /\ call \in Calls /\ Shaped(Snapshot)
      /\ \E final : /\ Outcome(before, call, final)
                    /\ Shaped(final)
                    /\ Coming(writes, Snapshot, final)
                    /\ harm = final.harm
  BY <1>1 DEF CrashInv, WritingInv
<1>3. PICK m : m = call
  OBVIOUS
<1>4. PICK final : /\ Outcome(Seen, m, final)
                   /\ Shaped(final)
                   /\ Coming(<< >>, Snapshot, final)
                   /\ harm = final.harm
  <2>1. Seen = before
    BY <1>1 DEF Seen
  <2>. QED BY <1>1, <1>2, <1>3, <2>1
<1>5. /\ inode_bitmap = final.inode_bitmap /\ data_bitmap = final.data_bitmap
      /\ inodes = final.inodes /\ data = final.data
  BY <1>2, <1>4, NothingComing
<1>6. Seen' = Snapshot'
  BY <1>1 DEF Seen
<1>7. Comes(final, m.message_type)
  BY <1>1, <1>3, <1>4, <1>5, <1>6 DEF Comes, Snapshot
<1>8. m \in Calls /\ m.inum \in Inums /\ m.block \in BlockIndices
  BY <1>2, <1>3, KilledCallsAssumption, Zenon
<1>9. Server!Handle(m)
  <2>1. CASE Overwrites(Seen, m, final)
    <3>1. m.message_type = "W"
      BY <2>1 DEF Overwrites
    <3>. QED BY <1>7, <1>8, <2>1, <3>1, OverwriteServed, Zenon
  <2>2. CASE Extends(Seen, m, final)
    <3>1. m.message_type = "W"
      BY <2>2 DEF Extends
    <3>. QED BY <1>7, <1>8, <2>2, <3>1, ExtendServed, Zenon
  <2>3. ASSUME NEW unlinked, NEW ents, Unlinks(Seen, m, unlinked, ents, final)
        PROVE  Server!Handle(m)
    <3>1. m.message_type = "U"
      BY <2>3 DEF Unlinks
    <3>. QED BY <1>7, <2>3, <3>1, UnlinkServed, Zenon
  <2>4. ASSUME NEW scrap \in [Inums -> ScrapInodes], NEW ent, Creates(Seen, m, scrap, ent, final)
        PROVE  Server!Handle(m)
    <3>1. m.message_type = "C"
      BY <2>4 DEF Creates
    <3>. QED BY <1>7, <2>4, <3>1, CreateServed, Zenon
  <2>. QED BY <1>4, <2>1, <2>2, <2>3, <2>4, Zenon DEF Outcome
<1>. QED BY <1>3, <1>8, <1>9, KilledCallsAssumption

LEMMA AnswerOnlyServes ==
  ASSUME CrashInv, AnswerOnly
  PROVE  call # Idle /\ Server!Handle(call)
<1>1. PICK m : m = call
  OBVIOUS
<1>2. /\ m \in Calls /\ m # Idle /\ AnswersOnly(m)
      /\ server = "serving" /\ server' = "serving"
  BY <1>1 DEF CrashInv, AnswerOnly, AnswersOnly
<1>3. m.inum \in Inums /\ m.block \in BlockIndices
  BY <1>2, KilledCallsAssumption, Zenon
<1>4. PICK r : Answer(r) /\ AnswerIn(Snapshot, m, r)
  BY <1>2, OnlyAnswered, Zenon
<1>5. Seen = Snapshot /\ Seen' = Snapshot'
  BY <1>2 DEF Seen
<1>6. Server!Answer(r)
  BY <1>4, <1>5 DEF Answer, Server!Answer, image, Server!image, Snapshot
<1>7. AnswerIn(Seen, m, r)
  BY <1>4, <1>5
<1>8. Server!Handle(m)
  BY <1>3, <1>6, <1>7, AnswerServed, Zenon
<1>. QED BY <1>1, <1>2, <1>8

(***************************************************************************)
(* What other steps do is not seen.                                        *)
(***************************************************************************)
LEMMA Unseen ==
  ASSUME CrashInv,
         (Boot \/ MakePart \/ \E m \in Calls : ClientCall(m))
         \/ Begin \/ MakeWrite \/ UNCHANGED crashvars
  PROVE  Seen' = Seen
<1>1. CASE Boot \/ MakePart \/ \E m \in Calls : ClientCall(m)
  <2>1. server = "writing" => call # Idle
    BY KilledCallsAssumption DEF CrashInv, WritingInv
  <2>2. /\ UNCHANGED vars
        /\ server # "writing" /\ server' # "writing"
    BY <1>1, <2>1 DEF Boot, MakePart, ClientCall
  <2>3. Snapshot' = Snapshot
    BY <2>2 DEF vars, Snapshot
  <2>. QED BY <2>2, <2>3 DEF Seen
<1>2. CASE Begin
  BY <1>2 DEF Begin, Seen
<1>3. CASE MakeWrite
  BY <1>3 DEF MakeWrite, Seen
<1>4. CASE UNCHANGED crashvars
  <2>1. UNCHANGED vars /\ server' = server /\ before' = before
    BY <1>4 DEF crashvars, crash
  <2>2. Snapshot' = Snapshot
    BY <2>1 DEF vars, Snapshot
  <2>. QED BY <2>1, <2>2 DEF Seen
<1>. QED BY <1>1, <1>2, <1>3, <1>4

LEMMA CrashStepServes ==
  CrashInv /\ [CrashNext]_crashvars
    => [Kill \/ (call # Idle /\ Server!Handle(call))]_(Server!vars)
<1>1. SUFFICES ASSUME CrashInv, [CrashNext]_crashvars
               PROVE  [Kill \/ (call # Idle /\ Server!Handle(call))]_(Server!vars)
  OBVIOUS
<1>2. CASE (Boot \/ MakePart \/ \E m \in Calls : ClientCall(m))
           \/ Begin \/ MakeWrite \/ UNCHANGED crashvars
  <2>1. Seen' = Seen
    BY <1>1, <1>2, Unseen
  <2>. QED BY <2>1 DEF Server!vars
<1>3. CASE Finish
  BY <1>1, <1>3, FinishServes
<1>4. CASE AnswerOnly
  BY <1>1, <1>4, AnswerOnlyServes
<1>. QED BY <1>1, <1>2, <1>3, <1>4 DEF CrashNext

LEMMA SameFresh == CrashInit => Server!Init
<1>1. SUFFICES ASSUME CrashInit PROVE Server!Init
  OBVIOUS
<1>2. Seen = Snapshot
  BY <1>1 DEF CrashInit, Seen
<1>3. /\ Seen.inode_bitmap = FreshBitmap(Inums) /\ Seen.data_bitmap = FreshBitmap(Blocks)
      /\ Seen.inodes = FreshInodes /\ Seen.data = FreshData
      /\ Seen.reply = Reply("", 0) /\ Seen.harm = {}
  BY <1>1, <1>2 DEF CrashInit, Init, Snapshot
<1>4. Server!Inums = Inums /\ Server!Blocks = Blocks
  BY DEF Inums, Blocks, Server!Inums, Server!Blocks
<1>5. /\ Server!FreshBitmap(Inums) = FreshBitmap(Inums)
      /\ Server!FreshBitmap(Blocks) = FreshBitmap(Blocks)
  BY DEF FreshBitmap, Server!FreshBitmap
<1>6. Server!FreshInodes = FreshInodes
  BY <1>4 DEF FreshInodes, EmptyDir, ZeroInode, NoBlocks, BlockIndices, MFS_DIRECTORY,
              Server!FreshInodes, Server!EmptyDir, Server!ZeroInode, Server!NoBlocks,
              Server!BlockIndices, Server!MFS_DIRECTORY
<1>7. Server!FreshData = FreshData
  BY DEF FreshData, Pointers, RootBlock, Slots, ZeroEnt, Blocks, Dot, DotDot, Blank,
         Server!FreshData, Server!Pointers, Server!RootBlock, Server!Slots, Server!ZeroEnt,
         Server!Blocks, Server!Dot, Server!DotDot, Server!Blank
<1>8. Server!Reply("", 0) = Reply("", 0)
  BY SameReplies
<1>. QED BY <1>3, <1>4, <1>5, <1>6, <1>7, <1>8 DEF Server!Init

(***************************************************************************)
(* CrashInv holds in every state, whatever was killed and when.            *)
(***************************************************************************)
THEOREM WritesLeadToOutcome == CrashSpec => []CrashInv
BY CrashStarts, CrashKeeps, PTL DEF CrashSpec

(***************************************************************************)
(* The server write by write implements MFSServer: between kills, each     *)
(* request is one step of it, also on the images that kills have left      *)
(* (server.c:456-806).                                                     *)
(***************************************************************************)
THEOREM WritesAreOneStep == CrashSpec => ImplementsServer
BY SameFresh, CrashStepServes, WritesLeadToOutcome, PTL DEF CrashSpec, ImplementsServer

=============================================================================
