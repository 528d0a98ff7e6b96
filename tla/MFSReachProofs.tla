--------------------------- MODULE MFSReachProofs ---------------------------
(***************************************************************************)
(* More about MFSServer, from the invariant of MFSImageProofs: that the    *)
(* inodes in use are those that paths lead to, that the root keeps its     *)
(* first entry, and that a request that is carried out twice is harmless.  *)
(***************************************************************************)
EXTENDS MFSImageProofs, MFSCalls

-----------------------------------------------------------------------------
(***************************************************************************)
(* What changes the directories.  A step that does not harm the image      *)
(* leaves them as they are, makes an inode, or removes one; when it leaves *)
(* them it changes no inode but that of a file which gets a block.         *)
(***************************************************************************)
FilesGrow ==
  \A n \in InUse :
    \/ inodes'[n] = inodes[n]
    \/ /\ n \notin Dirs
       /\ \E block \in BlockIndices, b \in Blocks :
            /\ inodes[n].blocks[block] = -1
            /\ inodes'[n] = push_inode_update(inodes[n], block, b)

LEMMA WriteGrows ==
  ASSUME TypeInv, NEW inum \in InumArgs, NEW block \in BlockArgs,
         NEW text \in Texts, reply_Write(inum, block, text), Sound'
  PROVE  FilesGrow
<1>1. CASE inodes' = inodes
  BY <1>1 DEF FilesGrow
<1>2. CASE WriteNewBlock(inum, block, text)
  <2>. DEFINE b == next_available_block(data_bitmap)
  <2>1. Sound
    BY <1>2 DEF WriteNewBlock, Sound
  <2>2. /\ b # -1 /\ block \in BlockIndices
        /\ inodes' = [inodes EXCEPT ![inum] = push_inode_update(@, block, b)]
        /\ inodes[inum].blocks[block] = -1
    BY <1>2 DEF WriteNewBlock, Sound, Struck
  <2>3. inum \notin Dirs
    BY <1>2 DEF WriteNewBlock, WriteOK, Dirs
  <2>4. b \in Blocks
    BY <2>1, <2>2, InUseTyped, NextAvailable, ImageTypes DEF next_available_block
  <2>. HIDE DEF b
  <2>5. \A n \in InUse : \/ inodes'[n] = inodes[n]
                         \/ n = inum /\ inodes'[n] = push_inode_update(inodes[n], block, b)
    BY <2>1, <2>2, InUseTyped
  <2>. QED BY <2>2, <2>3, <2>4, <2>5 DEF FilesGrow
<1>3. CASE WritePastTable(inum, block, text)
  BY <1>3 DEF WritePastTable, Sound
<1>4. ASSUME Answer(Reply("W", -1)) PROVE inodes' = inodes
  BY <1>4 DEF Answer, image
<1>. QED
  BY <1>1, <1>2, <1>3, <1>4 DEF reply_Write, WriteRefused, WriteInPlace, WriteNoSpace

LEMMA StepChanges ==
  ASSUME ImageInv, [Next]_vars, Sound'
  PROVE  /\ TypeInv /\ Sound /\ Ordered
         /\ \/ SparesDirs /\ FilesGrow
            \/ \E pinum \in InumArgs, t \in TypeArgs, name \in Names :
                 \E new \in Inums, b \in Blocks, own \in Pointers :
                   Makes(pinum, t, name, new, b, own)
            \/ \E pinum \in InumArgs : \E i0, x : Removes(pinum, i0, x)
<1>. DEFINE spared == SparesDirs /\ FilesGrow
            made == \E pinum \in InumArgs, t \in TypeArgs, name \in Names :
                      \E new \in Inums, b \in Blocks, own \in Pointers :
                        Makes(pinum, t, name, new, b, own)
            removed == \E pinum \in InumArgs : \E i0, x : Removes(pinum, i0, x)
<1>. SUFFICES TypeInv /\ Sound /\ Ordered /\ (spared \/ made \/ removed)
  OBVIOUS
<1>. HIDE DEF spared, made, removed
<1>1. TypeInv /\ (Sound => Ordered)
  BY DEF ImageInv
<1>2. ASSUME UNCHANGED <<image, harm>> PROVE Sound /\ spared
  BY <1>2 DEF image, Sound, spared, SparesDirs, FilesGrow, InUse, Dirs
<1>3. ASSUME NEW r, Answer(r) PROVE Sound /\ spared
  BY <1>2, <1>3 DEF Answer
<1>4. CASE \/ reply_Init
           \/ \E pinum \in Inums, name \in Names : reply_Lookup(pinum, name)
           \/ \E inum \in Inums : reply_Stat(inum)
           \/ \E inum \in InumArgs, block \in BlockArgs : reply_Read(inum, block)
  BY <1>1, <1>3, <1>4 DEF reply_Init, reply_Lookup, reply_Stat, reply_Read
<1>5. ASSUME NEW inum \in InumArgs, NEW block \in BlockArgs, NEW text \in Texts,
             reply_Write(inum, block, text)
      PROVE  Sound /\ spared
  BY <1>1, <1>5, WriteKeeps, WriteGrows DEF spared
<1>6. ASSUME NEW pinum \in InumArgs, NEW name \in Names, NEW t \in TypeArgs,
             reply_Creat(pinum, t, name)
      PROVE  Sound /\ (spared \/ made)
  <2>1. CASE CreatNew(pinum, t, name)
    <3>1. /\ Sound
          /\ \E new \in Inums, b \in Blocks, own \in Pointers :
               Makes(pinum, t, name, new, b, own)
      BY <1>1, <2>1, CreatNewMakes
    <3>. QED BY <3>1 DEF made
  <2>. QED BY <1>3, <1>6, <2>1 DEF reply_Creat, CreatRefused, CreatExists
<1>7. ASSUME NEW pinum \in InumArgs, NEW name \in Names, reply_Unlink(pinum, name)
      PROVE  Sound /\ (spared \/ removed)
  <2>1. CASE UnlinkRemove(pinum, name)
    <3>1. Sound /\ Removes(pinum, Found(pinum, name), EntryFor(pinum, name).inum)
      BY <1>1, <2>1, UnlinkRemoves
    <3>. QED BY <3>1 DEF removed
  <2>. QED BY <1>3, <1>7, <2>1 DEF reply_Unlink, UnlinkRefused, UnlinkAbsent
<1>8. CASE UNCHANGED vars
  BY <1>1, <1>2, <1>8 DEF vars, image
<1>. QED BY <1>1, <1>4, <1>5, <1>6, <1>7, <1>8 DEF Next

-----------------------------------------------------------------------------
(***************************************************************************)
(* Paths.  A set of inodes that holds the root and the children of the     *)
(* directories in it is closed; the inodes in use are the only one.        *)
(***************************************************************************)
Closed(S) == 0 \in S /\ \A d \in S \cap Dirs : Children(d) \subseteq S
AllReached == \A S \in SUBSET InUse : Closed(S) => S = InUse

LEMMA InitReached == Init => AllReached
<1>. SUFFICES ASSUME Init, NEW S \in SUBSET InUse, Closed(S) PROVE S = InUse
  BY DEF AllReached
<1>1. \A n \in Inums : inode_bitmap[n] = IF n = 0 THEN 1 ELSE 0
  BY DEF Init, FreshBitmap
<1>2. \A n \in Inums : inode_bitmap[n] = 1 => n = 0
  BY <1>1
<1>3. \A n \in InUse : n = 0
  BY <1>2, Zenon DEF InUse
<1>. QED BY <1>3 DEF Closed

LEMMA MakesReached ==
  ASSUME TypeInv, Sound, Ordered, AllReached, NEW pinum, NEW t \in TypeArgs, NEW name,
         NEW new \in Inums, NEW b \in Blocks, NEW own \in Pointers,
         Makes(pinum, t, name, new, b, own)
  PROVE  AllReached'
<1>. SUFFICES ASSUME NEW S \in SUBSET InUse', Closed(S)' PROVE S = InUse'
  BY DEF AllReached
<1>. DEFINE T == S \ {new}
            s == inodes[pinum].size
<1>1. /\ pinum \in Dirs /\ pinum \in InUse
      /\ InUse' = InUse \cup {new} /\ new \notin InUse /\ new # pinum /\ new # 0
      /\ Dirs \subseteq Dirs'
  BY MakesEntries, InUseTyped
<1>2. ASSUME NEW d \in Dirs, NEW i \in Live(d)
      PROVE  i \in Live(d)' /\ Target(d, i)' = Target(d, i) /\ Target(d, i) \in InUse
  <2>1. i \in 0 .. inodes[d].size - 1
    BY InUseTyped DEF Live, Inode
  <2>2. EntAt(inodes'[d], i, data') = EntAt(inodes[d], i, data)
    BY <2>1, MakesEntries
  <2>3. i \in Live(d)'
    <3>1. CASE d = pinum
      <4>1. i \in Live(pinum) /\ Live(pinum)' = Live(pinum) \cup {s}
        BY <3>1, MakesEntries
      <4>2. i \in Live(pinum)'
        BY <4>1
      <4>. QED BY <3>1, <4>2 DEF Live
    <3>2. CASE d # pinum
      BY <3>2, MakesEntries
    <3>. QED BY <3>1, <3>2
  <2>. QED BY <2>2, <2>3 DEF Target, Ordered, EntriesUsed
<1>3. ASSUME NEW d \in T \cap Dirs, NEW i \in Live(d) PROVE Target(d, i) \in T
  <2>1. d \in S \cap Dirs'
    BY <1>1
  <2>2. Target(d, i)' \in S
    BY <1>2, <2>1 DEF Closed, Children
  <2>. QED BY <1>1, <1>2, <2>2
<1>4. T \in SUBSET InUse /\ Closed(T)
  BY <1>1, <1>3 DEF Closed, Children
<1>5. T = InUse
  BY <1>4 DEF AllReached
<1>6. new \in S
  <2>1. /\ Live(pinum)' = Live(pinum) \cup {s}
        /\ EntAt(inodes'[pinum], s, data') = [inum |-> new, name |-> name]
    BY MakesEntries
  <2>. PICK k : k = s
    OBVIOUS
  <2>. HIDE DEF s
  <2>2. /\ Live(pinum)' = Live(pinum) \cup {k}
        /\ EntAt(inodes'[pinum], k, data') = [inum |-> new, name |-> name]
    BY <2>1
  <2>3. k \in Live(pinum)'
    BY <2>2
  <2>4. EntAt(inodes'[pinum], k, data').inum = new
    BY <2>2
  <2>5. Target(pinum, k)' = new
    BY <2>4 DEF Target
  <2>6. new \in Children(pinum)'
    BY <2>3, <2>5 DEF Children
  <2>7. pinum \in S \cap Dirs'
    BY <1>1, <1>5
  <2>8. Children(pinum)' \subseteq S
    BY <2>7 DEF Closed
  <2>. QED BY <2>6, <2>8
<1>. QED BY <1>1, <1>5, <1>6

LEMMA RemovesReached ==
  ASSUME TypeInv, Sound, Ordered, AllReached, NEW pinum, NEW i0, NEW x, Removes(pinum, i0, x)
  PROVE  AllReached'
<1>. SUFFICES ASSUME NEW S \in SUBSET InUse', Closed(S)' PROVE S = InUse'
  BY DEF AllReached
<1>. DEFINE T == S \cup {x}
<1>1. /\ InUse' = InUse \ {x} /\ Dirs' = Dirs \ {x} /\ x \in InUse \ {0}
      /\ x \in Dirs => Live(x) = {}
  BY DEF Removes
<1>2. ASSUME NEW d \in Dirs', NEW i \in Live(d)
      PROVE  Target(d, i) = x \/ (i \in Live(d)' /\ Target(d, i)' = Target(d, i))
  <2>1. d \in Dirs /\ i \in 0 .. inodes[d].size - 1
    BY <1>1, InUseTyped DEF Live, Inode
  <2>2. CASE d = pinum /\ i = i0
    BY <2>2 DEF Removes
  <2>3. CASE ~(d = pinum /\ i = i0)
    <3>1. EntAt(inodes'[d], i, data') = EntAt(inodes[d], i, data)
      BY <2>1, <2>3 DEF Removes
    <3>2. i \in Live(d)'
      <4>1. CASE d = pinum
        <5>1. i \in Live(pinum) /\ i # i0 /\ Live(pinum)' = Live(pinum) \ {i0}
          BY <2>3, <4>1 DEF Removes
        <5>2. i \in Live(pinum)'
          BY <5>1
        <5>. QED BY <4>1, <5>2 DEF Live
      <4>2. CASE d # pinum
        BY <4>2 DEF Removes
      <4>. QED BY <4>1, <4>2
    <3>. QED BY <3>1, <3>2 DEF Target
  <2>. QED BY <2>2, <2>3
<1>3. ASSUME NEW d \in T \cap Dirs, NEW i \in Live(d) PROVE Target(d, i) \in T
  <2>1. CASE d = x
    BY <1>1, <2>1
  <2>2. CASE d # x
    <3>1. d \in S \cap Dirs'
      BY <1>1, <2>2
    <3>. QED BY <1>2, <3>1 DEF Closed, Children
  <2>. QED BY <2>1, <2>2
<1>4. T \in SUBSET InUse /\ Closed(T)
  BY <1>1, <1>3 DEF Closed, Children
<1>5. T = InUse
  BY <1>4 DEF AllReached
<1>. QED BY <1>1, <1>5

LEMMA SparesReached ==
  ASSUME TypeInv, Sound, Ordered, AllReached, SparesDirs
  PROVE  AllReached'
<1>. SUFFICES ASSUME NEW S \in SUBSET InUse', Closed(S)' PROVE S = InUse'
  BY DEF AllReached
<1>1. InUse' = InUse /\ Dirs' = Dirs
  BY DEF SparesDirs
<1>2. ASSUME NEW d \in S \cap Dirs, NEW i \in Live(d) PROVE Target(d, i) \in S
  <2>1. i \in Live(d)' /\ Target(d, i)' = Target(d, i)
    BY SameEntries
  <2>. QED BY <1>1, <2>1 DEF Closed, Children
<1>3. Closed(S)
  BY <1>2 DEF Closed, Children
<1>. QED BY <1>1, <1>3 DEF AllReached

(***************************************************************************)
(* Every inode in use can be reached from the root, by entries that Creat  *)
(* made: no request cuts off an inode, or takes one without naming it.     *)
(***************************************************************************)
THEOREM InodesAreReachable == Spec => []Reachable
<1>. DEFINE Inv == Sound => AllReached
<1>1. Init => Inv
  BY InitReached
<1>2. ImageInv /\ Inv /\ [Next]_vars => Inv'
  <2>. SUFFICES ASSUME ImageInv, Inv, [Next]_vars, Sound' PROVE AllReached'
    OBVIOUS
  <2>. QED BY StepChanges, MakesReached, RemovesReached, SparesReached
<1>3. Inv => Reachable
  BY DEF AllReached, Closed, Reachable
<1>. QED BY <1>1, <1>2, <1>3, OrderKept, PTL DEF Spec

-----------------------------------------------------------------------------
(***************************************************************************)
(* The root keeps the first block and, in it, its first entry: Creat adds  *)
(* behind it and Unlink takes away no default entry.                       *)
(***************************************************************************)
RootKept ==
  0 \in Dirs /\ inodes[0].blocks[0] = 0 /\ EntAt(inodes[0], 0, data).inum = 0

LEMMA FirstPlace == 0 \div DirEntsPerBlock = 0 /\ 0 % DirEntsPerBlock = 0
BY SizesAssumption

LEMMA InitRootKept == Init => RootKept
<1>. SUFFICES ASSUME Init PROVE RootKept
  OBVIOUS
<1>1. /\ inodes[0] = EmptyDir(0) /\ inode_bitmap[0] = 1 /\ 0 \in Inums
      /\ data[0] = RootBlock
  BY ImageTypes DEF Init, FreshBitmap, FreshInodes, FreshData, Pointers
<1>2. EmptyDir(0).type = MFS_DIRECTORY /\ EmptyDir(0).blocks[0] = 0
  BY ImageTypes DEF EmptyDir, NoBlocks
<1>3. RootBlock[0].inum = 0
  BY ImageTypes DEF RootBlock
<1>. QED BY <1>1, <1>2, <1>3, FirstPlace DEF RootKept, Dirs, InUse, EntAt, EntBlock

LEMMA RootIsKept ==
  ASSUME ImageInv, Sound => RootKept, [Next]_vars, Sound'
  PROVE  RootKept'
<1>1. TypeInv /\ Sound /\ Ordered /\ RootKept
  BY StepChanges
<1>2. /\ inodes[0] \in Inode /\ DirTable(inodes[0])
      /\ 0 \in 0 .. inodes[0].size - 1 /\ 0 \in BlockIndices
  BY <1>1, InUseTyped, ImageTypes DEF RootKept, Ordered, DirTable, Inode
<1>3. ASSUME 0 \in Dirs', inodes'[0].blocks[0] = inodes[0].blocks[0],
             EntAt(inodes'[0], 0, data') = EntAt(inodes[0], 0, data)
      PROVE  RootKept'
  BY <1>1, <1>3 DEF RootKept
<1>4. CASE SparesDirs
  <2>1. EntAt(inodes'[0], 0, data') = EntAt(inodes[0], 0, data)
    BY <1>1, <1>2, <1>4, SameEntries DEF RootKept
  <2>. QED BY <1>1, <1>3, <1>4, <2>1 DEF SparesDirs, RootKept
<1>5. ASSUME NEW pinum \in InumArgs, NEW t \in TypeArgs, NEW name \in Names,
             NEW new \in Inums, NEW b \in Blocks, NEW own \in Pointers,
             Makes(pinum, t, name, new, b, own)
      PROVE  RootKept'
  <2>1. /\ EntAt(inodes'[0], 0, data') = EntAt(inodes[0], 0, data)
        /\ 0 \in Dirs'
    <3>1. /\ \A d \in Dirs : \A i \in 0 .. inodes[d].size - 1 :
               EntAt(inodes'[d], i, data') = EntAt(inodes[d], i, data)
          /\ t = MFS_DIRECTORY => Dirs' = Dirs \cup {new}
          /\ t # MFS_DIRECTORY => Dirs' = Dirs
      BY <1>1, <1>5, MakesEntries
    <3>2. 0 \in Dirs
      BY <1>1 DEF RootKept
    <3>. QED BY <1>2, <3>1, <3>2
  <2>2. inodes'[0].blocks[0] = inodes[0].blocks[0]
    <3>1. CASE pinum = 0
      <4>1. /\ inodes'[0] = WithEntry(inodes[0], b)
            /\ inodes[0].size # MFS_INODE_BLOCKS_SIZE * DirEntsPerBlock
        BY <1>5, <3>1 DEF Makes
      <4>2. inodes[0].block_nums # 0
        BY <1>2, SizesAssumption DEF DirTable
      <4>. QED BY <1>2, <4>1, <4>2, WithEntryTable
    <3>2. CASE pinum # 0
      BY <1>1, <1>5, <3>2 DEF Makes, Ordered
    <3>. QED BY <3>1, <3>2
  <2>. QED BY <1>3, <2>1, <2>2
<1>6. ASSUME NEW pinum \in InumArgs, NEW i0, NEW x, Removes(pinum, i0, x)
      PROVE  RootKept'
  <2>1. /\ x \in InUse \ {0} /\ Dirs' = Dirs \ {x}
        /\ inodes'[0].blocks = inodes[0].blocks
        /\ i0 \in Live(pinum)
    BY <1>1, <1>6 DEF Removes, Ordered
  <2>2. 0 \in Dirs' /\ i0 # 0
    BY <1>1, <2>1 DEF RootKept, Live
  <2>3. EntAt(inodes'[0], 0, data') = EntAt(inodes[0], 0, data)
    BY <1>2, <1>6, <2>2 DEF Removes
  <2>. QED BY <1>3, <2>1, <2>2, <2>3
<1>. QED BY <1>4, <1>5, <1>6, StepChanges

(***************************************************************************)
(* What stands behind the inode table reads as a directory: a Write to     *)
(* inode number 4096 is refused.                                           *)
(***************************************************************************)
THEOREM RootStandsBehindTable == Spec => []DirectoryBehindTable
<1>. DEFINE Inv == Sound => RootKept
<1>1. Init => Inv
  BY InitRootKept
<1>2. ImageInv /\ Inv /\ [Next]_vars => Inv'
  BY RootIsKept
<1>3. Inv => DirectoryBehindTable
  BY FirstPlace DEF RootKept, DirectoryBehindTable, EntAt, EntBlock, MFS_DIRECTORY
<1>. QED BY <1>1, <1>2, <1>3, OrderKept, PTL DEF Spec

-----------------------------------------------------------------------------
(***************************************************************************)
(* The fields of the messages that the server is sent.                     *)
(***************************************************************************)
LEMMA MessageFields ==
  ASSUME NEW m \in Messages
  PROVE  /\ m.message_type \in {"L", "S"} => m.inum \in Inums
         /\ m.message_type \in {"R", "W", "C", "U"} => m.inum \in InumArgs
         /\ m.message_type \in {"L", "C", "U"} => m.name \in Names
         /\ m.message_type \in {"R", "W"} => m.block \in BlockArgs
         /\ m.message_type = "W" => m.buffer \in Texts
         /\ m.message_type = "C" => m.type \in TypeArgs
<1>1. CASE m = MFS_Init
  BY <1>1 DEF MFS_Init, Message
<1>2. CASE \E n \in Inums, name \in Names : m = MFS_Lookup(n, name)
  BY <1>2 DEF MFS_Lookup, Message
<1>3. CASE \E n \in Inums : m = MFS_Stat(n)
  BY <1>3 DEF MFS_Stat, Message
<1>4. CASE \E n \in InumArgs, j \in BlockArgs : m = MFS_Read(n, j)
  BY <1>4 DEF MFS_Read, Message
<1>5. CASE \E n \in InumArgs, j \in BlockArgs, text \in Texts : m = MFS_Write(n, text, j)
  BY <1>5 DEF MFS_Write, Message
<1>6. CASE \E n \in InumArgs, t \in TypeArgs, name \in Names : m = MFS_Creat(n, t, name)
  BY <1>6 DEF MFS_Creat, Message
<1>7. CASE \E n \in InumArgs, name \in Names : m = MFS_Unlink(n, name)
  BY <1>7 DEF MFS_Unlink, Message
<1>. QED BY <1>1, <1>2, <1>3, <1>4, <1>5, <1>6, <1>7 DEF Messages

-----------------------------------------------------------------------------
(***************************************************************************)
(* Requests that are carried out twice.                                    *)
(***************************************************************************)
LEMMA ValidInums ==
  ASSUME NEW inum \in Inums, NEW bitmap, bitmap[inum] = 1
  PROVE  valid_inum(inum, bitmap) # -1
BY SizesAssumption DEF valid_inum, Inums

(***************************************************************************)
(* The directories, as Creat and Unlink recognise them.                    *)
(***************************************************************************)
LEMMA OpenDirs ==
  ASSUME TypeInv, Sound, NEW n \in InumArgs
  PROVE  /\ CreatOK(n) <=> n \in Dirs
         /\ UnlinkOK(n) <=> n \in Dirs
<1>1. InumOK(n) => n \in InUse /\ inodes[n].type \in TypeArgs
  BY ValidInum, InUseTyped DEF TypeInv, InUse
<1>2. n \in InUse => InumOK(n)
  BY ValidInums DEF InUse, InumOK
<1>. QED
  BY <1>1, <1>2 DEF CreatOK, UnlinkOK, IsFile, Dirs, TypeArgs, MFS_DIRECTORY, MFS_REGULAR_FILE

LEMMA CreatIsDone ==
  ASSUME ImageInv, Sound', NEW n \in Inums, NEW t \in TypeArgs, NEW name \in Names,
         CreatNew(n, t, name)
  PROVE  CreatOK(n)' /\ Found(n, name)' # -1
<1>1. /\ TypeInv /\ Sound /\ Ordered
      /\ \E new \in Inums, b \in Blocks, own \in Pointers : Makes(n, t, name, new, b, own)
  BY CreatNewMakes DEF ImageInv, InumArgs
<1>2. PICK new \in Inums, b \in Blocks, own \in Pointers : Makes(n, t, name, new, b, own)
  BY <1>1
<1>3. /\ n \in Dirs /\ inodes[n] \in Inode
      /\ t = MFS_DIRECTORY => Dirs' = Dirs \cup {new}
      /\ t # MFS_DIRECTORY => Dirs' = Dirs
  BY <1>1, <1>2, MakesEntries
<1>4. inodes'[n].size = inodes[n].size + 1
  BY <1>1, <1>2, MakesEntries
<1>5. EntAt(inodes'[n], inodes[n].size, data') = [inum |-> new, name |-> name]
  BY <1>1, <1>2, MakesEntries
<1>6. inodes'[n] \in Inode
  BY <1>1, <1>2, <1>3, WithEntryTable DEF Makes, Ordered
<1>7. n \in Dirs'
  BY <1>3
<1>8. CreatOK(n)'
  BY <1>7, ValidInums DEF CreatOK, InumOK, IsFile, Dirs, InUse, MFS_DIRECTORY, MFS_REGULAR_FILE
<1>9. inodes[n].size \in Nat
  BY <1>3 DEF Inode
<1>10. PICK k : k = inodes[n].size
  OBVIOUS
<1>11. k \in 0 .. inodes'[n].size - 1
  BY <1>4, <1>9, <1>10
<1>12. EntAt(inodes'[n], k, data') = [inum |-> new, name |-> name]
  BY <1>5, <1>10
<1>13. new >= 0
  BY DEF Inums
<1>14. Hits(inodes'[n], name, data') # {}
  BY <1>11, <1>12, <1>13 DEF Hits
<1>. QED BY <1>6, <1>8, <1>14, SearchFinds DEF Found

LEMMA UnlinkIsDone ==
  ASSUME ImageInv, ImageInv', Sound', NEW n \in Inums, NEW name \in Names,
         UnlinkRemove(n, name)
  PROVE  UnlinkOK(n)' /\ Found(n, name)' = -1
<1>1. PICK i0, x : i0 = Found(n, name) /\ x = EntryFor(n, name).inum
  OBVIOUS
<1>2. TypeInv /\ TypeInv' /\ Sound /\ Ordered /\ Removes(n, i0, x)
  BY <1>1, UnlinkRemoves DEF ImageInv, InumArgs
<1>3. /\ n \in Dirs /\ n # x /\ Dirs' = Dirs \ {x} /\ n \in Dirs'
      /\ n \in InUse /\ inodes[n] \in Inode
      /\ i0 \in Live(n)
      /\ inodes'[n].size = inodes[n].size
  BY <1>2, InUseTyped DEF Removes
<1>4. UnlinkOK(n)'
  BY <1>3, ValidInums DEF UnlinkOK, InumOK, Dirs, InUse
<1>5. /\ i0 \in Hits(inodes[n], name, data)
      /\ \A i \in Hits(inodes[n], name, data) : i0 <= i
  <2>1. Hits(inodes[n], name, data) \subseteq Nat
    BY <1>3 DEF Hits, Inode
  <2>2. i0 # -1
    BY <1>3 DEF Live
  <2>3. /\ Hits(inodes[n], name, data) # {}
        /\ i0 = Min(Hits(inodes[n], name, data))
    BY <1>1, <2>2, <1>3 DEF Found, search_Directory
  <2>. QED BY <2>1, <2>3, MinOfNats
<1>6. ASSUME NEW i \in Hits(inodes'[n], name, data') PROVE FALSE
  <2>1. /\ i \in 0 .. inodes[n].size - 1
        /\ EntAt(inodes'[n], i, data').name = name
        /\ EntAt(inodes'[n], i, data').inum >= 0
    BY <1>3, <1>6 DEF Hits
  <2>2. EntAt(inodes'[n], i, data') = IF i = i0 THEN UnusedEnt ELSE EntAt(inodes[n], i, data)
    BY <1>2, <1>3, <2>1 DEF Removes
  <2>3. i # i0
    BY <2>1, <2>2 DEF UnusedEnt
  <2>4. i \in Hits(inodes[n], name, data)
    BY <2>1, <2>2, <2>3 DEF Hits
  <2>5. i \in Live(n)
    BY <1>3, <1>5, <2>1, <2>2, <2>3, <2>4 DEF Live, Inode
  <2>6. EntAt(inodes[n], i, data).name = EntAt(inodes[n], i0, data).name
    BY <1>5, <2>4 DEF Hits
  <2>. QED BY <1>2, <1>3, <2>3, <2>5, <2>6 DEF Ordered, NamesOnce
<1>7. inodes'[n] \in Inode
  BY <1>2, <1>3 DEF TypeInv, TypeOK, Sound, Dirs, InUse
<1>8. Hits(inodes'[n], name, data') = {}
  BY <1>6
<1>. QED BY <1>4, <1>7, <1>8, SearchFinds DEF Found

LEMMA WriteIsDone ==
  ASSUME ImageInv, Sound', NEW n \in Inums, NEW block \in BlockArgs, NEW text \in Texts,
         reply_Write(n, block, text), reply'.success = 0
  PROVE  /\ WriteOK(n, block)'
         /\ inodes'[n].blocks[block] # -1
         /\ data'[inodes'[n].blocks[block]] = TextBlock(text)
<1>1. ASSUME Answer(Reply("W", -1)) PROVE FALSE
  BY <1>1 DEF Answer, Reply
<1>2. TypeInv /\ Sound /\ WriteOK(n, block)
  BY <1>1 DEF reply_Write, WriteRefused, WriteInPlace, WriteNewBlock, WriteNoSpace,
              WritePastTable, ImageInv, TypeInv, Sound
<1>3. /\ inodes[n] \in Inode /\ data \in [Pointers -> DataBlock]
      /\ inodes = [d \in Inums |-> inodes[d]]
      /\ data_bitmap \in [Blocks -> {0, 1}]
  BY <1>2, ValidInum, InUseTyped DEF WriteOK, InUse, InumArgs
<1>4. CASE WriteInPlace(n, block, text)
  <2>1. inodes[n].blocks[block] \in Pointers
    BY <1>3, <1>4 DEF WriteInPlace, Inode
  <2>. QED BY <1>3, <1>4, <2>1 DEF WriteInPlace, WriteOK, InumOK
<1>5. CASE WriteNewBlock(n, block, text)
  <2>. DEFINE b == next_available_block(data_bitmap)
  <2>1. /\ WriteOK(n, block) /\ b # -1
        /\ data' = [data EXCEPT ![b] = TextBlock(text)]
        /\ inodes' = [inodes EXCEPT ![n] = push_inode_update(@, block, b)]
        /\ inode_bitmap' = inode_bitmap
        /\ harm' = harm \cup Struck("past_table", block \notin BlockIndices)
    BY <1>5 DEF WriteNewBlock
  <2>2. b \in Pointers
    BY <1>3, <2>1, NextAvailable, ImageTypes DEF next_available_block, Pointers
  <2>3. block \in BlockIndices
    BY <2>1 DEF Struck, Sound
  <2>. HIDE DEF b
  <2>4. /\ inodes'[n].type = inodes[n].type
        /\ inodes'[n].blocks[block] = b
    BY <1>3, <2>1, <2>3 DEF push_inode_update, Inode
  <2>5. data'[b] = TextBlock(text)
    BY <1>3, <2>1, <2>2
  <2>. QED BY <2>1, <2>4, <2>5 DEF WriteOK, InumOK
<1>6. CASE WritePastTable(n, block, text)
  BY <1>6 DEF WritePastTable, Sound
<1>. QED BY <1>1, <1>4, <1>5, <1>6 DEF reply_Write, WriteRefused, WriteNoSpace

(***************************************************************************)
(* A Creat, Unlink or Write that has been carried out finds, when its      *)
(* message comes again, that there is nothing left to do.                  *)
(***************************************************************************)
THEOREM RepeatedRequestsAreHarmless == Spec => RetryIsNoop
<1>. DEFINE Done == harm' = {} =>
       \A n \in Inums :
         /\ \A name \in Names :
              /\ (\E type \in TypeArgs : CreatNew(n, type, name)) =>
                   CreatOK(n)' /\ Found(n, name)' # -1
              /\ UnlinkRemove(n, name) => UnlinkOK(n)' /\ Found(n, name)' = -1
         /\ \A block \in BlockArgs, text \in Texts :
              reply_Write(n, block, text) /\ reply'.success = 0 =>
                /\ WriteOK(n, block)'
                /\ inodes'[n].blocks[block] # -1
                /\ data'[inodes'[n].blocks[block]] = TextBlock(text)
<1>1. ImageInv /\ ImageInv' /\ [Next]_vars => [Done]_vars
  BY CreatIsDone, UnlinkIsDone, WriteIsDone DEF Sound
<1>. QED BY <1>1, OrderKept, PTL DEF Spec, RetryIsNoop

-----------------------------------------------------------------------------
(***************************************************************************)
(* The numbers in the inodes: block_nums counts the pointers, size goes    *)
(* with block_nums for a file, and real_size counts the entries of a       *)
(* directory.                                                              *)
(***************************************************************************)
Held(inode) == {j \in BlockIndices : inode.blocks[j] # -1}
FileCounts(inode) ==
  inode.block_nums = Cardinality(Held(inode)) /\ inode.size = DirEntsPerBlock * inode.block_nums

FilesCounted == \A n \in InUse \ Dirs : FileCounts(inodes[n])
EntriesCounted == \A d \in Dirs : inodes[d].real_size = 2 + Cardinality(Live(d))

LEMMA HeldFinite ==
  ASSUME NEW inode
  PROVE  IsFiniteSet(Held(inode))
<1>1. IsFiniteSet(BlockIndices)
  BY SizesAssumption, FS_Interval DEF BlockIndices
<1>2. Held(inode) \in SUBSET BlockIndices
  BY DEF Held
<1>. QED BY <1>1, <1>2, FS_Subset

LEMMA LiveFinite ==
  ASSUME NEW d, inodes[d] \in Inode
  PROVE  IsFiniteSet(Live(d)) /\ Cardinality(Live(d)) \in Nat
<1>1. inodes[d].size - 1 \in Int /\ 2 \in Int
  BY DEF Inode
<1>2. IsFiniteSet(2 .. inodes[d].size - 1)
  BY <1>1, FS_Interval
<1>3. Live(d) \in SUBSET (2 .. inodes[d].size - 1)
  BY DEF Live
<1>4. IsFiniteSet(Live(d))
  BY <1>2, <1>3, FS_Subset
<1>. QED BY <1>4, FS_CardinalityType

(***************************************************************************)
(* The pointers of a directory come first: there are block_nums of them.   *)
(***************************************************************************)
LEMMA DirHeld ==
  ASSUME NEW inode \in Inode, DirTable(inode)
  PROVE  inode.block_nums = Cardinality(Held(inode))
<1>1. inode.block_nums \in Nat \ {0} /\ inode.block_nums <= MFS_INODE_BLOCKS_SIZE
  BY SizesAssumption DEF DirTable
<1>2. \A j : j \in Held(inode) <=> j \in 0 .. inode.block_nums - 1
  BY <1>1, SizesAssumption DEF DirTable, Held, BlockIndices
<1>3. Held(inode) = 0 .. inode.block_nums - 1
  BY <1>2
<1>4. 0 \in Int /\ inode.block_nums - 1 \in Int
  BY <1>1
<1>5. Cardinality(0 .. inode.block_nums - 1) =
        IF 0 > inode.block_nums - 1 THEN 0 ELSE inode.block_nums - 1 - 0 + 1
  BY <1>4, FS_Interval
<1>. QED BY <1>1, <1>3, <1>5

(***************************************************************************)
(* A file that is new, and one that gets a block where it had none.        *)
(***************************************************************************)
LEMMA NewFileCounts == FileCounts(NewInode(MFS_REGULAR_FILE, -1))
<1>1. /\ NewInode(MFS_REGULAR_FILE, -1).block_nums = 0
      /\ NewInode(MFS_REGULAR_FILE, -1).size = 0
      /\ NewInode(MFS_REGULAR_FILE, -1).blocks = NoBlocks
  BY DEF NewInode, ZeroInode, MFS_REGULAR_FILE, MFS_DIRECTORY
<1>2. Held(NewInode(MFS_REGULAR_FILE, -1)) = {}
  BY <1>1 DEF Held, NoBlocks
<1>. QED BY <1>1, <1>2, FS_EmptySet, SizesAssumption DEF FileCounts

LEMMA PushCounts ==
  ASSUME NEW inode \in Inode, FileCounts(inode), NEW block \in BlockIndices,
         NEW b \in Blocks, inode.blocks[block] = -1
  PROVE  FileCounts(push_inode_update(inode, block, b))
<1>. DEFINE pushed == push_inode_update(inode, block, b)
<1>1. /\ pushed.block_nums = inode.block_nums + 1
      /\ pushed.size = inode.size + DirEntsPerBlock
      /\ \A j \in BlockIndices : pushed.blocks[j] = IF j = block THEN b ELSE inode.blocks[j]
  BY DEF push_inode_update, Inode
<1>. HIDE DEF pushed
<1>2. b # -1
  BY DEF Blocks
<1>3. Held(pushed) = Held(inode) \cup {block} /\ block \notin Held(inode)
  BY <1>1, <1>2 DEF Held
<1>4. Cardinality(Held(pushed)) = Cardinality(Held(inode)) + 1
  BY <1>3, HeldFinite, FS_AddElement
<1>5. /\ inode.block_nums \in Nat /\ DirEntsPerBlock \in Nat
      /\ inode.size = DirEntsPerBlock * inode.block_nums
  BY SizesAssumption DEF Inode, FileCounts
<1>6. pushed.size = DirEntsPerBlock * pushed.block_nums
  BY <1>1, <1>5
<1>. QED BY <1>1, <1>4, <1>6 DEF FileCounts, pushed

(***************************************************************************)
(* Each kind of step keeps the counts.                                     *)
(***************************************************************************)
LEMMA InitCounted == Init => FilesCounted /\ EntriesCounted
<1>. SUFFICES ASSUME Init PROVE FilesCounted /\ EntriesCounted
  OBVIOUS
<1>1. \A n \in Inums : inode_bitmap[n] = IF n = 0 THEN 1 ELSE 0
  BY DEF Init, FreshBitmap
<1>2. inodes[0] = EmptyDir(0)
  BY ImageTypes DEF Init, FreshInodes
<1>3. inodes[0].type = MFS_DIRECTORY /\ inodes[0].real_size = 2 /\ inodes[0].size = 2
  BY <1>2 DEF EmptyDir
<1>4. \A n \in InUse : n = 0
  <2>1. \A n \in Inums : inode_bitmap[n] = 1 => n = 0
    BY <1>1
  <2>. QED BY <2>1, Zenon DEF InUse
<1>5. InUse \ Dirs = {}
  BY <1>3, <1>4 DEF Dirs
<1>6. Live(0) = {}
  BY <1>3 DEF Live
<1>. QED BY <1>3, <1>4, <1>5, <1>6, FS_EmptySet DEF FilesCounted, EntriesCounted, Dirs

LEMMA SparesCounts ==
  ASSUME TypeInv, Sound, Ordered, SparesDirs, FilesGrow, FilesCounted, EntriesCounted
  PROVE  FilesCounted' /\ EntriesCounted'
<1>1. InUse' = InUse /\ Dirs' = Dirs
  BY DEF SparesDirs
<1>2. ASSUME NEW n \in InUse \ Dirs PROVE FileCounts(inodes'[n])
  <2>1. FileCounts(inodes[n]) /\ inodes[n] \in Inode
    BY InUseTyped DEF FilesCounted
  <2>2. CASE inodes'[n] = inodes[n]
    BY <2>1, <2>2
  <2>3. CASE inodes'[n] # inodes[n]
    <3>1. PICK block \in BlockIndices, b \in Blocks :
             /\ inodes[n].blocks[block] = -1
             /\ inodes'[n] = push_inode_update(inodes[n], block, b)
      BY <2>3 DEF FilesGrow
    <3>. QED BY <2>1, <3>1, PushCounts
  <2>. QED BY <2>2, <2>3
<1>3. FilesCounted'
  BY <1>1, <1>2 DEF FilesCounted
<1>4. ASSUME NEW d \in Dirs PROVE inodes'[d].real_size = 2 + Cardinality(Live(d))'
  <2>1. inodes'[d] = inodes[d] /\ Live(d)' = Live(d)
    BY SameEntries DEF SparesDirs
  <2>. QED BY <2>1 DEF EntriesCounted
<1>. QED BY <1>1, <1>3, <1>4 DEF EntriesCounted

LEMMA MakesCounts ==
  ASSUME TypeInv, Sound, Ordered, FilesCounted, EntriesCounted,
         NEW pinum, NEW t \in TypeArgs, NEW name,
         NEW new \in Inums, NEW b \in Blocks, NEW own \in Pointers,
         Makes(pinum, t, name, new, b, own)
  PROVE  FilesCounted' /\ EntriesCounted'
<1>1. /\ pinum \in Dirs /\ inodes[pinum] \in Inode
      /\ InUse' = InUse \cup {new} /\ new \notin InUse
      /\ t = MFS_DIRECTORY => Dirs' = Dirs \cup {new}
      /\ t # MFS_DIRECTORY => Dirs' = Dirs
      /\ t = MFS_DIRECTORY => Live(new)' = {}
      /\ \A d \in Dirs \ {pinum} : Live(d)' = Live(d)
  BY MakesEntries
<1>2. /\ inodes'[new] = NewInode(t, own)
      /\ inodes'[pinum] = WithEntry(inodes[pinum], b)
      /\ \A n \in InUse \ {pinum} : inodes'[n] = inodes[n]
      /\ t # MFS_DIRECTORY => own = -1
  BY DEF Makes
<1>3. ASSUME NEW n \in InUse', n \notin Dirs' PROVE FileCounts(inodes'[n])
  <2>1. CASE n = new
    <3>1. t = MFS_REGULAR_FILE /\ t # MFS_DIRECTORY
      BY <1>1, <1>3, <2>1 DEF TypeArgs
    <3>. QED BY <1>2, <2>1, <3>1, NewFileCounts
  <2>2. CASE n # new
    <3>1. n \in InUse \ Dirs /\ n # pinum
      BY <1>1, <1>3, <2>2
    <3>. QED BY <1>2, <3>1 DEF FilesCounted
  <2>. QED BY <2>1, <2>2
<1>4. FilesCounted'
  BY <1>3 DEF FilesCounted
<1>5. ASSUME NEW d \in Dirs' PROVE inodes'[d].real_size = 2 + Cardinality(Live(d)')
  <2>1. CASE d = new
    <3>1. t = MFS_DIRECTORY
      BY <1>1, <1>5, <2>1 DEF Dirs
    <3>2. NewInode(t, own).real_size = 2
      BY <3>1 DEF NewInode, EmptyDir
    <3>3. Live(new)' = {}
      BY <1>1, <3>1
    <3>4. Live(d)' = {}
      BY <2>1, <3>3 DEF Live
    <3>. QED BY <1>2, <2>1, <3>2, <3>4, FS_EmptySet
  <2>2. CASE d = pinum
    <3>1. /\ inodes[pinum].size \notin Live(pinum)
          /\ Live(pinum)' = Live(pinum) \cup {inodes[pinum].size}
      BY MakesEntries
    <3>2. /\ IsFiniteSet(Live(pinum)) /\ Cardinality(Live(pinum)) \in Nat
      BY <1>1, LiveFinite
    <3>3. Cardinality(Live(pinum)') = Cardinality(Live(pinum)) + 1
      BY <3>1, <3>2, FS_AddElement
    <3>4. Live(d)' = Live(pinum)'
      BY <2>2 DEF Live
    <3>5. WithEntry(inodes[pinum], b).real_size = inodes[pinum].real_size + 1
      BY <1>1 DEF WithEntry, Inode
    <3>6. inodes[pinum].real_size = 2 + Cardinality(Live(pinum))
      BY <1>1 DEF EntriesCounted
    <3>. QED BY <1>2, <2>2, <3>2, <3>3, <3>4, <3>5, <3>6
  <2>3. CASE d \notin {new, pinum}
    <3>1. d \in Dirs \ {pinum} /\ d \in InUse \ {pinum}
      BY <1>1, <1>5, <2>3 DEF Dirs
    <3>2. Live(d)' = Live(d) /\ inodes'[d] = inodes[d]
      BY <1>1, <1>2, <3>1
    <3>. QED BY <3>1, <3>2 DEF EntriesCounted
  <2>. QED BY <2>1, <2>2, <2>3
<1>. QED BY <1>4, <1>5 DEF EntriesCounted

LEMMA RemovesCounts ==
  ASSUME TypeInv, Sound, FilesCounted, EntriesCounted, NEW pinum, NEW i0, NEW x,
         Removes(pinum, i0, x)
  PROVE  FilesCounted' /\ EntriesCounted'
<1>1. /\ InUse' = InUse \ {x} /\ Dirs' = Dirs \ {x} /\ pinum \in Dirs
      /\ i0 \in Live(pinum) /\ Live(pinum)' = Live(pinum) \ {i0}
      /\ \A d \in Dirs' \ {pinum} : Live(d)' = Live(d)
  BY DEF Removes
<1>2. \A n \in InUse \ {x} :
        /\ inodes'[n].size = inodes[n].size
        /\ inodes'[n].block_nums = inodes[n].block_nums
        /\ inodes'[n].blocks = inodes[n].blocks
        /\ inodes'[n].real_size = IF n = pinum THEN inodes[n].real_size - 1
                                  ELSE inodes[n].real_size
  BY DEF Removes
<1>3. FilesCounted'
  BY <1>1, <1>2 DEF FilesCounted, FileCounts, Held
<1>4. ASSUME NEW d \in Dirs' PROVE inodes'[d].real_size = 2 + Cardinality(Live(d)')
  <2>1. d \in Dirs /\ d \in InUse \ {x}
    BY <1>1, <1>4 DEF Dirs
  <2>2. inodes[d].real_size = 2 + Cardinality(Live(d))
    BY <2>1 DEF EntriesCounted
  <2>3. CASE d = pinum
    <3>1. IsFiniteSet(Live(pinum)) /\ Cardinality(Live(pinum)) \in Nat
      BY <1>1, InUseTyped, LiveFinite
    <3>2. Cardinality(Live(pinum)') = Cardinality(Live(pinum)) - 1
      BY <1>1, <3>1, FS_RemoveElement
    <3>3. Live(d)' = Live(pinum)' /\ Live(d) = Live(pinum)
      BY <2>3 DEF Live
    <3>. QED BY <1>2, <2>1, <2>2, <2>3, <3>1, <3>2, <3>3
  <2>4. CASE d # pinum
    <3>1. Live(d)' = Live(d)
      BY <1>1, <1>4, <2>4
    <3>. QED BY <1>2, <2>1, <2>2, <2>4, <3>1
  <2>. QED BY <2>3, <2>4
<1>. QED BY <1>3, <1>4 DEF EntriesCounted

(***************************************************************************)
(* The accounts, with the root in its place: every request keeps them.     *)
(***************************************************************************)
Counted == Sound => RootKept /\ FilesCounted /\ EntriesCounted

LEMMA CountedKept ==
  ASSUME ImageInv, Counted, [Next]_vars
  PROVE  Counted'
<1>. SUFFICES ASSUME Sound' PROVE RootKept' /\ FilesCounted' /\ EntriesCounted'
  BY DEF Counted
<1>1. TypeInv /\ Sound /\ Ordered
  BY StepChanges
<1>2. RootKept /\ FilesCounted /\ EntriesCounted
  BY <1>1 DEF Counted
<1>. QED BY <1>1, <1>2, StepChanges, RootIsKept, SparesCounts, MakesCounts, RemovesCounts

(***************************************************************************)
(* What Stat reports, and what the bounds of the handlers rest on, agrees  *)
(* with what is on the disk.                                               *)
(***************************************************************************)
THEOREM AccountsAgree == Spec => []Accounts
<1>1. Init => Counted
  BY InitRootKept, InitCounted DEF Counted
<1>2. ImageInv /\ Counted /\ [Next]_vars => Counted'
  BY CountedKept
<1>3. ImageInv /\ Counted => Accounts
  <2>. SUFFICES ASSUME ImageInv, Counted, Sound PROVE Accounts
    BY DEF Accounts
  <2>1. TypeInv /\ Ordered /\ RootKept /\ FilesCounted /\ EntriesCounted
    BY DEF ImageInv, Counted
  <2>2. ASSUME NEW n \in InUse PROVE inodes[n].block_nums = Cardinality(Held(inodes[n]))
    <3>1. CASE n \in Dirs
      BY <2>1, <3>1, InUseTyped, DirHeld DEF Ordered
    <3>2. CASE n \notin Dirs
      BY <2>1, <3>2 DEF FilesCounted, FileCounts
    <3>. QED BY <3>1, <3>2
  <2>3. \A n \in InUse \ Dirs : inodes[n].size = DirEntsPerBlock * inodes[n].block_nums
    BY <2>1 DEF FilesCounted, FileCounts
  <2>4. ASSUME NEW d \in Dirs
        PROVE  /\ inodes[d].size <= DirEntsPerBlock * inodes[d].block_nums
               /\ \A i \in 0 .. inodes[d].size - 1 : EntBlock(inodes[d], i) # -1
    <3>1. inodes[d] \in Inode /\ DirTable(inodes[d])
      BY <2>1, InUseTyped DEF Ordered
    <3>2. \A i \in 0 .. inodes[d].size - 1 : EntBlock(inodes[d], i) \in Blocks
      BY <3>1, EntryPlace
    <3>. QED BY <3>1, <3>2 DEF DirTable, Blocks
  <2>. QED BY <2>1, <2>2, <2>3, <2>4 DEF Accounts, RootKept, EntriesCounted, Held
<1>. QED BY <1>1, <1>2, <1>3, OrderKept, PTL DEF Spec
=============================================================================
