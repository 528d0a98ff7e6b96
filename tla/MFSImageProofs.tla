--------------------------- MODULE MFSImageProofs ---------------------------
(***************************************************************************)
(* Proofs about the order that the handlers of MFSServer keep the image    *)
(* in: who owns the blocks, which of them are marked, and what the entries *)
(* of directories name.                                                    *)
(***************************************************************************)
EXTENDS MFSServerProofs, FiniteSetTheorems

-----------------------------------------------------------------------------
(***************************************************************************)
(* The inductive invariant.                                                *)
(***************************************************************************)

(***************************************************************************)
(* The books of the data blocks, for a set of inodes of a table: what they *)
(* point at is marked, no two pointers are the same, and nothing else is   *)
(* marked.                                                                 *)
(***************************************************************************)
Pointer(table, n, j) == table[n].blocks[j]

Books(used, table, bitmap) ==
  /\ \A n \in used, j \in BlockIndices :
       Pointer(table, n, j) # -1 => bitmap[Pointer(table, n, j)] = 1
  /\ \A n, m \in used, j, k \in BlockIndices :
       Pointer(table, n, j) # -1 /\ Pointer(table, n, j) = Pointer(table, m, k)
         => n = m /\ j = k
  /\ \A b \in Blocks :
       bitmap[b] = 1 => \E n \in used, j \in BlockIndices : Pointer(table, n, j) = b

(***************************************************************************)
(* The table of a directory: its pointers come first, and its last entry   *)
(* lies in the last of them.                                               *)
(***************************************************************************)
DirTable(inode) ==
  /\ inode.block_nums \in 1 .. MFS_INODE_BLOCKS_SIZE
  /\ \A j \in BlockIndices : inode.blocks[j] # -1 <=> j < inode.block_nums
  /\ 2 <= inode.size
  /\ DirEntsPerBlock * (inode.block_nums - 1) < inode.size
  /\ inode.size <= DirEntsPerBlock * inode.block_nums

(***************************************************************************)
(* The entries that Creat made and Unlink has not removed.                 *)
(***************************************************************************)
EntriesUsed == \A d \in Dirs : \A i \in Live(d) : Target(d, i) \in InUse \ {0}
EntriesOnce ==
  \A d, e \in Dirs : \A i \in Live(d), j \in Live(e) :
    Target(d, i) = Target(e, j) => d = e /\ i = j
NamesOnce ==
  \A d \in Dirs : \A i, j \in Live(d) :
    EntAt(inodes[d], i, data).name = EntAt(inodes[d], j, data).name => i = j

Ordered ==
  /\ 0 \in InUse
  /\ Books(InUse, inodes, data_bitmap)
  /\ \A d \in Dirs : DirTable(inodes[d])
  /\ EntriesUsed /\ EntriesOnce /\ NamesOnce

ImageInv == TypeInv /\ (Sound => Ordered)

-----------------------------------------------------------------------------
(***************************************************************************)
(* Blocks.                                                                 *)
(***************************************************************************)

(***************************************************************************)
(* A free block goes to a place that held none, of an inode that may be    *)
(* new: the books stay right.  (push_inode_update, and the two blocks that *)
(* reply_Creat takes.)                                                     *)
(***************************************************************************)
LEMMA TakeBlock ==
  ASSUME NEW used, NEW table, NEW bitmap \in [Blocks -> {0, 1}], Books(used, table, bitmap),
         \A n \in used, j \in BlockIndices : Pointer(table, n, j) \in Pointers,
         NEW used2, NEW table2, used \subseteq used2,
         NEW at \in used2, NEW place \in BlockIndices, NEW b \in Blocks,
         bitmap[b] = 0,
         at \in used => Pointer(table, at, place) = -1,
         Pointer(table2, at, place) = b,
         \A n \in used2, j \in BlockIndices : n # at \/ j # place =>
           IF n \in used THEN Pointer(table2, n, j) = Pointer(table, n, j)
                         ELSE Pointer(table2, n, j) = -1
  PROVE  Books(used2, table2, Occupied(bitmap, b))
<1>. DEFINE marked == Occupied(bitmap, b)
<1>1. /\ marked[b] = 1
      /\ \A c \in Blocks : c # b => marked[c] = bitmap[c]
  BY DEF Occupied
<1>2. /\ b # -1
      /\ \A c \in Pointers : c # -1 => c \in Blocks
  BY DEF Blocks, Pointers
<1>3. ASSUME NEW n \in used2, NEW j \in BlockIndices, Pointer(table2, n, j) # -1
      PROVE  \/ n = at /\ j = place /\ Pointer(table2, n, j) = b
             \/ /\ n \in used
                /\ n # at \/ j # place
                /\ Pointer(table2, n, j) = Pointer(table, n, j)
                /\ Pointer(table, n, j) \in Blocks
                /\ bitmap[Pointer(table, n, j)] = 1
  BY <1>2, <1>3 DEF Books
<1>. HIDE DEF marked
<1>4. ASSUME NEW n \in used2, NEW j \in BlockIndices, Pointer(table2, n, j) # -1
      PROVE  marked[Pointer(table2, n, j)] = 1
  BY <1>1, <1>3, <1>4
<1>5. ASSUME NEW n \in used2, NEW m \in used2, NEW j \in BlockIndices, NEW k \in BlockIndices,
             Pointer(table2, n, j) # -1, Pointer(table2, n, j) = Pointer(table2, m, k)
      PROVE  n = m /\ j = k
  BY <1>3, <1>5 DEF Books
<1>6. ASSUME NEW c \in Blocks, marked[c] = 1
      PROVE  \E n \in used2, j \in BlockIndices : Pointer(table2, n, j) = c
  <2>1. CASE c # b
    <3>1. PICK n \in used, j \in BlockIndices : Pointer(table, n, j) = c
      BY <1>1, <1>6, <2>1 DEF Books
    <3>2. Pointer(table2, n, j) = c
      BY <1>6, <3>1 DEF Blocks
    <3>. QED BY <3>2
  <2>. QED BY <2>1
<1>. QED BY <1>4, <1>5, <1>6 DEF Books, marked

(***************************************************************************)
(* An inode without blocks comes into use.                                 *)
(***************************************************************************)
LEMMA TakeNone ==
  ASSUME NEW used, NEW table, NEW bitmap, Books(used, table, bitmap),
         NEW used2, NEW table2, used \subseteq used2,
         \A n \in used2, j \in BlockIndices :
           IF n \in used THEN Pointer(table2, n, j) = Pointer(table, n, j)
                         ELSE Pointer(table2, n, j) = -1
  PROVE  Books(used2, table2, bitmap)
<1>1. ASSUME NEW c \in Blocks, bitmap[c] = 1
      PROVE  \E n \in used2, j \in BlockIndices : Pointer(table2, n, j) = c
  <2>1. PICK n \in used, j \in BlockIndices : Pointer(table, n, j) = c
    BY <1>1 DEF Books
  <2>. QED BY <2>1
<1>. QED BY <1>1 DEF Books

(***************************************************************************)
(* An inode goes out of use, and the blocks it points at are free.         *)
(***************************************************************************)
LEMMA ReleaseBlocks ==
  ASSUME NEW used, NEW table, NEW bitmap, Books(used, table, bitmap),
         \A n \in used, j \in BlockIndices : Pointer(table, n, j) \in Pointers,
         NEW x \in used, NEW table2,
         \A n \in used \ {x}, j \in BlockIndices : Pointer(table2, n, j) = Pointer(table, n, j)
  PROVE  Books(used \ {x}, table2, decomission_blocks(table[x], bitmap))
<1>. DEFINE marked == decomission_blocks(table[x], bitmap)
            rest == used \ {x}
<1>1. \A c \in Blocks :
        marked[c] = IF \E j \in BlockIndices : Pointer(table, x, j) = c THEN 0 ELSE bitmap[c]
  BY DEF decomission_blocks, Pointer
<1>2. -1 \notin Blocks /\ \A c \in Pointers : c # -1 => c \in Blocks
  BY DEF Blocks, Pointers
<1>. HIDE DEF marked
<1>3. ASSUME NEW n \in rest, NEW j \in BlockIndices, Pointer(table2, n, j) # -1
      PROVE  marked[Pointer(table2, n, j)] = 1
  <2>1. Pointer(table, n, j) \in Blocks /\ bitmap[Pointer(table, n, j)] = 1
    BY <1>2, <1>3 DEF Books
  <2>2. \A k \in BlockIndices : Pointer(table, x, k) # Pointer(table, n, j)
    BY <1>3 DEF Books
  <2>. QED BY <1>1, <2>1, <2>2
<1>4. ASSUME NEW n \in rest, NEW m \in rest, NEW j \in BlockIndices, NEW k \in BlockIndices,
             Pointer(table2, n, j) # -1, Pointer(table2, n, j) = Pointer(table2, m, k)
      PROVE  n = m /\ j = k
  BY <1>4 DEF Books
<1>5. ASSUME NEW c \in Blocks, marked[c] = 1
      PROVE  \E n \in rest, j \in BlockIndices : Pointer(table2, n, j) = c
  <2>1. bitmap[c] = 1 /\ \A k \in BlockIndices : Pointer(table, x, k) # c
    BY <1>1, <1>5
  <2>2. PICK n \in used, j \in BlockIndices : Pointer(table, n, j) = c
    BY <2>1 DEF Books
  <2>3. n \in rest
    BY <2>1, <2>2
  <2>. QED BY <2>2, <2>3
<1>. QED BY <1>3, <1>4, <1>5 DEF Books, marked

-----------------------------------------------------------------------------
(***************************************************************************)
(* Directories.                                                            *)
(***************************************************************************)
LEMMA DivIs ==
  ASSUME NEW e \in Nat \ {0}, NEW k \in Nat, NEW n \in Nat, e * k <= n, n < e * (k + 1)
  PROVE  n \div e = k /\ (n = e * k => n % e = 0)
<1>. DEFINE q == n \div e
            r == n % e
<1>1. q \in Nat /\ r \in Nat /\ r < e /\ n = e * q + r
  OBVIOUS
<1>. HIDE DEF q, r
<1>2. ASSUME NEW x \in Nat, NEW y \in Nat, x < y PROVE e * x + e <= e * y
  <2>1. PICK z \in Nat : y = x + 1 + z
    <3>1. y - x - 1 \in Nat /\ y = x + 1 + (y - x - 1)
      BY <1>2
    <3>. QED BY <3>1
  <2>2. e * y = e * x + e + e * z /\ e * z \in Nat
    BY <2>1
  <2>. QED BY <2>2
<1>3. e * k \in Nat /\ e * q \in Nat /\ e * (k + 1) = e * k + e
  BY <1>1
<1>4. ~(q < k)
  BY <1>1, <1>2, <1>3
<1>5. ~(k < q)
  BY <1>1, <1>2, <1>3
<1>6. q = k
  BY <1>1, <1>4, <1>5
<1>. QED BY <1>1, <1>3, <1>6 DEF q, r

LEMMA PlacesDiffer ==
  ASSUME NEW e \in Nat \ {0}, NEW i \in Nat, NEW k \in Nat, i \div e = k \div e, i % e = k % e
  PROVE  i = k
OBVIOUS

(***************************************************************************)
(* Every entry of a directory lies in a block that it has.                 *)
(***************************************************************************)
LEMMA EntryPlace ==
  ASSUME NEW inode \in Inode, DirTable(inode), NEW i \in 0 .. inode.size - 1
  PROVE  /\ i \in Nat
         /\ i \div DirEntsPerBlock \in BlockIndices
         /\ i \div DirEntsPerBlock < inode.block_nums
         /\ i % DirEntsPerBlock \in Slots
         /\ EntBlock(inode, i) \in Blocks
<1>1. /\ inode.size \in Nat /\ inode.block_nums \in Nat
      /\ inode.block_nums <= MFS_INODE_BLOCKS_SIZE
      /\ inode.size <= DirEntsPerBlock * inode.block_nums
  BY SizesAssumption DEF Inode, DirTable
<1>2. i \in Nat /\ i < DirEntsPerBlock * inode.block_nums
  BY <1>1, SizesAssumption
<1>3. i \div DirEntsPerBlock \in 0 .. inode.block_nums - 1 /\ i % DirEntsPerBlock \in Slots
  BY <1>1, <1>2, DivBelow, SizesAssumption DEF Slots
<1>4. i \div DirEntsPerBlock \in BlockIndices
  BY <1>1, <1>3, SizesAssumption DEF BlockIndices
<1>5. EntBlock(inode, i) \in Pointers /\ EntBlock(inode, i) # -1
  BY <1>1, <1>3, <1>4 DEF EntBlock, Inode, DirTable
<1>. QED BY <1>1, <1>2, <1>3, <1>4, <1>5 DEF Pointers

(***************************************************************************)
(* The next entry of a directory that is not full: in the last block, or   *)
(* at the start of a new one when the ones it has are full.                *)
(***************************************************************************)
LEMMA NextPlace ==
  ASSUME NEW inode \in Inode, DirTable(inode),
         inode.size # MFS_INODE_BLOCKS_SIZE * DirEntsPerBlock
  PROVE  /\ inode.size \in Nat /\ inode.block_nums \in Nat
         /\ BlockNeeded(inode) =>
              /\ inode.size = DirEntsPerBlock * inode.block_nums
              /\ inode.block_nums \in BlockIndices
              /\ inode.size \div DirEntsPerBlock = inode.block_nums
         /\ ~BlockNeeded(inode) =>
              /\ inode.size < DirEntsPerBlock * inode.block_nums
              /\ inode.block_nums - 1 \in BlockIndices
              /\ inode.size \div DirEntsPerBlock = inode.block_nums - 1
              /\ LastBlock(inode) \in Blocks
         /\ SlotForEntry(inode) = inode.size % DirEntsPerBlock
         /\ SlotForEntry(inode) \in Slots
<1>. DEFINE e == DirEntsPerBlock
            k == inode.block_nums
            n == inode.size
<1>1. /\ n \in Nat /\ k \in Nat /\ e \in Nat \ {0, 1}
      /\ 1 <= k /\ k <= MFS_INODE_BLOCKS_SIZE
      /\ e * (k - 1) <= n /\ n <= e * k
  BY SizesAssumption DEF Inode, DirTable
<1>2. n # MFS_INODE_BLOCKS_SIZE * e
  OBVIOUS
<1>3. BlockNeeded(inode) <=> n + 1 > e * k
  BY DEF BlockNeeded
<1>4. e * k \in Nat /\ e * (k + 1) = e * k + e /\ e * (k - 1) = e * k - e
  BY <1>1
<1>5. CASE BlockNeeded(inode)
  <2>1. n = e * k
    BY <1>1, <1>3, <1>4, <1>5
  <2>2. n \div e = k /\ n % e = 0
    BY <1>1, <1>4, <2>1, DivIs
  <2>3. k # MFS_INODE_BLOCKS_SIZE
    BY <1>1, <1>2, <2>1, SizesAssumption
  <2>4. k \in BlockIndices
    BY <1>1, <2>3, SizesAssumption DEF BlockIndices
  <2>. QED BY <1>1, <1>5, <2>1, <2>2, <2>4, ImageTypes DEF SlotForEntry
<1>6. CASE ~BlockNeeded(inode)
  <2>1. n < e * k
    BY <1>1, <1>3, <1>4, <1>6
  <2>2. n \div e = k - 1
    <3>1. k - 1 \in Nat /\ (k - 1) + 1 = k
      BY <1>1
    <3>. QED BY <1>1, <2>1, <3>1, DivIs
  <2>3. k - 1 \in BlockIndices
    BY <1>1, SizesAssumption DEF BlockIndices
  <2>4. LastBlock(inode) \in Pointers /\ LastBlock(inode) # -1
    BY <1>1, <2>3 DEF LastBlock, Inode, DirTable
  <2>5. n % e \in Slots
    BY <1>1 DEF Slots
  <2>. QED BY <1>1, <1>6, <2>1, <2>2, <2>3, <2>4, <2>5 DEF SlotForEntry, Pointers
<1>. QED BY <1>5, <1>6

(***************************************************************************)
(* The directory with its new entry has a table in order, the entry is     *)
(* where reply_Creat writes it, and the other entries stay.                *)
(***************************************************************************)
LEMMA WithEntryTable ==
  ASSUME NEW inode \in Inode, DirTable(inode),
         inode.size # MFS_INODE_BLOCKS_SIZE * DirEntsPerBlock,
         NEW b \in Blocks
  PROVE  /\ WithEntry(inode, b) \in Inode
         /\ WithEntry(inode, b).type = inode.type
         /\ WithEntry(inode, b).size = inode.size + 1
         /\ DirTable(WithEntry(inode, b))
         /\ EntBlock(WithEntry(inode, b), inode.size) =
              IF BlockNeeded(inode) THEN b ELSE LastBlock(inode)
         /\ \A i \in 0 .. inode.size - 1 :
              EntBlock(WithEntry(inode, b), i) = EntBlock(inode, i)
         /\ \A j \in BlockIndices :
              WithEntry(inode, b).blocks[j] =
                IF BlockNeeded(inode) /\ j = inode.block_nums THEN b ELSE inode.blocks[j]
<1>. DEFINE new == WithEntry(inode, b)
<1>1. new \in Inode /\ new.type = inode.type /\ new.size = inode.size + 1
  BY WithEntryTypes DEF Pointers
<1>2. \A j \in BlockIndices :
        new.blocks[j] = IF BlockNeeded(inode) /\ j = inode.block_nums THEN b ELSE inode.blocks[j]
  BY DEF WithEntry, Inode
<1>3. new.block_nums = IF BlockNeeded(inode) THEN inode.block_nums + 1 ELSE inode.block_nums
  BY DEF WithEntry
<1>4. \A j \in BlockIndices : j \in Nat
  BY DEF BlockIndices
<1>5. /\ inode.size \in Nat /\ inode.block_nums \in Nat /\ DirEntsPerBlock \in Nat \ {0, 1}
      /\ b # -1
      /\ 1 <= inode.block_nums /\ inode.block_nums <= MFS_INODE_BLOCKS_SIZE
      /\ 2 <= inode.size
      /\ DirEntsPerBlock * (inode.block_nums - 1) < inode.size
      /\ \A j \in BlockIndices : inode.blocks[j] # -1 <=> j < inode.block_nums
  BY SizesAssumption DEF Inode, DirTable, Blocks
<1>6. DirTable(new)
  <2>. HIDE DEF new
  <2>1. CASE BlockNeeded(inode)
    <3>1. /\ inode.size = DirEntsPerBlock * inode.block_nums
          /\ inode.block_nums \in BlockIndices
      BY <2>1, NextPlace
    <3>2. new.block_nums \in 1 .. MFS_INODE_BLOCKS_SIZE
      BY <1>3, <1>5, <2>1, <3>1, SizesAssumption DEF BlockIndices
    <3>3. \A j \in BlockIndices : new.blocks[j] # -1 <=> j < new.block_nums
      BY <1>2, <1>3, <1>4, <1>5, <2>1
    <3>4. DirEntsPerBlock * (inode.block_nums + 1) =
            DirEntsPerBlock * inode.block_nums + DirEntsPerBlock
      BY <1>5
    <3>5. /\ DirEntsPerBlock * (new.block_nums - 1) < new.size
          /\ new.size <= DirEntsPerBlock * new.block_nums
      BY <1>1, <1>3, <1>5, <2>1, <3>1, <3>4
    <3>. QED BY <1>1, <1>5, <3>2, <3>3, <3>5 DEF DirTable
  <2>2. CASE ~BlockNeeded(inode)
    <3>1. new.block_nums = inode.block_nums
      BY <1>3, <2>2
    <3>2. \A j \in BlockIndices : new.blocks[j] # -1 <=> j < new.block_nums
      BY <1>2, <1>5, <2>2, <3>1
    <3>3. inode.size < DirEntsPerBlock * inode.block_nums
      BY <2>2, NextPlace
    <3>4. DirEntsPerBlock * (inode.block_nums - 1) \in Int /\ DirEntsPerBlock * inode.block_nums \in Int
      BY <1>5
    <3>. QED BY <1>1, <1>5, <3>1, <3>2, <3>3, <3>4, SizesAssumption DEF DirTable
  <2>. QED BY <2>1, <2>2
<1>7. EntBlock(new, inode.size) = IF BlockNeeded(inode) THEN b ELSE LastBlock(inode)
  BY <1>2, <1>5, NextPlace DEF EntBlock, LastBlock
<1>8. ASSUME NEW i \in 0 .. inode.size - 1
      PROVE  EntBlock(new, i) = EntBlock(inode, i)
  <2>1. i \div DirEntsPerBlock \in BlockIndices /\ i \div DirEntsPerBlock < inode.block_nums
    BY EntryPlace
  <2>. QED BY <1>2, <1>4, <1>5, <2>1 DEF EntBlock
<1>. QED BY <1>1, <1>2, <1>6, <1>7, <1>8

LEMMA EmptyDirTable ==
  ASSUME NEW b \in Blocks
  PROVE  DirTable(EmptyDir(b)) /\ EmptyDir(b).size = 2
<1>1. \A j \in BlockIndices : j \in Nat /\ NoBlocks[j] = -1
  BY DEF NoBlocks, BlockIndices
<1>2. b # -1
  BY DEF Blocks
<1>3. \A j \in BlockIndices : EmptyDir(b).blocks[j] # -1 <=> j < 1
  BY <1>1, <1>2, ImageTypes DEF EmptyDir, NoBlocks
<1>. QED BY <1>3, SizesAssumption DEF DirTable, EmptyDir

-----------------------------------------------------------------------------
(***************************************************************************)
(* The requests keep the order.                                            *)
(***************************************************************************)
LEMMA InUseTyped ==
  ASSUME TypeInv, Sound
  PROVE  /\ \A n \in InUse : n \in Inums /\ inodes[n] \in Inode
         /\ Dirs \subseteq InUse
         /\ \A n \in InUse, j \in BlockIndices : Pointer(inodes, n, j) \in Pointers
         /\ inode_bitmap \in [Inums -> {0, 1}] /\ data_bitmap \in [Blocks -> {0, 1}]
         /\ inodes = [n \in Inums |-> inodes[n]] /\ data \in [Pointers -> DataBlock]
         /\ \A n \in InUse : inodes[n].type \in TypeArgs
BY DEF TypeInv, TypeOK, DirSizes, Sound, InUse, Dirs, Pointer, Inode

(***************************************************************************)
(* Entries are where they were, with the same contents, in directories     *)
(* whose blocks were not written.                                          *)
(***************************************************************************)
SparesDirs ==
  /\ InUse' = InUse /\ Dirs' = Dirs
  /\ \A d \in Dirs : /\ inodes'[d] = inodes[d]
                     /\ \A j \in BlockIndices :
                          Pointer(inodes, d, j) # -1 =>
                            data'[Pointer(inodes, d, j)] = data[Pointer(inodes, d, j)]

LEMMA SameEntries ==
  ASSUME TypeInv, Sound, Ordered, SparesDirs
  PROVE  \A d \in Dirs : /\ \A i \in 0 .. inodes[d].size - 1 :
                              EntAt(inodes'[d], i, data') = EntAt(inodes[d], i, data)
                         /\ Live(d)' = Live(d)
                         /\ \A i \in Live(d) : Target(d, i)' = Target(d, i)
<1>1. ASSUME NEW d \in Dirs, NEW i \in 0 .. inodes[d].size - 1
      PROVE  EntAt(inodes'[d], i, data') = EntAt(inodes[d], i, data)
  <2>1. inodes[d] \in Inode /\ DirTable(inodes[d])
    BY InUseTyped DEF Ordered
  <2>2. i \div DirEntsPerBlock \in BlockIndices /\ EntBlock(inodes[d], i) # -1
    BY <2>1, EntryPlace DEF Blocks
  <2>. QED BY <2>2 DEF EntAt, EntBlock, Pointer, SparesDirs
<1>2. ASSUME NEW d \in Dirs
      PROVE  Live(d)' = Live(d) /\ \A i \in Live(d) : Target(d, i)' = Target(d, i)
  <2>1. \A i \in 2 .. inodes[d].size - 1 : i \in 0 .. inodes[d].size - 1
    BY InUseTyped DEF Inode
  <2>2. inodes'[d] = inodes[d]
    BY DEF SparesDirs
  <2>. QED BY <1>1, <2>1, <2>2 DEF Live, Target
<1>. QED BY <1>1, <1>2

LEMMA SameLinks ==
  ASSUME TypeInv, Sound, Ordered, SparesDirs
  PROVE  EntriesUsed' /\ EntriesOnce' /\ NamesOnce'
<1>1. InUse' = InUse /\ Dirs' = Dirs
  BY DEF SparesDirs
<1>2. ASSUME NEW d \in Dirs
      PROVE  /\ Live(d)' = Live(d)
             /\ \A i \in Live(d) : /\ Target(d, i)' = Target(d, i)
                                   /\ EntAt(inodes'[d], i, data') = EntAt(inodes[d], i, data)
  <2>1. \A i \in Live(d) : i \in 0 .. inodes[d].size - 1
    BY InUseTyped DEF Live, Inode
  <2>. QED BY <2>1, SameEntries
<1>3. EntriesUsed'
  BY <1>1, <1>2 DEF Ordered, EntriesUsed
<1>4. EntriesOnce'
  BY <1>1, <1>2 DEF Ordered, EntriesOnce
<1>5. NamesOnce'
  BY <1>1, <1>2 DEF Ordered, NamesOnce
<1>. QED BY <1>3, <1>4, <1>5

LEMMA InitOrdered == Init => Ordered
<1>. SUFFICES ASSUME Init PROVE Ordered
  OBVIOUS
<1>1. InUse = {0} /\ inodes[0] = EmptyDir(0)
  <2>1. \A n \in Inums : inode_bitmap[n] = IF n = 0 THEN 1 ELSE 0
    BY DEF Init, FreshBitmap
  <2>2. inodes[0] = EmptyDir(0)
    BY ImageTypes DEF Init, FreshInodes
  <2>3. \A n : n \in InUse <=> n = 0
    <3>1. 0 \in Inums
      BY ImageTypes
    <3>2. \A n \in Inums : inode_bitmap[n] = 1 <=> n = 0
      BY <2>1
    <3>. QED BY Zenon, <3>1, <3>2 DEF InUse
  <2>. QED BY <2>2, <2>3
<1>2. Dirs = {0} /\ DirTable(inodes[0]) /\ Live(0) = {}
  BY <1>1, ImageTypes, EmptyDirTable DEF Dirs, Live, EmptyDir
<1>3. Books(InUse, inodes, data_bitmap)
  <2>1. \A j \in BlockIndices : Pointer(inodes, 0, j) = IF j = 0 THEN 0 ELSE -1
    BY <1>1, ImageTypes DEF Pointer, EmptyDir, NoBlocks
  <2>2. \A b \in Blocks : data_bitmap[b] = IF b = 0 THEN 1 ELSE 0
    BY DEF Init, FreshBitmap
  <2>. QED BY <1>1, <2>1, <2>2, ImageTypes DEF Books
<1>. QED BY <1>1, <1>2, <1>3 DEF Ordered, EntriesUsed, EntriesOnce, NamesOnce

LEMMA SameImage ==
  ASSUME Ordered, UNCHANGED image
  PROVE  Ordered'
<1>1. inodes' = inodes /\ data' = data /\ data_bitmap' = data_bitmap
      /\ inode_bitmap' = inode_bitmap
  BY DEF image
<1>2. InUse' = InUse /\ Dirs' = Dirs
  BY <1>1 DEF InUse, Dirs
<1>3. \A d : Live(d)' = Live(d) /\ \A i : Target(d, i)' = Target(d, i)
  BY <1>1 DEF Live, Target
<1>. QED
  BY <1>1, <1>2, <1>3 DEF Ordered, EntriesUsed, EntriesOnce, NamesOnce

(***************************************************************************)
(* Write: the block is of a file, or free, and so of no directory.         *)
(***************************************************************************)
LEMMA WriteKeeps ==
  ASSUME TypeInv, Sound => Ordered, NEW inum \in InumArgs, NEW block \in BlockArgs,
         NEW text \in Texts, reply_Write(inum, block, text), Sound'
  PROVE  Sound /\ SparesDirs /\ Books(InUse', inodes', data_bitmap')
<1>1. CASE Answer(Reply("W", -1))
  BY <1>1 DEF Answer, Sound, SparesDirs, Ordered, image, InUse, Dirs
<1>2. CASE WriteInPlace(inum, block, text)
  <2>1. Sound /\ Ordered
    BY <1>2 DEF WriteInPlace, Sound
  <2>2. inum \in InUse /\ inum \notin Dirs
    BY <1>2, ValidInum DEF WriteInPlace, WriteOK, TypeInv, InUse, Dirs
  <2>3. block \in BlockIndices /\ Pointer(inodes, inum, block) # -1
    BY <1>2 DEF WriteInPlace, Pointer
  <2>4. \A d \in Dirs, j \in BlockIndices :
          Pointer(inodes, d, j) # -1 => Pointer(inodes, d, j) # Pointer(inodes, inum, block)
    BY <2>1, <2>2, <2>3, InUseTyped DEF Ordered, Books
  <2>5. InUse' = InUse /\ Dirs' = Dirs /\ inodes' = inodes /\ data_bitmap' = data_bitmap
    BY <1>2 DEF WriteInPlace, InUse, Dirs
  <2>6. \A b \in Pointers : b # Pointer(inodes, inum, block) => data'[b] = data[b]
    BY <1>2, <2>1, InUseTyped DEF WriteInPlace, Pointer
  <2>7. SparesDirs
    BY <2>1, <2>4, <2>5, <2>6, InUseTyped DEF SparesDirs
  <2>. QED BY <2>1, <2>5, <2>7 DEF Ordered
<1>3. CASE WriteNewBlock(inum, block, text)
  <2>. DEFINE b == next_available_block(data_bitmap)
  <2>1. Sound /\ Ordered /\ block \in BlockIndices
    BY <1>3 DEF WriteNewBlock, Sound, Struck
  <2>2. inum \in InUse /\ inum \notin Dirs /\ inodes[inum] \in Inode
    BY <1>3, <2>1, ValidInum, InUseTyped DEF WriteNewBlock, WriteOK, InUse, Dirs
  <2>3. b \in Blocks /\ data_bitmap[b] = 0
    BY <1>3, <2>1, InUseTyped, NextAvailable, ImageTypes DEF WriteNewBlock, next_available_block
  <2>4. /\ data' = [data EXCEPT ![b] = TextBlock(text)]
        /\ inodes' = [inodes EXCEPT ![inum] = push_inode_update(@, block, b)]
        /\ data_bitmap' = Occupied(data_bitmap, b)
        /\ inode_bitmap' = inode_bitmap
    BY <1>3 DEF WriteNewBlock
  <2>. HIDE DEF b
  <2>5. Pointer(inodes, inum, block) = -1
    BY <1>3, <2>1 DEF WriteNewBlock, Pointer
  <2>6. \A d \in Inums : d # inum => inodes'[d] = inodes[d]
    BY <2>1, <2>4, InUseTyped
  <2>7. /\ inodes'[inum].type = inodes[inum].type
        /\ \A j \in BlockIndices : Pointer(inodes', inum, j) =
             IF j = block THEN b ELSE Pointer(inodes, inum, j)
    <3>1. inodes'[inum] = push_inode_update(inodes[inum], block, b)
      BY <2>1, <2>2, <2>4, InUseTyped
    <3>. QED BY <2>2, <3>1 DEF push_inode_update, Pointer, Inode
  <2>8. InUse' = InUse /\ Dirs' = Dirs
    BY <2>4, <2>6, <2>7 DEF InUse, Dirs
  <2>9. Books(InUse, inodes', Occupied(data_bitmap, b))
    <3>1. \A n \in InUse, j \in BlockIndices : n # inum \/ j # block =>
            Pointer(inodes', n, j) = Pointer(inodes, n, j)
      BY <2>6, <2>7 DEF Pointer, InUse
    <3>. QED BY <2>1, <2>2, <2>3, <2>5, <2>7, <3>1, InUseTyped, TakeBlock DEF Ordered
  <2>10. \A d \in Dirs, j \in BlockIndices :
           Pointer(inodes, d, j) # -1 =>
             /\ Pointer(inodes, d, j) # b
             /\ data'[Pointer(inodes, d, j)] = data[Pointer(inodes, d, j)]
    BY <2>1, <2>3, <2>4, InUseTyped DEF Ordered, Books
  <2>11. \A d \in Dirs : inodes'[d] = inodes[d]
    BY <2>1, <2>2, <2>6, InUseTyped
  <2>12. SparesDirs
    BY <2>8, <2>10, <2>11 DEF SparesDirs
  <2>. QED BY <2>1, <2>4, <2>8, <2>9, <2>12
<1>4. CASE WritePastTable(inum, block, text)
  BY <1>4 DEF WritePastTable, Sound
<1>. QED
  BY <1>1, <1>2, <1>3, <1>4 DEF reply_Write, WriteRefused, WriteNoSpace

LEMMA WriteKeepsOrder ==
  ASSUME TypeInv, Sound => Ordered, NEW inum \in InumArgs, NEW block \in BlockArgs,
         NEW text \in Texts, reply_Write(inum, block, text), Sound'
  PROVE  Ordered'
<1>1. Sound /\ Ordered /\ SparesDirs /\ Books(InUse', inodes', data_bitmap')
  BY WriteKeeps
<1>2. EntriesUsed' /\ EntriesOnce' /\ NamesOnce'
  BY <1>1, SameLinks
<1>. QED BY <1>1, <1>2 DEF Ordered, SparesDirs

(***************************************************************************)
(* What reply_Creat does when it makes something and no defect strikes:    *)
(* the inode new is free and gets into use, its entry is written to block  *)
(* b, which is new where one is needed, and a directory gets the free      *)
(* block own.                                                              *)
(***************************************************************************)
Makes(pinum, t, name, new, b, own) ==
  /\ pinum \in Dirs
  /\ inodes[pinum].size # MFS_INODE_BLOCKS_SIZE * DirEntsPerBlock
  /\ Found(pinum, name) = -1
  /\ inode_bitmap[new] = 0
  /\ IF BlockNeeded(inodes[pinum]) THEN data_bitmap[b] = 0 ELSE b = LastBlock(inodes[pinum])
  /\ IF t = MFS_DIRECTORY
     THEN own \in Blocks /\ TakenForEntry(inodes[pinum], data_bitmap)[own] = 0
     ELSE own = -1
  /\ BlockNeeded(inodes[pinum]) =>
       TakenForEntry(inodes[pinum], data_bitmap) = Occupied(data_bitmap, b)
  /\ inode_bitmap' = Occupied(inode_bitmap, new)
  /\ data_bitmap' = Occupied(TakenForEntry(inodes[pinum], data_bitmap), own)
  /\ inodes'[new] = NewInode(t, own)
  /\ inodes'[pinum] = WithEntry(inodes[pinum], b)
  /\ \A n \in InUse \ {pinum} : inodes'[n] = inodes[n]
  /\ data' = [data EXCEPT ![b] =
                [@ EXCEPT ![SlotForEntry(inodes[pinum])] = [inum |-> new, name |-> name]]]

LEMMA CreatNewMakes ==
  ASSUME TypeInv, Sound => Ordered, NEW pinum \in InumArgs, NEW t \in TypeArgs,
         NEW name \in Names, CreatNew(pinum, t, name), Sound'
  PROVE  /\ Sound
         /\ \E new \in Inums, b \in Blocks, own \in Pointers : Makes(pinum, t, name, new, b, own)
<1>. DEFINE
  dir == inodes[pinum]
  new == next_available_inode(inode_bitmap)
  b == IF BlockNeeded(dir) THEN next_available_block(data_bitmap) ELSE LastBlock(dir)
  bitmap == TakenForEntry(dir, data_bitmap)
  own == IF t = MFS_DIRECTORY THEN next_available_block(bitmap) ELSE -1
  slot == SlotForEntry(dir)
  entered == [data EXCEPT ![b] = [@ EXCEPT ![slot] = [inum |-> new, name |-> name]]]
  tail == IF b = -1 THEN TailHits(slot) ELSE {}
  stray == IF t = MFS_DIRECTORY THEN StrayHits(new) ELSE {}
<1>1. harm' = harm
         \cup Struck("no_block", b = -1 \/ (t = MFS_DIRECTORY /\ own = -1))
         \cup Struck("stray_write", (t = MFS_DIRECTORY /\ SpillsOver(new))
                                      \/ \E n \in stray : inode_bitmap[n] = 1)
  BY Zenon DEF CreatNew
<1>2. PICK scrap \in [tail \cup stray -> ScrapInodes] :
        inodes' = [n \in Inums |->
             IF n \in stray THEN
               IF n = new + 1 THEN [scrap[n] EXCEPT !.type = new] ELSE scrap[n]
             ELSE IF n = new THEN NewInode(t, own)
             ELSE IF n \in tail THEN scrap[n]
             ELSE IF n = pinum THEN WithEntry(dir, b)
             ELSE inodes[n]]
  BY Zenon DEF CreatNew
<1>3. data' = entered \/ (t = MFS_DIRECTORY /\ SpillsOver(new))
  BY Zenon DEF CreatNew
<1>4. inode_bitmap' = Occupied(inode_bitmap, new) /\ data_bitmap' = Occupied(bitmap, own)
  BY Zenon DEF CreatNew
<1>5. /\ pinum \in Inums /\ inode_bitmap[pinum] = 1 /\ ~IsFile(pinum)
      /\ Found(pinum, name) = -1
      /\ dir.size # MFS_INODE_BLOCKS_SIZE * DirEntsPerBlock
  BY ValidInum DEF CreatNew, CreatOK, HasRoom
<1>6. Sound
  BY <1>1 DEF Sound
<1>7. new \in Inums /\ inode_bitmap[new] = 0
  BY <1>6, InUseTyped, NextAvailable, ImageTypes DEF CreatNew, HasRoom, next_available_inode
<1>8. bitmap \in [Blocks -> {0, 1}]
  BY <1>6, InUseTyped, OccupiedTypes DEF TakenForEntry
<1>9. own \in Pointers /\ (t = MFS_DIRECTORY /\ own # -1 => own \in Blocks /\ bitmap[own] = 0)
  BY <1>8, NextAvailable, ImageTypes DEF next_available_block, Pointers
<1>10. t # MFS_DIRECTORY => own = -1
  OBVIOUS
<1>11. BlockNeeded(dir) => bitmap = Occupied(data_bitmap, b)
  BY DEF TakenForEntry
<1>12. BlockNeeded(dir) /\ b # -1 => b \in Blocks /\ data_bitmap[b] = 0
  BY <1>6, InUseTyped, NextAvailable, ImageTypes DEF next_available_block
<1>13. ~BlockNeeded(dir) => b = LastBlock(dir)
  OBVIOUS
<1>14. tail = {} \/ b = -1
  OBVIOUS
<1>15. new \notin stray
  BY <1>7, ImageTypes DEF StrayHits
<1>. HIDE DEF new, b, bitmap, own, stray, tail
<1>16. /\ Sound
       /\ b # -1
       /\ t = MFS_DIRECTORY => own # -1 /\ ~SpillsOver(new)
       /\ \A n \in stray : inode_bitmap[n] # 1
  BY <1>1 DEF Struck, Sound
<1>17. pinum \in Dirs
  BY <1>5, <1>16 DEF TypeInv, DirSizes, Sound, Dirs, InUse, IsFile, TypeArgs
<1>18. b \in Blocks
  <2>1. DirTable(dir) /\ dir \in Inode
    BY <1>16, <1>17, InUseTyped DEF Ordered
  <2>. QED BY <1>5, <1>12, <1>13, <1>16, <2>1, NextPlace
<1>19. /\ inodes'[new] = NewInode(t, own)
       /\ inodes'[pinum] = WithEntry(dir, b)
       /\ \A n \in InUse \ {pinum} : inodes'[n] = inodes[n]
  BY <1>2, <1>5, <1>7, <1>14, <1>15, <1>16 DEF InUse
<1>20. data' = entered
  BY <1>3, <1>16
<1>21. Makes(pinum, t, name, new, b, own)
  BY <1>4, <1>5, <1>7, <1>9, <1>10, <1>11, <1>12, <1>13, <1>16, <1>17, <1>19, <1>20
     DEF Makes, bitmap
<1>. QED BY <1>7, <1>9, <1>16, <1>18, <1>21

(***************************************************************************)
(* The entry that a Creat makes is behind the last of its directory.       *)
(***************************************************************************)
LEMMA MadeEntry ==
  ASSUME TypeInv, Sound, Ordered, NEW pinum, NEW t \in TypeArgs, NEW name,
         NEW new, NEW b \in Blocks, NEW own, Makes(pinum, t, name, new, b, own)
  PROVE  EntAt(inodes'[pinum], inodes[pinum].size, data') = [inum |-> new, name |-> name]
<1>. DEFINE dir == inodes[pinum]
            s == dir.size
            ent == [inum |-> new, name |-> name]
<1>1. /\ pinum \in InUse /\ dir \in Inode /\ DirTable(dir)
      /\ dir.size # MFS_INODE_BLOCKS_SIZE * DirEntsPerBlock
  BY InUseTyped DEF Makes, Ordered
<1>2. EntBlock(WithEntry(dir, b), s) = b
  BY <1>1, WithEntryTable DEF Makes
<1>3. /\ SlotForEntry(dir) = s % DirEntsPerBlock
      /\ SlotForEntry(dir) \in Slots
  BY <1>1, NextPlace
<1>4. /\ inodes'[pinum] = WithEntry(dir, b)
      /\ data' = [data EXCEPT ![b] = [@ EXCEPT ![SlotForEntry(dir)] = ent]]
  BY DEF Makes
<1>5. data'[b][SlotForEntry(dir)] = ent
  BY <1>3, <1>4, InUseTyped DEF DataBlock, Pointers
<1>. QED BY <1>2, <1>3, <1>4, <1>5 DEF EntAt

(***************************************************************************)
(* The entries after a Creat: those of before, where they were, and the    *)
(* new one behind the last of its directory.                               *)
(***************************************************************************)
LEMMA MakesEntries ==
  ASSUME TypeInv, Sound, Ordered, NEW pinum, NEW t \in TypeArgs, NEW name,
         NEW new \in Inums, NEW b \in Blocks, NEW own \in Pointers,
         Makes(pinum, t, name, new, b, own)
  PROVE  /\ pinum \in Dirs /\ inodes[pinum] \in Inode
         /\ InUse' = InUse \cup {new}
         /\ new \notin InUse /\ new # pinum /\ new # 0
         /\ t = MFS_DIRECTORY => Dirs' = Dirs \cup {new}
         /\ t # MFS_DIRECTORY => Dirs' = Dirs
         /\ inodes'[pinum].size = inodes[pinum].size + 1
         /\ \A d \in Dirs : \A i \in 0 .. inodes[d].size - 1 :
              EntAt(inodes'[d], i, data') = EntAt(inodes[d], i, data)
         /\ EntAt(inodes'[pinum], inodes[pinum].size, data') = [inum |-> new, name |-> name]
         /\ inodes[pinum].size \notin Live(pinum)
         /\ Live(pinum)' = Live(pinum) \cup {inodes[pinum].size}
         /\ \A d \in Dirs \ {pinum} : Live(d)' = Live(d)
         /\ t = MFS_DIRECTORY => Live(new)' = {}
<1>. DEFINE dir == inodes[pinum]
            s == dir.size
            ent == [inum |-> new, name |-> name]
<1>1. /\ pinum \in Dirs /\ pinum \in InUse /\ pinum \in Inums
      /\ dir \in Inode /\ DirTable(dir)
      /\ dir.size # MFS_INODE_BLOCKS_SIZE * DirEntsPerBlock
  BY InUseTyped DEF Makes, Ordered
<1>2. /\ WithEntry(dir, b).type = dir.type
      /\ WithEntry(dir, b).size = s + 1
      /\ DirTable(WithEntry(dir, b))
      /\ EntBlock(WithEntry(dir, b), s) = b
      /\ \A i \in 0 .. s - 1 : EntBlock(WithEntry(dir, b), i) = EntBlock(dir, i)
      /\ \A j \in BlockIndices :
           WithEntry(dir, b).blocks[j] =
             IF BlockNeeded(dir) /\ j = dir.block_nums THEN b ELSE dir.blocks[j]
  BY <1>1, WithEntryTable DEF Makes
<1>3. /\ InUse' = InUse \cup {new}
      /\ new \notin InUse /\ new # pinum /\ new # 0
  <2>1. inode_bitmap' = Occupied(inode_bitmap, new) /\ inode_bitmap[new] = 0
    BY DEF Makes
  <2>2. \A n \in Inums : inode_bitmap'[n] = IF n = new THEN 1 ELSE inode_bitmap[n]
    BY <2>1, InUseTyped DEF Occupied
  <2>3. new \notin InUse
    BY <2>1 DEF InUse
  <2>. QED BY <1>1, <2>2, <2>3 DEF InUse, Ordered
<1>4. /\ inodes'[new] = NewInode(t, own)
      /\ inodes'[pinum] = WithEntry(dir, b)
      /\ \A n \in InUse \ {pinum} : inodes'[n] = inodes[n]
  BY DEF Makes
<1>5. /\ t = MFS_DIRECTORY => Dirs' = Dirs \cup {new}
      /\ t # MFS_DIRECTORY => Dirs' = Dirs
  <2>1. NewInode(t, own).type = t
    BY DEF NewInode, EmptyDir, ZeroInode
  <2>2. \A n \in InUse : inodes'[n].type = inodes[n].type
    BY <1>1, <1>2, <1>4
  <2>. QED BY <1>3, <1>4, <2>1, <2>2 DEF Dirs
<1>6. ASSUME NEW d \in Dirs, NEW i \in 0 .. inodes[d].size - 1
      PROVE  EntAt(inodes'[d], i, data') = EntAt(inodes[d], i, data)
  <2>1. inodes[d] \in Inode /\ DirTable(inodes[d]) /\ d \in InUse
    BY InUseTyped DEF Ordered
  <2>2. /\ EntBlock(inodes[d], i) \in Blocks /\ i \in Nat
        /\ i \div DirEntsPerBlock \in BlockIndices /\ i % DirEntsPerBlock \in Slots
        /\ EntBlock(inodes[d], i) = Pointer(inodes, d, i \div DirEntsPerBlock)
    BY <2>1, EntryPlace DEF EntBlock, Pointer
  <2>3. EntBlock(inodes'[d], i) = EntBlock(inodes[d], i)
    BY <1>2, <1>4, <2>1
  <2>4. data' = [data EXCEPT ![b] = [@ EXCEPT ![SlotForEntry(dir)] = ent]]
    BY DEF Makes
  <2>5. EntBlock(inodes[d], i) # -1 /\ data_bitmap[EntBlock(inodes[d], i)] = 1
    BY <2>1, <2>2 DEF Ordered, Books, Blocks
  <2>6. EntBlock(inodes[d], i) # b \/ i % DirEntsPerBlock # SlotForEntry(dir)
    <3>1. CASE BlockNeeded(dir)
      BY <2>5, <3>1 DEF Makes
    <3>2. CASE ~BlockNeeded(dir)
      <4>1. /\ dir.block_nums - 1 \in BlockIndices
            /\ b = Pointer(inodes, pinum, dir.block_nums - 1)
            /\ s \div DirEntsPerBlock = dir.block_nums - 1
            /\ SlotForEntry(dir) = s % DirEntsPerBlock
            /\ s \in Nat
        BY <1>1, <3>2, NextPlace DEF Makes, LastBlock, Pointer
      <4>2. ASSUME EntBlock(inodes[d], i) = b, i % DirEntsPerBlock = SlotForEntry(dir)
            PROVE  FALSE
        <5>1. d = pinum /\ i \div DirEntsPerBlock = dir.block_nums - 1
          BY <1>1, <2>1, <2>2, <2>5, <4>1, <4>2 DEF Ordered, Books
        <5>2. i = s
          BY <2>2, <4>1, <4>2, <5>1, PlacesDiffer, SizesAssumption
        <5>. QED BY <4>1, <5>1, <5>2
      <4>. QED BY <4>2
    <3>. QED BY <3>1, <3>2
  <2>. QED BY <2>2, <2>3, <2>4, <2>6, InUseTyped DEF EntAt, DataBlock, Pointers
<1>7. EntAt(inodes'[pinum], s, data') = ent
  BY MadeEntry
<1>8. ASSUME NEW d \in Dirs, NEW i \in 2 .. inodes[d].size - 1
      PROVE  i \in 0 .. inodes[d].size - 1
  BY InUseTyped DEF Inode
<1>9. s \notin Live(pinum) /\ Live(pinum)' = Live(pinum) \cup {s}
  <2>1. s \in Nat /\ 2 <= s /\ inodes'[pinum].size = s + 1
    BY <1>1, <1>2, <1>4 DEF Inode, DirTable
  <2>2. ent.inum # -1 /\ \A i \in 2 .. s - 1 : i \in 0 .. s - 1
    BY <2>1, ImageTypes DEF Inums
  <2>3. \A i : i \in 2 .. (s + 1) - 1 <=> i \in 2 .. s - 1 \/ i = s
    BY <2>1
  <2>4. s \notin 2 .. s - 1
    BY <2>1
  <2>5. \A i \in 2 .. s - 1 : EntAt(inodes'[pinum], i, data') = EntAt(dir, i, data)
    BY <1>1, <1>6, <2>2
  <2>6. \A i : i \in Live(pinum)' <=> i \in 2 .. s /\ EntAt(inodes'[pinum], i, data').inum # -1
    BY <2>1 DEF Live
  <2>7. \A i : i \in Live(pinum) <=> i \in 2 .. s - 1 /\ EntAt(dir, i, data).inum # -1
    BY DEF Live
  <2>8. \A i : i \in 2 .. s <=> i \in 2 .. s - 1 \/ i = s
    BY <2>1
  <2>9. \A i : i \in Live(pinum)' <=> i \in Live(pinum) \cup {s}
    BY <1>7, <2>2, <2>5, <2>6, <2>7, <2>8
  <2>. QED BY <2>4, <2>7, <2>9
<1>10. ASSUME NEW d \in Dirs \ {pinum} PROVE Live(d)' = Live(d)
  <2>1. inodes'[d].size = inodes[d].size
    BY <1>4, InUseTyped
  <2>. QED BY <1>6, <1>8, <2>1 DEF Live
<1>11. t = MFS_DIRECTORY => Live(new)' = {}
  <2>1. ASSUME t = MFS_DIRECTORY PROVE inodes'[new].size = 2
    BY <1>4, <2>1 DEF NewInode, EmptyDir
  <2>2. 2 .. 2 - 1 = {}
    OBVIOUS
  <2>. QED BY <2>1, <2>2 DEF Live
<1>. QED
  BY <1>1, <1>2, <1>3, <1>4, <1>5, <1>6, <1>7, <1>9, <1>10, <1>11

LEMMA MakesKeepsOrder ==
  ASSUME TypeInv, Sound, Ordered, NEW pinum, NEW t \in TypeArgs, NEW name,
         NEW new \in Inums, NEW b \in Blocks, NEW own \in Pointers,
         Makes(pinum, t, name, new, b, own)
  PROVE  Ordered'
<1>. DEFINE dir == inodes[pinum]
            s == dir.size
            ent == [inum |-> new, name |-> name]
            bitmap == TakenForEntry(dir, data_bitmap)
            mid == [inodes EXCEPT ![pinum] = WithEntry(dir, b)]
<1>1. /\ pinum \in Dirs /\ pinum \in InUse /\ pinum \in Inums
      /\ dir \in Inode /\ DirTable(dir)
      /\ dir.size # MFS_INODE_BLOCKS_SIZE * DirEntsPerBlock
  BY InUseTyped DEF Makes, Ordered
<1>2. /\ DirTable(WithEntry(dir, b))
      /\ \A j \in BlockIndices :
           WithEntry(dir, b).blocks[j] =
             IF BlockNeeded(dir) /\ j = dir.block_nums THEN b ELSE dir.blocks[j]
  BY <1>1, WithEntryTable DEF Makes
<1>3. /\ InUse' = InUse \cup {new}
      /\ new \notin InUse /\ new # pinum /\ new # 0
  BY MakesEntries
<1>4. /\ inodes'[new] = NewInode(t, own)
      /\ inodes'[pinum] = WithEntry(dir, b)
      /\ \A n \in InUse \ {pinum} : inodes'[n] = inodes[n]
  BY DEF Makes
<1>5. /\ t = MFS_DIRECTORY => Dirs' = Dirs \cup {new}
      /\ t # MFS_DIRECTORY => Dirs' = Dirs
  BY MakesEntries
<1>6. Books(InUse, mid, bitmap) /\ bitmap \in [Blocks -> {0, 1}]
  <2>1. \A n \in InUse, j \in BlockIndices :
          Pointer(mid, n, j) = IF n = pinum /\ BlockNeeded(dir) /\ j = dir.block_nums
                               THEN b ELSE Pointer(inodes, n, j)
    BY <1>1, <1>2, InUseTyped DEF Pointer
  <2>2. Books(InUse, inodes, data_bitmap)
    BY DEF Ordered
  <2>. HIDE DEF mid
  <2>3. CASE BlockNeeded(dir)
    <3>1. dir.block_nums \in BlockIndices
      BY <1>1, <2>3, NextPlace
    <3>2. Pointer(inodes, pinum, dir.block_nums) = -1
      BY <1>1, <3>1 DEF DirTable, Pointer, Inode
    <3>3. data_bitmap[b] = 0 /\ bitmap = Occupied(data_bitmap, b)
      BY <2>3 DEF Makes
    <3>4. Books(InUse, mid, Occupied(data_bitmap, b))
      BY <1>1, <2>1, <2>2, <2>3, <3>1, <3>2, <3>3, InUseTyped, TakeBlock
    <3>. QED BY <3>3, <3>4, InUseTyped, OccupiedTypes
  <2>4. CASE ~BlockNeeded(dir)
    <3>1. bitmap = data_bitmap
      BY <2>4 DEF TakenForEntry
    <3>2. Books(InUse, mid, data_bitmap)
      BY <2>1, <2>2, <2>4, TakeNone
    <3>. QED BY <3>1, <3>2, InUseTyped
  <2>. QED BY <2>3, <2>4
<1>7. Books(InUse', inodes', data_bitmap')
  <2>1. \A n \in InUse, j \in BlockIndices : /\ Pointer(inodes', n, j) = Pointer(mid, n, j)
                                             /\ Pointer(mid, n, j) \in Pointers
    <3>1. \A n \in InUse : inodes'[n] = mid[n]
      BY <1>4, InUseTyped
    <3>2. \A n \in InUse : mid[n] \in Inode
      BY <1>1, InUseTyped, WithEntryTable
    <3>. HIDE DEF mid
    <3>. QED BY <3>1, <3>2 DEF Pointer, Inode
  <2>2. data_bitmap' = Occupied(bitmap, own)
    BY DEF Makes
  <2>. HIDE DEF mid, bitmap
  <2>3. CASE t = MFS_DIRECTORY
    <3>1. own \in Blocks /\ bitmap[own] = 0
      BY <2>3 DEF Makes, bitmap
    <3>2. \A j \in BlockIndices : Pointer(inodes', new, j) = IF j = 0 THEN own ELSE -1
      BY <1>4, <2>3, ImageTypes DEF NewInode, EmptyDir, NoBlocks, Pointer
    <3>3. \A n \in InUse', j \in BlockIndices : n # new \/ j # 0 =>
            IF n \in InUse THEN Pointer(inodes', n, j) = Pointer(mid, n, j)
                           ELSE Pointer(inodes', n, j) = -1
      BY <1>3, <2>1, <3>2
    <3>4. new \in InUse' /\ InUse \subseteq InUse'
      BY <1>3
    <3>5. \A n \in InUse, j \in BlockIndices : Pointer(mid, n, j) \in Pointers
      BY <2>1
    <3>6. Pointer(inodes', new, 0) = own /\ 0 \in BlockIndices
      BY <3>2, ImageTypes
    <3>7. Books(InUse', inodes', Occupied(bitmap, own))
      BY <1>3, <1>6, <3>1, <3>3, <3>4, <3>5, <3>6, TakeBlock
    <3>. QED BY <2>2, <3>7
  <2>4. CASE t # MFS_DIRECTORY
    <3>1. own = -1 /\ own \notin Blocks
      BY <2>4 DEF Makes, Blocks
    <3>2. data_bitmap' = bitmap
      BY <1>6, <2>2, <3>1 DEF Occupied
    <3>3. \A j \in BlockIndices : Pointer(inodes', new, j) = -1
      BY <1>4, <2>4 DEF NewInode, ZeroInode, NoBlocks, Pointer
    <3>4. \A n \in InUse', j \in BlockIndices :
            IF n \in InUse THEN Pointer(inodes', n, j) = Pointer(mid, n, j)
                           ELSE Pointer(inodes', n, j) = -1
      BY <1>3, <2>1, <3>3
    <3>5. InUse \subseteq InUse'
      BY <1>3
    <3>. QED BY <1>6, <3>2, <3>4, <3>5, TakeNone
  <2>. QED BY <2>3, <2>4
<1>8. \A d \in Dirs' : DirTable(inodes'[d])
  <2>1. t = MFS_DIRECTORY => DirTable(inodes'[new])
    BY <1>4, EmptyDirTable DEF Makes, NewInode
  <2>. QED BY <1>2, <1>4, <1>5, <2>1, InUseTyped DEF Ordered
<1>9. ASSUME NEW d \in Dirs'
      PROVE  \A i \in Live(d)' :
               \/ /\ d \in Dirs /\ i \in Live(d)
                  /\ EntAt(inodes'[d], i, data') = EntAt(inodes[d], i, data)
               \/ d = pinum /\ i = s /\ EntAt(inodes'[d], i, data') = ent
  <2>1. ASSUME d \in Dirs, NEW i \in Live(d)
        PROVE  EntAt(inodes'[d], i, data') = EntAt(inodes[d], i, data)
    <3>1. i \in 0 .. inodes[d].size - 1
      BY <2>1, InUseTyped DEF Live, Inode
    <3>. QED BY <2>1, <3>1, MakesEntries
  <2>2. CASE d = pinum
    <3>1. Live(pinum)' = Live(pinum) \cup {s} /\ EntAt(inodes'[pinum], s, data') = ent
      BY MakesEntries
    <3>2. Live(d)' = Live(d) \cup {s}
      BY <2>2, <3>1 DEF Live
    <3>. QED BY <1>1, <2>1, <2>2, <3>1, <3>2
  <2>3. CASE d \in Dirs /\ d # pinum
    <3>1. Live(d)' = Live(d)
      BY <2>3, MakesEntries
    <3>. QED BY <2>1, <2>3, <3>1
  <2>4. CASE d \notin Dirs
    <3>1. d = new /\ t = MFS_DIRECTORY
      BY <1>5, <2>4
    <3>2. Live(new)' = {}
      BY <3>1, MakesEntries
    <3>. QED BY <3>1, <3>2 DEF Live
  <2>. QED BY <2>2, <2>3, <2>4
<1>10. EntriesUsed'
  BY <1>3, <1>9 DEF Ordered, EntriesUsed, Target
<1>11. EntriesOnce'
  <2>1. \A d \in Dirs : \A i \in Live(d) : EntAt(inodes[d], i, data).inum # new
    BY <1>3 DEF Ordered, EntriesUsed, Target
  <2>. QED BY <1>9, <2>1 DEF Ordered, EntriesOnce, Target
<1>12. NamesOnce'
  <2>1. \A i \in Live(pinum) : EntAt(dir, i, data).name # name
    <3>1. Hits(dir, name, data) = {}
      BY <1>1, SearchFinds DEF Makes, Found
    <3>2. ASSUME NEW i \in Live(pinum)
          PROVE  i \in 0 .. dir.size - 1 /\ EntAt(dir, i, data).inum >= 0
      <4>1. i \in 2 .. dir.size - 1 /\ dir.size \in Nat
        BY <1>1 DEF Live, Inode
      <4>2. Target(pinum, i) \in Inums
        BY <1>1, InUseTyped DEF Ordered, EntriesUsed
      <4>3. Target(pinum, i) = EntAt(dir, i, data).inum
        BY DEF Target
      <4>. HIDE DEF dir
      <4>. QED BY <4>1, <4>2, <4>3 DEF Inums
    <3>. QED BY <3>1, <3>2 DEF Hits
  <2>. QED BY <1>1, <1>9, <2>1 DEF Ordered, NamesOnce
<1>. QED
  BY <1>3, <1>7, <1>8, <1>10, <1>11, <1>12 DEF Ordered

(***************************************************************************)
(* What reply_Unlink does when it removes something and no defect strikes: *)
(* the inode x, which is in use, and its entry number i0, which Creat      *)
(* made.  A directory that goes has no such entry, so it is not the one    *)
(* that names it.                                                          *)
(***************************************************************************)
Removes(pinum, i0, x) ==
  /\ pinum \in Dirs /\ pinum # x
  /\ i0 \in Live(pinum) /\ x = Target(pinum, i0) /\ x \in InUse \ {0}
  /\ x \in Dirs => Live(x) = {}
  /\ InUse' = InUse \ {x}
  /\ Dirs' = Dirs \ {x}
  /\ \A n \in InUse \ {x} : /\ inodes'[n].type = inodes[n].type
                             /\ inodes'[n].size = inodes[n].size
                             /\ inodes'[n].block_nums = inodes[n].block_nums
                             /\ inodes'[n].blocks = inodes[n].blocks
                             /\ inodes'[n].real_size = IF n = pinum THEN inodes[n].real_size - 1
                                                       ELSE inodes[n].real_size
  /\ \A d \in Dirs' : \A i \in 0 .. inodes[d].size - 1 :
       EntAt(inodes'[d], i, data') = IF d = pinum /\ i = i0 THEN UnusedEnt
                                     ELSE EntAt(inodes[d], i, data)
  /\ Live(pinum)' = Live(pinum) \ {i0}
  /\ \A d \in Dirs' \ {pinum} : Live(d)' = Live(d)

LEMMA UnlinkRemoves ==
  ASSUME TypeInv, Sound => Ordered, NEW pinum \in InumArgs, NEW name \in Names,
         UnlinkRemove(pinum, name), Sound'
  PROVE  /\ Sound
         /\ Removes(pinum, Found(pinum, name), EntryFor(pinum, name).inum)
         /\ data_bitmap' = decomission_blocks(inodes[EntryFor(pinum, name).inum], data_bitmap)
<1>. DEFINE i0 == Found(pinum, name)
            x == EntryFor(pinum, name).inum
            q == EntBlock(inodes[pinum], i0)
<1>1. /\ i0 # -1
      /\ data' = [data EXCEPT ![q] = [@ EXCEPT ![i0 % DirEntsPerBlock] = UnusedEnt]]
      /\ inodes' = [[inodes EXCEPT ![pinum].real_size = @ - 1]
                      EXCEPT ![x] = decomission_inode(inodes[x])]
      /\ inode_bitmap' = [inode_bitmap EXCEPT ![x] = 0]
      /\ data_bitmap' = decomission_blocks(inodes[x], data_bitmap)
      /\ Removable(inodes[x])
      /\ UnlinkOK(pinum)
  BY RemovesMade, Zenon DEF UnlinkMade, TypeInv, Sound
<1>2. Sound /\ Ordered /\ i0 >= 2
  BY RemovesMade DEF Sound, TypeInv
<1>3. pinum \in Inums /\ pinum \in Dirs
  BY <1>1, ValidInum DEF UnlinkOK, Dirs, InUse
<1>4. inodes[pinum] \in Inode /\ DirTable(inodes[pinum])
  BY <1>2, <1>3, InUseTyped DEF Ordered
<1>5. i0 \in 0 .. inodes[pinum].size - 1 /\ EntAt(inodes[pinum], i0, data).inum >= 0
  BY <1>1, <1>4, SearchFinds DEF Found, Hits
<1>6. i0 \in Live(pinum) /\ x = Target(pinum, i0)
  BY <1>2, <1>4, <1>5 DEF Live, Target, EntryFor, Inode
<1>7. x \in InUse \ {0}
  BY <1>2, <1>3, <1>6 DEF Ordered, EntriesUsed
<1>. HIDE DEF i0, x, q
<1>8. InUse' = InUse \ {x}
  BY <1>1, <1>2, <1>7, InUseTyped DEF InUse
<1>9. \A n \in InUse \ {x} : /\ inodes'[n].type = inodes[n].type
                             /\ inodes'[n].size = inodes[n].size
                             /\ inodes'[n].block_nums = inodes[n].block_nums
                             /\ inodes'[n].blocks = inodes[n].blocks
                             /\ inodes'[n].real_size = IF n = pinum THEN inodes[n].real_size - 1
                                                       ELSE inodes[n].real_size
  <2>1. ASSUME NEW n \in InUse \ {x}
        PROVE  inodes'[n] = IF n = pinum THEN [inodes[n] EXCEPT !.real_size = @ - 1]
                            ELSE inodes[n]
    BY <1>1, <1>2, <1>3, InUseTyped
  <2>. QED BY <1>2, <2>1, InUseTyped DEF Inode
<1>10. Dirs' = Dirs \ {x}
  BY <1>8, <1>9 DEF Dirs
<1>11. x \in Dirs => Live(x) = {}
  <2>1. ASSUME x \in Dirs PROVE \A i \in 2 .. inodes[x].size - 1 : EntAt(inodes[x], i, data).inum < 0
    BY <1>1, <2>1 DEF Removable, empty_Directory, Dirs
  <2>2. ASSUME x \in Dirs, NEW i \in Live(x) PROVE FALSE
    <3>1. EntAt(inodes[x], i, data).inum < 0
      BY <2>1, <2>2 DEF Live
    <3>2. Target(x, i) \in Inums
      BY <1>2, <2>2, InUseTyped DEF Ordered, EntriesUsed
    <3>3. Target(x, i) >= 0
      BY <3>2 DEF Inums
    <3>. QED BY <3>1, <3>2, <3>3 DEF Target, Inums
  <2>. QED BY <2>2
<1>12. pinum # x
  BY <1>3, <1>6, <1>11
<1>13. ASSUME NEW d \in Dirs', NEW i \in 0 .. inodes[d].size - 1
       PROVE  EntAt(inodes'[d], i, data') = IF d = pinum /\ i = i0 THEN UnusedEnt
                                            ELSE EntAt(inodes[d], i, data)
  <2>1. inodes[d] \in Inode /\ DirTable(inodes[d]) /\ d \in InUse /\ d # x
    BY <1>2, <1>10, InUseTyped DEF Ordered
  <2>2. /\ EntBlock(inodes[d], i) \in Blocks /\ i \in Nat
        /\ i \div DirEntsPerBlock \in BlockIndices /\ i % DirEntsPerBlock \in Slots
        /\ EntBlock(inodes[d], i) = Pointer(inodes, d, i \div DirEntsPerBlock)
    BY <2>1, EntryPlace DEF EntBlock, Pointer
  <2>3. /\ q \in Blocks /\ i0 \in Nat
        /\ i0 \div DirEntsPerBlock \in BlockIndices /\ i0 % DirEntsPerBlock \in Slots
        /\ q = Pointer(inodes, pinum, i0 \div DirEntsPerBlock)
    BY <1>4, <1>5, EntryPlace DEF q, EntBlock, Pointer
  <2>4. EntBlock(inodes'[d], i) = EntBlock(inodes[d], i)
    BY <1>9, <2>1 DEF EntBlock
  <2>5. data'[q][i0 % DirEntsPerBlock] = UnusedEnt
    BY <1>1, <1>2, <2>3, InUseTyped DEF DataBlock, Pointers
  <2>6. CASE d = pinum /\ i = i0
    BY <2>4, <2>5, <2>6 DEF EntAt, q
  <2>7. CASE ~(d = pinum /\ i = i0)
    <3>1. ASSUME EntBlock(inodes[d], i) = q, i % DirEntsPerBlock = i0 % DirEntsPerBlock
          PROVE  FALSE
      <4>1. q # -1
        BY <2>3 DEF Blocks
      <4>2. d = pinum /\ i \div DirEntsPerBlock = i0 \div DirEntsPerBlock
        BY <1>2, <1>3, <2>1, <2>2, <2>3, <3>1, <4>1, InUseTyped DEF Ordered, Books
      <4>. QED BY <2>2, <2>3, <2>7, <3>1, <4>2, PlacesDiffer, SizesAssumption
    <3>2. data'[EntBlock(inodes[d], i)][i % DirEntsPerBlock] =
            data[EntBlock(inodes[d], i)][i % DirEntsPerBlock]
      BY <1>1, <1>2, <2>2, <3>1, InUseTyped DEF DataBlock, Pointers
    <3>. QED BY <2>4, <2>7, <3>2 DEF EntAt
  <2>. QED BY <2>6, <2>7
<1>14. ASSUME NEW d \in Dirs'
       PROVE  \A i : i \in Live(d)' <=> i \in Live(d) /\ ~(d = pinum /\ i = i0)
  <2>1. d \in Dirs /\ d # x /\ inodes'[d].size = inodes[d].size /\ inodes[d].size \in Nat
    BY <1>2, <1>9, <1>10, InUseTyped DEF Inode
  <2>2. \A i \in 2 .. inodes[d].size - 1 : i \in 0 .. inodes[d].size - 1
    BY <2>1
  <2>3. UnusedEnt.inum = -1
    BY DEF UnusedEnt
  <2>4. \A i : i \in Live(d)' <=> i \in 2 .. inodes[d].size - 1
                                 /\ EntAt(inodes'[d], i, data').inum # -1
    BY <2>1 DEF Live
  <2>5. \A i : i \in Live(d) <=> i \in 2 .. inodes[d].size - 1
                                /\ EntAt(inodes[d], i, data).inum # -1
    BY DEF Live
  <2>6. \A i \in 2 .. inodes[d].size - 1 :
          EntAt(inodes'[d], i, data') = IF d = pinum /\ i = i0 THEN UnusedEnt
                                        ELSE EntAt(inodes[d], i, data)
    BY <1>13, <2>2
  <2>. QED BY <2>3, <2>4, <2>5, <2>6
<1>15. Live(pinum)' = Live(pinum) \ {i0}
  <2>1. pinum \in Dirs'
    BY <1>3, <1>10, <1>12
  <2>2. \A i : i \in Live(pinum)' <=> i \in Live(pinum) \ {i0}
    BY <1>14, <2>1
  <2>. QED BY <2>2
<1>16. ASSUME NEW d \in Dirs' \ {pinum} PROVE Live(d)' = Live(d)
  <2>1. \A i : i \in Live(d)' <=> i \in Live(d)
    BY <1>14
  <2>. QED BY <2>1
<1>17. Removes(pinum, i0, x)
  BY <1>3, <1>6, <1>7, <1>8, <1>9, <1>10, <1>11, <1>12, <1>13, <1>15, <1>16 DEF Removes
<1>. QED BY <1>1, <1>2, <1>17 DEF i0, x

(***************************************************************************)
(* Unlink: the entry is one that Creat made, so its inode is in use and    *)
(* nothing else names it; what goes is the inode, its blocks and that      *)
(* entry.                                                                  *)
(***************************************************************************)
LEMMA RemovesKeepsOrder ==
  ASSUME TypeInv, Sound, Ordered, NEW pinum, NEW i0, NEW x, Removes(pinum, i0, x),
         data_bitmap' = decomission_blocks(inodes[x], data_bitmap)
  PROVE  Ordered'
<1>1. /\ InUse' = InUse \ {x} /\ Dirs' = Dirs \ {x}
      /\ pinum \in Dirs /\ i0 \in Live(pinum) /\ x = Target(pinum, i0) /\ x \in InUse \ {0}
      /\ \A n \in InUse \ {x} : /\ inodes'[n].size = inodes[n].size
                                /\ inodes'[n].block_nums = inodes[n].block_nums
                                /\ inodes'[n].blocks = inodes[n].blocks
  BY DEF Removes
<1>2. Books(InUse', inodes', data_bitmap')
  <2>1. \A n \in InUse \ {x}, j \in BlockIndices : Pointer(inodes', n, j) = Pointer(inodes, n, j)
    BY <1>1 DEF Pointer
  <2>2. Books(InUse \ {x}, inodes', decomission_blocks(inodes[x], data_bitmap))
    BY <1>1, <2>1, InUseTyped, ReleaseBlocks DEF Ordered
  <2>. QED BY <1>1, <2>2
<1>3. \A d \in Dirs' : DirTable(inodes'[d])
  BY <1>1, InUseTyped DEF Ordered, DirTable
<1>4. ASSUME NEW d \in Dirs'
      PROVE  \A i \in Live(d)' :
                /\ d \in Dirs /\ d # x /\ i \in Live(d)
                /\ ~(d = pinum /\ i = i0)
                /\ EntAt(inodes'[d], i, data') = EntAt(inodes[d], i, data)
  <2>1. d \in Dirs /\ d # x
    BY <1>1
  <2>2. Live(d)' = IF d = pinum THEN Live(d) \ {i0} ELSE Live(d)
    <3>1. CASE d = pinum
      <4>1. Live(pinum)' = Live(pinum) \ {i0}
        BY DEF Removes
      <4>. QED BY <3>1, <4>1 DEF Live
    <3>2. CASE d # pinum
      BY <3>2 DEF Removes
    <3>. QED BY <3>1, <3>2
  <2>3. \A i \in Live(d) : i \in 0 .. inodes[d].size - 1
    BY <2>1, InUseTyped DEF Live, Inode
  <2>. QED BY <2>1, <2>2, <2>3 DEF Removes
<1>5. EntriesUsed'
  <2>1. ASSUME NEW d \in Dirs', NEW i \in Live(d)'
        PROVE  Target(d, i)' \in (InUse \ {x}) \ {0}
    <3>1. /\ d \in Dirs /\ i \in Live(d) /\ ~(d = pinum /\ i = i0)
          /\ Target(d, i)' = Target(d, i)
      BY <1>4 DEF Target
    <3>2. Target(d, i) # x
      BY <1>1, <3>1 DEF Ordered, EntriesOnce
    <3>. QED BY <3>1, <3>2 DEF Ordered, EntriesUsed
  <2>. QED BY <1>1, <2>1 DEF EntriesUsed
<1>6. EntriesOnce'
  BY <1>4 DEF Ordered, EntriesOnce, Target
<1>7. NamesOnce'
  BY <1>4 DEF Ordered, NamesOnce
<1>. QED
  BY <1>1, <1>2, <1>3, <1>5, <1>6, <1>7 DEF Ordered

-----------------------------------------------------------------------------
(***************************************************************************)
(* The invariant, and what follows from it.                                *)
(***************************************************************************)
LEMMA NextKeepsOrder == ImageInv /\ [Next]_vars => ImageInv'
<1>. SUFFICES ASSUME ImageInv, [Next]_vars PROVE ImageInv'
  OBVIOUS
<1>1. TypeInv /\ (Sound => Ordered)
  BY DEF ImageInv
<1>2. TypeInv'
  BY <1>1, NextKeepsTypes
<1>. SUFFICES ASSUME Sound' PROVE Ordered'
  BY <1>2 DEF ImageInv
<1>3. ASSUME NEW r, Answer(r) PROVE Ordered'
  BY <1>1, <1>3, SameImage DEF Answer, Sound
<1>4. CASE \/ reply_Init
           \/ \E pinum \in Inums, name \in Names : reply_Lookup(pinum, name)
           \/ \E inum \in Inums : reply_Stat(inum)
           \/ \E inum \in InumArgs, block \in BlockArgs : reply_Read(inum, block)
  BY <1>3, <1>4 DEF reply_Init, reply_Lookup, reply_Stat, reply_Read
<1>5. ASSUME NEW inum \in InumArgs, NEW block \in BlockArgs, NEW text \in Texts,
             reply_Write(inum, block, text)
      PROVE  Ordered'
  BY <1>1, <1>5, WriteKeepsOrder
<1>6. ASSUME NEW pinum \in InumArgs, NEW name \in Names, NEW t \in TypeArgs,
             reply_Creat(pinum, t, name)
      PROVE  Ordered'
  <2>1. CASE CreatNew(pinum, t, name)
    <3>1. /\ Sound
          /\ \E new \in Inums, b \in Blocks, own \in Pointers :
               Makes(pinum, t, name, new, b, own)
      BY <1>1, <2>1, CreatNewMakes
    <3>. QED BY <1>1, <3>1, MakesKeepsOrder
  <2>. QED BY <1>3, <1>6, <2>1 DEF reply_Creat, CreatRefused, CreatExists
<1>7. ASSUME NEW pinum \in InumArgs, NEW name \in Names, reply_Unlink(pinum, name)
      PROVE  Ordered'
  <2>1. CASE UnlinkRemove(pinum, name)
    <3>1. /\ Sound /\ Removes(pinum, Found(pinum, name), EntryFor(pinum, name).inum)
          /\ data_bitmap' = decomission_blocks(inodes[EntryFor(pinum, name).inum], data_bitmap)
      BY <1>1, <2>1, UnlinkRemoves
    <3>. QED BY <1>1, <3>1, RemovesKeepsOrder
  <2>. QED BY <1>3, <1>7, <2>1 DEF reply_Unlink, UnlinkRefused, UnlinkAbsent
<1>8. CASE UNCHANGED vars
  BY <1>1, <1>8, SameImage DEF vars, image, Sound
<1>. QED BY <1>4, <1>5, <1>6, <1>7, <1>8 DEF Next

(***************************************************************************)
(* The order is kept by every request, until a defect strikes.             *)
(***************************************************************************)
THEOREM OrderKept == Spec => []ImageInv
<1>1. Init => ImageInv
  BY InitTypes, InitOrdered DEF ImageInv
<1>. QED BY <1>1, NextKeepsOrder, PTL DEF Spec

(***************************************************************************)
(* No block is ever shared by two pointers of inodes in use.               *)
(***************************************************************************)
THEOREM BlocksNotShared == Spec => []NoSharedBlock
<1>1. ImageInv => NoSharedBlock
  <2>. SUFFICES ASSUME ImageInv, Sound, NEW b \in Blocks
                PROVE  Cardinality(Owners(b)) <= 1
    BY DEF NoSharedBlock
  <2>1. \A p, r \in Owners(b) : p = r
    <3>1. Books(InUse, inodes, data_bitmap) /\ b # -1
      BY DEF ImageInv, Ordered, Blocks
    <3>2. ASSUME NEW p \in Owners(b), NEW r \in Owners(b) PROVE p = r
      <4>1. /\ p[1] \in InUse /\ p[2] \in BlockIndices /\ p = <<p[1], p[2]>>
            /\ r[1] \in InUse /\ r[2] \in BlockIndices /\ r = <<r[1], r[2]>>
            /\ Pointer(inodes, p[1], p[2]) = b /\ Pointer(inodes, r[1], r[2]) = b
        BY DEF Owners, Pointer
      <4>2. p[1] = r[1] /\ p[2] = r[2]
        BY <3>1, <4>1 DEF Books
      <4>. QED BY <4>1, <4>2
    <3>. QED BY <3>2
  <2>2. CASE Owners(b) = {}
    BY <2>2, FS_EmptySet
  <2>3. CASE Owners(b) # {}
    <3>1. PICK p : Owners(b) = {p}
      BY <2>1, <2>3
    <3>2. Cardinality({p}) = 1
      BY FS_Singleton
    <3>. QED BY <3>1, <3>2
  <2>. QED BY <2>2, <2>3
<1>. QED BY <1>1, OrderKept, PTL

(***************************************************************************)
(* The data bitmap marks the blocks that inodes in use point at, and only  *)
(* those.                                                                  *)
(***************************************************************************)
THEOREM BitmapIsExact == Spec => []BitmapExact
<1>1. ImageInv => BitmapExact
  <2>. SUFFICES ASSUME ImageInv, Sound, NEW b \in Blocks
                PROVE  data_bitmap[b] = 1 <=> Owners(b) # {}
    BY DEF BitmapExact
  <2>1. Books(InUse, inodes, data_bitmap) /\ b # -1
    BY DEF ImageInv, Ordered, Blocks
  <2>2. Owners(b) # {} <=> \E n \in InUse, j \in BlockIndices : Pointer(inodes, n, j) = b
    <3>1. ASSUME NEW n \in InUse, NEW j \in BlockIndices, Pointer(inodes, n, j) = b
          PROVE  <<n, j>> \in Owners(b)
      BY <3>1 DEF Owners, Pointer
    <3>2. ASSUME NEW p \in Owners(b)
          PROVE  p[1] \in InUse /\ p[2] \in BlockIndices /\ Pointer(inodes, p[1], p[2]) = b
      BY DEF Owners, Pointer
    <3>. QED BY <3>1, <3>2
  <2>. QED BY <2>1, <2>2 DEF Books
<1>. QED BY <1>1, OrderKept, PTL

(***************************************************************************)
(* Entries name inodes in use other than the root, each of them once.      *)
(***************************************************************************)
THEOREM LinksAreSound == Spec => []LinksSound
<1>1. ImageInv => LinksSound
  BY DEF ImageInv, Ordered, EntriesUsed, EntriesOnce, LinksSound
<1>. QED BY <1>1, OrderKept, PTL

(***************************************************************************)
(* The names of the entries of a directory differ.                         *)
(***************************************************************************)
THEOREM NamesAreUnique == Spec => []NamesUnique
<1>1. ImageInv => NamesUnique
  BY DEF ImageInv, Ordered, NamesOnce, NamesUnique
<1>. QED BY <1>1, OrderKept, PTL

-----------------------------------------------------------------------------
(***************************************************************************)
(* Files keep their contents.                                              *)
(***************************************************************************)

(***************************************************************************)
(* The block that Read takes is the one that the pointer of the file says. *)
(***************************************************************************)
LEMMA ReadableBlock ==
  ASSUME TypeInv, Sound, NEW n \in Inums, NEW j \in BlockIndices, Readable(n, j)
  PROVE  /\ n \in InUse /\ n \notin Dirs
         /\ Pointer(inodes, n, j) \in Blocks /\ Pointer(inodes, n, j) # -1
         /\ data_bitmap[Pointer(inodes, n, j)] = 1
<1>1. Pointer(inodes, n, j) \in Pointers
  BY InUseTyped DEF Readable
<1>. QED BY <1>1, ImageTypes DEF Readable, BlockOK, valid_block, Pointer, Pointers

LEMMA StillReadable ==
  ASSUME ImageInv', Sound', NEW n \in Inums, NEW j \in BlockIndices,
         n \in InUse', n \notin Dirs',
         Pointer(inodes, n, j) \in Blocks, Pointer(inodes', n, j) = Pointer(inodes, n, j)
  PROVE  Readable(n, j)'
<1>1. Books(InUse', inodes', data_bitmap')
  BY DEF ImageInv, Ordered
<1>2. data_bitmap'[Pointer(inodes', n, j)] = 1 /\ Pointer(inodes', n, j) \in Blocks
  BY <1>1 DEF Books, Blocks
<1>3. 0 <= j /\ j < MFS_INODE_BLOCKS_SIZE /\ j \in Int
  BY SizesAssumption DEF BlockIndices
<1>4. /\ 0 <= Pointer(inodes', n, j) /\ Pointer(inodes', n, j) <= MFS_DATA_REGION_SIZE
      /\ Pointer(inodes', n, j) \in Int /\ Pointer(inodes', n, j) # -1
  BY <1>2, SizesAssumption DEF Blocks
<1>. QED BY <1>2, <1>3, <1>4, SizesAssumption DEF Readable, BlockOK, valid_block, Pointer

LEMMA WriteKeepsFiles ==
  ASSUME ImageInv, ImageInv', Sound',
         NEW inum \in InumArgs, NEW block \in BlockArgs, NEW text \in Texts,
         reply_Write(inum, block, text),
         NEW n \in Inums, NEW j \in BlockIndices, Readable(n, j)
  PROVE  Kept(n, j) \/ (n = inum /\ j = block /\ Written(n, j))
<1>. DEFINE p == Pointer(inodes, n, j)
<1>1. TypeInv /\ Sound /\ Ordered
  <2>1. harm' = {} => harm = {}
    BY DEF reply_Write, WriteRefused, WriteInPlace, WriteNewBlock, WriteNoSpace, WritePastTable, Answer
  <2>. QED BY <2>1 DEF ImageInv, Sound
<1>2. /\ n \in InUse /\ n \notin Dirs /\ p \in Blocks /\ p # -1 /\ data_bitmap[p] = 1
  BY <1>1, ReadableBlock
<1>3. CASE UNCHANGED image
  BY <1>3 DEF image, Kept, Readable, InUse, Dirs, BlockOK
<1>4. CASE WriteInPlace(inum, block, text)
  <2>1. Sound /\ Ordered
    BY <1>1, <1>4 DEF WriteInPlace, Sound
  <2>2. /\ inum \in InUse /\ block \in BlockIndices
        /\ Pointer(inodes, inum, block) # -1
        /\ data' = [data EXCEPT ![Pointer(inodes, inum, block)] = TextBlock(text)]
        /\ inodes' = inodes /\ InUse' = InUse /\ Dirs' = Dirs
    BY <1>1, <1>4, ValidInum DEF WriteInPlace, WriteOK, Pointer, InUse, Dirs, TypeInv
  <2>3. Readable(n, j)'
    BY <1>2, <2>2, StillReadable
  <2>4. CASE n = inum /\ j = block
    <3>1. data'[p] = TextBlock(text)
      BY <1>1, <1>2, <2>2, <2>4, InUseTyped DEF Pointers
    <3>. QED BY <1>4, <2>2, <2>3, <2>4, <3>1 DEF Written, reply_Write, Pointer
  <2>5. CASE ~(n = inum /\ j = block)
    <3>1. p # Pointer(inodes, inum, block)
      BY <1>2, <2>1, <2>2, <2>5 DEF Ordered, Books
    <3>2. data'[p] = data[p]
      BY <1>1, <1>2, <2>2, <3>1, InUseTyped DEF Pointers
    <3>. QED BY <2>2, <2>3, <3>2 DEF Kept, Pointer
  <2>. QED BY <2>4, <2>5
<1>5. CASE WriteNewBlock(inum, block, text)
  <2>. DEFINE b == next_available_block(data_bitmap)
  <2>1. inum \in Inums /\ block \in BlockIndices /\ Pointer(inodes, inum, block) = -1
    BY <1>1, <1>5, ValidInum DEF WriteNewBlock, WriteOK, Pointer, Sound, Struck, TypeInv
  <2>2. b \in Blocks /\ data_bitmap[b] = 0
    BY <1>1, <1>5, InUseTyped, NextAvailable, ImageTypes DEF WriteNewBlock, next_available_block
  <2>3. /\ data' = [data EXCEPT ![b] = TextBlock(text)]
        /\ inodes' = [inodes EXCEPT ![inum] = push_inode_update(@, block, b)]
        /\ inode_bitmap' = inode_bitmap
    BY <1>5 DEF WriteNewBlock
  <2>. HIDE DEF b
  <2>4. inodes'[n].type = inodes[n].type /\ Pointer(inodes', n, j) = p
    <3>1. CASE n = inum
      <4>1. inodes[n] \in Inode /\ inodes'[n] = push_inode_update(inodes[n], block, b)
        BY <1>1, <1>2, <2>3, <3>1, InUseTyped
      <4>2. j # block
        BY <1>2, <2>1, <3>1
      <4>. QED BY <4>1, <4>2 DEF push_inode_update, Pointer, Inode
    <3>2. CASE n # inum
      BY <1>1, <2>3, <3>2, InUseTyped DEF Pointer
    <3>. QED BY <3>1, <3>2
  <2>5. n \in InUse' /\ n \notin Dirs'
    BY <1>2, <2>3, <2>4 DEF InUse, Dirs
  <2>6. data'[p] = data[p]
    BY <1>1, <1>2, <2>2, <2>3, InUseTyped DEF Pointers
  <2>7. Readable(n, j)'
    BY <1>2, <2>4, <2>5, StillReadable
  <2>. QED BY <2>4, <2>6, <2>7 DEF Kept, Pointer
<1>6. CASE WritePastTable(inum, block, text)
  BY <1>6 DEF WritePastTable, Sound
<1>. QED
  BY <1>3, <1>4, <1>5, <1>6 DEF reply_Write, WriteRefused, WriteNoSpace, Answer

LEMMA MakesKeepsFiles ==
  ASSUME ImageInv, ImageInv', Sound, Sound', NEW pinum, NEW t \in TypeArgs, NEW name,
         NEW new \in Inums, NEW b \in Blocks, NEW own \in Pointers,
         Makes(pinum, t, name, new, b, own),
         NEW n \in Inums, NEW j \in BlockIndices, Readable(n, j)
  PROVE  Kept(n, j)
<1>. DEFINE p == Pointer(inodes, n, j)
<1>1. TypeInv /\ Ordered
  BY DEF ImageInv
<1>2. /\ n \in InUse /\ n \notin Dirs /\ p \in Blocks /\ p # -1 /\ data_bitmap[p] = 1
  BY <1>1, ReadableBlock
<1>3. pinum \in Dirs /\ pinum \in InUse /\ inodes'[n] = inodes[n]
  BY <1>1, <1>2, InUseTyped DEF Makes
<1>4. p # b
  <2>1. CASE BlockNeeded(inodes[pinum])
    BY <1>2, <2>1 DEF Makes
  <2>2. CASE ~BlockNeeded(inodes[pinum])
    <3>1. /\ inodes[pinum] \in Inode /\ DirTable(inodes[pinum])
          /\ inodes[pinum].size # MFS_INODE_BLOCKS_SIZE * DirEntsPerBlock
      BY <1>1, <1>3, InUseTyped DEF Makes, Ordered
    <3>2. /\ inodes[pinum].block_nums - 1 \in BlockIndices
          /\ b = Pointer(inodes, pinum, inodes[pinum].block_nums - 1)
      BY <2>2, <3>1, NextPlace DEF Makes, LastBlock, Pointer
    <3>. QED BY <1>1, <1>2, <1>3, <3>2 DEF Ordered, Books
  <2>. QED BY <2>1, <2>2
<1>5. data'[p] = data[p]
  BY <1>1, <1>2, <1>4, InUseTyped DEF Makes, Pointers
<1>6. n \in InUse' /\ n \notin Dirs'
  <2>1. inode_bitmap' = Occupied(inode_bitmap, new)
    BY DEF Makes
  <2>2. inode_bitmap'[n] = 1
    BY <1>1, <1>2, <2>1, InUseTyped DEF Occupied, InUse
  <2>. QED BY <1>2, <1>3, <2>2 DEF InUse, Dirs
<1>7. Readable(n, j)'
  BY <1>2, <1>3, <1>6, StillReadable DEF Pointer
<1>. QED BY <1>3, <1>5, <1>7 DEF Kept, Pointer

LEMMA UnlinkRemoveKeepsFiles ==
  ASSUME ImageInv, ImageInv', Sound', NEW pinum \in InumArgs, NEW name \in Names,
         UnlinkRemove(pinum, name),
         NEW n \in Inums, NEW j \in BlockIndices, Readable(n, j)
  PROVE  Kept(n, j) \/ (n = EntryFor(pinum, name).inum /\ Removed(n))
<1>. DEFINE p == Pointer(inodes, n, j)
            i0 == Found(pinum, name)
            x == EntryFor(pinum, name).inum
            q == EntBlock(inodes[pinum], i0)
<1>1. /\ i0 # -1
      /\ data' = [data EXCEPT ![q] = [@ EXCEPT ![i0 % DirEntsPerBlock] = UnusedEnt]]
      /\ inodes' = [[inodes EXCEPT ![pinum].real_size = @ - 1]
                      EXCEPT ![x] = decomission_inode(inodes[x])]
      /\ inode_bitmap' = [inode_bitmap EXCEPT ![x] = 0]
      /\ UnlinkOK(pinum)
  BY RemovesMade, Zenon DEF UnlinkMade, ImageInv, TypeInv, Sound
<1>2. TypeInv /\ Sound /\ Ordered
  BY RemovesMade DEF ImageInv, TypeInv, Sound
<1>3. /\ n \in InUse /\ n \notin Dirs /\ p \in Blocks /\ p # -1 /\ data_bitmap[p] = 1
  BY <1>2, ReadableBlock
<1>4. pinum \in Inums /\ pinum \in Dirs /\ pinum \in InUse
  BY <1>1, ValidInum DEF UnlinkOK, Dirs, InUse
<1>5. CASE n = x
  BY <1>4, <1>5 DEF Removed
<1>6. CASE n # x
  <2>1. inodes[pinum] \in Inode /\ DirTable(inodes[pinum])
    BY <1>2, <1>4, InUseTyped DEF Ordered
  <2>2. i0 \in 0 .. inodes[pinum].size - 1
    BY <1>1, <2>1, SearchFinds DEF Found, Hits
  <2>3. /\ i0 \div DirEntsPerBlock \in BlockIndices
        /\ q = Pointer(inodes, pinum, i0 \div DirEntsPerBlock)
    BY <2>1, <2>2, EntryPlace DEF EntBlock, Pointer
  <2>. HIDE DEF i0, x, q
  <2>4. p # q
    BY <1>2, <1>3, <1>4, <2>3 DEF Ordered, Books
  <2>5. data'[p] = data[p]
    BY <1>1, <1>2, <1>3, <2>4, InUseTyped DEF Pointers
  <2>6. inodes'[n] = inodes[n]
    <3>1. n # pinum
      BY <1>3, <1>4
    <3>. QED BY <1>1, <1>2, <1>6, <3>1, InUseTyped
  <2>7. n \in InUse' /\ n \notin Dirs'
    BY <1>1, <1>2, <1>3, <1>6, <2>6, InUseTyped DEF InUse, Dirs
  <2>8. Readable(n, j)'
    BY <1>3, <2>6, <2>7, StillReadable DEF Pointer
  <2>. QED BY <2>5, <2>6, <2>8 DEF Kept, Pointer
<1>. QED BY <1>5, <1>6

(***************************************************************************)
(* What was written to a file is read from it until it is written again or *)
(* the file is removed.                                                    *)
(***************************************************************************)
THEOREM FilesAreDurable == Spec => DurableBlocks
<1>1. ASSUME ImageInv, ImageInv', [Next]_vars, NEW n \in Inums, NEW j \in BlockIndices,
             Readable(n, j), harm' = {}
      PROVE  Kept(n, j) \/ Written(n, j) \/ Removed(n)
  <2>1. Sound' /\ TypeInv /\ (Sound => Ordered)
    BY <1>1 DEF Sound, ImageInv, TypeInv
  <2>2. ASSUME UNCHANGED image PROVE Kept(n, j)
    BY <1>1, <2>2 DEF image, Kept, Readable, InUse, Dirs, BlockOK
  <2>3. ASSUME NEW inum \in InumArgs, NEW block \in BlockArgs, NEW text \in Texts,
               reply_Write(inum, block, text)
        PROVE  Kept(n, j) \/ Written(n, j)
    BY <1>1, <2>1, <2>3, WriteKeepsFiles
  <2>4. ASSUME NEW pinum \in InumArgs, NEW name \in Names, NEW t \in TypeArgs,
               CreatNew(pinum, t, name)
        PROVE  Kept(n, j)
    <3>1. /\ Sound
          /\ \E new \in Inums, b \in Blocks, own \in Pointers :
               Makes(pinum, t, name, new, b, own)
      BY <2>1, <2>4, CreatNewMakes
    <3>. QED BY <1>1, <2>1, <3>1, MakesKeepsFiles
  <2>5. ASSUME NEW pinum \in InumArgs, NEW name \in Names, UnlinkRemove(pinum, name)
        PROVE  Kept(n, j) \/ Removed(n)
    BY <1>1, <2>1, <2>5, UnlinkRemoveKeepsFiles
  <2>6. ASSUME NEW r, Answer(r) PROVE UNCHANGED image
    BY <2>6 DEF Answer
  <2>7. CASE UNCHANGED vars
    BY <2>2, <2>7 DEF vars, image
  <2>8. CASE \/ reply_Init
             \/ \E pinum \in Inums, name \in Names : reply_Lookup(pinum, name)
             \/ \E inum \in Inums : reply_Stat(inum)
             \/ \E inum \in InumArgs, block \in BlockArgs : reply_Read(inum, block)
    BY <2>2, <2>6, <2>8 DEF reply_Init, reply_Lookup, reply_Stat, reply_Read
  <2>9. ASSUME NEW pinum \in InumArgs, NEW name \in Names, NEW t \in TypeArgs,
               reply_Creat(pinum, t, name)
        PROVE  Kept(n, j)
    BY <2>2, <2>4, <2>6, <2>9 DEF reply_Creat, CreatRefused, CreatExists
  <2>10. ASSUME NEW pinum \in InumArgs, NEW name \in Names, reply_Unlink(pinum, name)
         PROVE  Kept(n, j) \/ Removed(n)
    BY <2>2, <2>5, <2>6, <2>10 DEF reply_Unlink, UnlinkRefused, UnlinkAbsent
  <2>. QED BY <1>1, <2>3, <2>7, <2>8, <2>9, <2>10 DEF Next
<1>2. ImageInv /\ ImageInv' /\ [Next]_vars =>
        [\A n \in Inums, j \in BlockIndices :
           Readable(n, j) /\ harm' = {} => Kept(n, j) \/ Written(n, j) \/ Removed(n)]_vars
  BY <1>1
<1>. QED BY <1>2, OrderKept, PTL DEF Spec, DurableBlocks
=============================================================================
