---------------------------- MODULE MFSKillProofs ----------------------------
(***************************************************************************)
(* Proofs about what MFSCrash leaves of the image when the server is       *)
(* killed in the middle of a request and the request comes again.          *)
(***************************************************************************)
EXTENDS MFSCrashProofs, MFSImageProofs

-----------------------------------------------------------------------------
(***************************************************************************)
(* An image with the inodes R in order.  Unlike Ordered of MFSImageProofs, *)
(* it may have other inodes and blocks marked: a kill leaves such.         *)
(***************************************************************************)
DirsIn(img, R) == {d \in R : img.inodes[d].type = MFS_DIRECTORY}
LiveIn(img, d) == {i \in 2 .. img.inodes[d].size - 1 : EntAt(img.inodes[d], i, img.data).inum # -1}
NamedIn(img, d, i) == EntAt(img.inodes[d], i, img.data).inum
NameIn(img, d, i) == EntAt(img.inodes[d], i, img.data).name
Leads(img, R, S) ==
  0 \in S /\ \A d \in S \cap DirsIn(img, R) : \A i \in LiveIn(img, d) : NamedIn(img, d, i) \in S

InodesHeld(img, R) ==
  /\ R \subseteq Inums
  /\ \A n \in R : /\ img.inode_bitmap[n] = 1
                  /\ img.inodes[n] \in Inode /\ img.inodes[n].type \in TypeArgs
  /\ \A d \in DirsIn(img, R) : DirTable(img.inodes[d])

BlocksHeld(img, R) ==
  /\ \A n \in R, j \in BlockIndices :
       Pointer(img.inodes, n, j) # -1 => img.data_bitmap[Pointer(img.inodes, n, j)] = 1
  /\ \A n, m \in R, j, k \in BlockIndices :
       Pointer(img.inodes, n, j) # -1 /\ Pointer(img.inodes, n, j) = Pointer(img.inodes, m, k)
         => n = m /\ j = k

NamesHeld(img, R) ==
  \A d, e \in DirsIn(img, R) : \A i \in LiveIn(img, d), j \in LiveIn(img, e) :
    /\ NamedIn(img, d, i) \in R \ {0}
    /\ NamedIn(img, d, i) = NamedIn(img, e, j) => d = e /\ i = j

Spanned(img, R) == 0 \in R /\ \A S \in SUBSET R : Leads(img, R, S) => S = R

(***************************************************************************)
(* A directory has a name once, for an inode of a type that a Creat of     *)
(* that name asks for.                                                     *)
(***************************************************************************)
Asked(name, type) ==
  \E m \in Calls : m.message_type = "C" /\ m.name = name /\ m.type = type

NamesApart(img, R) ==
  \A d \in DirsIn(img, R) : \A i \in LiveIn(img, d) :
    /\ Asked(NameIn(img, d, i), img.inodes[NamedIn(img, d, i)].type)
    /\ \A j \in LiveIn(img, d) : NameIn(img, d, i) = NameIn(img, d, j) => i = j

Orderly(img, R) ==
  /\ InodesHeld(img, R) /\ BlocksHeld(img, R) /\ NamesHeld(img, R)
  /\ Spanned(img, R) /\ NamesApart(img, R)

-----------------------------------------------------------------------------
(***************************************************************************)
(* The writes still to come.  A write spares the inodes R when it leaves   *)
(* them, their blocks and the marks of both; the only inode that it may    *)
(* mark or unmark is x, the one that the request makes or removes.         *)
(***************************************************************************)
Sparing(img, R, x, store) ==
  /\ \A n \in Inums \cap DOMAIN store.inode_bitmap :
       n # x \/ n \in R => store.inode_bitmap[n] = img.inode_bitmap[n]
  /\ \A n \in R, j \in BlockIndices :
       Pointer(img.inodes, n, j) \in DOMAIN store.data_bitmap =>
         store.data_bitmap[Pointer(img.inodes, n, j)] = 1
  /\ \A n \in R \cap DOMAIN store.inodes :
       /\ store.inodes[n] \in Inode
       /\ store.inodes[n].type = img.inodes[n].type
       /\ store.inodes[n].size = img.inodes[n].size
       /\ store.inodes[n].block_nums = img.inodes[n].block_nums
       /\ store.inodes[n].blocks = img.inodes[n].blocks
  /\ \A p \in DOMAIN store.data : \A n \in R, j \in BlockIndices :
       Pointer(img.inodes, n, j) # p[1]

Freed(img, x, ws) ==
  /\ \A i \in 1 .. Len(ws) : x \in DOMAIN ws[i].inode_bitmap => ws[i].inode_bitmap[x] = 0
  /\ img.inode_bitmap[x] = 1 => \E i \in 1 .. Len(ws) : x \in DOMAIN ws[i].inode_bitmap

(***************************************************************************)
(* What is done is done: the rest spares what there is.                    *)
(***************************************************************************)
Settling(img, R, x, ws) ==
  /\ Orderly(img, R)
  /\ \A i \in 1 .. Len(ws) : Sparing(img, R, x, ws[i])
  /\ x \in R \/ Freed(img, x, ws)

(***************************************************************************)
(* reply_Unlink before its first write, which takes away the entry i of d. *)
(***************************************************************************)
Unlinking(img, R, d, i, x, ws) ==
  /\ Orderly(img, R)
  /\ d \in DirsIn(img, R) /\ i \in LiveIn(img, d) /\ x = NamedIn(img, d, i)
  /\ x \in DirsIn(img, R) => LiveIn(img, x) = {}
  /\ Len(ws) > 0 /\ ws[1] = StoreEntry(EntBlock(img.inodes[d], i), i % DirEntsPerBlock, UnusedEnt)
  /\ \A k \in 2 .. Len(ws) : Sparing(img, R \ {x}, x, ws[k])
  /\ Freed(img, x, Tail(ws))

(***************************************************************************)
(* reply_Write to a block that is there, and to a new one.                 *)
(***************************************************************************)
Overwriting(img, R, n, j, text, ws) ==
  /\ Orderly(img, R)
  /\ n \in R \ DirsIn(img, R) /\ j \in BlockIndices /\ Pointer(img.inodes, n, j) # -1
  /\ Len(ws) = 1 /\ ws[1] = StoreBlock(Pointer(img.inodes, n, j), text)

Due(ws, c, k, store) == c >= k => ws[c - k + 1] = store

Marked(img, b) ==
  [inode_bitmap |-> img.inode_bitmap, data_bitmap |-> Occupied(img.data_bitmap, b),
   inodes |-> img.inodes, data |-> img.data]

Extending(img, R, n, j, b, text, ws) ==
  /\ n \in R \ DirsIn(img, R) /\ j \in BlockIndices /\ b \in Blocks
  /\ Len(ws) \in 1 .. 3
  /\ Due(ws, Len(ws), 3, StoreBlock(b, text))
  /\ Due(ws, Len(ws), 2, StoreInode(n, push_inode_update(img.inodes[n], j, b)))
  /\ Due(ws, Len(ws), 1, StoreDataBitmap(At(b, 1)))
  /\ Len(ws) > 1 =>
       /\ Orderly(img, R)
       /\ Pointer(img.inodes, n, j) = -1
       /\ img.data_bitmap[b] # 1
  /\ Len(ws) = 1 =>
       /\ Orderly(Marked(img, b), R)
       /\ Pointer(img.inodes, n, j) = b

(***************************************************************************)
(* reply_Creat: c writes before the one that goes astray.                  *)
(***************************************************************************)
Late(t) == IF t = MFS_DIRECTORY THEN 1 ELSE 0

Apart(store, R) ==
  /\ DOMAIN store.inode_bitmap = {} /\ DOMAIN store.data_bitmap = {} /\ DOMAIN store.data = {}
  /\ DOMAIN store.inodes \cap R = {}

FreeOf(img, R, b) ==
  b \in Blocks /\ \A n \in R, j \in BlockIndices : Pointer(img.inodes, n, j) # b

Finished(img, b, s, ent, x, inode) ==
  [inode_bitmap |-> img.inode_bitmap, data_bitmap |-> img.data_bitmap,
   inodes |-> [img.inodes EXCEPT ![x] = inode], data |-> Entered(img.data, b, s, ent)]

CreatDue(img, R, d, t, x, b, s, own, name, ws, c) ==
  /\ Len(ws) = c + Late(t)
  /\ Due(ws, c, 5, StoreInodeBitmap(Occupied(img.inode_bitmap, x)))
  /\ Due(ws, c, 4, StoreDataBitmap(Occupied(Occupied(img.data_bitmap, b), own)))
  /\ Due(ws, c, 3, StoreInode(d, WithEntry(img.inodes[d], b)))
  /\ Due(ws, c, 2, StoreEntry(b, s, [inum |-> x, name |-> name]))
  /\ Due(ws, c, 1, StoreInode(x, NewInode(t, own)))
  /\ \A i \in c + 1 .. Len(ws) : Apart(ws[i], R \cup {x})

Creating(img, R, d, t, x, b, s, own, name, ws, c) ==
  LET ent == [inum |-> x, name |-> name]
      dir == img.inodes[d]
  IN
  /\ c \in 1 .. 5 /\ CreatDue(img, R, d, t, x, b, s, own, name, ws, c)
  /\ d \in DirsIn(img, R) /\ x \in Inums \ R
  /\ b \in Blocks /\ s \in Slots
  /\ own \in IF t = MFS_DIRECTORY THEN Blocks \ {b} ELSE {-1}
  /\ Asked(name, t)
  /\ c >= 3 =>
       /\ Orderly(img, R)
       /\ \A i \in LiveIn(img, d) : NameIn(img, d, i) # name
       /\ dir.size # MFS_INODE_BLOCKS_SIZE * DirEntsPerBlock
       /\ s = SlotForEntry(dir)
       /\ IF BlockNeeded(dir) THEN FreeOf(img, R, b) ELSE b = LastBlock(dir)
       /\ t = MFS_DIRECTORY => FreeOf(img, R, own)
  /\ c <= 4 => img.inode_bitmap[x] = 1
  /\ c <= 3 => \A a \in {b, own} \cap Blocks : img.data_bitmap[a] = 1
  /\ c <= 2 => Orderly(Finished(img, b, s, ent, x, NewInode(t, own)), R \cup {x})
  /\ c = 2 => \E q \in BlockIndices : Pointer(img.inodes, d, q) = b
  /\ c = 1 => img.data[b][s] = ent

InUseIn(img) == {n \in Inums : img.inode_bitmap[n] = 1}
Lost(img, R, x, k) == Cardinality(InUseIn(img) \ (R \cup {x})) <= k

Going(old, img, R, x, m, ws) ==
  \/ m.message_type = "U" /\ \E i \in LiveIn(img, m.inum) : Unlinking(img, R, m.inum, i, x, ws)
  \/ /\ m.message_type = "W"
     /\ x = m.inum
     /\ \/ Overwriting(img, R, m.inum, m.block, m.buffer, ws)
        \/ /\ old.inodes[m.inum].blocks[m.block] = -1
           /\ \E b \in Blocks : Extending(img, R, m.inum, m.block, b, m.buffer, ws)
  \/ /\ m.message_type = "C"
     /\ x = FreeInum(old) /\ Orderly(old, R)
     /\ \E b \in Blocks, s \in Slots, own \in Pointers, c \in 1 .. 5 :
          Creating(img, R, m.inum, m.type, x, b, s, own, m.name, ws, c)

(***************************************************************************)
(* The call is to an inode of R, or it will be refused if it would change  *)
(* one: its inode is not marked.                                           *)
(***************************************************************************)
Changing(m) == m.message_type \in {"W", "C", "U"}

CallHeld(img, R, m, srv) ==
  m # Idle =>
    \/ m.inum \in R
    \/ srv # "writing" /\ (Changing(m) => img.inode_bitmap[m.inum] # 1)

(***************************************************************************)
(* The image is in order for the inodes R, or on the way there with the    *)
(* writes to come; a kill cost an inode each, and x is the one that the    *)
(* request in progress may yet lose.                                       *)
(***************************************************************************)
Explained(old, img, R, x, m, ws, srv, k) ==
  /\ CallHeld(img, R, m, srv)
  /\ Lost(img, R, x, k)
  /\ Settling(img, R, x, ws) \/ (srv = "writing" /\ Going(old, img, R, x, m, ws))

KillInv ==
  /\ kills \in Nat
  /\ server # "writing" => writes = << >>
  /\ Bearing => \E R \in SUBSET Inums, x \in Inums :
                  Explained(before, Snapshot, R, x, call, writes, server, kills)

-----------------------------------------------------------------------------
(***************************************************************************)
(* The order of an image whose directories are as they were.               *)
(***************************************************************************)
LEMMA PlaceOf ==
  ASSUME NEW img, NEW R, InodesHeld(img, R), NEW d \in DirsIn(img, R),
         NEW i \in 2 .. img.inodes[d].size - 1
  PROVE  /\ i \in Nat /\ i \in 0 .. img.inodes[d].size - 1
         /\ i \div DirEntsPerBlock \in BlockIndices
         /\ i % DirEntsPerBlock \in Slots
         /\ EntBlock(img.inodes[d], i) = Pointer(img.inodes, d, i \div DirEntsPerBlock)
         /\ EntBlock(img.inodes[d], i) \in Blocks
         /\ EntBlock(img.inodes[d], i) # -1
<1>1. img.inodes[d] \in Inode /\ DirTable(img.inodes[d])
  BY DEF InodesHeld, DirsIn
<1>2. img.inodes[d].size \in Nat
  BY <1>1 DEF Inode
<1>3. i \in 0 .. img.inodes[d].size - 1
  BY <1>2
<1>. QED BY <1>1, <1>3, EntryPlace DEF EntBlock, Pointer, Blocks

LEMMA SameOrder ==
  ASSUME NEW img, NEW img2, NEW R, Orderly(img, R), BlocksHeld(img2, R),
         \A n \in R : /\ img2.inode_bitmap[n] = 1
                      /\ img2.inodes[n] \in Inode
                      /\ img2.inodes[n].type = img.inodes[n].type,
         \A d \in DirsIn(img, R) : /\ img2.inodes[d].size = img.inodes[d].size
                                  /\ img2.inodes[d].block_nums = img.inodes[d].block_nums
                                  /\ img2.inodes[d].blocks = img.inodes[d].blocks,
         \A b \in Blocks, s \in Slots :
           \/ img2.data[b][s] = img.data[b][s]
           \/ \A d \in DirsIn(img, R), j \in BlockIndices : Pointer(img.inodes, d, j) # b
  PROVE  Orderly(img2, R)
<1>1. InodesHeld(img, R)
  BY DEF Orderly
<1>2. DirsIn(img2, R) = DirsIn(img, R)
  BY DEF DirsIn
<1>3. ASSUME NEW d \in DirsIn(img, R), NEW i \in 2 .. img.inodes[d].size - 1
      PROVE  /\ EntBlock(img2.inodes[d], i) = EntBlock(img.inodes[d], i)
             /\ NamedIn(img2, d, i) = NamedIn(img, d, i)
             /\ NameIn(img2, d, i) = NameIn(img, d, i)
  <2>1. PICK b, s : b = EntBlock(img.inodes[d], i) /\ s = i % DirEntsPerBlock
    OBVIOUS
  <2>2. /\ b \in Blocks /\ s \in Slots /\ i \div DirEntsPerBlock \in BlockIndices
        /\ b = Pointer(img.inodes, d, i \div DirEntsPerBlock)
    BY <1>1, <2>1, PlaceOf
  <2>3. EntBlock(img2.inodes[d], i) = b
    BY <2>1 DEF EntBlock
  <2>4. img2.data[b][s] = img.data[b][s]
    BY <2>2
  <2>. QED BY <2>1, <2>3, <2>4 DEF NamedIn, NameIn, EntAt
<1>4. ASSUME NEW d \in DirsIn(img, R)
      PROVE  LiveIn(img2, d) = LiveIn(img, d)
  BY <1>3 DEF LiveIn, NamedIn
<1>5. \A d \in DirsIn(img, R) : \A i \in LiveIn(img, d) : i \in 2 .. img.inodes[d].size - 1
  BY DEF LiveIn
<1>6. InodesHeld(img2, R)
  <2>1. ASSUME NEW d \in DirsIn(img, R) PROVE DirTable(img2.inodes[d])
    BY <1>1 DEF InodesHeld, DirTable
  <2>. QED BY <1>1, <1>2, <2>1 DEF InodesHeld
<1>7. NamesHeld(img2, R)
  <2>1. NamesHeld(img, R)
    BY DEF Orderly
  <2>. QED BY <1>2, <1>3, <1>4, <1>5, <2>1 DEF NamesHeld
<1>8. Spanned(img2, R)
  <2>1. Spanned(img, R)
    BY DEF Orderly
  <2>2. ASSUME NEW S \in SUBSET R, Leads(img2, R, S) PROVE Leads(img, R, S)
    BY <1>2, <1>3, <1>4, <1>5, <2>2 DEF Leads
  <2>. QED BY <2>1, <2>2 DEF Spanned
<1>9. NamesApart(img2, R)
  <2>1. NamesApart(img, R)
    BY DEF Orderly
  <2>2. \A d \in DirsIn(img, R) : \A i \in LiveIn(img, d) :
          img2.inodes[NamedIn(img, d, i)].type = img.inodes[NamedIn(img, d, i)].type
    BY DEF Orderly, NamesHeld
  <2>. QED BY <1>2, <1>3, <1>4, <1>5, <2>1, <2>2 DEF NamesApart
<1>. QED BY <1>6, <1>7, <1>8, <1>9 DEF Orderly

-----------------------------------------------------------------------------
(***************************************************************************)
(* A write that spares the inodes.                                         *)
(***************************************************************************)
Stored(img, img2, store) ==
  /\ \A n \in Inums :
       /\ n \in DOMAIN store.inode_bitmap => img2.inode_bitmap[n] = store.inode_bitmap[n]
       /\ n \notin DOMAIN store.inode_bitmap => img2.inode_bitmap[n] = img.inode_bitmap[n]
       /\ n \in DOMAIN store.inodes => img2.inodes[n] = store.inodes[n]
       /\ n \notin DOMAIN store.inodes => img2.inodes[n] = img.inodes[n]
  /\ \A b \in Blocks :
       /\ b \in DOMAIN store.data_bitmap => img2.data_bitmap[b] = store.data_bitmap[b]
       /\ b \notin DOMAIN store.data_bitmap => img2.data_bitmap[b] = img.data_bitmap[b]
  /\ \A b \in Pointers, s \in Slots :
       /\ <<b, s>> \in DOMAIN store.data => img2.data[b][s] = store.data[<<b, s>>]
       /\ <<b, s>> \notin DOMAIN store.data => img2.data[b][s] = img.data[b][s]

LEMMA HeldPointers ==
  ASSUME NEW img, NEW R, InodesHeld(img, R), NEW n \in R, NEW j \in BlockIndices
  PROVE  /\ Pointer(img.inodes, n, j) \in Pointers
         /\ Pointer(img.inodes, n, j) # -1 => Pointer(img.inodes, n, j) \in Blocks
         /\ n \in Inums
BY DEF InodesHeld, Inode, Pointer, Pointers

LEMMA SparedInodes ==
  ASSUME NEW img, NEW img2, NEW R, NEW x, NEW store, InodesHeld(img, R),
         Sparing(img, R, x, store), Stored(img, img2, store)
  PROVE  /\ \A n \in R : /\ img2.inode_bitmap[n] = 1
                         /\ img2.inodes[n] \in Inode
                         /\ img2.inodes[n].type = img.inodes[n].type
                         /\ img2.inodes[n].size = img.inodes[n].size
                         /\ img2.inodes[n].block_nums = img.inodes[n].block_nums
                         /\ img2.inodes[n].blocks = img.inodes[n].blocks
         /\ \A n \in R, j \in BlockIndices : Pointer(img2.inodes, n, j) = Pointer(img.inodes, n, j)
         /\ \A n \in Inums : n # x => img2.inode_bitmap[n] = img.inode_bitmap[n]
<1>1. ASSUME NEW n \in R
      PROVE  /\ img2.inode_bitmap[n] = 1
             /\ img2.inodes[n] \in Inode
             /\ img2.inodes[n].type = img.inodes[n].type
             /\ img2.inodes[n].size = img.inodes[n].size
             /\ img2.inodes[n].block_nums = img.inodes[n].block_nums
             /\ img2.inodes[n].blocks = img.inodes[n].blocks
  <2>1. n \in Inums /\ img.inode_bitmap[n] = 1 /\ img.inodes[n] \in Inode
    BY DEF InodesHeld
  <2>2. img2.inode_bitmap[n] = 1
    BY <2>1 DEF Sparing, Stored
  <2>3. CASE n \in DOMAIN store.inodes
    BY <2>1, <2>2, <2>3 DEF Sparing, Stored
  <2>4. CASE n \notin DOMAIN store.inodes
    BY <2>1, <2>2, <2>4 DEF Stored
  <2>. QED BY <2>3, <2>4
<1>2. \A n \in Inums : n # x => img2.inode_bitmap[n] = img.inode_bitmap[n]
  BY DEF Sparing, Stored
<1>. QED BY <1>1, <1>2 DEF Pointer

LEMMA SparedOrder ==
  ASSUME NEW img, NEW img2, NEW R, NEW x, NEW store, Orderly(img, R),
         Sparing(img, R, x, store), Stored(img, img2, store)
  PROVE  Orderly(img2, R)
<1>1. InodesHeld(img, R) /\ BlocksHeld(img, R)
  BY DEF Orderly
<1>2. /\ \A n \in R : /\ img2.inode_bitmap[n] = 1
                      /\ img2.inodes[n] \in Inode
                      /\ img2.inodes[n].type = img.inodes[n].type
                      /\ img2.inodes[n].size = img.inodes[n].size
                      /\ img2.inodes[n].block_nums = img.inodes[n].block_nums
                      /\ img2.inodes[n].blocks = img.inodes[n].blocks
      /\ \A n \in R, j \in BlockIndices : Pointer(img2.inodes, n, j) = Pointer(img.inodes, n, j)
  BY <1>1, SparedInodes
<1>3. BlocksHeld(img2, R)
  <2>1. ASSUME NEW n \in R, NEW j \in BlockIndices, Pointer(img2.inodes, n, j) # -1
        PROVE  img2.data_bitmap[Pointer(img2.inodes, n, j)] = 1
    <3>1. PICK b : b = Pointer(img.inodes, n, j)
      OBVIOUS
    <3>2. b \in Blocks /\ img.data_bitmap[b] = 1
      BY <1>1, <1>2, <2>1, <3>1, HeldPointers DEF BlocksHeld
    <3>3. b \in DOMAIN store.data_bitmap => store.data_bitmap[b] = 1
      BY <3>1 DEF Sparing
    <3>. QED BY <1>2, <3>1, <3>2, <3>3 DEF Stored
  <2>2. ASSUME NEW n \in R, NEW m \in R, NEW j \in BlockIndices, NEW k \in BlockIndices,
               Pointer(img2.inodes, n, j) # -1,
               Pointer(img2.inodes, n, j) = Pointer(img2.inodes, m, k)
        PROVE  n = m /\ j = k
    BY <1>1, <1>2, <2>2 DEF BlocksHeld
  <2>. QED BY <2>1, <2>2 DEF BlocksHeld
<1>4. DirsIn(img, R) \subseteq R
  BY DEF DirsIn
<1>5. ASSUME NEW b \in Blocks, NEW s \in Slots
      PROVE  \/ img2.data[b][s] = img.data[b][s]
             \/ \A d \in DirsIn(img, R), j \in BlockIndices : Pointer(img.inodes, d, j) # b
  <2>1. b \in Pointers
    BY DEF Pointers
  <2>2. CASE <<b, s>> \in DOMAIN store.data
    <3>1. \A n \in R, j \in BlockIndices : Pointer(img.inodes, n, j) # b
      BY <2>2 DEF Sparing
    <3>. QED BY <1>4, <3>1
  <2>3. CASE <<b, s>> \notin DOMAIN store.data
    BY <2>1, <2>3 DEF Stored
  <2>. QED BY <2>2, <2>3
<1>. QED BY <1>2, <1>3, <1>4, <1>5, SameOrder

LEMMA SparedSparing ==
  ASSUME NEW img, NEW img2, NEW R, NEW x, NEW store, InodesHeld(img, R),
         Sparing(img, R, x, store), Stored(img, img2, store),
         NEW store2, Sparing(img, R, x, store2)
  PROVE  Sparing(img2, R, x, store2)
<1>1. /\ \A n \in R : /\ img2.inode_bitmap[n] = 1
                      /\ img2.inodes[n].type = img.inodes[n].type
                      /\ img2.inodes[n].size = img.inodes[n].size
                      /\ img2.inodes[n].block_nums = img.inodes[n].block_nums
                      /\ img2.inodes[n].blocks = img.inodes[n].blocks
      /\ \A n \in R, j \in BlockIndices : Pointer(img2.inodes, n, j) = Pointer(img.inodes, n, j)
      /\ \A n \in Inums : n # x => img2.inode_bitmap[n] = img.inode_bitmap[n]
  BY SparedInodes
<1>2. \A n \in R : img.inode_bitmap[n] = 1
  BY DEF InodesHeld
<1>3. \A n \in Inums \cap DOMAIN store2.inode_bitmap :
        n # x \/ n \in R => store2.inode_bitmap[n] = img2.inode_bitmap[n]
  BY <1>1, <1>2 DEF Sparing
<1>4. \A n \in R, j \in BlockIndices :
        Pointer(img2.inodes, n, j) \in DOMAIN store2.data_bitmap =>
          store2.data_bitmap[Pointer(img2.inodes, n, j)] = 1
  BY <1>1 DEF Sparing
<1>5. \A n \in R \cap DOMAIN store2.inodes :
        /\ store2.inodes[n] \in Inode
        /\ store2.inodes[n].type = img2.inodes[n].type
        /\ store2.inodes[n].size = img2.inodes[n].size
        /\ store2.inodes[n].block_nums = img2.inodes[n].block_nums
        /\ store2.inodes[n].blocks = img2.inodes[n].blocks
  BY <1>1 DEF Sparing
<1>6. \A p \in DOMAIN store2.data : \A n \in R, j \in BlockIndices :
        Pointer(img2.inodes, n, j) # p[1]
  BY <1>1 DEF Sparing
<1>. QED BY <1>3, <1>4, <1>5, <1>6 DEF Sparing

LEMMA SettlingOn ==
  ASSUME NEW img, NEW img2, NEW R, NEW x \in Inums, NEW S, NEW ws \in Seq(S), ws # << >>,
         Settling(img, R, x, ws), Stored(img, img2, Head(ws))
  PROVE  /\ Settling(img2, R, x, Tail(ws))
         /\ Sparing(img, R, x, Head(ws))
<1>1. /\ Len(ws) \in Nat \ {0}
      /\ Len(Tail(ws)) = Len(ws) - 1
      /\ \A i \in 1 .. Len(ws) - 1 : Tail(ws)[i] = ws[i + 1]
      /\ Head(ws) = ws[1]
  BY RestOfWrites
<1>2. Orderly(img, R) /\ InodesHeld(img, R)
  BY DEF Settling, Orderly
<1>3. Sparing(img, R, x, Head(ws))
  BY <1>1 DEF Settling
<1>4. Orderly(img2, R)
  BY <1>2, <1>3, SparedOrder
<1>5. ASSUME NEW i \in 1 .. Len(Tail(ws))
      PROVE  Sparing(img2, R, x, Tail(ws)[i])
  <2>1. PICK store2 : store2 = Tail(ws)[i]
    OBVIOUS
  <2>2. i + 1 \in 1 .. Len(ws) /\ store2 = ws[i + 1]
    BY <1>1, <2>1
  <2>3. Sparing(img, R, x, store2)
    BY <2>2 DEF Settling
  <2>. QED BY <1>2, <1>3, <2>1, <2>3, SparedSparing
<1>6. ASSUME Freed(img, x, ws) PROVE Freed(img2, x, Tail(ws))
  <2>1. ASSUME NEW i \in 1 .. Len(Tail(ws)), x \in DOMAIN Tail(ws)[i].inode_bitmap
        PROVE  Tail(ws)[i].inode_bitmap[x] = 0
    <3>1. i + 1 \in 1 .. Len(ws) /\ Tail(ws)[i] = ws[i + 1]
      BY <1>1
    <3>. QED BY <1>6, <2>1, <3>1 DEF Freed
  <2>2. ASSUME img2.inode_bitmap[x] = 1
        PROVE  \E i \in 1 .. Len(Tail(ws)) : x \in DOMAIN Tail(ws)[i].inode_bitmap
    <3>1. 1 \in 1 .. Len(ws)
      BY <1>1
    <3>2. x \notin DOMAIN Head(ws).inode_bitmap /\ img.inode_bitmap[x] = 1
      BY <1>1, <1>6, <2>2, <3>1 DEF Freed, Stored
    <3>3. PICK i \in 1 .. Len(ws) : x \in DOMAIN ws[i].inode_bitmap
      BY <1>6, <3>2 DEF Freed
    <3>4. i # 1
      BY <1>1, <3>2, <3>3
    <3>5. i - 1 \in 1 .. Len(Tail(ws)) /\ Tail(ws)[i - 1] = ws[i]
      BY <1>1, <3>4
    <3>. QED BY <3>3, <3>5
  <2>. QED BY <2>1, <2>2 DEF Freed
<1>. QED BY <1>3, <1>4, <1>5, <1>6 DEF Settling

LEMMA LostOn ==
  ASSUME NEW img, NEW img2, NEW R, NEW R2, NEW x, NEW k, Lost(img, R, x, k),
         R2 \cup {x} = R \cup {x},
         \A n \in Inums : n # x => img2.inode_bitmap[n] = img.inode_bitmap[n]
  PROVE  Lost(img2, R2, x, k)
<1>1. InUseIn(img2) \ (R2 \cup {x}) = InUseIn(img) \ (R \cup {x})
  BY DEF InUseIn
<1>. QED BY <1>1 DEF Lost

(***************************************************************************)
(* What the kinds of writes store, and where.                              *)
(***************************************************************************)
LEMMA TextPlaces ==
  ASSUME NEW p, NEW text, NEW store, store = StoreBlock(p, text)
  PROVE  /\ DOMAIN store.inode_bitmap = {} /\ DOMAIN store.data_bitmap = {}
         /\ DOMAIN store.inodes = {}
         /\ DOMAIN store.data = {p} \X Slots
         /\ \A s \in Slots : store.data[<<p, s>>] = TextBlock(text)[s]
<1>1. /\ store.inode_bitmap = Nowhere /\ store.data_bitmap = Nowhere /\ store.inodes = Nowhere
      /\ DOMAIN store.data = {p} \X Slots
      /\ \A s \in Slots : store.data[<<p, s>>] = TextBlock(text)[s]
  BY StoreTexts
<1>. QED BY <1>1, NowherePlaces

LEMMA InodePlaces ==
  ASSUME NEW n, NEW inode, NEW store, store = StoreInode(n, inode)
  PROVE  /\ DOMAIN store.inode_bitmap = {} /\ DOMAIN store.data_bitmap = {}
         /\ DOMAIN store.data = {}
         /\ DOMAIN store.inodes = {n} /\ store.inodes[n] = inode
<1>1. /\ store.inode_bitmap = Nowhere /\ store.data_bitmap = Nowhere /\ store.data = Nowhere
      /\ store.inodes = At(n, inode)
  BY StoreInodes
<1>2. DOMAIN At(n, inode) = {n} /\ At(n, inode)[n] = inode
  BY AtPlace
<1>. QED BY <1>1, <1>2, NowherePlaces

LEMMA EntryPlaces ==
  ASSUME NEW b, NEW s, NEW ent, NEW store, store = StoreEntry(b, s, ent)
  PROVE  /\ DOMAIN store.inode_bitmap = {} /\ DOMAIN store.data_bitmap = {}
         /\ DOMAIN store.inodes = {}
         /\ DOMAIN store.data = {<<b, s>>} /\ store.data[<<b, s>>] = ent
<1>1. /\ store.inode_bitmap = Nowhere /\ store.data_bitmap = Nowhere /\ store.inodes = Nowhere
      /\ store.data = At(<<b, s>>, ent)
  BY StoreEntries
<1>2. DOMAIN At(<<b, s>>, ent) = {<<b, s>>} /\ At(<<b, s>>, ent)[<<b, s>>] = ent
  BY AtPlace
<1>. QED BY <1>1, <1>2, NowherePlaces

LEMMA MarkPlaces ==
  ASSUME NEW bits, NEW store, store = StoreDataBitmap(bits)
  PROVE  /\ DOMAIN store.inode_bitmap = {} /\ DOMAIN store.inodes = {} /\ DOMAIN store.data = {}
         /\ store.data_bitmap = bits
<1>1. /\ store.inode_bitmap = Nowhere /\ store.inodes = Nowhere /\ store.data = Nowhere
      /\ store.data_bitmap = bits
  BY StoreBits
<1>. QED BY <1>1, NowherePlaces

LEMMA UsePlaces ==
  ASSUME NEW bits, NEW store, store = StoreInodeBitmap(bits)
  PROVE  /\ DOMAIN store.data_bitmap = {} /\ DOMAIN store.inodes = {} /\ DOMAIN store.data = {}
         /\ store.inode_bitmap = bits
<1>1. /\ store.data_bitmap = Nowhere /\ store.inodes = Nowhere /\ store.data = Nowhere
      /\ store.inode_bitmap = bits
  BY StoreBits
<1>. QED BY <1>1, NowherePlaces

-----------------------------------------------------------------------------
(***************************************************************************)
(* The writes of reply_Write.                                              *)
(***************************************************************************)
LEMMA OverwriteOn ==
  ASSUME NEW img, NEW img2, NEW R, NEW n, NEW j, NEW text, NEW S, NEW ws \in Seq(S),
         Overwriting(img, R, n, j, text, ws), Stored(img, img2, Head(ws))
  PROVE  Settling(img2, R, n, Tail(ws))
<1>1. /\ InodesHeld(img, R) /\ BlocksHeld(img, R)
      /\ n \in R /\ n \notin DirsIn(img, R) /\ j \in BlockIndices
  BY DEF Overwriting, Orderly
<1>2. PICK p : p = Pointer(img.inodes, n, j)
  OBVIOUS
<1>3. /\ p # -1 /\ p \in Blocks
      /\ ws # << >> /\ Len(Tail(ws)) = 0
      /\ Head(ws) = StoreBlock(p, text)
  BY <1>1, <1>2, HeldPointers DEF Overwriting
<1>4. PICK store : store = StoreBlock(p, text)
  OBVIOUS
<1>5. /\ DOMAIN store.inode_bitmap = {} /\ DOMAIN store.data_bitmap = {}
      /\ DOMAIN store.inodes = {}
      /\ DOMAIN store.data = {p} \X Slots
  BY <1>4, TextPlaces
<1>6. Stored(img, img2, store)
  BY <1>3, <1>4
<1>7. /\ \A m \in Inums : /\ img2.inode_bitmap[m] = img.inode_bitmap[m]
                          /\ img2.inodes[m] = img.inodes[m]
      /\ \A b \in Blocks : img2.data_bitmap[b] = img.data_bitmap[b]
  BY <1>5, <1>6 DEF Stored
<1>8. \A m \in R : /\ img2.inode_bitmap[m] = 1
                   /\ img2.inodes[m] = img.inodes[m] /\ img2.inodes[m] \in Inode
  BY <1>1, <1>7 DEF InodesHeld
<1>9. BlocksHeld(img2, R)
  <2>1. \A m \in R, k \in BlockIndices : Pointer(img2.inodes, m, k) = Pointer(img.inodes, m, k)
    BY <1>8 DEF Pointer
  <2>2. \A m \in R, k \in BlockIndices :
          Pointer(img.inodes, m, k) # -1 => Pointer(img.inodes, m, k) \in Blocks
    BY <1>1, HeldPointers
  <2>. QED BY <1>1, <1>7, <2>1, <2>2 DEF BlocksHeld
<1>10. DirsIn(img, R) \subseteq R
  BY DEF DirsIn
<1>11. ASSUME NEW b \in Blocks, NEW s \in Slots
       PROVE  \/ img2.data[b][s] = img.data[b][s]
              \/ \A d \in DirsIn(img, R), k \in BlockIndices : Pointer(img.inodes, d, k) # b
  <2>1. b \in Pointers
    BY DEF Pointers
  <2>2. CASE b = p
    BY <1>1, <1>2, <1>3, <1>10, <2>2 DEF BlocksHeld
  <2>3. CASE b # p
    <3>1. <<b, s>> \notin DOMAIN store.data
      BY <1>5, <2>3
    <3>. QED BY <1>6, <2>1, <3>1 DEF Stored
  <2>. QED BY <2>2, <2>3
<1>12. Orderly(img, R)
  BY DEF Overwriting
<1>13. Orderly(img2, R)
  BY <1>8, <1>9, <1>10, <1>11, <1>12, SameOrder
<1>14. 1 .. Len(Tail(ws)) = {}
  <2>1. PICK l : l = Len(Tail(ws))
    OBVIOUS
  <2>2. l = 0
    BY <1>3, <2>1, Zenon
  <2>3. 1 .. 0 = {}
    OBVIOUS
  <2>. QED BY <2>1, <2>2, <2>3, Zenon
<1>. QED BY <1>1, <1>13, <1>14 DEF Settling

(***************************************************************************)
(* The new block of a file.  Until its mark is stored, the image with the  *)
(* mark is the one in order.                                               *)
(***************************************************************************)
LEMMA MarkedIs ==
  ASSUME NEW img, Shaped(img), NEW b \in Blocks
  PROVE  /\ Marked(img, b).inode_bitmap = img.inode_bitmap
         /\ Marked(img, b).inodes = img.inodes /\ Marked(img, b).data = img.data
         /\ \A a \in Blocks : Marked(img, b).data_bitmap[a] = IF a = b THEN 1 ELSE img.data_bitmap[a]
<1>1. DOMAIN img.data_bitmap = Blocks
  BY DEF Shaped
<1>. QED BY <1>1 DEF Marked, Occupied

LEMMA PushIs ==
  ASSUME NEW inode \in Inode, NEW j \in BlockIndices, NEW b \in Blocks
  PROVE  /\ push_inode_update(inode, j, b) \in Inode
         /\ push_inode_update(inode, j, b).type = inode.type
         /\ \A k \in BlockIndices :
              push_inode_update(inode, j, b).blocks[k] = IF k = j THEN b ELSE inode.blocks[k]
<1>1. push_inode_update(inode, j, b) \in Inode
  BY PushTypes DEF Pointers
<1>. QED BY <1>1 DEF push_inode_update, Inode

LEMMA PointerStored ==
  ASSUME NEW img, NEW img2, NEW R, Shaped(img2), Orderly(img, R),
         NEW n \in R, n \notin DirsIn(img, R), NEW j \in BlockIndices, NEW b \in Blocks,
         Pointer(img.inodes, n, j) = -1, img.data_bitmap[b] # 1,
         Stored(img, img2, StoreInode(n, push_inode_update(img.inodes[n], j, b)))
  PROVE  Orderly(Marked(img2, b), R) /\ Pointer(img2.inodes, n, j) = b
<1>. DEFINE pushed == push_inode_update(img.inodes[n], j, b)
<1>1. InodesHeld(img, R) /\ BlocksHeld(img, R) /\ R \subseteq Inums
  BY DEF Orderly, InodesHeld
<1>2. /\ pushed \in Inode
      /\ pushed.type = img.inodes[n].type
      /\ \A k \in BlockIndices : pushed.blocks[k] = IF k = j THEN b ELSE Pointer(img.inodes, n, k)
  BY <1>1, PushIs DEF InodesHeld, Pointer
<1>. HIDE DEF pushed
<1>3. PICK store : store = StoreInode(n, pushed)
  OBVIOUS
<1>4. /\ DOMAIN store.inode_bitmap = {} /\ DOMAIN store.data_bitmap = {} /\ DOMAIN store.data = {}
      /\ DOMAIN store.inodes = {n} /\ store.inodes[n] = pushed
  BY <1>3, InodePlaces
<1>5. Stored(img, img2, store)
  BY <1>3 DEF pushed
<1>6. PICK after : after = Marked(img2, b)
  OBVIOUS
<1>7. /\ after.inode_bitmap = img2.inode_bitmap
      /\ after.inodes = img2.inodes /\ after.data = img2.data
      /\ \A a \in Blocks : after.data_bitmap[a] = IF a = b THEN 1 ELSE img2.data_bitmap[a]
  BY <1>6, MarkedIs
<1>8. /\ \A m \in R : after.inode_bitmap[m] = 1
      /\ \A m \in R \ {n} : after.inodes[m] = img.inodes[m]
      /\ after.inodes[n] = pushed
      /\ \A a \in Blocks \ {b} : after.data_bitmap[a] = img.data_bitmap[a]
  BY <1>1, <1>4, <1>5, <1>7 DEF Stored, InodesHeld
<1>9. \A m \in R : after.inodes[m] \in Inode /\ after.inodes[m].type = img.inodes[m].type
  BY <1>1, <1>2, <1>8 DEF InodesHeld
<1>10. \A m \in R, k \in BlockIndices :
         /\ m = n /\ k = j => Pointer(after.inodes, m, k) = b
         /\ ~(m = n /\ k = j) => Pointer(after.inodes, m, k) = Pointer(img.inodes, m, k)
  BY <1>2, <1>8 DEF Pointer
<1>11. \A m \in R, k \in BlockIndices :
         /\ Pointer(img.inodes, m, k) # b
         /\ Pointer(img.inodes, m, k) # -1 =>
              /\ Pointer(img.inodes, m, k) \in Blocks
              /\ img.data_bitmap[Pointer(img.inodes, m, k)] = 1
  <2>1. b # -1
    BY DEF Blocks
  <2>. QED BY <1>1, <2>1, HeldPointers DEF BlocksHeld
<1>12. BlocksHeld(after, R)
  <2>1. ASSUME NEW m \in R, NEW k \in BlockIndices, Pointer(after.inodes, m, k) # -1
        PROVE  after.data_bitmap[Pointer(after.inodes, m, k)] = 1
    <3>1. CASE m = n /\ k = j
      BY <1>7, <1>10, <3>1
    <3>2. CASE ~(m = n /\ k = j)
      BY <1>8, <1>10, <1>11, <2>1, <3>2
    <3>. QED BY <3>1, <3>2
  <2>2. ASSUME NEW m \in R, NEW o \in R, NEW k \in BlockIndices, NEW l \in BlockIndices,
               Pointer(after.inodes, m, k) # -1,
               Pointer(after.inodes, m, k) = Pointer(after.inodes, o, l)
        PROVE  m = o /\ k = l
    <3>1. CASE m = n /\ k = j
      BY <1>10, <1>11, <2>2, <3>1
    <3>2. CASE o = n /\ l = j
      BY <1>10, <1>11, <2>2, <3>2
    <3>3. CASE ~(m = n /\ k = j) /\ ~(o = n /\ l = j)
      BY <1>1, <1>10, <2>2, <3>3 DEF BlocksHeld
    <3>. QED BY <3>1, <3>2, <3>3
  <2>. QED BY <2>1, <2>2 DEF BlocksHeld
<1>13. \A d \in DirsIn(img, R) : d \in R /\ d # n
  BY DEF DirsIn
<1>14. \A a \in Blocks, s \in Slots : after.data[a][s] = img.data[a][s]
  BY <1>4, <1>5, <1>7 DEF Stored, Pointers
<1>15. Orderly(after, R)
  BY <1>8, <1>9, <1>12, <1>13, <1>14, SameOrder
<1>. QED BY <1>6, <1>7, <1>10, <1>15

LEMMA MarkStored ==
  ASSUME NEW img, NEW img2, NEW R, Shaped(img), NEW b \in Blocks, Orderly(Marked(img, b), R),
         Stored(img, img2, StoreDataBitmap(At(b, 1)))
  PROVE  Orderly(img2, R)
<1>1. PICK store : store = StoreDataBitmap(At(b, 1))
  OBVIOUS
<1>2. /\ DOMAIN store.inode_bitmap = {} /\ DOMAIN store.inodes = {} /\ DOMAIN store.data = {}
      /\ DOMAIN store.data_bitmap = {b} /\ store.data_bitmap[b] = 1
  <2>1. DOMAIN At(b, 1) = {b} /\ At(b, 1)[b] = 1
    BY AtPlace
  <2>. QED BY <1>1, <2>1, MarkPlaces
<1>3. PICK was : was = Marked(img, b)
  OBVIOUS
<1>4. /\ was.inode_bitmap = img.inode_bitmap /\ was.inodes = img.inodes /\ was.data = img.data
      /\ \A a \in Blocks : was.data_bitmap[a] = IF a = b THEN 1 ELSE img.data_bitmap[a]
  BY <1>3, MarkedIs
<1>5. Stored(img, img2, store)
  BY <1>1
<1>6. /\ \A n \in Inums : /\ img2.inode_bitmap[n] = was.inode_bitmap[n]
                          /\ img2.inodes[n] = was.inodes[n]
      /\ \A a \in Blocks : img2.data_bitmap[a] = was.data_bitmap[a]
      /\ \A a \in Blocks, s \in Slots : img2.data[a][s] = was.data[a][s]
  BY <1>2, <1>4, <1>5 DEF Stored, Pointers
<1>7. Orderly(was, R) /\ InodesHeld(was, R) /\ BlocksHeld(was, R)
  BY <1>3 DEF Orderly
<1>8. \A n \in R : /\ img2.inode_bitmap[n] = 1
                   /\ img2.inodes[n] = was.inodes[n] /\ img2.inodes[n] \in Inode
  BY <1>6, <1>7 DEF InodesHeld
<1>9. BlocksHeld(img2, R)
  <2>1. \A m \in R, k \in BlockIndices : Pointer(img2.inodes, m, k) = Pointer(was.inodes, m, k)
    BY <1>8 DEF Pointer
  <2>2. \A m \in R, k \in BlockIndices :
          Pointer(was.inodes, m, k) # -1 => Pointer(was.inodes, m, k) \in Blocks
    BY <1>7, HeldPointers
  <2>. QED BY <1>6, <1>7, <2>1, <2>2 DEF BlocksHeld
<1>10. DirsIn(was, R) \subseteq R
  BY DEF DirsIn
<1>. QED BY <1>6, <1>7, <1>8, <1>9, <1>10, SameOrder

LEMMA DueOn ==
  ASSUME NEW S, NEW ws \in Seq(S), ws # << >>, NEW c \in 1 .. Len(ws), NEW k \in Nat \ {0},
         NEW store, Due(ws, c, k, store)
  PROVE  /\ Due(Tail(ws), c - 1, k, store)
         /\ k = c => Head(ws) = store
<1>1. /\ Len(ws) \in Nat \ {0}
      /\ \A i \in 1 .. Len(ws) - 1 : Tail(ws)[i] = ws[i + 1]
      /\ Head(ws) = ws[1]
  BY RestOfWrites
<1>2. ASSUME k = c PROVE Head(ws) = store
  BY <1>1, <1>2 DEF Due
<1>3. ASSUME c - 1 >= k PROVE Tail(ws)[c - 1 - k + 1] = store
  <2>1. PICK i : i = c - k
    OBVIOUS
  <2>2. i \in 1 .. Len(ws) - 1 /\ c - 1 - k + 1 = i /\ c - k + 1 = i + 1 /\ c >= k
    BY <1>1, <1>3, <2>1
  <2>3. ws[i + 1] = store
    BY <2>2 DEF Due
  <2>. QED BY <1>1, <2>2, <2>3
<1>. QED BY <1>2, <1>3 DEF Due

LEMMA UnmarkedIsFree ==
  ASSUME NEW img, NEW R, Orderly(img, R), NEW b \in Blocks, img.data_bitmap[b] # 1
  PROVE  FreeOf(img, R, b)
<1>1. b # -1
  BY DEF Blocks
<1>. QED BY <1>1 DEF Orderly, BlocksHeld, FreeOf

LEMMA TextSpares ==
  ASSUME NEW img, NEW R, NEW x, NEW b, FreeOf(img, R, b), NEW text
  PROVE  Sparing(img, R, x, StoreBlock(b, text))
<1>1. PICK store : store = StoreBlock(b, text)
  OBVIOUS
<1>2. /\ DOMAIN store.inode_bitmap = {} /\ DOMAIN store.data_bitmap = {}
      /\ DOMAIN store.inodes = {}
      /\ DOMAIN store.data = {b} \X Slots
  BY <1>1, TextPlaces
<1>3. ASSUME NEW p \in DOMAIN store.data
      PROVE  \A n \in R, j \in BlockIndices : Pointer(img.inodes, n, j) # p[1]
  <2>1. PICK s \in Slots : p = <<b, s>>
    BY <1>2
  <2>. QED BY <1>2, <2>1 DEF FreeOf
<1>4. Sparing(img, R, x, store)
  BY <1>2, <1>3 DEF Sparing
<1>. QED BY <1>1, <1>4

LEMMA ExtendOn ==
  ASSUME NEW img, NEW img2, Shaped(img), Shaped(img2), NEW R, NEW n, NEW j, NEW b, NEW text,
         NEW S, NEW ws \in Seq(S), ws # << >>,
         Extending(img, R, n, j, b, text, ws), Stored(img, img2, Head(ws))
  PROVE  Extending(img2, R, n, j, b, text, Tail(ws)) \/ Settling(img2, R, n, Tail(ws))
<1>1. PICK rest : rest = Tail(ws)
  OBVIOUS
<1>. DEFINE pushed(inodes0) == push_inode_update(inodes0[n], j, b)
<1>2. /\ n \in R /\ n \notin DirsIn(img, R) /\ j \in BlockIndices /\ b \in Blocks
      /\ Len(ws) \in 1 .. 3
      /\ Len(rest) = Len(ws) - 1
  BY <1>1, RestOfWrites DEF Extending
<1>3. /\ Due(ws, Len(ws), 3, StoreBlock(b, text))
      /\ Due(ws, Len(ws), 2, StoreInode(n, pushed(img.inodes)))
      /\ Due(ws, Len(ws), 1, StoreDataBitmap(At(b, 1)))
  BY DEF Extending
<1>. HIDE DEF pushed
<1>4. /\ Due(rest, Len(ws) - 1, 3, StoreBlock(b, text))
      /\ 3 = Len(ws) => Head(ws) = StoreBlock(b, text)
  <2>1. 3 \in Nat \ {0} /\ Len(ws) \in 1 .. Len(ws)
    BY <1>2
  <2>. QED BY <1>1, <1>3, <2>1, DueOn
<1>5. /\ Due(rest, Len(ws) - 1, 2, StoreInode(n, pushed(img.inodes)))
      /\ 2 = Len(ws) => Head(ws) = StoreInode(n, pushed(img.inodes))
  <2>1. 2 \in Nat \ {0} /\ Len(ws) \in 1 .. Len(ws)
    BY <1>2
  <2>. QED BY <1>1, <1>3, <2>1, DueOn
<1>6. /\ Due(rest, Len(ws) - 1, 1, StoreDataBitmap(At(b, 1)))
      /\ 1 = Len(ws) => Head(ws) = StoreDataBitmap(At(b, 1))
  <2>1. 1 \in Nat \ {0} /\ Len(ws) \in 1 .. Len(ws)
    BY <1>2
  <2>. QED BY <1>1, <1>3, <2>1, DueOn
<1>7. ASSUME Len(ws) = 3
      PROVE  Extending(img2, R, n, j, b, text, rest)
  <2>1. /\ Orderly(img, R) /\ Pointer(img.inodes, n, j) = -1 /\ img.data_bitmap[b] # 1
        /\ InodesHeld(img, R) /\ n \in Inums
    BY <1>2, <1>7 DEF Extending, Orderly, InodesHeld
  <2>2. PICK store : store = StoreBlock(b, text)
    OBVIOUS
  <2>3. Stored(img, img2, store) /\ Sparing(img, R, n, store)
    <3>1. FreeOf(img, R, b)
      BY <1>2, <2>1, UnmarkedIsFree
    <3>2. Sparing(img, R, n, store)
      BY <1>2, <2>2, <3>1, TextSpares
    <3>. QED BY <1>4, <1>7, <2>2, <3>2
  <2>4. DOMAIN store.data_bitmap = {} /\ DOMAIN store.inodes = {}
    BY <1>2, <2>2, TextPlaces
  <2>5. Orderly(img2, R)
    BY <2>1, <2>3, SparedOrder
  <2>6. img2.inodes[n] = img.inodes[n] /\ img2.data_bitmap[b] = img.data_bitmap[b]
    BY <1>2, <2>1, <2>3, <2>4 DEF Stored
  <2>7. n \notin DirsIn(img2, R) /\ Pointer(img2.inodes, n, j) = -1 /\ img2.data_bitmap[b] # 1
    BY <1>2, <2>1, <2>6 DEF DirsIn, Pointer
  <2>8. pushed(img2.inodes) = pushed(img.inodes)
    BY <2>6 DEF pushed
  <2>9. Due(rest, Len(ws) - 1, 2, StoreInode(n, pushed(img2.inodes)))
    BY <1>5, <2>8
  <2>10. Len(rest) = 2
    BY <1>2, <1>7
  <2>. QED BY <1>2, <1>4, <1>6, <1>7, <2>5, <2>7, <2>9, <2>10 DEF Extending, pushed
<1>8. ASSUME Len(ws) = 2
      PROVE  Extending(img2, R, n, j, b, text, rest)
  <2>1. /\ Orderly(img, R) /\ Pointer(img.inodes, n, j) = -1 /\ img.data_bitmap[b] # 1
        /\ n \in Inums
    BY <1>2, <1>8 DEF Extending, Orderly, InodesHeld
  <2>2. Stored(img, img2, StoreInode(n, push_inode_update(img.inodes[n], j, b)))
    BY <1>5, <1>8 DEF pushed
  <2>3. Orderly(Marked(img2, b), R) /\ Pointer(img2.inodes, n, j) = b
    BY <1>2, <2>1, <2>2, PointerStored
  <2>4. n \notin DirsIn(img2, R)
    <3>1. img2.inodes[n] = pushed(img.inodes)
      <4>1. PICK inode, store : /\ inode = push_inode_update(img.inodes[n], j, b)
                                /\ store = StoreInode(n, inode)
        OBVIOUS
      <4>2. DOMAIN store.inodes = {n} /\ store.inodes[n] = inode
        BY <4>1, InodePlaces
      <4>. QED BY <2>1, <2>2, <4>1, <4>2 DEF Stored, pushed
    <3>2. img.inodes[n] \in Inode
      BY <1>2, <2>1 DEF Orderly, InodesHeld
    <3>3. pushed(img.inodes).type = img.inodes[n].type
      BY <1>2, <3>2, PushIs DEF pushed
    <3>. QED BY <1>2, <3>1, <3>3 DEF DirsIn
  <2>5. Len(rest) = 1
    BY <1>2, <1>8
  <2>. QED BY <1>2, <1>6, <1>8, <2>3, <2>4, <2>5 DEF Extending, Due
<1>9. ASSUME Len(ws) = 1
      PROVE  Settling(img2, R, n, rest)
  <2>1. Orderly(Marked(img, b), R)
    BY <1>9 DEF Extending
  <2>2. Orderly(img2, R)
    BY <1>2, <1>6, <1>9, <2>1, MarkStored
  <2>3. 1 .. Len(rest) = {}
    BY <1>2, <1>9
  <2>. QED BY <1>2, <2>2, <2>3 DEF Settling
<1>. QED BY <1>1, <1>2, <1>7, <1>8, <1>9

-----------------------------------------------------------------------------
(***************************************************************************)
(* The first write of reply_Unlink takes an inode out of the tree.         *)
(***************************************************************************)

(***************************************************************************)
(* No two entries of directories lie in the same place.                    *)
(***************************************************************************)
LEMMA EntriesApart ==
  ASSUME NEW img, NEW R, InodesHeld(img, R), BlocksHeld(img, R),
         NEW d \in DirsIn(img, R), NEW i \in 2 .. img.inodes[d].size - 1,
         NEW e \in DirsIn(img, R), NEW k \in 2 .. img.inodes[e].size - 1,
         EntBlock(img.inodes[d], i) = EntBlock(img.inodes[e], k),
         i % DirEntsPerBlock = k % DirEntsPerBlock
  PROVE  d = e /\ i = k
<1>1. /\ i \in Nat /\ i \div DirEntsPerBlock \in BlockIndices
      /\ EntBlock(img.inodes[d], i) = Pointer(img.inodes, d, i \div DirEntsPerBlock)
      /\ EntBlock(img.inodes[d], i) # -1
  BY PlaceOf
<1>2. /\ k \in Nat /\ k \div DirEntsPerBlock \in BlockIndices
      /\ EntBlock(img.inodes[e], k) = Pointer(img.inodes, e, k \div DirEntsPerBlock)
  BY PlaceOf
<1>3. d \in R /\ e \in R
  BY DEF DirsIn
<1>4. d = e /\ i \div DirEntsPerBlock = k \div DirEntsPerBlock
  <2>1. PICK a, c : a = i \div DirEntsPerBlock /\ c = k \div DirEntsPerBlock
    OBVIOUS
  <2>2. /\ a \in BlockIndices /\ c \in BlockIndices
        /\ Pointer(img.inodes, d, a) # -1
        /\ Pointer(img.inodes, d, a) = Pointer(img.inodes, e, c)
    BY <1>1, <1>2, <2>1
  <2>3. d = e /\ a = c
    BY <1>3, <2>2 DEF BlocksHeld
  <2>. QED BY <2>1, <2>3
<1>. QED BY <1>1, <1>2, <1>4, PlacesDiffer, SizesAssumption

LEMMA UnlinkOrder ==
  ASSUME NEW img, NEW img2, NEW R, NEW d, NEW i, NEW x, Orderly(img, R),
         d \in DirsIn(img, R), i \in LiveIn(img, d), x = NamedIn(img, d, i),
         x \in DirsIn(img, R) => LiveIn(img, x) = {},
         Stored(img, img2, StoreEntry(EntBlock(img.inodes[d], i), i % DirEntsPerBlock, UnusedEnt))
  PROVE  /\ Orderly(img2, R \ {x})
         /\ x \in R \ {0, d}
         /\ \A n \in Inums : /\ img2.inode_bitmap[n] = img.inode_bitmap[n]
                             /\ img2.inodes[n] = img.inodes[n]
         /\ \A b \in Blocks : img2.data_bitmap[b] = img.data_bitmap[b]
<1>1. /\ InodesHeld(img, R) /\ BlocksHeld(img, R) /\ NamesHeld(img, R)
      /\ Spanned(img, R) /\ NamesApart(img, R)
  BY DEF Orderly
<1>2. PICK p, s0 : p = EntBlock(img.inodes[d], i) /\ s0 = i % DirEntsPerBlock
  OBVIOUS
<1>3. PICK store : store = StoreEntry(p, s0, UnusedEnt)
  OBVIOUS
<1>4. /\ DOMAIN store.inode_bitmap = {} /\ DOMAIN store.data_bitmap = {}
      /\ DOMAIN store.inodes = {}
      /\ DOMAIN store.data = {<<p, s0>>} /\ store.data[<<p, s0>>] = UnusedEnt
  BY <1>3, EntryPlaces
<1>5. Stored(img, img2, store)
  BY <1>2, <1>3
<1>6. /\ \A n \in Inums : /\ img2.inode_bitmap[n] = img.inode_bitmap[n]
                          /\ img2.inodes[n] = img.inodes[n]
      /\ \A b \in Blocks : img2.data_bitmap[b] = img.data_bitmap[b]
  BY <1>4, <1>5 DEF Stored
<1>7. \A b \in Blocks, s \in Slots :
        /\ b = p /\ s = s0 => img2.data[b][s].inum = -1
        /\ ~(b = p /\ s = s0) => img2.data[b][s] = img.data[b][s]
  <2>1. UnusedEnt.inum = -1
    BY DEF UnusedEnt
  <2>2. ASSUME NEW b \in Blocks, NEW s \in Slots
        PROVE  /\ b = p /\ s = s0 => img2.data[b][s].inum = -1
               /\ ~(b = p /\ s = s0) => img2.data[b][s] = img.data[b][s]
    <3>1. b \in Pointers
      BY DEF Pointers
    <3>2. /\ <<b, s>> \in DOMAIN store.data => img2.data[b][s] = store.data[<<b, s>>]
          /\ <<b, s>> \notin DOMAIN store.data => img2.data[b][s] = img.data[b][s]
      BY <1>5, <3>1 DEF Stored
    <3>. QED BY <1>4, <2>1, <3>2
  <2>. QED BY <2>2
<1>8. x \in R \ {0, d}
  BY <1>1 DEF NamesHeld
<1>9. R \subseteq Inums /\ DirsIn(img, R) \subseteq R
  BY <1>1 DEF InodesHeld, DirsIn
<1>10. \A n \in R : img2.inodes[n] = img.inodes[n]
  BY <1>6, <1>9
<1>11. DirsIn(img2, R \ {x}) = DirsIn(img, R) \ {x}
  BY <1>10 DEF DirsIn
<1>12. i \in 2 .. img.inodes[d].size - 1
  BY DEF LiveIn
<1>13. ASSUME NEW e \in DirsIn(img, R), NEW k \in 2 .. img.inodes[e].size - 1
       PROVE  /\ e = d /\ k = i => NamedIn(img2, e, k) = -1
              /\ ~(e = d /\ k = i) => /\ NamedIn(img2, e, k) = NamedIn(img, e, k)
                                      /\ NameIn(img2, e, k) = NameIn(img, e, k)
  <2>1. EntBlock(img.inodes[e], k) \in Blocks /\ k % DirEntsPerBlock \in Slots
    BY <1>1, PlaceOf
  <2>2. EntBlock(img.inodes[e], k) = p /\ k % DirEntsPerBlock = s0 => e = d /\ k = i
    BY <1>1, <1>2, <1>12, EntriesApart
  <2>3. img2.inodes[e] = img.inodes[e]
    BY <1>9, <1>10
  <2>. QED BY <1>2, <1>7, <2>1, <2>2, <2>3 DEF NamedIn, NameIn, EntAt
<1>14. ASSUME NEW e \in DirsIn(img, R), NEW k
       PROVE  k \in LiveIn(img2, e) <=> k \in LiveIn(img, e) /\ ~(e = d /\ k = i)
  <2>1. img2.inodes[e] = img.inodes[e]
    BY <1>9, <1>10
  <2>. QED BY <1>13, <2>1 DEF LiveIn, NamedIn
<1>15. \A e \in DirsIn(img, R) : \A k \in LiveIn(img, e) : k \in 2 .. img.inodes[e].size - 1
  BY DEF LiveIn
<1>16. InodesHeld(img2, R \ {x})
  BY <1>1, <1>6, <1>9, <1>10, <1>11 DEF InodesHeld
<1>17. BlocksHeld(img2, R \ {x})
  <2>1. \A m \in R, k \in BlockIndices : Pointer(img2.inodes, m, k) = Pointer(img.inodes, m, k)
    BY <1>10 DEF Pointer
  <2>2. \A m \in R, k \in BlockIndices :
          Pointer(img.inodes, m, k) # -1 => Pointer(img.inodes, m, k) \in Blocks
    BY <1>1, HeldPointers
  <2>. QED BY <1>1, <1>6, <2>1, <2>2 DEF BlocksHeld
<1>18. NamesHeld(img2, R \ {x})
  <2>1. ASSUME NEW e \in DirsIn(img2, R \ {x}), NEW k \in LiveIn(img2, e)
        PROVE  /\ e \in DirsIn(img, R) /\ k \in LiveIn(img, e)
               /\ NamedIn(img2, e, k) = NamedIn(img, e, k)
               /\ NamedIn(img2, e, k) \in (R \ {x}) \ {0}
    <3>1. e \in DirsIn(img, R) /\ k \in LiveIn(img, e) /\ ~(e = d /\ k = i)
      BY <1>11, <1>14
    <3>2. NamedIn(img2, e, k) = NamedIn(img, e, k)
      BY <1>13, <1>15, <3>1
    <3>3. NamedIn(img, e, k) \in R \ {0} /\ NamedIn(img, e, k) # x
      BY <1>1, <3>1 DEF NamesHeld
    <3>. QED BY <3>1, <3>2, <3>3
  <2>. QED BY <1>1, <2>1 DEF NamesHeld
<1>19. Spanned(img2, R \ {x})
  <2>1. ASSUME NEW S \in SUBSET (R \ {x}), Leads(img2, R \ {x}, S)
        PROVE  S = R \ {x}
    <3>1. ASSUME NEW e \in (S \cup {x}) \cap DirsIn(img, R), NEW k \in LiveIn(img, e)
          PROVE  NamedIn(img, e, k) \in S \cup {x}
      <4>1. e # x /\ e \in S
        BY <3>1
      <4>2. CASE e = d /\ k = i
        BY <4>2
      <4>3. CASE ~(e = d /\ k = i)
        <5>1. e \in S \cap DirsIn(img2, R \ {x}) /\ k \in LiveIn(img2, e)
          BY <1>11, <1>14, <4>1, <4>3
        <5>2. NamedIn(img2, e, k) \in S
          BY <2>1, <5>1 DEF Leads
        <5>. QED BY <1>13, <1>15, <4>3, <5>2
      <4>. QED BY <4>2, <4>3
    <3>2. Leads(img, R, S \cup {x})
      BY <2>1, <3>1 DEF Leads
    <3>3. S \cup {x} \in SUBSET R
      BY <1>8
    <3>4. S \cup {x} = R
      BY <1>1, <3>2, <3>3 DEF Spanned
    <3>. QED BY <3>4
  <2>2. 0 \in R \ {x}
    BY <1>1, <1>8 DEF Spanned
  <2>. QED BY <2>1, <2>2 DEF Spanned
<1>20. NamesApart(img2, R \ {x})
  <2>1. ASSUME NEW e \in DirsIn(img2, R \ {x}), NEW k \in LiveIn(img2, e)
        PROVE  /\ e \in DirsIn(img, R) /\ k \in LiveIn(img, e)
               /\ NameIn(img2, e, k) = NameIn(img, e, k)
               /\ img2.inodes[NamedIn(img2, e, k)].type = img.inodes[NamedIn(img, e, k)].type
    <3>1. e \in DirsIn(img, R) /\ k \in LiveIn(img, e) /\ ~(e = d /\ k = i)
      BY <1>11, <1>14
    <3>2. NamedIn(img2, e, k) = NamedIn(img, e, k) /\ NameIn(img2, e, k) = NameIn(img, e, k)
      BY <1>13, <1>15, <3>1
    <3>3. NamedIn(img, e, k) \in R
      BY <1>1, <3>1 DEF NamesHeld
    <3>. QED BY <1>10, <3>1, <3>2, <3>3
  <2>2. ASSUME NEW e \in DirsIn(img2, R \ {x}), NEW k \in LiveIn(img2, e)
        PROVE  Asked(NameIn(img2, e, k), img2.inodes[NamedIn(img2, e, k)].type)
    BY <1>1, <2>1 DEF NamesApart
  <2>3. ASSUME NEW e \in DirsIn(img2, R \ {x}), NEW k \in LiveIn(img2, e),
               NEW l \in LiveIn(img2, e), NameIn(img2, e, k) = NameIn(img2, e, l)
        PROVE  k = l
    BY <1>1, <2>1, <2>3 DEF NamesApart
  <2>. QED BY <2>2, <2>3 DEF NamesApart
<1>. QED BY <1>6, <1>8, <1>16, <1>17, <1>18, <1>19, <1>20 DEF Orderly

LEMMA UnlinkOn ==
  ASSUME NEW img, NEW img2, NEW R, NEW d, NEW i, NEW x \in Inums, NEW S, NEW ws \in Seq(S),
         Unlinking(img, R, d, i, x, ws), Stored(img, img2, Head(ws))
  PROVE  Settling(img2, R \ {x}, x, Tail(ws)) /\ d \in R \ {x}
<1>1. PICK rest : rest = Tail(ws)
  OBVIOUS
<1>2. /\ ws # << >> /\ Len(ws) \in Nat \ {0}
      /\ Len(rest) = Len(ws) - 1
      /\ \A k \in 1 .. Len(ws) - 1 : rest[k] = ws[k + 1]
      /\ Head(ws) = ws[1]
  <2>1. ws # << >>
    BY DEF Unlinking
  <2>. QED BY <1>1, <2>1, RestOfWrites
<1>3. /\ Orderly(img, R)
      /\ d \in DirsIn(img, R) /\ i \in LiveIn(img, d) /\ x = NamedIn(img, d, i)
      /\ x \in DirsIn(img, R) => LiveIn(img, x) = {}
      /\ ws[1] = StoreEntry(EntBlock(img.inodes[d], i), i % DirEntsPerBlock, UnusedEnt)
      /\ \A k \in 2 .. Len(ws) : Sparing(img, R \ {x}, x, ws[k])
      /\ Freed(img, x, rest)
  BY <1>1 DEF Unlinking
<1>4. Stored(img, img2, StoreEntry(EntBlock(img.inodes[d], i), i % DirEntsPerBlock, UnusedEnt))
  BY <1>2, <1>3
<1>5. /\ Orderly(img2, R \ {x})
      /\ x \in R \ {0, d}
      /\ \A n \in Inums : /\ img2.inode_bitmap[n] = img.inode_bitmap[n]
                          /\ img2.inodes[n] = img.inodes[n]
  BY <1>3, <1>4, UnlinkOrder
<1>6. d \in R /\ R \subseteq Inums
  BY <1>3 DEF DirsIn, Orderly, InodesHeld
<1>7. ASSUME NEW k \in 1 .. Len(rest)
      PROVE  Sparing(img2, R \ {x}, x, rest[k])
  <2>1. PICK store : store = rest[k]
    OBVIOUS
  <2>2. k + 1 \in 2 .. Len(ws) /\ store = ws[k + 1]
    BY <1>2, <2>1
  <2>3. Sparing(img, R \ {x}, x, store)
    BY <1>3, <2>2
  <2>4. /\ \A n \in R, j \in BlockIndices : Pointer(img2.inodes, n, j) = Pointer(img.inodes, n, j)
        /\ \A n \in R : img2.inodes[n] = img.inodes[n]
    BY <1>5, <1>6 DEF Pointer
  <2>5. Sparing(img2, R \ {x}, x, store)
    BY <1>5, <2>3, <2>4 DEF Sparing
  <2>. QED BY <2>1, <2>5
<1>8. Freed(img2, x, rest)
  BY <1>3, <1>5 DEF Freed
<1>. QED BY <1>1, <1>5, <1>6, <1>7, <1>8 DEF Settling

-----------------------------------------------------------------------------
(***************************************************************************)
(* The writes of reply_Creat.                                              *)
(***************************************************************************)
LEMMA SamePicture ==
  ASSUME NEW img, NEW img2, NEW R, Orderly(img, R),
         \A n \in Inums : /\ img2.inode_bitmap[n] = img.inode_bitmap[n]
                          /\ img2.inodes[n] = img.inodes[n],
         \A b \in Blocks : img2.data_bitmap[b] = img.data_bitmap[b],
         \A b \in Blocks, s \in Slots : img2.data[b][s] = img.data[b][s]
  PROVE  Orderly(img2, R)
<1>1. InodesHeld(img, R) /\ BlocksHeld(img, R) /\ R \subseteq Inums
  BY DEF Orderly, InodesHeld
<1>2. \A n \in R : /\ img2.inode_bitmap[n] = 1
                   /\ img2.inodes[n] = img.inodes[n] /\ img2.inodes[n] \in Inode
  BY <1>1 DEF InodesHeld
<1>3. BlocksHeld(img2, R)
  <2>1. \A m \in R, k \in BlockIndices : Pointer(img2.inodes, m, k) = Pointer(img.inodes, m, k)
    BY <1>2 DEF Pointer
  <2>2. \A m \in R, k \in BlockIndices :
          Pointer(img.inodes, m, k) # -1 => Pointer(img.inodes, m, k) \in Blocks
    BY <1>1, HeldPointers
  <2>. QED BY <1>1, <2>1, <2>2 DEF BlocksHeld
<1>4. DirsIn(img, R) \subseteq R
  BY DEF DirsIn
<1>. QED BY <1>2, <1>3, <1>4, SameOrder

Finishes(img, b, s, ent, x, inode, fin) ==
  /\ fin.inode_bitmap = img.inode_bitmap /\ fin.data_bitmap = img.data_bitmap
  /\ \A n \in Inums : fin.inodes[n] = IF n = x THEN inode ELSE img.inodes[n]
  /\ \A a \in Blocks, r \in Slots :
       /\ a = b /\ r = s => fin.data[a][r] = ent
       /\ ~(a = b /\ r = s) => fin.data[a][r] = img.data[a][r]

LEMMA FinishedIs ==
  ASSUME NEW img, Shaped(img), NEW b \in Blocks, NEW s \in Slots, NEW ent,
         NEW x \in Inums, NEW inode
  PROVE  Finishes(img, b, s, ent, x, inode, Finished(img, b, s, ent, x, inode))
<1>1. PICK fin : fin = Finished(img, b, s, ent, x, inode)
  OBVIOUS
<1>2. DOMAIN img.inodes = Inums
  BY DEF Shaped
<1>3. DataShaped(img.data)
  BY DEF Shaped, DataShaped
<1>4. EntryAt(img.data, <<b, s>>, ent, Entered(img.data, b, s, ent))
  BY <1>3, EntryStored
<1>5. /\ fin.inode_bitmap = img.inode_bitmap /\ fin.data_bitmap = img.data_bitmap
      /\ fin.inodes = [img.inodes EXCEPT ![x] = inode]
      /\ fin.data = Entered(img.data, b, s, ent)
  BY <1>1 DEF Finished
<1>6. ASSUME NEW a \in Blocks, NEW r \in Slots
      PROVE  /\ a = b /\ r = s => fin.data[a][r] = ent
             /\ ~(a = b /\ r = s) => fin.data[a][r] = img.data[a][r]
  <2>1. a \in Pointers
    BY DEF Pointers
  <2>2. (a = b /\ r = s) <=> <<a, r>> = <<b, s>>
    OBVIOUS
  <2>. QED BY <1>4, <1>5, <2>1, <2>2 DEF EntryAt
<1>. QED BY <1>1, <1>2, <1>5, <1>6 DEF Finishes

(***************************************************************************)
(* The inode that reply_Creat makes.                                       *)
(***************************************************************************)
LEMMA NewInodeIs ==
  ASSUME NEW t \in TypeArgs, NEW own, own \in Pointers, t = MFS_DIRECTORY => own \in Blocks,
         NEW inode, inode = NewInode(t, own)
  PROVE  /\ inode \in Inode /\ inode.type = t
         /\ t = MFS_DIRECTORY => DirTable(inode) /\ inode.size = 2
         /\ \A j \in BlockIndices :
              inode.blocks[j] = IF t = MFS_DIRECTORY /\ j = 0 THEN own ELSE -1
<1>1. t \in Int
  BY DEF TypeArgs, MFS_DIRECTORY, MFS_REGULAR_FILE
<1>2. inode \in Inode
  BY <1>1, InodeTypes
<1>3. CASE t = MFS_DIRECTORY
  <2>1. inode = EmptyDir(own)
    BY <1>3 DEF NewInode
  <2>2. DirTable(inode) /\ inode.size = 2
    BY <1>3, <2>1, EmptyDirTable
  <2>3. inode.type = t /\ inode.blocks = [NoBlocks EXCEPT ![0] = own]
    BY <1>3, <2>1 DEF EmptyDir
  <2>4. \A j \in BlockIndices : inode.blocks[j] = IF j = 0 THEN own ELSE -1
    BY <2>3 DEF NoBlocks
  <2>. QED BY <1>2, <1>3, <2>2, <2>3, <2>4
<1>4. CASE t # MFS_DIRECTORY
  <2>1. inode = [ZeroInode EXCEPT !.type = t]
    BY <1>4 DEF NewInode
  <2>2. inode.type = t /\ inode.blocks = NoBlocks
    BY <2>1 DEF ZeroInode
  <2>. QED BY <1>2, <1>4, <2>2 DEF NoBlocks
<1>. QED BY <1>3, <1>4

(***************************************************************************)
(* The place of the new entry is none that an entry has.                   *)
(***************************************************************************)
NewPlace(img, R, d, b, s) ==
  /\ d \in DirsIn(img, R) /\ b \in Blocks /\ s \in Slots
  /\ img.inodes[d].size # MFS_INODE_BLOCKS_SIZE * DirEntsPerBlock
  /\ s = SlotForEntry(img.inodes[d])
  /\ BlockNeeded(img.inodes[d]) => FreeOf(img, R, b)
  /\ ~BlockNeeded(img.inodes[d]) => b = LastBlock(img.inodes[d])

LEMMA NewPlaceFree ==
  ASSUME NEW img, NEW R, InodesHeld(img, R), BlocksHeld(img, R),
         NEW d, NEW b, NEW s, NewPlace(img, R, d, b, s),
         NEW e \in DirsIn(img, R), NEW k \in 2 .. img.inodes[e].size - 1
  PROVE  ~(EntBlock(img.inodes[e], k) = b /\ k % DirEntsPerBlock = s)
<1>1. SUFFICES ASSUME EntBlock(img.inodes[e], k) = b, k % DirEntsPerBlock = s PROVE FALSE
  OBVIOUS
<1>2. PICK dir : dir = img.inodes[d]
  OBVIOUS
<1>3. /\ dir \in Inode /\ DirTable(dir) /\ d \in R /\ e \in R
      /\ dir.size # MFS_INODE_BLOCKS_SIZE * DirEntsPerBlock
      /\ s = SlotForEntry(dir)
  BY <1>2 DEF NewPlace, InodesHeld, DirsIn
<1>4. PICK q : q = k \div DirEntsPerBlock
  OBVIOUS
<1>5. /\ k \in Nat /\ q \in BlockIndices
      /\ EntBlock(img.inodes[e], k) = Pointer(img.inodes, e, q)
      /\ EntBlock(img.inodes[e], k) # -1
  BY <1>4, PlaceOf
<1>6. CASE BlockNeeded(dir)
  BY <1>1, <1>2, <1>3, <1>5, <1>6 DEF NewPlace, FreeOf
<1>7. CASE ~BlockNeeded(dir)
  <2>1. /\ dir.size \in Nat
        /\ dir.block_nums - 1 \in BlockIndices
        /\ dir.size \div DirEntsPerBlock = dir.block_nums - 1
        /\ s = dir.size % DirEntsPerBlock
    BY <1>3, <1>7, NextPlace
  <2>2. b = Pointer(img.inodes, d, dir.block_nums - 1)
    BY <1>2, <1>7 DEF NewPlace, LastBlock, Pointer
  <2>3. e = d /\ q = dir.block_nums - 1
    <3>1. PICK r : r = dir.block_nums - 1
      OBVIOUS
    <3>2. /\ r \in BlockIndices
          /\ Pointer(img.inodes, e, q) # -1 /\ Pointer(img.inodes, e, q) = Pointer(img.inodes, d, r)
      BY <1>1, <1>5, <2>1, <2>2, <3>1
    <3>. QED BY <1>3, <1>5, <3>1, <3>2 DEF BlocksHeld
  <2>4. k = dir.size
    BY <1>1, <1>4, <1>5, <2>1, <2>3, PlacesDiffer, SizesAssumption
  <2>. QED BY <1>2, <2>1, <2>3, <2>4
<1>. QED BY <1>6, <1>7

(***************************************************************************)
(* The image with the entry, the parent and the new inode: the new inode   *)
(* joins those in order.                                                   *)
(***************************************************************************)
Joins(img, fin, R, d, parent, t, x, made, b, s, own, ent) ==
  /\ Orderly(img, R) /\ NewPlace(img, R, d, b, s)
  /\ parent = WithEntry(img.inodes[d], b) /\ made = NewInode(t, own)
  /\ x \in Inums \ R /\ ent.inum = x /\ Asked(ent.name, t)
  /\ \A i \in LiveIn(img, d) : NameIn(img, d, i) # ent.name
  /\ img.inode_bitmap[x] = 1 /\ img.data_bitmap[b] = 1
  /\ own \in Pointers
  /\ t = MFS_DIRECTORY =>
       own \in Blocks /\ own # b /\ FreeOf(img, R, own) /\ img.data_bitmap[own] = 1
  /\ \A n \in Inums : /\ fin.inode_bitmap[n] = img.inode_bitmap[n]
                      /\ n = x => fin.inodes[n] = made
                      /\ n = d => fin.inodes[n] = parent
                      /\ n # x /\ n # d => fin.inodes[n] = img.inodes[n]
  /\ \A a \in Blocks : fin.data_bitmap[a] = img.data_bitmap[a]
  /\ \A a \in Blocks, r \in Slots :
       /\ a = b /\ r = s => fin.data[a][r] = ent
       /\ ~(a = b /\ r = s) => fin.data[a][r] = img.data[a][r]

LEMMA CreatOrder ==
  ASSUME NEW img, NEW fin, NEW R, NEW d, NEW parent, NEW t \in TypeArgs, NEW x, NEW made,
         NEW b, NEW s, NEW own, NEW ent,
         Joins(img, fin, R, d, parent, t, x, made, b, s, own, ent)
  PROVE  Orderly(fin, R \cup {x})
<1>. USE DEF Joins
<1>1. /\ InodesHeld(img, R) /\ BlocksHeld(img, R) /\ NamesHeld(img, R)
      /\ Spanned(img, R) /\ NamesApart(img, R)
      /\ R \subseteq Inums /\ DirsIn(img, R) \subseteq R
  BY DEF Orderly, InodesHeld, DirsIn
<1>2. PICK dir : dir = img.inodes[d]
  OBVIOUS
<1>3. /\ d \in R /\ d # x /\ dir \in Inode /\ DirTable(dir) /\ dir.type = MFS_DIRECTORY
      /\ b \in Blocks /\ s \in Slots
      /\ dir.size # MFS_INODE_BLOCKS_SIZE * DirEntsPerBlock
      /\ s = SlotForEntry(dir)
  BY <1>1, <1>2 DEF NewPlace, InodesHeld, DirsIn
<1>4. /\ parent \in Inode /\ parent.type = dir.type /\ parent.size = dir.size + 1
      /\ DirTable(parent)
      /\ EntBlock(parent, dir.size) = b
      /\ \A i \in 0 .. dir.size - 1 : EntBlock(parent, i) = EntBlock(dir, i)
      /\ \A j \in BlockIndices :
           parent.blocks[j] = IF BlockNeeded(dir) /\ j = dir.block_nums THEN b ELSE dir.blocks[j]
  <2>1. EntBlock(parent, dir.size) = IF BlockNeeded(dir) THEN b ELSE LastBlock(dir)
    BY <1>2, <1>3, WithEntryTable
  <2>2. ~BlockNeeded(dir) => b = LastBlock(dir)
    BY <1>2 DEF NewPlace
  <2>. QED BY <1>2, <1>3, <2>1, <2>2, WithEntryTable
<1>5. /\ made \in Inode /\ made.type = t
      /\ t = MFS_DIRECTORY => DirTable(made) /\ made.size = 2
      /\ \A j \in BlockIndices :
           made.blocks[j] = IF t = MFS_DIRECTORY /\ j = 0 THEN own ELSE -1
  BY NewInodeIs
<1>6. /\ dir.size \in Nat /\ 2 <= dir.size
      /\ dir.size % DirEntsPerBlock = s
  BY <1>3, NextPlace DEF DirTable
<1>7. /\ fin.inodes[x] = made /\ fin.inodes[d] = parent
      /\ \A n \in R \ {d} : fin.inodes[n] = img.inodes[n]
      /\ \A n \in R \cup {x} : fin.inode_bitmap[n] = 1
  <2>1. \A n \in R : n \in Inums /\ img.inode_bitmap[n] = 1 /\ n # x
    BY <1>1 DEF InodesHeld
  <2>2. x \in Inums /\ fin.inode_bitmap[x] = 1 /\ fin.inodes[x] = made
    OBVIOUS
  <2>3. d \in Inums /\ fin.inodes[d] = parent
    BY <1>3, <2>1
  <2>4. \A n \in R \ {d} : fin.inodes[n] = img.inodes[n]
    BY <2>1
  <2>5. \A n \in R : fin.inode_bitmap[n] = 1
    BY <2>1
  <2>. QED BY <2>2, <2>3, <2>4, <2>5
<1>8. \A n \in R : fin.inodes[n].type = img.inodes[n].type
  BY <1>2, <1>4, <1>7
<1>9. \A n : n \in DirsIn(fin, R \cup {x}) <=> n \in DirsIn(img, R) \/ (n = x /\ t = MFS_DIRECTORY)
  BY <1>5, <1>7, <1>8 DEF DirsIn
<1>10. InodesHeld(fin, R \cup {x})
  <2>1. ASSUME NEW n \in R \cup {x}
        PROVE  fin.inodes[n] \in Inode /\ fin.inodes[n].type \in TypeArgs
    BY <1>1, <1>2, <1>3, <1>4, <1>5, <1>7 DEF InodesHeld
  <2>2. ASSUME NEW n \in DirsIn(fin, R \cup {x}) PROVE DirTable(fin.inodes[n])
    <3>1. n \in DirsIn(img, R) \/ (n = x /\ t = MFS_DIRECTORY)
      BY <1>9
    <3>2. CASE n = x /\ t = MFS_DIRECTORY
      BY <1>5, <1>7, <3>2
    <3>3. CASE n \in DirsIn(img, R) /\ n = d
      BY <1>4, <1>7, <3>3
    <3>4. CASE n \in DirsIn(img, R) /\ n # d
      BY <1>1, <1>7, <3>4 DEF InodesHeld
    <3>. QED BY <3>1, <3>2, <3>3, <3>4
  <2>. QED BY <1>1, <1>7, <2>1, <2>2 DEF InodesHeld
<1>11. BlocksHeld(fin, R \cup {x})
  <2>. DEFINE P(n, j) == Pointer(img.inodes, n, j)
              Q(n, j) == Pointer(fin.inodes, n, j)
              AtOwn(n, j) == n = x /\ j = 0 /\ t = MFS_DIRECTORY
              AtNew(n, j) == n = d /\ j = dir.block_nums /\ BlockNeeded(dir)
  <2>1. ASSUME NEW n \in R \cup {x}, NEW j \in BlockIndices, Q(n, j) # -1
        PROVE  \/ AtOwn(n, j) /\ Q(n, j) = own
               \/ AtNew(n, j) /\ Q(n, j) = b
               \/ n \in R /\ Q(n, j) = P(n, j)
    <3>1. CASE n = x
      BY <1>5, <1>7, <2>1, <3>1 DEF Pointer
    <3>2. CASE n = d
      BY <1>2, <1>3, <1>4, <1>7, <3>2 DEF Pointer
    <3>3. CASE n # x /\ n # d
      BY <1>7, <3>3 DEF Pointer
    <3>. QED BY <3>1, <3>2, <3>3
  <2>2. /\ t = MFS_DIRECTORY => \A n \in R, j \in BlockIndices : P(n, j) # own
        /\ BlockNeeded(dir) => \A n \in R, j \in BlockIndices : P(n, j) # b
        /\ t = MFS_DIRECTORY => own # b
    BY <1>2 DEF FreeOf, NewPlace
  <2>3. \A n \in R, j \in BlockIndices : P(n, j) # -1 => P(n, j) \in Blocks /\ img.data_bitmap[P(n, j)] = 1
    BY <1>1, HeldPointers DEF BlocksHeld
  <2>4. \A n, m \in R, j, k \in BlockIndices : P(n, j) # -1 /\ P(n, j) = P(m, k) => n = m /\ j = k
    BY <1>1 DEF BlocksHeld
  <2>5. t = MFS_DIRECTORY => img.data_bitmap[own] = 1 /\ own \in Blocks
    OBVIOUS
  <2>6. \A a \in Blocks : fin.data_bitmap[a] = img.data_bitmap[a]
    OBVIOUS
  <2>. HIDE DEF P, Q
  <2>7. ASSUME NEW n \in R \cup {x}, NEW j \in BlockIndices, Q(n, j) # -1
        PROVE  fin.data_bitmap[Q(n, j)] = 1
    <3>1. CASE AtOwn(n, j) /\ Q(n, j) = own
      BY <2>5, <2>6, <3>1
    <3>2. CASE AtNew(n, j) /\ Q(n, j) = b
      BY <1>3, <2>6, <3>2
    <3>3. CASE n \in R /\ Q(n, j) = P(n, j)
      BY <2>3, <2>6, <2>7, <3>3
    <3>. QED BY <2>1, <2>7, <3>1, <3>2, <3>3
  <2>8. ASSUME NEW n \in R \cup {x}, NEW m \in R \cup {x},
               NEW j \in BlockIndices, NEW k \in BlockIndices,
               Q(n, j) # -1, Q(n, j) = Q(m, k)
        PROVE  n = m /\ j = k
    <3>1. Q(m, k) # -1
      BY <2>8
    <3>2. \/ AtOwn(m, k) /\ Q(m, k) = own
          \/ AtNew(m, k) /\ Q(m, k) = b
          \/ m \in R /\ Q(m, k) = P(m, k)
      BY <2>1, <3>1
    <3>3. CASE AtOwn(n, j) /\ Q(n, j) = own
      BY <2>2, <2>8, <3>2, <3>3
    <3>4. CASE AtNew(n, j) /\ Q(n, j) = b
      BY <2>2, <2>8, <3>2, <3>4
    <3>5. CASE n \in R /\ Q(n, j) = P(n, j)
      BY <2>2, <2>4, <2>8, <3>2, <3>5
    <3>. QED BY <2>1, <2>8, <3>3, <3>4, <3>5
  <2>. QED BY <2>7, <2>8 DEF BlocksHeld, Q
<1>12. ASSUME NEW e \in DirsIn(img, R), NEW k \in 2 .. img.inodes[e].size - 1
       PROVE  /\ EntBlock(fin.inodes[e], k) = EntBlock(img.inodes[e], k)
              /\ NamedIn(fin, e, k) = NamedIn(img, e, k)
              /\ NameIn(fin, e, k) = NameIn(img, e, k)
  <2>1. EntBlock(img.inodes[e], k) \in Blocks /\ k % DirEntsPerBlock \in Slots
        /\ k \in 0 .. img.inodes[e].size - 1
    BY <1>1, PlaceOf
  <2>2. ~(EntBlock(img.inodes[e], k) = b /\ k % DirEntsPerBlock = s)
    BY <1>1, NewPlaceFree
  <2>3. EntBlock(fin.inodes[e], k) = EntBlock(img.inodes[e], k)
    <3>1. CASE e = d
      BY <1>2, <1>4, <1>7, <2>1, <3>1
    <3>2. CASE e # d
      BY <1>1, <1>7, <3>2
    <3>. QED BY <3>1, <3>2
  <2>. QED BY <2>1, <2>2, <2>3 DEF NamedIn, NameIn, EntAt
<1>13. /\ NamedIn(fin, d, dir.size) = x /\ NameIn(fin, d, dir.size) = ent.name
       /\ EntBlock(fin.inodes[d], dir.size) = b
  BY <1>3, <1>4, <1>6, <1>7 DEF NamedIn, NameIn, EntAt
<1>14. x # -1 /\ x # 0 /\ x \notin R /\ 0 \in R
  BY <1>1, ImageTypes DEF Spanned
<1>15. ASSUME NEW e \in DirsIn(img, R), NEW k
       PROVE  k \in LiveIn(fin, e) <=> k \in LiveIn(img, e) \/ (e = d /\ k = dir.size)
  <2>1. CASE e = d
    <3>1. fin.inodes[e].size = dir.size + 1 /\ img.inodes[e].size = dir.size
      BY <1>2, <1>4, <1>7, <2>1
    <3>2. k \in 2 .. (dir.size + 1) - 1 <=> k \in 2 .. dir.size - 1 \/ k = dir.size
      BY <1>6
    <3>3. CASE k = dir.size
      <4>1. NamedIn(fin, e, k) # -1 /\ k \in 2 .. fin.inodes[e].size - 1
        BY <1>13, <1>14, <2>1, <3>1, <3>2, <3>3
      <4>. QED BY <2>1, <3>3, <4>1 DEF LiveIn, NamedIn
    <3>4. CASE k \in 2 .. dir.size - 1
      <4>1. NamedIn(fin, e, k) = NamedIn(img, e, k)
        BY <1>12, <3>1, <3>4
      <4>2. k # dir.size /\ k \in 2 .. fin.inodes[e].size - 1 /\ k \in 2 .. img.inodes[e].size - 1
        BY <1>6, <3>1, <3>2, <3>4
      <4>. QED BY <4>1, <4>2 DEF LiveIn, NamedIn
    <3>5. CASE k \notin 2 .. dir.size - 1 /\ k # dir.size
      <4>1. k \notin 2 .. (dir.size + 1) - 1
        BY <3>2, <3>5
      <4>2. k \notin 2 .. fin.inodes[e].size - 1 /\ k \notin 2 .. img.inodes[e].size - 1
        BY Zenon, <3>1, <3>5, <4>1
      <4>. QED BY <3>5, <4>2 DEF LiveIn
    <3>. QED BY <3>3, <3>4, <3>5
  <2>2. CASE e # d
    <3>1. fin.inodes[e].size = img.inodes[e].size
      BY <1>1, <1>7, <2>2
    <3>. QED BY <1>12, <2>2, <3>1 DEF LiveIn, NamedIn
  <2>. QED BY <2>1, <2>2
<1>16. t = MFS_DIRECTORY => LiveIn(fin, x) = {}
  BY <1>5, <1>7 DEF LiveIn
<1>17. \A e \in DirsIn(img, R) : \A k \in LiveIn(img, e) : k \in 2 .. img.inodes[e].size - 1
  BY DEF LiveIn
<1>18. ASSUME NEW e \in DirsIn(fin, R \cup {x}), NEW k \in LiveIn(fin, e)
       PROVE  \/ /\ e \in DirsIn(img, R) /\ k \in LiveIn(img, e)
                 /\ NamedIn(fin, e, k) = NamedIn(img, e, k)
                 /\ NameIn(fin, e, k) = NameIn(img, e, k)
                 /\ NamedIn(fin, e, k) \in R \ {0}
              \/ e = d /\ k = dir.size /\ NamedIn(fin, e, k) = x /\ NameIn(fin, e, k) = ent.name
  <2>1. e \in DirsIn(img, R)
    BY <1>9, <1>16
  <2>2. CASE k \in LiveIn(img, e)
    <3>1. NamedIn(fin, e, k) = NamedIn(img, e, k) /\ NameIn(fin, e, k) = NameIn(img, e, k)
      BY <1>12, <1>17, <2>1, <2>2
    <3>2. NamedIn(img, e, k) \in R \ {0}
      BY <1>1, <2>1, <2>2 DEF NamesHeld
    <3>. QED BY <2>1, <2>2, <3>1, <3>2
  <2>3. CASE e = d /\ k = dir.size
    BY <1>13, <2>3
  <2>. QED BY <1>15, <2>1, <2>2, <2>3
<1>19. NamesHeld(fin, R \cup {x})
  <2>1. ASSUME NEW e \in DirsIn(fin, R \cup {x}), NEW k \in LiveIn(fin, e)
        PROVE  NamedIn(fin, e, k) \in (R \cup {x}) \ {0}
    BY <1>14, <1>18
  <2>2. ASSUME NEW e \in DirsIn(fin, R \cup {x}), NEW k \in LiveIn(fin, e),
               NEW f \in DirsIn(fin, R \cup {x}), NEW l \in LiveIn(fin, f),
               NamedIn(fin, e, k) = NamedIn(fin, f, l)
        PROVE  e = f /\ k = l
    <3>1. CASE NamedIn(fin, e, k) = x
      BY <1>14, <1>18, <2>2, <3>1
    <3>2. CASE NamedIn(fin, e, k) # x
      <4>1. /\ e \in DirsIn(img, R) /\ k \in LiveIn(img, e)
            /\ NamedIn(fin, e, k) = NamedIn(img, e, k)
        BY <1>18, <3>2
      <4>2. /\ f \in DirsIn(img, R) /\ l \in LiveIn(img, f)
            /\ NamedIn(fin, f, l) = NamedIn(img, f, l)
        BY <1>18, <2>2, <3>2
      <4>3. NamedIn(img, e, k) = NamedIn(img, f, l)
        BY <2>2, <4>1, <4>2
      <4>4. NamesHeld(img, R)
        BY <1>1
      <4>. QED BY <4>1, <4>2, <4>3, <4>4 DEF NamesHeld
    <3>. QED BY <3>1, <3>2
  <2>. QED BY ONLY <2>1, <2>2 DEF NamesHeld
<1>20. Spanned(fin, R \cup {x})
  <2>1. ASSUME NEW S \in SUBSET (R \cup {x}), Leads(fin, R \cup {x}, S)
        PROVE  S = R \cup {x}
    <3>1. ASSUME NEW e \in (S \cap R) \cap DirsIn(img, R), NEW k \in LiveIn(img, e)
          PROVE  NamedIn(img, e, k) \in S \cap R
      <4>1. e \in S \cap DirsIn(fin, R \cup {x}) /\ k \in LiveIn(fin, e)
        BY <1>9, <1>15
      <4>2. NamedIn(fin, e, k) \in S
        BY <2>1, <4>1 DEF Leads
      <4>3. NamedIn(fin, e, k) = NamedIn(img, e, k)
        BY <1>12, <1>17
      <4>. QED BY <1>1, <4>2, <4>3 DEF NamesHeld
    <3>2. Leads(img, R, S \cap R)
      BY <1>14, <2>1, <3>1 DEF Leads
    <3>3. S \cap R = R
      BY <1>1, <3>2 DEF Spanned
    <3>4. d \in S \cap DirsIn(fin, R \cup {x}) /\ dir.size \in LiveIn(fin, d)
      BY <1>3, <1>9, <1>15, <3>3 DEF NewPlace
    <3>5. x \in S
      BY <1>13, <2>1, <3>4 DEF Leads
    <3>. QED BY <3>3, <3>5
  <2>. QED BY <1>14, <2>1 DEF Spanned
<1>21. NamesApart(fin, R \cup {x})
  <2>1. ASSUME NEW e \in DirsIn(fin, R \cup {x}), NEW k \in LiveIn(fin, e)
        PROVE  Asked(NameIn(fin, e, k), fin.inodes[NamedIn(fin, e, k)].type)
    <3>1. CASE /\ e \in DirsIn(img, R) /\ k \in LiveIn(img, e)
               /\ NamedIn(fin, e, k) = NamedIn(img, e, k)
               /\ NameIn(fin, e, k) = NameIn(img, e, k)
               /\ NamedIn(fin, e, k) \in R \ {0}
      <4>1. Asked(NameIn(img, e, k), img.inodes[NamedIn(img, e, k)].type)
        BY <1>1, <3>1 DEF NamesApart
      <4>. QED BY <1>8, <3>1, <4>1
    <3>2. CASE e = d /\ k = dir.size /\ NamedIn(fin, e, k) = x /\ NameIn(fin, e, k) = ent.name
      BY <1>5, <1>7, <3>2
    <3>. QED BY <1>18, <3>1, <3>2
  <2>2. ASSUME NEW e \in DirsIn(fin, R \cup {x}), NEW k \in LiveIn(fin, e),
               NEW l \in LiveIn(fin, e), NameIn(fin, e, k) = NameIn(fin, e, l)
        PROVE  k = l
    <3>1. CASE e = d /\ k = dir.size /\ NamedIn(fin, e, k) = x /\ NameIn(fin, e, k) = ent.name
      BY <1>18, <2>2, <3>1
    <3>2. CASE e = d /\ l = dir.size /\ NamedIn(fin, e, l) = x /\ NameIn(fin, e, l) = ent.name
      BY <1>18, <2>2, <3>2
    <3>3. CASE /\ e \in DirsIn(img, R) /\ k \in LiveIn(img, e) /\ l \in LiveIn(img, e)
               /\ NameIn(fin, e, k) = NameIn(img, e, k) /\ NameIn(fin, e, l) = NameIn(img, e, l)
      BY <1>1, <2>2, <3>3 DEF NamesApart
    <3>. QED BY <1>18, <3>1, <3>2, <3>3
  <2>. QED BY <2>1, <2>2 DEF NamesApart
<1>. QED BY <1>10, <1>11, <1>19, <1>20, <1>21 DEF Orderly

(***************************************************************************)
(* The writes of reply_Creat still to come, as one is made.                *)
(***************************************************************************)
LEMMA CreatDueOn ==
  ASSUME NEW img, NEW img2, NEW R, NEW d, NEW t, NEW x, NEW b, NEW s, NEW own, NEW name,
         NEW S, NEW ws \in Seq(S), ws # << >>, NEW c \in 1 .. 5, NEW rest, rest = Tail(ws),
         CreatDue(img, R, d, t, x, b, s, own, name, ws, c),
         c - 1 >= 5 => img2.inode_bitmap = img.inode_bitmap,
         c - 1 >= 4 => img2.data_bitmap = img.data_bitmap,
         c - 1 >= 3 => img2.inodes[d] = img.inodes[d]
  PROVE  CreatDue(img2, R, d, t, x, b, s, own, name, rest, c - 1)
<1>1. /\ Len(ws) \in Nat \ {0} /\ Len(rest) = Len(ws) - 1
      /\ \A i \in 1 .. Len(ws) - 1 : rest[i] = ws[i + 1]
  BY RestOfWrites
<1>2. Late(t) \in {0, 1} /\ Len(ws) = c + Late(t)
  BY DEF CreatDue, Late
<1>3. c \in 1 .. Len(ws)
  BY <1>1, <1>2
<1>4. ASSUME NEW k \in 1 .. 5, NEW store, Due(ws, c, k, store)
      PROVE  Due(rest, c - 1, k, store)
  <2>1. Due(Tail(ws), c - 1, k, store)
    BY <1>3, <1>4, DueOn
  <2>. QED BY <2>1
<1>5. 1 \in 1 .. 5 /\ 2 \in 1 .. 5 /\ 3 \in 1 .. 5 /\ 4 \in 1 .. 5 /\ 5 \in 1 .. 5
  OBVIOUS
<1>6. /\ Due(rest, c - 1, 5, StoreInodeBitmap(Occupied(img.inode_bitmap, x)))
      /\ Due(rest, c - 1, 4, StoreDataBitmap(Occupied(Occupied(img.data_bitmap, b), own)))
      /\ Due(rest, c - 1, 3, StoreInode(d, WithEntry(img.inodes[d], b)))
  BY <1>4, <1>5 DEF CreatDue
<1>7. /\ Due(rest, c - 1, 2, StoreEntry(b, s, [inum |-> x, name |-> name]))
      /\ Due(rest, c - 1, 1, StoreInode(x, NewInode(t, own)))
  BY <1>4, <1>5 DEF CreatDue
<1>8. ASSUME NEW i \in c - 1 + 1 .. Len(rest) PROVE Apart(rest[i], R \cup {x})
  <2>1. i \in 1 .. Len(ws) - 1 /\ i + 1 \in c + 1 .. Len(ws)
    BY <1>1, <1>2
  <2>2. Apart(ws[i + 1], R \cup {x})
    BY <2>1 DEF CreatDue
  <2>. QED BY <1>1, <2>1, <2>2
<1>9. Due(rest, c - 1, 5, StoreInodeBitmap(Occupied(img2.inode_bitmap, x)))
  BY <1>6 DEF Due
<1>10. Due(rest, c - 1, 4, StoreDataBitmap(Occupied(Occupied(img2.data_bitmap, b), own)))
  BY <1>6 DEF Due
<1>11. Due(rest, c - 1, 3, StoreInode(d, WithEntry(img2.inodes[d], b)))
  BY <1>6 DEF Due
<1>12. Len(rest) = c - 1 + Late(t)
  BY <1>1, <1>2
<1>. QED BY <1>7, <1>8, <1>9, <1>10, <1>11, <1>12 DEF CreatDue

LEMMA DueNow ==
  ASSUME NEW S, NEW ws \in Seq(S), ws # << >>, NEW c \in 1 .. 5, NEW store, Due(ws, c, c, store)
  PROVE  Head(ws) = store
<1>1. c >= c /\ c - c + 1 = 1
  OBVIOUS
<1>2. Head(ws) = ws[1]
  BY RestOfWrites
<1>. QED BY <1>1, <1>2 DEF Due

(***************************************************************************)
(* The two bitmaps are stored.                                             *)
(***************************************************************************)
LEMMA SameBitmap ==
  ASSUME NEW img, NEW img2, Shaped(img), Shaped(img2),
         \A b \in Blocks : img2.data_bitmap[b] = img.data_bitmap[b]
  PROVE  img2.data_bitmap = img.data_bitmap
<1>1. PICK f, g : f = img.data_bitmap /\ g = img2.data_bitmap
  OBVIOUS
<1>2. f = [b \in Blocks |-> f[b]] /\ g = [b \in Blocks |-> g[b]]
  BY <1>1 DEF Shaped
<1>3. \A b \in Blocks : f[b] = g[b]
  BY <1>1
<1>4. f = g
  BY <1>2, <1>3
<1>. QED BY <1>1, <1>4

LEMMA SameTable ==
  ASSUME NEW img, NEW img2, Shaped(img), Shaped(img2),
         \A n \in Inums : img2.inodes[n] = img.inodes[n]
  PROVE  img2.inodes = img.inodes
<1>1. PICK f, g : f = img.inodes /\ g = img2.inodes
  OBVIOUS
<1>2. f = [n \in Inums |-> f[n]] /\ g = [n \in Inums |-> g[n]]
  BY <1>1 DEF Shaped
<1>3. \A n \in Inums : f[n] = g[n]
  BY <1>1
<1>4. f = g
  BY <1>2, <1>3
<1>. QED BY <1>1, <1>4

LEMMA CreatMarks ==
  ASSUME NEW img, NEW img2, Shaped(img), Shaped(img2), NEW R, NEW d, NEW t \in TypeArgs,
         NEW x, NEW b, NEW s, NEW own, NEW name, NEW S, NEW ws \in Seq(S), ws # << >>,
         NEW c \in {4, 5}, NEW rest, rest = Tail(ws),
         Creating(img, R, d, t, x, b, s, own, name, ws, c), Stored(img, img2, Head(ws))
  PROVE  Creating(img2, R, d, t, x, b, s, own, name, rest, c - 1)
<1>1. /\ c \in 1 .. 5 /\ CreatDue(img, R, d, t, x, b, s, own, name, ws, c)
      /\ d \in DirsIn(img, R) /\ x \in Inums /\ x \notin R
      /\ b \in Blocks /\ s \in Slots
      /\ own \in IF t = MFS_DIRECTORY THEN Blocks \ {b} ELSE {-1}
      /\ Orderly(img, R)
      /\ c = 4 => img.inode_bitmap[x] = 1
  BY DEF Creating
<1>2. PICK store : store = Head(ws)
  OBVIOUS
<1>3. Stored(img, img2, store) /\ InodesHeld(img, R) /\ BlocksHeld(img, R)
  BY <1>1, <1>2 DEF Orderly
<1>4. DOMAIN img.inode_bitmap = Inums /\ DOMAIN img.data_bitmap = Blocks
  BY DEF Shaped
<1>5. /\ c = 5 => Head(ws) = StoreInodeBitmap(Occupied(img.inode_bitmap, x))
      /\ c = 4 => Head(ws) = StoreDataBitmap(Occupied(Occupied(img.data_bitmap, b), own))
  <2>1. c = 5 => Due(ws, c, c, StoreInodeBitmap(Occupied(img.inode_bitmap, x)))
    BY <1>1 DEF CreatDue
  <2>2. c = 4 => Due(ws, c, c, StoreDataBitmap(Occupied(Occupied(img.data_bitmap, b), own)))
    BY <1>1 DEF CreatDue
  <2>. QED BY <1>1, <2>1, <2>2, DueNow
<1>6. ASSUME c = 5
      PROVE  /\ Sparing(img, R, x, store)
             /\ DOMAIN store.inodes = {} /\ DOMAIN store.data = {}
             /\ img2.data_bitmap = img.data_bitmap
             /\ img2.inode_bitmap[x] = 1
  <2>1. PICK bits : bits = Occupied(img.inode_bitmap, x)
    OBVIOUS
  <2>2. DOMAIN bits = Inums /\ \A n \in Inums : bits[n] = IF n = x THEN 1 ELSE img.inode_bitmap[n]
    BY <1>4, <2>1 DEF Occupied
  <2>3. store = StoreInodeBitmap(bits)
    BY <1>2, <1>6, <1>5, <2>1
  <2>4. /\ DOMAIN store.data_bitmap = {} /\ DOMAIN store.inodes = {} /\ DOMAIN store.data = {}
        /\ store.inode_bitmap = bits
    BY <2>3, UsePlaces
  <2>5. Sparing(img, R, x, store)
    BY <1>1, <2>2, <2>4 DEF Sparing
  <2>6. \A a \in Blocks : img2.data_bitmap[a] = img.data_bitmap[a]
    BY <1>3, <2>4 DEF Stored
  <2>7. img2.data_bitmap = img.data_bitmap
    BY <2>6, SameBitmap
  <2>8. img2.inode_bitmap[x] = 1
    BY <1>1, <1>3, <2>2, <2>4 DEF Stored
  <2>. QED BY <2>4, <2>5, <2>7, <2>8
<1>7. ASSUME c = 4
      PROVE  /\ Sparing(img, R, x, store)
             /\ DOMAIN store.inodes = {} /\ DOMAIN store.data = {}
             /\ img2.inode_bitmap[x] = 1
             /\ \A a \in {b, own} \cap Blocks : img2.data_bitmap[a] = 1
  <2>1. PICK marks : marks = Occupied(Occupied(img.data_bitmap, b), own)
    OBVIOUS
  <2>2. /\ DOMAIN marks = Blocks
        /\ \A a \in Blocks : marks[a] = IF a = b \/ a = own THEN 1 ELSE img.data_bitmap[a]
    <3>1. PICK once : once = Occupied(img.data_bitmap, b)
      OBVIOUS
    <3>2. DOMAIN once = Blocks /\ \A a \in Blocks : once[a] = IF a = b THEN 1 ELSE img.data_bitmap[a]
      BY <1>4, <3>1 DEF Occupied
    <3>3. DOMAIN marks = Blocks /\ \A a \in Blocks : marks[a] = IF a = own THEN 1 ELSE once[a]
      BY <2>1, <3>1, <3>2 DEF Occupied
    <3>. QED BY <3>2, <3>3
  <2>3. store = StoreDataBitmap(marks)
    BY <1>2, <1>7, <1>5, <2>1
  <2>4. /\ DOMAIN store.inode_bitmap = {} /\ DOMAIN store.inodes = {} /\ DOMAIN store.data = {}
        /\ store.data_bitmap = marks
    BY <2>3, MarkPlaces
  <2>5. ASSUME NEW n \in R, NEW j \in BlockIndices,
               Pointer(img.inodes, n, j) \in DOMAIN store.data_bitmap
        PROVE  store.data_bitmap[Pointer(img.inodes, n, j)] = 1
    <3>1. PICK p : p = Pointer(img.inodes, n, j)
      OBVIOUS
    <3>2. p \in Blocks /\ p # -1
      BY <2>2, <2>4, <2>5, <3>1 DEF Blocks
    <3>3. img.data_bitmap[p] = 1
      BY <1>3, <3>1, <3>2 DEF BlocksHeld
    <3>. QED BY <2>2, <2>4, <3>1, <3>2, <3>3
  <2>6. Sparing(img, R, x, store)
    BY <2>4, <2>5 DEF Sparing
  <2>7. img2.inode_bitmap[x] = 1
    BY <1>1, <1>3, <1>7, <2>4 DEF Stored
  <2>8. \A a \in {b, own} \cap Blocks : img2.data_bitmap[a] = 1
    BY <1>3, <2>2, <2>4 DEF Stored
  <2>. QED BY <2>4, <2>6, <2>7, <2>8
<1>8. Sparing(img, R, x, store) /\ DOMAIN store.inodes = {} /\ DOMAIN store.data = {}
  BY <1>6, <1>7
<1>9. img2.inodes = img.inodes
  <2>1. \A n \in Inums : img2.inodes[n] = img.inodes[n]
    BY <1>3, <1>8 DEF Stored
  <2>. QED BY <2>1, SameTable
<1>10. Orderly(img2, R)
  BY <1>1, <1>3, <1>8, SparedOrder
<1>11. CreatDue(img2, R, d, t, x, b, s, own, name, rest, c - 1)
  <2>1. c - 1 >= 5 => img2.inode_bitmap = img.inode_bitmap
    OBVIOUS
  <2>2. c - 1 >= 4 => img2.data_bitmap = img.data_bitmap
    BY <1>6
  <2>. QED BY <1>1, <1>9, <2>1, <2>2, CreatDueOn
<1>12. DirsIn(img2, R) = DirsIn(img, R) /\ \A a : FreeOf(img2, R, a) <=> FreeOf(img, R, a)
  BY <1>9 DEF DirsIn, FreeOf, Pointer
<1>13. /\ img.inodes[d].size # MFS_INODE_BLOCKS_SIZE * DirEntsPerBlock
       /\ s = SlotForEntry(img.inodes[d])
       /\ IF BlockNeeded(img.inodes[d]) THEN FreeOf(img, R, b) ELSE b = LastBlock(img.inodes[d])
       /\ t = MFS_DIRECTORY => FreeOf(img, R, own)
  <2>1. c >= 3
    OBVIOUS
  <2>. QED BY <2>1 DEF Creating
<1>14. img2.inode_bitmap[x] = 1
  BY <1>6, <1>7
<1>15. c - 1 <= 3 => \A a \in {b, own} \cap Blocks : img2.data_bitmap[a] = 1
  BY <1>7
<1>16. c - 1 \in 1 .. 5 /\ c - 1 >= 3
  OBVIOUS
<1>17. /\ c - 1 >= 3 =>
            /\ Orderly(img2, R)
            /\ img2.inodes[d].size # MFS_INODE_BLOCKS_SIZE * DirEntsPerBlock
            /\ s = SlotForEntry(img2.inodes[d])
            /\ IF BlockNeeded(img2.inodes[d]) THEN FreeOf(img2, R, b) ELSE b = LastBlock(img2.inodes[d])
            /\ t = MFS_DIRECTORY => FreeOf(img2, R, own)
       /\ c - 1 <= 4 => img2.inode_bitmap[x] = 1
       /\ ~(c - 1 <= 2) /\ c - 1 # 2 /\ c - 1 # 1
  BY <1>9, <1>10, <1>12, <1>13, <1>14, <1>16
<1>18. d \in DirsIn(img2, R) /\ x \in Inums \ R /\ Asked(name, t)
  BY <1>1, <1>12 DEF Creating
<1>19. ASSUME NEW i \in LiveIn(img2, d) PROVE NameIn(img2, d, i) # name
  <2>1. i \in 2 .. img.inodes[d].size - 1
    BY <1>9 DEF LiveIn
  <2>2. PICK a, r : a = EntBlock(img.inodes[d], i) /\ r = i % DirEntsPerBlock
    OBVIOUS
  <2>3. a \in Blocks /\ a \in Pointers /\ r \in Slots
    BY <1>1, <1>3, <2>1, <2>2, PlaceOf DEF Pointers
  <2>4. img2.data[a][r] = img.data[a][r]
    BY <1>3, <1>8, <2>3 DEF Stored
  <2>5. i \in LiveIn(img, d) /\ NameIn(img2, d, i) = NameIn(img, d, i)
    BY <1>9, <2>1, <2>2, <2>4 DEF LiveIn, NameIn, EntAt
  <2>6. c >= 3
    OBVIOUS
  <2>. QED BY <2>5, <2>6 DEF Creating
<1>. QED BY <1>1, <1>11, <1>15, <1>16, <1>17, <1>18, <1>19 DEF Creating

(***************************************************************************)
(* The parent's inode is stored.  Its new entry is not there yet.          *)
(***************************************************************************)
LEMMA CreatParent ==
  ASSUME NEW img, NEW img2, Shaped(img), Shaped(img2), NEW R, NEW d, NEW t \in TypeArgs,
         NEW x, NEW b, NEW s, NEW own, NEW name, NEW S, NEW ws \in Seq(S), ws # << >>,
         NEW rest, rest = Tail(ws),
         Creating(img, R, d, t, x, b, s, own, name, ws, 3), Stored(img, img2, Head(ws))
  PROVE  Creating(img2, R, d, t, x, b, s, own, name, rest, 2)
<1>1. /\ CreatDue(img, R, d, t, x, b, s, own, name, ws, 3)
      /\ d \in DirsIn(img, R) /\ x \in Inums /\ x \notin R
      /\ b \in Blocks /\ s \in Slots
      /\ own \in IF t = MFS_DIRECTORY THEN Blocks \ {b} ELSE {-1}
      /\ img.inode_bitmap[x] = 1
      /\ \A a \in {b, own} \cap Blocks : img.data_bitmap[a] = 1
      /\ Asked(name, t)
  BY DEF Creating
<1>2. /\ Orderly(img, R)
      /\ \A i \in LiveIn(img, d) : NameIn(img, d, i) # name
      /\ img.inodes[d].size # MFS_INODE_BLOCKS_SIZE * DirEntsPerBlock
      /\ s = SlotForEntry(img.inodes[d])
      /\ IF BlockNeeded(img.inodes[d]) THEN FreeOf(img, R, b) ELSE b = LastBlock(img.inodes[d])
      /\ t = MFS_DIRECTORY => FreeOf(img, R, own)
  BY DEF Creating
<1>3. PICK parent : parent = WithEntry(img.inodes[d], b)
  OBVIOUS
<1>4. PICK store : store = StoreInode(d, parent)
  OBVIOUS
<1>5. Stored(img, img2, store)
  <2>1. Due(ws, 3, 3, StoreInode(d, parent))
    BY <1>1, <1>3 DEF CreatDue
  <2>2. 3 \in 1 .. 5
    OBVIOUS
  <2>. QED BY <1>4, <2>1, <2>2, DueNow
<1>6. /\ DOMAIN store.inode_bitmap = {} /\ DOMAIN store.data_bitmap = {} /\ DOMAIN store.data = {}
      /\ DOMAIN store.inodes = {d} /\ store.inodes[d] = parent
  BY <1>4, InodePlaces
<1>7. /\ InodesHeld(img, R) /\ BlocksHeld(img, R) /\ NamesHeld(img, R)
      /\ Spanned(img, R)
      /\ R \subseteq Inums /\ DirsIn(img, R) \subseteq R
  BY <1>2 DEF Orderly, InodesHeld, DirsIn
<1>8. /\ \A n \in Inums : /\ img2.inode_bitmap[n] = img.inode_bitmap[n]
                          /\ n = d => img2.inodes[n] = parent
                          /\ n # d => img2.inodes[n] = img.inodes[n]
      /\ \A a \in Blocks : img2.data_bitmap[a] = img.data_bitmap[a]
      /\ \A a \in Blocks, r \in Slots : img2.data[a][r] = img.data[a][r]
  BY <1>5, <1>6 DEF Stored, Pointers
<1>9. NewPlace(img, R, d, b, s)
  BY <1>1, <1>2 DEF NewPlace
<1>10. PICK made, ent, fin : /\ made = NewInode(t, own) /\ ent = [inum |-> x, name |-> name]
                             /\ fin = Finished(img2, b, s, ent, x, made)
  OBVIOUS
<1>11. Orderly(fin, R \cup {x})
  <2>1. /\ fin.inode_bitmap = img2.inode_bitmap /\ fin.data_bitmap = img2.data_bitmap
        /\ \A n \in Inums : fin.inodes[n] = IF n = x THEN made ELSE img2.inodes[n]
        /\ \A a \in Blocks, r \in Slots :
             /\ a = b /\ r = s => fin.data[a][r] = ent
             /\ ~(a = b /\ r = s) => fin.data[a][r] = img2.data[a][r]
    <3>1. Finishes(img2, b, s, ent, x, made, fin)
      BY <1>1, <1>10, FinishedIs
    <3>. QED BY <3>1 DEF Finishes
  <2>2. d \in Inums /\ d # x
    BY <1>1, <1>7
  <2>3. \A n \in Inums : /\ fin.inode_bitmap[n] = img.inode_bitmap[n]
                         /\ n = x => fin.inodes[n] = made
                         /\ n = d => fin.inodes[n] = parent
                         /\ n # x /\ n # d => fin.inodes[n] = img.inodes[n]
    BY <1>8, <2>1, <2>2
  <2>4. \A a \in Blocks : fin.data_bitmap[a] = img.data_bitmap[a]
    BY <1>8, <2>1
  <2>5. \A a \in Blocks, r \in Slots :
          /\ a = b /\ r = s => fin.data[a][r] = ent
          /\ ~(a = b /\ r = s) => fin.data[a][r] = img.data[a][r]
    BY <1>8, <2>1
  <2>6. /\ own \in Pointers
        /\ t = MFS_DIRECTORY =>
             own \in Blocks /\ own # b /\ FreeOf(img, R, own) /\ img.data_bitmap[own] = 1
        /\ img.data_bitmap[b] = 1
        /\ x \in Inums \ R /\ ent.inum = x /\ Asked(ent.name, t)
        /\ \A i \in LiveIn(img, d) : NameIn(img, d, i) # ent.name
    BY <1>1, <1>2, <1>10 DEF Pointers
  <2>7. parent = WithEntry(img.inodes[d], b) /\ made = NewInode(t, own)
    BY <1>3, <1>10
  <2>8. /\ Orderly(img, R) /\ NewPlace(img, R, d, b, s)
        /\ img.inode_bitmap[x] = 1
    BY <1>1, <1>2, <1>9
  <2>9. Joins(img, fin, R, d, parent, t, x, made, b, s, own, ent)
    BY <2>3, <2>4, <2>5, <2>6, <2>7, <2>8 DEF Joins
  <2>. QED BY <2>9, CreatOrder
<1>12. PICK dir : dir = img.inodes[d]
  OBVIOUS
<1>13. /\ parent.type = dir.type
       /\ \E q \in BlockIndices : parent.blocks[q] = b
  <2>1. /\ dir \in Inode /\ DirTable(dir) /\ dir.size # MFS_INODE_BLOCKS_SIZE * DirEntsPerBlock
        /\ dir.size \in Nat
    BY <1>1, <1>2, <1>7, <1>12 DEF InodesHeld, Inode
  <2>2. /\ parent \in Inode /\ DirTable(parent)
        /\ parent.type = dir.type /\ parent.size = dir.size + 1
        /\ EntBlock(parent, dir.size) = IF BlockNeeded(dir) THEN b ELSE LastBlock(dir)
    BY <1>1, <1>3, <1>12, <2>1, WithEntryTable
  <2>3. PICK i : i = dir.size
    OBVIOUS
  <2>4. i \in 0 .. parent.size - 1 /\ EntBlock(parent, i) = b
    BY <1>2, <1>12, <2>1, <2>2, <2>3
  <2>5. i \div DirEntsPerBlock \in BlockIndices
    BY <2>2, <2>4, EntryPlace
  <2>. QED BY <2>2, <2>4, <2>5 DEF EntBlock
<1>14. \A e : e \in DirsIn(img2, R) <=> e \in DirsIn(img, R)
  BY <1>7, <1>8, <1>12, <1>13 DEF DirsIn
<1>15. CreatDue(img2, R, d, t, x, b, s, own, name, rest, 2)
  <2>1. PICK c \in 1 .. 5 : c = 3
    OBVIOUS
  <2>2. c - 1 = 2 /\ ~(c - 1 >= 5) /\ ~(c - 1 >= 4) /\ ~(c - 1 >= 3)
    BY <2>1
  <2>3. CreatDue(img, R, d, t, x, b, s, own, name, ws, c)
    BY <1>1, <2>1
  <2>4. CreatDue(img2, R, d, t, x, b, s, own, name, rest, c - 1)
    BY <2>2, <2>3, CreatDueOn
  <2>. QED BY <2>2, <2>4
<1>16. /\ d \in DirsIn(img2, R) /\ x \in Inums \ R
       /\ img2.inode_bitmap[x] = 1
       /\ \A a \in {b, own} \cap Blocks : img2.data_bitmap[a] = 1
       /\ \E q \in BlockIndices : Pointer(img2.inodes, d, q) = b
  <2>1. img2.inodes[d] = parent
    BY <1>1, <1>7, <1>8
  <2>. QED BY <1>1, <1>8, <1>13, <1>14, <2>1 DEF Pointer
<1>. QED BY <1>1, <1>10, <1>11, <1>15, <1>16 DEF Creating

LEMMA CreatEntry ==
  ASSUME NEW img, NEW img2, Shaped(img), Shaped(img2), NEW R, NEW d, NEW t \in TypeArgs,
         NEW x, NEW b, NEW s, NEW own, NEW name, NEW S, NEW ws \in Seq(S), ws # << >>,
         NEW rest, rest = Tail(ws),
         Creating(img, R, d, t, x, b, s, own, name, ws, 2), Stored(img, img2, Head(ws))
  PROVE  Creating(img2, R, d, t, x, b, s, own, name, rest, 1)
<1>1. /\ CreatDue(img, R, d, t, x, b, s, own, name, ws, 2)
      /\ d \in DirsIn(img, R) /\ x \in Inums /\ x \notin R
      /\ b \in Blocks /\ s \in Slots
      /\ own \in IF t = MFS_DIRECTORY THEN Blocks \ {b} ELSE {-1}
      /\ img.inode_bitmap[x] = 1
      /\ \A a \in {b, own} \cap Blocks : img.data_bitmap[a] = 1
      /\ Asked(name, t)
  BY DEF Creating
<1>2. PICK made, ent : made = NewInode(t, own) /\ ent = [inum |-> x, name |-> name]
  OBVIOUS
<1>3. PICK fin, fin2 : /\ fin = Finished(img, b, s, ent, x, made)
                       /\ fin2 = Finished(img2, b, s, ent, x, made)
  OBVIOUS
<1>4. Orderly(fin, R \cup {x})
  BY <1>2, <1>3 DEF Creating
<1>5. PICK store : store = StoreEntry(b, s, ent)
  OBVIOUS
<1>6. Stored(img, img2, store)
  <2>1. Due(ws, 2, 2, StoreEntry(b, s, ent))
    BY <1>1, <1>2 DEF CreatDue
  <2>2. 2 \in 1 .. 5
    OBVIOUS
  <2>. QED BY <1>5, <2>1, <2>2, DueNow
<1>7. /\ DOMAIN store.inode_bitmap = {} /\ DOMAIN store.data_bitmap = {}
      /\ DOMAIN store.inodes = {}
      /\ DOMAIN store.data = {<<b, s>>} /\ store.data[<<b, s>>] = ent
  BY <1>5, EntryPlaces
<1>8. /\ \A n \in Inums : /\ img2.inode_bitmap[n] = img.inode_bitmap[n]
                          /\ img2.inodes[n] = img.inodes[n]
      /\ \A a \in Blocks : img2.data_bitmap[a] = img.data_bitmap[a]
  BY <1>6, <1>7 DEF Stored
<1>9. ASSUME NEW a \in Blocks, NEW r \in Slots
      PROVE  /\ a = b /\ r = s => img2.data[a][r] = ent
             /\ ~(a = b /\ r = s) => img2.data[a][r] = img.data[a][r]
  <2>1. a \in Pointers
    BY DEF Pointers
  <2>2. /\ <<a, r>> \in DOMAIN store.data => img2.data[a][r] = store.data[<<a, r>>]
        /\ <<a, r>> \notin DOMAIN store.data => img2.data[a][r] = img.data[a][r]
    BY <1>6, <2>1 DEF Stored
  <2>. QED BY <1>7, <2>2
<1>10. /\ fin.inode_bitmap = img.inode_bitmap /\ fin.data_bitmap = img.data_bitmap
       /\ \A n \in Inums : fin.inodes[n] = IF n = x THEN made ELSE img.inodes[n]
       /\ \A a \in Blocks, r \in Slots :
            /\ a = b /\ r = s => fin.data[a][r] = ent
            /\ ~(a = b /\ r = s) => fin.data[a][r] = img.data[a][r]
  <2>1. Finishes(img, b, s, ent, x, made, fin)
    BY <1>1, <1>3, FinishedIs
  <2>. QED BY <2>1 DEF Finishes
<1>11. /\ fin2.inode_bitmap = img2.inode_bitmap /\ fin2.data_bitmap = img2.data_bitmap
       /\ \A n \in Inums : fin2.inodes[n] = IF n = x THEN made ELSE img2.inodes[n]
       /\ \A a \in Blocks, r \in Slots :
            /\ a = b /\ r = s => fin2.data[a][r] = ent
            /\ ~(a = b /\ r = s) => fin2.data[a][r] = img2.data[a][r]
  <2>1. Finishes(img2, b, s, ent, x, made, fin2)
    BY <1>1, <1>3, FinishedIs
  <2>. QED BY <2>1 DEF Finishes
<1>12. Orderly(fin2, R \cup {x})
  <2>1. \A n \in Inums : /\ fin2.inode_bitmap[n] = fin.inode_bitmap[n]
                         /\ fin2.inodes[n] = fin.inodes[n]
    BY <1>8, <1>10, <1>11
  <2>2. \A a \in Blocks : fin2.data_bitmap[a] = fin.data_bitmap[a]
    BY <1>8, <1>10, <1>11
  <2>3. \A a \in Blocks, r \in Slots : fin2.data[a][r] = fin.data[a][r]
    BY <1>9, <1>10, <1>11
  <2>. QED BY <1>4, <2>1, <2>2, <2>3, SamePicture
<1>13. CreatDue(img2, R, d, t, x, b, s, own, name, rest, 1)
  <2>1. PICK c \in 1 .. 5 : c = 2
    OBVIOUS
  <2>2. c - 1 = 1 /\ ~(c - 1 >= 5) /\ ~(c - 1 >= 4) /\ ~(c - 1 >= 3)
    BY <2>1
  <2>3. CreatDue(img, R, d, t, x, b, s, own, name, ws, c)
    BY <1>1, <2>1
  <2>4. CreatDue(img2, R, d, t, x, b, s, own, name, rest, c - 1)
    BY <2>2, <2>3, CreatDueOn
  <2>. QED BY <2>2, <2>4
<1>14. /\ d \in DirsIn(img2, R) /\ x \in Inums \ R
       /\ img2.inode_bitmap[x] = 1
       /\ \A a \in {b, own} \cap Blocks : img2.data_bitmap[a] = 1
       /\ img2.data[b][s] = ent
  <2>1. R \cup {x} \subseteq Inums
    BY <1>4 DEF Orderly, InodesHeld
  <2>. QED BY <1>1, <1>8, <1>9, <2>1 DEF DirsIn
<1>. QED BY <1>1, <1>2, <1>3, <1>12, <1>13, <1>14 DEF Creating

LEMMA ApartSpares ==
  ASSUME NEW img, NEW R, NEW x, NEW store, Apart(store, R)
  PROVE  Sparing(img, R, x, store)
BY DEF Apart, Sparing

LEMMA CreatInode ==
  ASSUME NEW img, NEW img2, Shaped(img), Shaped(img2), NEW R, NEW d, NEW t \in TypeArgs,
         NEW x, NEW b, NEW s, NEW own, NEW name, NEW S, NEW ws \in Seq(S), ws # << >>,
         NEW rest, rest = Tail(ws),
         Creating(img, R, d, t, x, b, s, own, name, ws, 1), Stored(img, img2, Head(ws))
  PROVE  Settling(img2, R \cup {x}, x, rest)
<1>1. /\ CreatDue(img, R, d, t, x, b, s, own, name, ws, 1)
      /\ x \in Inums /\ x \notin R
      /\ b \in Blocks /\ s \in Slots
  BY DEF Creating
<1>2. PICK made, ent : made = NewInode(t, own) /\ ent = [inum |-> x, name |-> name]
  OBVIOUS
<1>3. PICK fin : fin = Finished(img, b, s, ent, x, made)
  OBVIOUS
<1>4. Orderly(fin, R \cup {x}) /\ img.data[b][s] = ent
  BY <1>2, <1>3 DEF Creating
<1>5. PICK store : store = StoreInode(x, made)
  OBVIOUS
<1>6. Stored(img, img2, store)
  <2>1. Due(ws, 1, 1, StoreInode(x, made))
    BY <1>1, <1>2 DEF CreatDue
  <2>2. 1 \in 1 .. 5
    OBVIOUS
  <2>. QED BY <1>5, <2>1, <2>2, DueNow
<1>7. /\ DOMAIN store.inode_bitmap = {} /\ DOMAIN store.data_bitmap = {} /\ DOMAIN store.data = {}
      /\ DOMAIN store.inodes = {x} /\ store.inodes[x] = made
  BY <1>5, InodePlaces
<1>8. /\ \A n \in Inums : /\ img2.inode_bitmap[n] = img.inode_bitmap[n]
                          /\ img2.inodes[n] = IF n = x THEN made ELSE img.inodes[n]
      /\ \A a \in Blocks : img2.data_bitmap[a] = img.data_bitmap[a]
      /\ \A a \in Blocks, r \in Slots : img2.data[a][r] = img.data[a][r]
  BY <1>6, <1>7 DEF Stored, Pointers
<1>9. /\ fin.inode_bitmap = img.inode_bitmap /\ fin.data_bitmap = img.data_bitmap
      /\ \A n \in Inums : fin.inodes[n] = IF n = x THEN made ELSE img.inodes[n]
      /\ \A a \in Blocks, r \in Slots :
           /\ a = b /\ r = s => fin.data[a][r] = ent
           /\ ~(a = b /\ r = s) => fin.data[a][r] = img.data[a][r]
  <2>1. Finishes(img, b, s, ent, x, made, fin)
    BY <1>1, <1>3, FinishedIs
  <2>. QED BY <2>1 DEF Finishes
<1>10. Orderly(img2, R \cup {x})
  <2>1. \A n \in Inums : /\ img2.inode_bitmap[n] = fin.inode_bitmap[n]
                         /\ img2.inodes[n] = fin.inodes[n]
    BY <1>8, <1>9
  <2>2. \A a \in Blocks : img2.data_bitmap[a] = fin.data_bitmap[a]
    BY <1>8, <1>9
  <2>3. \A a \in Blocks, r \in Slots : img2.data[a][r] = fin.data[a][r]
    BY <1>4, <1>8, <1>9
  <2>. QED BY <1>4, <2>1, <2>2, <2>3, SamePicture
<1>11. ASSUME NEW i \in 1 .. Len(rest) PROVE Sparing(img2, R \cup {x}, x, rest[i])
  <2>1. 1 \in 1 .. 5 /\ 1 - 1 + 1 = 1
    OBVIOUS
  <2>2. CreatDue(img, R, d, t, x, b, s, own, name, rest, 1 - 1)
    BY <1>1, <2>1, CreatDueOn
  <2>3. Apart(rest[i], R \cup {x})
    BY <2>1, <2>2 DEF CreatDue
  <2>. QED BY <2>3, ApartSpares
<1>. QED BY <1>10, <1>11 DEF Settling

(***************************************************************************)
(* One write of reply_Creat.                                               *)
(***************************************************************************)
LEMMA CreatOn ==
  ASSUME NEW img, NEW img2, Shaped(img), Shaped(img2), NEW R, NEW d, NEW t \in TypeArgs,
         NEW x, NEW b, NEW s, NEW own, NEW name, NEW S, NEW ws \in Seq(S), ws # << >>,
         NEW c, NEW rest, rest = Tail(ws),
         Creating(img, R, d, t, x, b, s, own, name, ws, c), Stored(img, img2, Head(ws))
  PROVE  \/ c - 1 \in 1 .. 5 /\ Creating(img2, R, d, t, x, b, s, own, name, rest, c - 1)
         \/ Settling(img2, R \cup {x}, x, rest)
<1>1. c \in 1 .. 5
  BY DEF Creating
<1>2. CASE c \in {4, 5}
  <2>1. Creating(img2, R, d, t, x, b, s, own, name, rest, c - 1)
    BY <1>2, CreatMarks
  <2>. QED BY <1>2, <2>1
<1>3. CASE c = 3
  <2>1. Creating(img, R, d, t, x, b, s, own, name, ws, 3) /\ c - 1 = 2
    BY <1>3
  <2>2. Creating(img2, R, d, t, x, b, s, own, name, rest, 2)
    BY <2>1, CreatParent
  <2>. QED BY <2>1, <2>2
<1>4. CASE c = 2
  <2>1. Creating(img, R, d, t, x, b, s, own, name, ws, 2) /\ c - 1 = 1
    BY <1>4
  <2>2. Creating(img2, R, d, t, x, b, s, own, name, rest, 1)
    BY <2>1, CreatEntry
  <2>. QED BY <2>1, <2>2
<1>5. CASE c = 1
  <2>1. Creating(img, R, d, t, x, b, s, own, name, ws, 1)
    BY <1>5
  <2>. QED BY <2>1, CreatInode
<1>. QED BY <1>1, <1>2, <1>3, <1>4, <1>5

-----------------------------------------------------------------------------
(***************************************************************************)
(* What one write leaves of the others: the marks of the inodes but x, and *)
(* what Read finds in a block of inode n.                                  *)
(***************************************************************************)
KeptIn(img, img2, n, j) ==
  LET p == Pointer(img.inodes, n, j)
  IN  p \in Blocks /\ img.data_bitmap[p] = 1 =>
        /\ img2.inode_bitmap[n] = img.inode_bitmap[n]
        /\ img2.inodes[n].type = img.inodes[n].type
        /\ Pointer(img2.inodes, n, j) = p
        /\ img2.data_bitmap[p] = 1
        /\ \A s \in Slots : img2.data[p][s] = img.data[p][s]

LEMMA KeptWhere ==
  ASSUME NEW img, NEW img2, NEW store, Stored(img, img2, store), NEW n \in Inums, NEW j,
         DOMAIN store.inode_bitmap = {},
         n \in DOMAIN store.inodes =>
           /\ store.inodes[n].type = img.inodes[n].type
           /\ store.inodes[n].blocks[j] = img.inodes[n].blocks[j],
         \A b \in Blocks \cap DOMAIN store.data_bitmap :
           img.data_bitmap[b] = 1 => store.data_bitmap[b] = 1,
         \A place \in DOMAIN store.data : place[1] # Pointer(img.inodes, n, j)
  PROVE  KeptIn(img, img2, n, j)
<1>1. PICK p : p = Pointer(img.inodes, n, j)
  OBVIOUS
<1>2. SUFFICES ASSUME p \in Blocks, img.data_bitmap[p] = 1
               PROVE  /\ img2.inode_bitmap[n] = img.inode_bitmap[n]
                      /\ img2.inodes[n].type = img.inodes[n].type
                      /\ Pointer(img2.inodes, n, j) = p
                      /\ img2.data_bitmap[p] = 1
                      /\ \A s \in Slots : img2.data[p][s] = img.data[p][s]
  BY <1>1 DEF KeptIn
<1>3. img2.inode_bitmap[n] = img.inode_bitmap[n]
  BY DEF Stored
<1>4. img2.inodes[n].type = img.inodes[n].type /\ Pointer(img2.inodes, n, j) = p
  <2>1. CASE n \in DOMAIN store.inodes
    BY <1>1, <2>1 DEF Stored, Pointer
  <2>2. CASE n \notin DOMAIN store.inodes
    BY <1>1, <2>2 DEF Stored, Pointer
  <2>. QED BY <2>1, <2>2
<1>5. img2.data_bitmap[p] = 1
  BY <1>2 DEF Stored
<1>6. ASSUME NEW s \in Slots PROVE img2.data[p][s] = img.data[p][s]
  <2>1. <<p, s>> \notin DOMAIN store.data
    BY <1>1
  <2>2. p \in Pointers
    BY <1>2 DEF Pointers
  <2>. QED BY <2>1, <2>2 DEF Stored
<1>. QED BY <1>3, <1>4, <1>5, <1>6

LEMMA SparedKeeps ==
  ASSUME NEW img, NEW img2, NEW R, NEW x, NEW store, InodesHeld(img, R),
         Sparing(img, R, x, store), Stored(img, img2, store)
  PROVE  /\ \A n \in Inums \ {x} : img2.inode_bitmap[n] = img.inode_bitmap[n]
         /\ \A n \in R, j \in BlockIndices : KeptIn(img, img2, n, j)
<1>1. /\ \A n \in R : img2.inode_bitmap[n] = 1 /\ img2.inodes[n].type = img.inodes[n].type
      /\ \A n \in R, j \in BlockIndices : Pointer(img2.inodes, n, j) = Pointer(img.inodes, n, j)
      /\ \A n \in Inums : n # x => img2.inode_bitmap[n] = img.inode_bitmap[n]
  BY SparedInodes
<1>2. ASSUME NEW n \in R, NEW j \in BlockIndices PROVE KeptIn(img, img2, n, j)
  <2>1. PICK p : p = Pointer(img.inodes, n, j)
    OBVIOUS
  <2>2. SUFFICES ASSUME p \in Blocks, img.data_bitmap[p] = 1
                 PROVE  /\ img2.inode_bitmap[n] = img.inode_bitmap[n]
                        /\ img2.inodes[n].type = img.inodes[n].type
                        /\ Pointer(img2.inodes, n, j) = p
                        /\ img2.data_bitmap[p] = 1
                        /\ \A s \in Slots : img2.data[p][s] = img.data[p][s]
    BY <2>1 DEF KeptIn
  <2>3. img2.data_bitmap[p] = 1
    <3>1. p \in DOMAIN store.data_bitmap => store.data_bitmap[p] = 1
      BY <2>1 DEF Sparing
    <3>. QED BY <2>2, <3>1 DEF Stored
  <2>4. ASSUME NEW s \in Slots PROVE img2.data[p][s] = img.data[p][s]
    <3>1. <<p, s>> \notin DOMAIN store.data
      <4>1. ASSUME <<p, s>> \in DOMAIN store.data PROVE FALSE
        BY <2>1, <4>1 DEF Sparing
      <4>. QED BY <4>1
    <3>2. p \in Pointers
      BY <2>2 DEF Pointers
    <3>. QED BY <3>1, <3>2 DEF Stored
  <2>5. img.inode_bitmap[n] = 1
    BY DEF InodesHeld
  <2>. QED BY <1>1, <2>1, <2>3, <2>4, <2>5
<1>. QED BY <1>1, <1>2

LEMMA OverwriteKeeps ==
  ASSUME NEW img, NEW img2, NEW R, NEW n, NEW j, NEW text, NEW S, NEW ws \in Seq(S),
         Overwriting(img, R, n, j, text, ws), Stored(img, img2, Head(ws))
  PROVE  /\ \A m \in Inums : img2.inode_bitmap[m] = img.inode_bitmap[m]
         /\ \A m \in R, k \in BlockIndices : ~(m = n /\ k = j) => KeptIn(img, img2, m, k)
<1>1. /\ InodesHeld(img, R) /\ BlocksHeld(img, R)
      /\ n \in R /\ j \in BlockIndices /\ Pointer(img.inodes, n, j) # -1
      /\ ws # << >> /\ ws[1] = StoreBlock(Pointer(img.inodes, n, j), text)
  BY DEF Overwriting, Orderly
<1>2. PICK p : p = Pointer(img.inodes, n, j)
  OBVIOUS
<1>3. PICK store : store = StoreBlock(p, text)
  OBVIOUS
<1>4. Stored(img, img2, store)
  BY <1>1, <1>2, <1>3, RestOfWrites
<1>5. /\ DOMAIN store.inode_bitmap = {} /\ DOMAIN store.data_bitmap = {}
      /\ DOMAIN store.inodes = {} /\ DOMAIN store.data = {p} \X Slots
  BY <1>1, <1>3, TextPlaces
<1>6. ASSUME NEW m \in R, NEW k \in BlockIndices, ~(m = n /\ k = j)
      PROVE  KeptIn(img, img2, m, k)
  <2>1. Pointer(img.inodes, m, k) # p /\ m \in Inums
    BY <1>1, <1>2, <1>6 DEF BlocksHeld, InodesHeld
  <2>2. \A place \in DOMAIN store.data : place[1] # Pointer(img.inodes, m, k)
    BY <1>5, <2>1
  <2>. QED BY <1>4, <1>5, <2>1, <2>2, KeptWhere
<1>. QED BY <1>4, <1>5, <1>6 DEF Stored

LEMMA ExtendKeeps ==
  ASSUME NEW img, NEW img2, NEW R, NEW n, NEW j, NEW b, NEW text,
         NEW S, NEW ws \in Seq(S), ws # << >>,
         Extending(img, R, n, j, b, text, ws), Stored(img, img2, Head(ws))
  PROVE  /\ \A m \in Inums : img2.inode_bitmap[m] = img.inode_bitmap[m]
         /\ \A m \in R, k \in BlockIndices : ~(m = n /\ k = j) => KeptIn(img, img2, m, k)
<1>1. /\ n \in R /\ j \in BlockIndices /\ b \in Blocks
      /\ Len(ws) \in 1 .. 3
  BY DEF Extending
<1>2. ASSUME Len(ws) = 3
      PROVE  /\ \A m \in Inums : img2.inode_bitmap[m] = img.inode_bitmap[m]
             /\ \A m \in R, k \in BlockIndices : KeptIn(img, img2, m, k)
  <2>1. /\ Orderly(img, R) /\ img.data_bitmap[b] # 1
        /\ Due(ws, 3, 3, StoreBlock(b, text)) /\ 3 \in 1 .. 5
    BY <1>2 DEF Extending
  <2>2. PICK store : store = StoreBlock(b, text)
    OBVIOUS
  <2>3. Stored(img, img2, store)
    BY <2>1, <2>2, DueNow
  <2>4. Sparing(img, R, n, store)
    <3>1. FreeOf(img, R, b)
      BY <1>1, <2>1, UnmarkedIsFree
    <3>. QED BY <1>1, <2>2, <3>1, TextSpares
  <2>5. InodesHeld(img, R)
    BY <2>1 DEF Orderly
  <2>6. DOMAIN store.inode_bitmap = {}
    BY <1>1, <2>2, TextPlaces
  <2>7. \A m \in R, k \in BlockIndices : KeptIn(img, img2, m, k)
    BY <2>3, <2>4, <2>5, SparedKeeps
  <2>. QED BY <2>3, <2>6, <2>7 DEF Stored
<1>3. ASSUME Len(ws) = 2
      PROVE  /\ \A m \in Inums : img2.inode_bitmap[m] = img.inode_bitmap[m]
             /\ \A m \in R, k \in BlockIndices : ~(m = n /\ k = j) => KeptIn(img, img2, m, k)
  <2>1. PICK pushed : pushed = push_inode_update(img.inodes[n], j, b)
    OBVIOUS
  <2>2. /\ InodesHeld(img, R) /\ 2 \in 1 .. 5
        /\ Due(ws, 2, 2, StoreInode(n, pushed))
    BY <1>3, <2>1 DEF Extending, Orderly
  <2>3. PICK store : store = StoreInode(n, pushed)
    OBVIOUS
  <2>4. Stored(img, img2, store)
    BY <2>2, <2>3, DueNow
  <2>5. /\ DOMAIN store.inode_bitmap = {} /\ DOMAIN store.data_bitmap = {} /\ DOMAIN store.data = {}
        /\ DOMAIN store.inodes = {n} /\ store.inodes[n] = pushed
    BY <2>3, InodePlaces
  <2>6. /\ pushed.type = img.inodes[n].type
        /\ \A k \in BlockIndices : pushed.blocks[k] = IF k = j THEN b ELSE img.inodes[n].blocks[k]
    BY <1>1, <2>1, <2>2, PushIs DEF InodesHeld
  <2>7. ASSUME NEW m \in R, NEW k \in BlockIndices, ~(m = n /\ k = j)
        PROVE  KeptIn(img, img2, m, k)
    <3>1. m \in Inums
      BY <2>2 DEF InodesHeld
    <3>2. m \in DOMAIN store.inodes =>
            /\ store.inodes[m].type = img.inodes[m].type
            /\ store.inodes[m].blocks[k] = img.inodes[m].blocks[k]
      BY <2>5, <2>6, <2>7
    <3>. QED BY <2>4, <2>5, <3>1, <3>2, KeptWhere
  <2>. QED BY <2>4, <2>5, <2>7 DEF Stored
<1>4. ASSUME Len(ws) = 1
      PROVE  /\ \A m \in Inums : img2.inode_bitmap[m] = img.inode_bitmap[m]
             /\ \A m \in R, k \in BlockIndices : KeptIn(img, img2, m, k)
  <2>1. PICK store : store = StoreDataBitmap(At(b, 1))
    OBVIOUS
  <2>2. /\ Due(ws, 1, 1, store) /\ 1 \in 1 .. 5
        /\ R \subseteq Inums
    BY <1>4, <2>1 DEF Extending, Orderly, InodesHeld
  <2>3. Stored(img, img2, store)
    BY <2>2, DueNow
  <2>4. /\ DOMAIN store.inode_bitmap = {} /\ DOMAIN store.inodes = {} /\ DOMAIN store.data = {}
        /\ DOMAIN store.data_bitmap = {b} /\ store.data_bitmap[b] = 1
    <3>1. DOMAIN At(b, 1) = {b} /\ At(b, 1)[b] = 1
      BY AtPlace
    <3>. QED BY <2>1, <3>1, MarkPlaces
  <2>5. ASSUME NEW m \in R, NEW k \in BlockIndices PROVE KeptIn(img, img2, m, k)
    <3>1. m \in Inums
      BY <2>2
    <3>. QED BY <2>3, <2>4, <3>1, KeptWhere
  <2>. QED BY <2>3, <2>4, <2>5 DEF Stored
<1>. QED BY <1>1, <1>2, <1>3, <1>4

LEMMA UnlinkKeeps ==
  ASSUME NEW img, NEW img2, NEW R, NEW d, NEW i, NEW x, NEW S, NEW ws \in Seq(S),
         Unlinking(img, R, d, i, x, ws), Stored(img, img2, Head(ws))
  PROVE  /\ \A n \in Inums : img2.inode_bitmap[n] = img.inode_bitmap[n]
         /\ \A n \in R \ DirsIn(img, R), j \in BlockIndices : KeptIn(img, img2, n, j)
<1>1. /\ InodesHeld(img, R) /\ BlocksHeld(img, R)
      /\ d \in DirsIn(img, R) /\ d \in R /\ i \in LiveIn(img, d)
      /\ ws # << >>
      /\ ws[1] = StoreEntry(EntBlock(img.inodes[d], i), i % DirEntsPerBlock, UnusedEnt)
  <2>1. Orderly(img, R) /\ d \in DirsIn(img, R) /\ i \in LiveIn(img, d)
    BY DEF Unlinking
  <2>2. ws[1] = StoreEntry(EntBlock(img.inodes[d], i), i % DirEntsPerBlock, UnusedEnt)
    BY DEF Unlinking
  <2>3. ws # << >>
    BY DEF Unlinking
  <2>4. InodesHeld(img, R) /\ BlocksHeld(img, R) /\ d \in R
    BY <2>1 DEF Orderly, DirsIn
  <2>. QED BY <2>1, <2>2, <2>3, <2>4
<1>2. PICK p, s : p = EntBlock(img.inodes[d], i) /\ s = i % DirEntsPerBlock
  OBVIOUS
<1>3. PICK store : store = StoreEntry(p, s, UnusedEnt)
  OBVIOUS
<1>4. Stored(img, img2, store)
  BY <1>1, <1>2, <1>3, RestOfWrites
<1>5. /\ DOMAIN store.inode_bitmap = {} /\ DOMAIN store.data_bitmap = {}
      /\ DOMAIN store.inodes = {}
      /\ DOMAIN store.data = {<<p, s>>} /\ store.data[<<p, s>>] = UnusedEnt
  BY <1>3, EntryPlaces
<1>6. PICK q : q = i \div DirEntsPerBlock
  OBVIOUS
<1>7. q \in BlockIndices /\ p = Pointer(img.inodes, d, q) /\ p # -1
  <2>1. i \in 2 .. img.inodes[d].size - 1
    BY <1>1 DEF LiveIn
  <2>. QED BY <1>1, <1>2, <1>6, <2>1, PlaceOf
<1>8. ASSUME NEW n \in R \ DirsIn(img, R), NEW j \in BlockIndices
      PROVE  KeptIn(img, img2, n, j)
  <2>1. Pointer(img.inodes, n, j) # p /\ n \in Inums
    BY <1>1, <1>7 DEF BlocksHeld, InodesHeld
  <2>2. \A place \in DOMAIN store.data : place[1] # Pointer(img.inodes, n, j)
    BY <1>5, <2>1
  <2>. QED BY <1>4, <1>5, <2>1, <2>2, KeptWhere
<1>. QED BY <1>4, <1>5, <1>8 DEF Stored

LEMMA CreatKeeps ==
  ASSUME NEW img, NEW img2, Shaped(img), Shaped(img2), NEW R, NEW d, NEW t \in TypeArgs,
         NEW x, NEW b, NEW s, NEW own, NEW name, NEW S, NEW ws \in Seq(S), ws # << >>,
         NEW c, Creating(img, R, d, t, x, b, s, own, name, ws, c), Stored(img, img2, Head(ws))
  PROVE  /\ \A n \in Inums \ {x} : img2.inode_bitmap[n] = img.inode_bitmap[n]
         /\ \A n \in Inums \ {x}, j \in BlockIndices :
              n \in R \ DirsIn(img, R) => KeptIn(img, img2, n, j)
<1>1. /\ c \in 1 .. 5
      /\ CreatDue(img, R, d, t, x, b, s, own, name, ws, c)
      /\ d \in DirsIn(img, R) /\ x \in Inums /\ x \notin R
      /\ b \in Blocks /\ s \in Slots
      /\ c >= 3 => Orderly(img, R)
  BY DEF Creating
<1>2. PICK store : store = Head(ws)
  OBVIOUS
<1>3. Stored(img, img2, store)
  BY <1>2
<1>4. CASE c = 5
  <2>1. PICK bits : bits = Occupied(img.inode_bitmap, x)
    OBVIOUS
  <2>2. DOMAIN img.inode_bitmap = Inums
    BY DEF Shaped
  <2>3. \A n \in Inums : bits[n] = IF n = x THEN 1 ELSE img.inode_bitmap[n]
    BY <2>1, <2>2 DEF Occupied
  <2>4. store = StoreInodeBitmap(bits)
    <3>1. Due(ws, c, c, StoreInodeBitmap(bits))
      BY <1>1, <1>4, <2>1 DEF CreatDue
    <3>. QED BY <1>1, <1>2, <3>1, DueNow
  <2>5. /\ DOMAIN store.data_bitmap = {} /\ DOMAIN store.inodes = {} /\ DOMAIN store.data = {}
        /\ store.inode_bitmap = bits
    BY <2>4, UsePlaces
  <2>6. Sparing(img, R, x, store)
    BY <1>1, <2>3, <2>5 DEF Sparing
  <2>7. InodesHeld(img, R)
    BY <1>1, <1>4 DEF Orderly
  <2>. QED BY <1>3, <1>4, <2>6, <2>7, SparedKeeps
<1>5. ASSUME c # 5
      PROVE  /\ DOMAIN store.inode_bitmap = {}
             /\ \A n \in Inums \ {x}, j \in BlockIndices :
                  n \in R \ DirsIn(img, R) => KeptIn(img, img2, n, j)
  <2>1. CASE c = 4
    <3>1. PICK marks, once : /\ marks = Occupied(Occupied(img.data_bitmap, b), own)
                             /\ once = Occupied(img.data_bitmap, b)
      OBVIOUS
    <3>2. DOMAIN img.data_bitmap = Blocks
      BY DEF Shaped
    <3>3. DOMAIN once = Blocks /\ \A a \in Blocks : img.data_bitmap[a] = 1 => once[a] = 1
      BY <3>1, <3>2 DEF Occupied
    <3>4. \A a \in Blocks : img.data_bitmap[a] = 1 => marks[a] = 1
      BY <3>1, <3>3 DEF Occupied
    <3>5. store = StoreDataBitmap(marks)
      <4>1. Due(ws, c, c, StoreDataBitmap(marks))
        BY <1>1, <2>1, <3>1 DEF CreatDue
      <4>. QED BY <1>1, <1>2, <4>1, DueNow
    <3>6. /\ DOMAIN store.inode_bitmap = {} /\ DOMAIN store.inodes = {} /\ DOMAIN store.data = {}
          /\ store.data_bitmap = marks
      BY <3>5, MarkPlaces
    <3>7. \A n \in Inums, j \in BlockIndices : KeptIn(img, img2, n, j)
      BY <1>3, <3>4, <3>6, KeptWhere
    <3>. QED BY <3>6, <3>7
  <2>2. CASE c = 3
    <3>1. PICK parent : parent = WithEntry(img.inodes[d], b)
      OBVIOUS
    <3>2. store = StoreInode(d, parent)
      <4>1. Due(ws, c, c, StoreInode(d, parent))
        BY <1>1, <2>2, <3>1 DEF CreatDue
      <4>. QED BY <1>1, <1>2, <4>1, DueNow
    <3>3. /\ DOMAIN store.inode_bitmap = {} /\ DOMAIN store.data_bitmap = {} /\ DOMAIN store.data = {}
          /\ DOMAIN store.inodes = {d} /\ store.inodes[d] = parent
      BY <3>2, InodePlaces
    <3>4. \A n \in Inums \ {d}, j \in BlockIndices : KeptIn(img, img2, n, j)
      BY <1>3, <3>3, KeptWhere
    <3>. QED BY <1>1, <2>2, <3>3, <3>4
  <2>3. CASE c = 2
    <3>1. PICK made, ent, fin : /\ made = NewInode(t, own) /\ ent = [inum |-> x, name |-> name]
                                /\ fin = Finished(img, b, s, ent, x, made)
      OBVIOUS
    <3>2. store = StoreEntry(b, s, ent)
      <4>1. Due(ws, c, c, StoreEntry(b, s, ent))
        BY <1>1, <2>3, <3>1 DEF CreatDue
      <4>. QED BY <1>1, <1>2, <4>1, DueNow
    <3>3. /\ DOMAIN store.inode_bitmap = {} /\ DOMAIN store.data_bitmap = {}
          /\ DOMAIN store.inodes = {}
          /\ DOMAIN store.data = {<<b, s>>} /\ store.data[<<b, s>>] = ent
      BY <3>2, EntryPlaces
    <3>4. Orderly(fin, R \cup {x})
      BY <2>3, <3>1 DEF Creating
    <3>5. Finishes(img, b, s, ent, x, made, fin)
      BY <1>1, <3>1, FinishedIs
    <3>6. /\ \A n \in Inums : fin.inodes[n] = IF n = x THEN made ELSE img.inodes[n]
          /\ fin.data[b][s] = ent
      BY <1>1, <3>5 DEF Finishes
    <3>7. PICK q \in BlockIndices : Pointer(img.inodes, d, q) = b
      BY <2>3 DEF Creating
    <3>8. d \in R /\ d # x /\ d \in Inums /\ b # -1
      <4>1. d \in R \cup {x} /\ R \cup {x} \subseteq Inums
        BY <1>1, <3>4 DEF Orderly, InodesHeld, DirsIn
      <4>. QED BY <1>1, <4>1 DEF DirsIn, Blocks
    <3>9. Pointer(fin.inodes, d, q) = b
      BY <3>6, <3>7, <3>8 DEF Pointer
    <3>10. ASSUME NEW n \in Inums \ {x}, NEW j \in BlockIndices, n \in R, n \notin DirsIn(img, R)
           PROVE  KeptIn(img, img2, n, j)
      <4>1. fin.inodes[n] = img.inodes[n]
        BY <3>6
      <4>2. n # d
        BY <1>1, <3>10
      <4>3. Pointer(fin.inodes, n, j) # b
        BY <3>4, <3>8, <3>9, <3>10, <4>2 DEF Orderly, BlocksHeld
      <4>4. Pointer(img.inodes, n, j) # b
        BY <4>1, <4>3 DEF Pointer
      <4>5. \A place \in DOMAIN store.data : place[1] # Pointer(img.inodes, n, j)
        BY <3>3, <4>4
      <4>. QED BY <1>3, <3>3, <4>5, KeptWhere
    <3>. QED BY <2>3, <3>3, <3>10
  <2>4. CASE c = 1
    <3>1. PICK made : made = NewInode(t, own)
      OBVIOUS
    <3>2. store = StoreInode(x, made)
      <4>1. Due(ws, c, c, StoreInode(x, made))
        BY <1>1, <2>4, <3>1 DEF CreatDue
      <4>. QED BY <1>1, <1>2, <4>1, DueNow
    <3>3. /\ DOMAIN store.inode_bitmap = {} /\ DOMAIN store.data_bitmap = {} /\ DOMAIN store.data = {}
          /\ DOMAIN store.inodes = {x} /\ store.inodes[x] = made
      BY <3>2, InodePlaces
    <3>4. \A n \in Inums \ {x}, j \in BlockIndices : KeptIn(img, img2, n, j)
      BY <1>3, <3>3, KeptWhere
    <3>. QED BY <3>3, <3>4
  <2>. QED BY <1>1, <1>5, <2>1, <2>2, <2>3, <2>4
<1>6. CASE c # 5
  BY <1>3, <1>5, <1>6 DEF Stored
<1>. QED BY <1>4, <1>6

-----------------------------------------------------------------------------
(***************************************************************************)
(* One write of the request m.                                             *)
(***************************************************************************)
LEMMA SettlingKeeps ==
  ASSUME NEW img, NEW img2, NEW R, NEW x \in Inums, NEW S, NEW ws \in Seq(S), ws # << >>,
         Settling(img, R, x, ws), Stored(img, img2, Head(ws))
  PROVE  /\ \A n \in Inums \ {x} : img2.inode_bitmap[n] = img.inode_bitmap[n]
         /\ \A n \in R, j \in BlockIndices : KeptIn(img, img2, n, j)
<1>1. PICK store : store = Head(ws)
  OBVIOUS
<1>2. Sparing(img, R, x, store)
  BY <1>1, SettlingOn
<1>3. InodesHeld(img, R) /\ Stored(img, img2, store)
  BY <1>1 DEF Settling, Orderly
<1>. QED BY <1>2, <1>3, SparedKeeps

Stage(old, img, R, x, m, ws) == Settling(img, R, x, ws) \/ Going(old, img, R, x, m, ws)

LEMMA StageOn ==
  ASSUME NEW old, NEW img, NEW img2, Shaped(img), Shaped(img2), NEW R \in SUBSET Inums, NEW x \in Inums,
         NEW m \in Calls, m.inum \in R, NEW S, NEW ws \in Seq(S), ws # << >>,
         Stage(old, img, R, x, m, ws), Stored(img, img2, Head(ws))
  PROVE  /\ \A n \in Inums \ {x} : img2.inode_bitmap[n] = img.inode_bitmap[n]
         /\ \E R2 \in SUBSET Inums :
              /\ m.inum \in R2 /\ R2 \cup {x} = R \cup {x}
              /\ Stage(old, img2, R2, x, m, Tail(ws))
<1>1. PICK rest : rest = Tail(ws)
  OBVIOUS
<1>2. CASE Settling(img, R, x, ws)
  <2>1. Settling(img2, R, x, rest)
    BY <1>1, <1>2, SettlingOn
  <2>2. \A n \in Inums \ {x} : img2.inode_bitmap[n] = img.inode_bitmap[n]
    BY <1>2, SettlingKeeps
  <2>. QED BY <1>1, <2>1, <2>2 DEF Stage
<1>3. ASSUME NEW i \in LiveIn(img, m.inum), Unlinking(img, R, m.inum, i, x, ws)
      PROVE  /\ \A n \in Inums \ {x} : img2.inode_bitmap[n] = img.inode_bitmap[n]
             /\ \E R2 \in SUBSET Inums :
                  /\ m.inum \in R2 /\ R2 \cup {x} = R \cup {x}
                  /\ Stage(old, img2, R2, x, m, rest)
  <2>1. PICK d : d = m.inum
    OBVIOUS
  <2>2. Unlinking(img, R, d, i, x, ws)
    BY <1>3, <2>1
  <2>3. Settling(img2, R \ {x}, x, rest) /\ d \in R \ {x}
    BY <1>1, <2>2, UnlinkOn
  <2>4. \A n \in Inums : img2.inode_bitmap[n] = img.inode_bitmap[n]
    BY <2>2, UnlinkKeeps
  <2>5. R \ {x} \in SUBSET Inums /\ (R \ {x}) \cup {x} = R \cup {x}
    OBVIOUS
  <2>. QED BY <2>1, <2>3, <2>4, <2>5 DEF Stage
<1>4. ASSUME x = m.inum, Overwriting(img, R, m.inum, m.block, m.buffer, ws)
      PROVE  /\ \A n \in Inums \ {x} : img2.inode_bitmap[n] = img.inode_bitmap[n]
             /\ \E R2 \in SUBSET Inums :
                  /\ m.inum \in R2 /\ R2 \cup {x} = R \cup {x}
                  /\ Stage(old, img2, R2, x, m, rest)
  <2>1. PICK n, j, text : n = m.inum /\ j = m.block /\ text = m.buffer
    OBVIOUS
  <2>2. Overwriting(img, R, n, j, text, ws)
    BY <1>4, <2>1
  <2>3. Settling(img2, R, n, rest)
    BY <1>1, <2>2, OverwriteOn
  <2>4. \A k \in Inums : img2.inode_bitmap[k] = img.inode_bitmap[k]
    BY <2>2, OverwriteKeeps
  <2>. QED BY <1>4, <2>1, <2>3, <2>4 DEF Stage
<1>5. ASSUME m.message_type = "W", x = m.inum, old.inodes[m.inum].blocks[m.block] = -1,
             NEW b \in Blocks, Extending(img, R, m.inum, m.block, b, m.buffer, ws)
      PROVE  /\ \A n \in Inums \ {x} : img2.inode_bitmap[n] = img.inode_bitmap[n]
             /\ \E R2 \in SUBSET Inums :
                  /\ m.inum \in R2 /\ R2 \cup {x} = R \cup {x}
                  /\ Stage(old, img2, R2, x, m, rest)
  <2>1. PICK n, j, text : n = m.inum /\ j = m.block /\ text = m.buffer
    OBVIOUS
  <2>2. Extending(img, R, n, j, b, text, ws)
    BY <1>5, <2>1
  <2>3. Extending(img2, R, n, j, b, text, rest) \/ Settling(img2, R, n, rest)
    BY <1>1, <2>2, ExtendOn
  <2>4. \A k \in Inums : img2.inode_bitmap[k] = img.inode_bitmap[k]
    BY <2>2, ExtendKeeps
  <2>5. Stage(old, img2, R, x, m, rest)
    <3>1. CASE Settling(img2, R, n, rest)
      BY <1>5, <2>1, <3>1 DEF Stage
    <3>2. CASE Extending(img2, R, n, j, b, text, rest)
      <4>1. Going(old, img2, R, x, m, rest)
        BY <1>5, <2>1, <3>2 DEF Going
      <4>. QED BY <4>1 DEF Stage
    <3>. QED BY <2>3, <3>1, <3>2
  <2>. QED BY <2>4, <2>5
<1>6. ASSUME m.message_type = "C", x = FreeInum(old), Orderly(old, R),
             NEW b \in Blocks, NEW s \in Slots, NEW own \in Pointers, NEW c \in 1 .. 5,
             Creating(img, R, m.inum, m.type, x, b, s, own, m.name, ws, c)
      PROVE  /\ \A n \in Inums \ {x} : img2.inode_bitmap[n] = img.inode_bitmap[n]
             /\ \E R2 \in SUBSET Inums :
                  /\ m.inum \in R2 /\ R2 \cup {x} = R \cup {x}
                  /\ Stage(old, img2, R2, x, m, rest)
  <2>1. PICK d, name : d = m.inum /\ name = m.name
    OBVIOUS
  <2>2. PICK t \in TypeArgs : t = m.type
    BY KilledCallsAssumption
  <2>3. Creating(img, R, d, t, x, b, s, own, name, ws, c)
    BY <1>6, <2>1, <2>2
  <2>4. \/ c - 1 \in 1 .. 5 /\ Creating(img2, R, d, t, x, b, s, own, name, rest, c - 1)
        \/ Settling(img2, R \cup {x}, x, rest)
    BY <1>1, <2>3, CreatOn
  <2>5. \A n \in Inums \ {x} : img2.inode_bitmap[n] = img.inode_bitmap[n]
    <3>1. /\ \A n \in Inums \ {x} : img2.inode_bitmap[n] = img.inode_bitmap[n]
          /\ \A n \in Inums \ {x}, j \in BlockIndices :
               n \in R \ DirsIn(img, R) => KeptIn(img, img2, n, j)
      BY <2>3, CreatKeeps
    <3>. QED BY <3>1
  <2>6. CASE c - 1 \in 1 .. 5 /\ Creating(img2, R, d, t, x, b, s, own, name, rest, c - 1)
    <3>1. PICK e \in 1 .. 5 : Creating(img2, R, d, t, x, b, s, own, name, rest, e)
      BY <2>6
    <3>2. Going(old, img2, R, x, m, rest)
      BY <1>6, <2>1, <2>2, <3>1 DEF Going
    <3>. QED BY <2>5, <3>2 DEF Stage
  <2>7. CASE Settling(img2, R \cup {x}, x, rest)
    <3>1. R \cup {x} \in SUBSET Inums /\ (R \cup {x}) \cup {x} = R \cup {x} /\ m.inum \in R \cup {x}
      OBVIOUS
    <3>. QED BY <2>5, <2>7, <3>1 DEF Stage
  <2>. QED BY <2>4, <2>6, <2>7
<1>7. CASE Going(old, img, R, x, m, ws)
  BY <1>1, <1>3, <1>4, <1>5, <1>6, <1>7 DEF Going
<1>. QED BY <1>2, <1>7 DEF Stage

LEMMA WriteStored ==
  ASSUME CrashInv, MakeWrite, NEW img, img = Snapshot, NEW img2, img2 = Snapshot'
  PROVE  Shaped(img) /\ Shaped(img2) /\ Stored(img, img2, Head(writes))
<1>1. /\ server = "writing" /\ Made(Head(writes))
      /\ Shaped(Snapshot)
  BY DEF MakeWrite, CrashInv
<1>2. PICK store : store = Head(writes)
  OBVIOUS
<1>3. /\ Shaped(Snapshot)'
      /\ \A n \in Inums :
           inode_bitmap'[n] = IF n \in DOMAIN store.inode_bitmap THEN store.inode_bitmap[n]
                              ELSE inode_bitmap[n]
      /\ \A b \in Blocks :
           data_bitmap'[b] = IF b \in DOMAIN store.data_bitmap THEN store.data_bitmap[b]
                             ELSE data_bitmap[b]
      /\ \A n \in Inums :
           inodes'[n] = IF n \in DOMAIN store.inodes THEN store.inodes[n] ELSE inodes[n]
      /\ \A b \in Pointers, s \in Slots :
           data'[b][s] = IF <<b, s>> \in DOMAIN store.data THEN store.data[<<b, s>>]
                         ELSE data[b][s]
  BY <1>1, <1>2, MadePlaces
<1>4. /\ img.inode_bitmap = inode_bitmap /\ img.data_bitmap = data_bitmap
      /\ img.inodes = inodes /\ img.data = data
      /\ img2.inode_bitmap = inode_bitmap' /\ img2.data_bitmap = data_bitmap'
      /\ img2.inodes = inodes' /\ img2.data = data'
  BY DEF Snapshot
<1>5. Stored(img, img2, store)
  BY <1>3, <1>4 DEF Stored
<1>. QED BY <1>1, <1>2, <1>3, <1>5

LEMMA MakeWriteExplained ==
  ASSUME CrashInv, KillInv, MakeWrite
  PROVE  KillInv'
<1>1. /\ server = "writing" /\ writes # << >> /\ Made(Head(writes))
      /\ writes' = Tail(writes)
      /\ harm' = harm /\ torn' = torn /\ call' = call /\ server' = server
      /\ before' = before /\ kills' = kills
  BY DEF MakeWrite
<1>2. /\ call \in Calls /\ Shaped(Snapshot)
      /\ \E S : writes \in Seq(S)
  BY <1>1 DEF CrashInv, WritingInv
<1>3. PICK old, m, ws, k : old = before /\ m = call /\ ws = writes /\ k = kills
  OBVIOUS
<1>4. PICK img, img2 : img = Snapshot /\ img2 = Snapshot'
  OBVIOUS
<1>5. Shaped(img) /\ Shaped(img2) /\ Stored(img, img2, Head(ws))
  BY <1>3, <1>4, WriteStored
<1>6. SUFFICES ASSUME Bearing'
               PROVE  \E R \in SUBSET Inums, x \in Inums :
                        Explained(old, img2, R, x, m, Tail(ws), "writing", k)
  <2>1. writes' = Tail(ws) /\ before' = old /\ call' = m /\ server' = "writing" /\ kills' = k
        /\ k \in Nat /\ Snapshot' = img2
    BY <1>1, <1>3, <1>4 DEF KillInv
  <2>. QED BY <1>6, <2>1, Zenon DEF KillInv
<1>7. Bearing
  BY <1>1, <1>6 DEF Bearing, Sound
<1>8. PICK R \in SUBSET Inums, x \in Inums : Explained(old, img, R, x, m, ws, "writing", k)
  BY <1>1, <1>3, <1>4, <1>7, Zenon DEF KillInv
<1>9. m \in Calls /\ m # Idle /\ ws # << >> /\ (\E S : ws \in Seq(S))
  BY <1>1, <1>2, <1>3, KilledCallsAssumption
<1>10. m.inum \in R /\ Lost(img, R, x, k) /\ Stage(old, img, R, x, m, ws)
  BY <1>8, <1>9 DEF Explained, CallHeld, Stage
<1>11. PICK S : ws \in Seq(S)
  BY <1>9
<1>12. /\ \A n \in Inums \ {x} : img2.inode_bitmap[n] = img.inode_bitmap[n]
       /\ \E R2 \in SUBSET Inums :
            /\ m.inum \in R2 /\ R2 \cup {x} = R \cup {x}
            /\ Stage(old, img2, R2, x, m, Tail(ws))
  BY <1>5, <1>9, <1>10, <1>11, StageOn
<1>13. PICK R2 \in SUBSET Inums : /\ m.inum \in R2 /\ R2 \cup {x} = R \cup {x}
                                  /\ Stage(old, img2, R2, x, m, Tail(ws))
  BY <1>12
<1>14. Lost(img2, R2, x, k)
  BY <1>10, <1>12, <1>13, LostOn
<1>15. Explained(old, img2, R2, x, m, Tail(ws), "writing", k)
  BY <1>13, <1>14 DEF Explained, CallHeld, Stage
<1>. QED BY <1>15

-----------------------------------------------------------------------------
(***************************************************************************)
(* The image that the server makes when there is none.                     *)
(***************************************************************************)
LEMMA FreshOrder ==
  ASSUME NEW img, img.inode_bitmap = FreshBitmap(Inums), img.data_bitmap = FreshBitmap(Blocks),
         img.inodes = FreshInodes
  PROVE  Orderly(img, {0}) /\ InUseIn(img) = {0}
<1>1. /\ \A n \in Inums : img.inode_bitmap[n] = IF n = 0 THEN 1 ELSE 0
      /\ \A b \in Blocks : img.data_bitmap[b] = IF b = 0 THEN 1 ELSE 0
      /\ img.inodes[0] = EmptyDir(0)
  BY ImageTypes DEF FreshBitmap, FreshInodes
<1>2. InUseIn(img) = {0}
  <2>1. \A n \in Inums : img.inode_bitmap[n] = 1 <=> n = 0
    BY <1>1
  <2>2. 0 \in Inums
    BY ImageTypes
  <2>3. \A n : n \in InUseIn(img) <=> n = 0
    BY <2>1, <2>2, Zenon DEF InUseIn
  <2>. QED BY <2>3
<1>3. \A j \in BlockIndices : Pointer(img.inodes, 0, j) = IF j = 0 THEN 0 ELSE -1
  BY <1>1, ImageTypes DEF Pointer, EmptyDir, NoBlocks
<1>4. InodesHeld(img, {0})
  <2>1. 0 \in Pointers
    BY ImageTypes DEF Pointers
  <2>2. EmptyDir(0) \in Inode /\ DirTable(EmptyDir(0))
    BY <2>1, ImageTypes, InodeTypes, EmptyDirTable
  <2>3. EmptyDir(0).type \in TypeArgs
    BY DEF EmptyDir, TypeArgs
  <2>. QED BY <1>1, <2>2, <2>3, ImageTypes DEF InodesHeld, DirsIn
<1>5. BlocksHeld(img, {0})
  BY <1>1, <1>3, ImageTypes DEF BlocksHeld
<1>6. LiveIn(img, 0) = {}
  <2>1. img.inodes[0].size = 2
    BY <1>1 DEF EmptyDir
  <2>2. 2 .. 2 - 1 = {}
    OBVIOUS
  <2>. QED BY <2>1, <2>2 DEF LiveIn
<1>7. NamesHeld(img, {0})
  BY <1>6 DEF NamesHeld, DirsIn
<1>8. Spanned(img, {0})
  BY DEF Spanned, Leads
<1>9. NamesApart(img, {0})
  BY <1>6 DEF NamesApart, DirsIn
<1>. QED BY <1>2, <1>4, <1>5, <1>7, <1>8, <1>9 DEF Orderly

LEMMA KillStarts == CrashInit => KillInv
<1>1. SUFFICES ASSUME CrashInit PROVE KillInv
  OBVIOUS
<1>2. /\ inode_bitmap = FreshBitmap(Inums) /\ data_bitmap = FreshBitmap(Blocks)
      /\ inodes = FreshInodes
      /\ writes = << >> /\ call = Idle /\ kills = 0
  BY <1>1 DEF CrashInit, Init
<1>3. PICK img : img = Snapshot
  OBVIOUS
<1>4. Orderly(img, {0}) /\ InUseIn(img) = {0}
  BY <1>2, <1>3, FreshOrder DEF Snapshot
<1>5. Lost(img, {0}, 0, 0)
  <2>1. InUseIn(img) \ ({0} \cup {0}) = {}
    BY <1>4
  <2>. QED BY <2>1, FS_EmptySet DEF Lost
<1>6. PICK ws : ws = writes
  OBVIOUS
<1>7. Settling(img, {0}, 0, ws)
  <2>1. 1 .. Len(ws) = {}
    BY <1>2, <1>6
  <2>. QED BY <1>4, <2>1 DEF Settling
<1>8. Explained(before, img, {0}, 0, call, ws, server, kills)
  BY <1>2, <1>5, <1>7 DEF Explained, CallHeld
<1>9. {0} \in SUBSET Inums /\ 0 \in Inums
  BY ImageTypes
<1>10. Explained(before, Snapshot, {0}, 0, call, writes, server, kills)
  BY <1>3, <1>6, <1>8
<1>. QED BY <1>2, <1>9, <1>10 DEF KillInv

-----------------------------------------------------------------------------
(***************************************************************************)
(* The paths lead to the inodes in order, and to all of them.              *)
(***************************************************************************)
LEMMA ReachedWithin ==
  ASSUME NEW img, img = Snapshot, NEW R \in SUBSET Inums, Leads(img, R, R)
  PROVE  Reached \subseteq R
<1>1. PICK below, closed :
        /\ below = [d \in Dirs |-> Children(d)]
        /\ closed = {S \in SUBSET Inums : 0 \in S /\ \A d \in S \cap DOMAIN below : below[d] \subseteq S}
        /\ Reached = {n \in Inums : \A S \in closed : n \in S}
  BY DEF Reached, LedTo
<1>2. ASSUME NEW d \in R \cap DOMAIN below PROVE below[d] \subseteq R
  <2>1. d \in Dirs /\ below[d] = Children(d)
    BY <1>1
  <2>2. d \in R \cap DirsIn(img, R)
    BY <1>2, <2>1 DEF Dirs, DirsIn, Snapshot
  <2>3. Live(d) = LiveIn(img, d) /\ \A i : Target(d, i) = NamedIn(img, d, i)
    BY DEF Live, LiveIn, Target, NamedIn, Snapshot
  <2>4. \A i \in LiveIn(img, d) : NamedIn(img, d, i) \in R
    BY <2>2 DEF Leads
  <2>. QED BY <2>1, <2>3, <2>4 DEF Children
<1>3. R \in closed
  BY <1>1, <1>2 DEF Leads
<1>. QED BY <1>1, <1>3

(***************************************************************************)
(* So are those that led there when the request in progress began.         *)
(***************************************************************************)
LEMMA ReachedBeforeWithin ==
  ASSUME server = "writing", NEW old, old = before, NEW R \in SUBSET Inums, Leads(old, R, R)
  PROVE  ReachedBefore \subseteq R
<1>1. PICK below, closed :
        /\ below = [d \in Server!Dirs |-> Server!Children(d)]
        /\ closed = {S \in SUBSET Inums : 0 \in S /\ \A d \in S \cap DOMAIN below : below[d] \subseteq S}
        /\ ReachedBefore = {n \in Inums : \A S \in closed : n \in S}
  BY DEF ReachedBefore, LedTo
<1>2. ASSUME NEW d \in R \cap DOMAIN below PROVE below[d] \subseteq R
  <2>1. d \in Server!Dirs /\ below[d] = Server!Children(d)
    BY <1>1
  <2>2. Seen = old
    BY DEF Seen
  <2>3. d \in R \cap DirsIn(old, R)
    BY <1>2, <2>1, <2>2 DEF Server!Dirs, Server!MFS_DIRECTORY, DirsIn, MFS_DIRECTORY
  <2>4. \A i : Server!EntAt(old.inodes[d], i, old.data) = EntAt(old.inodes[d], i, old.data)
    BY SameSearch
  <2>5. Server!Live(d) = LiveIn(old, d) /\ \A i : Server!Target(d, i) = NamedIn(old, d, i)
    BY <2>2, <2>4 DEF Server!Live, LiveIn, Server!Target, NamedIn
  <2>6. \A i \in LiveIn(old, d) : NamedIn(old, d, i) \in R
    BY <2>3 DEF Leads
  <2>. QED BY <2>1, <2>5, <2>6 DEF Server!Children
<1>3. R \in closed
  BY <1>1, <1>2 DEF Leads
<1>. QED BY <1>1, <1>3

LEMMA OrderLeads ==
  ASSUME NEW img, NEW R, Orderly(img, R)
  PROVE  Leads(img, R, R) /\ 0 \in R
BY DEF Orderly, Leads, Spanned, NamesHeld

LEMMA ReachedIs ==
  ASSUME NEW img, img = Snapshot, NEW R \in SUBSET Inums, Orderly(img, R)
  PROVE  Reached = R
<1>1. PICK below, closed :
        /\ below = [d \in Dirs |-> Children(d)]
        /\ closed = {S \in SUBSET Inums : 0 \in S /\ \A d \in S \cap DOMAIN below : below[d] \subseteq S}
        /\ Reached = {n \in Inums : \A S \in closed : n \in S}
  BY DEF Reached, LedTo
<1>2. Leads(img, R, R) /\ 0 \in R
  BY OrderLeads
<1>3. ASSUME NEW S \in closed PROVE R \subseteq S
  <2>1. 0 \in S /\ \A d \in S \cap DOMAIN below : below[d] \subseteq S
    BY <1>1
  <2>2. ASSUME NEW d \in (S \cap R) \cap DirsIn(img, R), NEW i \in LiveIn(img, d)
        PROVE  NamedIn(img, d, i) \in S \cap R
    <3>1. d \in Inums /\ img.inode_bitmap[d] = 1
      BY DEF Orderly, InodesHeld
    <3>2. d \in Dirs
      BY <2>2, <3>1 DEF Dirs, InUse, DirsIn, Snapshot
    <3>3. Live(d) = LiveIn(img, d) /\ Target(d, i) = NamedIn(img, d, i)
      BY DEF Live, LiveIn, Target, NamedIn, Snapshot
    <3>4. Children(d) \subseteq S
      BY <1>1, <2>1, <3>2
    <3>5. NamedIn(img, d, i) \in S
      BY <3>3, <3>4 DEF Children
    <3>6. NamedIn(img, d, i) \in R
      BY <1>2 DEF Leads
    <3>. QED BY <3>5, <3>6
  <2>3. Leads(img, R, S \cap R)
    BY <1>2, <2>1, <2>2 DEF Leads
  <2>4. S \cap R = R
    BY <2>3 DEF Orderly, Spanned
  <2>. QED BY <2>4
<1>4. R \subseteq Reached
  BY <1>1, <1>3
<1>. QED BY <1>2, <1>4, ReachedWithin

-----------------------------------------------------------------------------
(***************************************************************************)
(* Steps that leave the image, and the kill.                               *)
(***************************************************************************)
LEMMA GoingWrites ==
  ASSUME NEW old, NEW img, NEW R, NEW x, NEW m \in Calls, NEW ws, Going(old, img, R, x, m, ws)
  PROVE  ws # << >>
<1>1. ASSUME NEW i, Unlinking(img, R, m.inum, i, x, ws) PROVE Len(ws) > 0
  BY <1>1 DEF Unlinking
<1>2. ASSUME Overwriting(img, R, m.inum, m.block, m.buffer, ws) PROVE Len(ws) > 0
  BY <1>2 DEF Overwriting
<1>3. ASSUME NEW b, Extending(img, R, m.inum, m.block, b, m.buffer, ws) PROVE Len(ws) > 0
  <2>1. Len(ws) \in 1 .. 3
    BY <1>3, Zenon DEF Extending
  <2>. QED BY <2>1
<1>4. ASSUME NEW b, NEW s, NEW own, NEW c \in 1 .. 5,
             Creating(img, R, m.inum, m.type, x, b, s, own, m.name, ws, c)
      PROVE  Len(ws) > 0
  <2>1. CreatDue(img, R, m.inum, m.type, x, b, s, own, m.name, ws, c)
    BY <1>4 DEF Creating
  <2>2. Len(ws) = c + Late(m.type) /\ Late(m.type) \in {0, 1}
    BY <2>1 DEF CreatDue, Late
  <2>. QED BY <2>2
<1>5. Len(ws) > 0
  BY <1>1, <1>2, <1>3, <1>4 DEF Going
<1>. QED BY <1>5

LEMMA ExplainedAtRest ==
  ASSUME NEW old, NEW img, NEW R, NEW x, NEW m, m = Idle \/ m \in Calls, NEW ws, ws = << >>,
         NEW srv, srv = "writing" => m \in Calls, NEW k, Explained(old, img, R, x, m, ws, srv, k)
  PROVE  Settling(img, R, x, ws) /\ Lost(img, R, x, k) /\ CallHeld(img, R, m, srv)
BY GoingWrites DEF Explained

LEMMA NotTorn ==
  ASSUME NEW old, NEW img, NEW R, NEW x, NEW m \in Calls, NEW ws,
         Stage(old, img, R, x, m, ws),
         m.message_type = "C" =>
           Len(ws) \notin IF m.type = MFS_DIRECTORY THEN {2, 3} ELSE {1, 2},
         m.message_type = "W" /\ Len(ws) = 1 =>
           img.inodes[m.inum].blocks[m.block] = old.inodes[m.inum].blocks[m.block]
  PROVE  Orderly(img, R)
<1>1. CASE Settling(img, R, x, ws)
  BY <1>1 DEF Settling
<1>2. ASSUME NEW i, Unlinking(img, R, m.inum, i, x, ws) PROVE Orderly(img, R)
  BY <1>2 DEF Unlinking
<1>3. ASSUME Overwriting(img, R, m.inum, m.block, m.buffer, ws) PROVE Orderly(img, R)
  BY <1>3 DEF Overwriting
<1>4. ASSUME m.message_type = "W", old.inodes[m.inum].blocks[m.block] = -1, NEW b \in Blocks,
             Extending(img, R, m.inum, m.block, b, m.buffer, ws)
      PROVE  Orderly(img, R)
  <2>1. Len(ws) \in 1 .. 3
    BY <1>4 DEF Extending
  <2>2. CASE Len(ws) > 1
    BY <1>4, <2>2 DEF Extending
  <2>3. CASE Len(ws) = 1
    <3>1. Pointer(img.inodes, m.inum, m.block) = b
      BY <1>4, <2>3 DEF Extending
    <3>2. Pointer(img.inodes, m.inum, m.block) = -1
      BY <1>4, <2>3 DEF Pointer
    <3>. QED BY <3>1, <3>2 DEF Blocks
  <2>. QED BY <2>1, <2>2, <2>3
<1>5. ASSUME m.message_type = "C", NEW b, NEW s, NEW own, NEW c \in 1 .. 5,
             Creating(img, R, m.inum, m.type, x, b, s, own, m.name, ws, c)
      PROVE  Orderly(img, R)
  <2>1. CreatDue(img, R, m.inum, m.type, x, b, s, own, m.name, ws, c)
    BY <1>5 DEF Creating
  <2>2. Len(ws) = c + Late(m.type)
    BY <2>1 DEF CreatDue
  <2>3. c \notin {1, 2}
    <3>1. Len(ws) \notin IF m.type = MFS_DIRECTORY THEN {2, 3} ELSE {1, 2}
      BY <1>5
    <3>2. CASE m.type = MFS_DIRECTORY
      BY <2>2, <3>1, <3>2 DEF Late
    <3>3. CASE m.type # MFS_DIRECTORY
      BY <2>2, <3>1, <3>3 DEF Late
    <3>. QED BY <3>2, <3>3
  <2>4. c >= 3
    BY <2>3
  <2>. QED BY <1>5, <2>4 DEF Creating
<1>. QED BY <1>1, <1>2, <1>3, <1>4, <1>5 DEF Stage, Going

LEMMA OneMoreLost ==
  ASSUME NEW img, NEW R, 0 \in R, NEW x, NEW k \in Nat, Lost(img, R, x, k)
  PROVE  Lost(img, R, 0, k + 1)
<1>1. PICK few, many : few = InUseIn(img) \ (R \cup {x}) /\ many = InUseIn(img) \ (R \cup {0})
  OBVIOUS
<1>2. IsFiniteSet(Inums)
  BY SizesAssumption, FS_Interval DEF Inums
<1>3. few \subseteq Inums /\ many \subseteq few \cup {x}
  BY <1>1 DEF InUseIn
<1>4. IsFiniteSet(few)
  BY <1>2, <1>3, FS_Subset
<1>5. /\ IsFiniteSet(few \cup {x})
      /\ Cardinality(few) \in Nat
      /\ Cardinality(few \cup {x}) \in {Cardinality(few), Cardinality(few) + 1}
  BY <1>4, FS_AddElement, FS_CardinalityType
<1>6. Cardinality(many) \in Nat /\ Cardinality(many) <= Cardinality(few \cup {x})
  BY <1>3, <1>5, FS_Subset, FS_CardinalityType
<1>7. Cardinality(few) <= k
  BY <1>1 DEF Lost
<1>8. Cardinality(many) <= k + 1
  BY <1>5, <1>6, <1>7
<1>. QED BY <1>1, <1>8 DEF Lost

LEMMA SameRest ==
  ASSUME NEW img, NEW img2, NEW R, NEW x,
         img2.inode_bitmap = img.inode_bitmap, img2.data_bitmap = img.data_bitmap,
         img2.inodes = img.inodes, img2.data = img.data, Orderly(img, R),
         x \in R \/ img.inode_bitmap[x] # 1, NEW k, Lost(img, R, x, k),
         NEW m, NEW srv, CallHeld(img, R, m, srv), NEW old, NEW ws, ws = << >>
  PROVE  Explained(old, img2, R, x, m, ws, srv, k)
<1>1. Orderly(img2, R)
  BY SamePicture
<1>2. InUseIn(img2) = InUseIn(img)
  BY DEF InUseIn
<1>3. Lost(img2, R, x, k)
  BY <1>2 DEF Lost
<1>4. 1 .. Len(ws) = {}
  OBVIOUS
<1>5. Settling(img2, R, x, ws)
  BY <1>1, <1>4 DEF Settling, Freed
<1>. QED BY <1>3, <1>5 DEF Explained, CallHeld

LEMMA RestFreed ==
  ASSUME NEW img, NEW R, NEW x, NEW ws, ws = << >>, Settling(img, R, x, ws)
  PROVE  Orderly(img, R) /\ (x \in R \/ img.inode_bitmap[x] # 1)
<1>1. 1 .. Len(ws) = {}
  OBVIOUS
<1>. QED BY <1>1 DEF Settling, Freed

LEMMA RestKept ==
  ASSUME CrashInv, KillInv, UNCHANGED <<image, harm, kills>>, torn => torn',
         writes = << >>, writes' = << >>, server' # "writing",
         \/ call' = Idle \/ call' = call
         \/ call' \in Calls /\ (Astray(call') => torn')
  PROVE  KillInv'
<1>1. SUFFICES ASSUME Bearing'
               PROVE  \E R \in SUBSET Inums, x \in Inums :
                        Explained(before', Snapshot', R, x, call', << >>, server', kills)
  <2>1. PICK ws, k : ws = << >> /\ k = kills
    OBVIOUS
  <2>2. writes' = ws /\ kills' = k /\ k \in Nat /\ server' # "writing"
    BY <2>1 DEF KillInv
  <2>. QED BY <1>1, <2>1, <2>2, Zenon DEF KillInv
<1>2. Bearing
  BY <1>1 DEF Bearing, Sound
<1>3. PICK R \in SUBSET Inums, x \in Inums :
        Explained(before, Snapshot, R, x, call, writes, server, kills)
  BY <1>2 DEF KillInv
<1>4. PICK img, img2, m, old, ws, srv, k, m2, old2, srv2 :
        /\ img = Snapshot /\ img2 = Snapshot' /\ m = call /\ old = before /\ ws = writes
        /\ srv = server /\ k = kills /\ m2 = call' /\ old2 = before' /\ srv2 = server'
  OBVIOUS
<1>5. Explained(old, img, R, x, m, ws, srv, k) /\ ws = << >>
  BY <1>3, <1>4
<1>6. m = Idle \/ m \in Calls
  BY <1>4 DEF CrashInv
<1>7. srv = "writing" => m \in Calls
  BY <1>4 DEF CrashInv, WritingInv
<1>8. Settling(img, R, x, ws) /\ Lost(img, R, x, k) /\ CallHeld(img, R, m, srv)
  BY <1>5, <1>6, <1>7, ExplainedAtRest
<1>9. Orderly(img, R) /\ (x \in R \/ img.inode_bitmap[x] # 1)
  BY <1>5, <1>8, RestFreed
<1>10. CallHeld(img, R, m2, srv2)
  <2>1. srv2 # "writing"
    BY <1>4
  <2>2. CASE m2 = Idle
    BY <2>2 DEF CallHeld
  <2>3. CASE m2 = m
    BY <1>8, <2>1, <2>3 DEF CallHeld
  <2>4. CASE m2 \in Calls /\ ~Astray(m2)
    <3>1. Reached = R
      BY <1>4, <1>9, ReachedIs
    <3>2. m2.inum \in Inums
      BY <2>4, KilledCallsAssumption, Zenon
    <3>3. Changing(m2) => m2.inum \notin InUse \/ m2.inum \in R
      BY <2>4, <3>1, Zenon DEF Astray, Changing
    <3>4. m2.inum \in InUse <=> img.inode_bitmap[m2.inum] = 1
      BY <1>4, <3>2 DEF InUse, Snapshot
    <3>. QED BY <2>1, <3>3, <3>4, Zenon DEF CallHeld
  <2>5. ~torn'
    BY <1>1 DEF Bearing
  <2>. QED BY <1>4, <2>2, <2>3, <2>4, <2>5
<1>11. /\ img2.inode_bitmap = img.inode_bitmap /\ img2.data_bitmap = img.data_bitmap
       /\ img2.inodes = img.inodes /\ img2.data = img.data
  BY <1>4 DEF Snapshot, image
<1>12. Explained(old2, img2, R, x, m2, ws, srv2, k)
  BY <1>5, <1>8, <1>9, <1>10, <1>11, SameRest
<1>. QED BY <1>4, <1>5, <1>12

LEMMA KillExplained ==
  ASSUME CrashInv, KillInv, Kill
  PROVE  KillInv'
<1>1. /\ server' = "down" /\ writes' = << >> /\ kills' = kills + 1 /\ call' = call
      /\ torn' = (torn \/ Tears)
      /\ UNCHANGED vars
  BY DEF Kill
<1>2. PICK img, m, old, ws, srv, k, old2 :
        /\ img = Snapshot /\ m = call /\ old = before /\ ws = writes
        /\ srv = server /\ k = kills /\ old2 = before'
  OBVIOUS
<1>3. Snapshot' = img /\ harm' = harm
  BY <1>1, <1>2 DEF Snapshot, vars
<1>4. SUFFICES ASSUME Bearing'
               PROVE  \E R \in SUBSET Inums, x \in Inums :
                        Explained(old2, img, R, x, m, << >>, "down", k + 1)
  <2>1. PICK none, next : none = << >> /\ next = k + 1
    OBVIOUS
  <2>2. /\ writes' = none /\ kills' = next /\ server' = "down" /\ before' = old2 /\ call' = m
        /\ next \in Nat /\ Snapshot' = img
    BY <1>1, <1>2, <1>3, <2>1 DEF KillInv
  <2>. QED BY <1>4, <2>1, <2>2, Zenon DEF KillInv
<1>5. Bearing /\ ~Tears
  BY <1>1, <1>3, <1>4 DEF Bearing, Sound
<1>6. PICK R \in SUBSET Inums, x \in Inums : Explained(old, img, R, x, m, ws, srv, k)
  BY <1>2, <1>5 DEF KillInv
<1>7. Orderly(img, R)
  <2>1. CASE server = "writing"
    <3>1. m \in Calls
      BY <1>2, <2>1 DEF CrashInv, WritingInv
    <3>2. /\ m.message_type = "C" =>
               Len(ws) \notin IF m.type = MFS_DIRECTORY THEN {2, 3} ELSE {1, 2}
          /\ m.message_type = "W" /\ Len(ws) = 1 =>
               img.inodes[m.inum].blocks[m.block] = old.inodes[m.inum].blocks[m.block]
      BY <1>2, <1>5, <2>1 DEF Tears, Snapshot
    <3>3. Stage(old, img, R, x, m, ws)
      BY <1>6 DEF Explained, Stage
    <3>. QED BY <3>1, <3>2, <3>3, NotTorn
  <2>2. CASE server # "writing"
    BY <1>2, <1>6, <2>2 DEF Explained, Settling
  <2>. QED BY <2>1, <2>2
<1>8. 0 \in R
  BY <1>7, OrderLeads
<1>9. kills \in Nat
  BY DEF KillInv
<1>10. Lost(img, R, 0, k + 1) /\ CallHeld(img, R, m, "down")
  BY <1>2, <1>6, <1>8, <1>9, OneMoreLost DEF Explained, CallHeld
<1>11. PICK none, next : none = << >> /\ next = k + 1
  OBVIOUS
<1>12. Explained(old2, img, R, 0, m, none, "down", next)
  BY <1>7, <1>8, <1>10, <1>11, SameRest
<1>13. 0 \in Inums
  BY ImageTypes
<1>. QED BY <1>11, <1>12, <1>13

-----------------------------------------------------------------------------
(***************************************************************************)
(* A handler has worked out its writes: the request is at its first stage. *)
(***************************************************************************)
LEMMA FreeNumber ==
  ASSUME NEW S, S \subseteq Nat, NEW bitmap, NEW x, x = next_available(bitmap, S), x # -1
  PROVE  x \in S /\ bitmap[x] = 0
<1>1. PICK free : free = {y \in S : bitmap[y] = 0}
  OBVIOUS
<1>2. CASE \E y \in S : bitmap[y] = 0
  <2>1. free \subseteq Nat /\ free # {}
    BY <1>1, <1>2
  <2>2. Min(free) \in free
    BY <2>1, MinOfNats
  <2>3. x = Min(free)
    BY <1>1, <1>2 DEF next_available
  <2>. QED BY <1>1, <2>2, <2>3
<1>3. CASE ~ \E y \in S : bitmap[y] = 0
  BY <1>3 DEF next_available
<1>. QED BY <1>2, <1>3

LEMMA OverwriteBegins ==
  ASSUME NEW img, NEW R, Orderly(img, R), NEW n \in R, img.inodes[n].type # MFS_DIRECTORY,
         NEW j \in BlockIndices, NEW text, Pointer(img.inodes, n, j) # -1,
         NEW ws, ws = << StoreBlock(Pointer(img.inodes, n, j), text) >>
  PROVE  Overwriting(img, R, n, j, text, ws)
<1>1. PICK store : store = StoreBlock(Pointer(img.inodes, n, j), text)
  OBVIOUS
<1>2. Len(ws) = 1 /\ ws[1] = store
  BY <1>1, OneWrite
<1>. QED BY <1>1, <1>2 DEF Overwriting, DirsIn

LEMMA ExtendBegins ==
  ASSUME NEW img, NEW R, Orderly(img, R), NEW n \in R, img.inodes[n].type # MFS_DIRECTORY,
         NEW j \in BlockIndices, NEW text, Pointer(img.inodes, n, j) = -1,
         NEW b, b = FreeBlock(img), b # -1,
         NEW ws, ws = << StoreBlock(b, text), StoreInode(n, push_inode_update(img.inodes[n], j, b)),
                         StoreDataBitmap(At(b, 1)) >>
  PROVE  b \in Blocks /\ Extending(img, R, n, j, b, text, ws)
<1>1. b \in Blocks /\ img.data_bitmap[b] = 0
  BY ImageTypes, FreeNumber DEF FreeBlock, next_available_block
<1>2. PICK s1, s2, s3 : /\ s1 = StoreBlock(b, text)
                        /\ s2 = StoreInode(n, push_inode_update(img.inodes[n], j, b))
                        /\ s3 = StoreDataBitmap(At(b, 1))
  OBVIOUS
<1>3. Three(ws, s1, s2, s3)
  BY <1>2, ThreeWrites
<1>4. Len(ws) = 3 /\ Due(ws, 3, 3, s1) /\ Due(ws, 3, 2, s2) /\ Due(ws, 3, 1, s3)
  BY <1>3 DEF Three, Due
<1>5. n \in R \ DirsIn(img, R)
  BY DEF DirsIn
<1>. QED BY <1>1, <1>2, <1>4, <1>5 DEF Extending

LEMMA UnlinkBegins ==
  ASSUME NEW img, Shaped(img), NEW R, Orderly(img, R), NEW d \in DirsIn(img, R),
         NEW i \in LiveIn(img, d), NEW x, x = NamedIn(img, d, i), RemovableIn(img, img.inodes[x]),
         NEW ws, ws = << StoreEntry(EntBlock(img.inodes[d], i), i % DirEntsPerBlock, UnusedEnt),
                         StoreInode(d, [img.inodes[d] EXCEPT !.real_size = @ - 1]),
                         StoreInodeBitmap([img.inode_bitmap EXCEPT ![x] = 0]),
                         StoreDataBitmap(decomission_blocks(img.inodes[x], img.data_bitmap)),
                         StoreInode(x, decomission_inode(img.inodes[x])) >>
  PROVE  Unlinking(img, R, d, i, x, ws)
<1>1. InodesHeld(img, R) /\ BlocksHeld(img, R) /\ NamesHeld(img, R) /\ R \subseteq Inums
  BY DEF Orderly, InodesHeld
<1>2. x \in R /\ d \in R /\ x \in Inums
  BY <1>1 DEF NamesHeld, DirsIn
<1>3. x \in DirsIn(img, R) => LiveIn(img, x) = {}
  <2>1. ASSUME x \in DirsIn(img, R), NEW k \in LiveIn(img, x) PROVE FALSE
    <3>1. NamedIn(img, x, k) \in R
      BY <1>1, <2>1 DEF NamesHeld
    <3>2. NamedIn(img, x, k) \in Nat
      BY <1>1, <3>1, ImageTypes
    <3>3. k \in 2 .. img.inodes[x].size - 1 /\ empty_Directory(img.inodes[x], img.data)
      BY <2>1 DEF LiveIn, DirsIn, RemovableIn
    <3>4. EntAt(img.inodes[x], k, img.data).inum < 0
      BY <3>3 DEF empty_Directory
    <3>. QED BY <3>2, <3>4 DEF NamedIn
  <2>. QED BY <2>1
<1>4. PICK s1, parent, bits, marks, gone, s2, s3, s4, s5 :
        /\ s1 = StoreEntry(EntBlock(img.inodes[d], i), i % DirEntsPerBlock, UnusedEnt)
        /\ parent = [img.inodes[d] EXCEPT !.real_size = @ - 1]
        /\ bits = [img.inode_bitmap EXCEPT ![x] = 0]
        /\ marks = decomission_blocks(img.inodes[x], img.data_bitmap)
        /\ gone = decomission_inode(img.inodes[x])
        /\ s2 = StoreInode(d, parent) /\ s3 = StoreInodeBitmap(bits)
        /\ s4 = StoreDataBitmap(marks) /\ s5 = StoreInode(x, gone)
  OBVIOUS
<1>5. Five(ws, s1, s2, s3, s4, s5) /\ \E S : ws \in Seq(S)
  BY <1>4, FiveWrites
<1>6. Sparing(img, R \ {x}, x, s2)
  <2>1. /\ DOMAIN s2.inode_bitmap = {} /\ DOMAIN s2.data_bitmap = {} /\ DOMAIN s2.data = {}
        /\ DOMAIN s2.inodes = {d} /\ s2.inodes[d] = parent
    BY <1>4, InodePlaces
  <2>2. img.inodes[d] \in Inode
    BY <1>1, <1>2 DEF InodesHeld
  <2>3. /\ parent \in Inode
        /\ parent.type = img.inodes[d].type /\ parent.size = img.inodes[d].size
        /\ parent.block_nums = img.inodes[d].block_nums
        /\ parent.blocks = img.inodes[d].blocks
    BY <1>4, <2>2 DEF Inode
  <2>. QED BY <2>1, <2>3 DEF Sparing
<1>7. Sparing(img, R \ {x}, x, s3) /\ bits[x] = 0 /\ DOMAIN bits = Inums /\ s3.inode_bitmap = bits
  <2>1. DOMAIN img.inode_bitmap = Inums
    BY DEF Shaped
  <2>2. /\ DOMAIN bits = Inums /\ bits[x] = 0
        /\ \A n \in Inums : n # x => bits[n] = img.inode_bitmap[n]
    BY <1>2, <1>4, <2>1
  <2>3. /\ DOMAIN s3.data_bitmap = {} /\ DOMAIN s3.inodes = {} /\ DOMAIN s3.data = {}
        /\ s3.inode_bitmap = bits
    BY <1>4, UsePlaces
  <2>. QED BY <2>2, <2>3 DEF Sparing
<1>8. Sparing(img, R \ {x}, x, s4)
  <2>1. /\ DOMAIN s4.inode_bitmap = {} /\ DOMAIN s4.inodes = {} /\ DOMAIN s4.data = {}
        /\ s4.data_bitmap = marks
    BY <1>4, MarkPlaces
  <2>2. ASSUME NEW n \in R \ {x}, NEW j \in BlockIndices, Pointer(img.inodes, n, j) \in DOMAIN marks
        PROVE  marks[Pointer(img.inodes, n, j)] = 1
    <3>1. PICK p : p = Pointer(img.inodes, n, j)
      OBVIOUS
    <3>2. p \in Blocks /\ p # -1
      BY <1>4, <2>2, <3>1 DEF decomission_blocks, Blocks
    <3>3. img.data_bitmap[p] = 1
      BY <1>1, <3>1, <3>2 DEF BlocksHeld
    <3>4. \A k \in BlockIndices : img.inodes[x].blocks[k] # p
      BY <1>1, <1>2, <3>1, <3>2 DEF BlocksHeld, Pointer
    <3>. QED BY <1>4, <3>1, <3>2, <3>3, <3>4 DEF decomission_blocks
  <2>. QED BY <2>1, <2>2 DEF Sparing
<1>9. Sparing(img, R \ {x}, x, s5)
  <2>1. /\ DOMAIN s5.inode_bitmap = {} /\ DOMAIN s5.data_bitmap = {} /\ DOMAIN s5.data = {}
        /\ DOMAIN s5.inodes = {x} /\ s5.inodes[x] = gone
    BY <1>4, InodePlaces
  <2>. QED BY <2>1 DEF Sparing
<1>10. ASSUME NEW k \in 2 .. Len(ws) PROVE Sparing(img, R \ {x}, x, ws[k])
  BY <1>5, <1>6, <1>7, <1>8, <1>9 DEF Five
<1>11. Freed(img, x, Tail(ws))
  <2>1. PICK S : ws \in Seq(S)
    BY <1>5
  <2>2. Len(ws) = 5 /\ ws # << >>
    BY <1>5 DEF Five
  <2>3. /\ Len(Tail(ws)) = Len(ws) - 1
        /\ \A k \in 1 .. Len(ws) - 1 : Tail(ws)[k] = ws[k + 1]
    BY <2>1, <2>2, RestOfWrites
  <2>4. PICK rest : rest = Tail(ws)
    OBVIOUS
  <2>5. Len(rest) = 4 /\ rest[1] = s2 /\ rest[2] = s3 /\ rest[3] = s4 /\ rest[4] = s5
    BY <1>5, <2>3, <2>4 DEF Five
  <2>6. /\ DOMAIN s2.inode_bitmap = {} /\ DOMAIN s4.inode_bitmap = {}
        /\ DOMAIN s5.inode_bitmap = {}
    <3>1. s2.inode_bitmap = Nowhere /\ s5.inode_bitmap = Nowhere
      BY <1>4, StoreInodes
    <3>2. s4.inode_bitmap = Nowhere
      BY <1>4, StoreBits
    <3>. QED BY <3>1, <3>2, NowherePlaces
  <2>7. \A k \in 1 .. Len(rest) : k = 1 \/ k = 2 \/ k = 3 \/ k = 4
    BY <2>5
  <2>8. \A k \in 1 .. Len(rest) : x \in DOMAIN rest[k].inode_bitmap => rest[k].inode_bitmap[x] = 0
    BY <1>7, <2>5, <2>6, <2>7
  <2>9. 2 \in 1 .. Len(rest) /\ x \in DOMAIN rest[2].inode_bitmap
    BY <1>2, <1>7, <2>5
  <2>10. Freed(img, x, rest)
    BY <2>8, <2>9 DEF Freed
  <2>. QED BY <2>4, <2>10
<1>12. Len(ws) > 0 /\ ws[1] = s1
  BY <1>5 DEF Five
<1>. QED BY <1>3, <1>4, <1>10, <1>11, <1>12 DEF Unlinking

LEMMA TakenBitmap ==
  ASSUME NEW bits, bits = [a \in Blocks |-> bits[a]], NEW b \in Blocks
  PROVE  /\ DOMAIN Occupied(bits, b) = Blocks
         /\ \A a \in Blocks : Occupied(bits, b)[a] = IF a = b THEN 1 ELSE bits[a]
         /\ bits[b] = 1 => Occupied(bits, b) = bits
<1>1. PICK taken : taken = Occupied(bits, b)
  OBVIOUS
<1>2. /\ taken = [a \in Blocks |-> IF a = b THEN 1 ELSE bits[a]]
  BY <1>1 DEF Occupied
<1>3. DOMAIN taken = Blocks /\ \A a \in Blocks : taken[a] = IF a = b THEN 1 ELSE bits[a]
  BY <1>2
<1>4. ASSUME bits[b] = 1 PROVE taken = bits
  <2>1. \A a \in Blocks : taken[a] = bits[a]
    BY <1>3, <1>4
  <2>2. taken = [a \in Blocks |-> taken[a]]
    BY <1>2
  <2>. QED BY <2>1, <2>2
<1>. QED BY <1>1, <1>3, <1>4

LEMMA CreatBlocks ==
  ASSUME NEW img, Shaped(img), NEW R, Orderly(img, R), NEW d \in DirsIn(img, R),
         NEW t \in TypeArgs, HasInodeIn(img, d),
         NEW b, b = EntryBlockIn(img, d), b # -1,
         NEW own, own = OwnBlockIn(img, d, t), t = MFS_DIRECTORY => own # -1
  PROVE  /\ b \in Blocks /\ SlotForEntry(img.inodes[d]) \in Slots
         /\ own \in IF t = MFS_DIRECTORY THEN Blocks \ {b} ELSE {-1}
         /\ IF BlockNeeded(img.inodes[d]) THEN FreeOf(img, R, b) ELSE b = LastBlock(img.inodes[d])
         /\ t = MFS_DIRECTORY => FreeOf(img, R, own)
         /\ TakenForEntry(img.inodes[d], img.data_bitmap) = Occupied(img.data_bitmap, b)
<1>1. PICK dir, bits, taken : /\ dir = img.inodes[d] /\ bits = img.data_bitmap
                              /\ taken = TakenForEntry(dir, bits)
  OBVIOUS
<1>2. dir \in Inode /\ DirTable(dir) /\ d \in R
  BY <1>1 DEF Orderly, InodesHeld, DirsIn
<1>3. dir.size # MFS_INODE_BLOCKS_SIZE * DirEntsPerBlock
  BY <1>1 DEF HasInodeIn
<1>4. /\ ~BlockNeeded(dir) => dir.block_nums - 1 \in BlockIndices /\ LastBlock(dir) \in Blocks
      /\ SlotForEntry(dir) \in Slots
  BY <1>2, <1>3, NextPlace
<1>5. bits = [a \in Blocks |-> bits[a]]
  BY <1>1 DEF Shaped
<1>6. BlockNeeded(dir) => /\ b = next_available(bits, Blocks) /\ b \in Blocks /\ bits[b] = 0
                          /\ FreeOf(img, R, b)
  <2>1. SUFFICES ASSUME BlockNeeded(dir)
                 PROVE  /\ b = next_available(bits, Blocks) /\ b \in Blocks /\ bits[b] = 0
                        /\ FreeOf(img, R, b)
    OBVIOUS
  <2>2. b = next_available(bits, Blocks)
    BY <1>1, <2>1 DEF EntryBlockIn, FreeBlock, next_available_block
  <2>3. b \in Blocks /\ bits[b] = 0
    BY <2>2, ImageTypes, FreeNumber
  <2>4. FreeOf(img, R, b)
    BY <1>1, <2>3, UnmarkedIsFree
  <2>. QED BY <2>2, <2>3, <2>4
<1>7. ~BlockNeeded(dir) => b = LastBlock(dir) /\ b \in Blocks /\ bits[b] = 1
  <2>1. SUFFICES ASSUME ~BlockNeeded(dir) PROVE b = LastBlock(dir) /\ b \in Blocks /\ bits[b] = 1
    OBVIOUS
  <2>2. b = LastBlock(dir) /\ b \in Blocks
    BY <1>1, <1>4, <2>1 DEF EntryBlockIn
  <2>3. PICK j \in BlockIndices : j = dir.block_nums - 1
    BY <1>4, <2>1
  <2>4. Pointer(img.inodes, d, j) = b
    BY <1>1, <2>2, <2>3 DEF Pointer, LastBlock
  <2>5. bits[b] = 1
    BY <1>1, <1>2, <2>4 DEF Orderly, BlocksHeld
  <2>. QED BY <2>2, <2>5
<1>8. b \in Blocks
  BY <1>6, <1>7
<1>9. taken = Occupied(bits, b)
  <2>1. CASE BlockNeeded(dir)
    BY <1>1, <1>6, <2>1 DEF TakenForEntry, next_available_block
  <2>2. CASE ~BlockNeeded(dir)
    <3>1. taken = bits /\ bits[b] = 1
      BY <1>1, <1>7, <2>2 DEF TakenForEntry
    <3>. QED BY <1>5, <1>8, <3>1, TakenBitmap
  <2>. QED BY <2>1, <2>2
<1>10. t = MFS_DIRECTORY => own \in Blocks /\ own # b /\ FreeOf(img, R, own)
  <2>1. SUFFICES ASSUME t = MFS_DIRECTORY PROVE own \in Blocks /\ own # b /\ FreeOf(img, R, own)
    OBVIOUS
  <2>2. own = next_available(taken, Blocks) /\ own # -1
    BY <1>1, <2>1 DEF OwnBlockIn, next_available_block
  <2>3. own \in Blocks /\ taken[own] = 0
    BY <2>2, ImageTypes, FreeNumber
  <2>4. taken[own] = IF own = b THEN 1 ELSE bits[own]
    BY <1>5, <1>8, <1>9, <2>3, TakenBitmap
  <2>5. own # b /\ bits[own] = 0
    BY <2>3, <2>4
  <2>6. FreeOf(img, R, own)
    BY <1>1, <2>3, <2>5, UnmarkedIsFree
  <2>. QED BY <2>3, <2>5, <2>6
<1>11. t # MFS_DIRECTORY => own = -1
  BY DEF OwnBlockIn
<1>. QED BY <1>1, <1>4, <1>6, <1>7, <1>8, <1>9, <1>10, <1>11

LEMMA EntryAlone ==
  ASSUME NEW b, b # -1, NEW s, NEW ent, NEW scrap
  PROVE  WithTail(StoreEntry(b, s, ent), b, s, scrap) = StoreEntry(b, s, ent)
<1>1. PICK w, at : /\ w = WithTail(StoreEntry(b, s, ent), b, s, scrap) /\ at = At(<<b, s>>, ent)
  OBVIOUS
<1>2. StoreEntry(b, s, ent) =
        [inode_bitmap |-> Nowhere, data_bitmap |-> Nowhere, inodes |-> Nowhere, data |-> at]
  BY <1>1 DEF StoreEntry, Store
<1>3. w = [StoreEntry(b, s, ent) EXCEPT !.inodes = Nowhere]
  BY <1>1 DEF WithTail
<1>. QED BY <1>1, <1>2, <1>3

LEMMA StrayApart ==
  ASSUME NEW img, NEW R, InodesHeld(img, R), NEW x \in Inums, ~SpillsOver(x),
         \A n \in StrayHits(x) : img.inode_bitmap[n] # 1, NEW scrap, NEW ent
  PROVE  Apart(Stray(x, scrap, ent), R \cup {x})
<1>1. PICK store, f : /\ store = Stray(x, scrap, ent)
                      /\ f = [n \in StrayHits(x) |->
                                IF n = x + 1 THEN [scrap[n] EXCEPT !.type = x] ELSE scrap[n]]
  OBVIOUS
<1>2. /\ store.inode_bitmap = Nowhere /\ store.data_bitmap = Nowhere
      /\ store.inodes = f /\ store.data = IF SpillsOver(x) THEN At(<<0, 0>>, ent) ELSE Nowhere
  BY <1>1, StrayFields
<1>3. store.data = Nowhere
  BY <1>2
<1>4. DOMAIN store.inodes = StrayHits(x)
  BY <1>1, <1>2
<1>5. \A n \in StrayHits(x) : n \notin R /\ n # x
  BY ImageTypes DEF StrayHits, InodesHeld
<1>. QED BY <1>1, <1>2, <1>3, <1>4, <1>5, NowherePlaces DEF Apart

LEMMA CreatBegins ==
  ASSUME NEW img, Shaped(img), NEW R, Orderly(img, R), NEW d \in DirsIn(img, R),
         NEW t \in TypeArgs, HasInodeIn(img, d), NEW name, Asked(name, t),
         \A i \in LiveIn(img, d) : NameIn(img, d, i) # name,
         NEW x, x = FreeInum(img),
         NEW b, b = EntryBlockIn(img, d), b # -1,
         NEW own, own = OwnBlockIn(img, d, t), t = MFS_DIRECTORY => own # -1,
         t = MFS_DIRECTORY => ~SpillsOver(x) /\ \A n \in StrayHits(x) : img.inode_bitmap[n] # 1,
         NEW s, s = SlotForEntry(img.inodes[d]), NEW scrap, NEW ent,
         NEW ws, ws = << StoreInodeBitmap(Occupied(img.inode_bitmap, x)),
                         StoreDataBitmap(Occupied(TakenForEntry(img.inodes[d], img.data_bitmap), own)),
                         StoreInode(d, WithEntry(img.inodes[d], b)),
                         WithTail(StoreEntry(b, s, [inum |-> x, name |-> name]), b, s, scrap),
                         StoreInode(x, NewInode(t, own)) >>
                      \o IF t = MFS_DIRECTORY THEN << Stray(x, scrap, ent) >> ELSE << >>
  PROVE  Creating(img, R, d, t, x, b, s, own, name, ws, 5)
<1>1. /\ b \in Blocks /\ SlotForEntry(img.inodes[d]) \in Slots
      /\ own \in IF t = MFS_DIRECTORY THEN Blocks \ {b} ELSE {-1}
      /\ IF BlockNeeded(img.inodes[d]) THEN FreeOf(img, R, b) ELSE b = LastBlock(img.inodes[d])
      /\ t = MFS_DIRECTORY => FreeOf(img, R, own)
      /\ TakenForEntry(img.inodes[d], img.data_bitmap) = Occupied(img.data_bitmap, b)
  BY CreatBlocks
<1>2. InodesHeld(img, R)
  BY DEF Orderly
<1>3. x \in Inums /\ x \notin R
  <2>1. PICK bits : bits = img.inode_bitmap
    OBVIOUS
  <2>2. x # -1 /\ x = next_available(bits, Inums)
    BY <2>1 DEF HasInodeIn, FreeInum, next_available_inode
  <2>3. Inums \subseteq Nat
    BY ImageTypes
  <2>4. x \in Inums /\ bits[x] = 0
    BY ONLY <2>2, <2>3, FreeNumber
  <2>. QED BY <1>2, <2>1, <2>4 DEF InodesHeld
<1>4. PICK w1, w2, w3, w4, w5, w6 :
        /\ w1 = StoreInodeBitmap(Occupied(img.inode_bitmap, x))
        /\ w2 = StoreDataBitmap(Occupied(Occupied(img.data_bitmap, b), own))
        /\ w3 = StoreInode(d, WithEntry(img.inodes[d], b))
        /\ w4 = StoreEntry(b, s, [inum |-> x, name |-> name])
        /\ w5 = StoreInode(x, NewInode(t, own)) /\ w6 = Stray(x, scrap, ent)
  OBVIOUS
<1>5. WithTail(StoreEntry(b, s, [inum |-> x, name |-> name]), b, s, scrap) = w4
  BY <1>4, EntryAlone
<1>6. ws = << w1, w2, w3, w4, w5 >> \o IF t = MFS_DIRECTORY THEN << w6 >> ELSE << >>
  BY <1>1, <1>4, <1>5, Zenon
<1>7. /\ Len(ws) = 5 + Late(t)
      /\ ws[1] = w1 /\ ws[2] = w2 /\ ws[3] = w3 /\ ws[4] = w4 /\ ws[5] = w5
      /\ t = MFS_DIRECTORY => ws[6] = w6
  <2>1. CASE t = MFS_DIRECTORY
    <3>1. ws = << w1, w2, w3, w4, w5 >> \o << w6 >>
      BY <1>6, <2>1
    <3>2. Six(ws, w1, w2, w3, w4, w5, w6)
      BY <3>1, SixWrites
    <3>. QED BY <2>1, <3>2 DEF Six, Late
  <2>2. CASE t # MFS_DIRECTORY
    <3>1. ws = << w1, w2, w3, w4, w5 >> \o << >>
      BY <1>6, <2>2
    <3>2. ws = << w1, w2, w3, w4, w5 >>
      BY ONLY <3>1
    <3>3. Five(ws, w1, w2, w3, w4, w5)
      BY <3>2, FiveWrites
    <3>. QED BY <2>2, <3>3 DEF Five, Late
  <2>. QED BY <2>1, <2>2
<1>8. ASSUME NEW i \in 5 + 1 .. Len(ws) PROVE Apart(ws[i], R \cup {x})
  <2>1. t = MFS_DIRECTORY /\ i = 6
    BY <1>7 DEF Late
  <2>2. Apart(w6, R \cup {x})
    BY <1>2, <1>3, <1>4, <2>1, StrayApart
  <2>. QED BY <1>7, <2>1, <2>2
<1>9. /\ Due(ws, 5, 5, w1) /\ Due(ws, 5, 4, w2) /\ Due(ws, 5, 3, w3)
      /\ Due(ws, 5, 2, w4) /\ Due(ws, 5, 1, w5)
  BY <1>7 DEF Due
<1>10. CreatDue(img, R, d, t, x, b, s, own, name, ws, 5)
  BY <1>4, <1>7, <1>8, <1>9 DEF CreatDue
<1>11. img.inodes[d].size # MFS_INODE_BLOCKS_SIZE * DirEntsPerBlock
  BY DEF HasInodeIn
<1>. QED BY <1>1, <1>3, <1>10, <1>11 DEF Creating

LEMMA PictureLooks ==
  ASSUME NEW img, img.inode_bitmap = inode_bitmap, img.data_bitmap = data_bitmap,
         img.inodes = inodes, img.data = data, NEW n, NEW j, NEW name, NEW t
  PROVE  /\ WriteOK(n, j) <=> WritableIn(img, n, j)
         /\ CreatOK(n) <=> NoFileIn(img, n)
         /\ HasRoom(n) <=> HasInodeIn(img, n)
         /\ UnlinkOK(n) <=> DirIn(img, n)
         /\ Found(n, name) = FoundIn(img, n, name)
         /\ EntryFor(n, name) = EntryIn(img, n, name)
         /\ LoadedFor(n, name) = LoadedIn(img, EntryIn(img, n, name).inum)
         /\ \A inode : Removable(inode) <=> RemovableIn(img, inode)
         /\ NewInum = FreeInum(img) /\ next_available_block(data_bitmap) = FreeBlock(img)
         /\ EntryBlock(inodes[n]) = EntryBlockIn(img, n)
         /\ OwnBlock(inodes[n], t) = OwnBlockIn(img, n, t)
BY DEF InumOK, Found, WriteOK, HasRoom, CreatOK, IsFile, UnlinkOK, EntryFor, LoadedFor, Loaded,
       Removable, InumIn, FoundIn, WritableIn, HasInodeIn, NoFileIn, DirIn, EntryIn, LoadedIn, RemovableIn,
       NewInum, FreeInum, FreeBlock, EntryBlock, EntryBlockIn, OwnBlock, OwnBlockIn

LEMMA WriteBegins ==
  ASSUME NEW img, img.inode_bitmap = inode_bitmap, img.data_bitmap = data_bitmap,
         img.inodes = inodes, img.data = data, NEW R, Orderly(img, R),
         NEW m \in Calls, m.inum \in R, m.message_type = "W", Writing(m), NEW ws \in Stores(m),
         NEW old, old.inodes = inodes
  PROVE  Going(old, img, R, m.inum, m, ws)
<1>1. PICK n, j, text : n = m.inum /\ j = m.block /\ text = m.buffer
  OBVIOUS
<1>2. /\ WriteOK(n, j)
      /\ inodes[n].blocks[j] # -1 \/ next_available_block(data_bitmap) # -1
  BY <1>1, Zenon DEF Writing
<1>3. ws = WriteStores(n, j, text)
  <2>1. ws = WriteStores(m.inum, m.block, m.buffer)
    BY DEF Stores
  <2>. QED BY <1>1, <2>1
<1>4. n \in R /\ j \in BlockIndices
  BY <1>1, KilledCallsAssumption, Zenon
<1>5. img.inodes[n].type # MFS_DIRECTORY
  BY <1>2 DEF WriteOK
<1>6. PICK p, b : p = Pointer(img.inodes, n, j) /\ b = FreeBlock(img)
  OBVIOUS
<1>7. p = inodes[n].blocks[j] /\ b = next_available_block(data_bitmap)
  BY <1>6 DEF Pointer, FreeBlock
<1>8. CASE p # -1
  <2>1. ws = << StoreBlock(p, text) >>
    BY <1>3, <1>7, <1>8, Zenon DEF WriteStores
  <2>2. Overwriting(img, R, n, j, text, ws)
    BY <1>4, <1>5, <1>6, <1>8, <2>1, OverwriteBegins
  <2>. QED BY <1>1, <2>2 DEF Going
<1>9. CASE p = -1
  <2>1. b # -1
    BY <1>2, <1>7, <1>9
  <2>2. ws = << StoreBlock(b, text), StoreInode(n, push_inode_update(inodes[n], j, b)),
                StoreDataBitmap(At(b, 1)) >>
    BY <1>3, <1>7, <1>9, Zenon DEF WriteStores
  <2>3. b \in Blocks /\ Extending(img, R, n, j, b, text, ws)
    BY <1>4, <1>5, <1>6, <1>9, <2>1, <2>2, ExtendBegins
  <2>4. old.inodes[n].blocks[j] = -1
    BY <1>7, <1>9
  <2>. QED BY <1>1, <2>3, <2>4 DEF Going
<1>. QED BY <1>8, <1>9

LEMMA RemovalBegins ==
  ASSUME NEW img, img.inode_bitmap = inode_bitmap, img.data_bitmap = data_bitmap,
         img.inodes = inodes, img.data = data, Shaped(img), NEW R, Orderly(img, R),
         NEW m \in Calls, m.inum \in R, m.message_type = "U", Writing(m), Strikes(m) = {},
         NEW ws \in Stores(m), NEW old
  PROVE  \E x \in R : Going(old, img, R, x, m, ws)
<1>1. PICK d, name, t : d = m.inum /\ name = m.name /\ t = m.type
  OBVIOUS
<1>2. UnlinkOK(d) /\ Found(d, name) # -1
  BY <1>1, Zenon DEF Writing
<1>3. PICK i, x : i = Found(d, name) /\ x = EntryFor(d, name).inum
  OBVIOUS
<1>4. ~(i < 2) /\ x \in Inums
  <2>1. Strikes(m) = Struck("default_entry", NotMade(d, name))
    BY <1>1, Zenon DEF Strikes
  <2>2. ~NotMade(d, name)
    BY <2>1 DEF Struck
  <2>. QED BY <1>3, <2>2 DEF NotMade
<1>5. /\ i = FoundIn(img, d, name) /\ x = EntryIn(img, d, name).inum
      /\ DirIn(img, d)
  BY <1>2, <1>3, PictureLooks
<1>6. /\ RemovableIn(img, img.inodes[x])
      /\ ws = UnlinkStores(d, name, img.inodes[x], Nowhere)
  <2>1. PICK Q, T : /\ Q = {inode \in LoadedFor(d, name) : Removable(inode)}
                    /\ T = EntriesOver(x)
    OBVIOUS
  <2>2. Stores(m) = {UnlinkStores(m.inum, m.name, unlinked, ents) :
                       unlinked \in {inode \in LoadedFor(m.inum, m.name) : Removable(inode)},
                       ents \in EntriesOver(EntryFor(m.inum, m.name).inum)}
    BY DEF Stores
  <2>3. ws \in {UnlinkStores(d, name, unlinked, ents) : unlinked \in Q, ents \in T}
    BY <1>1, <1>3, <2>1, <2>2
  <2>4. PICK unlinked \in Q : \E ents \in T : ws = UnlinkStores(d, name, unlinked, ents)
    BY <2>3, UnlinkStoresOf
  <2>5. PICK ents \in T : ws = UnlinkStores(d, name, unlinked, ents)
    BY <2>4
  <2>6. ents = Nowhere
    BY <1>4, <2>1, <2>5, InTable
  <2>7. unlinked \in LoadedIn(img, x) /\ RemovableIn(img, unlinked)
    <3>1. LoadedFor(d, name) = LoadedIn(img, x) /\ (Removable(unlinked) <=> RemovableIn(img, unlinked))
      BY <1>5, PictureLooks
    <3>. QED BY <2>1, <2>4, <3>1
  <2>8. unlinked = img.inodes[x]
    BY <1>4, <2>7 DEF LoadedIn
  <2>. QED BY <2>5, <2>6, <2>7, <2>8
<1>7. InodesHeld(img, R) /\ NamesHeld(img, R)
  BY DEF Orderly
<1>8. d \in DirsIn(img, R) /\ img.inodes[d] \in Inode
  BY <1>1, <1>5, <1>7 DEF DirIn, DirsIn, InodesHeld
<1>9. i \in Hits(img.inodes[d], name, img.data)
  <2>1. PICK inode, contents : inode = img.inodes[d] /\ contents = img.data
    OBVIOUS
  <2>2. i = search_Directory(inode, name, contents) /\ i # -1 /\ inode \in Inode
    BY <1>2, <1>3, <1>5, <1>8, <2>1 DEF FoundIn
  <2>3. i \in Hits(inode, name, contents)
    BY <2>2, SearchFinds
  <2>. QED BY <2>1, <2>3
<1>10. i \in LiveIn(img, d)
  <2>1. i \in 0 .. img.inodes[d].size - 1 /\ EntAt(img.inodes[d], i, img.data).inum >= 0
    BY <1>9 DEF Hits
  <2>2. i \in 2 .. img.inodes[d].size - 1
    BY <1>4, <1>8, <2>1 DEF Inode
  <2>. QED BY <2>1, <2>2 DEF LiveIn
<1>11. x = NamedIn(img, d, i)
  BY <1>5 DEF EntryIn, NamedIn
<1>12. x \in R
  BY <1>7, <1>8, <1>10, <1>11 DEF NamesHeld
<1>13. ws = << StoreEntry(EntBlock(img.inodes[d], i), i % DirEntsPerBlock, UnusedEnt),
               StoreInode(d, [img.inodes[d] EXCEPT !.real_size = @ - 1]),
               StoreInodeBitmap([img.inode_bitmap EXCEPT ![x] = 0]),
               StoreDataBitmap(decomission_blocks(img.inodes[x], img.data_bitmap)),
               StoreInode(x, decomission_inode(img.inodes[x])) >>
  <2>1. PICK last : last = StoreInode(x, decomission_inode(img.inodes[x]))
    OBVIOUS
  <2>2. [last EXCEPT !.data = Nowhere] = last
    <3>1. PICK at : at = At(x, decomission_inode(img.inodes[x]))
      OBVIOUS
    <3>2. last = [inode_bitmap |-> Nowhere, data_bitmap |-> Nowhere, inodes |-> at, data |-> Nowhere]
      BY <2>1, <3>1 DEF StoreInode, Store
    <3>. QED BY <3>2
  <2>. QED BY <1>3, <1>6, <2>1, <2>2, Zenon DEF UnlinkStores
<1>14. Unlinking(img, R, d, i, x, ws)
  BY <1>6, <1>8, <1>10, <1>11, <1>13, UnlinkBegins
<1>15. Going(old, img, R, x, m, ws)
  BY <1>1, <1>10, <1>14 DEF Going
<1>. QED BY <1>12, <1>15

LEMMA LiveHits ==
  ASSUME NEW img, NEW R, Orderly(img, R), NEW d \in DirsIn(img, R), NEW name
  PROVE  \A i \in LiveIn(img, d) : NameIn(img, d, i) = name <=> i \in Hits(img.inodes[d], name, img.data)
<1>1. ASSUME NEW i \in LiveIn(img, d)
      PROVE  i \in 0 .. img.inodes[d].size - 1 /\ NamedIn(img, d, i) >= 0
  <2>1. NamedIn(img, d, i) \in R /\ R \subseteq Inums /\ d \in R
    BY DEF Orderly, NamesHeld, InodesHeld, DirsIn
  <2>2. i \in 2 .. img.inodes[d].size - 1 /\ img.inodes[d].size \in Int
    BY <2>1 DEF LiveIn, Orderly, InodesHeld, Inode
  <2>3. NamedIn(img, d, i) \in Nat
    BY <2>1, ImageTypes
  <2>. QED BY <2>2, <2>3
<1>. QED BY <1>1 DEF NameIn, NamedIn, Hits

LEMMA MakingBegins ==
  ASSUME NEW img, img.inode_bitmap = inode_bitmap, img.data_bitmap = data_bitmap,
         img.inodes = inodes, img.data = data, Shaped(img), NEW R, Orderly(img, R),
         NEW m \in Calls, m.inum \in R, m.message_type = "C", Writing(m), Strikes(m) = {},
         NEW ws \in Stores(m), NEW old, old.inode_bitmap = inode_bitmap, Orderly(old, R)
  PROVE  \E x \in Inums : Going(old, img, R, x, m, ws)
<1>1. PICK d, name : d = m.inum /\ name = m.name
  OBVIOUS
<1>2. PICK t \in TypeArgs : t = m.type
  BY KilledCallsAssumption
<1>3. CreatOK(d) /\ HasRoom(d)
  BY <1>1, Zenon DEF Writing
<1>4. PICK x, b, own, s : /\ x = NewInum /\ b = EntryBlock(inodes[d])
                          /\ own = OwnBlock(inodes[d], t) /\ s = SlotForEntry(inodes[d])
  OBVIOUS
<1>5. /\ x = FreeInum(img) /\ b = EntryBlockIn(img, d) /\ own = OwnBlockIn(img, d, t)
      /\ NoFileIn(img, d) /\ HasInodeIn(img, d)
  BY <1>3, <1>4, PictureLooks
<1>6. /\ b # -1
      /\ t = MFS_DIRECTORY => own # -1
      /\ t = MFS_DIRECTORY => ~SpillsOver(x) /\ \A n \in StrayHits(x) : img.inode_bitmap[n] # 1
  <2>1. Strikes(m) =
          Struck("no_block", b = -1 \/ (t = MFS_DIRECTORY /\ own = -1))
          \cup Struck("stray_write",
                 t = MFS_DIRECTORY /\ (SpillsOver(x) \/ \E n \in StrayHits(x) : inode_bitmap[n] = 1))
    BY <1>1, <1>2, <1>4, Zenon DEF Strikes
  <2>2. /\ ~(b = -1 \/ (t = MFS_DIRECTORY /\ own = -1))
        /\ ~(t = MFS_DIRECTORY /\ (SpillsOver(x) \/ \E n \in StrayHits(x) : inode_bitmap[n] = 1))
    BY <2>1 DEF Struck
  <2>. QED BY <2>2
<1>7. d \in DirsIn(img, R)
  <2>1. img.inodes[d].type \in TypeArgs /\ img.inodes[d].type # MFS_REGULAR_FILE /\ d \in R
    BY <1>1, <1>5 DEF NoFileIn, Orderly, InodesHeld
  <2>. QED BY <2>1 DEF TypeArgs, DirsIn
<1>8. \E scrap \in [Inums -> ScrapInodes],
         ent \in IF SpillsOver(NewInum) THEN SpilledEnts(NewInum) ELSE {ZeroEnt} :
        ws = CreatStores(m.inum, m.type, m.name, scrap, ent)
  <2>1. Stores(m) = {CreatStores(m.inum, m.type, m.name, scrap, ent) :
                       scrap \in [Inums -> ScrapInodes],
                       ent \in IF SpillsOver(NewInum) THEN SpilledEnts(NewInum) ELSE {ZeroEnt}}
    BY DEF Stores
  <2>. QED BY <2>1, CreatStoresOf
<1>9. PICK scrap, ent : ws = CreatStores(d, t, name, scrap, ent)
  BY <1>1, <1>2, <1>8, Zenon
<1>10. ws = << StoreInodeBitmap(Occupied(img.inode_bitmap, x)),
               StoreDataBitmap(Occupied(TakenForEntry(img.inodes[d], img.data_bitmap), own)),
               StoreInode(d, WithEntry(img.inodes[d], b)),
               WithTail(StoreEntry(b, s, [inum |-> x, name |-> name]), b, s, scrap),
               StoreInode(x, NewInode(t, own)) >>
            \o IF t = MFS_DIRECTORY THEN << Stray(x, scrap, ent) >> ELSE << >>
  BY <1>4, <1>9, Zenon DEF CreatStores
<1>11. s = SlotForEntry(img.inodes[d])
  BY <1>4
<1>12. Asked(name, t)
  BY <1>1, <1>2 DEF Asked
<1>13. Hits(img.inodes[d], name, img.data) = {}
  <2>1. PICK inode, contents : inode = img.inodes[d] /\ contents = img.data
    OBVIOUS
  <2>2. Found(d, name) = -1
    BY <1>1, Zenon DEF Writing
  <2>3. search_Directory(inode, name, contents) = -1 /\ inode \in Inode
    BY <1>7, <2>1, <2>2 DEF Found, DirsIn, Orderly, InodesHeld
  <2>4. Hits(inode, name, contents) = {}
    BY <2>3, SearchFinds
  <2>. QED BY <2>1, <2>4
<1>14. \A i \in LiveIn(img, d) : NameIn(img, d, i) # name
  BY <1>7, <1>13, LiveHits
<1>15. Creating(img, R, d, t, x, b, s, own, name, ws, 5)
  BY <1>5, <1>6, <1>7, <1>10, <1>11, <1>12, <1>14, CreatBegins
<1>16. b \in Blocks /\ s \in Slots /\ own \in Pointers /\ x \in Inums
  BY <1>15 DEF Creating, Pointers
<1>17. PICK c \in 1 .. 5 : c = 5
  OBVIOUS
<1>18. x = FreeInum(old)
  BY <1>5 DEF FreeInum
<1>19. Going(old, img, R, x, m, ws)
  BY <1>1, <1>2, <1>15, <1>16, <1>17, <1>18 DEF Going
<1>. QED BY <1>16, <1>19

LEMMA BegunCallLed ==
  ASSUME NEW img, img = Snapshot, NEW R, NEW m \in Calls, Writing(m), NEW srv, CallHeld(img, R, m, srv)
  PROVE  m.inum \in R
<1>1. Changing(m)
  BY Zenon DEF Writing, Changing
<1>2. InumOK(m.inum)
  BY Zenon DEF Writing, WriteOK, CreatOK, UnlinkOK
<1>3. img.inode_bitmap[m.inum] = 1
  BY <1>2 DEF InumOK, valid_inum, Snapshot
<1>4. m # Idle
  BY KilledCallsAssumption
<1>. QED BY <1>1, <1>3, <1>4 DEF CallHeld

LEMMA BeginExplained ==
  ASSUME CrashInv, KillInv, Begin
  PROVE  KillInv'
<1>1. /\ server = "serving" /\ call # Idle /\ Writing(call)
      /\ server' = "writing" /\ writes' \in Stores(call) /\ before' = Snapshot
      /\ harm' = harm \cup Strikes(call)
      /\ UNCHANGED <<image, reply, call, parts, kills, torn>>
  BY DEF Begin
<1>2. PICK img, img2, m, old, ws, none, k :
        /\ img = Snapshot /\ img2 = Snapshot' /\ m = call /\ old = before /\ ws = writes'
        /\ none = writes /\ k = kills
  OBVIOUS
<1>3. SUFFICES ASSUME Bearing'
               PROVE  \E R \in SUBSET Inums, x \in Inums :
                        Explained(img, img2, R, x, m, ws, "writing", k)
  <2>1. /\ writes' = ws /\ kills' = k /\ k \in Nat /\ server' = "writing" /\ before' = img
        /\ call' = m /\ Snapshot' = img2
    BY <1>1, <1>2 DEF KillInv
  <2>. QED BY <1>3, <2>1, Zenon DEF KillInv
<1>4. Bearing /\ Strikes(m) = {}
  BY <1>1, <1>2, <1>3 DEF Bearing, Sound
<1>5. m \in Calls /\ m # Idle /\ Writing(m) /\ ws \in Stores(m)
  BY <1>1, <1>2 DEF CrashInv
<1>6. PICK R \in SUBSET Inums, x0 \in Inums : Explained(old, img, R, x0, m, none, server, k)
  BY <1>2, <1>4 DEF KillInv
<1>7. none = << >>
  BY <1>1, <1>2 DEF KillInv
<1>8. Settling(img, R, x0, none) /\ Lost(img, R, x0, k) /\ CallHeld(img, R, m, server)
  BY <1>5, <1>6, <1>7, ExplainedAtRest
<1>9. Settling(img, R, x0, none) /\ Lost(img, R, x0, k) /\ m.inum \in R
  BY <1>2, <1>5, <1>8, BegunCallLed
<1>10. Orderly(img, R) /\ (x0 \in R \/ img.inode_bitmap[x0] # 1)
  BY <1>7, <1>9, RestFreed
<1>11. /\ img.inode_bitmap = inode_bitmap /\ img.data_bitmap = data_bitmap
       /\ img.inodes = inodes /\ img.data = data
       /\ img2.inode_bitmap = inode_bitmap /\ img2.data_bitmap = data_bitmap
       /\ img2.inodes = inodes /\ img2.data = data
  BY <1>1, <1>2 DEF Snapshot, image
<1>12. Orderly(img2, R)
  BY <1>10, <1>11, SamePicture
<1>13. Shaped(img2)
  BY <1>2, <1>11 DEF CrashInv, Shaped
<1>14. PICK x \in Inums : Going(img, img2, R, x, m, ws)
  <2>1. CASE m.message_type = "W"
    <3>1. Going(img, img2, R, m.inum, m, ws)
      BY <1>5, <1>9, <1>11, <1>12, <2>1, WriteBegins
    <3>. QED BY <1>9, <3>1
  <2>2. CASE m.message_type = "U"
    <3>1. \E x \in R : Going(img, img2, R, x, m, ws)
      BY <1>4, <1>5, <1>9, <1>11, <1>12, <1>13, <2>2, RemovalBegins
    <3>. QED BY <3>1
  <2>3. CASE m.message_type = "C"
    BY <1>4, <1>5, <1>9, <1>10, <1>11, <1>12, <1>13, <2>3, MakingBegins
  <2>. QED BY <1>5, <2>1, <2>2, <2>3 DEF Writing
<1>15. Lost(img2, R, x, k)
  <2>1. PICK all, less : all = InUseIn(img) \ (R \cup {x0}) /\ less = InUseIn(img2) \ (R \cup {x})
    OBVIOUS
  <2>2. InUseIn(img2) = InUseIn(img) /\ InUseIn(img) \subseteq Inums
    BY <1>11 DEF InUseIn
  <2>3. less \subseteq all
    BY <1>10, <2>1, <2>2 DEF InUseIn
  <2>4. IsFiniteSet(Inums) /\ all \subseteq Inums
    BY <2>1, <2>2, SizesAssumption, FS_Interval DEF Inums
  <2>5. IsFiniteSet(all)
    BY <2>4, FS_Subset
  <2>6. Cardinality(less) \in Nat /\ Cardinality(all) \in Nat /\ Cardinality(less) <= Cardinality(all)
    BY <2>3, <2>5, FS_Subset, FS_CardinalityType
  <2>7. k \in Nat /\ Cardinality(all) <= k
    BY <1>2, <1>9, <2>1 DEF Lost, KillInv
  <2>. QED BY <2>1, <2>6, <2>7 DEF Lost
<1>16. Explained(img, img2, R, x, m, ws, "writing", k)
  BY <1>9, <1>14, <1>15 DEF Explained, CallHeld
<1>. QED BY <1>16

-----------------------------------------------------------------------------
(***************************************************************************)
(* The invariant.                                                          *)
(***************************************************************************)
LEMMA KillKeeps == CrashInv /\ KillInv /\ [CrashNext]_crashvars => KillInv'
<1>1. SUFFICES ASSUME CrashInv, KillInv, [CrashNext]_crashvars PROVE KillInv'
  OBVIOUS
<1>2. CASE Boot \/ MakePart \/ \E m \in Calls : ClientCall(m)
  <2>1. server = "writing" => call # Idle
    BY <1>1, KilledCallsAssumption DEF CrashInv, WritingInv
  <2>2. /\ UNCHANGED <<image, harm, kills>> /\ (torn => torn')
        /\ server # "writing" /\ server' # "writing" /\ writes' = writes
        /\ \/ call' = call
           \/ call' \in Calls /\ (Astray(call') => torn')
    <3>1. CASE Boot \/ MakePart
      BY <1>1, <2>1, <3>1 DEF Boot, MakePart, image, vars
    <3>2. ASSUME NEW m \in Calls, ClientCall(m)
          PROVE  /\ call = Idle /\ call' = m /\ torn' = (torn \/ Astray(m))
                 /\ UNCHANGED <<image, harm, kills, server, writes>>
      BY <3>2 DEF ClientCall, image, vars
    <3>. QED BY <1>2, <2>1, <3>1, <3>2
  <2>3. writes = << >>
    BY <1>1, <2>2 DEF KillInv
  <2>. QED BY <1>1, <2>2, <2>3, RestKept
<1>3. CASE Begin
  BY <1>1, <1>3, BeginExplained
<1>4. CASE MakeWrite
  BY <1>1, <1>4, MakeWriteExplained
<1>5. CASE Finish
  <2>1. /\ UNCHANGED <<image, harm, torn, kills>>
        /\ server' # "writing" /\ writes = << >> /\ writes' = << >>
        /\ call' = Idle \/ call' = call
    BY <1>5 DEF Finish, Delivered
  <2>. QED BY <1>1, <2>1, RestKept
<1>6. CASE AnswerOnly
  <2>1. PICK m : m = call
    OBVIOUS
  <2>2. m \in Calls /\ AnswersOnly(m)
    BY <1>1, <1>6, <2>1 DEF CrashInv, AnswerOnly, AnswersOnly
  <2>3. \E r : Answer(r)
    BY <2>2, OnlyAnswered, Zenon
  <2>4. /\ UNCHANGED <<image, harm, torn, kills>>
        /\ server # "writing" /\ server' # "writing" /\ writes' = writes
        /\ call' = Idle \/ call' = call
    BY <1>6, <2>3 DEF AnswerOnly, Delivered, Answer
  <2>5. writes = << >>
    BY <1>1, <2>4 DEF KillInv
  <2>. QED BY <1>1, <2>4, <2>5, RestKept
<1>7. CASE Kill
  BY <1>1, <1>7, KillExplained
<1>8. CASE UNCHANGED crashvars
  <2>1. /\ UNCHANGED <<inode_bitmap, data_bitmap, inodes, data, reply, harm>>
        /\ UNCHANGED <<call, server, writes, before, kills, torn>>
    BY <1>8 DEF crashvars, vars, crash
  <2>2. Snapshot' = Snapshot
    BY <2>1 DEF Snapshot
  <2>3. PICK img, b, m, ws, srv, k :
          /\ img = Snapshot /\ b = before /\ m = call /\ ws = writes /\ srv = server /\ k = kills
    OBVIOUS
  <2>4. /\ Snapshot' = img /\ before' = b /\ call' = m /\ writes' = ws /\ server' = srv
        /\ kills' = k
    BY <2>1, <2>2, <2>3
  <2>5. Bearing' <=> Bearing
    BY <2>1 DEF Bearing, Sound
  <2>6. /\ k \in Nat
        /\ srv # "writing" => ws = << >>
        /\ Bearing => \E R \in SUBSET Inums, x \in Inums : Explained(b, img, R, x, m, ws, srv, k)
    BY <1>1, <2>3, Zenon DEF KillInv
  <2>. QED BY <2>4, <2>5, <2>6, Zenon DEF KillInv
<1>. QED BY <1>1, <1>2, <1>3, <1>4, <1>5, <1>6, <1>7, <1>8 DEF CrashNext

(***************************************************************************)
(* However often the server was killed where the image bears it, and       *)
(* whatever it is doing: the image is in order for the inodes that paths   *)
(* lead to, or on its way between two writes of a handler to an image in   *)
(* order, and each kill has cost one inode at most.                        *)
(***************************************************************************)
THEOREM ImageExplained == CrashSpec => [](CrashInv /\ KillInv)
<1>1. CrashInit => CrashInv /\ KillInv
  BY CrashStarts, KillStarts
<1>2. CrashInv /\ KillInv /\ [CrashNext]_crashvars => (CrashInv /\ KillInv)'
  BY CrashKeeps, KillKeeps
<1>. QED BY <1>1, <1>2, PTL DEF CrashSpec

-----------------------------------------------------------------------------
(***************************************************************************)
(* What the next request finds.                                            *)
(***************************************************************************)
LEMMA RestOrderly ==
  ASSUME CrashInv, KillInv, AtRest
  PROVE  /\ Reached \subseteq Inums
         /\ Orderly(Snapshot, Reached)
         /\ \E x \in Inums : /\ x \in Reached \/ inode_bitmap[x] # 1
                             /\ Lost(Snapshot, Reached, x, kills)
<1>1. server # "writing" /\ Bearing
  BY DEF AtRest
<1>2. PICK R \in SUBSET Inums, x \in Inums :
        Explained(before, Snapshot, R, x, call, writes, server, kills)
  BY <1>1 DEF KillInv
<1>3. PICK img, ws : img = Snapshot /\ ws = writes
  OBVIOUS
<1>4. ws = << >> /\ Settling(img, R, x, ws) /\ Lost(img, R, x, kills)
  BY <1>1, <1>2, <1>3 DEF KillInv, Explained
<1>5. Orderly(img, R) /\ (x \in R \/ img.inode_bitmap[x] # 1)
  BY <1>4, RestFreed
<1>6. Reached = R
  BY <1>3, <1>5, ReachedIs
<1>7. img.inode_bitmap = inode_bitmap
  BY <1>3 DEF Snapshot
<1>. QED BY <1>3, <1>4, <1>5, <1>6, <1>7

LEMMA RestBlocks ==
  ASSUME CrashInv, KillInv
  PROVE  BlocksSafe
<1>1. SUFFICES ASSUME AtRest, NEW p \in PointersWithin(Reached), NEW q \in PointersWithin(Reached)
               PROVE  /\ data_bitmap[inodes[p[1]].blocks[p[2]]] = 1
                      /\ inodes[p[1]].blocks[p[2]] = inodes[q[1]].blocks[q[2]] => p = q
  BY DEF BlocksSafe
<1>2. BlocksHeld(Snapshot, Reached)
  BY <1>1, RestOrderly DEF Orderly
<1>3. PICK n, m \in Reached, j, k \in BlockIndices :
        /\ p = <<n, j>> /\ q = <<m, k>>
        /\ inodes[n].blocks[j] # -1 /\ inodes[m].blocks[k] # -1
  BY DEF PointersWithin
<1>4. /\ inodes[n].blocks[j] = Pointer(Snapshot.inodes, n, j)
      /\ inodes[m].blocks[k] = Pointer(Snapshot.inodes, m, k)
      /\ data_bitmap = Snapshot.data_bitmap
  BY DEF Pointer, Snapshot
<1>5. /\ data_bitmap[inodes[n].blocks[j]] = 1
      /\ inodes[n].blocks[j] = inodes[m].blocks[k] => n = m /\ j = k
  BY <1>2, <1>3, <1>4 DEF BlocksHeld
<1>. QED BY <1>3, <1>5

LEMMA RestNames ==
  ASSUME CrashInv, KillInv
  PROVE  NamesSafe
<1>1. SUFFICES ASSUME AtRest, NEW d \in Reached \cap Dirs, NEW e \in Reached \cap Dirs,
                      NEW i \in Live(d), NEW j \in Live(e)
               PROVE  /\ Target(d, i) \in InUse \ {0}
                      /\ Target(d, i) = Target(e, j) => d = e /\ i = j
  BY DEF NamesSafe
<1>2. PICK img : img = Snapshot
  OBVIOUS
<1>3. Orderly(img, Reached) /\ InodesHeld(img, Reached)
  BY <1>1, <1>2, RestOrderly DEF Orderly
<1>4. d \in DirsIn(img, Reached) /\ e \in DirsIn(img, Reached)
  BY <1>2 DEF Dirs, DirsIn, Snapshot
<1>5. \A c : Live(c) = LiveIn(img, c) /\ \A k : Target(c, k) = NamedIn(img, c, k)
  BY <1>2 DEF Live, LiveIn, Target, NamedIn, Snapshot
<1>6. /\ Target(d, i) \in Reached \ {0}
      /\ Target(d, i) = Target(e, j) => d = e /\ i = j
  BY <1>3, <1>4, <1>5 DEF Orderly, NamesHeld
<1>7. Reached \subseteq InUse
  BY <1>2, <1>3 DEF InodesHeld, InUse, Snapshot
<1>. QED BY <1>6, <1>7

LEMMA RestLost ==
  ASSUME CrashInv, KillInv
  PROVE  LostInodes
<1>1. SUFFICES ASSUME AtRest PROVE Cardinality(InUse \ Reached) <= kills
  BY DEF LostInodes
<1>2. PICK x \in Inums : /\ x \in Reached \/ inode_bitmap[x] # 1
                         /\ Lost(Snapshot, Reached, x, kills)
  BY <1>1, RestOrderly
<1>3. InUseIn(Snapshot) = InUse
  BY DEF InUseIn, InUse, Snapshot
<1>4. InUse \ (Reached \cup {x}) = InUse \ Reached
  BY <1>2 DEF InUse
<1>. QED BY <1>2, <1>3, <1>4 DEF Lost

(***************************************************************************)
(* After any number of kills that the image bears, a block that a path     *)
(* leads to is marked and has one owner (BlocksSafe).                      *)
(***************************************************************************)
THEOREM BlocksStaySafe == CrashSpec => []BlocksSafe
<1>1. CrashInv /\ KillInv => BlocksSafe
  BY RestBlocks
<1>. QED BY <1>1, ImageExplained, PTL

(***************************************************************************)
(* The entries that paths lead to name inodes in use, each one once, and   *)
(* never the root (NamesSafe).                                             *)
(***************************************************************************)
THEOREM NamesStaySafe == CrashSpec => []NamesSafe
<1>1. CrashInv /\ KillInv => NamesSafe
  BY RestNames
<1>. QED BY <1>1, ImageExplained, PTL

(***************************************************************************)
(* A kill costs one inode at most, and the repetition of a request that    *)
(* was cut off costs none (LostInodes).                                    *)
(***************************************************************************)
THEOREM FewInodesAreLost == CrashSpec => []LostInodes
<1>1. CrashInv /\ KillInv => LostInodes
  BY RestLost
<1>. QED BY <1>1, ImageExplained, PTL

-----------------------------------------------------------------------------
(***************************************************************************)
(* What one write leaves of the files of others.                           *)
(***************************************************************************)
LeftAlone(img, img2, n) ==
  /\ img2.inode_bitmap = img.inode_bitmap /\ img2.data_bitmap = img.data_bitmap
  /\ img2.inodes[n] = img.inodes[n] /\ img2.data = img.data

(***************************************************************************)
(* The last write of reply_Creat but the astray one finds the new inode's  *)
(* old record in place: whatever that leads to, only that inode changes.   *)
(***************************************************************************)
LEMMA LastLeaves ==
  ASSUME NEW img, NEW img2, Shaped(img), Shaped(img2), NEW R, NEW d, NEW t,
         NEW x, NEW b, NEW s, NEW own, NEW name, NEW S, NEW ws \in Seq(S), ws # << >>,
         Creating(img, R, d, t, x, b, s, own, name, ws, 1), Stored(img, img2, Head(ws)),
         NEW n \in Inums \ {x}
  PROVE  LeftAlone(img, img2, n)
<1>1. PICK made, store : made = NewInode(t, own) /\ store = StoreInode(x, made)
  OBVIOUS
<1>2. Due(ws, 1, 1, store)
  BY <1>1 DEF Creating, CreatDue
<1>3. Stored(img, img2, store)
  BY <1>2, DueNow
<1>4. /\ DOMAIN store.inode_bitmap = {} /\ DOMAIN store.data_bitmap = {} /\ DOMAIN store.data = {}
      /\ DOMAIN store.inodes = {x} /\ store.inodes[x] = made
  BY <1>1, InodePlaces
<1>5. /\ \A k \in Inums : img2.inode_bitmap[k] = img.inode_bitmap[k]
      /\ \A a \in Blocks : img2.data_bitmap[a] = img.data_bitmap[a]
      /\ \A a \in Pointers, r \in Slots : img2.data[a][r] = img.data[a][r]
      /\ img2.inodes[n] = img.inodes[n]
  BY <1>3, <1>4 DEF Stored
<1>6. img2.inode_bitmap = img.inode_bitmap
  BY <1>5 DEF Shaped
<1>7. img2.data_bitmap = img.data_bitmap
  BY <1>5 DEF Shaped
<1>8. img2.data = img.data
  BY <1>5 DEF Shaped
<1>. QED BY <1>5, <1>6, <1>7, <1>8 DEF LeftAlone

(***************************************************************************)
(* What Read found in block j of file n, it finds there still.             *)
(***************************************************************************)
HeldIn(img, img2, R, n, j) ==
  /\ n \in R /\ Pointer(img.inodes, n, j) \in Pointers
  /\ KeptIn(img, img2, n, j)

LEMMA WriteLeaves ==
  ASSUME NEW img, NEW img2, Shaped(img), NEW R \in SUBSET Inums, NEW n, NEW j \in BlockIndices,
         NEW f, NEW k, ~(n = f /\ j = k),
         NEW text, NEW S, NEW ws \in Seq(S), ws # << >>,
         \/ Overwriting(img, R, f, k, text, ws)
         \/ \E b \in Blocks : Extending(img, R, f, k, b, text, ws),
         Stored(img, img2, Head(ws)),
         Leads(img, R, R) => n \in R
  PROVE  HeldIn(img, img2, R, n, j)
<1>1. CASE Overwriting(img, R, f, k, text, ws)
  <2>1. InodesHeld(img, R) /\ n \in R
    BY <1>1, OrderLeads DEF Overwriting, Orderly
  <2>2. Pointer(img.inodes, n, j) \in Pointers
    BY <2>1, HeldPointers
  <2>3. \A m \in R, i \in BlockIndices : ~(m = f /\ i = k) => KeptIn(img, img2, m, i)
    BY <1>1, OverwriteKeeps
  <2>. QED BY <2>1, <2>2, <2>3 DEF HeldIn
<1>2. ASSUME NEW b \in Blocks, Extending(img, R, f, k, b, text, ws)
      PROVE  HeldIn(img, img2, R, n, j)
  <2>1. \/ Orderly(img, R)
        \/ Orderly(Marked(img, b), R)
    <3>1. /\ Len(ws) \in 1 .. 3
          /\ Len(ws) > 1 => Orderly(img, R)
          /\ Len(ws) = 1 => Orderly(Marked(img, b), R)
      BY <1>2 DEF Extending
    <3>. QED BY <3>1
  <2>2. PICK mid : mid.inodes = img.inodes /\ mid.data = img.data /\ Orderly(mid, R)
    BY <2>1, MarkedIs
  <2>3. Leads(mid, R, R) /\ InodesHeld(mid, R)
    BY <2>2, OrderLeads DEF Orderly
  <2>4. Leads(img, R, R)
    <3>1. DirsIn(mid, R) = DirsIn(img, R)
      BY <2>2 DEF DirsIn
    <3>2. \A e : LiveIn(mid, e) = LiveIn(img, e)
      BY <2>2 DEF LiveIn
    <3>3. \A e, i : NamedIn(mid, e, i) = NamedIn(img, e, i)
      BY <2>2 DEF NamedIn
    <3>. QED BY <2>3, <3>1, <3>2, <3>3 DEF Leads
  <2>5. n \in R
    BY <2>4
  <2>6. Pointer(img.inodes, n, j) \in Pointers
    BY <2>2, <2>3, <2>5, HeldPointers
  <2>7. \A m \in R, i \in BlockIndices : ~(m = f /\ i = k) => KeptIn(img, img2, m, i)
    BY <1>2, ExtendKeeps
  <2>. QED BY <2>5, <2>6, <2>7 DEF HeldIn
<1>. QED BY <1>1, <1>2

LEMMA CreatLeaves ==
  ASSUME NEW img, NEW img2, Shaped(img), Shaped(img2), NEW R \in SUBSET Inums,
         NEW d, NEW t \in TypeArgs, NEW x, NEW b, NEW s, NEW own, NEW name,
         NEW S, NEW ws \in Seq(S), ws # << >>,
         NEW c \in 1 .. 5, Creating(img, R, d, t, x, b, s, own, name, ws, c),
         Stored(img, img2, Head(ws)),
         NEW n \in R, NEW j \in BlockIndices, img.inodes[n].type # MFS_DIRECTORY
  PROVE  LeftAlone(img, img2, n) \/ HeldIn(img, img2, R, n, j)
<1>1. n \in Inums \ {x}
  BY DEF Creating
<1>2. CASE c = 1
  <2>1. Creating(img, R, d, t, x, b, s, own, name, ws, 1)
    BY <1>2
  <2>2. LeftAlone(img, img2, n)
    BY <1>1, <2>1, LastLeaves
  <2>. QED BY <2>2
<1>3. ASSUME c # 1 PROVE HeldIn(img, img2, R, n, j)
  <2>1. b \in Blocks /\ s \in Slots /\ x \in Inums
    BY DEF Creating
  <2>2. PICK ent, made, fin : /\ ent = [inum |-> x, name |-> name] /\ made = NewInode(t, own)
                              /\ fin = Finished(img, b, s, ent, x, made)
    OBVIOUS
  <2>3. Orderly(img, R) \/ Orderly(fin, R \cup {x})
    <3>1. c = 2 \/ c >= 3
      BY <1>3
    <3>2. CASE c = 2
      BY <2>2, <3>2 DEF Creating
    <3>3. CASE c >= 3
      BY <3>3 DEF Creating
    <3>. QED BY <3>1, <3>2, <3>3
  <2>4. KeptIn(img, img2, n, j)
    <3>1. \A m \in Inums \ {x}, i \in BlockIndices :
            m \in R \ DirsIn(img, R) => KeptIn(img, img2, m, i)
      BY CreatKeeps
    <3>2. n \notin DirsIn(img, R)
      BY DEF DirsIn
    <3>. QED BY <1>1, <3>1, <3>2
  <2>5. Pointer(img.inodes, n, j) \in Pointers
    <3>1. CASE Orderly(img, R)
      <4>1. InodesHeld(img, R)
        BY <3>1 DEF Orderly
      <4>. QED BY <4>1, HeldPointers
    <3>2. CASE Orderly(fin, R \cup {x})
      <4>1. InodesHeld(fin, R \cup {x}) /\ n \in R \cup {x}
        BY <3>2 DEF Orderly
      <4>2. Pointer(fin.inodes, n, j) \in Pointers
        BY <4>1, HeldPointers
      <4>3. Finishes(img, b, s, ent, x, made, fin)
        BY <2>1, <2>2, FinishedIs
      <4>4. fin.inodes[n] = img.inodes[n]
        BY <1>1, <4>3 DEF Finishes
      <4>. QED BY <4>2, <4>4 DEF Pointer
    <3>. QED BY <2>3, <3>1, <3>2
  <2>. QED BY <2>4, <2>5 DEF HeldIn
<1>. QED BY <1>2, <1>3

LEMMA StageLeaves ==
  ASSUME NEW old, NEW img, NEW img2, Shaped(img), Shaped(img2), NEW R \in SUBSET Inums,
         NEW x \in Inums, NEW m \in Calls, NEW S, NEW ws \in Seq(S), ws # << >>,
         Stage(old, img, R, x, m, ws), Stored(img, img2, Head(ws)),
         NEW n \in Inums, NEW j \in BlockIndices,
         img.inodes[n].type # MFS_DIRECTORY,
         Leads(img, R, R) \/ Orderly(old, R) => n \in R,
         ~(m.message_type = "W" /\ m.inum = n /\ m.block = j)
  PROVE  LeftAlone(img, img2, n) \/ HeldIn(img, img2, R, n, j)
<1>1. CASE Settling(img, R, x, ws)
  <2>1. InodesHeld(img, R) /\ n \in R
    BY <1>1, OrderLeads DEF Settling, Orderly
  <2>2. Pointer(img.inodes, n, j) \in Pointers
    BY <2>1, HeldPointers
  <2>3. \A k \in R, i \in BlockIndices : KeptIn(img, img2, k, i)
    BY <1>1, SettlingKeeps
  <2>. QED BY <2>1, <2>2, <2>3 DEF HeldIn
<1>2. ASSUME NEW i \in LiveIn(img, m.inum), Unlinking(img, R, m.inum, i, x, ws)
      PROVE  HeldIn(img, img2, R, n, j)
  <2>1. PICK d : d = m.inum
    OBVIOUS
  <2>2. Unlinking(img, R, d, i, x, ws)
    BY <1>2, <2>1
  <2>3. Orderly(img, R)
    BY <2>2 DEF Unlinking
  <2>4. InodesHeld(img, R) /\ n \in R
    BY <2>3, OrderLeads DEF Orderly
  <2>5. Pointer(img.inodes, n, j) \in Pointers
    BY <2>4, HeldPointers
  <2>6. \A k \in R \ DirsIn(img, R), q \in BlockIndices : KeptIn(img, img2, k, q)
    BY <2>2, UnlinkKeeps
  <2>7. n \notin DirsIn(img, R)
    BY DEF DirsIn
  <2>. QED BY <2>4, <2>5, <2>6, <2>7 DEF HeldIn
<1>3. ASSUME m.message_type = "W",
             \/ Overwriting(img, R, m.inum, m.block, m.buffer, ws)
             \/ \E b \in Blocks : Extending(img, R, m.inum, m.block, b, m.buffer, ws)
      PROVE  HeldIn(img, img2, R, n, j)
  <2>1. PICK f, k, text : f = m.inum /\ k = m.block /\ text = m.buffer
    OBVIOUS
  <2>2. /\ ~(n = f /\ j = k)
        /\ \/ Overwriting(img, R, f, k, text, ws)
           \/ \E b \in Blocks : Extending(img, R, f, k, b, text, ws)
    BY <1>3, <2>1, Zenon
  <2>. QED BY <2>2, WriteLeaves
<1>4. ASSUME m.message_type = "C", Orderly(old, R),
             NEW b \in Blocks, NEW s \in Slots, NEW own \in Pointers, NEW c \in 1 .. 5,
             Creating(img, R, m.inum, m.type, x, b, s, own, m.name, ws, c)
      PROVE  LeftAlone(img, img2, n) \/ HeldIn(img, img2, R, n, j)
  <2>1. PICK d, name : d = m.inum /\ name = m.name
    OBVIOUS
  <2>2. PICK t \in TypeArgs : t = m.type
    BY KilledCallsAssumption
  <2>3. Creating(img, R, d, t, x, b, s, own, name, ws, c)
    BY <1>4, <2>1, <2>2
  <2>4. n \in R
    BY <1>4
  <2>. QED BY <2>3, <2>4, CreatLeaves
<1>5. CASE Going(old, img, R, x, m, ws)
  BY <1>2, <1>3, <1>4, <1>5 DEF Going
<1>. QED BY <1>1, <1>5 DEF Stage

LEMMA MarkedBlock ==
  ASSUME NEW inode, NEW j \in BlockIndices, NEW bitmap,
         inode.blocks[j] \in Blocks, bitmap[inode.blocks[j]] = 1
  PROVE  valid_block(inode, j, bitmap) # -1
BY SizesAssumption DEF valid_block, BlockIndices, Blocks

LEMMA ReadThere ==
  ASSUME NEW img, img = Snapshot, NEW img2, img2 = Snapshot', Shaped(img), Shaped(img2),
         NEW R, NEW n \in Inums, NEW j \in BlockIndices, Readable(n, j),
         LeftAlone(img, img2, n) \/ HeldIn(img, img2, R, n, j)
  PROVE  Kept(n, j)
<1>1. /\ img.inode_bitmap = inode_bitmap /\ img.data_bitmap = data_bitmap
      /\ img.inodes = inodes /\ img.data = data
      /\ img2.inode_bitmap = inode_bitmap' /\ img2.data_bitmap = data_bitmap'
      /\ img2.inodes = inodes' /\ img2.data = data'
  BY DEF Snapshot
<1>2. /\ inode_bitmap[n] = 1 /\ inodes[n].type # MFS_DIRECTORY
      /\ valid_block(inodes[n], j, data_bitmap) # -1
  BY DEF Readable, Dirs, InUse, BlockOK
<1>3. SUFFICES /\ inode_bitmap'[n] = 1 /\ inodes'[n].type # MFS_DIRECTORY
               /\ valid_block(inodes'[n], j, data_bitmap') # -1
               /\ data'[inodes'[n].blocks[j]] = data[inodes[n].blocks[j]]
  BY DEF Kept, Readable, Dirs, InUse, BlockOK
<1>4. CASE LeftAlone(img, img2, n)
  BY <1>1, <1>2, <1>4 DEF LeftAlone
<1>5. CASE HeldIn(img, img2, R, n, j)
  <2>1. PICK p : p = Pointer(img.inodes, n, j)
    OBVIOUS
  <2>2. p = inodes[n].blocks[j] /\ p \in Pointers
    BY <1>1, <1>5, <2>1 DEF HeldIn, Pointer
  <2>3. p # -1 /\ data_bitmap[p] = 1
    BY <1>2, <2>2 DEF valid_block
  <2>4. p \in Blocks
    BY <2>2, <2>3 DEF Pointers
  <2>5. /\ img2.inode_bitmap[n] = img.inode_bitmap[n]
        /\ img2.inodes[n].type = img.inodes[n].type
        /\ Pointer(img2.inodes, n, j) = p
        /\ img2.data_bitmap[p] = 1
        /\ \A s \in Slots : img2.data[p][s] = img.data[p][s]
    BY <1>1, <1>5, <2>1, <2>3, <2>4 DEF HeldIn, KeptIn
  <2>6. inodes'[n].blocks[j] = p
    BY <1>1, <2>5 DEF Pointer
  <2>7. valid_block(inodes'[n], j, data_bitmap') # -1
    <3>1. PICK inode, bitmap : inode = img2.inodes[n] /\ bitmap = img2.data_bitmap
      OBVIOUS
    <3>2. valid_block(inode, j, bitmap) # -1
      BY <2>4, <2>5, <3>1, MarkedBlock DEF Pointer
    <3>. QED BY <1>1, <3>1, <3>2
  <2>8. data'[p] = data[p]
    <3>1. img.data[p] = [s \in Slots |-> img.data[p][s]]
      BY <2>2 DEF Shaped
    <3>2. img2.data[p] = [s \in Slots |-> img2.data[p][s]]
      BY <2>2 DEF Shaped
    <3>3. img2.data[p] = img.data[p]
      BY ONLY <2>5, <3>1, <3>2
    <3>. QED BY <1>1, <3>3
  <2>. QED BY <1>1, <1>2, <2>2, <2>5, <2>6, <2>7, <2>8
<1>. QED BY <1>4, <1>5

LEMMA SameRead ==
  ASSUME UNCHANGED image, NEW n, NEW j, Readable(n, j)
  PROVE  Kept(n, j)
<1>1. /\ inode_bitmap' = inode_bitmap /\ data_bitmap' = data_bitmap
      /\ inodes' = inodes /\ data' = data
  BY DEF image
<1>2. Readable(n, j)'
  BY <1>1 DEF Readable, Dirs, InUse, BlockOK
<1>. QED BY <1>1, <1>2 DEF Kept

OthersStay == \A n \in Reached \cap ReachedBefore, j \in BlockIndices :
                Readable(n, j) /\ ~Concerned(n, j) /\ Bearing' => Kept(n, j)

LEMMA MakeWriteLeaves ==
  ASSUME CrashInv, KillInv, MakeWrite
  PROVE  OthersStay
<1>1. SUFFICES ASSUME NEW n \in Reached \cap ReachedBefore, NEW j \in BlockIndices,
                      Readable(n, j), ~Concerned(n, j), Bearing'
               PROVE  Kept(n, j)
  BY DEF OthersStay
<1>2. /\ server = "writing" /\ writes # << >> /\ harm' = harm /\ torn' = torn
  BY DEF MakeWrite
<1>3. Bearing
  BY <1>1, <1>2 DEF Bearing, Sound
<1>4. call \in Calls /\ \E S : writes \in Seq(S)
  BY <1>2 DEF CrashInv, WritingInv
<1>5. PICK old, m, ws, k : old = before /\ m = call /\ ws = writes /\ k = kills
  OBVIOUS
<1>6. PICK img, img2 : img = Snapshot /\ img2 = Snapshot'
  OBVIOUS
<1>7. Shaped(img) /\ Shaped(img2) /\ Stored(img, img2, Head(ws))
  BY <1>5, <1>6, WriteStored
<1>8. PICK R \in SUBSET Inums, x \in Inums : Explained(old, img, R, x, m, ws, "writing", k)
  BY <1>2, <1>3, <1>5, <1>6, Zenon DEF KillInv
<1>9. Stage(old, img, R, x, m, ws)
  BY <1>8 DEF Explained, Stage
<1>10. Leads(img, R, R) \/ Orderly(old, R) => n \in R
  <2>1. CASE Leads(img, R, R)
    BY <1>1, <1>6, <2>1, ReachedWithin
  <2>2. CASE Orderly(old, R)
    <3>1. Leads(old, R, R)
      BY <2>2, OrderLeads
    <3>. QED BY <1>1, <1>2, <1>5, <3>1, ReachedBeforeWithin
  <2>. QED BY <2>1, <2>2
<1>11. n \in Inums /\ img.inodes[n].type # MFS_DIRECTORY
  <2>1. n \in InUse \ Dirs
    BY <1>1 DEF Readable
  <2>2. n \in Inums /\ inodes[n].type # MFS_DIRECTORY
    BY <2>1 DEF InUse, Dirs
  <2>. QED BY <1>6, <2>2 DEF Snapshot
<1>12. ~(m.message_type = "W" /\ m.inum = n /\ m.block = j)
  BY <1>1, <1>2, <1>5, Zenon DEF Concerned
<1>13. PICK S : ws \in Seq(S)
  BY <1>4, <1>5
<1>14. m \in Calls /\ ws # << >>
  BY <1>2, <1>4, <1>5
<1>15. LeftAlone(img, img2, n) \/ HeldIn(img, img2, R, n, j)
  BY <1>7, <1>9, <1>10, <1>11, <1>12, <1>13, <1>14, StageLeaves
<1>. QED BY <1>1, <1>6, <1>7, <1>11, <1>15, ReadThere

LEMMA StepLeaves ==
  ASSUME CrashInv, KillInv, [CrashNext]_crashvars
  PROVE  [OthersStay]_crashvars
<1>1. ASSUME UNCHANGED image PROVE OthersStay
  BY <1>1, SameRead DEF OthersStay
<1>2. CASE MakeWrite
  BY <1>2, MakeWriteLeaves
<1>3. CASE AnswerOnly
  <2>1. PICK m : m = call
    OBVIOUS
  <2>2. m \in Calls /\ AnswersOnly(m)
    BY <1>3, <2>1 DEF CrashInv, AnswerOnly, AnswersOnly
  <2>3. \E r : Answer(r)
    BY <2>2, OnlyAnswered, Zenon
  <2>4. UNCHANGED image
    BY <2>3 DEF Answer
  <2>. QED BY <1>1, <2>4
<1>4. CASE Boot \/ MakePart \/ (\E m \in Calls : ClientCall(m)) \/ Begin \/ Finish \/ Kill
  <2>1. UNCHANGED image
    BY <1>4 DEF Boot, MakePart, ClientCall, Begin, Finish, Kill, vars, image
  <2>. QED BY <1>1, <2>1
<1>. QED BY <1>2, <1>3, <1>4 DEF CrashNext

(***************************************************************************)
(* No write, kill or repetition touches a block of a file that a path      *)
(* leads to, and led to when the request in progress began, but the one    *)
(* that this request is a Write to (OthersKept).                           *)
(***************************************************************************)
THEOREM OthersStayKept == CrashSpec => OthersKept
<1>1. CrashInv /\ KillInv /\ [CrashNext]_crashvars => [OthersStay]_crashvars
  BY StepLeaves
<1>2. [OthersStay]_crashvars =>
        [\A n \in Reached \cap ReachedBefore, j \in BlockIndices :
           Readable(n, j) /\ ~Concerned(n, j) /\ Bearing' => Kept(n, j)]_crashvars
  BY DEF OthersStay
<1>. QED BY <1>1, <1>2, ImageExplained, PTL DEF CrashSpec, OthersKept

-----------------------------------------------------------------------------
(***************************************************************************)
(* The image that the handler began with, which its outcome is told from.  *)
(***************************************************************************)
BegunInv ==
  server = "writing" /\ Bearing => \E R \in SUBSET Inums : Orderly(before, R) /\ call.inum \in R

LEMMA OrderAtRest ==
  ASSUME CrashInv, KillInv, Bearing, writes = << >>, call # Idle
  PROVE  \E R \in SUBSET Inums : Orderly(Snapshot, R) /\ CallHeld(Snapshot, R, call, server)
<1>1. PICK R \in SUBSET Inums, x \in Inums :
        Explained(before, Snapshot, R, x, call, writes, server, kills)
  BY DEF KillInv
<1>2. PICK img, m, old, ws, srv, k :
        /\ img = Snapshot /\ m = call /\ old = before /\ ws = writes /\ srv = server /\ k = kills
  OBVIOUS
<1>3. Explained(old, img, R, x, m, ws, srv, k) /\ ws = << >>
  BY <1>1, <1>2
<1>4. m \in Calls
  BY <1>2 DEF CrashInv
<1>5. Settling(img, R, x, ws) /\ CallHeld(img, R, m, srv)
  BY <1>3, <1>4, ExplainedAtRest
<1>6. Orderly(img, R)
  BY <1>3, <1>5, RestFreed
<1>. QED BY <1>2, <1>5, <1>6

LEMMA BegunKeeps == CrashInv /\ KillInv /\ BegunInv /\ [CrashNext]_crashvars => BegunInv'
<1>1. SUFFICES ASSUME CrashInv, KillInv, BegunInv, [CrashNext]_crashvars, server' = "writing", Bearing'
               PROVE  \E R \in SUBSET Inums : Orderly(before', R) /\ call'.inum \in R
  BY DEF BegunInv
<1>2. CASE Begin
  <2>1. /\ server = "serving" /\ call # Idle /\ before' = Snapshot /\ call' = call
        /\ Writing(call) /\ harm' = harm \cup Strikes(call) /\ torn' = torn
    BY <1>2 DEF Begin
  <2>2. Bearing /\ writes = << >> /\ call \in Calls
    BY <1>1, <2>1 DEF Bearing, Sound, KillInv, CrashInv
  <2>3. PICK R \in SUBSET Inums : Orderly(Snapshot, R) /\ CallHeld(Snapshot, R, call, server)
    BY <1>1, <2>1, <2>2, OrderAtRest
  <2>4. PICK img, m, srv : img = Snapshot /\ m = call /\ srv = server
    OBVIOUS
  <2>5. before' = img /\ call' = m
    BY <2>1, <2>4
  <2>6. m.inum \in R
    BY <2>1, <2>2, <2>3, <2>4, BegunCallLed
  <2>. QED BY <2>3, <2>4, <2>5, <2>6
<1>3. CASE MakeWrite \/ UNCHANGED crashvars
  <2>1. /\ server = "writing" /\ before' = before /\ call' = call /\ harm' = harm /\ torn' = torn
    BY <1>1, <1>3 DEF MakeWrite, crashvars, vars, crash
  <2>2. Bearing
    BY <1>1, <2>1 DEF Bearing, Sound
  <2>3. PICK R \in SUBSET Inums : Orderly(before, R) /\ call.inum \in R
    BY <1>1, <2>1, <2>2 DEF BegunInv
  <2>4. PICK old, m : old = before /\ m = call
    OBVIOUS
  <2>5. before' = old /\ call' = m
    BY <2>1, <2>4
  <2>. QED BY <2>3, <2>4, <2>5
<1>4. CASE Boot \/ MakePart \/ Finish \/ AnswerOnly \/ Kill \/ \E m \in Calls : ClientCall(m)
  <2>1. server = "writing" => call # Idle
    BY <1>1, KilledCallsAssumption DEF CrashInv, WritingInv
  <2>2. server' # "writing"
    BY <1>1, <1>4, <2>1 DEF Boot, MakePart, Finish, AnswerOnly, Kill, ClientCall
  <2>. QED BY <1>1, <2>2
<1>. QED BY <1>1, <1>2, <1>3, <1>4 DEF CrashNext

(***************************************************************************)
(* Done, of an image.                                                      *)
(***************************************************************************)
WrittenIn(img, m) ==
  /\ InumIn(img, m.inum) /\ BlockIn(img, m.inum, m.block)
  /\ img.data[img.inodes[m.inum].blocks[m.block]] = TextBlock(m.buffer)
CreatedIn(img, m) ==
  /\ NoFileIn(img, m.inum) /\ FoundIn(img, m.inum, m.name) # -1
  /\ FoundIn(img, m.inum, m.name) >= 2 =>
       /\ EntryIn(img, m.inum, m.name).inum \in InUseIn(img)
       /\ img.inodes[EntryIn(img, m.inum, m.name).inum].type = m.type
RemovedIn(img, m) == DirIn(img, m.inum) /\ FoundIn(img, m.inum, m.name) = -1

DoneIn(img, m) ==
  /\ m.message_type = "W" => WrittenIn(img, m)
  /\ m.message_type = "C" => CreatedIn(img, m)
  /\ m.message_type = "U" => RemovedIn(img, m)

LEMMA DoneLooks ==
  ASSUME NEW m, DoneIn(Snapshot, m)
  PROVE  Done(m)
<1>1. /\ Snapshot.inode_bitmap = inode_bitmap /\ Snapshot.data_bitmap = data_bitmap
      /\ Snapshot.inodes = inodes /\ Snapshot.data = data
  BY DEF Snapshot
<1>2. /\ InumOK(m.inum) <=> InumIn(Snapshot, m.inum)
      /\ BlockOK(m.inum, m.block) <=> BlockIn(Snapshot, m.inum, m.block)
      /\ CreatOK(m.inum) <=> NoFileIn(Snapshot, m.inum)
      /\ UnlinkOK(m.inum) <=> DirIn(Snapshot, m.inum)
      /\ Found(m.inum, m.name) = FoundIn(Snapshot, m.inum, m.name)
      /\ EntryFor(m.inum, m.name) = EntryIn(Snapshot, m.inum, m.name)
  BY ImageLooks
<1>3. InodeFor(m.inum, m.name) = Snapshot.inodes[EntryIn(Snapshot, m.inum, m.name).inum]
  BY <1>1, <1>2 DEF InodeFor
<1>4. InUseIn(Snapshot) = InUse
  BY <1>1 DEF InUseIn, InUse
<1>5. m.message_type = "W" =>
        ReadOK(m.inum, m.block) /\ data[inodes[m.inum].blocks[m.block]] = TextBlock(m.buffer)
  BY <1>1, <1>2 DEF DoneIn, WrittenIn, ReadOK
<1>6. m.message_type = "C" =>
        /\ CreatOK(m.inum) /\ Found(m.inum, m.name) # -1
        /\ Found(m.inum, m.name) >= 2 =>
             /\ EntryFor(m.inum, m.name).inum \in InUse
             /\ InodeFor(m.inum, m.name).type = m.type
  BY <1>2, <1>4, <1>3 DEF DoneIn, CreatedIn
<1>7. m.message_type = "U" => UnlinkOK(m.inum) /\ Found(m.inum, m.name) = -1
  BY <1>2 DEF DoneIn, RemovedIn
<1>. QED BY <1>5, <1>6, <1>7 DEF Done

LEMMA DoneKept ==
  ASSUME NEW m, Done(m), UNCHANGED image
  PROVE  Done(m)'
BY DEF Done, image, ReadOK, InumOK, BlockOK, CreatOK, UnlinkOK, IsFile, Found, EntryFor, InodeFor, InUse

LEMMA NumberIn ==
  ASSUME NEW img, NEW n \in Inums, img.inode_bitmap[n] = 1
  PROVE  InumIn(img, n)
BY SizesAssumption DEF InumIn, valid_inum, Inums

(***************************************************************************)
(* A name that is found in an image in order is that of what a Creat makes.*)
(***************************************************************************)
LEMMA NamedAsAsked ==
  ASSUME CreatsAgree, NEW img, NEW R \in SUBSET Inums, Orderly(img, R),
         NEW m \in Calls, m.message_type = "C", m.inum \in DirsIn(img, R),
         Hits(img.inodes[m.inum], m.name, img.data) # {}
  PROVE  CreatedIn(img, m)
<1>1. PICK d, name, t : d = m.inum /\ name = m.name /\ t = m.type
  OBVIOUS
<1>2. PICK inode, contents, i, ent :
        /\ inode = img.inodes[d] /\ contents = img.data /\ i = FoundIn(img, d, name)
        /\ ent = EntryIn(img, d, name)
  OBVIOUS
<1>3. /\ d \in R /\ d \in Inums /\ img.inode_bitmap[d] = 1 /\ inode \in Inode /\ DirTable(inode)
      /\ inode.type = MFS_DIRECTORY
  BY <1>1, <1>2 DEF Orderly, InodesHeld, DirsIn
<1>4. i # -1 /\ i \in Hits(inode, name, contents)
  <2>1. i = search_Directory(inode, name, contents) /\ Hits(inode, name, contents) # {}
    BY <1>1, <1>2 DEF FoundIn
  <2>. QED BY <1>3, <2>1, SearchFinds
<1>5. /\ i \in 0 .. inode.size - 1 /\ ent = contents[EntBlock(inode, i)][i % DirEntsPerBlock]
      /\ ent.name = name /\ ent.inum >= 0
  BY <1>2, <1>4 DEF Hits, EntryIn, EntAt
<1>6. ASSUME i >= 2
      PROVE  ent.inum \in InUseIn(img) /\ img.inodes[ent.inum].type = t
  <2>1. inode.size \in Nat
    BY <1>3 DEF Inode
  <2>2. i \in 2 .. inode.size - 1 /\ ent.inum # -1
    BY <1>5, <1>6, <2>1
  <2>3. i \in LiveIn(img, d) /\ ent.inum = NamedIn(img, d, i) /\ NameIn(img, d, i) = name
    BY <1>2, <1>5, <2>2 DEF LiveIn, NamedIn, NameIn, EntryIn
  <2>4. NamedIn(img, d, i) \in R
    BY <1>1, <2>3 DEF Orderly, NamesHeld
  <2>5. ent.inum \in InUseIn(img)
    BY <2>3, <2>4 DEF Orderly, InodesHeld, InUseIn
  <2>6. Asked(NameIn(img, d, i), img.inodes[NamedIn(img, d, i)].type)
    BY <1>1, <2>3 DEF Orderly, NamesApart
  <2>7. Asked(name, img.inodes[ent.inum].type)
    BY <2>3, <2>6
  <2>. QED BY <1>1, <2>5, <2>7 DEF Asked, CreatsAgree
<1>7. NoFileIn(img, d)
  <2>1. InumIn(img, d)
    BY <1>3, NumberIn
  <2>. QED BY <1>2, <1>3, <2>1 DEF NoFileIn, MFS_DIRECTORY, MFS_REGULAR_FILE
<1>. QED BY <1>1, <1>2, <1>4, <1>6, <1>7 DEF CreatedIn

LEMMA AnswerTells ==
  ASSUME CreatsAgree, NEW img, NEW R \in SUBSET Inums, Orderly(img, R),
         NEW m \in Calls, NEW srv, CallHeld(img, R, m, srv),
         NEW r, AnswerIn(img, m, r), r.success = 0
  PROVE  DoneIn(img, m)
<1>1. \A c : Reply(c, -1).success = -1
  BY DEF Reply
<1>2. m.message_type # "W"
  <2>1. CASE WriteAnswer(img, m, r)
    <3>1. r = Reply("W", -1)
      BY <2>1 DEF WriteAnswer
    <3>. QED BY <1>1, <3>1
  <2>2. CASE ~WriteAnswer(img, m, r)
    BY <2>2 DEF AnswerIn, StatAnswer, ReadAnswer, CreatAnswer, UnlinkAnswer
  <2>. QED BY <2>1, <2>2
<1>3. ASSUME m.message_type = "C" PROVE CreatedIn(img, m)
  <2>1. CreatAnswer(img, m, r)
    BY <1>3 DEF AnswerIn, StatAnswer, ReadAnswer, WriteAnswer, UnlinkAnswer
  <2>2. NoFileIn(img, m.inum) /\ FoundIn(img, m.inum, m.name) # -1
    <3>1. r # Reply("C", -1)
      BY <1>1
    <3>. QED BY <2>1, <3>1, Zenon DEF CreatAnswer
  <2>3. PICK d, name : d = m.inum /\ name = m.name
    OBVIOUS
  <2>4. m.inum \in R
    <3>1. img.inode_bitmap[m.inum] = 1
      BY <2>2 DEF NoFileIn, InumIn, valid_inum
    <3>2. m # Idle /\ Changing(m)
      BY <1>3, KilledCallsAssumption DEF Changing
    <3>. QED BY <3>1, <3>2 DEF CallHeld
  <2>5. img.inodes[d].type \in TypeArgs /\ img.inodes[d] \in Inode /\ d \in R
    BY <2>3, <2>4 DEF Orderly, InodesHeld
  <2>6. d \in DirsIn(img, R)
    BY <2>2, <2>3, <2>5 DEF NoFileIn, TypeArgs, DirsIn
  <2>7. Hits(img.inodes[d], name, img.data) # {}
    BY <2>2, <2>3 DEF FoundIn, search_Directory
  <2>. QED BY <1>3, <2>3, <2>6, <2>7, NamedAsAsked
<1>4. ASSUME m.message_type = "U" PROVE RemovedIn(img, m)
  <2>1. UnlinkAnswer(img, m, r)
    BY <1>4 DEF AnswerIn, StatAnswer, ReadAnswer, WriteAnswer, CreatAnswer
  <2>2. r # Reply("U", -1)
    BY <1>1
  <2>. QED BY <2>1, <2>2, Zenon DEF UnlinkAnswer, RemovedIn
<1>. QED BY <1>2, <1>3, <1>4 DEF DoneIn

LEMMA AnswerOnlyDone ==
  ASSUME CreatsAgree, CrashInv, KillInv, AnswerOnly, reply'.success = 0, Bearing',
         NEW m \in Calls, m = call
  PROVE  Done(m)'
<1>1. m # Idle /\ AnswersOnly(m) /\ server = "serving" /\ torn' = torn
  BY DEF AnswerOnly, AnswersOnly
<1>2. PICK r : Answer(r) /\ AnswerIn(Snapshot, m, r)
  BY <1>1, OnlyAnswered
<1>3. reply' = r /\ UNCHANGED image /\ harm' = harm
  BY <1>2 DEF Answer
<1>4. Bearing /\ writes = << >> /\ call # Idle
  BY <1>1, <1>3 DEF Bearing, Sound, KillInv
<1>5. PICK R \in SUBSET Inums : Orderly(Snapshot, R) /\ CallHeld(Snapshot, R, call, server)
  BY <1>4, OrderAtRest
<1>6. PICK img, srv : img = Snapshot /\ srv = server
  OBVIOUS
<1>7. Orderly(img, R) /\ CallHeld(img, R, m, srv) /\ AnswerIn(img, m, r) /\ r.success = 0
  BY <1>2, <1>3, <1>5, <1>6
<1>8. DoneIn(img, m)
  BY <1>7, AnswerTells
<1>9. Done(m)
  BY <1>6, <1>8, DoneLooks
<1>. QED BY <1>3, <1>9, DoneKept

(***************************************************************************)
(* All writes are made: the image is what the handler computed.            *)
(***************************************************************************)
SameFields(img, final) ==
  /\ img.inode_bitmap = final.inode_bitmap /\ img.data_bitmap = final.data_bitmap
  /\ img.inodes = final.inodes /\ img.data = final.data

LEMMA WrittenThere ==
  ASSUME NEW img, NEW R, Orderly(img, R), NEW m \in Calls, m.inum \in R,
         NEW p, p = img.inodes[m.inum].blocks[m.block], p # -1, img.data[p] = TextBlock(m.buffer)
  PROVE  WrittenIn(img, m)
<1>1. PICK n, j : n = m.inum /\ j = m.block
  OBVIOUS
<1>2. j \in BlockIndices
  BY <1>1, KilledCallsAssumption, Zenon
<1>3. PICK inode : inode = img.inodes[n]
  OBVIOUS
<1>4. n \in R /\ n \in Inums /\ img.inode_bitmap[n] = 1 /\ inode \in Inode
  BY <1>1, <1>3 DEF Orderly, InodesHeld
<1>5. p = inode.blocks[j] /\ p \in Blocks
  BY <1>1, <1>2, <1>3, <1>4 DEF Inode, Pointers
<1>6. img.data_bitmap[p] = 1
  <2>1. p = Pointer(img.inodes, n, j)
    BY <1>3, <1>5 DEF Pointer
  <2>. QED BY <1>2, <1>4, <2>1 DEF Orderly, BlocksHeld
<1>7. BlockIn(img, n, j)
  <2>1. PICK bits : bits = img.data_bitmap
    OBVIOUS
  <2>2. valid_block(inode, j, bits) # -1
    BY <1>2, <1>5, <1>6, <2>1, MarkedBlock
  <2>. QED BY <1>3, <2>1, <2>2 DEF BlockIn
<1>8. InumIn(img, n)
  BY <1>4, NumberIn
<1>. QED BY <1>1, <1>3, <1>5, <1>7, <1>8 DEF WrittenIn

LEMMA OverwriteDone ==
  ASSUME NEW old, Shaped(old), NEW img, NEW R, Orderly(img, R), NEW m \in Calls, m.inum \in R,
         NEW final, Overwrites(old, m, final), SameFields(img, final)
  PROVE  WrittenIn(img, m)
<1>1. PICK n, j, text, p : /\ n = m.inum /\ j = m.block /\ text = m.buffer
                           /\ p = old.inodes[n].blocks[j]
  OBVIOUS
<1>2. /\ p # -1 /\ img.inodes = old.inodes
      /\ img.data = [old.data EXCEPT ![p] = TextBlock(text)]
  BY <1>1 DEF Overwrites, Overwritten, SameFields
<1>3. p \in Pointers
  <2>1. j \in BlockIndices
    BY <1>1, KilledCallsAssumption, Zenon
  <2>2. img.inodes[n] \in Inode
    BY <1>1 DEF Orderly, InodesHeld
  <2>. QED BY <1>1, <1>2, <2>1, <2>2 DEF Inode
<1>4. img.data[p] = TextBlock(text)
  BY <1>2, <1>3 DEF Shaped
<1>. QED BY <1>1, <1>2, <1>4, WrittenThere

LEMMA ExtendDone ==
  ASSUME NEW old, Shaped(old), NEW S, Orderly(old, S),
         NEW img, NEW R, Orderly(img, R), NEW m \in Calls, m.inum \in R, m.inum \in S,
         NEW final, Extends(old, m, final), SameFields(img, final)
  PROVE  WrittenIn(img, m)
<1>1. PICK n, j, text, b, inode : /\ n = m.inum /\ j = m.block /\ text = m.buffer
                                  /\ b = FreeBlock(old) /\ inode = old.inodes[n]
  OBVIOUS
<1>2. /\ b # -1
      /\ img.inodes = [old.inodes EXCEPT ![n] = push_inode_update(inode, j, b)]
      /\ img.data = [old.data EXCEPT ![b] = TextBlock(text)]
  BY <1>1 DEF Extends, Extended, SameFields
<1>3. b \in Blocks
  BY <1>1, <1>2, ImageTypes, FreeNumber DEF FreeBlock, next_available_block
<1>4. img.data[b] = TextBlock(text)
  BY <1>2, <1>3 DEF Shaped, Pointers
<1>5. n \in Inums /\ inode \in Inode
  BY <1>1 DEF Orderly, InodesHeld
<1>6. j \in BlockIndices
  BY <1>1, KilledCallsAssumption, Zenon
<1>7. img.inodes[n] = push_inode_update(inode, j, b)
  BY <1>2, <1>5 DEF Shaped
<1>8. push_inode_update(inode, j, b).blocks[j] = b
  BY <1>3, <1>5, <1>6, PushIs
<1>9. b = img.inodes[n].blocks[j]
  BY <1>7, <1>8
<1>. QED BY <1>1, <1>2, <1>4, <1>9, WrittenThere

LEMMA UnlinkDone ==
  ASSUME NEW old, Shaped(old), NEW S, Orderly(old, S),
         NEW img, NEW R, Orderly(img, R), NEW m \in Calls, m.inum \in R, m.inum \in S,
         NEW unlinked, NEW ents, NEW final, Unlinks(old, m, unlinked, ents, final),
         SameFields(img, final), final.harm = {}
  PROVE  RemovedIn(img, m)
<1>1. PICK d, name : d = m.inum /\ name = m.name
  OBVIOUS
<1>2. PICK dir, contents, i, x : /\ dir = old.inodes[d] /\ contents = old.data
                                 /\ i = FoundIn(old, d, name) /\ x = EntryIn(old, d, name).inum
  OBVIOUS
<1>3. /\ DirIn(old, d) /\ i # -1 /\ unlinked \in LoadedIn(old, x) /\ RemovableIn(old, unlinked)
      /\ ents \in EntriesOver(x) /\ final = WithoutEntry(old, d, name, unlinked, ents)
  BY <1>1, <1>2, Zenon DEF Unlinks
<1>4. d \in S /\ d \in Inums /\ d \in DirsIn(old, S) /\ dir \in Inode /\ DirTable(dir)
  BY <1>1, <1>2, <1>3 DEF DirIn, DirsIn, Orderly, InodesHeld
<1>5. i \in Hits(dir, name, contents) /\ \A k \in Hits(dir, name, contents) : i <= k
  <2>1. i = search_Directory(dir, name, contents)
    BY <1>2 DEF FoundIn
  <2>2. i = Min(Hits(dir, name, contents)) /\ Hits(dir, name, contents) # {}
    BY <1>3, <2>1 DEF search_Directory
  <2>3. Hits(dir, name, contents) \subseteq Nat
    BY <1>4 DEF Hits, Inode
  <2>. QED BY <2>2, <2>3, MinOfNats
<1>6. i \in 0 .. dir.size - 1 /\ ~(i < 2) /\ x \in Inums
  <2>1. Struck("default_entry", NotMadeIn(old, d, name)) = {}
    BY <1>3 DEF WithoutEntry
  <2>2. ~NotMadeIn(old, d, name)
    BY <2>1 DEF Struck
  <2>. QED BY <1>2, <1>5, <2>2 DEF NotMadeIn, Hits
<1>7. unlinked = old.inodes[x] /\ ents = Nowhere
  <2>1. ents \in {Nowhere}
    BY <1>3, <1>6, InTable
  <2>. QED BY <1>3, <1>6, <2>1 DEF LoadedIn
<1>8. PICK b, s : b = EntBlock(dir, i) /\ s = i % DirEntsPerBlock
  OBVIOUS
<1>9. b \in Blocks /\ s \in Slots /\ dir.size \in Nat
  BY <1>4, <1>6, <1>8, EntryPlace DEF Inode
<1>10. /\ img.inodes = [[old.inodes EXCEPT ![d] = [dir EXCEPT !.real_size = @ - 1]]
                          EXCEPT ![x] = decomission_inode(old.inodes[x])]
       /\ img.data = [old.data EXCEPT ![b] = [@ EXCEPT ![s] = UnusedEnt]]
  <2>1. EntryRemoved(old, d, name) = [old.data EXCEPT ![b] = [@ EXCEPT ![s] = UnusedEnt]]
    BY <1>2, <1>8, Zenon DEF EntryRemoved
  <2>2. WithEntries(EntryRemoved(old, d, name), Nowhere) = EntryRemoved(old, d, name)
    <3>1. PICK contents2 : contents2 = EntryRemoved(old, d, name)
      OBVIOUS
    <3>2. contents2 = [q \in Pointers |-> [r \in Slots |-> contents2[q][r]]]
      BY <1>9, <2>1, <3>1 DEF Shaped
    <3>3. WithEntries(contents2, Nowhere) = contents2
      BY <3>2, NothingStored
    <3>. QED BY <3>1, <3>3
  <2>. QED BY <1>2, <1>3, <1>7, <2>1, <2>2, Zenon DEF SameFields, WithoutEntry
<1>11. i \in LiveIn(old, d) /\ x = NamedIn(old, d, i) /\ NameIn(old, d, i) = name
  <2>1. i \in 2 .. dir.size - 1
    BY <1>6, <1>9
  <2>2. EntAt(dir, i, contents).inum # -1 /\ EntAt(dir, i, contents).name = name
    BY <1>5 DEF Hits
  <2>. QED BY <1>2, <2>1, <2>2 DEF LiveIn, NamedIn, NameIn, EntryIn
<1>12. x \in Nat
  BY <1>4, <1>11, ImageTypes DEF Orderly, NamesHeld, InodesHeld
<1>13. x # d
  <2>1. ASSUME x = d PROVE FALSE
    <3>1. empty_Directory(dir, contents)
      BY <1>2, <1>3, <1>7, <2>1 DEF RemovableIn, DirIn
    <3>2. i \in 2 .. dir.size - 1
      BY <1>6, <1>9
    <3>3. EntAt(dir, i, contents).inum < 0
      BY <3>1, <3>2 DEF empty_Directory
    <3>. QED BY <1>2, <1>11, <1>12, <3>3 DEF NamedIn
  <2>. QED BY <2>1
<1>14. PICK after : after = img.inodes[d]
  OBVIOUS
<1>15. after.size = dir.size /\ after.blocks = dir.blocks /\ after.type = MFS_DIRECTORY
  <2>1. d \in DOMAIN old.inodes
    BY <1>4 DEF Shaped
  <2>2. after = [dir EXCEPT !.real_size = @ - 1]
    BY <1>10, <1>13, <1>14, <2>1
  <2>. QED BY <1>2, <1>3, <1>4, <2>2 DEF DirIn, Inode
<1>16. ASSUME NEW k \in Hits(after, name, img.data) PROVE FALSE
  <2>1. PICK a, r : a = EntBlock(dir, k) /\ r = k % DirEntsPerBlock
    OBVIOUS
  <2>2. k \in 0 .. dir.size - 1 /\ img.data[a][r].name = name /\ img.data[a][r].inum >= 0
    BY <1>15, <2>1 DEF Hits, EntAt, EntBlock
  <2>3. a \in Blocks /\ r \in Slots
    BY <1>4, <2>1, <2>2, EntryPlace
  <2>4. \A p \in Pointers : DOMAIN old.data[p] = Slots
    BY DEF Shaped
  <2>5. DOMAIN old.data = Pointers /\ a \in Pointers /\ b \in Pointers
    BY <1>9, <2>3 DEF Shaped, Pointers
  <2>6. ~(a = b /\ r = s)
    <3>1. ASSUME a = b, r = s PROVE FALSE
      <4>1. img.data[b] = [old.data[b] EXCEPT ![s] = UnusedEnt]
        BY <1>10, <2>5
      <4>2. img.data[b][s] = UnusedEnt
        BY <1>9, <2>4, <2>5, <4>1
      <4>. QED BY <2>2, <3>1, <4>2 DEF UnusedEnt
    <3>. QED BY <3>1
  <2>7. img.data[a][r] = contents[a][r]
    <3>1. CASE a = b
      BY <1>2, <1>10, <2>3, <2>4, <2>5, <2>6, <3>1
    <3>2. CASE a # b
      BY <1>2, <1>10, <2>5, <3>2
    <3>. QED BY <3>1, <3>2
  <2>8. k \in Hits(dir, name, contents)
    BY <2>1, <2>2, <2>7 DEF Hits, EntAt
  <2>9. i <= k
    BY <1>5, <2>8
  <2>10. k \in LiveIn(old, d) /\ NameIn(old, d, k) = name
    <3>1. k \in 2 .. dir.size - 1
      BY <1>6, <1>9, <2>2, <2>9
    <3>2. EntAt(dir, k, contents).inum # -1 /\ EntAt(dir, k, contents).name = name
      BY <2>8 DEF Hits
    <3>. QED BY <1>2, <3>1, <3>2 DEF LiveIn, NameIn
  <2>11. i = k
    BY <1>4, <1>11, <2>10 DEF Orderly, NamesApart
  <2>. QED BY <1>8, <2>1, <2>6, <2>11
<1>17. FoundIn(img, d, name) = -1
  BY <1>14, <1>16 DEF FoundIn, search_Directory
<1>18. InumIn(img, d)
  BY <1>1, <1>4, NumberIn DEF Orderly, InodesHeld
<1>. QED BY <1>1, <1>14, <1>15, <1>17, <1>18 DEF RemovedIn, DirIn

LEMMA CreateDone ==
  ASSUME CreatsAgree, NEW old, Shaped(old), NEW S, Orderly(old, S),
         NEW img, NEW R \in SUBSET Inums, Orderly(img, R),
         NEW m \in Calls, m.inum \in R, m.inum \in S,
         NEW scrap, NEW ent, NEW final, Creates(old, m, scrap, ent, final),
         SameFields(img, final), final.harm = {}
  PROVE  CreatedIn(img, m)
<1>1. PICK d, name : d = m.inum /\ name = m.name
  OBVIOUS
<1>2. PICK t \in TypeArgs : t = m.type
  BY KilledCallsAssumption
<1>3. PICK dir, x, b, own, s : /\ dir = old.inodes[d] /\ x = FreeInum(old)
                               /\ b = EntryBlockIn(old, d) /\ own = OwnBlockIn(old, d, t)
                               /\ s = SlotForEntry(dir)
  OBVIOUS
<1>4. /\ m.message_type = "C" /\ NoFileIn(old, d) /\ HasInodeIn(old, d)
      /\ final = WithFile(old, d, t, name, scrap, ent)
  BY <1>1, <1>2, Zenon DEF Creates
<1>5. /\ d \in S /\ d \in Inums /\ old.inode_bitmap[d] = 1
      /\ d \in DirsIn(old, S) /\ dir \in Inode /\ DirTable(dir) /\ dir.type = MFS_DIRECTORY
  <2>1. d \in S /\ d \in Inums /\ old.inode_bitmap[d] = 1 /\ dir \in Inode /\ dir.type \in TypeArgs
    BY <1>1, <1>3 DEF Orderly, InodesHeld
  <2>2. dir.type = MFS_DIRECTORY
    BY <1>3, <1>4, <2>1 DEF NoFileIn, TypeArgs
  <2>. QED BY <1>3, <2>1, <2>2 DEF Orderly, InodesHeld, DirsIn
<1>6. /\ b # -1
      /\ t = MFS_DIRECTORY => own # -1
      /\ t = MFS_DIRECTORY => ~SpillsOver(x) /\ \A n \in StrayHits(x) : old.inode_bitmap[n] # 1
  <2>1. /\ Struck("no_block", b = -1 \/ (t = MFS_DIRECTORY /\ own = -1)) = {}
        /\ Struck("stray_write",
                  t = MFS_DIRECTORY
                  /\ (SpillsOver(x) \/ \E n \in StrayHits(x) : old.inode_bitmap[n] = 1)) = {}
    BY <1>3, <1>4, Zenon DEF WithFile
  <2>. QED BY <2>1 DEF Struck
<1>7. b \in Blocks /\ s \in Slots /\ (~BlockNeeded(dir) => b = LastBlock(dir))
  BY <1>3, <1>4, <1>5, <1>6, CreatBlocks
<1>8. x \in Inums /\ old.inode_bitmap[x] = 0
  <2>1. PICK bits : bits = old.inode_bitmap
    OBVIOUS
  <2>2. x # -1 /\ x = next_available(bits, Inums) /\ Inums \subseteq Nat
    BY <1>3, <1>4, <2>1, ImageTypes DEF HasInodeIn, FreeInum, next_available_inode
  <2>. QED BY <2>1, <2>2, FreeNumber
<1>9. img.inodes = CreatedInodes(old, d, t, scrap) /\ img.data = CreatedData(old, d, t, name, ent)
  BY <1>4 DEF WithFile, SameFields
<1>10. img.inodes[d] = WithEntry(dir, b)
  <2>1. /\ ~(t = MFS_DIRECTORY /\ d \in StrayHits(x))
        /\ d # x /\ EntryBlockIn(old, d) # -1
    BY <1>3, <1>5, <1>6, <1>8
  <2>. QED BY <1>3, <1>5, <1>9, <2>1 DEF CreatedInodes
<1>11. img.data[b][s] = [inum |-> x, name |-> name]
  <2>1. ~(t = MFS_DIRECTORY /\ SpillsOver(FreeInum(old)))
    BY <1>3, <1>6
  <2>2. img.data = [old.data EXCEPT ![b] = [@ EXCEPT ![s] = [inum |-> x, name |-> name]]]
    BY <1>3, <1>9, <2>1, Zenon DEF CreatedData
  <2>3. b \in DOMAIN old.data /\ s \in DOMAIN old.data[b]
    BY <1>7 DEF Shaped, Pointers
  <2>. QED BY <2>2, <2>3
<1>12. dir.size # MFS_INODE_BLOCKS_SIZE * DirEntsPerBlock
  BY <1>3, <1>4 DEF HasInodeIn
<1>13. dir.size \in Nat /\ dir.size % DirEntsPerBlock = s
  BY <1>3, <1>5, <1>12, NextPlace DEF Inode
<1>14. PICK after : after = WithEntry(dir, b)
  OBVIOUS
<1>15. after.size = dir.size + 1 /\ EntBlock(after, dir.size) = b /\ after.type = MFS_DIRECTORY
  <2>1. /\ WithEntry(dir, b).type = dir.type
        /\ WithEntry(dir, b).size = dir.size + 1
        /\ EntBlock(WithEntry(dir, b), dir.size) = IF BlockNeeded(dir) THEN b ELSE LastBlock(dir)
    BY <1>5, <1>7, <1>12, WithEntryTable
  <2>. QED BY <1>5, <1>7, <1>14, <2>1
<1>16. dir.size \in Hits(after, name, img.data)
  <2>1. EntAt(after, dir.size, img.data) = [inum |-> x, name |-> name]
    BY <1>11, <1>13, <1>15 DEF EntAt
  <2>2. dir.size \in 0 .. after.size - 1 /\ x >= 0
    BY <1>8, <1>13, <1>15, ImageTypes
  <2>. QED BY <2>1, <2>2 DEF Hits
<1>17. d \in DirsIn(img, R)
  BY <1>1, <1>10, <1>14, <1>15 DEF DirsIn
<1>. QED BY <1>1, <1>4, <1>10, <1>14, <1>16, <1>17, NamedAsAsked

LEMMA FinishDone ==
  ASSUME CreatsAgree, CrashInv, KillInv, BegunInv, Finish, Bearing', NEW m \in Calls, m = call
  PROVE  Done(m)'
<1>1. /\ server = "writing" /\ writes = << >>
      /\ UNCHANGED image /\ harm' = harm /\ torn' = torn
  BY DEF Finish
<1>2. Bearing /\ call # Idle
  BY <1>1, KilledCallsAssumption DEF Bearing, Sound
<1>3. PICK R \in SUBSET Inums : Orderly(Snapshot, R) /\ CallHeld(Snapshot, R, call, server)
  BY <1>1, <1>2, OrderAtRest
<1>4. Orderly(Snapshot, R) /\ call.inum \in R
  BY <1>1, <1>2, <1>3 DEF CallHeld
<1>5. PICK S \in SUBSET Inums : Orderly(before, S) /\ call.inum \in S
  BY <1>1, <1>2 DEF BegunInv
<1>6. PICK final : /\ Outcome(before, call, final) /\ Shaped(final)
                   /\ Coming(writes, Snapshot, final) /\ harm = final.harm
  BY <1>1 DEF CrashInv, WritingInv
<1>7. PICK img, old : img = Snapshot /\ old = before
  OBVIOUS
<1>8. SameFields(img, final)
  <2>1. Coming(<< >>, Snapshot, final) /\ Shaped(Snapshot)
    BY <1>1, <1>6 DEF CrashInv
  <2>2. /\ inode_bitmap = final.inode_bitmap /\ data_bitmap = final.data_bitmap
        /\ inodes = final.inodes /\ data = final.data
    BY <1>6, <2>1, NothingComing
  <2>. QED BY <1>7, <2>2 DEF SameFields, Snapshot
<1>9. Shaped(old) /\ final.harm = {}
  BY <1>1, <1>2, <1>6, <1>7 DEF CrashInv, Bearing, Sound
<1>10. /\ Orderly(img, R) /\ Orderly(old, S) /\ m.inum \in R /\ m.inum \in S
       /\ Outcome(old, m, final)
  BY <1>4, <1>5, <1>6, <1>7
<1>11. DoneIn(img, m)
  <2>1. ASSUME Overwrites(old, m, final) PROVE DoneIn(img, m)
    <3>1. m.message_type = "W"
      BY <2>1 DEF Overwrites
    <3>2. WrittenIn(img, m)
      BY <1>8, <1>9, <1>10, <2>1, OverwriteDone
    <3>. QED BY <3>1, <3>2 DEF DoneIn
  <2>2. ASSUME Extends(old, m, final) PROVE DoneIn(img, m)
    <3>1. m.message_type = "W"
      BY <2>2 DEF Extends
    <3>2. WrittenIn(img, m)
      BY <1>8, <1>9, <1>10, <2>2, ExtendDone
    <3>. QED BY <3>1, <3>2 DEF DoneIn
  <2>3. ASSUME NEW unlinked, NEW ents, Unlinks(old, m, unlinked, ents, final) PROVE DoneIn(img, m)
    <3>1. m.message_type = "U"
      BY <2>3 DEF Unlinks
    <3>2. RemovedIn(img, m)
      BY <1>8, <1>9, <1>10, <2>3, UnlinkDone
    <3>. QED BY <3>1, <3>2 DEF DoneIn
  <2>4. ASSUME NEW scrap, NEW ent, Creates(old, m, scrap, ent, final) PROVE DoneIn(img, m)
    <3>1. m.message_type = "C"
      BY <2>4 DEF Creates
    <3>2. CreatedIn(img, m)
      BY <1>8, <1>9, <1>10, <2>4, CreateDone
    <3>. QED BY <3>1, <3>2 DEF DoneIn
  <2>. QED BY <1>10, <2>1, <2>2, <2>3, <2>4, Zenon DEF Outcome
<1>12. Done(m)
  BY <1>7, <1>11, DoneLooks
<1>. QED BY <1>1, <1>12, DoneKept

AckedDone == \A m \in Calls : Answered(m) /\ Bearing' => Done(m)'

(***************************************************************************)
(* A request that is answered with success was carried out, however often  *)
(* the server was killed over it (AckedWasDone), when the Creats of a name *)
(* ask for one type.                                                       *)
(***************************************************************************)
THEOREM AcknowledgedWasDone == CreatsAgree => (CrashSpec => AckedWasDone)
<1>1. CreatsAgree /\ CrashInv /\ KillInv /\ BegunInv /\ [CrashNext]_crashvars
        => [AckedDone]_crashvars
  <2>1. SUFFICES ASSUME CreatsAgree, CrashInv, KillInv, BegunInv, NEW m \in Calls,
                        Answered(m), Bearing'
                 PROVE  Done(m)'
    BY DEF AckedDone
  <2>2. CASE Finish
    BY <2>1, <2>2, FinishDone DEF Answered
  <2>3. CASE AnswerOnly
    BY <2>1, <2>3, AnswerOnlyDone DEF Answered
  <2>. QED BY <2>1, <2>2, <2>3 DEF Answered
<1>2. [AckedDone]_crashvars => [\A m \in Calls : Answered(m) /\ Bearing' => Done(m)']_crashvars
  BY DEF AckedDone
<1>3. CrashInit => BegunInv
  BY DEF CrashInit, BegunInv
<1>4. CrashInv /\ KillInv /\ BegunInv /\ [CrashNext]_crashvars => BegunInv'
  BY BegunKeeps
<1>5. CreatsAgree => CreatsAgree'
  BY DEF CreatsAgree
<1>. QED BY <1>1, <1>2, <1>3, <1>4, <1>5, ImageExplained, PTL DEF CrashSpec, AckedWasDone
=============================================================================
