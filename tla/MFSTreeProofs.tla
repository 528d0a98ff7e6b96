---------------------------- MODULE MFSTreeProofs ----------------------------
(***************************************************************************)
(* The handlers of MFSServer implement the tree of MFSTree: every request  *)
(* that harms nothing is a step of the tree, with the answer that the tree *)
(* gives, and harm comes only from the requests that the tree warns of.    *)
(***************************************************************************)
EXTENDS MFSServerTree, MFSReachProofs, FunctionTheorems

-----------------------------------------------------------------------------
(***************************************************************************)
(* Names.                                                                  *)
(***************************************************************************)

(***************************************************************************)
(* The entries of a set of places that have a name; the tree shows the     *)
(* first of them.                                                          *)
(***************************************************************************)
Places(d, S, name) ==
  {i \in S : EntAt(inodes[d], i, data).name = name /\ EntAt(inodes[d], i, data).inum >= 0}

(***************************************************************************)
(* What the tree shows for a name is the first of these.                   *)
(***************************************************************************)
LEMMA FirstPlaceWith ==
  ASSUME NEW d, NEW S, S \subseteq Nat, NEW name \in Names
  PROVE  /\ name \in DOMAIN NamesTo(d, S) <=> Places(d, S, name) # {}
         /\ Places(d, S, name) # {} =>
              /\ FirstWith(d, S, name) \in Places(d, S, name)
              /\ \A i \in Places(d, S, name) : FirstWith(d, S, name) <= i
              /\ NamesTo(d, S)[name] = EntAt(inodes[d], FirstWith(d, S, name), data).inum
<1>1. name \in NamesIn(d, S) <=> Places(d, S, name) # {}
  BY DEF NamesIn, Places
<1>2. FirstWith(d, S, name) = Min(Places(d, S, name)) /\ Places(d, S, name) \subseteq Nat
  BY DEF FirstWith, Places
<1>. QED BY <1>1, <1>2, MinOfNats DEF NamesTo

(***************************************************************************)
(* search_Directory finds what the tree shows: a name left over first.     *)
(***************************************************************************)
LEMMA NamesFound ==
  ASSUME TypeInv, Sound, Ordered, NEW d \in Dirs, NEW name \in Names
  PROVE  /\ Found(d, name) = -1 <=> name \notin Tree!Seen(d)
         /\ Found(d, name) # -1 =>
              /\ EntryFor(d, name).inum = Tree!Lookups(d, name)
              /\ Found(d, name) < 2 <=> name \in DOMAIN TreeDirs[d].leftovers
              /\ Found(d, name) >= 2 => /\ name \in DOMAIN TreeDirs[d].entries
                                        /\ TreeDirs[d].entries[name] = EntryFor(d, name).inum
<1>. DEFINE H == Hits(inodes[d], name, data)
            A == Places(d, 0 .. 1, name)
            B == Places(d, 2 .. inodes[d].size - 1, name)
<1>1. inodes[d] \in Inode /\ DirTable(inodes[d]) /\ inodes[d].size \in Nat /\ inodes[d].size >= 2
  BY InUseTyped DEF Ordered, DirTable, Inode
<1>2. 0 .. inodes[d].size - 1 = 0 .. 1 \cup 2 .. inodes[d].size - 1
  BY <1>1
<1>3. \A i : i \in H <=> i \in A \/ i \in B
  BY <1>2 DEF Hits, Places
<1>4. /\ A \subseteq 0 .. 1 /\ B \subseteq 2 .. inodes[d].size - 1
      /\ 0 .. 1 \subseteq Nat /\ 2 .. inodes[d].size - 1 \subseteq Nat
  BY <1>1 DEF Places
<1>5. /\ H = {} => Found(d, name) = -1
      /\ H # {} => /\ Found(d, name) \in H
                   /\ \A i \in H : Found(d, name) <= i
  <2>1. H \subseteq Nat
    BY <1>1 DEF Hits
  <2>2. Found(d, name) = IF H = {} THEN -1 ELSE Min(H)
    BY DEF Found, search_Directory
  <2>. HIDE DEF H
  <2>. QED BY <2>1, <2>2, MinOfNats
<1>6. /\ TreeDirs[d].leftovers = NamesTo(d, 0 .. 1)
      /\ TreeDirs[d].entries = NamesTo(d, 2 .. inodes[d].size - 1)
  BY DEF TreeDirs, Listing
<1>7. /\ name \in DOMAIN TreeDirs[d].leftovers <=> A # {}
      /\ A # {} => /\ FirstWith(d, 0 .. 1, name) \in A
                   /\ \A i \in A : FirstWith(d, 0 .. 1, name) <= i
                   /\ TreeDirs[d].leftovers[name]
                        = EntAt(inodes[d], FirstWith(d, 0 .. 1, name), data).inum
  BY <1>4, <1>6, FirstPlaceWith
<1>8. /\ name \in DOMAIN TreeDirs[d].entries <=> B # {}
      /\ B # {} => /\ FirstWith(d, 2 .. inodes[d].size - 1, name) \in B
                   /\ \A i \in B : FirstWith(d, 2 .. inodes[d].size - 1, name) <= i
                   /\ TreeDirs[d].entries[name]
                        = EntAt(inodes[d], FirstWith(d, 2 .. inodes[d].size - 1, name), data).inum
  BY <1>4, <1>6, FirstPlaceWith
<1>. HIDE DEF H, A, B
<1>9. CASE A # {}
  <2>1. H # {}
    BY <1>3, <1>9
  <2>2. Found(d, name) = FirstWith(d, 0 .. 1, name) /\ Found(d, name) \in 0 .. 1
    <3>. PICK f, a : f = Found(d, name) /\ a = FirstWith(d, 0 .. 1, name)
      OBVIOUS
    <3>1. f \in H /\ f <= a /\ a \in A /\ (f \in A => a <= f)
      BY <1>3, <1>5, <1>7, <1>9, <2>1
    <3>2. a \in 0 .. 1 /\ (f \in A => f \in 0 .. 1) /\ (f \in B => f \in 2 .. inodes[d].size - 1)
      BY <1>4, <3>1
    <3>3. f \in A
      BY <1>1, <1>3, <3>1, <3>2
    <3>. QED BY <3>1, <3>2, <3>3
  <2>3. name \in DOMAIN TreeDirs[d].leftovers
    BY <1>7, <1>9
  <2>4. TreeDirs[d].leftovers[name] = EntryFor(d, name).inum
    BY <1>7, <1>9, <2>2 DEF EntryFor
  <2>. QED BY <2>2, <2>3, <2>4 DEF Tree!Seen, Tree!Lookups
<1>10. CASE A = {} /\ B # {}
  <2>1. H # {}
    BY <1>3, <1>10
  <2>2. /\ Found(d, name) = FirstWith(d, 2 .. inodes[d].size - 1, name)
        /\ Found(d, name) \in Nat /\ Found(d, name) >= 2
    <3>. PICK f, a : f = Found(d, name) /\ a = FirstWith(d, 2 .. inodes[d].size - 1, name)
      OBVIOUS
    <3>1. f \in B /\ f <= a /\ a \in B /\ a <= f
      BY <1>3, <1>5, <1>8, <1>10, <2>1
    <3>2. f \in 2 .. inodes[d].size - 1 /\ a \in 2 .. inodes[d].size - 1
      BY <1>4, <3>1
    <3>. QED BY <1>1, <3>1, <3>2
  <2>3. name \notin DOMAIN TreeDirs[d].leftovers /\ name \in DOMAIN TreeDirs[d].entries
    BY <1>7, <1>8, <1>10
  <2>4. TreeDirs[d].entries[name] = EntryFor(d, name).inum
    BY <1>8, <1>10, <2>2 DEF EntryFor
  <2>. QED BY <2>2, <2>3, <2>4 DEF Tree!Seen, Tree!Lookups
<1>11. CASE A = {} /\ B = {}
  BY <1>3, <1>5, <1>7, <1>8, <1>11 DEF Tree!Seen
<1>. QED BY <1>9, <1>10, <1>11

-----------------------------------------------------------------------------
(***************************************************************************)
(* Blocks.                                                                 *)
(***************************************************************************)

(***************************************************************************)
(* The blocks of a directory go with the entries it ever had.              *)
(***************************************************************************)
LEMMA BlocksOfDirectory ==
  ASSUME NEW inode \in Inode, DirTable(inode)
  PROVE  /\ Tree!BlocksFor(inode.size) = inode.block_nums
         /\ Tree!BlocksFor(inode.size + 1) =
              IF BlockNeeded(inode) THEN inode.block_nums + 1 ELSE inode.block_nums
<1>. DEFINE e == DirEntsPerBlock
            k == inode.block_nums
            n == inode.size
<1>1. /\ n \in Nat /\ k \in Nat /\ e \in Nat \ {0, 1}
      /\ 1 <= k /\ e * (k - 1) < n /\ n <= e * k
  BY SizesAssumption DEF Inode, DirTable
<1>2. BlockNeeded(inode) <=> n + 1 > e * k
  BY DEF BlockNeeded
<1>3. /\ e * k \in Nat /\ e * (k - 1) = e * k - e
      /\ e * (k + 1) = e * k + e /\ e * (k + 1 + 1) = e * k + e + e
  BY <1>1
<1>4. /\ Tree!BlocksFor(n) = (n + e - 1) \div e
      /\ Tree!BlocksFor(n + 1) = (n + 1 + e - 1) \div e
  BY DEF Tree!BlocksFor
<1>. HIDE DEF e, k, n
<1>5. (n + e - 1) \div e = k
  <2>1. n + e - 1 \in Nat /\ e * k <= n + e - 1 /\ n + e - 1 < e * (k + 1)
    BY <1>1, <1>3
  <2>. QED BY <1>1, <2>1, DivIs
<1>6. CASE BlockNeeded(inode)
  <2>1. n = e * k
    BY <1>1, <1>2, <1>3, <1>6
  <2>2. /\ n + 1 + e - 1 \in Nat /\ k + 1 \in Nat /\ e \in Nat \ {0}
        /\ e * (k + 1) <= n + 1 + e - 1
        /\ n + 1 + e - 1 < e * (k + 1 + 1)
    BY <1>1, <1>3, <2>1
  <2>3. (n + 1 + e - 1) \div e = k + 1
    BY <2>2, DivIs
  <2>. QED BY <1>4, <1>5, <1>6, <2>3 DEF n, k
<1>7. CASE ~BlockNeeded(inode)
  <2>1. /\ n + 1 + e - 1 \in Nat /\ e * k <= n + 1 + e - 1
        /\ n + 1 + e - 1 < e * (k + 1)
    BY <1>1, <1>2, <1>3, <1>7
  <2>2. (n + 1 + e - 1) \div e = k
    BY <1>1, <2>1, DivIs
  <2>. QED BY <1>4, <1>5, <1>7, <2>2 DEF n, k
<1>. QED BY <1>6, <1>7

(***************************************************************************)
(* The blocks that a bitmap marks.                                         *)
(***************************************************************************)
Marked(bitmap) == {b \in Blocks : bitmap[b] = 1}

(***************************************************************************)
(* The blocks marked in the bitmap are as many as the pointers held.       *)
(***************************************************************************)
LEMMA MarkedBlocks ==
  ASSUME NEW bitmap \in [Blocks -> {0, 1}]
  PROVE  /\ IsFiniteSet(Marked(bitmap))
         /\ Cardinality(Marked(bitmap)) \in Nat
         /\ Cardinality(Marked(bitmap)) <= MFS_DATA_REGION_SIZE
         /\ Cardinality(Marked(bitmap)) = MFS_DATA_REGION_SIZE
              <=> next_available_block(bitmap) = -1
         /\ \A b \in Blocks : bitmap[b] = 0 =>
              Cardinality(Marked(Occupied(bitmap, b))) = Cardinality(Marked(bitmap)) + 1
<1>1. 0 \in Int /\ MFS_DATA_REGION_SIZE - 1 \in Int /\ MFS_DATA_REGION_SIZE > 0
  BY SizesAssumption
<1>2. IsFiniteSet(Blocks) /\ Cardinality(Blocks) = MFS_DATA_REGION_SIZE
  BY <1>1, FS_Interval, SizesAssumption DEF Blocks
<1>3. Marked(bitmap) \in SUBSET Blocks
  BY DEF Marked
<1>4. /\ IsFiniteSet(Marked(bitmap))
      /\ Cardinality(Marked(bitmap)) \in Nat
      /\ Cardinality(Marked(bitmap)) <= MFS_DATA_REGION_SIZE
      /\ Cardinality(Marked(bitmap)) = MFS_DATA_REGION_SIZE <=> Marked(bitmap) = Blocks
  BY <1>2, <1>3, FS_Subset, FS_CardinalityType
<1>5. Marked(bitmap) = Blocks <=> next_available_block(bitmap) = -1
  <2>1. Marked(bitmap) = Blocks <=> \A b \in Blocks : bitmap[b] = 1
    BY DEF Marked
  <2>2. /\ next_available_block(bitmap) = -1 => \A b \in Blocks : bitmap[b] = 1
        /\ next_available_block(bitmap) # -1 => \E b \in Blocks : bitmap[b] = 0
    BY NextAvailable, ImageTypes DEF next_available_block
  <2>. QED BY <2>1, <2>2
<1>6. ASSUME NEW b \in Blocks, bitmap[b] = 0
      PROVE  Cardinality(Marked(Occupied(bitmap, b))) = Cardinality(Marked(bitmap)) + 1
  <2>1. Marked(Occupied(bitmap, b)) = Marked(bitmap) \cup {b} /\ b \notin Marked(bitmap)
    BY <1>6 DEF Marked, Occupied
  <2>. QED BY <1>4, <2>1, FS_AddElement
<1>. QED BY <1>4, <1>5, <1>6

(***************************************************************************)
(* The tree counts as many blocks as the bitmap marks: no block serves two *)
(* pointers, and each that is marked serves one.                           *)
(***************************************************************************)
LEMMA DirectoryBlocks ==
  ASSUME TypeInv, Sound, Ordered, NEW d \in Dirs
  PROVE  Tree!DirBlocks(d) = inodes[d].block_nums
<1>1. inodes[d] \in Inode /\ DirTable(inodes[d])
  BY InUseTyped DEF Ordered
<1>2. 2 + TreeDirs[d].made = inodes[d].size
  BY <1>1 DEF Inode, TreeDirs, Listing
<1>. QED BY <1>1, <1>2, BlocksOfDirectory DEF Tree!DirBlocks

(***************************************************************************)
(* The tree counts as many blocks as the bitmap marks.                     *)
(***************************************************************************)
LEMMA BlocksCounted ==
  ASSUME TypeInv, Sound, Ordered
  PROVE  Tree!BlocksUsed = Cardinality(Marked(data_bitmap))
<1>. DEFINE pairs == {p \in InUse \X BlockIndices : Pointer(inodes, p[1], p[2]) # -1}
            f == [p \in pairs |-> Pointer(inodes, p[1], p[2])]
            marked == Marked(data_bitmap)
<1>1. Tree!InUse = pairs
  <2>1. /\ DOMAIN TreeFiles = InUse \ Dirs /\ DOMAIN TreeDirs = Dirs /\ Dirs \subseteq InUse
        /\ Tree!Indices = BlockIndices
    BY DEF TreeFiles, TreeDirs, Dirs, Tree!Indices, BlockIndices
  <2>2. ASSUME NEW n \in InUse \ Dirs, NEW j \in BlockIndices
        PROVE  j \in DOMAIN TreeFiles[n] <=> Pointer(inodes, n, j) # -1
    BY DEF TreeFiles, TextOf, Pointer
  <2>3. ASSUME NEW d \in Dirs, NEW j \in BlockIndices
        PROVE  j < Tree!DirBlocks(d) <=> Pointer(inodes, d, j) # -1
    BY DirectoryBlocks DEF Ordered, DirTable, Pointer
  <2>. QED BY <2>1, <2>2, <2>3 DEF Tree!InUse
<1>2. f \in Bijection(pairs, marked)
  <2>1. f \in [pairs -> marked]
    BY InUseTyped DEF Ordered, Books, Marked, Pointers
  <2>2. \A p, q \in pairs : f[p] = f[q] => p = q
    BY DEF Ordered, Books
  <2>3. ASSUME NEW b \in marked PROVE \E p \in pairs : f[p] = b
    <3>1. PICK n \in InUse, j \in BlockIndices : Pointer(inodes, n, j) = b
      BY DEF Ordered, Books, Marked
    <3>2. <<n, j>> \in pairs
      BY <3>1 DEF Marked, Blocks
    <3>. QED BY <3>1, <3>2
  <2>. QED BY <2>1, <2>2, <2>3 DEF Bijection, Injection, Surjection, IsInjective
<1>3. IsFiniteSet(marked)
  BY InUseTyped, MarkedBlocks
<1>. HIDE DEF f, pairs, marked
<1>4. ExistsBijection(marked, pairs)
  BY <1>2, Fun_ExistsBij, Fun_ExistsBijSymmetric
<1>5. Cardinality(pairs) = Cardinality(marked)
  BY <1>3, <1>4, FS_Bijection
<1>6. Tree!BlocksUsed = Cardinality(Tree!InUse)
  BY DEF Tree!BlocksUsed, Tree!Cardinality, Cardinality
<1>. QED BY <1>1, <1>5, <1>6 DEF marked

-----------------------------------------------------------------------------
(***************************************************************************)
(* Requests that read.                                                     *)
(***************************************************************************)
LEMMA TreeNodes ==
  ASSUME TypeInv
  PROVE  /\ DOMAIN TreeDirs = Dirs
         /\ DOMAIN TreeFiles = InUse \ Dirs
         /\ Dirs \subseteq InUse
         /\ Tree!Nodes = InUse
         /\ Tree!Indices = BlockIndices
         /\ \A n \in InUse \ Dirs : DOMAIN TreeFiles[n] = Held(inodes[n])
BY DEF TreeDirs, TreeFiles, TextOf, Held, Tree!Nodes, Dirs, Tree!Indices, BlockIndices

(***************************************************************************)
(* The numbers that the tree has nodes for are the inodes in use.          *)
(***************************************************************************)
LEMMA NumbersInUse ==
  ASSUME TypeInv, Sound, NEW n \in InumArgs
  PROVE  /\ InumOK(n) <=> n \in InUse
         /\ n \in InUse => inodes[n].type = IF n \in Dirs THEN MFS_DIRECTORY ELSE MFS_REGULAR_FILE
<1>1. InumOK(n) => n \in InUse
  BY ValidInum DEF TypeInv, InUse
<1>2. n \in InUse => InumOK(n) /\ inodes[n].type \in TypeArgs
  BY ValidInums, InUseTyped DEF InUse, InumOK
<1>. QED BY <1>1, <1>2 DEF Dirs, TypeArgs

(***************************************************************************)
(* The blocks that valid_block lets through are those with a pointer.      *)
(***************************************************************************)
LEMMA BlocksFound ==
  ASSUME TypeInv, Sound, Ordered, NEW n \in InUse, NEW j \in BlockArgs
  PROVE  BlockOK(n, j) <=> j \in BlockIndices /\ inodes[n].blocks[j] # -1
<1>1. j \in BlockIndices <=> ~(j < 0 \/ j >= MFS_INODE_BLOCKS_SIZE)
  BY SizesAssumption DEF BlockArgs, BlockIndices
<1>2. CASE j \in BlockIndices
  <2>1. /\ inodes[n].blocks[j] \in Pointers
        /\ inodes[n].blocks[j] # -1 => data_bitmap[inodes[n].blocks[j]] = 1
    BY <1>2, InUseTyped DEF Ordered, Books, Pointer
  <2>2. inodes[n].blocks[j] # -1 =>
          ~(inodes[n].blocks[j] < 0 \/ inodes[n].blocks[j] > MFS_DATA_REGION_SIZE)
    BY <2>1, SizesAssumption DEF Pointers, Blocks
  <2>. QED BY <1>1, <1>2, <2>1, <2>2 DEF BlockOK, valid_block
<1>3. CASE j \notin BlockIndices
  BY <1>1, <1>3 DEF BlockOK, valid_block
<1>. QED BY <1>2, <1>3

(***************************************************************************)
(* The zeroed reply, and the tree that an untouched image shows.           *)
(***************************************************************************)
LEMMA PlainAnswer ==
  ASSUME NEW t, NEW success, reply' = Reply(t, success)
  PROVE  TreeAnswer' = Tree!Answer(success)
BY ImageTypes DEF TreeAnswer, Tree!Answer, Tree!Answered, Tree!NoStats, Reply, NoStats,
                  NoBuffer, ZeroEnt, Blank

(***************************************************************************)
(* An image that stays shows the tree that it showed.                      *)
(***************************************************************************)
LEMMA SameTree ==
  ASSUME UNCHANGED image
  PROVE  UNCHANGED <<TreeDirs, TreeFiles>>
<1>1. inodes' = inodes /\ data' = data /\ inode_bitmap' = inode_bitmap
  BY DEF image
<1>2. InUse' = InUse /\ Dirs' = Dirs
  BY <1>1 DEF InUse, Dirs
<1>3. \A d : Listing(d)' = Listing(d)
  BY <1>1 DEF Listing, NamesTo, NamesIn, FirstWith
<1>4. \A n : TextOf(n)' = TextOf(n)
  BY <1>1 DEF TextOf
<1>. QED BY <1>2, <1>3, <1>4 DEF TreeDirs, TreeFiles

(***************************************************************************)
(* A handler that only answers leaves the tree as it is.                   *)
(***************************************************************************)
LEMMA PlainlySaid ==
  ASSUME NEW t, NEW success, Answer(Reply(t, success))
  PROVE  Tree!Says(Tree!Answer(success))
BY PlainAnswer, SameTree DEF Answer, Tree!Says, Tree!tree

(***************************************************************************)
(* Lookup answers as the tree does.                                        *)
(***************************************************************************)
LEMMA LookupIsTree ==
  ASSUME TypeInv, Sound, Ordered, NEW pinum \in Inums, NEW name \in Names,
         reply_Lookup(pinum, name)
  PROVE  Tree!Lookup(pinum, name)
<1>1. pinum \in InumArgs
  BY DEF InumArgs
<1>2. inode_bitmap[pinum] # 0 /\ ~IsFile(pinum) <=> pinum \in Dirs
  <2>1. inode_bitmap[pinum] # 0 <=> pinum \in InUse
    BY InUseTyped DEF InUse
  <2>. QED BY <1>1, <2>1, NumbersInUse DEF Dirs, IsFile, MFS_DIRECTORY, MFS_REGULAR_FILE
<1>3. LookupHits(pinum, name) <=> pinum \in Dirs /\ name \in Tree!Seen(pinum)
  BY <1>2, NamesFound DEF LookupHits
<1>4. LookupHits(pinum, name) =>
        EntAt(inodes[pinum], Found(pinum, name), data).inum = Tree!Lookups(pinum, name)
  BY <1>2, NamesFound DEF LookupHits, EntryFor
<1>5. CASE ~LookupHits(pinum, name) /\ Answer(Reply("L", -1))
  BY <1>3, <1>5, PlainlySaid, TreeNodes DEF Tree!Lookup
<1>6. CASE /\ LookupHits(pinum, name)
           /\ Answer(Reply("L", EntAt(inodes[pinum], Found(pinum, name), data).inum))
  BY <1>3, <1>4, <1>6, PlainlySaid, TreeNodes DEF Tree!Lookup
<1>. QED BY <1>5, <1>6 DEF reply_Lookup

(***************************************************************************)
(* Every entry that Creat made has a name that callers pass, so that the   *)
(* tree shows it.                                                          *)
(***************************************************************************)
MadeNames == \A d \in Dirs : \A i \in Live(d) : EntAt(inodes[d], i, data).name \in Names

(***************************************************************************)
(* The entries that Creat made are those with a number that search finds.  *)
(***************************************************************************)
LEMMA LiveSeen ==
  ASSUME TypeInv, Sound, Ordered, NEW d \in Dirs
  PROVE  \A i \in 2 .. inodes[d].size - 1 :
           EntAt(inodes[d], i, data).inum # -1 <=> EntAt(inodes[d], i, data).inum >= 0
<1>. SUFFICES ASSUME NEW i \in 2 .. inodes[d].size - 1, EntAt(inodes[d], i, data).inum # -1
              PROVE  EntAt(inodes[d], i, data).inum >= 0
  OBVIOUS
<1>1. Target(d, i) \in InUse
  BY DEF Ordered, EntriesUsed, Live, Target
<1>. QED BY <1>1, SizesAssumption DEF InUse, Inums, Target

(***************************************************************************)
(* A directory shows as many names as it has entries that Creat made: no   *)
(* two share a name.                                                       *)
(***************************************************************************)
LEMMA EntriesShown ==
  ASSUME TypeInv, Sound, Ordered, MadeNames, NEW d \in Dirs
  PROVE  Tree!Cardinality(DOMAIN TreeDirs[d].entries) = Cardinality(Live(d))
<1>. DEFINE names == DOMAIN TreeDirs[d].entries
            f == [i \in Live(d) |-> EntAt(inodes[d], i, data).name]
<1>1. names = NamesIn(d, 2 .. inodes[d].size - 1)
  BY DEF TreeDirs, Listing, NamesTo
<1>2. f \in Bijection(Live(d), names)
  <2>1. f \in [Live(d) -> names]
    BY <1>1, LiveSeen DEF MadeNames, NamesIn, Live
  <2>2. \A i, j \in Live(d) : f[i] = f[j] => i = j
    BY DEF Ordered, NamesOnce
  <2>3. \A name \in names : \E i \in Live(d) : f[i] = name
    BY <1>1, LiveSeen DEF NamesIn, Live
  <2>. QED BY <2>1, <2>2, <2>3 DEF Bijection, Injection, Surjection, IsInjective
<1>. HIDE DEF f, names
<1>3. IsFiniteSet(Live(d)) /\ ExistsBijection(Live(d), names)
  BY <1>2, LiveFinite, InUseTyped, Fun_ExistsBij
<1>4. Cardinality(names) = Cardinality(Live(d))
  BY <1>3, FS_Bijection
<1>. QED BY <1>4 DEF names, Tree!Cardinality, Cardinality

(***************************************************************************)
(* Stat answers as the tree does.                                          *)
(***************************************************************************)
LEMMA StatIsTree ==
  ASSUME TypeInv, Sound, Ordered, FilesCounted, EntriesCounted, MadeNames,
         NEW inum \in Inums, reply_Stat(inum)
  PROVE  Tree!Stat(inum)
<1>1. inum \in InUse <=> inode_bitmap[inum] # 0
  BY InUseTyped DEF InUse
<1>2. CASE inum \notin InUse /\ Answer(Reply("S", -1))
  <2>1. inum \notin Tree!Nodes
    BY <1>2, TreeNodes
  <2>2. Tree!Says(Tree!Answer(-1))
    BY <1>2, PlainlySaid
  <2>. QED BY Zenon, <2>1, <2>2 DEF Tree!Stat
<1>3. CASE inum \in InUse /\ Answer([Reply("S", 0) EXCEPT !.stats = StatsOf(inodes[inum])])
  <2>1. UNCHANGED Tree!tree
    BY <1>3, SameTree DEF Answer, Tree!tree
  <2>2. TreeAnswer' = Tree!Answered(0, StatsOf(inodes[inum]), "")
    <3>1. /\ reply'.success = 0 /\ reply'.stats = StatsOf(inodes[inum])
          /\ reply'.buffer[0].name = ""
      BY <1>3, ImageTypes DEF Answer, Reply, NoBuffer, ZeroEnt, Blank
    <3>. QED BY <3>1 DEF TreeAnswer, Tree!Answered
  <2>3. CASE inum \in Dirs
    <3>1. /\ inodes[inum].real_size = 2 + Tree!Cardinality(DOMAIN TreeDirs[inum].entries)
          /\ inodes[inum].block_nums = Tree!DirBlocks(inum)
      BY <2>3, EntriesShown, DirectoryBlocks DEF EntriesCounted
    <3>2. StatsOf(inodes[inum]) =
            [type |-> Tree!Directory, blocks |-> Tree!DirBlocks(inum),
             size |-> 2 + Tree!Cardinality(DOMAIN TreeDirs[inum].entries)]
      BY <2>3, <3>1 DEF StatsOf, Dirs, Tree!Directory, MFS_DIRECTORY
    <3>. QED BY <2>1, <2>2, <2>3, <3>2, TreeNodes DEF Tree!Stat, Tree!Says
  <2>4. CASE inum \notin Dirs
    <3>1. /\ inodes[inum].type = MFS_REGULAR_FILE
          /\ FileCounts(inodes[inum])
      BY <1>3, <2>4, NumbersInUse DEF InumArgs, FilesCounted
    <3>2. Tree!Cardinality(DOMAIN TreeFiles[inum]) = Cardinality(Held(inodes[inum]))
      BY <1>3, <2>4, TreeNodes DEF Tree!Cardinality, Cardinality
    <3>3. StatsOf(inodes[inum]) =
            [type |-> Tree!RegularFile, blocks |-> Tree!Cardinality(DOMAIN TreeFiles[inum]),
             size |-> DirEntsPerBlock * Tree!Cardinality(DOMAIN TreeFiles[inum])]
      BY <3>1, <3>2 DEF StatsOf, FileCounts, Tree!RegularFile, MFS_DIRECTORY, MFS_REGULAR_FILE
    <3>. QED BY <1>3, <2>1, <2>2, <2>4, <3>3, TreeNodes DEF Tree!Stat, Tree!Says
  <2>. QED BY <2>3, <2>4
<1>. QED BY <1>1, <1>2, <1>3 DEF reply_Stat

(***************************************************************************)
(* Read answers as the tree does.                                          *)
(***************************************************************************)
LEMMA ReadIsTree ==
  ASSUME TypeInv, Sound, Ordered, NEW inum \in InumArgs, NEW block \in BlockArgs,
         reply_Read(inum, block)
  PROVE  Tree!Read(inum, block)
<1>1. ReadOK(inum, block) <=>
        inum \in InUse /\ block \in BlockIndices /\ inodes[inum].blocks[block] # -1
  BY NumbersInUse, BlocksFound DEF ReadOK
<1>2. inum \in InUse \ Dirs /\ block \in DOMAIN TreeFiles[inum] <=>
        ReadOK(inum, block) /\ inum \notin Dirs
  BY <1>1, TreeNodes DEF Held
<1>3. inum \in Dirs /\ block \in 0 .. Tree!DirBlocks(inum) - 1 <=>
        ReadOK(inum, block) /\ inum \in Dirs
  <2>. SUFFICES ASSUME inum \in Dirs
                PROVE  block \in 0 .. Tree!DirBlocks(inum) - 1 <=> ReadOK(inum, block)
    OBVIOUS
  <2>1. /\ DirTable(inodes[inum]) /\ Tree!DirBlocks(inum) = inodes[inum].block_nums
        /\ inum \in InUse
    BY InUseTyped, DirectoryBlocks DEF Ordered
  <2>. QED BY <1>1, <2>1, SizesAssumption DEF DirTable, BlockArgs, BlockIndices
<1>4. CASE ~ReadOK(inum, block) /\ Answer(Reply("R", -1))
  BY <1>2, <1>3, <1>4, PlainlySaid, TreeNodes DEF Tree!Read
<1>5. CASE /\ ReadOK(inum, block)
           /\ Answer([Reply("R", 0) EXCEPT !.buffer = data[inodes[inum].blocks[block]]])
  <2>. DEFINE text == data[inodes[inum].blocks[block]][0].name
  <2>1. UNCHANGED Tree!tree
    BY <1>5, SameTree DEF Answer, Tree!tree
  <2>2. TreeAnswer' = Tree!Answered(0, Tree!NoStats, text)
    <3>1. reply'.success = 0 /\ reply'.stats = NoStats /\ reply'.buffer[0].name = text
      BY <1>5 DEF Answer, Reply
    <3>. HIDE DEF text
    <3>. QED BY <3>1 DEF TreeAnswer, Tree!Answered, Tree!NoStats, NoStats
  <2>3. text \in Names \cup Texts \cup {Dot, DotDot, Blank}
    <3>1. inodes[inum].blocks[block] \in Pointers
      BY <1>1, <1>5, InUseTyped DEF Pointer
    <3>2. data[inodes[inum].blocks[block]] \in DataBlock
      BY <3>1, InUseTyped
    <3>. QED BY <3>2, ImageTypes DEF DataBlock, DirEnt
  <2>4. CASE inum \in Dirs
    <3>. HIDE DEF text
    <3>. QED BY <1>3, <1>5, <2>1, <2>2, <2>3, <2>4, TreeNodes DEF Tree!Read, Tree!Says
  <2>5. CASE inum \notin Dirs
    <3>1. TreeFiles[inum][block] = text
      BY <1>1, <1>5, <2>5 DEF TreeFiles, TextOf
    <3>. HIDE DEF text
    <3>. QED BY <1>2, <1>5, <2>1, <2>2, <2>5, <3>1, TreeNodes DEF Tree!Read, Tree!Says
  <2>. QED BY <2>4, <2>5
<1>. QED BY <1>4, <1>5 DEF reply_Read

-----------------------------------------------------------------------------
(***************************************************************************)
(* Write.                                                                  *)
(***************************************************************************)

(***************************************************************************)
(* Entries that stay show the same names.                                  *)
(***************************************************************************)
LEMMA SameNamesTo ==
  ASSUME NEW d, NEW S, S \subseteq Nat,
         \A i \in S : EntAt(inodes'[d], i, data') = EntAt(inodes[d], i, data)
  PROVE  NamesTo(d, S)' = NamesTo(d, S)
<1>1. NamesIn(d, S)' = NamesIn(d, S)
  BY DEF NamesIn
<1>2. ASSUME NEW name \in NamesIn(d, S)
      PROVE  FirstWith(d, S, name)' = FirstWith(d, S, name) /\ FirstWith(d, S, name) \in S
  <2>1. {i \in S : EntAt(inodes'[d], i, data').name = name /\ EntAt(inodes'[d], i, data').inum >= 0}
          = {i \in S : EntAt(inodes[d], i, data).name = name /\ EntAt(inodes[d], i, data).inum >= 0}
    OBVIOUS
  <2>2. name \in Names /\ Places(d, S, name) # {}
    BY DEF NamesIn, Places
  <2>3. FirstWith(d, S, name) \in Places(d, S, name)
    BY <2>2, FirstPlaceWith
  <2>. QED BY <2>1, <2>3 DEF FirstWith, Places
<1>. QED BY <1>1, <1>2 DEF NamesTo

(***************************************************************************)
(* A directory whose inode and entries stay shows what it showed.          *)
(***************************************************************************)
LEMMA SameListing ==
  ASSUME NEW d, inodes[d].size \in Nat, inodes[d].size >= 2,
         inodes'[d].size = inodes[d].size,
         \A i \in 0 .. inodes[d].size - 1 :
           EntAt(inodes'[d], i, data') = EntAt(inodes[d], i, data)
  PROVE  Listing(d)' = Listing(d)
<1>1. NamesTo(d, 0 .. 1)' = NamesTo(d, 0 .. 1)
  <2>1. 0 .. 1 \subseteq Nat /\ 0 .. 1 \subseteq 0 .. inodes[d].size - 1
    OBVIOUS
  <2>. QED BY <2>1, SameNamesTo
<1>2. PICK S : S = 2 .. inodes[d].size - 1
  OBVIOUS
<1>3. NamesTo(d, S)' = NamesTo(d, S)
  <2>1. S \subseteq Nat /\ S \subseteq 0 .. inodes[d].size - 1
    BY <1>2
  <2>. QED BY <2>1, SameNamesTo
<1>4. 2 .. inodes'[d].size - 1 = S
  BY <1>2
<1>. QED BY <1>1, <1>2, <1>3, <1>4 DEF Listing

(***************************************************************************)
(* A step that spares the directories leaves all that they show.           *)
(***************************************************************************)
LEMMA SparedListings ==
  ASSUME TypeInv, Sound, Ordered, SparesDirs
  PROVE  TreeDirs' = TreeDirs
<1>1. ASSUME NEW d \in Dirs PROVE Listing(d)' = Listing(d)
  <2>1. inodes[d].size \in Nat /\ inodes[d].size >= 2 /\ inodes'[d] = inodes[d]
    BY InUseTyped DEF Ordered, DirTable, Inode, SparesDirs
  <2>. QED BY <2>1, SameEntries, SameListing
<1>. QED BY <1>1 DEF TreeDirs, SparesDirs

(***************************************************************************)
(* A Write that is carried out changes one block of one file, which may be *)
(* one that the file did not have; it is refused for want of a block only  *)
(* when all are in use.                                                    *)
(***************************************************************************)
LEMMA WritableInTree ==
  ASSUME TypeInv, Sound, Ordered, NEW inum \in InumArgs, NEW block \in BlockArgs
  PROVE  /\ WriteOK(inum, block) <=>
              inum \in InUse \ Dirs /\ block \in 0 .. MFS_INODE_BLOCKS_SIZE
         /\ Tree!CanWrite(inum, block) <=>
              /\ inum \in InUse \ Dirs
              /\ block \in BlockIndices
              /\ inodes[inum].blocks[block] # -1 \/ next_available_block(data_bitmap) # -1
<1>1. Tree!BlocksUsed < MFS_DATA_REGION_SIZE <=> next_available_block(data_bitmap) # -1
  <2>1. data_bitmap \in [Blocks -> {0, 1}]
    BY InUseTyped
  <2>2. /\ Cardinality(Marked(data_bitmap)) \in Nat
        /\ Cardinality(Marked(data_bitmap)) <= MFS_DATA_REGION_SIZE
        /\ Cardinality(Marked(data_bitmap)) = MFS_DATA_REGION_SIZE
              <=> next_available_block(data_bitmap) = -1
    BY <2>1, MarkedBlocks
  <2>. QED BY <2>2, BlocksCounted, SizesAssumption
<1>2. WriteOK(inum, block) <=> inum \in InUse \ Dirs /\ block \in 0 .. MFS_INODE_BLOCKS_SIZE
  BY NumbersInUse DEF WriteOK, Dirs, MFS_DIRECTORY, MFS_REGULAR_FILE
<1>. QED BY <1>1, <1>2, TreeNodes DEF Tree!CanWrite, Held

(***************************************************************************)
(* A Write that is carried out sets that block of that file and no other.  *)
(***************************************************************************)
LEMMA WrittenInTree ==
  ASSUME ImageInv, ImageInv', Sound, Sound',
         NEW inum \in InumArgs, NEW block \in BlockArgs, NEW text \in Texts,
         WriteInPlace(inum, block, text) \/ WriteNewBlock(inum, block, text)
  PROVE  /\ Tree!CanWrite(inum, block)
         /\ TreeFiles' = [TreeFiles EXCEPT ![inum] = Tree!With(@, block, text)]
         /\ TreeDirs' = TreeDirs
<1>1. TypeInv /\ Ordered /\ reply_Write(inum, block, text) /\ reply'.success = 0
  BY DEF ImageInv, reply_Write, WriteInPlace, WriteNewBlock, Reply
<1>2. SparesDirs
  BY <1>1, WriteKeeps
<1>3. Tree!CanWrite(inum, block) /\ inum \in InUse \ Dirs /\ block \in BlockIndices
  <2>1. WriteOK(inum, block) /\ block \in BlockIndices
    BY DEF WriteInPlace, WriteNewBlock, Sound, Struck
  <2>. QED BY <1>1, <2>1, WritableInTree DEF WriteInPlace, WriteNewBlock
<1>4. ASSUME NEW n \in InUse \ Dirs
      PROVE  Held(inodes'[n]) = IF n = inum THEN Held(inodes[n]) \cup {block} ELSE Held(inodes[n])
  <2>1. CASE WriteInPlace(inum, block, text)
    BY <1>3, <2>1 DEF WriteInPlace, Held
  <2>2. CASE WriteNewBlock(inum, block, text)
    <3>. DEFINE b == next_available_block(data_bitmap)
    <3>1. b # -1 /\ inodes' = [inodes EXCEPT ![inum] = push_inode_update(@, block, b)]
      BY <2>2 DEF WriteNewBlock
    <3>. HIDE DEF b
    <3>2. /\ n # inum => inodes'[n] = inodes[n]
          /\ n = inum => inodes'[n] = push_inode_update(inodes[n], block, b)
          /\ inodes[n] \in Inode
      BY <1>1, <3>1, InUseTyped DEF TypeInv, TypeOK
    <3>3. n = inum => \A j \in BlockIndices :
            inodes'[n].blocks[j] = IF j = block THEN b ELSE inodes[n].blocks[j]
      BY <3>2 DEF push_inode_update, Inode
    <3>. QED BY <1>3, <3>1, <3>2, <3>3 DEF Held
  <2>. QED BY <2>1, <2>2
<1>5. ASSUME NEW n \in InUse \ Dirs, NEW j \in Held(inodes[n]), ~(n = inum /\ j = block)
      PROVE  data'[inodes'[n].blocks[j]] = data[inodes[n].blocks[j]]
  <2>1. j \in BlockArgs /\ j \in BlockIndices
    BY SizesAssumption DEF Held, BlockArgs, BlockIndices
  <2>2. n \in Inums /\ Readable(n, j)
    BY <1>1, <2>1, BlocksFound, InUseTyped DEF Readable, Held
  <2>. QED BY <1>1, <1>5, <2>1, <2>2, WriteKeepsFiles DEF Kept
<1>6. data'[inodes'[inum].blocks[block]][0].name = text
  <2>1. data'[inodes'[inum].blocks[block]] = TextBlock(text)
    BY <1>1, <1>3, InUseTyped, WriteIsDone
  <2>. QED BY <2>1, ImageTypes DEF TextBlock
<1>7. ASSUME NEW n \in InUse \ Dirs
      PROVE  TextOf(n)' = IF n = inum THEN Tree!With(TextOf(n), block, text) ELSE TextOf(n)
  <2>1. /\ TextOf(n) = [j \in Held(inodes[n]) |-> data[inodes[n].blocks[j]][0].name]
        /\ TextOf(n)' = [j \in Held(inodes'[n]) |-> data'[inodes'[n].blocks[j]][0].name]
    BY DEF TextOf, Held
  <2>2. CASE n = inum
    <3>1. Held(inodes'[n]) = Held(inodes[n]) \cup {block}
      BY <1>4, <2>2
    <3>2. \A j \in Held(inodes[n]) \cup {block} :
            data'[inodes'[n].blocks[j]][0].name = IF j = block THEN text ELSE TextOf(n)[j]
      BY <1>5, <1>6, <2>1, <2>2
    <3>. QED BY <2>1, <2>2, <3>1, <3>2 DEF Tree!With
  <2>3. CASE n # inum
    BY <1>4, <1>5, <2>1, <2>3
  <2>. QED BY <2>2, <2>3
<1>8. InUse' = InUse /\ Dirs' = Dirs
  BY <1>2 DEF SparesDirs
<1>9. TreeFiles' = [TreeFiles EXCEPT ![inum] = Tree!With(@, block, text)]
  BY <1>3, <1>7, <1>8 DEF TreeFiles
<1>. QED BY <1>1, <1>2, <1>3, <1>9, SparedListings

(***************************************************************************)
(* Write does and answers as the tree says.                                *)
(***************************************************************************)
LEMMA WriteIsTree ==
  ASSUME ImageInv, ImageInv', Sound, Sound',
         NEW inum \in InumArgs, NEW block \in BlockArgs, NEW text \in Texts,
         reply_Write(inum, block, text)
  PROVE  Tree!Write(inum, block, text)
<1>1. TypeInv /\ Ordered
  BY DEF ImageInv
<1>2. CASE WriteInPlace(inum, block, text) \/ WriteNewBlock(inum, block, text)
  <2>1. reply' = Reply("W", 0)
    BY <1>2 DEF WriteInPlace, WriteNewBlock
  <2>. QED BY <1>2, <2>1, WrittenInTree, PlainAnswer DEF Tree!Write
<1>3. CASE WriteRefused(inum, block) \/ WriteNoSpace(inum, block)
  <2>1. BlockIndices \subseteq 0 .. MFS_INODE_BLOCKS_SIZE
    BY SizesAssumption DEF BlockIndices
  <2>2. ~Tree!CanWrite(inum, block)
    BY <1>1, <1>3, <2>1, WritableInTree DEF WriteRefused, WriteNoSpace
  <2>3. Answer(Reply("W", -1))
    BY <1>3 DEF WriteRefused, WriteNoSpace
  <2>. QED BY <2>2, <2>3, PlainlySaid DEF Tree!Write
<1>4. CASE WritePastTable(inum, block, text)
  BY <1>4 DEF WritePastTable, Sound
<1>. QED BY <1>2, <1>3, <1>4 DEF reply_Write

-----------------------------------------------------------------------------
(***************************************************************************)
(* Creat.                                                                  *)
(***************************************************************************)
LEMMA RoomInTree ==
  ASSUME TypeInv, Sound, Ordered, NEW d \in Dirs
  PROVE  /\ HasRoom(d) <=> Tree!CanCreat(d)
         /\ HasRoom(d) => Tree!NextId = next_available_inode(inode_bitmap)
<1>. DEFINE free == {n \in Inums : inode_bitmap[n] = 0}
            new == next_available_inode(inode_bitmap)
<1>1. free = Inums \ InUse /\ free \subseteq Nat
  <2>1. \A n \in Inums : inode_bitmap[n] \in {0, 1}
    BY InUseTyped
  <2>2. \A n \in Inums : n \in Nat
    BY ImageTypes
  <2>3. \A n : n \in free <=> n \in Inums \ InUse
    BY <2>1 DEF InUse
  <2>. QED BY <2>2, <2>3
<1>2. Tree!Nodes = InUse /\ InUse \subseteq Inums
  BY TreeNodes DEF InUse
<1>3. new = IF free = {} THEN -1 ELSE Min(free)
  BY DEF next_available_inode, next_available
<1>4. free # {} => new \in free /\ \A n \in free : new <= n
  BY <1>1, <1>3, MinOfNats
<1>5. new # -1 <=> Tree!Nodes # Inums
  <2>1. -1 \notin free
    BY <1>1
  <2>. QED BY <1>1, <1>2, <1>3, <1>4, <2>1
<1>6. inodes[d].size # MFS_INODE_BLOCKS_SIZE * DirEntsPerBlock <=>
        2 + TreeDirs[d].made < MFS_INODE_BLOCKS_SIZE * DirEntsPerBlock
  <2>1. inodes[d].size <= DirEntsPerBlock * MFS_INODE_BLOCKS_SIZE
    BY InUseTyped
       DEF TypeInv, DirSizes, Sound, Dirs, InUse, IsFile, EntriesFit, MFS_DIRECTORY, MFS_REGULAR_FILE
  <2>2. inodes[d].size \in Nat /\ 2 + TreeDirs[d].made = inodes[d].size
    BY InUseTyped DEF Inode, TreeDirs, Listing
  <2>3. MFS_INODE_BLOCKS_SIZE * DirEntsPerBlock \in Nat
        /\ MFS_INODE_BLOCKS_SIZE * DirEntsPerBlock = DirEntsPerBlock * MFS_INODE_BLOCKS_SIZE
    BY SizesAssumption
  <2>. QED BY <2>1, <2>2, <2>3
<1>7. HasRoom(d) <=> Tree!CanCreat(d)
  BY <1>5, <1>6 DEF HasRoom, Tree!CanCreat
<1>8. ASSUME free # {} PROVE Tree!NextId = new
  <2>1. \A n \in free : (\A k \in free : n <= k) => n = new
    BY <1>1, <1>4, <1>8
  <2>2. Tree!NextId = CHOOSE n \in free : \A k \in free : n <= k
    BY <1>1, <1>2 DEF Tree!NextId
  <2>. HIDE DEF new, free
  <2>. QED BY <1>4, <1>8, <2>1, <2>2
<1>. QED BY <1>3, <1>7, <1>8 DEF HasRoom

(***************************************************************************)
(* The blocks that a Creat takes.                                          *)
(***************************************************************************)
LEMMA MoreBlocksAre ==
  ASSUME TypeInv, Sound, Ordered, NEW d \in Dirs, NEW t \in TypeArgs
  PROVE  Tree!MoreBlocks(d, t) =
           (IF BlockNeeded(inodes[d]) THEN 1 ELSE 0) + (IF t = MFS_DIRECTORY THEN 1 ELSE 0)
<1>1. inodes[d] \in Inode /\ DirTable(inodes[d]) /\ 3 + TreeDirs[d].made = inodes[d].size + 1
      /\ inodes[d].block_nums \in Nat
  BY InUseTyped DEF Ordered, Inode, TreeDirs, Listing
<1>2. Tree!NewDirBlocks(t) = IF t = MFS_DIRECTORY THEN 1 ELSE 0
  BY DEF Tree!NewDirBlocks, Tree!Directory, MFS_DIRECTORY
<1>. QED BY <1>1, <1>2, BlocksOfDirectory, DirectoryBlocks DEF Tree!MoreBlocks

(***************************************************************************)
(* A Creat that finds its blocks finds them counted as free in the tree.   *)
(***************************************************************************)
LEMMA BlocksTaken ==
  ASSUME TypeInv, Sound, Ordered, NEW d \in Dirs, NEW t \in TypeArgs, NEW name,
         NEW new, NEW b \in Blocks, NEW own \in Pointers, Makes(d, t, name, new, b, own)
  PROVE  Tree!BlocksUsed + Tree!MoreBlocks(d, t) <= MFS_DATA_REGION_SIZE
<1>. DEFINE bitmap == TakenForEntry(inodes[d], data_bitmap)
<1>1. data_bitmap \in [Blocks -> {0, 1}]
  BY InUseTyped
<1>2. Cardinality(Marked(bitmap)) =
        Cardinality(Marked(data_bitmap)) + (IF BlockNeeded(inodes[d]) THEN 1 ELSE 0)
  <2>1. CASE BlockNeeded(inodes[d])
    BY <1>1, <2>1, MarkedBlocks DEF Makes
  <2>2. CASE ~BlockNeeded(inodes[d])
    BY <1>1, <2>2, MarkedBlocks DEF TakenForEntry
  <2>. QED BY <2>1, <2>2
<1>3. bitmap \in [Blocks -> {0, 1}]
  BY <1>1, OccupiedTypes DEF TakenForEntry
<1>4. t = MFS_DIRECTORY => own \in Blocks /\ bitmap[own] = 0
  BY DEF Makes
<1>. HIDE DEF bitmap
<1>5. CASE t = MFS_DIRECTORY
  <2>1. /\ Cardinality(Marked(Occupied(bitmap, own))) = Cardinality(Marked(bitmap)) + 1
        /\ Occupied(bitmap, own) \in [Blocks -> {0, 1}]
    BY <1>3, <1>4, <1>5, MarkedBlocks, OccupiedTypes
  <2>2. Cardinality(Marked(bitmap)) + 1 <= MFS_DATA_REGION_SIZE
    BY <2>1, MarkedBlocks
  <2>3. Cardinality(Marked(data_bitmap)) \in Nat
    BY <1>1, MarkedBlocks
  <2>. QED BY <1>2, <1>5, <2>2, <2>3, BlocksCounted, MoreBlocksAre, SizesAssumption
<1>6. CASE t # MFS_DIRECTORY
  <2>1. Cardinality(Marked(bitmap)) <= MFS_DATA_REGION_SIZE
    BY <1>3, MarkedBlocks
  <2>2. Cardinality(Marked(data_bitmap)) \in Nat
    BY <1>1, MarkedBlocks
  <2>. QED BY <1>2, <1>6, <2>1, <2>2, BlocksCounted, MoreBlocksAre, SizesAssumption
<1>. QED BY <1>5, <1>6

(***************************************************************************)
(* The names of a set of places when an entry is added to it.              *)
(***************************************************************************)
LEMMA NameAdded ==
  ASSUME NEW d, NEW S, S \subseteq Nat, NEW s \in Nat, s \notin S,
         NEW name \in Names, Places(d, S, name) = {}, NEW new \in Inums,
         \A i \in S : EntAt(inodes'[d], i, data') = EntAt(inodes[d], i, data),
         EntAt(inodes'[d], s, data') = [inum |-> new, name |-> name]
  PROVE  NamesTo(d, S \cup {s})' = Tree!With(NamesTo(d, S), name, new)
<1>. PICK T : T = S \cup {s}
  OBVIOUS
<1>. DEFINE At(n) == {i \in T : EntAt(inodes'[d], i, data').name = n
                               /\ EntAt(inodes'[d], i, data').inum >= 0}
<1>1. new >= 0
  BY ImageTypes
<1>2. At(name) = {s}
  <2>1. \A i \in S : ~(EntAt(inodes[d], i, data).name = name /\ EntAt(inodes[d], i, data).inum >= 0)
    BY DEF Places
  <2>2. \A i \in S : ~(EntAt(inodes'[d], i, data').name = name
                        /\ EntAt(inodes'[d], i, data').inum >= 0)
    BY <2>1
  <2>3. EntAt(inodes'[d], s, data').name = name /\ EntAt(inodes'[d], s, data').inum >= 0
    BY <1>1
  <2>4. \A i : i \in At(name) <=> i = s
    BY <2>2, <2>3
  <2>. QED BY <2>4
<1>3. ASSUME NEW n \in Names, n # name PROVE At(n) = Places(d, S, n)
  <2>1. EntAt(inodes'[d], s, data').name # n
    BY <1>3
  <2>2. \A i : i \in At(n) <=> i \in Places(d, S, n)
    BY <2>1 DEF Places
  <2>. QED BY <2>2
<1>4. NamesIn(d, T)' = NamesIn(d, S) \cup {name}
  <2>1. \A n : n \in NamesIn(d, T)' <=> n \in Names /\ At(n) # {}
    BY DEF NamesIn
  <2>2. \A n : n \in NamesIn(d, S) <=> n \in Names /\ Places(d, S, n) # {}
    BY DEF NamesIn, Places
  <2>. HIDE DEF At
  <2>. QED BY <1>2, <1>3, <2>1, <2>2
<1>5. \A n : FirstWith(d, T, n)' = Min(At(n))
  BY DEF FirstWith
<1>6. NamesTo(d, T)' = [n \in NamesIn(d, T)' |-> EntAt(inodes'[d], FirstWith(d, T, n)', data').inum]
  BY DEF NamesTo
<1>7. NamesTo(d, S) = [n \in NamesIn(d, S) |-> EntAt(inodes[d], FirstWith(d, S, n), data).inum]
  BY DEF NamesTo
<1>. HIDE DEF At
<1>8. EntAt(inodes'[d], FirstWith(d, T, name)', data').inum = new
  <2>1. Min({s}) = s
    BY MinOfNats
  <2>. QED BY <1>2, <1>5, <2>1
<1>9. ASSUME NEW n \in NamesIn(d, S), n # name
      PROVE  EntAt(inodes'[d], FirstWith(d, T, n)', data').inum = NamesTo(d, S)[n]
  <2>1. n \in Names /\ n \in DOMAIN NamesTo(d, S)
    BY <1>7 DEF NamesIn
  <2>2. Places(d, S, n) # {} /\ FirstWith(d, S, n) \in Places(d, S, n)
    BY <2>1, FirstPlaceWith
  <2>3. FirstWith(d, T, n)' = FirstWith(d, S, n)
    BY <1>3, <1>5, <1>9, <2>1 DEF FirstWith, Places
  <2>4. FirstWith(d, S, n) \in S
    BY <2>2 DEF Places
  <2>. QED BY <1>7, <2>3, <2>4
<1>. QED BY <1>4, <1>6, <1>7, <1>8, <1>9 DEF Tree!With

(***************************************************************************)
(* The first block of a new directory is not cleared: what its first two   *)
(* entries say are the names that it starts with.                          *)
(***************************************************************************)
LEMMA PairSize ==
  ASSUME NEW a, NEW b, NEW S, S \subseteq {a, b}
  PROVE  Tree!Cardinality(S) <= 2
<1>1. IsFiniteSet({a}) /\ Cardinality({a}) = 1
  BY FS_Singleton
<1>2. {a, b} = {a} \cup {b}
  OBVIOUS
<1>3. /\ IsFiniteSet({a, b})
      /\ Cardinality({a, b}) = IF b \in {a} THEN 1 ELSE 2
  BY <1>1, <1>2, FS_AddElement
<1>4. S \in SUBSET {a, b}
  OBVIOUS
<1>5. Cardinality(S) <= Cardinality({a, b}) /\ Cardinality(S) \in Nat
  BY <1>3, <1>4, FS_Subset, FS_CardinalityType
<1>6. Cardinality(S) <= 2
  BY <1>3, <1>5
<1>. QED BY <1>6 DEF Tree!Cardinality, Cardinality

(***************************************************************************)
(* A new directory shows no entries, and of leftovers what its block       *)
(* happens to hold.                                                        *)
(***************************************************************************)
LEMMA NewListing ==
  ASSUME TypeInv', Sound', NEW new \in Inums, NEW own \in Blocks,
         inodes'[new] = EmptyDir(own)
  PROVE  \E left \in Tree!Leftovers :
           Listing(new)' = [entries |-> Tree!Empty, leftovers |-> left, made |-> 0]
<1>. PICK T : T = 0 .. 1
  OBVIOUS
<1>1. inodes'[new].size = 2 /\ inodes'[new].blocks[0] = own
  BY SizesAssumption DEF EmptyDir, NoBlocks, BlockIndices
<1>2. NamesTo(new, {})' = Tree!Empty
  <2>1. NamesIn(new, {})' = {}
    BY DEF NamesIn
  <2>. QED BY <2>1 DEF NamesTo, Tree!Empty
<1>3. \A i \in T : EntAt(inodes'[new], i, data') \in DirEnt
  <2>. SUFFICES ASSUME NEW i \in T PROVE EntAt(inodes'[new], i, data') \in DirEnt
    OBVIOUS
  <2>1. i \div DirEntsPerBlock = 0 /\ i % DirEntsPerBlock \in Slots
    BY SizesAssumption DEF Slots
  <2>2. data'[own] \in DataBlock
    BY DEF TypeInv, TypeOK, Sound, Pointers
  <2>. QED BY <1>1, <2>1, <2>2 DEF EntAt, EntBlock, DataBlock
<1>4. NamesIn(new, T)' \subseteq Names
  BY DEF NamesIn
<1>5. Tree!Cardinality(NamesIn(new, T)') <= 2
  <2>1. NamesIn(new, T)' \subseteq {EntAt(inodes'[new], 0, data').name, EntAt(inodes'[new], 1, data').name}
    BY DEF NamesIn
  <2>. QED BY <2>1, PairSize
<1>6. ASSUME NEW n \in NamesIn(new, T)'
      PROVE  EntAt(inodes'[new], FirstWith(new, T, n)', data').inum \in Inums \cup TextInums
  <2>. DEFINE H == {i \in T : EntAt(inodes'[new], i, data').name = n
                            /\ EntAt(inodes'[new], i, data').inum >= 0}
  <2>1. H # {} /\ H \subseteq Nat
    BY DEF NamesIn
  <2>2. FirstWith(new, T, n)' = Min(H)
    BY DEF FirstWith
  <2>3. FirstWith(new, T, n)' \in H
    <3>. HIDE DEF H
    <3>. QED BY <2>1, <2>2, MinOfNats
  <2>. QED BY <1>3, <2>3 DEF DirEnt
<1>7. NamesTo(new, T)' \in Tree!Leftovers
  <2>1. NamesTo(new, T)' \in [NamesIn(new, T)' -> Inums \cup TextInums]
    BY <1>6 DEF NamesTo
  <2>. QED BY <1>4, <1>5, <2>1 DEF Tree!Leftovers
<1>8. Listing(new)' = [entries |-> NamesTo(new, {})', leftovers |-> NamesTo(new, T)', made |-> 0]
  <2>1. 2 .. inodes'[new].size - 1 = {} /\ inodes'[new].size - 2 = 0
    BY <1>1
  <2>. QED BY <2>1 DEF Listing
<1>. QED BY <1>2, <1>7, <1>8

(***************************************************************************)
(* What the making of an inode does to the directories that there were.    *)
(***************************************************************************)
LEMMA MadeListings ==
  ASSUME TypeInv, Sound, Ordered, NEW pinum, NEW t \in TypeArgs, NEW name \in Names,
         NEW new \in Inums, NEW b \in Blocks, NEW own \in Pointers,
         Makes(pinum, t, name, new, b, own)
  PROVE  /\ Listing(pinum)' = [entries |-> Tree!With(Listing(pinum).entries, name, new),
                               leftovers |-> Listing(pinum).leftovers,
                               made |-> Listing(pinum).made + 1]
         /\ \A d \in Dirs \ {pinum} : Listing(d)' = Listing(d)
<1>1. /\ pinum \in Dirs /\ inodes[pinum] \in Inode
      /\ inodes'[pinum].size = inodes[pinum].size + 1
      /\ EntAt(inodes'[pinum], inodes[pinum].size, data') = [inum |-> new, name |-> name]
      /\ \A d \in Dirs : \A i \in 0 .. inodes[d].size - 1 :
           EntAt(inodes'[d], i, data') = EntAt(inodes[d], i, data)
  <2>1. pinum \in Dirs /\ inodes[pinum] \in Inode /\ inodes'[pinum].size = inodes[pinum].size + 1
    BY MakesEntries, Zenon
  <2>2. /\ Live(pinum)' = Live(pinum) \cup {inodes[pinum].size}
        /\ EntAt(inodes'[pinum], inodes[pinum].size, data') = [inum |-> new, name |-> name]
    BY MakesEntries
  <2>3. \A d \in Dirs : \A i \in 0 .. inodes[d].size - 1 :
          EntAt(inodes'[d], i, data') = EntAt(inodes[d], i, data)
    BY MakesEntries, Zenon
  <2>. QED BY <2>1, <2>2, <2>3, Zenon
<1>2. \A d \in Dirs : inodes[d].size \in Nat /\ inodes[d].size >= 2
  BY InUseTyped DEF Ordered, DirTable, Inode
<1>. PICK s, S : s = inodes[pinum].size /\ S = 2 .. s - 1
  OBVIOUS
<1>3. /\ s \in Nat /\ s >= 2 /\ S \subseteq Nat /\ s \notin S
      /\ S \subseteq 0 .. s - 1 /\ 0 .. 1 \subseteq 0 .. s - 1 /\ 0 .. 1 \subseteq Nat
      /\ 2 .. inodes'[pinum].size - 1 = S \cup {s}
      /\ inodes'[pinum].size - 2 = s - 2 + 1
  BY <1>1, <1>2
<1>4. Places(pinum, S, name) = {}
  <2>1. name \notin DOMAIN TreeDirs[pinum].entries
    BY <1>1, NamesFound DEF Makes, Tree!Seen
  <2>2. DOMAIN TreeDirs[pinum].entries = NamesIn(pinum, S)
    BY <1>1 DEF TreeDirs, Listing, NamesTo
  <2>. QED BY <2>1, <2>2 DEF NamesIn, Places
<1>5. NamesTo(pinum, S \cup {s})' = Tree!With(NamesTo(pinum, S), name, new)
  <2>1. \A i \in S : EntAt(inodes'[pinum], i, data') = EntAt(inodes[pinum], i, data)
    BY <1>1, <1>3
  <2>2. EntAt(inodes'[pinum], s, data') = [inum |-> new, name |-> name]
    BY <1>1
  <2>. QED BY <1>3, <1>4, <2>1, <2>2, NameAdded
<1>6. NamesTo(pinum, 0 .. 1)' = NamesTo(pinum, 0 .. 1)
  BY <1>1, <1>3, SameNamesTo
<1>7. /\ Listing(pinum).entries = NamesTo(pinum, S)
      /\ Listing(pinum).leftovers = NamesTo(pinum, 0 .. 1)
      /\ Listing(pinum).made = s - 2
  BY DEF Listing
<1>8. Listing(pinum)' = [entries |-> NamesTo(pinum, S \cup {s})',
                        leftovers |-> NamesTo(pinum, 0 .. 1)', made |-> s - 2 + 1]
  BY <1>3 DEF Listing
<1>9. ASSUME NEW d \in Dirs \ {pinum} PROVE Listing(d)' = Listing(d)
  <2>1. inodes'[d] = inodes[d]
    BY InUseTyped DEF Makes
  <2>. QED BY <1>1, <1>2, <2>1, SameListing
<1>. QED BY <1>5, <1>6, <1>7, <1>8, <1>9

(***************************************************************************)
(* A file with the same pointers to the same contents reads the same.      *)
(***************************************************************************)
LEMMA SameText ==
  ASSUME NEW n, inodes'[n].blocks = inodes[n].blocks,
         \A j \in Held(inodes[n]) : data'[inodes[n].blocks[j]] = data[inodes[n].blocks[j]]
  PROVE  TextOf(n)' = TextOf(n)
BY DEF TextOf, Held

(***************************************************************************)
(* A pointer of a file leads to a block that Read finds.                   *)
(***************************************************************************)
LEMMA HeldIsReadable ==
  ASSUME TypeInv, Sound, Ordered, NEW n \in InUse \ Dirs, NEW j \in Held(inodes[n])
  PROVE  n \in Inums /\ j \in BlockIndices /\ Readable(n, j)
<1>1. j \in BlockArgs /\ j \in BlockIndices
  BY SizesAssumption DEF Held, BlockArgs, BlockIndices
<1>. QED BY <1>1, BlocksFound, InUseTyped DEF Readable, Held

(***************************************************************************)
(* Creat leaves the files as they are, but for the empty one that it may   *)
(* make.                                                                   *)
(***************************************************************************)
LEMMA MadeFiles ==
  ASSUME ImageInv, ImageInv', Sound, Sound', NEW pinum, NEW t \in TypeArgs, NEW name,
         NEW new \in Inums, NEW b \in Blocks, NEW own \in Pointers,
         Makes(pinum, t, name, new, b, own)
  PROVE  /\ t = MFS_DIRECTORY => TreeFiles' = TreeFiles
         /\ t # MFS_DIRECTORY => TreeFiles' = Tree!With(TreeFiles, new, Tree!Empty)
<1>1. TypeInv /\ Ordered
  BY DEF ImageInv
<1>2. /\ pinum \in Dirs /\ new \notin InUse
      /\ InUse' = InUse \cup {new}
      /\ t = MFS_DIRECTORY => Dirs' = Dirs \cup {new}
      /\ t # MFS_DIRECTORY => Dirs' = Dirs
      /\ Dirs \subseteq InUse
  BY <1>1, MakesEntries, InUseTyped
<1>3. ASSUME NEW n \in InUse \ Dirs PROVE TextOf(n)' = TextOf(n)
  <2>1. inodes'[n] = inodes[n]
    BY <1>2 DEF Makes
  <2>2. \A j \in Held(inodes[n]) : data'[inodes[n].blocks[j]] = data[inodes[n].blocks[j]]
    BY <1>1, <2>1, HeldIsReadable, MakesKeepsFiles DEF Kept
  <2>. QED BY <2>1, <2>2, SameText
<1>4. CASE t = MFS_DIRECTORY
  <2>1. (InUse \ Dirs)' = InUse \ Dirs
    BY <1>2, <1>4
  <2>. QED BY <1>3, <1>4, <2>1 DEF TreeFiles
<1>5. CASE t # MFS_DIRECTORY
  <2>1. (InUse \ Dirs)' = (InUse \ Dirs) \cup {new}
    BY <1>2, <1>5
  <2>2. inodes'[new].blocks = NoBlocks
    BY <1>5 DEF Makes, NewInode, ZeroInode
  <2>3. TextOf(new)' = Tree!Empty
    <3>1. {j \in BlockIndices : inodes'[new].blocks[j] # -1} = {}
      BY <2>2 DEF NoBlocks
    <3>. QED BY <3>1 DEF TextOf, Tree!Empty
  <2>. QED BY <1>2, <1>3, <1>5, <2>1, <2>3 DEF TreeFiles, Tree!With
<1>. QED BY <1>4, <1>5

(***************************************************************************)
(* A Creat that makes something does so in the tree, with as many blocks   *)
(* as the tree counts.                                                     *)
(***************************************************************************)
LEMMA MadeInTree ==
  ASSUME ImageInv, ImageInv', Sound, Sound', NEW pinum, NEW t \in TypeArgs, NEW name \in Names,
         NEW new \in Inums, NEW b \in Blocks, NEW own \in Pointers,
         Makes(pinum, t, name, new, b, own)
  PROVE  /\ t # MFS_DIRECTORY => TreeDirs' = Tree!Entered(pinum, name, new)
         /\ t = MFS_DIRECTORY =>
              \E left \in Tree!Leftovers :
                TreeDirs' = Tree!With(Tree!Entered(pinum, name, new), new,
                                      [entries |-> Tree!Empty, leftovers |-> left, made |-> 0])
<1>1. TypeInv /\ Ordered /\ TypeInv'
  BY DEF ImageInv
<1>2. /\ pinum \in Dirs /\ new \notin Dirs
      /\ t = MFS_DIRECTORY => Dirs' = Dirs \cup {new}
      /\ t # MFS_DIRECTORY => Dirs' = Dirs
  BY <1>1, MakesEntries, InUseTyped
<1>3. /\ Listing(pinum)' = [entries |-> Tree!With(Listing(pinum).entries, name, new),
                            leftovers |-> Listing(pinum).leftovers,
                            made |-> Listing(pinum).made + 1]
      /\ \A d \in Dirs \ {pinum} : Listing(d)' = Listing(d)
  BY <1>1, MadeListings
<1>4. [Listing(pinum) EXCEPT !.entries = Tree!With(@, name, new), !.made = @ + 1] =
        [entries |-> Tree!With(Listing(pinum).entries, name, new),
         leftovers |-> Listing(pinum).leftovers,
         made |-> Listing(pinum).made + 1]
  <2>. PICK e, l, m : Listing(pinum) = [entries |-> e, leftovers |-> l, made |-> m]
    BY DEF Listing
  <2>. PICK x : x = Tree!With(e, name, new)
    OBVIOUS
  <2>1. [[entries |-> e, leftovers |-> l, made |-> m] EXCEPT !.entries = x]
          = [entries |-> x, leftovers |-> l, made |-> m]
    OBVIOUS
  <2>2. [[entries |-> x, leftovers |-> l, made |-> m] EXCEPT !.made = m + 1]
          = [entries |-> x, leftovers |-> l, made |-> m + 1]
    OBVIOUS
  <2>3. [[Listing(pinum) EXCEPT !.entries = x] EXCEPT !.made = m + 1]
          = [entries |-> x, leftovers |-> l, made |-> m + 1]
    BY <2>1, <2>2
  <2>4. Listing(pinum).entries = e /\ Listing(pinum).leftovers = l /\ Listing(pinum).made = m
    OBVIOUS
  <2>. QED BY <2>3, <2>4, Zenon
<1>5. Tree!Entered(pinum, name, new) =
        [d \in Dirs |-> IF d = pinum THEN Listing(pinum)' ELSE Listing(d)]
  BY <1>2, <1>3, <1>4 DEF Tree!Entered, TreeDirs
<1>6. CASE t # MFS_DIRECTORY
  BY <1>2, <1>3, <1>5, <1>6 DEF TreeDirs
<1>7. CASE t = MFS_DIRECTORY
  <2>1. own \in Blocks /\ inodes'[new] = EmptyDir(own)
    BY <1>7 DEF Makes, NewInode
  <2>2. PICK left \in Tree!Leftovers :
          Listing(new)' = [entries |-> Tree!Empty, leftovers |-> left, made |-> 0]
    BY <1>1, <2>1, NewListing
  <2>3. TreeDirs' = Tree!With(Tree!Entered(pinum, name, new), new,
                              [entries |-> Tree!Empty, leftovers |-> left, made |-> 0])
    BY <1>2, <1>3, <1>5, <1>7, <2>2 DEF TreeDirs, Tree!With
  <2>. QED BY <1>7, <2>3
<1>. QED BY <1>6, <1>7

(***************************************************************************)
(* Creat does and answers as the tree says.                                *)
(***************************************************************************)
LEMMA CreatIsTree ==
  ASSUME ImageInv, ImageInv', Sound, Sound',
         NEW pinum \in InumArgs, NEW t \in TypeArgs, NEW name \in Names,
         reply_Creat(pinum, t, name)
  PROVE  Tree!Creat(pinum, t, name)
<1>1. TypeInv /\ Ordered /\ DOMAIN TreeDirs = Dirs
  BY TreeNodes DEF ImageInv
<1>2. /\ CreatOK(pinum) <=> pinum \in Dirs
      /\ pinum \in Dirs => /\ Found(pinum, name) = -1 <=> name \notin Tree!Seen(pinum)
                           /\ HasRoom(pinum) <=> Tree!CanCreat(pinum)
  BY <1>1, OpenDirs, NamesFound, RoomInTree
<1>3. CASE CreatRefused(pinum, name)
  <2>1. Tree!Says(Tree!Answer(-1))
    BY <1>3, PlainlySaid DEF CreatRefused
  <2>. QED BY <1>1, <1>2, <1>3, <2>1 DEF CreatRefused, Tree!Creat
<1>4. CASE CreatExists(pinum, name)
  <2>1. Tree!Says(Tree!Answer(0))
    BY <1>4, PlainlySaid DEF CreatExists
  <2>. QED BY <1>1, <1>2, <1>4, <2>1 DEF CreatExists, Tree!Creat
<1>5. CASE CreatNew(pinum, t, name)
  <2>1. PICK new \in Inums, b \in Blocks, own \in Pointers : Makes(pinum, t, name, new, b, own)
    BY <1>1, <1>5, CreatNewMakes
  <2>2. HasRoom(pinum) /\ pinum \in Dirs /\ Found(pinum, name) = -1 /\ reply' = Reply("C", 0)
        /\ inode_bitmap' = Occupied(inode_bitmap, next_available_inode(inode_bitmap))
    BY <1>2, <1>5, Zenon DEF CreatNew
  <2>3. new = Tree!NextId
    <3>1. Tree!NextId = next_available_inode(inode_bitmap)
      BY <1>1, <2>2, RoomInTree
    <3>2. inode_bitmap' = Occupied(inode_bitmap, new) /\ inode_bitmap[new] = 0
      BY <2>1 DEF Makes
    <3>3. inode_bitmap'[new] = 1
      BY <1>1, <3>2, InUseTyped DEF Occupied
    <3>. QED BY <1>1, <2>2, <3>1, <3>2, <3>3, InUseTyped DEF Occupied
  <2>4. /\ name \notin Tree!Seen(pinum) /\ Tree!CanCreat(pinum)
        /\ Tree!BlocksUsed + Tree!MoreBlocks(pinum, t) <= MFS_DATA_REGION_SIZE
        /\ TreeAnswer' = Tree!Answer(0)
    BY <1>1, <1>2, <2>1, <2>2, BlocksTaken, PlainAnswer
  <2>5. CASE t = MFS_DIRECTORY
    <3>1. t = Tree!Directory
      BY <2>5 DEF Tree!Directory, MFS_DIRECTORY
    <3>2. TreeFiles' = TreeFiles
      BY <2>1, <2>5, MadeFiles
    <3>3. PICK left \in Tree!Leftovers :
            TreeDirs' = Tree!With(Tree!Entered(pinum, name, new), new,
                                  [entries |-> Tree!Empty, leftovers |-> left, made |-> 0])
      BY <2>1, <2>5, MadeInTree
    <3>. QED BY <1>1, <2>2, <2>3, <2>4, <3>1, <3>2, <3>3 DEF Tree!Creat
  <2>6. CASE t # MFS_DIRECTORY
    <3>1. t = Tree!RegularFile
      BY <2>6 DEF Tree!RegularFile, TypeArgs, MFS_DIRECTORY, MFS_REGULAR_FILE
    <3>2. TreeFiles' = Tree!With(TreeFiles, new, Tree!Empty)
      BY <2>1, <2>6, MadeFiles
    <3>3. TreeDirs' = Tree!Entered(pinum, name, new)
      BY <2>1, <2>6, MadeInTree
    <3>. QED BY <1>1, <2>2, <2>3, <2>4, <3>1, <3>2, <3>3 DEF Tree!Creat
  <2>. QED BY <2>5, <2>6
<1>. QED BY <1>3, <1>4, <1>5 DEF reply_Creat

-----------------------------------------------------------------------------
(***************************************************************************)
(* Unlink.                                                                 *)
(***************************************************************************)

(***************************************************************************)
(* A directory that empty_Directory takes for empty is one in which the    *)
(* tree shows no entries.                                                  *)
(***************************************************************************)
LEMMA EmptyInTree ==
  ASSUME TypeInv, Sound, Ordered, MadeNames, NEW n \in InUse
  PROVE  Removable(inodes[n]) <=> ~Tree!Busy(n)
<1>1. CASE n \notin Dirs
  BY <1>1, TreeNodes DEF Dirs, Removable, Tree!Busy
<1>2. CASE n \in Dirs
  <2>1. inodes[n] \in Inode /\ DirTable(inodes[n]) /\ inodes[n].type = MFS_DIRECTORY
    BY <1>2, InUseTyped DEF Ordered, Dirs
  <2>2. ASSUME NEW i \in 2 .. inodes[n].size - 1
        PROVE  EntAt(inodes[n], i, data).inum < 0 <=> EntAt(inodes[n], i, data).inum = -1
    <3>1. EntAt(inodes[n], i, data).inum # -1 => Target(n, i) \in InUse
      BY <1>2 DEF Ordered, EntriesUsed, Live, Target
    <3>2. EntAt(inodes[n], i, data).inum # -1 => EntAt(inodes[n], i, data).inum \in Nat
      BY <3>1, ImageTypes DEF InUse, Target
    <3>. QED BY <3>2
  <2>3. Removable(inodes[n]) <=> Live(n) = {}
    BY <2>1, <2>2 DEF Removable, empty_Directory, Live
  <2>4. DOMAIN TreeDirs[n].entries = NamesIn(n, 2 .. inodes[n].size - 1)
    BY <1>2 DEF TreeDirs, Listing, NamesTo
  <2>5. NamesIn(n, 2 .. inodes[n].size - 1) = {} <=> Live(n) = {}
    BY <1>2, LiveSeen DEF NamesIn, Live, MadeNames
  <2>. QED BY <1>2, <2>3, <2>4, <2>5, TreeNodes DEF Tree!Busy
<1>. QED BY <1>1, <1>2

(***************************************************************************)
(* What Found gives for a name that Creat made.                            *)
(***************************************************************************)
LEMMA MadeFound ==
  ASSUME TypeInv, Sound, Ordered, NEW d \in Dirs, NEW name \in Names,
         Found(d, name) # -1, ~(Found(d, name) < 2)
  PROVE  /\ Found(d, name) \in Live(d)
         /\ EntAt(inodes[d], Found(d, name), data).name = name
         /\ EntryFor(d, name).inum \in InUse \ {0}
         /\ name \in DOMAIN TreeDirs[d].entries \ DOMAIN TreeDirs[d].leftovers
         /\ TreeDirs[d].entries[name] = EntryFor(d, name).inum
<1>1. inodes[d] \in Inode /\ DirTable(inodes[d])
  BY InUseTyped DEF Ordered
<1>2. /\ Found(d, name) \in 0 .. inodes[d].size - 1
      /\ EntAt(inodes[d], Found(d, name), data).inum >= 0
      /\ EntAt(inodes[d], Found(d, name), data).name = name
  BY <1>1, SearchFinds DEF Found, Hits
<1>3. Found(d, name) \in Live(d)
  BY <1>1, <1>2 DEF Live, Inode
<1>4. EntryFor(d, name).inum \in InUse \ {0}
  BY <1>3 DEF Ordered, EntriesUsed, Target, EntryFor
<1>5. /\ name \notin DOMAIN TreeDirs[d].leftovers
      /\ name \in DOMAIN TreeDirs[d].entries
      /\ TreeDirs[d].entries[name] = EntryFor(d, name).inum
  <2>1. Found(d, name) \in Int
    BY <1>1, <1>2 DEF Inode
  <2>. QED BY <2>1, NamesFound
<1>. QED BY <1>2, <1>3, <1>4, <1>5

(***************************************************************************)
(* The names of a set of places when one of its entries goes.              *)
(***************************************************************************)
LEMMA NameGone ==
  ASSUME NEW d, NEW S, S \subseteq Nat, NEW i0, i0 \in S,
         NEW name \in Names, EntAt(inodes[d], i0, data).name = name,
         \A i \in Places(d, S, name) : i = i0,
         EntAt(inodes'[d], i0, data') = UnusedEnt,
         \A i \in S : i # i0 => EntAt(inodes'[d], i, data') = EntAt(inodes[d], i, data)
  PROVE  NamesTo(d, S)' = Tree!Without(NamesTo(d, S), {name})
<1>. DEFINE At(n) == {i \in S : EntAt(inodes'[d], i, data').name = n
                               /\ EntAt(inodes'[d], i, data').inum >= 0}
<1>1. ~(EntAt(inodes'[d], i0, data').inum >= 0)
  BY DEF UnusedEnt
<1>2. EntAt(inodes[d], i0, data).name = name
  OBVIOUS
<1>3. At(name) = {}
  <2>1. \A i \in S : i # i0 => ~(EntAt(inodes[d], i, data).name = name
                                 /\ EntAt(inodes[d], i, data).inum >= 0)
    BY DEF Places
  <2>2. \A i \in S : ~(EntAt(inodes'[d], i, data').name = name
                        /\ EntAt(inodes'[d], i, data').inum >= 0)
    BY <1>1, <2>1
  <2>. QED BY <2>2
<1>4. ASSUME NEW n \in Names, n # name PROVE At(n) = Places(d, S, n)
  <2>1. \A i : i \in At(n) <=> i \in Places(d, S, n)
    BY <1>1, <1>2, <1>4 DEF Places
  <2>. QED BY <2>1
<1>5. NamesIn(d, S)' = NamesIn(d, S) \ {name}
  <2>1. \A n : n \in NamesIn(d, S)' <=> n \in Names /\ At(n) # {}
    BY DEF NamesIn
  <2>2. \A n : n \in NamesIn(d, S) <=> n \in Names /\ Places(d, S, n) # {}
    BY DEF NamesIn, Places
  <2>. HIDE DEF At
  <2>. QED BY <1>3, <1>4, <2>1, <2>2
<1>6. \A n : FirstWith(d, S, n)' = Min(At(n))
  BY DEF FirstWith
<1>7. NamesTo(d, S)' = [n \in NamesIn(d, S)' |-> EntAt(inodes'[d], FirstWith(d, S, n)', data').inum]
  BY DEF NamesTo
<1>8. NamesTo(d, S) = [n \in NamesIn(d, S) |-> EntAt(inodes[d], FirstWith(d, S, n), data).inum]
  BY DEF NamesTo
<1>. HIDE DEF At
<1>9. ASSUME NEW n \in NamesIn(d, S) \ {name}
      PROVE  EntAt(inodes'[d], FirstWith(d, S, n)', data').inum = NamesTo(d, S)[n]
  <2>1. n \in Names /\ n \in DOMAIN NamesTo(d, S)
    BY <1>8 DEF NamesIn
  <2>2. Places(d, S, n) # {} /\ FirstWith(d, S, n) \in Places(d, S, n)
    BY <2>1, FirstPlaceWith
  <2>3. FirstWith(d, S, n)' = FirstWith(d, S, n)
    BY <1>4, <1>6, <2>1 DEF FirstWith, Places
  <2>4. FirstWith(d, S, n) \in S /\ EntAt(inodes[d], FirstWith(d, S, n), data).name = n
    BY <2>2 DEF Places
  <2>5. FirstWith(d, S, n) # i0
    BY <1>2, <2>4
  <2>. QED BY <1>8, <2>3, <2>4, <2>5
<1>. QED BY <1>5, <1>7, <1>8, <1>9 DEF Tree!Without

(***************************************************************************)
(* What the removal of an inode does to the directories that stay.         *)
(***************************************************************************)
LEMMA RemovedListings ==
  ASSUME TypeInv, Sound, Ordered, NEW pinum, NEW name \in Names, NEW i0, NEW x,
         Removes(pinum, i0, x), EntAt(inodes[pinum], i0, data).name = name
  PROVE  /\ Listing(pinum)' = [entries |-> Tree!Without(Listing(pinum).entries, {name}),
                               leftovers |-> Listing(pinum).leftovers,
                               made |-> Listing(pinum).made]
         /\ \A d \in Dirs' \ {pinum} : Listing(d)' = Listing(d)
<1>1. /\ pinum \in Dirs /\ pinum \in Dirs' /\ pinum # x /\ i0 \in Live(pinum)
      /\ Dirs' = Dirs \ {x} /\ Dirs \subseteq InUse
      /\ \A n \in InUse \ {x} : inodes'[n].size = inodes[n].size
      /\ \A d \in Dirs' : \A i \in 0 .. inodes[d].size - 1 :
           EntAt(inodes'[d], i, data') = IF d = pinum /\ i = i0 THEN UnusedEnt
                                         ELSE EntAt(inodes[d], i, data)
  BY InUseTyped DEF Removes
<1>2. \A d \in Dirs : inodes[d].size \in Nat /\ inodes[d].size >= 2
  BY InUseTyped DEF Ordered, DirTable, Inode
<1>3. PICK s, S : s = inodes[pinum].size /\ S = 2 .. s - 1
  OBVIOUS
<1>4. /\ s \in Nat /\ s >= 2 /\ S \subseteq Nat /\ inodes'[pinum].size = s
      /\ S \subseteq 0 .. s - 1 /\ 0 .. 1 \subseteq 0 .. s - 1 /\ 0 .. 1 \subseteq Nat
      /\ i0 \in S /\ i0 \notin 0 .. 1
  BY <1>1, <1>2, <1>3 DEF Live
<1>5. \A i \in Places(pinum, S, name) : i = i0
  <2>1. \A i \in Places(pinum, S, name) :
          i \in Live(pinum) /\ EntAt(inodes[pinum], i, data).name = name
    BY <1>3 DEF Places, Live
  <2>. QED BY <1>1, <2>1 DEF Ordered, NamesOnce
<1>6. NamesTo(pinum, S)' = Tree!Without(NamesTo(pinum, S), {name})
  <2>1. /\ EntAt(inodes'[pinum], i0, data') = UnusedEnt
        /\ \A i \in S : i # i0 =>
             EntAt(inodes'[pinum], i, data') = EntAt(inodes[pinum], i, data)
    BY <1>1, <1>4
  <2>2. S \subseteq Nat /\ i0 \in S
    BY <1>4
  <2>. QED BY <1>5, <2>1, <2>2, NameGone
<1>7. NamesTo(pinum, 0 .. 1)' = NamesTo(pinum, 0 .. 1)
  <2>1. \A i \in 0 .. 1 : EntAt(inodes'[pinum], i, data') = EntAt(inodes[pinum], i, data)
    BY <1>1, <1>4
  <2>. QED BY <1>4, <2>1, SameNamesTo
<1>8. /\ Listing(pinum).entries = NamesTo(pinum, S)
      /\ Listing(pinum).leftovers = NamesTo(pinum, 0 .. 1)
      /\ Listing(pinum).made = s - 2
  BY <1>3 DEF Listing
<1>9. Listing(pinum)' = [entries |-> NamesTo(pinum, S)',
                        leftovers |-> NamesTo(pinum, 0 .. 1)', made |-> s - 2]
  BY <1>3, <1>4 DEF Listing
<1>10. ASSUME NEW d \in Dirs' \ {pinum} PROVE Listing(d)' = Listing(d)
  <2>1. d \in Dirs /\ inodes'[d].size = inodes[d].size
    BY <1>1
  <2>2. \A i \in 0 .. inodes[d].size - 1 : EntAt(inodes'[d], i, data') = EntAt(inodes[d], i, data)
    BY <1>1
  <2>. QED BY <1>2, <2>1, <2>2, SameListing
<1>. QED BY <1>6, <1>7, <1>8, <1>9, <1>10

(***************************************************************************)
(* Unlink takes the name, and the directory that it led to.                *)
(***************************************************************************)
LEMMA RemovedInTree ==
  ASSUME TypeInv, Sound, Ordered, NEW pinum, NEW name \in Names, NEW i0, NEW x,
         Removes(pinum, i0, x), EntAt(inodes[pinum], i0, data).name = name
  PROVE  TreeDirs' = Tree!Without([TreeDirs EXCEPT ![pinum].entries = Tree!Without(@, {name})], {x})
<1>1. pinum \in Dirs /\ pinum # x /\ Dirs' = Dirs \ {x}
  BY DEF Removes
<1>2. /\ Listing(pinum)' = [entries |-> Tree!Without(Listing(pinum).entries, {name}),
                            leftovers |-> Listing(pinum).leftovers,
                            made |-> Listing(pinum).made]
      /\ \A d \in Dirs' \ {pinum} : Listing(d)' = Listing(d)
  BY RemovedListings
<1>3. [Listing(pinum) EXCEPT !.entries = Tree!Without(@, {name})] = Listing(pinum)'
  <2>. PICK e, l, m : Listing(pinum) = [entries |-> e, leftovers |-> l, made |-> m]
    BY DEF Listing
  <2>. PICK y : y = Tree!Without(e, {name})
    OBVIOUS
  <2>1. [[entries |-> e, leftovers |-> l, made |-> m] EXCEPT !.entries = y]
          = [entries |-> y, leftovers |-> l, made |-> m]
    OBVIOUS
  <2>2. Listing(pinum).entries = e /\ Listing(pinum).leftovers = l /\ Listing(pinum).made = m
    OBVIOUS
  <2>3. [Listing(pinum) EXCEPT !.entries = y] = [entries |-> y, leftovers |-> l, made |-> m]
    BY <2>1
  <2>. QED BY <1>2, <2>2, <2>3, Zenon
<1>4. [TreeDirs EXCEPT ![pinum].entries = Tree!Without(@, {name})] =
        [d \in Dirs |-> IF d = pinum THEN Listing(pinum)' ELSE Listing(d)]
  BY <1>1, <1>3 DEF TreeDirs
<1>. QED BY <1>1, <1>2, <1>4 DEF TreeDirs, Tree!Without

(***************************************************************************)
(* Unlink takes the file that the name led to, and leaves the others.      *)
(***************************************************************************)
LEMMA RemovedFiles ==
  ASSUME ImageInv, ImageInv', Sound, Sound', NEW pinum \in InumArgs, NEW name \in Names,
         UnlinkRemove(pinum, name)
  PROVE  TreeFiles' = Tree!Without(TreeFiles, {EntryFor(pinum, name).inum})
<1>. PICK i0, x : i0 = Found(pinum, name) /\ x = EntryFor(pinum, name).inum
  OBVIOUS
<1>1. TypeInv /\ Ordered /\ Removes(pinum, i0, x)
  BY UnlinkRemoves DEF ImageInv
<1>2. (InUse \ Dirs)' = (InUse \ Dirs) \ {x}
  BY <1>1 DEF Removes
<1>3. ASSUME NEW n \in (InUse \ Dirs) \ {x} PROVE TextOf(n)' = TextOf(n)
  <2>1. inodes'[n].blocks = inodes[n].blocks
    BY <1>1 DEF Removes
  <2>2. \A j \in Held(inodes[n]) : data'[inodes[n].blocks[j]] = data[inodes[n].blocks[j]]
    BY <1>1, <2>1, HeldIsReadable, UnlinkRemoveKeepsFiles DEF Kept
  <2>. QED BY <2>1, <2>2, SameText
<1>. QED BY <1>2, <1>3 DEF TreeFiles, Tree!Without

(***************************************************************************)
(* Unlink does and answers as the tree says.                               *)
(***************************************************************************)
LEMMA UnlinkIsTree ==
  ASSUME ImageInv, ImageInv', MadeNames, Sound, Sound',
         NEW pinum \in InumArgs, NEW name \in Names, reply_Unlink(pinum, name)
  PROVE  Tree!Unlink(pinum, name)
<1>1. TypeInv /\ Ordered /\ DOMAIN TreeDirs = Dirs
  BY TreeNodes DEF ImageInv
<1>2. /\ UnlinkOK(pinum) <=> pinum \in Dirs
      /\ pinum \in Dirs => (Found(pinum, name) = -1 <=> name \notin Tree!Seen(pinum))
  BY <1>1, OpenDirs, NamesFound
<1>3. CASE UnlinkRefused(pinum, name)
  <2>1. Tree!Says(Tree!Answer(-1))
    BY <1>3, PlainlySaid DEF UnlinkRefused
  <2>2. CASE pinum \notin Dirs
    BY <1>1, <2>1, <2>2 DEF Tree!Unlink
  <2>3. CASE pinum \in Dirs
    <3>1. /\ Found(pinum, name) # -1 /\ name \in Tree!Seen(pinum)
          /\ \E unlinked \in Loaded(EntryFor(pinum, name).inum) : ~Removable(unlinked)
      BY <1>2, <1>3, <2>3 DEF UnlinkRefused, LoadedFor
    <3>2. CASE Found(pinum, name) < 2
      <4>1. name \in DOMAIN TreeDirs[pinum].leftovers
        BY <1>1, <2>3, <3>1, <3>2, NamesFound
      <4>. QED BY <1>1, <2>1, <2>3, <3>1, <4>1 DEF Tree!Unlink
    <3>3. CASE ~(Found(pinum, name) < 2)
      <4>1. /\ EntryFor(pinum, name).inum \in InUse \ {0}
            /\ TreeDirs[pinum].entries[name] = EntryFor(pinum, name).inum
        BY <1>1, <2>3, <3>1, <3>3, MadeFound
      <4>2. ~Removable(inodes[EntryFor(pinum, name).inum])
        BY <3>1, <4>1, InTable DEF InUse
      <4>3. Tree!Busy(TreeDirs[pinum].entries[name])
        BY <1>1, <4>1, <4>2, EmptyInTree
      <4>. QED BY <1>1, <2>1, <2>3, <3>1, <4>3 DEF Tree!Unlink
    <3>. QED BY <3>2, <3>3
  <2>. QED BY <2>2, <2>3
<1>4. CASE UnlinkAbsent(pinum, name)
  <2>1. Tree!Says(Tree!Answer(0))
    BY <1>4, PlainlySaid DEF UnlinkAbsent
  <2>. QED BY <1>1, <1>2, <1>4, <2>1 DEF UnlinkAbsent, Tree!Unlink
<1>5. CASE UnlinkRemove(pinum, name)
  <2>. PICK i0, x : i0 = Found(pinum, name) /\ x = EntryFor(pinum, name).inum
    OBVIOUS
  <2>1. Removes(pinum, i0, x)
    BY <1>1, <1>5, UnlinkRemoves
  <2>2. /\ pinum \in Dirs /\ i0 # -1 /\ ~(i0 < 2) /\ Removable(inodes[x])
        /\ reply' = Reply("U", 0)
    <3>1. UnlinkMade(pinum, name) /\ i0 >= 2 /\ i0 \in Int
      <4>1. UnlinkMade(pinum, name) /\ i0 >= 2 /\ i0 # -1
        BY <1>5, RemovesMade, Zenon DEF ImageInv, TypeInv, Sound, UnlinkMade
      <4>2. pinum \in Dirs
        BY <1>2, <4>1 DEF UnlinkMade
      <4>3. i0 \in Hits(inodes[pinum], name, data) /\ inodes[pinum].size \in Nat
        BY <1>1, <4>1, <4>2, InUseTyped, SearchFinds DEF Found, Inode
      <4>. QED BY <4>1, <4>3 DEF Hits
    <3>2. UnlinkOK(pinum) /\ i0 # -1 /\ Removable(inodes[x]) /\ reply' = Reply("U", 0)
      BY <3>1, Zenon DEF UnlinkMade
    <3>. QED BY <1>2, <3>1, <3>2
  <2>3. /\ EntAt(inodes[pinum], i0, data).name = name
        /\ x \in InUse \ {0}
        /\ name \in DOMAIN TreeDirs[pinum].entries \ DOMAIN TreeDirs[pinum].leftovers
        /\ TreeDirs[pinum].entries[name] = x
    BY <1>1, <2>2, MadeFound
  <2>4. ~Tree!Busy(x)
    BY <1>1, <2>2, <2>3, EmptyInTree
  <2>5. /\ TreeDirs' = Tree!Without([TreeDirs EXCEPT ![pinum].entries = Tree!Without(@, {name})], {x})
        /\ TreeFiles' = Tree!Without(TreeFiles, {x})
        /\ TreeAnswer' = Tree!Answer(0)
    <3>1. TreeDirs' = Tree!Without([TreeDirs EXCEPT ![pinum].entries = Tree!Without(@, {name})], {x})
      BY <1>1, <2>1, <2>3, RemovedInTree
    <3>. QED BY <1>5, <2>2, <3>1, RemovedFiles, PlainAnswer
  <2>. QED BY <1>1, <2>2, <2>3, <2>4, <2>5 DEF Tree!Unlink
<1>. QED BY <1>3, <1>4, <1>5 DEF reply_Unlink

-----------------------------------------------------------------------------
(***************************************************************************)
(* Harm comes only from the requests that the tree warns of.               *)
(***************************************************************************)
LEMMA WriteBreaks ==
  ASSUME TypeInv, Sound, Ordered, ~Sound', NEW inum \in InumArgs, NEW block \in BlockArgs,
         NEW text \in Texts, reply_Write(inum, block, text)
  PROVE  inum \in DOMAIN TreeFiles /\ block = MFS_INODE_BLOCKS_SIZE
<1>1. ASSUME NEW r, Answer(r) PROVE FALSE
  BY <1>1 DEF Answer, Sound
<1>2. ASSUME WriteOK(inum, block), block \notin BlockIndices
      PROVE  inum \in DOMAIN TreeFiles /\ block = MFS_INODE_BLOCKS_SIZE
  <2>1. inum \in InUse \ Dirs /\ block \in 0 .. MFS_INODE_BLOCKS_SIZE
    BY <1>2, WritableInTree
  <2>. QED BY <1>2, <2>1, TreeNodes, SizesAssumption DEF BlockIndices
<1>3. CASE WriteNewBlock(inum, block, text)
  <2>1. harm' = harm \cup Struck("past_table", block \notin BlockIndices) /\ WriteOK(inum, block)
    BY <1>3, Zenon DEF WriteNewBlock
  <2>2. block \notin BlockIndices
    BY <2>1 DEF Struck, Sound
  <2>. QED BY <1>2, <2>1, <2>2
<1>4. CASE WritePastTable(inum, block, text)
  <2>1. WriteOK(inum, block) /\ block = MFS_INODE_BLOCKS_SIZE
    BY <1>4 DEF WritePastTable
  <2>2. block \notin BlockIndices
    BY <2>1, SizesAssumption DEF BlockIndices
  <2>. QED BY <1>2, <2>1, <2>2
<1>5. CASE WriteInPlace(inum, block, text)
  BY <1>5 DEF WriteInPlace, Sound
<1>. QED BY <1>1, <1>3, <1>4, <1>5 DEF reply_Write, WriteRefused, WriteNoSpace

(***************************************************************************)
(* Creat without a block: the tree counts more than there are.             *)
(***************************************************************************)
LEMMA BlocksLacking ==
  ASSUME TypeInv, Sound, Ordered, NEW d \in Dirs, NEW t \in TypeArgs,
         inodes[d].size # MFS_INODE_BLOCKS_SIZE * DirEntsPerBlock,
         NEW b, b = IF BlockNeeded(inodes[d]) THEN next_available_block(data_bitmap)
                    ELSE LastBlock(inodes[d]),
         NEW bitmap, bitmap = TakenForEntry(inodes[d], data_bitmap),
         b = -1 \/ (t = MFS_DIRECTORY /\ next_available_block(bitmap) = -1)
  PROVE  Tree!BlocksUsed + Tree!MoreBlocks(d, t) > MFS_DATA_REGION_SIZE
<1>1. data_bitmap \in [Blocks -> {0, 1}]
  BY InUseTyped
<1>2. /\ Cardinality(Marked(data_bitmap)) \in Nat
      /\ Cardinality(Marked(data_bitmap)) = MFS_DATA_REGION_SIZE
           <=> next_available_block(data_bitmap) = -1
  BY <1>1, MarkedBlocks
<1>3. ~BlockNeeded(inodes[d]) => b # -1
  <2>1. inodes[d] \in Inode /\ DirTable(inodes[d])
    BY InUseTyped DEF Ordered
  <2>2. ~BlockNeeded(inodes[d]) => LastBlock(inodes[d]) \in Blocks
    BY <2>1, NextPlace
  <2>. QED BY <2>2 DEF Blocks
<1>4. CASE b = -1
  BY <1>2, <1>3, <1>4, BlocksCounted, MoreBlocksAre, SizesAssumption
<1>5. CASE b # -1 /\ t = MFS_DIRECTORY /\ next_available_block(bitmap) = -1
  <2>1. Cardinality(Marked(bitmap)) =
          Cardinality(Marked(data_bitmap)) + (IF BlockNeeded(inodes[d]) THEN 1 ELSE 0)
    <3>1. CASE BlockNeeded(inodes[d])
      <4>1. b = next_available_block(data_bitmap) /\ bitmap = Occupied(data_bitmap, b)
        BY <3>1 DEF TakenForEntry
      <4>2. b \in Blocks /\ data_bitmap[b] = 0
        BY <1>1, <1>5, <4>1, NextAvailable, ImageTypes DEF next_available_block
      <4>. QED BY <1>1, <3>1, <4>1, <4>2, MarkedBlocks
    <3>2. CASE ~BlockNeeded(inodes[d])
      BY <1>2, <3>2 DEF TakenForEntry
    <3>. QED BY <3>1, <3>2
  <2>2. bitmap \in [Blocks -> {0, 1}]
    BY <1>1, OccupiedTypes DEF TakenForEntry
  <2>3. Cardinality(Marked(bitmap)) = MFS_DATA_REGION_SIZE
    BY <1>5, <2>2, MarkedBlocks
  <2>. QED BY <1>2, <1>5, <2>1, <2>3, BlocksCounted, MoreBlocksAre, SizesAssumption
<1>. QED BY <1>4, <1>5

(***************************************************************************)
(* Creat does harm where the tree counts too few blocks, or where numbers  *)
(* after the next one are in use or there are none.                        *)
(***************************************************************************)
LEMMA CreatBreaks ==
  ASSUME TypeInv, Sound, Ordered, ~Sound', NEW pinum \in InumArgs, NEW t \in TypeArgs,
         NEW name \in Names, CreatNew(pinum, t, name)
  PROVE  /\ pinum \in Dirs /\ name \notin Tree!Seen(pinum) /\ Tree!CanCreat(pinum)
         /\ \/ Tree!BlocksUsed + Tree!MoreBlocks(pinum, t) > MFS_DATA_REGION_SIZE
            \/ /\ t = Tree!Directory
               /\ \E n \in Tree!NextId + 1 .. Tree!NextId + InodesPerDirEnt :
                    n \in Tree!Nodes \/ n \notin Inums
<1>. PICK new : new = next_available_inode(inode_bitmap)
  OBVIOUS
<1>. PICK b : b = IF BlockNeeded(inodes[pinum]) THEN next_available_block(data_bitmap)
                  ELSE LastBlock(inodes[pinum])
  OBVIOUS
<1>. PICK bitmap : bitmap = TakenForEntry(inodes[pinum], data_bitmap)
  OBVIOUS
<1>. DEFINE own == IF t = MFS_DIRECTORY THEN next_available_block(bitmap) ELSE -1
            stray == IF t = MFS_DIRECTORY THEN StrayHits(new) ELSE {}
<1>1. harm' = harm
         \cup Struck("no_block", b = -1 \/ (t = MFS_DIRECTORY /\ own = -1))
         \cup Struck("stray_write", (t = MFS_DIRECTORY /\ SpillsOver(new))
                                      \/ \E n \in stray : inode_bitmap[n] = 1)
  BY Zenon DEF CreatNew
<1>2. CreatOK(pinum) /\ Found(pinum, name) = -1 /\ HasRoom(pinum)
  BY Zenon DEF CreatNew
<1>3. pinum \in Dirs
  BY <1>2, OpenDirs
<1>4. /\ name \notin Tree!Seen(pinum) /\ Tree!CanCreat(pinum)
      /\ Tree!NextId = new /\ new \in Inums
  BY <1>2, <1>3, NamesFound, RoomInTree, NextAvailable, ImageTypes, InUseTyped
     DEF HasRoom, next_available_inode
<1>5. \/ b = -1 \/ (t = MFS_DIRECTORY /\ own = -1)
      \/ (t = MFS_DIRECTORY /\ SpillsOver(new)) \/ \E n \in stray : inode_bitmap[n] = 1
  BY <1>1 DEF Struck, Sound
<1>6. CASE b = -1 \/ (t = MFS_DIRECTORY /\ own = -1)
  BY <1>2, <1>3, <1>4, <1>6, BlocksLacking DEF HasRoom
<1>7. CASE t = MFS_DIRECTORY /\ SpillsOver(new)
  <2>1. new + InodesPerDirEnt \notin Inums
    BY <1>4, <1>7, SizesAssumption DEF SpillsOver, Inums
  <2>2. new + InodesPerDirEnt \in new + 1 .. new + InodesPerDirEnt
    BY <1>4, EntryOverInodes, ImageTypes
  <2>. QED BY <1>3, <1>4, <1>7, <2>1, <2>2 DEF Tree!Directory, MFS_DIRECTORY
<1>8. CASE \E n \in stray : inode_bitmap[n] = 1
  <2>1. PICK n \in stray : inode_bitmap[n] = 1
    BY <1>8
  <2>2. t = MFS_DIRECTORY /\ n \in Inums /\ n \in new + 1 .. new + InodesPerDirEnt
    BY <2>1 DEF StrayHits
  <2>3. n \in Tree!Nodes
    BY <2>1, <2>2, TreeNodes DEF InUse
  <2>. QED BY <1>3, <1>4, <2>2, <2>3 DEF Tree!Directory, MFS_DIRECTORY
<1>. QED BY <1>5, <1>6, <1>7, <1>8

(***************************************************************************)
(* Unlink does harm where it removes a leftover name.                      *)
(***************************************************************************)
LEMMA UnlinkBreaks ==
  ASSUME TypeInv, Sound, Ordered, ~Sound', NEW pinum \in InumArgs, NEW name \in Names,
         reply_Unlink(pinum, name)
  PROVE  pinum \in Dirs /\ name \in DOMAIN TreeDirs[pinum].leftovers
<1>1. ASSUME NEW r, Answer(r) PROVE FALSE
  BY <1>1 DEF Answer, Sound
<1>2. UnlinkRemove(pinum, name)
  BY <1>1 DEF reply_Unlink, UnlinkRefused, UnlinkAbsent
<1>3. /\ UnlinkOK(pinum) /\ Found(pinum, name) # -1
      /\ harm' = harm \cup Struck("default_entry", NotMade(pinum, name))
  BY <1>2, Zenon DEF UnlinkRemove
<1>4. NotMade(pinum, name) /\ pinum \in Dirs
  BY <1>3, OpenDirs DEF Struck, Sound
<1>5. ASSUME ~(Found(pinum, name) < 2) PROVE FALSE
  <2>1. EntryFor(pinum, name).inum \in InUse \ {0}
    BY <1>3, <1>4, <1>5, MadeFound
  <2>. QED BY <1>4, <1>5, <2>1 DEF NotMade, InUse
<1>. QED BY <1>3, <1>4, <1>5, NamesFound

-----------------------------------------------------------------------------
(***************************************************************************)
(* The names of the entries that Creat made are names that it was asked    *)
(* for, whatever is done with the image.                                   *)
(***************************************************************************)
LEMMA MakesNames ==
  ASSUME TypeInv, Sound, Ordered, MadeNames, NEW pinum, NEW t \in TypeArgs, NEW name \in Names,
         NEW new \in Inums, NEW b \in Blocks, NEW own \in Pointers,
         Makes(pinum, t, name, new, b, own)
  PROVE  MadeNames'
<1>1. /\ Live(pinum)' = Live(pinum) \cup {inodes[pinum].size}
      /\ EntAt(inodes'[pinum], inodes[pinum].size, data') = [inum |-> new, name |-> name]
  BY MakesEntries
<1>. SUFFICES ASSUME NEW d \in Dirs', NEW i \in Live(d)'
              PROVE  EntAt(inodes'[d], i, data').name \in Names
  BY DEF MadeNames
<1>2. /\ t = MFS_DIRECTORY => Dirs' = Dirs \cup {new}
      /\ t # MFS_DIRECTORY => Dirs' = Dirs
      /\ t = MFS_DIRECTORY => Live(new)' = {}
  BY MakesEntries
<1>3. d \in Dirs
  BY <1>2 DEF Live
<1>4. CASE d = pinum /\ i = inodes[pinum].size
  BY <1>1, <1>4
<1>5. CASE i \in Live(d)
  <2>1. i \in 0 .. inodes[d].size - 1
    BY <1>3, <1>5, InUseTyped DEF Live, Inode
  <2>2. EntAt(inodes'[d], i, data') = EntAt(inodes[d], i, data)
    BY <1>3, <2>1, MakesEntries
  <2>. QED BY <1>3, <1>5, <2>2 DEF MadeNames
<1>6. i \in Live(d) \/ (d = pinum /\ i = inodes[pinum].size)
  <2>1. CASE d = pinum
    <3>1. i \in Live(pinum)'
      BY <2>1
    <3>. QED BY <1>1, <2>1, <3>1
  <2>2. CASE d # pinum
    BY <1>3, <2>2, MakesEntries
  <2>. QED BY <2>1, <2>2
<1>. QED BY <1>4, <1>5, <1>6

(***************************************************************************)
(* Every step keeps them.                                                  *)
(***************************************************************************)
LEMMA MadeNamesKept ==
  ASSUME ImageInv, [Next]_vars, Sound', MadeNames
  PROVE  MadeNames'
<1>. SUFFICES ASSUME NEW d \in Dirs', NEW i \in Live(d)'
              PROVE  EntAt(inodes'[d], i, data').name \in Names
  BY DEF MadeNames
<1>1. TypeInv /\ Sound /\ Ordered
  BY StepChanges
<1>2. ASSUME NEW e \in Dirs, NEW k \in Live(e)
      PROVE  k \in 0 .. inodes[e].size - 1 /\ EntAt(inodes[e], k, data).name \in Names
  BY <1>1, <1>2, InUseTyped DEF Live, MadeNames, Inode
<1>3. CASE SparesDirs
  <2>1. d \in Dirs /\ i \in Live(d)
    BY <1>1, <1>3, SameEntries DEF SparesDirs
  <2>. QED BY <1>1, <1>2, <1>3, <2>1, SameEntries
<1>4. ASSUME NEW pinum \in InumArgs, NEW t \in TypeArgs, NEW name \in Names,
             NEW new \in Inums, NEW b \in Blocks, NEW own \in Pointers,
             Makes(pinum, t, name, new, b, own)
      PROVE  EntAt(inodes'[d], i, data').name \in Names
  BY <1>1, <1>4, MakesNames DEF MadeNames
<1>5. ASSUME NEW pinum \in InumArgs, NEW i0, NEW x, Removes(pinum, i0, x)
      PROVE  EntAt(inodes'[d], i, data').name \in Names
  <2>1. /\ d \in Dirs
        /\ i \in Live(d) /\ ~(d = pinum /\ i = i0)
    BY <1>5 DEF Removes
  <2>2. EntAt(inodes'[d], i, data') = EntAt(inodes[d], i, data)
    BY <1>2, <1>5, <2>1 DEF Removes
  <2>. QED BY <1>2, <2>1, <2>2
<1>. QED BY <1>3, <1>4, <1>5, StepChanges

(***************************************************************************)
(* What the tree is shown to be needs of the image, on top of its order.   *)
(***************************************************************************)
ShownWell == Counted /\ (Sound => MadeNames)

(***************************************************************************)
(* It holds of the fresh image.                                            *)
(***************************************************************************)
LEMMA ShownFromTheStart ==
  ASSUME Init
  PROVE  ShownWell
<1>1. Sound /\ RootKept /\ FilesCounted /\ EntriesCounted
  BY InitRootKept, InitCounted DEF Init, Sound
<1>2. inodes[0] = EmptyDir(0) /\ Dirs \subseteq {0}
  <2>1. 0 \in Inums
    BY SizesAssumption DEF Inums
  <2>2. \A n \in InUse : n = 0
    <3>1. \A n \in Inums : inode_bitmap[n] = IF n = 0 THEN 1 ELSE 0
      BY DEF Init, FreshBitmap
    <3>. QED BY <3>1 DEF InUse
  <2>. QED BY <2>1, <2>2 DEF Init, FreshInodes, Dirs
<1>3. Live(0) = {}
  BY <1>2 DEF Live, EmptyDir
<1>. QED BY <1>1, <1>2, <1>3 DEF ShownWell, Counted, MadeNames

(***************************************************************************)
(* Every step keeps it.                                                    *)
(***************************************************************************)
LEMMA ShownWellKept ==
  ASSUME ImageInv, ShownWell, [Next]_vars
  PROVE  ShownWell'
<1>1. Sound' => Sound
  BY StepChanges
<1>. QED BY <1>1, CountedKept, MadeNamesKept DEF ShownWell

-----------------------------------------------------------------------------
(***************************************************************************)
(* The refinement.  A message is a request of the server's next-state      *)
(* relation, for what stands behind the inode table is not asked for.      *)
(***************************************************************************)
LEMMA MessageServed ==
  ASSUME NEW m \in Messages, Handle(m)
  PROVE  Next
<1>1. m.message_type = "W" => m.inum # MFS_INODE_TABLE_SIZE
  BY MessageFields, SizesAssumption DEF InumArgs, Inums
<1>. QED BY <1>1, MessageFields DEF Handle, Next

(***************************************************************************)
(* A request that leaves the image sound is one of the tree, and a request *)
(* that does not is one that the tree warns of.                            *)
(***************************************************************************)
LEMMA RequestInTree ==
  ASSUME ImageInv, ImageInv', ShownWell, Sound, Sound', NEW m \in Messages, Handle(m)
  PROVE  Tree!Request(m)
<1>1. TypeInv /\ Ordered /\ FilesCounted /\ EntriesCounted /\ MadeNames
  BY DEF ImageInv, ShownWell, Counted
<1>2. m.message_type = "W" => m.inum # MFS_INODE_TABLE_SIZE
  BY MessageFields, SizesAssumption DEF InumArgs, Inums
<1>3. CASE m.message_type = "I" /\ reply_Init
  BY <1>3, PlainlySaid DEF reply_Init, Tree!Greet, Tree!Request
<1>4. CASE m.message_type = "L" /\ reply_Lookup(m.inum, m.name)
  BY <1>1, <1>4, MessageFields, LookupIsTree DEF Tree!Request
<1>5. CASE m.message_type = "S" /\ reply_Stat(m.inum)
  BY <1>1, <1>5, MessageFields, StatIsTree DEF Tree!Request
<1>6. CASE m.message_type = "R" /\ reply_Read(m.inum, m.block)
  BY <1>1, <1>6, MessageFields, ReadIsTree DEF Tree!Request
<1>7. CASE m.message_type = "W" /\ reply_Write(m.inum, m.block, m.buffer)
  BY <1>7, MessageFields, WriteIsTree DEF Tree!Request
<1>8. CASE m.message_type = "C" /\ reply_Creat(m.inum, m.type, m.name)
  BY <1>8, MessageFields, CreatIsTree DEF Tree!Request
<1>9. CASE m.message_type = "U" /\ reply_Unlink(m.inum, m.name)
  BY <1>1, <1>9, MessageFields, UnlinkIsTree DEF Tree!Request
<1>. QED BY <1>2, <1>3, <1>4, <1>5, <1>6, <1>7, <1>8, <1>9 DEF Handle

(***************************************************************************)
(* A request that does harm is one that the tree warns of.                 *)
(***************************************************************************)
LEMMA BreakingInTree ==
  ASSUME TypeInv, Sound, Ordered, ~Sound', NEW m \in Messages, Handle(m)
  PROVE  Tree!Breaking(m)
<1>1. ASSUME NEW r, Answer(r) PROVE FALSE
  BY <1>1 DEF Answer, Sound
<1>2. m.message_type = "W" => m.inum # MFS_INODE_TABLE_SIZE
  BY MessageFields, SizesAssumption DEF InumArgs, Inums
<1>3. CASE m.message_type = "W" /\ reply_Write(m.inum, m.block, m.buffer)
  BY <1>3, MessageFields, WriteBreaks DEF Tree!Breaking
<1>4. CASE m.message_type = "C" /\ reply_Creat(m.inum, m.type, m.name)
  <2>1. CreatNew(m.inum, m.type, m.name)
    BY <1>1, <1>4 DEF reply_Creat, CreatRefused, CreatExists
  <2>2. m.inum \in Dirs => m.inum \in DOMAIN TreeDirs
    BY TreeNodes
  <2>. QED BY <1>4, <2>1, <2>2, MessageFields, CreatBreaks DEF Tree!Breaking
<1>5. CASE m.message_type = "U" /\ reply_Unlink(m.inum, m.name)
  <2>1. m.inum \in Dirs => m.inum \in DOMAIN TreeDirs
    BY TreeNodes
  <2>. QED BY <1>5, <2>1, MessageFields, UnlinkBreaks DEF Tree!Breaking
<1>6. ~reply_Init
  BY <1>1 DEF reply_Init
<1>7. ~reply_Lookup(m.inum, m.name)
  BY <1>1 DEF reply_Lookup
<1>8. ~reply_Stat(m.inum)
  BY <1>1 DEF reply_Stat
<1>9. ~reply_Read(m.inum, m.block)
  BY <1>1 DEF reply_Read
<1>. QED BY <1>2, <1>3, <1>4, <1>5, <1>6, <1>7, <1>8, <1>9 DEF Handle

(***************************************************************************)
(* A step of the server is a step of the tree.                             *)
(***************************************************************************)
LEMMA AskedInTree ==
  ASSUME ImageInv, ImageInv', ShownWell, AskedNext
  PROVE  Tree!Next
<1>1. PICK m \in Messages : Handle(m) /\ asked' = m
  BY DEF AskedNext
<1>2. Sound' => Sound
  BY <1>1, MessageServed, StepChanges
<1>3. CASE Sound'
  BY <1>1, <1>2, <1>3, RequestInTree DEF Tree!Next
<1>4. CASE ~Sound'
  <2>1. Sound => Tree!Breaking(m)
    BY <1>1, <1>4, BreakingInTree DEF ImageInv
  <2>. QED BY <1>1, <1>4, <2>1 DEF Tree!Next
<1>. QED BY <1>3, <1>4

(***************************************************************************)
(* A fresh image shows a tree with nothing but the root.                   *)
(***************************************************************************)
LEMMA FreshTree ==
  ASSUME AskedInit
  PROVE  Tree!Init
<1>1. /\ inode_bitmap = FreshBitmap(Inums) /\ inodes = FreshInodes /\ data = FreshData
      /\ reply = Reply("", 0) /\ harm = {} /\ asked = Message
  BY DEF AskedInit, Init
<1>2. 0 \in Inums /\ 0 \in BlockIndices /\ 0 \in Pointers /\ 0 \in Slots /\ 1 \in Slots
  BY ImageTypes DEF Pointers
<1>3. InUse = {0}
  <2>1. \A n \in Inums : inode_bitmap[n] = IF n = 0 THEN 1 ELSE 0
    BY <1>1 DEF FreshBitmap
  <2>. QED BY <1>2, <2>1 DEF InUse
<1>4. inodes[0] = EmptyDir(0)
  BY <1>1, <1>2 DEF FreshInodes
<1>5. Dirs = {0}
  BY <1>3, <1>4 DEF Dirs, EmptyDir
<1>6. TreeFiles = Tree!Empty
  BY <1>3, <1>5 DEF TreeFiles, Tree!Empty
<1>7. Listing(0) = [entries |-> Tree!Empty,
                    leftovers |-> [name \in Names \cap {".", ".."} |-> 0], made |-> 0]
  <2>1. inodes[0].size = 2
    BY <1>4 DEF EmptyDir
  <2>2. NamesTo(0, 2 .. 1) = Tree!Empty
    BY DEF NamesTo, NamesIn, Tree!Empty
  <2>3. /\ EntAt(inodes[0], 0, data) = [inum |-> 0, name |-> Dot]
        /\ EntAt(inodes[0], 1, data) = [inum |-> 0, name |-> DotDot]
    <3>1. /\ 0 \div DirEntsPerBlock = 0 /\ 0 % DirEntsPerBlock = 0
          /\ 1 \div DirEntsPerBlock = 0 /\ 1 % DirEntsPerBlock = 1
      BY SizesAssumption, DivIs
    <3>2. inodes[0].blocks[0] = 0
      BY <1>2, <1>4 DEF EmptyDir, NoBlocks
    <3>3. data[0] = RootBlock
      BY <1>1, <1>2 DEF FreshData
    <3>4. RootBlock[0] = [inum |-> 0, name |-> Dot] /\ RootBlock[1] = [inum |-> 0, name |-> DotDot]
      BY <1>2 DEF RootBlock
    <3>. QED BY <3>1, <3>2, <3>3, <3>4 DEF EntAt, EntBlock
  <2>4. \A name : name \in NamesIn(0, 0 .. 1) <=> name \in Names \cap {".", ".."}
    BY <2>3 DEF NamesIn, Dot, DotDot
  <2>5. ASSUME NEW name \in Names, name \in {".", ".."} PROVE NamesTo(0, 0 .. 1)[name] = 0
    <3>1. name \in DOMAIN NamesTo(0, 0 .. 1)
      BY <2>4, <2>5 DEF NamesTo
    <3>2. FirstWith(0, 0 .. 1, name) \in 0 .. 1
      BY <3>1, FirstPlaceWith DEF Places
    <3>3. NamesTo(0, 0 .. 1)[name] = EntAt(inodes[0], FirstWith(0, 0 .. 1, name), data).inum
      BY <3>1 DEF NamesTo
    <3>4. FirstWith(0, 0 .. 1, name) = 0 \/ FirstWith(0, 0 .. 1, name) = 1
      BY <3>2
    <3>. QED BY <2>3, <3>3, <3>4
  <2>6. NamesTo(0, 0 .. 1) = [name \in Names \cap {".", ".."} |-> 0]
    <3>1. DOMAIN NamesTo(0, 0 .. 1) = Names \cap {".", ".."}
      BY <2>4 DEF NamesTo
    <3>. QED BY <2>5, <3>1 DEF NamesTo
  <2>. QED BY <2>1, <2>2, <2>6 DEF Listing
<1>8. TreeDirs = [d \in {0} |-> [entries |-> Tree!Empty,
                                 leftovers |-> [name \in Names \cap {".", ".."} |-> 0],
                                 made |-> 0]]
  BY <1>5, <1>7 DEF TreeDirs
<1>9. TreeAnswer = Tree!Answer(0)
  BY <1>1, <1>2 DEF TreeAnswer, Tree!Answer, Tree!Answered, Tree!NoStats, Reply, NoStats,
     NoBuffer, ZeroEnt, Blank
<1>10. asked = Tree!Nothing
  BY <1>1 DEF Message, Tree!Nothing, Blank
<1>. QED BY <1>1, <1>6, <1>8, <1>9, <1>10 DEF Tree!Init, Sound

(***************************************************************************)
(* The server implements the tree: every answer is what the tree allows,   *)
(* every request does to the files and directories what the tree says, and *)
(* the defects strike only where a program can tell it from the tree.      *)
(***************************************************************************)
THEOREM TreeIsImplemented == AskedSpec => ImplementsTree
<1>1. AskedInit => Init /\ ShownWell
  BY ShownFromTheStart DEF AskedInit
<1>2. [AskedNext]_<<vars, asked>> => [Next]_vars
  BY MessageServed DEF AskedNext
<1>3. AskedSpec => Spec
  BY <1>1, <1>2, PTL DEF AskedSpec, Spec
<1>4. ImageInv /\ ShownWell /\ [AskedNext]_<<vars, asked>> => ShownWell'
  BY <1>2, ShownWellKept
<1>5. AskedSpec => [](ImageInv /\ ShownWell)
  BY <1>1, <1>3, <1>4, OrderKept, PTL DEF AskedSpec
<1>6. ImageInv /\ ImageInv' /\ ShownWell /\ [AskedNext]_<<vars, asked>>
        => [Tree!Next]_<<TreeDirs, TreeFiles, asked, TreeAnswer, ~Sound>>
  <2>1. UNCHANGED <<vars, asked>> => UNCHANGED <<TreeDirs, TreeFiles, asked, TreeAnswer, ~Sound>>
    BY SameTree DEF vars, image, TreeAnswer, Sound
  <2>. QED BY <2>1, AskedInTree
<1>7. AskedInit => Tree!Init
  BY FreshTree
<1>. QED BY <1>5, <1>6, <1>7, PTL DEF AskedSpec, ImplementsTree, Tree!Spec, Tree!treevars
=============================================================================
