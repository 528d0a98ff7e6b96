-------------------------- MODULE MFSSystemProofs --------------------------
(***************************************************************************)
(* Proofs about MFSSystem: what every number of clients, of calls and of   *)
(* lost, repeated and late datagrams makes of the image and of the calls.  *)
(***************************************************************************)
EXTENDS MFSSystem, MFSReachProofs

-----------------------------------------------------------------------------
(***************************************************************************)
(* Messages.  What a client sends is what the server of MFSServer expects, *)
(* so that every request that is served is one of its steps.  The Write to *)
(* the inode behind the table is refused like one to inode -1.             *)
(***************************************************************************)
LEMMA CallFields ==
  ASSUME NEW m \in Calls
  PROVE  /\ m.message_type \in {"L", "S"} => m.inum \in Inums
         /\ m.message_type \in {"R", "C", "U"} => m.inum \in InumArgs
         /\ m.message_type = "W" => m.inum \in InumArgs \cup {MFS_INODE_TABLE_SIZE}
         /\ m.message_type \in {"L", "C", "U"} => m.name \in Names
         /\ m.message_type \in {"R", "W"} => m.block \in BlockArgs
         /\ m.message_type = "W" => m.buffer \in Texts
         /\ m.message_type = "C" => m.type \in TypeArgs
<1>1. CASE m \in Messages
  BY <1>1, MessageFields
<1>2. CASE \E text \in Texts, j \in BlockArgs : m = MFS_Write(MFS_INODE_TABLE_SIZE, text, j)
  BY <1>2 DEF MFS_Write, Message
<1>. QED BY <1>1, <1>2, CallsAssumption

(***************************************************************************)
(* Whatever a client calls, the handler that serves it makes a step of     *)
(* MFSServer.                                                              *)
(***************************************************************************)
LEMMA ServesOneRequest ==
  ASSUME NEW m \in Calls, Handle(m)
  PROVE  Next
<1>1. CASE m.message_type = "W" /\ m.inum = MFS_INODE_TABLE_SIZE /\ WriteBehindTable
  <2>1. -1 \in InumArgs /\ -1 \in BlockArgs /\ m.buffer \in Texts
    BY <1>1, CallFields, SizesAssumption DEF InumArgs, BlockArgs
  <2>2. reply_Write(-1, -1, m.buffer)
    BY <1>1 DEF WriteBehindTable, reply_Write, WriteRefused, WriteOK, InumOK, valid_inum
  <2>. QED BY <2>1, <2>2 DEF Next
<1>2. CASE /\ m.message_type = "W" /\ m.inum # MFS_INODE_TABLE_SIZE
           /\ reply_Write(m.inum, m.block, m.buffer)
  BY <1>2, CallFields DEF Next
<1>. QED BY <1>1, <1>2, CallFields DEF Handle, Next

-----------------------------------------------------------------------------
(***************************************************************************)
(* What a request that succeeded has done, in the terms that the image     *)
(* keeps until the request of another undoes it.                           *)
(***************************************************************************)
Carried(m) ==
  /\ m.message_type = "W" =>
       /\ m.inum \in Inums /\ m.block \in BlockIndices /\ Readable(m.inum, m.block)
       /\ data[inodes[m.inum].blocks[m.block]] = TextBlock(m.buffer)
  /\ m.message_type = "C" => m.inum \in Dirs /\ Found(m.inum, m.name) # -1
  /\ m.message_type = "U" => m.inum \in Dirs /\ Found(m.inum, m.name) = -1

(***************************************************************************)
(* What was carried out is done in the sense of MFSSystem.                 *)
(***************************************************************************)
LEMMA CarriedIsDone ==
  ASSUME TypeInv, NEW m, Carried(m)
  PROVE  Done(m)
<1>1. ASSUME NEW n \in InUse PROVE InumOK(n)
  BY <1>1, ValidInums DEF InUse, InumOK
<1>2. CASE m.message_type = "W"
  BY <1>1, <1>2 DEF Carried, Done, Readable, ReadOK
<1>3. CASE m.message_type = "C"
  BY <1>1, <1>3 DEF Carried, Done, CreatOK, IsFile, Dirs, MFS_DIRECTORY, MFS_REGULAR_FILE
<1>4. CASE m.message_type = "U"
  BY <1>1, <1>4 DEF Carried, Done, UnlinkOK, Dirs
<1>. QED BY <1>2, <1>3, <1>4 DEF Done

(***************************************************************************)
(* A block of a file that has a pointer is one that Read finds.            *)
(***************************************************************************)
LEMMA PointedIsReadable ==
  ASSUME ImageInv', Sound', NEW n \in Inums, n \in InUse', n \notin Dirs',
         NEW j \in BlockIndices, inodes'[n].blocks[j] # -1
  PROVE  Readable(n, j)'
<1>1. TypeInv' /\ Books(InUse', inodes', data_bitmap')
  BY DEF ImageInv, Ordered
<1>2. inodes'[n].blocks[j] \in Pointers
  BY <1>1 DEF TypeInv, TypeOK, Sound, InUse, Inode
<1>3. data_bitmap'[inodes'[n].blocks[j]] = 1
  BY <1>1 DEF Books, Pointer
<1>4. 0 <= j /\ j < MFS_INODE_BLOCKS_SIZE /\ j \in Int
  BY SizesAssumption DEF BlockIndices
<1>5. /\ 0 <= inodes'[n].blocks[j] /\ inodes'[n].blocks[j] <= MFS_DATA_REGION_SIZE
      /\ inodes'[n].blocks[j] \in Int
  BY <1>2, SizesAssumption DEF Pointers, Blocks
<1>. QED BY <1>3, <1>4, <1>5, SizesAssumption DEF Readable, BlockOK, valid_block

(***************************************************************************)
(* What a request that is answered with success asks for is there.         *)
(***************************************************************************)
LEMMA SuccessIsCarried ==
  ASSUME ImageInv, ImageInv', Sound', NEW m \in Calls, Handle(m), reply'.success = 0
  PROVE  Carried(m)'
<1>1. TypeInv /\ TypeInv' /\ Ordered' /\ (Sound => Ordered)
  BY DEF ImageInv
<1>2. ASSUME NEW s, NEW n, Answer(Reply(s, n)), n # 0 PROVE FALSE
  BY <1>2 DEF Answer, Reply
<1>3. CASE m.message_type = "W"
  <2>1. m.inum # MFS_INODE_TABLE_SIZE /\ reply_Write(m.inum, m.block, m.buffer)
    BY <1>2, <1>3 DEF Handle, WriteBehindTable
  <2>2. m.inum \in InumArgs /\ m.block \in BlockArgs /\ m.buffer \in Texts
    BY <1>3, <2>1, CallFields
  <2>3. m.inum \in Inums
    BY <1>1, <1>2, <2>1, <2>2, ValidInum
       DEF reply_Write, WriteRefused, WriteInPlace, WriteNewBlock, WriteNoSpace, WritePastTable,
           WriteOK, TypeInv
  <2>4. /\ WriteOK(m.inum, m.block)'
        /\ inodes'[m.inum].blocks[m.block] # -1
        /\ data'[inodes'[m.inum].blocks[m.block]] = TextBlock(m.buffer)
    BY <2>1, <2>2, <2>3, WriteIsDone
  <2>5. m.block \in BlockIndices
    BY <1>2, <2>1 DEF reply_Write, WriteRefused, WriteInPlace, WriteNewBlock, WriteNoSpace,
                      WritePastTable, Struck, Sound
  <2>6. m.inum \in InUse' /\ m.inum \notin Dirs'
    BY <2>3, <2>4 DEF WriteOK, InumOK, valid_inum, InUse, Dirs
  <2>7. Readable(m.inum, m.block)'
    BY <2>3, <2>4, <2>5, <2>6, PointedIsReadable
  <2>. QED BY <1>3, <2>3, <2>4, <2>5, <2>7 DEF Carried
<1>4. CASE m.message_type = "C"
  <2>1. m.inum \in InumArgs /\ m.name \in Names /\ m.type \in TypeArgs
    BY <1>4, CallFields
  <2>2. \/ CreatExists(m.inum, m.name)
        \/ CreatNew(m.inum, m.type, m.name)
    BY <1>2, <1>4 DEF Handle, reply_Creat, CreatRefused
  <2>3. m.inum \in Inums
    BY <1>1, <2>1, <2>2, ValidInum DEF CreatExists, CreatNew, CreatOK, TypeInv
  <2>4. CreatOK(m.inum)' /\ Found(m.inum, m.name)' # -1
    <3>1. CASE CreatExists(m.inum, m.name)
      BY <3>1 DEF CreatExists, Answer, image, CreatOK, InumOK, IsFile, Found
    <3>. QED BY <2>1, <2>2, <2>3, <3>1, CreatIsDone
  <2>5. m.inum \in Dirs'
    <3>1. m.inum \in InUse'
      BY <2>3, <2>4 DEF CreatOK, InumOK, valid_inum, InUse
    <3>2. inodes'[m.inum].type \in TypeArgs
      BY <1>1, <3>1 DEF TypeInv, DirSizes, Sound, InUse, TypeOK
    <3>. QED BY <2>4, <3>1, <3>2 DEF CreatOK, IsFile, Dirs, TypeArgs
  <2>. QED BY <1>4, <2>4, <2>5 DEF Carried
<1>5. CASE m.message_type = "U"
  <2>1. m.inum \in InumArgs /\ m.name \in Names
    BY <1>5, CallFields
  <2>2. UnlinkAbsent(m.inum, m.name) \/ UnlinkRemove(m.inum, m.name)
    BY <1>2, <1>5 DEF Handle, reply_Unlink, UnlinkRefused
  <2>3. m.inum \in Inums
    BY <1>1, <2>1, <2>2, ValidInum DEF UnlinkAbsent, UnlinkRemove, UnlinkOK, TypeInv
  <2>4. UnlinkOK(m.inum)' /\ Found(m.inum, m.name)' = -1
    <3>1. CASE UnlinkAbsent(m.inum, m.name)
      BY <3>1 DEF UnlinkAbsent, Answer, image, UnlinkOK, InumOK, Found
    <3>. QED BY <2>1, <2>2, <2>3, <3>1, UnlinkIsDone
  <2>5. m.inum \in Dirs'
    BY <2>3, <2>4 DEF UnlinkOK, InumOK, valid_inum, InUse, Dirs
  <2>. QED BY <1>5, <2>4, <2>5 DEF Carried
<1>. QED BY <1>3, <1>4, <1>5 DEF Carried

(***************************************************************************)
(* A request that changes the image is a Write, a Creat or an Unlink, and  *)
(* succeeds.                                                               *)
(***************************************************************************)
LEMMA ChangeSucceeds ==
  ASSUME NEW m \in Calls, Handle(m), image' # image
  PROVE  /\ reply'.success = 0
         /\ \/ m.message_type = "W" /\ reply_Write(m.inum, m.block, m.buffer)
            \/ m.message_type = "C" /\ CreatNew(m.inum, m.type, m.name)
            \/ m.message_type = "U" /\ UnlinkRemove(m.inum, m.name)
<1>1. ASSUME NEW r, Answer(r) PROVE FALSE
  BY <1>1 DEF Answer
<1>2. \A s : Reply(s, 0).success = 0
  BY DEF Reply
<1>3. \/ m.message_type = "W" /\ reply_Write(m.inum, m.block, m.buffer)
      \/ m.message_type = "C" /\ reply_Creat(m.inum, m.type, m.name)
      \/ m.message_type = "U" /\ reply_Unlink(m.inum, m.name)
  BY <1>1, Zenon DEF Handle, reply_Init, reply_Lookup, reply_Stat, reply_Read, WriteBehindTable
<1>4. ASSUME reply_Write(m.inum, m.block, m.buffer) PROVE reply'.success = 0
  BY <1>1, <1>2, <1>4, Zenon
     DEF reply_Write, WriteRefused, WriteInPlace, WriteNewBlock, WriteNoSpace, WritePastTable
<1>5. ASSUME reply_Creat(m.inum, m.type, m.name)
      PROVE  CreatNew(m.inum, m.type, m.name) /\ reply'.success = 0
  <2>1. CreatNew(m.inum, m.type, m.name)
    BY <1>1, <1>5, Zenon DEF reply_Creat, CreatRefused, CreatExists
  <2>. QED BY <1>2, <2>1, Zenon DEF CreatNew
<1>6. ASSUME reply_Unlink(m.inum, m.name)
      PROVE  UnlinkRemove(m.inum, m.name) /\ reply'.success = 0
  <2>1. UnlinkRemove(m.inum, m.name)
    BY <1>1, <1>6, Zenon DEF reply_Unlink, UnlinkRefused, UnlinkAbsent
  <2>. QED BY <1>2, <2>1, Zenon DEF UnlinkRemove
<1>. QED BY <1>3, <1>4, <1>5, <1>6, Zenon

(***************************************************************************)
(* A request that has been carried out is a success that changes nothing   *)
(* when its message comes again.                                           *)
(***************************************************************************)
LEMMA RepetitionIsNoop ==
  ASSUME ImageInv, Sound', NEW m \in Calls, Carried(m), Handle(m)
  PROVE  /\ UNCHANGED image
         /\ m.message_type = "W" \/ m.message_type = "C" \/ m.message_type = "U"
              => reply'.success = 0
<1>1. TypeInv /\ Sound /\ Ordered
  BY ServesOneRequest, StepChanges
<1>2. \A s : Reply(s, 0).success = 0
  BY DEF Reply
<1>3. CASE m.message_type = "W"
  <2>. DEFINE p == inodes[m.inum].blocks[m.block]
  <2>1. /\ m.inum \in Inums /\ m.block \in BlockIndices /\ m.inum \in InUse /\ m.inum \notin Dirs
        /\ data[p] = TextBlock(m.buffer) /\ p # -1 /\ p \in Blocks
    BY <1>1, <1>3, ReadableBlock DEF Carried, Pointer
  <2>2. m.inum # MFS_INODE_TABLE_SIZE /\ m.block # MFS_INODE_BLOCKS_SIZE
        /\ m.block \in 0 .. MFS_INODE_BLOCKS_SIZE
    BY <2>1, SizesAssumption DEF Inums, BlockIndices
  <2>3. reply_Write(m.inum, m.block, m.buffer)
    BY <1>3, <2>2 DEF Handle
  <2>4. WriteOK(m.inum, m.block)
    BY <2>1, <2>2, ValidInums DEF WriteOK, InumOK, InUse, Dirs
  <2>5. WriteInPlace(m.inum, m.block, m.buffer)
    BY <2>1, <2>2, <2>3, <2>4
       DEF reply_Write, WriteRefused, WriteNewBlock, WriteNoSpace, WritePastTable
  <2>6. data' = data
    <3>1. data \in [Pointers -> DataBlock]
      BY <1>1, InUseTyped
    <3>. QED BY <2>1, <2>5, <3>1 DEF WriteInPlace
  <2>. QED BY <1>2, <2>5, <2>6 DEF WriteInPlace, image
<1>4. CASE m.message_type = "C"
  <2>1. m.inum \in InumArgs /\ m.inum \in Dirs /\ Found(m.inum, m.name) # -1
    BY <1>4, CallFields DEF Carried
  <2>2. CreatOK(m.inum) /\ reply_Creat(m.inum, m.type, m.name)
    BY <1>1, <1>4, <2>1, OpenDirs DEF Handle
  <2>3. CreatExists(m.inum, m.name)
    BY <2>1, <2>2 DEF reply_Creat, CreatRefused, CreatNew
  <2>. QED BY <1>2, <2>3 DEF CreatExists, Answer
<1>5. CASE m.message_type = "U"
  <2>1. m.inum \in InumArgs /\ m.inum \in Dirs /\ Found(m.inum, m.name) = -1
    BY <1>5, CallFields DEF Carried
  <2>2. UnlinkOK(m.inum) /\ reply_Unlink(m.inum, m.name)
    BY <1>1, <1>5, <2>1, OpenDirs DEF Handle
  <2>3. UnlinkAbsent(m.inum, m.name)
    BY <2>1, <2>2 DEF reply_Unlink, UnlinkRefused, UnlinkRemove
  <2>. QED BY <1>2, <2>3 DEF UnlinkAbsent, Answer
<1>. QED BY <1>3, <1>4, <1>5, ChangeSucceeds

(***************************************************************************)
(* What Creat and Unlink do to the names of a directory: one appears, or   *)
(* one disappears.                                                         *)
(***************************************************************************)
LEMMA SparedNames ==
  ASSUME TypeInv, Sound, Ordered, SparesDirs, NEW d \in Dirs, NEW name
  PROVE  d \in Dirs' /\ Found(d, name)' = Found(d, name)
<1>1. d \in Dirs' /\ inodes'[d] = inodes[d]
  BY DEF SparesDirs
<1>2. \A i \in 0 .. inodes[d].size - 1 : EntAt(inodes'[d], i, data') = EntAt(inodes[d], i, data)
  BY SameEntries
<1>3. Hits(inodes'[d], name, data') = Hits(inodes[d], name, data)
  BY <1>1, <1>2 DEF Hits
<1>. QED BY <1>1, <1>3 DEF Found, search_Directory

(***************************************************************************)
(* The name that a Creat makes is found afterwards, and what other names   *)
(* lead to is as it was.                                                   *)
(***************************************************************************)
LEMMA MadeName ==
  ASSUME TypeInv, TypeInv', Sound, Sound', Ordered, NEW pinum, NEW t \in TypeArgs, NEW made,
         NEW new \in Inums, NEW b \in Blocks, NEW own \in Pointers,
         Makes(pinum, t, made, new, b, own),
         NEW d \in Dirs, NEW name
  PROVE  /\ d \in Dirs'
         /\ Found(d, name) # -1 => Found(d, name)' # -1
         /\ Found(d, name) = -1 /\ ~(d = pinum /\ name = made) => Found(d, name)' = -1
<1>a. /\ pinum \in Dirs /\ new \notin InUse
      /\ t = MFS_DIRECTORY => Dirs' = Dirs \cup {new}
      /\ t # MFS_DIRECTORY => Dirs' = Dirs
      /\ inodes'[pinum].size = inodes[pinum].size + 1
  BY MakesEntries
<1>b. \A e \in Dirs : \A i \in 0 .. inodes[e].size - 1 :
           EntAt(inodes'[e], i, data') = EntAt(inodes[e], i, data)
  BY MakesEntries
<1>c. EntAt(inodes'[pinum], inodes[pinum].size, data') = [inum |-> new, name |-> made]
  BY MadeEntry
<1>. PICK k : k = inodes[pinum].size
  OBVIOUS
<1>1. /\ pinum \in Dirs /\ new \notin InUse
      /\ t = MFS_DIRECTORY => Dirs' = Dirs \cup {new}
      /\ t # MFS_DIRECTORY => Dirs' = Dirs
      /\ inodes'[pinum].size = k + 1
      /\ \A e \in Dirs : \A i \in 0 .. inodes[e].size - 1 :
           EntAt(inodes'[e], i, data') = EntAt(inodes[e], i, data)
      /\ EntAt(inodes'[pinum], k, data') = [inum |-> new, name |-> made]
  BY <1>a, <1>b, <1>c
<1>2. d \in Dirs' /\ inodes[d] \in Inode /\ inodes'[d] \in Inode /\ d \in InUse
  <2>1. d \in Dirs' /\ inodes[d] \in Inode /\ d \in InUse
    BY <1>1, InUseTyped
  <2>. QED BY <2>1 DEF TypeInv, TypeOK, Sound, Dirs, InUse
<1>3. d # pinum => inodes'[d] = inodes[d]
  BY <1>2 DEF Makes
<1>4. ASSUME NEW i \in Hits(inodes[d], name, data) PROVE i \in Hits(inodes'[d], name, data')
  BY <1>1, <1>2, <1>3, <1>4 DEF Hits, Inode
<1>5. ASSUME NEW i \in Hits(inodes'[d], name, data'), ~(d = pinum /\ name = made)
      PROVE  i \in Hits(inodes[d], name, data)
  <2>1. /\ i \in 0 .. inodes'[d].size - 1
        /\ EntAt(inodes'[d], i, data').name = name /\ EntAt(inodes'[d], i, data').inum >= 0
    BY <1>5 DEF Hits
  <2>2. i \in 0 .. inodes[d].size - 1
    <3>1. CASE d = pinum
      <4>1. i # k
        BY <1>1, <1>5, <2>1, <3>1
      <4>. QED BY <1>1, <1>2, <2>1, <3>1, <4>1 DEF Inode
    <3>. QED BY <1>3, <2>1, <3>1
  <2>. QED BY <1>1, <2>1, <2>2 DEF Hits
<1>6. /\ Found(d, name) = -1 <=> Hits(inodes[d], name, data) = {}
      /\ Found(d, name)' = -1 <=> Hits(inodes'[d], name, data') = {}
  BY <1>2, SearchFinds DEF Found
<1>. QED BY <1>2, <1>4, <1>5, <1>6

(***************************************************************************)
(* The name that an Unlink removes is not found afterwards, and what other *)
(* names lead to is as it was.                                             *)
(***************************************************************************)
LEMMA RemovedName ==
  ASSUME TypeInv, TypeInv', Sound, Sound', NEW pinum, NEW i0, NEW x, Removes(pinum, i0, x),
         NEW removed, i0 \in Hits(inodes[pinum], removed, data),
         NEW d \in Dirs, d # x, NEW name
  PROVE  /\ d \in Dirs'
         /\ Found(d, name) = -1 => Found(d, name)' = -1
         /\ Found(d, name) # -1 /\ ~(d = pinum /\ name = removed) => Found(d, name)' # -1
<1>1. /\ d \in Dirs' /\ inodes[d] \in Inode /\ inodes'[d] \in Inode
      /\ inodes'[d].size = inodes[d].size
      /\ \A i \in 0 .. inodes[d].size - 1 :
           EntAt(inodes'[d], i, data') = IF d = pinum /\ i = i0 THEN UnusedEnt
                                         ELSE EntAt(inodes[d], i, data)
  <2>1. d \in Dirs'
    BY DEF Removes
  <2>2. d \in InUse \ {x} /\ inodes[d] \in Inode
    BY InUseTyped
  <2>3. inodes'[d] \in Inode
    BY <2>1 DEF TypeInv, TypeOK, Sound, Dirs, InUse
  <2>. QED BY <2>1, <2>2, <2>3 DEF Removes
<1>2. ASSUME NEW i \in Hits(inodes'[d], name, data') PROVE i \in Hits(inodes[d], name, data)
  BY <1>1, <1>2 DEF Hits, UnusedEnt
<1>3. ASSUME NEW i \in Hits(inodes[d], name, data), ~(d = pinum /\ name = removed)
      PROVE  i \in Hits(inodes'[d], name, data')
  <2>1. ~(d = pinum /\ i = i0)
    BY <1>3 DEF Hits
  <2>. QED BY <1>1, <1>3, <2>1 DEF Hits
<1>4. /\ Found(d, name) = -1 <=> Hits(inodes[d], name, data) = {}
      /\ Found(d, name)' = -1 <=> Hits(inodes'[d], name, data') = {}
  BY <1>1, SearchFinds DEF Found
<1>. QED BY <1>1, <1>2, <1>3, <1>4

(***************************************************************************)
(* The request of another undoes nothing of what it does not cross.        *)
(***************************************************************************)
LEMMA OthersSpare ==
  ASSUME ImageInv, ImageInv', Sound', NEW m \in Calls, Carried(m),
         NEW o \in Calls, Handle(o), image' # image, Uses(m) \cap Changed(o) = {}
  PROVE  Carried(m)'
<1>1. TypeInv /\ TypeInv' /\ Sound /\ Ordered
  BY ServesOneRequest, StepChanges DEF ImageInv
<1>2. \A y : y \in Uses(m) => y \notin Changed(o)
  OBVIOUS
<1>3. <<m.inum>> \in Uses(m) /\ <<m.inum, m.name>> \in Uses(m)
  BY DEF Uses
<1>4. ASSUME NEW n \in Inums, NEW j \in BlockIndices, Readable(n, j), Kept(n, j),
             NEW text, data[inodes[n].blocks[j]] = TextBlock(text)
      PROVE  Readable(n, j)' /\ data'[inodes'[n].blocks[j]] = TextBlock(text)
  BY <1>4 DEF Kept
<1>5. CASE o.message_type = "W" /\ reply_Write(o.inum, o.block, o.buffer)
  <2>1. /\ o.inum \in InumArgs /\ o.block \in BlockArgs /\ o.buffer \in Texts
    <3>1. o.inum # MFS_INODE_TABLE_SIZE
      BY <1>5, SizesAssumption DEF Handle, WriteBehindTable, Answer
    <3>. QED BY <1>5, <3>1, CallFields
  <2>2. m.inum # o.inum
    BY <1>2, <1>3, <1>5 DEF Changed
  <2>3. ASSUME NEW j \in BlockIndices, m.inum \in Inums, Readable(m.inum, j)
        PROVE  Kept(m.inum, j)
    BY <1>5, <2>1, <2>2, <2>3, WriteKeepsFiles
  <2>4. SparesDirs
    BY <1>1, <1>5, <2>1, WriteKeeps
  <2>. QED BY <1>1, <1>4, <2>3, <2>4, SparedNames DEF Carried
<1>6. CASE o.message_type = "C" /\ CreatNew(o.inum, o.type, o.name)
  <2>1. /\ o.inum \in InumArgs /\ o.name \in Names /\ o.type \in TypeArgs
    BY <1>6, CallFields
  <2>2. PICK new \in Inums, b \in Blocks, own \in Pointers :
          Makes(o.inum, o.type, o.name, new, b, own)
    BY <1>1, <1>6, <2>1, CreatNewMakes
  <2>3. ~(m.inum = o.inum /\ m.name = o.name)
    BY <1>2, <1>3, <1>6 DEF Changed
  <2>4. ASSUME NEW j \in BlockIndices, m.inum \in Inums, Readable(m.inum, j)
        PROVE  Kept(m.inum, j)
    BY <1>1, <2>1, <2>2, <2>4, MakesKeepsFiles
  <2>5. ASSUME m.inum \in Dirs
        PROVE  /\ m.inum \in Dirs'
               /\ Found(m.inum, m.name) # -1 => Found(m.inum, m.name)' # -1
               /\ Found(m.inum, m.name) = -1 => Found(m.inum, m.name)' = -1
    <3>. PICK pinum, t, made, d, name :
           pinum = o.inum /\ t = o.type /\ made = o.name /\ d = m.inum /\ name = m.name
      OBVIOUS
    <3>1. /\ TypeInv /\ TypeInv' /\ Sound /\ Sound' /\ Ordered
          /\ t \in TypeArgs /\ new \in Inums /\ b \in Blocks /\ own \in Pointers
          /\ Makes(pinum, t, made, new, b, own)
          /\ d \in Dirs
      BY <1>1, <2>1, <2>2, <2>5
    <3>2. d \in Dirs'
      BY <3>1, MadeName
    <3>3. Found(d, name) # -1 => Found(d, name)' # -1
      BY <3>1, MadeName
    <3>4. Found(d, name) = -1 /\ ~(d = pinum /\ name = made) => Found(d, name)' = -1
      BY <3>1, MadeName
    <3>. QED BY <2>3, <3>2, <3>3, <3>4
  <2>. QED BY <1>4, <2>4, <2>5 DEF Carried
<1>7. CASE o.message_type = "U" /\ UnlinkRemove(o.inum, o.name)
  <2>1. /\ o.inum \in InumArgs /\ o.name \in Names
    BY <1>7, CallFields
  <2>. PICK i0, x : i0 = Found(o.inum, o.name) /\ x = EntryFor(o.inum, o.name).inum
    OBVIOUS
  <2>2. Removes(o.inum, i0, x)
    BY <1>1, <1>7, <2>1, UnlinkRemoves
  <2>3. /\ ~(m.inum = o.inum /\ m.name = o.name)
        /\ m.inum # x
    BY <1>2, <1>3, <1>7 DEF Changed
  <2>4. i0 \in Hits(inodes[o.inum], o.name, data)
    <3>1. inodes[o.inum] \in Inode /\ i0 # -1
      BY <1>7, <2>2, InUseTyped, <1>1 DEF Removes, UnlinkRemove
    <3>. QED BY <3>1, SearchFinds DEF Found
  <2>5. ASSUME NEW j \in BlockIndices, m.inum \in Inums, Readable(m.inum, j)
        PROVE  Kept(m.inum, j)
    BY <1>7, <2>1, <2>3, <2>5, UnlinkRemoveKeepsFiles
  <2>6. ASSUME m.inum \in Dirs
        PROVE  /\ m.inum \in Dirs'
               /\ Found(m.inum, m.name) # -1 => Found(m.inum, m.name)' # -1
               /\ Found(m.inum, m.name) = -1 => Found(m.inum, m.name)' = -1
    <3>. PICK pinum, removed, d, name :
           pinum = o.inum /\ removed = o.name /\ d = m.inum /\ name = m.name
      OBVIOUS
    <3>1. /\ TypeInv /\ TypeInv' /\ Sound /\ Sound' /\ Removes(pinum, i0, x)
          /\ i0 \in Hits(inodes[pinum], removed, data)
          /\ d \in Dirs /\ d # x
      BY <1>1, <2>2, <2>3, <2>4, <2>6
    <3>2. /\ d \in Dirs'
          /\ Found(d, name) = -1 => Found(d, name)' = -1
          /\ Found(d, name) # -1 /\ ~(d = pinum /\ name = removed) => Found(d, name)' # -1
      BY <3>1, RemovedName
    <3>. QED BY <2>3, <3>2
  <2>. QED BY <1>4, <2>5, <2>6 DEF Carried
<1>. QED BY <1>5, <1>6, <1>7, ChangeSucceeds

-----------------------------------------------------------------------------
(***************************************************************************)
(* The network.  A datagram that is sent is added to what was on its way,  *)
(* unless the bound on copies drops it, and one that is taken leaves.      *)
(***************************************************************************)
Bounded(net) == IsABag(net) /\ \A d \in BagToSet(net) : Copies(d, net) <= MaxCopies

(***************************************************************************)
(* Sent adds one copy of its datagram at most, within the bound.           *)
(***************************************************************************)
LEMMA SentIsOnItsWay ==
  ASSUME NEW net, Bounded(net), NEW d
  PROVE  /\ Bounded(Sent(net, d))
         /\ BagToSet(net) \subseteq BagToSet(Sent(net, d))
         /\ \A e \in BagToSet(Sent(net, d)) : e \in BagToSet(net) \/ e = d
<1>. DEFINE more == net (+) SetToBag({d})
<1>1. net \in [DOMAIN net -> {n \in Nat : n > 0}] /\ MaxCopies \in Nat \ {0}
  BY CallsAssumption DEF Bounded, IsABag
<1>2. CASE Copies(d, net) < MaxCopies
  <2>1. more = [e \in DOMAIN net \cup {d} |->
                  (IF e \in DOMAIN net THEN net[e] ELSE 0) + (IF e = d THEN 1 ELSE 0)]
    BY DEF (+), SetToBag
  <2>2. DOMAIN more = DOMAIN net \cup {d}
    BY <2>1
  <2>3. ASSUME NEW e \in DOMAIN more
        PROVE  more[e] \in Nat /\ more[e] > 0 /\ more[e] <= MaxCopies
    <3>1. e \in DOMAIN net => net[e] \in Nat /\ net[e] > 0 /\ net[e] <= MaxCopies
      BY <1>1 DEF Bounded, BagToSet, Copies, BagIn
    <3>2. e = d /\ e \in DOMAIN net => net[e] < MaxCopies
      BY <1>2 DEF Copies, BagIn, BagToSet
    <3>. QED BY <1>1, <2>1, <2>2, <2>3, <3>1, <3>2
  <2>4. more \in [DOMAIN more -> {n \in Nat : n > 0}]
    BY <2>1, <2>2, <2>3
  <2>5. Sent(net, d) = more
    BY <1>2 DEF Sent
  <2>6. \A e \in BagToSet(more) : Copies(e, more) <= MaxCopies
    BY <2>3 DEF BagToSet, Copies, BagIn
  <2>. HIDE DEF more
  <2>. QED BY <2>2, <2>4, <2>5, <2>6 DEF Bounded, IsABag, BagToSet
<1>3. CASE ~(Copies(d, net) < MaxCopies)
  BY <1>3 DEF Sent
<1>. QED BY <1>2, <1>3

(***************************************************************************)
(* Taken leaves no datagram that was not on its way.                       *)
(***************************************************************************)
LEMMA TakenIsGone ==
  ASSUME NEW net, Bounded(net), NEW d \in BagToSet(net)
  PROVE  /\ Bounded(Taken(net, d))
         /\ \A e \in BagToSet(Taken(net, d)) : e \in BagToSet(net)
<1>. DEFINE less == [e \in DOMAIN net |-> IF e \in {d} THEN net[e] - 1 ELSE net[e]]
            rest == [e \in {n \in DOMAIN less : less[n] > 0} |-> less[e]]
<1>1. net \in [DOMAIN net -> {n \in Nat : n > 0}] /\ MaxCopies \in Nat
  BY CallsAssumption DEF Bounded, IsABag
<1>2. Taken(net, d) = rest
  BY DEF Taken, (-), SetToBag
<1>3. DOMAIN rest = {n \in DOMAIN net : less[n] > 0} /\ \A e \in DOMAIN rest : rest[e] = less[e]
  OBVIOUS
<1>4. ASSUME NEW e \in DOMAIN rest
      PROVE  e \in DOMAIN net /\ rest[e] \in Nat /\ rest[e] > 0 /\ rest[e] <= MaxCopies
  <2>1. e \in DOMAIN net /\ net[e] \in Nat /\ net[e] <= MaxCopies
    BY <1>1, <1>3 DEF Bounded, BagToSet, Copies, BagIn
  <2>. QED BY <1>1, <1>3, <2>1
<1>5. rest \in [DOMAIN rest -> {n \in Nat : n > 0}]
  BY <1>4
<1>6. \A e \in BagToSet(rest) : Copies(e, rest) <= MaxCopies
  BY <1>4 DEF BagToSet, Copies, BagIn
<1>7. \A e \in BagToSet(rest) : e \in BagToSet(net)
  BY <1>4 DEF BagToSet
<1>. HIDE DEF rest
<1>. QED BY <1>2, <1>5, <1>6, <1>7 DEF Bounded, IsABag

(***************************************************************************)
(* There is nothing on its way at first.                                   *)
(***************************************************************************)
LEMMA NothingSent == Bounded(EmptyBag) /\ BagToSet(EmptyBag) = {}
<1>1. DOMAIN EmptyBag = {} /\ EmptyBag \in [{} -> {n \in Nat : n > 0}]
  BY DEF EmptyBag, SetToBag
<1>. QED BY <1>1 DEF Bounded, IsABag, BagToSet

-----------------------------------------------------------------------------
(***************************************************************************)
(* As in TypeOK, what is answered has its type until a defect has struck.  *)
(***************************************************************************)
SystemTypeOK ==
  /\ call \in [Clients -> Requests \cup {Idle}]
  /\ calls \in 0 .. MaxCalls
  /\ IsABag(requests) /\ BagToSet(requests) \subseteq Requests
  /\ IsABag(replies) /\ (Sound => BagToSet(replies) \subseteq Answers)
  /\ \A d \in BagToSet(requests) : Copies(d, requests) <= MaxCopies
  /\ \A d \in BagToSet(replies) : Copies(d, replies) <= MaxCopies
  /\ effects \in [Clients -> 0 .. 2]
  /\ quiet \in [Clients -> BOOLEAN]
  /\ apart \in [Clients -> BOOLEAN]

(***************************************************************************)
(* The image of the system is the server's: nothing else writes it.        *)
(***************************************************************************)
LEMMA ServerSteps ==
  ASSUME SystemTypeOK, [SystemNext]_allvars
  PROVE  [Next]_vars
<1>1. ASSUME NEW d \in BagToSet(requests), Serve(d) PROVE Next
  <2>1. d.message \in Calls
    BY <1>1 DEF SystemTypeOK, Requests
  <2>. QED BY <1>1, <2>1, ServesOneRequest DEF Serve
<1>2. CASE UNCHANGED allvars
  BY <1>2 DEF allvars
<1>3. CASE SystemNext
  BY <1>1, <1>3
     DEF SystemNext, ServerLoop, Call, Timeout, Receive, MFS_Receive_Reply, Lose, Duplicate
<1>. QED BY <1>2, <1>3

(***************************************************************************)
(* So the invariant of the image holds in the system, and harm is never    *)
(* undone.                                                                 *)
(***************************************************************************)
LEMMA ImageIsKept ==
  ASSUME ImageInv, SystemTypeOK, [SystemNext]_allvars
  PROVE  ImageInv' /\ (Sound' => Sound)
BY ServerSteps, NextKeepsOrder, StepChanges

(***************************************************************************)
(* Every step leaves calls and datagrams of their types.                   *)
(***************************************************************************)
LEMMA SystemTypesKept ==
  ASSUME ImageInv, ImageInv', SystemTypeOK, [SystemNext]_allvars
  PROVE  SystemTypeOK'
<1>1. Bounded(requests) /\ Bounded(replies)
  BY DEF SystemTypeOK, Bounded
<1>2. Sound' => Sound
  BY ImageIsKept
<1>3. ASSUME NEW c \in Clients, NEW m \in Calls, Call(c, m) PROVE SystemTypeOK'
  <2>1. /\ call'[c] = [message |-> m, client |-> c]
        /\ call'[c] \in Requests
        /\ call' \in [Clients -> Requests \cup {Idle}]
    BY <1>3 DEF Call, SystemTypeOK, Requests
  <2>2. Bounded(requests') /\ BagToSet(requests') \subseteq Requests
    BY <1>1, <1>3, <2>1, SentIsOnItsWay DEF Call, SystemTypeOK
  <2>3. calls' \in 0 .. MaxCalls
    BY <1>3, CallsAssumption DEF Call, SystemTypeOK
  <2>4. /\ effects' \in [Clients -> 0 .. 2]
        /\ quiet' \in [Clients -> BOOLEAN] /\ apart' \in [Clients -> BOOLEAN]
    BY <1>3 DEF Call, Clear, SystemTypeOK
  <2>5. UNCHANGED <<replies, harm>>
    BY <1>3 DEF Call, vars
  <2>. QED BY <2>1, <2>2, <2>3, <2>4, <2>5 DEF SystemTypeOK, Bounded, Sound
<1>4. ASSUME NEW c \in Clients, Timeout(c) PROVE SystemTypeOK'
  <2>1. call[c] \in Requests
    BY <1>4 DEF Timeout, Waits, SystemTypeOK
  <2>2. Bounded(requests') /\ BagToSet(requests') \subseteq Requests
    BY <1>1, <1>4, <2>1, SentIsOnItsWay DEF Timeout, SystemTypeOK
  <2>. QED BY <1>4, <2>2 DEF Timeout, vars, SystemTypeOK, Bounded, Sound
<1>5. ASSUME NEW d \in BagToSet(replies), MFS_Receive_Reply(d) PROVE SystemTypeOK'
  <2>1. Bounded(replies') /\ \A e \in BagToSet(replies') : e \in BagToSet(replies)
    BY <1>1, <1>5, TakenIsGone DEF MFS_Receive_Reply
  <2>2. call' \in [Clients -> Requests \cup {Idle}]
    BY <1>5 DEF MFS_Receive_Reply, SystemTypeOK
  <2>. QED BY <1>5, <2>1, <2>2 DEF MFS_Receive_Reply, vars, SystemTypeOK, Bounded, Sound
<1>6. ASSUME NEW d \in BagToSet(requests), Serve(d) PROVE SystemTypeOK'
  <2>1. d \in Requests /\ d.client \in Clients
    BY DEF SystemTypeOK, Requests
  <2>2. Bounded(requests') /\ \A e \in BagToSet(requests') : e \in BagToSet(requests)
    BY <1>1, <1>6, TakenIsGone DEF Serve
  <2>. DEFINE answer == [reply |-> reply', client |-> d.client]
  <2>3. Sound' => answer \in Answers
    BY <2>1 DEF ImageInv, TypeInv, TypeOK, Sound, Answers
  <2>4. Bounded(replies') /\ \A e \in BagToSet(replies') : e \in BagToSet(replies) \/ e = answer
    BY <1>1, <1>6, SentIsOnItsWay DEF Serve
  <2>5. effects' \in [Clients -> 0 .. 2]
    <3>1. effects \in [Clients -> 0 .. 2] /\ effects[d.client] \in 0 .. 2
      BY <2>1 DEF SystemTypeOK
    <3>2. effects' = [effects EXCEPT ![d.client] = effects[d.client]]
          \/ /\ effects[d.client] # 2
             /\ effects' = [effects EXCEPT ![d.client] = effects[d.client] + 1]
      BY <1>6 DEF Serve
    <3>3. effects[d.client] # 2 => effects[d.client] + 1 \in 0 .. 2
      BY <3>1
    <3>. QED BY <3>1, <3>2, <3>3
  <2>6. apart' \in [Clients -> BOOLEAN]
    BY <1>6 DEF Serve, CrossedBy, SystemTypeOK
  <2>. HIDE DEF answer
  <2>. QED BY <1>2, <1>6, <2>2, <2>3, <2>4, <2>5, <2>6 DEF Serve, SystemTypeOK, Bounded
<1>7. CASE Lose
  <2>1. CASE /\ \E d \in BagToSet(requests) : requests' = Taken(requests, d)
             /\ UNCHANGED replies
    <3>1. Bounded(requests') /\ \A e \in BagToSet(requests') : e \in BagToSet(requests)
      BY <1>1, <2>1, TakenIsGone
    <3>. QED BY <1>7, <2>1, <3>1 DEF Lose, vars, SystemTypeOK, Bounded, Sound
  <2>2. CASE /\ \E d \in BagToSet(replies) : replies' = Taken(replies, d)
             /\ UNCHANGED requests
    <3>1. Bounded(replies') /\ \A e \in BagToSet(replies') : e \in BagToSet(replies)
      BY <1>1, <2>2, TakenIsGone
    <3>. QED BY <1>7, <2>2, <3>1 DEF Lose, vars, SystemTypeOK, Bounded, Sound
  <2>. QED BY <1>7, <2>1, <2>2 DEF Lose
<1>8. CASE Duplicate
  <2>1. CASE /\ \E d \in BagToSet(requests) : requests' = Sent(requests, d)
             /\ UNCHANGED replies
    <3>1. Bounded(requests') /\ \A e \in BagToSet(requests') : e \in BagToSet(requests)
      BY <1>1, <2>1, SentIsOnItsWay
    <3>. QED BY <1>8, <2>1, <3>1 DEF Duplicate, vars, SystemTypeOK, Bounded, Sound
  <2>2. CASE /\ \E d \in BagToSet(replies) : replies' = Sent(replies, d)
             /\ UNCHANGED requests
    <3>1. Bounded(replies') /\ \A e \in BagToSet(replies') : e \in BagToSet(replies)
      BY <1>1, <2>2, SentIsOnItsWay
    <3>. QED BY <1>8, <2>2, <3>1 DEF Duplicate, vars, SystemTypeOK, Bounded, Sound
  <2>. QED BY <1>8, <2>1, <2>2 DEF Duplicate
<1>9. CASE UNCHANGED allvars
  BY <1>9 DEF allvars, system, vars, SystemTypeOK, Sound
<1>. QED
  BY <1>3, <1>4, <1>5, <1>6, <1>7, <1>8, <1>9 DEF SystemNext, Receive, ServerLoop

(***************************************************************************)
(* The system starts with a fresh image and nothing on its way.            *)
(***************************************************************************)
LEMMA SystemTypesInit ==
  ASSUME SystemInit
  PROVE  ImageInv /\ SystemTypeOK
<1>1. ImageInv
  BY InitOrdered, InitTypes DEF SystemInit, ImageInv
<1>. QED BY <1>1, NothingSent, CallsAssumption DEF SystemInit, SystemTypeOK, Bounded

-----------------------------------------------------------------------------
(***************************************************************************)
(* The calls.  While a client waits, what it has on its way to the server  *)
(* is its call, if nothing of earlier calls was.                           *)
(***************************************************************************)
OwnRequests(c) ==
  /\ call[c].client = c
  /\ quiet[c] => \A d \in BagToSet(requests) : d.client = c => d = call[c]

Callers == \A c \in Clients : Waits(c) => OwnRequests(c)

(***************************************************************************)
(* What a call that no one disturbs has done: when it has changed the      *)
(* image, or an answer of success is on its way, the image shows it.       *)
(***************************************************************************)
Undisturbed(c) == Waits(c) /\ quiet[c] /\ apart[c]

Modifies(m) == m.message_type = "W" \/ m.message_type = "C" \/ m.message_type = "U"

Succeeds(c, m) ==
  /\ effects[c] # 0 => effects[c] = 1 /\ Modifies(m) /\ Carried(m)
  /\ \A d \in BagToSet(replies) : d.client = c /\ d.reply.success = 0 => Carried(m)

CallInv(c) == Undisturbed(c) => Succeeds(c, call[c].message)

(***************************************************************************)
(* What a client waits for stays its own call.                             *)
(***************************************************************************)
LEMMA CallersKept ==
  ASSUME SystemTypeOK, Callers, [SystemNext]_allvars
  PROVE  Callers'
<1>1. Bounded(requests) /\ Bounded(replies)
  BY DEF SystemTypeOK, Bounded
<1>2. ASSUME UNCHANGED <<call, quiet>>,
             \A e \in BagToSet(requests') :
               e \in BagToSet(requests) \/ \E c \in Clients : Waits(c) /\ e = call[c]
      PROVE  Callers'
  BY <1>2 DEF Callers, Waits, OwnRequests
<1>3. ASSUME NEW c \in Clients, NEW m \in Calls, Call(c, m) PROVE Callers'
  <2>. DEFINE own == [message |-> m, client |-> c]
  <2>1. /\ call' = [call EXCEPT ![c] = own] /\ call'[c] = own
        /\ \A e \in BagToSet(requests') : e \in BagToSet(requests) \/ e = own
        /\ quiet' = [quiet EXCEPT ![c] = Clear(requests, c) /\ Clear(replies, c)]
    BY <1>1, <1>3, SentIsOnItsWay DEF Call, SystemTypeOK
  <2>2. own.client = c
    OBVIOUS
  <2>. HIDE DEF own
  <2>3. quiet \in [Clients -> BOOLEAN] /\ call \in [Clients -> Requests \cup {Idle}]
    BY DEF SystemTypeOK
  <2>4. quiet'[c] = (Clear(requests, c) /\ Clear(replies, c))
    BY <2>1, <2>3, Zenon
  <2>5. OwnRequests(c)'
    BY <2>1, <2>2, <2>4 DEF OwnRequests, Clear
  <2>6. ASSUME NEW e \in Clients, e # c, Waits(e)' PROVE OwnRequests(e)'
    <3>1. call'[e] = call[e] /\ quiet'[e] = quiet[e]
      BY <2>1, <2>3, <2>6
    <3>2. OwnRequests(e)
      BY <2>6, <3>1 DEF Callers, Waits
    <3>. QED BY <2>1, <2>2, <2>6, <3>1, <3>2 DEF OwnRequests
  <2>. QED BY <2>5, <2>6 DEF Callers
<1>4. ASSUME NEW c \in Clients, Timeout(c) PROVE Callers'
  <2>1. \A e \in BagToSet(requests') : e \in BagToSet(requests) \/ e = call[c]
    BY <1>1, <1>4, SentIsOnItsWay DEF Timeout
  <2>. QED BY <1>2, <1>4, <2>1 DEF Timeout
<1>5. ASSUME NEW d \in BagToSet(replies), MFS_Receive_Reply(d) PROVE Callers'
  <2>1. UNCHANGED <<quiet, requests>> /\ \A c \in Clients : Waits(c)' => call'[c] = call[c]
    BY <1>5 DEF MFS_Receive_Reply, Waits, SystemTypeOK
  <2>. QED BY <2>1 DEF Callers, Waits, OwnRequests
<1>6. ASSUME NEW d \in BagToSet(requests), Serve(d) PROVE Callers'
  <2>1. \A e \in BagToSet(requests') : e \in BagToSet(requests)
    BY <1>1, <1>6, TakenIsGone DEF Serve
  <2>. QED BY <1>2, <1>6, <2>1 DEF Serve
<1>7. CASE Lose
  <2>1. \A e \in BagToSet(requests') : e \in BagToSet(requests)
    BY <1>1, <1>7, TakenIsGone DEF Lose
  <2>. QED BY <1>2, <1>7, <2>1 DEF Lose
<1>8. CASE Duplicate
  <2>1. \A e \in BagToSet(requests') : e \in BagToSet(requests)
    BY <1>1, <1>8, SentIsOnItsWay DEF Duplicate
  <2>. QED BY <1>2, <1>8, <2>1 DEF Duplicate
<1>9. CASE UNCHANGED allvars
  BY <1>2, <1>9 DEF allvars, system
<1>. QED
  BY <1>3, <1>4, <1>5, <1>6, <1>7, <1>8, <1>9 DEF SystemNext, Receive, ServerLoop

(***************************************************************************)
(* What has been carried out is so while the image stays as it is.         *)
(***************************************************************************)
LEMMA SameCarried ==
  ASSUME UNCHANGED image, NEW m
  PROVE  Carried(m)' <=> Carried(m)
BY DEF image, Carried, Readable, BlockOK, InUse, Dirs, Found

(***************************************************************************)
(* Serving the call of c itself: the first time may change the image, and  *)
(* what the call asks for is there then; any other time changes nothing.   *)
(***************************************************************************)
LEMMA OwnServed ==
  ASSUME ImageInv, ImageInv', Sound', SystemTypeOK, NEW c \in Clients, NEW m \in Calls,
         Succeeds(c, m), NEW d \in BagToSet(requests), d.client = c, d.message = m, Serve(d)
  PROVE  Succeeds(c, m)'
<1>1. /\ Handle(m) /\ effects[c] \in 0 .. 2
      /\ effects'[c] = IF image' = image \/ effects[c] = 2 THEN effects[c] ELSE effects[c] + 1
  BY DEF Serve, SystemTypeOK
<1>2. \A e \in BagToSet(replies') :
        e \in BagToSet(replies) \/ e = [reply |-> reply', client |-> c]
  <2>1. Bounded(replies)
    BY DEF SystemTypeOK, Bounded
  <2>. QED BY <2>1, SentIsOnItsWay DEF Serve
<1>3. reply'.success = 0 => Carried(m)'
  BY <1>1, SuccessIsCarried
<1>4. CASE Carried(m)
  <2>1. UNCHANGED image
    BY <1>1, <1>4, RepetitionIsNoop
  <2>2. Carried(m)'
    BY <1>4, <2>1, SameCarried
  <2>. QED BY <1>1, <2>1, <2>2 DEF Succeeds
<1>5. CASE ~Carried(m)
  <2>1. /\ effects[c] = 0
        /\ \A e \in BagToSet(replies) : ~(e.client = c /\ e.reply.success = 0)
    BY <1>5 DEF Succeeds
  <2>2. \A e \in BagToSet(replies') : e.client = c /\ e.reply.success = 0 => Carried(m)'
    BY <1>2, <1>3, <2>1
  <2>3. CASE UNCHANGED image
    BY <1>1, <2>1, <2>2, <2>3 DEF Succeeds
  <2>4. CASE image' # image
    <3>1. reply'.success = 0 /\ Modifies(m)
      BY <1>1, <2>4, ChangeSucceeds DEF Modifies
    <3>. QED BY <1>1, <1>3, <2>1, <2>2, <3>1 DEF Succeeds
  <2>. QED BY <2>3, <2>4
<1>. QED BY <1>4, <1>5

(***************************************************************************)
(* Serving the request of another that does not cross c.                   *)
(***************************************************************************)
LEMMA OtherServed ==
  ASSUME ImageInv, ImageInv', Sound', SystemTypeOK, NEW c \in Clients, NEW m \in Calls,
         m = call[c].message, Waits(c), Succeeds(c, m),
         NEW d \in BagToSet(requests), d.client # c, Serve(d), ~CrossedBy(c, d)
  PROVE  Succeeds(c, m)'
<1>1. /\ Handle(d.message) /\ d.message \in Calls
      /\ effects'[c] = effects[c]
  BY DEF Serve, SystemTypeOK, Requests
<1>2. \A e \in BagToSet(replies') :
        e \in BagToSet(replies) \/ e = [reply |-> reply', client |-> d.client]
  <2>1. Bounded(replies)
    BY DEF SystemTypeOK, Bounded
  <2>. QED BY <2>1, SentIsOnItsWay DEF Serve
<1>3. Carried(m) => Carried(m)'
  <2>1. CASE UNCHANGED image
    BY <2>1, SameCarried
  <2>2. CASE image' # image
    <3>1. Uses(m) \cap Changed(d.message) = {}
      BY <2>2 DEF CrossedBy
    <3>. QED BY <1>1, <2>2, <3>1, OthersSpare
  <2>. QED BY <2>1, <2>2
<1>. QED BY <1>1, <1>2, <1>3 DEF Succeeds

(***************************************************************************)
(* Every step keeps what is known of the calls that no one disturbs.       *)
(***************************************************************************)
LEMMA CallsKept ==
  ASSUME ImageInv, ImageInv', Sound', SystemTypeOK, Callers, [SystemNext]_allvars,
         \A c \in Clients : CallInv(c)
  PROVE  \A c \in Clients : CallInv(c)'
<1>. SUFFICES ASSUME NEW c \in Clients, Undisturbed(c)', NEW m, m = call'[c].message
              PROVE  Succeeds(c, m)'
  BY DEF CallInv, Succeeds, Carried
<1>1. Bounded(requests) /\ Bounded(replies)
  BY DEF SystemTypeOK, Bounded
<1>2. Undisturbed(c) => Succeeds(c, call[c].message)
  BY DEF CallInv
<1>3. ASSUME UNCHANGED <<image, effects>>, Undisturbed(c), call'[c] = call[c],
             \A e \in BagToSet(replies') : e \in BagToSet(replies)
      PROVE  Succeeds(c, m)'
  <2>1. Succeeds(c, m)
    BY <1>2, <1>3
  <2>. QED BY <1>3, <2>1, SameCarried DEF Succeeds
<1>4. Waits(c)' /\ quiet'[c] /\ apart'[c] /\ call'[c] # Idle
  BY DEF Undisturbed, Waits
<1>5. ASSUME NEW e \in Clients, NEW k \in Calls, Call(e, k) PROVE Succeeds(c, m)'
  <2>1. CASE e = c
    <3>1. effects'[c] = 0 /\ quiet'[c] = (Clear(requests, c) /\ Clear(replies, c))
      BY <1>5, <2>1 DEF Call, SystemTypeOK
    <3>2. Clear(replies, c) /\ replies' = replies
      BY <1>4, <1>5, <3>1 DEF Call
    <3>. QED BY <3>1, <3>2 DEF Succeeds, Clear
  <2>2. CASE e # c
    <3>1. /\ call'[c] = call[c] /\ quiet'[c] = quiet[c] /\ apart'[c] = apart[c]
          /\ effects'[c] = effects[c] /\ UNCHANGED <<image, replies>>
      BY <1>5, <2>2 DEF Call, SystemTypeOK, vars, image
    <3>2. Undisturbed(c) /\ Succeeds(c, m)
      BY <1>2, <1>4, <3>1 DEF Undisturbed, Waits
    <3>. QED BY <3>1, <3>2, SameCarried DEF Succeeds
  <2>. QED BY <2>1, <2>2
<1>6. ASSUME NEW e \in Clients, Timeout(e) PROVE Succeeds(c, m)'
  BY <1>3, <1>4, <1>6 DEF Timeout, Undisturbed, Waits, vars, image
<1>7. ASSUME NEW d \in BagToSet(replies), MFS_Receive_Reply(d) PROVE Succeeds(c, m)'
  <2>1. call'[c] = call[c]
    BY <1>4, <1>7 DEF MFS_Receive_Reply, SystemTypeOK
  <2>2. \A e \in BagToSet(replies') : e \in BagToSet(replies)
    BY <1>1, <1>7, TakenIsGone DEF MFS_Receive_Reply
  <2>. QED BY <1>3, <1>4, <1>7, <2>1, <2>2 DEF MFS_Receive_Reply, Undisturbed, Waits, vars, image
<1>8. ASSUME NEW d \in BagToSet(requests), Serve(d) PROVE Succeeds(c, m)'
  <2>1. /\ call' = call /\ quiet' = quiet
        /\ apart[c] /\ ~CrossedBy(c, d)
    BY <1>4, <1>8 DEF Serve
  <2>2. Undisturbed(c) /\ m = call[c].message /\ call[c] # Idle
    BY <1>4, <2>1 DEF Undisturbed, Waits
  <2>3. m \in Calls /\ Succeeds(c, m) /\ Waits(c)
    BY <1>2, <2>2 DEF SystemTypeOK, Requests, Undisturbed
  <2>4. CASE d.client = c
    <3>1. d.message = m
      BY <2>2, <2>4 DEF Callers, OwnRequests, Undisturbed
    <3>. QED BY <1>8, <2>3, <2>4, <3>1, OwnServed
  <2>5. CASE d.client # c
    BY <1>8, <2>1, <2>2, <2>3, <2>5, OtherServed
  <2>. QED BY <2>4, <2>5
<1>9. CASE Lose
  <2>1. \A e \in BagToSet(replies') : e \in BagToSet(replies)
    BY <1>1, <1>9, TakenIsGone DEF Lose
  <2>. QED BY <1>3, <1>4, <1>9, <2>1 DEF Lose, Undisturbed, Waits, vars, image
<1>10. CASE Duplicate
  <2>1. \A e \in BagToSet(replies') : e \in BagToSet(replies)
    BY <1>1, <1>10, SentIsOnItsWay DEF Duplicate
  <2>. QED BY <1>3, <1>4, <1>10, <2>1 DEF Duplicate, Undisturbed, Waits, vars, image
<1>11. CASE UNCHANGED allvars
  BY <1>3, <1>4, <1>11 DEF allvars, system, Undisturbed, Waits, vars, image
<1>. QED
  BY <1>5, <1>6, <1>7, <1>8, <1>9, <1>10, <1>11 DEF SystemNext, Receive, ServerLoop

(***************************************************************************)
(* The invariant of the system.                                            *)
(***************************************************************************)
SystemInv ==
  /\ ImageInv /\ SystemTypeOK /\ Callers
  /\ Sound => \A c \in Clients : CallInv(c)

(***************************************************************************)
(* The system's invariant holds at the start, and every step keeps it.     *)
(***************************************************************************)
LEMMA SystemInvInit == SystemInit => SystemInv
BY SystemTypesInit DEF SystemInit, SystemInv, Callers, CallInv, Undisturbed, Waits

LEMMA SystemInvKept == SystemInv /\ [SystemNext]_allvars => SystemInv'
<1>. SUFFICES ASSUME SystemInv, [SystemNext]_allvars PROVE SystemInv'
  OBVIOUS
<1>1. ImageInv /\ SystemTypeOK /\ Callers
  BY DEF SystemInv
<1>2. ImageInv' /\ SystemTypeOK' /\ Callers' /\ (Sound' => Sound)
  BY <1>1, ImageIsKept, SystemTypesKept, CallersKept
<1>3. Sound' => \A c \in Clients : CallInv(c)'
  BY <1>1, <1>2, CallsKept DEF SystemInv
<1>. QED BY <1>2, <1>3 DEF SystemInv

(***************************************************************************)
(* The invariant of the system: the image is in order, every datagram is   *)
(* of its type, what is on its way belongs to calls that were made, and a  *)
(* call that no one disturbs has been carried out once or not yet.         *)
(***************************************************************************)
THEOREM SystemInvariant == SystemSpec => []SystemInv
BY SystemInvInit, SystemInvKept, PTL DEF SystemSpec

(***************************************************************************)
(* Whatever the network does with the datagrams, the image goes through    *)
(* the steps of MFSServer: what is proved of the server holds of the       *)
(* system.                                                                 *)
(***************************************************************************)
THEOREM SystemServes == SystemSpec => Spec
<1>1. SystemInit => Init
  BY DEF SystemInit
<1>2. SystemInv /\ [SystemNext]_allvars => [Next]_vars
  BY ServerSteps DEF SystemInv
<1>. QED BY <1>1, <1>2, SystemInvariant, PTL DEF SystemSpec, Spec

(***************************************************************************)
(* A call that no one disturbs changes the image once at most.             *)
(***************************************************************************)
THEOREM EffectsHappenOnce == SystemSpec => [](Sound => OneEffect)
<1>1. SystemInv => (Sound => OneEffect)
  <2>. SUFFICES ASSUME SystemInv, Sound, NEW c \in Clients, Undisturbed(c)
                PROVE  effects[c] <= 1
    BY DEF OneEffect, Undisturbed
  <2>. QED BY DEF SystemInv, CallInv, Succeeds
<1>. QED BY <1>1, SystemInvariant, PTL

(***************************************************************************)
(* A call that no one disturbs and that returns success has been carried   *)
(* out.                                                                    *)
(***************************************************************************)
THEOREM AcknowledgedIsDone == SystemSpec /\ []Sound => AckedIsDone
<1>. DEFINE Acked ==
       \A d \in BagToSet(replies) :
         MFS_Receive_Reply(d) /\ d.reply.success = 0 /\ quiet[d.client] /\ apart[d.client]
           => Done(call[d.client].message)
<1>1. SystemInv /\ Sound => Acked
  <2>. SUFFICES ASSUME SystemInv, Sound, NEW d \in BagToSet(replies), MFS_Receive_Reply(d),
                       d.reply.success = 0, quiet[d.client], apart[d.client]
                PROVE  Done(call[d.client].message)
    OBVIOUS
  <2>1. d.client \in Clients /\ TypeInv
    BY DEF SystemInv, SystemTypeOK, Answers, ImageInv
  <2>. PICK m : m = call[d.client].message
    OBVIOUS
  <2>2. Carried(m)
    BY <2>1 DEF SystemInv, CallInv, Undisturbed, Succeeds, MFS_Receive_Reply
  <2>. QED BY <2>1, <2>2, CarriedIsDone
<1>2. SystemInv /\ Sound /\ [SystemNext]_allvars => [Acked]_allvars
  BY <1>1
<1>. QED BY <1>2, SystemInvariant, PTL DEF SystemSpec, AckedIsDone

-----------------------------------------------------------------------------
(***************************************************************************)
(* Failure.  The requests that the image, as it is, has refused.           *)
(***************************************************************************)
Refusing(m) ==
  /\ m.message_type = "W" =>
       \/ m.inum = MFS_INODE_TABLE_SIZE
       \/ ~WriteOK(m.inum, m.block)
       \/ /\ m.block \in BlockIndices => inodes[m.inum].blocks[m.block] = -1
          /\ next_available_block(data_bitmap) = -1
  /\ m.message_type = "C" =>
       ~(CreatOK(m.inum) /\ (Found(m.inum, m.name) # -1 \/ HasRoom(m.inum)))
  /\ m.message_type = "U" =>
       ~(UnlinkOK(m.inum) /\ (\/ Found(m.inum, m.name) = -1
                              \/ \A inode \in LoadedFor(m.inum, m.name) : Removable(inode)))

Fails(c, m) ==
  \A d \in BagToSet(replies) :
    d.client = c /\ d.reply.success = -1 => effects[c] = 0 /\ Refusing(m)

FailInv(c) == Undisturbed(c) => Fails(c, call[c].message)

(***************************************************************************)
(* A request that fails leaves the image as it is, refusing it.            *)
(***************************************************************************)
LEMMA FailureIsRefused ==
  ASSUME NEW m \in Calls, Handle(m), reply'.success = -1
  PROVE  UNCHANGED image /\ Refusing(m)
<1>1. reply'.success # 0 /\ \A s : Reply(s, 0).success = 0
  BY DEF Reply
<1>2. UNCHANGED image
  BY ChangeSucceeds
<1>3. CASE m.message_type = "W"
  <2>1. \/ m.inum = MFS_INODE_TABLE_SIZE
        \/ reply_Write(m.inum, m.block, m.buffer)
    BY <1>3 DEF Handle
  <2>. QED
    BY <1>1, <1>2, <1>3, <2>1
       DEF Refusing, reply_Write, WriteRefused, WriteInPlace, WriteNewBlock, WriteNoSpace,
           WritePastTable
<1>4. CASE m.message_type = "C"
  <2>1. reply_Creat(m.inum, m.type, m.name)
    BY <1>4 DEF Handle
  <2>2. ~CreatExists(m.inum, m.name)
    BY <1>1 DEF CreatExists, Answer
  <2>3. ~CreatNew(m.inum, m.type, m.name)
    BY <1>1, Zenon DEF CreatNew
  <2>. QED BY <1>2, <1>4, <2>1, <2>2, <2>3 DEF Refusing, reply_Creat, CreatRefused
<1>5. CASE m.message_type = "U"
  <2>1. reply_Unlink(m.inum, m.name)
    BY <1>5 DEF Handle
  <2>2. ~UnlinkAbsent(m.inum, m.name)
    BY <1>1 DEF UnlinkAbsent, Answer
  <2>3. ~UnlinkRemove(m.inum, m.name)
    BY <1>1, Zenon DEF UnlinkRemove
  <2>. QED BY <1>2, <1>5, <2>1, <2>2, <2>3 DEF Refusing, reply_Unlink, UnlinkRefused
<1>. QED BY <1>2, <1>3, <1>4, <1>5 DEF Refusing

(***************************************************************************)
(* A request that the image refuses is refused when its message comes      *)
(* again, unless it is the one that strikes the defect past the table.     *)
(***************************************************************************)
LEMMA RefusedAgain ==
  ASSUME ImageInv, Sound', NEW m \in Calls, Refusing(m), Handle(m)
  PROVE  UNCHANGED image
<1>. SUFFICES ASSUME image' # image PROVE FALSE
  OBVIOUS
<1>1. CASE m.message_type = "W" /\ reply_Write(m.inum, m.block, m.buffer)
  <2>1. m.inum # MFS_INODE_TABLE_SIZE
    BY <1>1, ChangeSucceeds, SizesAssumption DEF Handle, WriteBehindTable, Answer
  <2>2. \/ ~WriteOK(m.inum, m.block)
        \/ /\ m.block \in BlockIndices => inodes[m.inum].blocks[m.block] = -1
           /\ next_available_block(data_bitmap) = -1
    BY <1>1, <2>1 DEF Refusing
  <2>3. ~WritePastTable(m.inum, m.block, m.buffer)
    BY DEF WritePastTable, Sound
  <2>. QED
    BY <1>1, <2>2, <2>3
       DEF reply_Write, WriteRefused, WriteInPlace, WriteNewBlock, WriteNoSpace, Answer
<1>2. CASE m.message_type = "C" /\ CreatNew(m.inum, m.type, m.name)
  <2>1. CreatOK(m.inum) /\ HasRoom(m.inum)
    BY <1>2, Zenon DEF CreatNew
  <2>. QED BY <1>2, <2>1 DEF Refusing
<1>3. CASE m.message_type = "U" /\ UnlinkRemove(m.inum, m.name)
  <2>. PICK n, name : n = m.inum /\ name = m.name
    OBVIOUS
  <2>1. n \in InumArgs /\ UnlinkRemove(n, name)
    BY <1>3, CallFields
  <2>2. UnlinkMade(n, name) /\ EntryFor(n, name).inum \in Inums
    BY <2>1, RemovesMade DEF ImageInv, TypeInv, Sound
  <2>3. UnlinkOK(n) /\ Removable(inodes[EntryFor(n, name).inum])
    BY <2>2, Zenon DEF UnlinkMade
  <2>4. LoadedFor(n, name) = {inodes[EntryFor(n, name).inum]}
    BY <2>2, InTable DEF LoadedFor
  <2>. QED BY <1>3, <2>3, <2>4 DEF Refusing
<1>. QED BY <1>1, <1>2, <1>3, ChangeSucceeds

(***************************************************************************)
(* A step that leaves the image as it is leaves what the server would      *)
(* refuse.                                                                 *)
(***************************************************************************)
LEMMA SameRefusing ==
  ASSUME UNCHANGED image, NEW m
  PROVE  Refusing(m)' <=> Refusing(m)
BY DEF image, Refusing, WriteOK, CreatOK, UnlinkOK, InumOK, IsFile, HasRoom, Found,
       Removable, LoadedFor, Loaded, EntryFor

(***************************************************************************)
(* With one client, a request that was refused stays so while its call     *)
(* waits: every change of the image would be the call's own.               *)
(***************************************************************************)
LEMMA FailuresKept ==
  ASSUME \A c, e \in Clients : c = e,
         SystemInv, SystemInv', Sound', [SystemNext]_allvars, \A c \in Clients : FailInv(c)
  PROVE  \A c \in Clients : FailInv(c)'
<1>. SUFFICES ASSUME NEW c \in Clients, Undisturbed(c)', NEW m, m = call'[c].message
              PROVE  Fails(c, m)'
  BY DEF FailInv, Fails, Refusing
<1>1. Bounded(requests) /\ Bounded(replies) /\ SystemTypeOK /\ ImageInv /\ Callers
  BY DEF SystemInv, SystemTypeOK, Bounded
<1>2. Undisturbed(c) => Fails(c, call[c].message)
  BY DEF FailInv
<1>3. ASSUME UNCHANGED <<image, effects>>, Undisturbed(c), call'[c] = call[c],
             \A e \in BagToSet(replies') : e \in BagToSet(replies)
      PROVE  Fails(c, m)'
  <2>1. Fails(c, m)
    BY <1>2, <1>3
  <2>. QED BY <1>3, <2>1, SameRefusing DEF Fails
<1>4. Waits(c)' /\ quiet'[c] /\ apart'[c] /\ call'[c] # Idle
  BY DEF Undisturbed, Waits
<1>5. ASSUME NEW e \in Clients, NEW k \in Calls, Call(e, k) PROVE Fails(c, m)'
  <2>1. e = c
    OBVIOUS
  <2>2. quiet'[c] = (Clear(requests, c) /\ Clear(replies, c))
    BY <1>1, <1>5, <2>1 DEF Call, SystemTypeOK
  <2>3. Clear(replies, c) /\ replies' = replies
    BY <1>4, <1>5, <2>2 DEF Call
  <2>. QED BY <2>3 DEF Fails, Clear
<1>6. ASSUME NEW e \in Clients, Timeout(e) PROVE Fails(c, m)'
  BY <1>3, <1>4, <1>6 DEF Timeout, Undisturbed, Waits, vars, image
<1>7. ASSUME NEW d \in BagToSet(replies), MFS_Receive_Reply(d) PROVE Fails(c, m)'
  <2>1. call'[c] = call[c]
    BY <1>1, <1>4, <1>7 DEF MFS_Receive_Reply, SystemTypeOK
  <2>2. \A e \in BagToSet(replies') : e \in BagToSet(replies)
    BY <1>1, <1>7, TakenIsGone DEF MFS_Receive_Reply
  <2>. QED BY <1>3, <1>4, <1>7, <2>1, <2>2 DEF MFS_Receive_Reply, Undisturbed, Waits, vars, image
<1>8. ASSUME NEW d \in BagToSet(requests), Serve(d) PROVE Fails(c, m)'
  <2>1. /\ call' = call /\ quiet' = quiet /\ apart[c]
    BY <1>4, <1>8 DEF Serve
  <2>2. Undisturbed(c) /\ m = call[c].message /\ call[c] # Idle
    BY <1>4, <2>1 DEF Undisturbed, Waits
  <2>3. m \in Calls /\ d.client = c /\ Waits(c)
    BY <1>1, <2>2 DEF SystemTypeOK, Requests, Undisturbed
  <2>4. d.message = m
    BY <1>1, <2>2, <2>3 DEF Callers, OwnRequests, Undisturbed
  <2>5. Sound
    BY <1>1, ImageIsKept
  <2>6. Fails(c, m) /\ Succeeds(c, m)
    BY <1>2, <2>2, <2>5 DEF SystemInv, CallInv
  <2>7. /\ Handle(m)
        /\ image' = image => effects'[c] = effects[c]
        /\ \A e \in BagToSet(replies') :
             e \in BagToSet(replies) \/ e = [reply |-> reply', client |-> c]
    BY <1>1, <1>8, <2>3, <2>4, SentIsOnItsWay DEF Serve, SystemTypeOK
  <2>8. CASE Refusing(m)
    <3>1. UNCHANGED image
      BY <1>1, <2>3, <2>7, <2>8, RefusedAgain
    <3>2. Refusing(m)' /\ effects'[c] = effects[c]
      BY <2>7, <2>8, <3>1, SameRefusing
    <3>3. reply'.success = -1 => effects[c] = 0
      <4>. SUFFICES ASSUME reply'.success = -1, effects[c] # 0 PROVE FALSE
        OBVIOUS
      <4>1. reply'.success = 0
        BY <1>1, <2>3, <2>6, <2>7, RepetitionIsNoop DEF Succeeds, Modifies
      <4>. QED BY <4>1
    <3>. QED BY <2>6, <2>7, <3>2, <3>3 DEF Fails
  <2>9. CASE ~Refusing(m)
    <3>1. reply'.success # -1
      BY <2>3, <2>7, <2>9, FailureIsRefused
    <3>2. \A e \in BagToSet(replies) : ~(e.client = c /\ e.reply.success = -1)
      BY <2>6, <2>9 DEF Fails
    <3>. QED BY <2>7, <3>1, <3>2 DEF Fails
  <2>. QED BY <2>8, <2>9
<1>9. CASE Lose
  <2>1. \A e \in BagToSet(replies') : e \in BagToSet(replies)
    BY <1>1, <1>9, TakenIsGone DEF Lose
  <2>. QED BY <1>3, <1>4, <1>9, <2>1 DEF Lose, Undisturbed, Waits, vars, image
<1>10. CASE Duplicate
  <2>1. \A e \in BagToSet(replies') : e \in BagToSet(replies)
    BY <1>1, <1>10, SentIsOnItsWay DEF Duplicate
  <2>. QED BY <1>3, <1>4, <1>10, <2>1 DEF Duplicate, Undisturbed, Waits, vars, image
<1>11. CASE UNCHANGED allvars
  BY <1>3, <1>4, <1>11 DEF allvars, system, Undisturbed, Waits, vars, image
<1>. QED
  BY <1>5, <1>6, <1>7, <1>8, <1>9, <1>10, <1>11 DEF SystemNext, Receive, ServerLoop

(***************************************************************************)
(* With one client, a call with nothing of an earlier one on its way that  *)
(* returns failure has changed nothing.                                    *)
(***************************************************************************)
THEOREM FailedChangesNothing ==
  ASSUME \A c, e \in Clients : c = e
  PROVE  SystemSpec /\ []Sound => FailedIsUndone
<1>. DEFINE Inv == SystemInv /\ (Sound => \A c \in Clients : FailInv(c))
            Undone == \A d \in BagToSet(replies) :
              MFS_Receive_Reply(d) /\ d.reply.success = -1 /\ quiet[d.client] /\ apart[d.client]
                => effects[d.client] = 0
<1>1. SystemInit => Inv
  BY SystemInvInit DEF SystemInit, FailInv, Undisturbed, Waits
<1>2. Inv /\ [SystemNext]_allvars => Inv'
  <2>. SUFFICES ASSUME Inv, [SystemNext]_allvars PROVE Inv'
    OBVIOUS
  <2>1. SystemInv' /\ (Sound' => Sound)
    BY SystemInvKept, ImageIsKept DEF SystemInv
  <2>2. Sound' => \A c \in Clients : FailInv(c)'
    BY <2>1, FailuresKept
  <2>. QED BY <2>1, <2>2
<1>3. Inv /\ Sound => Undone
  <2>. SUFFICES ASSUME Inv, Sound, NEW d \in BagToSet(replies), MFS_Receive_Reply(d),
                       d.reply.success = -1, quiet[d.client], apart[d.client]
                PROVE  effects[d.client] = 0
    OBVIOUS
  <2>1. d.client \in Clients
    BY DEF SystemInv, SystemTypeOK, Answers
  <2>. QED BY <2>1 DEF FailInv, Undisturbed, Fails, MFS_Receive_Reply
<1>4. Inv /\ Sound /\ [SystemNext]_allvars => [Undone]_allvars
  BY <1>3
<1>. HIDE DEF Inv
<1>. QED BY <1>1, <1>2, <1>4, PTL DEF SystemSpec, FailedIsUndone
=============================================================================
