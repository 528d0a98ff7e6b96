------------------------------ MODULE MFSCrash ------------------------------
(***************************************************************************)
(* The server write by write, killed at any moment and started again on    *)
(* the image file it left.                                                 *)
(*                                                                         *)
(* A handler works out what it stores before it stores anything, then      *)
(* makes its writes one after the other, syncs, and replies.  A kill       *)
(* leaves those made so far (the operating system has them).  The client   *)
(* gets no reply and sends its message again.                              *)
(***************************************************************************)
EXTENDS MFSServer, Sequences

CONSTANTS
  Calls,     \* the messages that the client may send
  MaxKills,  \* bound: kills of a run
  Idle       \* no message

VARIABLES
  call,    \* the message whose reply the client awaits, or Idle
  server,  \* what the server is doing
  parts,   \* how many of the 4 parts of the image file exist; -1, no file
  writes,  \* the writes that the handler has yet to make
  before,  \* history: image, reply and harm when the handler began writing
  kills,   \* history: how often the server was killed
  torn     \* history: whether a kill or a call fell where the image does not bear it

crash == <<call, server, parts, writes, before, kills, torn>>
crashvars == <<vars, crash>>

ASSUME KilledCallsAssumption ==
  /\ Calls \subseteq [message_type : {"S", "R", "W", "C", "U"},
                      inum : Inums, type : TypeArgs, block : BlockIndices,
                      name : Names \cup {Blank}, buffer : Texts \cup {Blank}]
  /\ Idle \notin Calls
  /\ MaxKills \in Nat

Snapshot == [inode_bitmap |-> inode_bitmap, data_bitmap |-> data_bitmap,
             inodes |-> inodes, data |-> data, reply |-> reply, harm |-> harm]

-----------------------------------------------------------------------------
(***************************************************************************)
(* A write: what it stores, as functions from places.                      *)
(***************************************************************************)
At(place, content) == [x \in {place} |-> content]

Store == [inode_bitmap |-> Nowhere, data_bitmap |-> Nowhere, inodes |-> Nowhere, data |-> Nowhere]

StoreInodeBitmap(bitmap) == [Store EXCEPT !.inode_bitmap = bitmap]
StoreDataBitmap(bitmap) == [Store EXCEPT !.data_bitmap = bitmap]
StoreInode(n, inode) == [Store EXCEPT !.inodes = At(n, inode)]
StoreEntry(b, s, ent) == [Store EXCEPT !.data = At(<<b, s>>, ent)]
StoreBlock(b, text) ==
  [Store EXCEPT !.data = [p \in {b} \X Slots |-> TextBlock(text)[p[2]]]]

(***************************************************************************)
(* The writes of reply_Write, reply_Unlink and reply_Creat.                *)
(***************************************************************************)
(* Mutant: the pointer is stored before the block. *)
WriteStores_PointerFirst(inum, block, text) ==
  LET b == inodes[inum].blocks[block]
      new == next_available_block(data_bitmap)
  IN  IF b # -1 THEN << StoreBlock(b, text) >>
      ELSE << StoreInode(inum, push_inode_update(inodes[inum], block, new)),
              StoreBlock(new, text),
              StoreDataBitmap(At(new, 1)) >>

WriteStores(inum, block, text) ==
  LET b == inodes[inum].blocks[block]
      new == next_available_block(data_bitmap)
  IN  IF b # -1 THEN << StoreBlock(b, text) >>
      ELSE << StoreBlock(new, text),
              StoreInode(inum, push_inode_update(inodes[inum], block, new)),
              StoreDataBitmap(At(new, 1)) >>

(* What load_inode made of the entry's inum (unlinked), and the entries    *)
(* hit when that is no inode of the table (ents), are MFSServer's.         *)
(* Mutants: the blocks are given back before the entry is taken away; the  *)
(* inode is not given back; the parent's inode is stored first.            *)
UnlinkStores_BlocksFirst(pinum, name, unlinked, ents) ==
  LET i == Found(pinum, name)
      inum == EntryFor(pinum, name).inum
  IN  << StoreDataBitmap(decomission_blocks(unlinked, data_bitmap)),
         StoreEntry(EntBlock(inodes[pinum], i), i % DirEntsPerBlock, UnusedEnt),
         StoreInode(pinum, [inodes[pinum] EXCEPT !.real_size = @ - 1]),
         StoreInodeBitmap([inode_bitmap EXCEPT ![inum] = 0]),
         [StoreInode(inum, decomission_inode(unlinked)) EXCEPT !.data = ents] >>
UnlinkStores_InodeKept(pinum, name, unlinked, ents) ==
  LET i == Found(pinum, name)
      inum == EntryFor(pinum, name).inum
  IN  << StoreEntry(EntBlock(inodes[pinum], i), i % DirEntsPerBlock, UnusedEnt),
         StoreInode(pinum, [inodes[pinum] EXCEPT !.real_size = @ - 1]),
         StoreDataBitmap(decomission_blocks(unlinked, data_bitmap)),
         [StoreInode(inum, decomission_inode(unlinked)) EXCEPT !.data = ents] >>
UnlinkStores_ParentFirst(pinum, name, unlinked, ents) ==
  LET i == Found(pinum, name)
      inum == EntryFor(pinum, name).inum
  IN  << StoreInode(pinum, [inodes[pinum] EXCEPT !.real_size = @ - 1]),
         StoreEntry(EntBlock(inodes[pinum], i), i % DirEntsPerBlock, UnusedEnt),
         StoreInodeBitmap([inode_bitmap EXCEPT ![inum] = 0]),
         StoreDataBitmap(decomission_blocks(unlinked, data_bitmap)),
         [StoreInode(inum, decomission_inode(unlinked)) EXCEPT !.data = ents] >>

UnlinkStores(pinum, name, unlinked, ents) ==
  LET i == Found(pinum, name)
      inum == EntryFor(pinum, name).inum
  IN  << StoreEntry(EntBlock(inodes[pinum], i), i % DirEntsPerBlock, UnusedEnt),
         StoreInode(pinum, [inodes[pinum] EXCEPT !.real_size = @ - 1]),
         StoreInodeBitmap([inode_bitmap EXCEPT ![inum] = 0]),
         StoreDataBitmap(decomission_blocks(unlinked, data_bitmap)),
         [StoreInode(inum, decomission_inode(unlinked)) EXCEPT !.data = ents] >>

NewInum == next_available_inode(inode_bitmap)
EntryBlock(dir) ==
  IF BlockNeeded(dir) THEN next_available_block(data_bitmap) ELSE LastBlock(dir)

(* Mutant: looks in the bitmap as it is on disk. *)
OwnBlock_OnDisk(dir, type) ==
  IF type = MFS_DIRECTORY THEN next_available_block(data_bitmap) ELSE -1

OwnBlock(dir, type) ==
  IF type = MFS_DIRECTORY THEN next_available_block(TakenForEntry(dir, data_bitmap)) ELSE -1

(***************************************************************************)
(* The entry "." that goes astray, and an entry written in front of the    *)
(* data region, with what the inodes they hit then read as.                *)
(***************************************************************************)
Stray(new_inum, scrap, ent) ==
  [Store EXCEPT
     !.inodes = [n \in StrayHits(new_inum) |->
                   IF n = new_inum + 1 THEN [scrap[n] EXCEPT !.type = new_inum] ELSE scrap[n]],
     !.data = IF SpillsOver(new_inum) THEN At(<<0, 0>>, ent) ELSE Nowhere]

WithTail(store, b, s, scrap) ==
  [store EXCEPT !.inodes = IF b = -1 THEN [n \in TailHits(s) |-> scrap[n]] ELSE Nowhere]

(* Mutant: the parent's inode is stored first. *)
CreatStores_ParentFirst(pinum, type, name, scrap, ent) ==
  LET dir == inodes[pinum]
      b == EntryBlock(dir)
      slot == SlotForEntry(dir)
  IN  << StoreInode(pinum, WithEntry(dir, b)),
         StoreInodeBitmap(Occupied(inode_bitmap, NewInum)),
         StoreDataBitmap(Occupied(TakenForEntry(dir, data_bitmap), OwnBlock(dir, type))),
         WithTail(StoreEntry(b, slot, [inum |-> NewInum, name |-> name]), b, slot, scrap),
         StoreInode(NewInum, NewInode(type, OwnBlock(dir, type))) >>
      \o IF type = MFS_DIRECTORY THEN << Stray(NewInum, scrap, ent) >> ELSE << >>

CreatStores(pinum, type, name, scrap, ent) ==
  LET dir == inodes[pinum]
      b == EntryBlock(dir)
      slot == SlotForEntry(dir)
  IN  << StoreInodeBitmap(Occupied(inode_bitmap, NewInum)),
         StoreDataBitmap(Occupied(TakenForEntry(dir, data_bitmap), OwnBlock(dir, type))),
         StoreInode(pinum, WithEntry(dir, b)),
         WithTail(StoreEntry(b, slot, [inum |-> NewInum, name |-> name]), b, slot, scrap),
         StoreInode(NewInum, NewInode(type, OwnBlock(dir, type))) >>
      \o IF type = MFS_DIRECTORY THEN << Stray(NewInum, scrap, ent) >> ELSE << >>

Made(store) ==
  /\ inode_bitmap' = Overlay(inode_bitmap, DOMAIN store.inode_bitmap, store.inode_bitmap)
  /\ data_bitmap' = Overlay(data_bitmap, DOMAIN store.data_bitmap, store.data_bitmap)
  /\ inodes' = Overlay(inodes, DOMAIN store.inodes, store.inodes)
  /\ data' = WithEntries(data, store.data)

-----------------------------------------------------------------------------
(***************************************************************************)
(* Which requests write, and what they then store.                         *)
(***************************************************************************)
Writing(m) ==
  \/ /\ m.message_type = "W"
     /\ WriteOK(m.inum, m.block)
     /\ inodes[m.inum].blocks[m.block] # -1 \/ next_available_block(data_bitmap) # -1
  \/ /\ m.message_type = "C"
     /\ CreatOK(m.inum) /\ Found(m.inum, m.name) = -1 /\ HasRoom(m.inum)
  \/ /\ m.message_type = "U"
     /\ UnlinkOK(m.inum) /\ Found(m.inum, m.name) # -1
     /\ \E unlinked \in LoadedFor(m.inum, m.name) : Removable(unlinked)

Stores(m) ==
  CASE m.message_type = "W" -> {WriteStores(m.inum, m.block, m.buffer)}
    [] m.message_type = "U" ->
         {UnlinkStores(m.inum, m.name, unlinked, ents) :
            unlinked \in {inode \in LoadedFor(m.inum, m.name) : Removable(inode)},
            ents \in EntriesOver(EntryFor(m.inum, m.name).inum)}
    [] m.message_type = "C" ->
         {CreatStores(m.inum, m.type, m.name, scrap, ent) :
            scrap \in [Inums -> ScrapInodes],
            ent \in IF SpillsOver(NewInum) THEN SpilledEnts(NewInum) ELSE {ZeroEnt}}

(***************************************************************************)
(* The defects of MFSServer that these writes amount to.                   *)
(***************************************************************************)
Strikes(m) ==
  CASE m.message_type = "U" -> Struck("default_entry", NotMade(m.inum, m.name))
    [] m.message_type = "C" ->
         LET dir == inodes[m.inum]
             isdir == m.type = MFS_DIRECTORY
         IN  Struck("no_block", EntryBlock(dir) = -1 \/ (isdir /\ OwnBlock(dir, m.type) = -1))
             \cup Struck("stray_write",
                    isdir /\ (SpillsOver(NewInum)
                              \/ \E n \in StrayHits(NewInum) : inode_bitmap[n] = 1))
    [] OTHER -> {}

-----------------------------------------------------------------------------
CrashInit ==
  /\ Init
  /\ call = Idle
  /\ server = "down"
  /\ parts = -1
  /\ writes = << >>
  /\ before = Idle
  /\ kills = 0
  /\ torn = FALSE

(***************************************************************************)
(* MFS_File_System_Init: a file that is there is taken as it is, else it   *)
(* is made with four writes (two bitmaps, inode table, data region).  The  *)
(* variables of the image are what it will be; what a server makes of a    *)
(* part of it is left out.                                                 *)
(***************************************************************************)
Boot ==
  /\ server = "down"
  /\ \/ parts = -1 /\ parts' = 0 /\ server' = "making"
     \/ parts # -1 /\ server' = "serving" /\ UNCHANGED parts
  /\ UNCHANGED <<vars, call, writes, before, kills, torn>>

MakePart ==
  /\ server = "making"
  /\ \/ parts < 4 /\ parts' = parts + 1 /\ UNCHANGED server
     \/ parts = 4 /\ server' = "serving" /\ UNCHANGED parts
  /\ UNCHANGED <<vars, call, writes, before, kills, torn>>

(***************************************************************************)
(* The inodes that paths lead to from the root.  A program may call with   *)
(* the number of another, which it looked up earlier: the server asks only *)
(* whether it is marked.  A request that changes such an inode is astray:  *)
(* what its record says can be old, and its blocks another file's by now.  *)
(***************************************************************************)
LedTo(below) ==
  LET closed == {S \in SUBSET Inums : 0 \in S /\ \A d \in S \cap DOMAIN below : below[d] \subseteq S}
  IN  {n \in Inums : \A S \in closed : n \in S}

Reached == LedTo([d \in Dirs |-> Children(d)])

Astray(m) == m.message_type \in {"W", "C", "U"} /\ m.inum \in InUse \ Reached

ClientCall(m) ==
  /\ call = Idle
  /\ call' = m
  /\ torn' = (torn \/ Astray(m))
  /\ UNCHANGED <<vars, server, parts, writes, before, kills>>

(***************************************************************************)
(* The message reaches the server, for the first time or again.            *)
(***************************************************************************)
Begin ==
  /\ server = "serving" /\ parts = 4
  /\ call # Idle
  /\ Writing(call)
  /\ server' = "writing"
  /\ writes' \in Stores(call)
  /\ before' = Snapshot
  /\ harm' = harm \cup Strikes(call)
  /\ UNCHANGED <<image, reply, call, parts, kills, torn>>

MakeWrite ==
  /\ server = "writing"
  /\ writes # << >>
  /\ Made(Head(writes))
  /\ writes' = Tail(writes)
  /\ UNCHANGED <<reply, harm, call, server, parts, before, kills, torn>>

(***************************************************************************)
(* A reply reaches the client or is lost; then the message comes again.    *)
(***************************************************************************)
Delivered == call' = Idle \/ UNCHANGED call

Finish ==
  /\ server = "writing"
  /\ writes = << >>
  /\ reply' = Reply(call.message_type, 0)
  /\ server' = "serving"
  /\ before' = Idle
  /\ Delivered
  /\ UNCHANGED <<image, harm, parts, writes, kills, torn>>

AnswerOnly ==
  /\ server = "serving" /\ parts = 4
  /\ call # Idle
  /\ \/ ~Writing(call) /\ Handle(call)
     \/ call.message_type = "U" /\ UnlinkRefused(call.inum, call.name)
  /\ Delivered
  /\ UNCHANGED <<server, parts, writes, before, kills, torn>>

(***************************************************************************)
(* Where the image does not bear a kill: while it is made; in Creat        *)
(* between the parent's inode and the new one; in Write between the inode  *)
(* and the bitmap.                                                         *)
(***************************************************************************)
Tears ==
  \/ server = "making" /\ parts < 4
  \/ /\ server = "writing"
     /\ \/ /\ call.message_type = "C"
           /\ Len(writes) \in IF call.type = MFS_DIRECTORY THEN {2, 3} ELSE {1, 2}
        \/ call.message_type = "W" /\ Len(writes) = 1
           /\ inodes[call.inum].blocks[call.block] # before.inodes[call.inum].blocks[call.block]

Kill ==
  /\ server # "down"
  /\ kills < MaxKills
  /\ server' = "down"
  /\ writes' = << >>
  /\ before' = Idle
  /\ kills' = kills + 1
  /\ torn' = (torn \/ Tears)
  /\ UNCHANGED <<vars, call, parts>>

CrashNext ==
  \/ Boot
  \/ MakePart
  \/ \E m \in Calls : ClientCall(m)
  \/ Begin
  \/ MakeWrite
  \/ Finish
  \/ AnswerOnly
  \/ Kill

CrashSpec == CrashInit /\ [][CrashNext]_crashvars

-----------------------------------------------------------------------------
(***************************************************************************)
(* The writes of a handler amount to the step of MFSServer for its message *)
(* and nothing of them is seen before the last, unless a kill shows it:    *)
(* what a handler computes from the image before it writes is what it      *)
(* would compute as it writes.  That goes for images that a kill left too. *)
(***************************************************************************)
Seen == IF server = "writing" THEN before ELSE Snapshot

Server == INSTANCE MFSServer WITH
            inode_bitmap <- Seen.inode_bitmap,
            data_bitmap <- Seen.data_bitmap,
            inodes <- Seen.inodes,
            data <- Seen.data,
            reply <- Seen.reply,
            harm <- Seen.harm

ImplementsServer ==
  Server!Init /\ [][Kill \/ (call # Idle /\ Server!Handle(call))]_(Server!vars)

-----------------------------------------------------------------------------
(***************************************************************************)
(* What the next request finds, after kills and calls that the image       *)
(* bears.  An inode can be marked that no path leads to.                   *)
(***************************************************************************)
Bearing == ~torn /\ Sound
AtRest == server \in {"down", "serving"} /\ Bearing

(***************************************************************************)
(* A block that a path leads to is marked and has one owner: Creat marks   *)
(* blocks before it points at them, and Unlink takes the entry away before *)
(* it gives them back.                                                     *)
(***************************************************************************)
PointersWithin(S) ==
  {p \in (S \cap InUse) \X BlockIndices : inodes[p[1]].blocks[p[2]] # -1}

BlocksSafe ==
  AtRest => \A p, q \in PointersWithin(Reached) :
              /\ data_bitmap[inodes[p[1]].blocks[p[2]]] = 1
              /\ inodes[p[1]].blocks[p[2]] = inodes[q[1]].blocks[q[2]] => p = q

(***************************************************************************)
(* The entries that paths lead to name inodes in use, each one once, and   *)
(* never the root.                                                         *)
(***************************************************************************)
NamesSafe ==
  AtRest => \A d, e \in Reached \cap Dirs : \A i \in Live(d), j \in Live(e) :
              /\ Target(d, i) \in InUse \ {0}
              /\ Target(d, i) = Target(e, j) => d = e /\ i = j

(***************************************************************************)
(* A kill costs one inode at most, and the repetition of the request that  *)
(* was cut off costs none.                                                 *)
(***************************************************************************)
LostInodes == AtRest => Cardinality(InUse \ Reached) <= kills

(***************************************************************************)
(* What Stat reports of a directory (real_size) is never less than what is *)
(* in it, and more by one at most for each kill: Unlink takes the entry    *)
(* away before it stores the parent's inode, and its repetition finds no   *)
(* name and does not count again.                                          *)
(***************************************************************************)
Excess(d) == inodes[d].real_size - 2 - Cardinality(Live(d))

CountsAhead ==
  AtRest => /\ \A d \in Reached \cap Dirs : Excess(d) >= 0
            /\ MapThenSumSet(Excess, Reached \cap Dirs) <= kills

(***************************************************************************)
(* No write, kill or repetition touches a block of a file but the one that *)
(* the request in progress is a Write to, as long as a path leads to the   *)
(* file that led to it when the request began.  (While a Creat has counted *)
(* its entry and not written it, the old bytes there can name anything.)   *)
(***************************************************************************)
ReachedBefore == LedTo([d \in Server!Dirs |-> Server!Children(d)])

Concerned(n, j) ==
  server = "writing" /\ call.message_type = "W" /\ call.inum = n /\ call.block = j

OthersKept ==
  [][\A n \in Reached \cap ReachedBefore, j \in BlockIndices :
       Readable(n, j) /\ ~Concerned(n, j) /\ Bearing' => Kept(n, j)]_crashvars

(***************************************************************************)
(* A request that is answered with success was carried out, however often  *)
(* the server was killed over it.  A Creat is not, and is a success all    *)
(* the same, when its name is among the first two entries of the directory *)
(* ("." and "..", or what a new directory's block held before).            *)
(***************************************************************************)
Done(m) ==
  /\ m.message_type = "W" =>
       ReadOK(m.inum, m.block) /\ data[inodes[m.inum].blocks[m.block]] = TextBlock(m.buffer)
  /\ m.message_type = "C" =>
       /\ CreatOK(m.inum) /\ Found(m.inum, m.name) # -1
       /\ Found(m.inum, m.name) >= 2 =>
            /\ EntryFor(m.inum, m.name).inum \in InUse
            /\ InodeFor(m.inum, m.name).type = m.type
  /\ m.message_type = "U" => UnlinkOK(m.inum) /\ Found(m.inum, m.name) = -1

Answered(m) == m = call /\ (Finish \/ AnswerOnly) /\ reply'.success = 0

AckedWasDone == [][\A m \in Calls : Answered(m) /\ Bearing' => Done(m)']_crashvars

(***************************************************************************)
(* What that asks of the calls.  A Creat of a name that is there succeeds  *)
(* whatever its type (server.c:542-547), so the Creats of a name agree on  *)
(* one.                                                                    *)
(***************************************************************************)
CreatsAgree ==
  \A m, k \in Calls :
    m.message_type = "C" /\ k.message_type = "C" /\ k.name = m.name => k.type = m.type

-----------------------------------------------------------------------------
(***************************************************************************)
(* What the comments of server.c say without such a condition, and what a  *)
(* kill at the wrong moment makes of it.                                   *)
(***************************************************************************)

(***************************************************************************)
(* The reply is sent "after flushing everything": what was acknowledged is *)
(* there, whenever the server was killed over it.  It is not when a kill   *)
(* falls in Creat between the entry and the new inode, or in Write between *)
(* the inode and the bitmap: the client's repetition then takes a half for *)
(* the whole.                                                              *)
(***************************************************************************)
AckedAlwaysDone == [][\A m \in Calls : Answered(m) /\ Sound' => Done(m)']_crashvars

(***************************************************************************)
(* A server that has reached its loop has a whole image.                   *)
(***************************************************************************)
ServesWholeImage == server = "serving" => parts = 4
=============================================================================
