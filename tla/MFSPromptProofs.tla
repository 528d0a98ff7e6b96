-------------------------- MODULE MFSPromptProofs --------------------------
(***************************************************************************)
(* Proofs about MFSPrompt: with one client and a network that brings or    *)
(* loses what is sent before the client sends again, the library does what *)
(* MFSRemoteCall promises.                                                 *)
(***************************************************************************)
EXTENDS MFSPrompt, MFSSystemProofs

-----------------------------------------------------------------------------
(***************************************************************************)
(* The handlers of MFSRemoteCall are those of the server.                  *)
(***************************************************************************)
LEMMA SameInit ==
  Remote!Init <=> Init
BY DEF Init, FreshBitmap, Inums, Blocks, FreshInodes, FreshData, Reply,
      EmptyDir, ZeroInode, Pointers, RootBlock, Slots, ZeroEnt, NoStats,
      NoBuffer, MFS_DIRECTORY, NoBlocks, Dot, DotDot, Blank, BlockIndices,
      Remote!Init, Remote!FreshBitmap, Remote!Inums, Remote!Blocks,
      Remote!FreshInodes, Remote!FreshData, Remote!Reply, Remote!EmptyDir,
      Remote!ZeroInode, Remote!Pointers, Remote!RootBlock, Remote!Slots,
      Remote!ZeroEnt, Remote!NoStats, Remote!NoBuffer,
      Remote!MFS_DIRECTORY, Remote!NoBlocks, Remote!Dot, Remote!DotDot,
      Remote!Blank, Remote!BlockIndices

(***************************************************************************)
(* What follows says for each handler that its step on the server's image  *)
(* is the step on the image that the remote call sees, which is the same   *)
(* one.                                                                    *)
(***************************************************************************)
LEMMA SameReplyInit ==
  Remote!reply_Init <=> reply_Init
BY DEF reply_Init, Answer, Reply, image, NoStats, NoBuffer, Slots, ZeroEnt,
      Blank, Remote!reply_Init, Remote!Answer, Remote!Reply, Remote!image,
      Remote!NoStats, Remote!NoBuffer, Remote!Slots, Remote!ZeroEnt,
      Remote!Blank

LEMMA SameLookup ==
  ASSUME NEW n, NEW name
  PROVE  Remote!reply_Lookup(n, name) <=> reply_Lookup(n, name)
BY DEF reply_Lookup, LookupHits, Answer, Reply, EntAt, Found, IsFile, image,
      NoStats, NoBuffer, EntBlock, search_Directory, MFS_REGULAR_FILE,
      Slots, ZeroEnt, Hits, Min, Blank, Remote!reply_Lookup,
      Remote!LookupHits, Remote!Answer, Remote!Reply, Remote!EntAt,
      Remote!Found, Remote!IsFile, Remote!image, Remote!NoStats,
      Remote!NoBuffer, Remote!EntBlock, Remote!search_Directory,
      Remote!MFS_REGULAR_FILE, Remote!Slots, Remote!ZeroEnt, Remote!Hits,
      Remote!Min, Remote!Blank

LEMMA SameStat ==
  ASSUME NEW n
  PROVE  Remote!reply_Stat(n) <=> reply_Stat(n)
BY DEF reply_Stat, Answer, Reply, StatsOf, image, NoStats, NoBuffer,
      MFS_DIRECTORY, Slots, ZeroEnt, Blank, Remote!reply_Stat,
      Remote!Answer, Remote!Reply, Remote!StatsOf, Remote!image,
      Remote!NoStats, Remote!NoBuffer, Remote!MFS_DIRECTORY, Remote!Slots,
      Remote!ZeroEnt, Remote!Blank

LEMMA SameRead ==
  ASSUME NEW n, NEW j
  PROVE  Remote!reply_Read(n, j) <=> reply_Read(n, j)
BY DEF reply_Read, ReadOK, Answer, Reply, InumOK, BlockOK, image, NoStats,
      NoBuffer, valid_inum, valid_block, Slots, ZeroEnt, Blank,
      Remote!reply_Read, Remote!ReadOK, Remote!Answer, Remote!Reply,
      Remote!InumOK, Remote!BlockOK, Remote!image, Remote!NoStats,
      Remote!NoBuffer, Remote!valid_inum, Remote!valid_block, Remote!Slots,
      Remote!ZeroEnt, Remote!Blank

LEMMA SameWrite ==
  ASSUME NEW n, NEW j, NEW text
  PROVE  Remote!reply_Write(n, j, text) <=> reply_Write(n, j, text)
BY DEF reply_Write, WriteRefused, WriteInPlace, WriteNewBlock,
      WriteNoSpace, WritePastTable, WriteOK, InodesHit, EntriesHit,
      InodesOver, WithEntries, TableSize, BlockSize, Pointers, Answer,
      Reply, BlockIndices, TextBlock, next_available_block,
      push_inode_update, Occupied, Struck, Blocks, Overlay, Slots, InumOK,
      MFS_DIRECTORY, image, NoStats, NoBuffer, next_available, Inums,
      valid_inum, ZeroEnt, Min, Blank, Remote!reply_Write,
      Remote!WriteRefused, Remote!WriteInPlace, Remote!WriteNewBlock,
      Remote!WriteNoSpace, Remote!WritePastTable, Remote!WriteOK,
      Remote!InodesHit, Remote!EntriesHit, Remote!InodesOver,
      Remote!WithEntries, Remote!TableSize, Remote!BlockSize,
      Remote!Pointers, Remote!Answer, Remote!Reply, Remote!BlockIndices,
      Remote!TextBlock, Remote!next_available_block,
      Remote!push_inode_update, Remote!Occupied, Remote!Struck,
      Remote!Blocks, Remote!Overlay, Remote!Slots, Remote!InumOK,
      Remote!MFS_DIRECTORY, Remote!image, Remote!NoStats, Remote!NoBuffer,
      Remote!next_available, Remote!Inums, Remote!valid_inum,
      Remote!ZeroEnt, Remote!Min, Remote!Blank

LEMMA SameCreat ==
  ASSUME NEW n, NEW t, NEW name
  PROVE  Remote!reply_Creat(n, t, name) <=> reply_Creat(n, t, name)
BY DEF reply_Creat, CreatRefused, CreatExists, CreatNew, CreatOK, Found,
      HasRoom, Answer, Reply, next_available_inode, BlockNeeded,
      next_available_block, LastBlock, TakenForEntry, MFS_DIRECTORY,
      SlotForEntry, TailHits, StrayHits, SpillsOver, InodesOver,
      TableSize, InodesPerDirEnt, Occupied, Inums, NewInode, WithEntry,
      SpilledEnts, Struck, InumOK, IsFile, search_Directory, image,
      NoStats, NoBuffer, next_available, Blocks, EmptyDir, ZeroInode, Dot,
      valid_inum, MFS_REGULAR_FILE, Hits, Min, Slots, ZeroEnt, NoBlocks,
      Blank, EntAt, BlockIndices, EntBlock, Remote!reply_Creat,
      Remote!CreatRefused, Remote!CreatExists, Remote!CreatNew,
      Remote!CreatOK, Remote!Found, Remote!HasRoom, Remote!Answer,
      Remote!Reply, Remote!next_available_inode, Remote!BlockNeeded,
      Remote!next_available_block, Remote!LastBlock, Remote!TakenForEntry,
      Remote!MFS_DIRECTORY, Remote!SlotForEntry, Remote!TailHits,
      Remote!StrayHits, Remote!SpillsOver, Remote!InodesOver,
      Remote!TableSize, Remote!InodesPerDirEnt, Remote!Occupied,
      Remote!Inums, Remote!NewInode, Remote!WithEntry, Remote!SpilledEnts,
      Remote!Struck, Remote!InumOK, Remote!IsFile,
      Remote!search_Directory, Remote!image, Remote!NoStats,
      Remote!NoBuffer, Remote!next_available, Remote!Blocks,
      Remote!EmptyDir, Remote!ZeroInode, Remote!Dot, Remote!valid_inum,
      Remote!MFS_REGULAR_FILE, Remote!Hits, Remote!Min, Remote!Slots,
      Remote!ZeroEnt, Remote!NoBlocks, Remote!Blank, Remote!EntAt,
      Remote!BlockIndices, Remote!EntBlock

LEMMA SameUnlink ==
  ASSUME NEW n, NEW name
  PROVE  Remote!reply_Unlink(n, name) <=> reply_Unlink(n, name)
BY DEF reply_Unlink, UnlinkRefused, UnlinkAbsent, UnlinkRemove, UnlinkOK,
      Found, Removable, LoadedFor, Loaded, EntriesOver, StraddledPlaces,
      PlaceAfter, Nowhere, WithEntries, NotMade, Inums, Pointers, Answer,
      Reply, EntryFor, EntBlock, UnusedEnt, decomission_inode,
      decomission_blocks, Struck, InumOK, MFS_DIRECTORY, search_Directory,
      empty_Directory, image, NoStats, NoBuffer, EntAt, Blank, NoBlocks,
      Blocks, BlockIndices, valid_inum, Hits, Min, Slots, ZeroEnt,
      Remote!reply_Unlink, Remote!UnlinkRefused, Remote!UnlinkAbsent,
      Remote!UnlinkRemove, Remote!UnlinkOK, Remote!Found,
      Remote!Removable, Remote!LoadedFor, Remote!Loaded,
      Remote!EntriesOver, Remote!StraddledPlaces, Remote!PlaceAfter,
      Remote!Nowhere, Remote!WithEntries, Remote!NotMade, Remote!Inums,
      Remote!Pointers, Remote!Answer, Remote!Reply, Remote!EntryFor,
      Remote!EntBlock, Remote!UnusedEnt, Remote!decomission_inode,
      Remote!decomission_blocks, Remote!Struck, Remote!InumOK,
      Remote!MFS_DIRECTORY, Remote!search_Directory,
      Remote!empty_Directory, Remote!image, Remote!NoStats,
      Remote!NoBuffer, Remote!EntAt, Remote!Blank, Remote!NoBlocks,
      Remote!Blocks, Remote!BlockIndices, Remote!valid_inum, Remote!Hits,
      Remote!Min, Remote!Slots, Remote!ZeroEnt

LEMMA SameBehindTable ==
  Remote!WriteBehindTable <=> WriteBehindTable
BY DEF WriteBehindTable, MFS_DIRECTORY, Answer, Reply, image, NoStats,
      NoBuffer, Slots, ZeroEnt, Blank, Remote!WriteBehindTable,
      Remote!MFS_DIRECTORY, Remote!Answer, Remote!Reply, Remote!image,
      Remote!NoStats, Remote!NoBuffer, Remote!Slots, Remote!ZeroEnt,
      Remote!Blank

LEMMA SameHandle ==
  ASSUME NEW m
  PROVE  Remote!Handle(m) <=> Handle(m)
BY SameReplyInit, SameLookup, SameStat, SameRead, SameWrite, SameCreat, SameUnlink,
   SameBehindTable DEF Handle, Remote!Handle

-----------------------------------------------------------------------------
(***************************************************************************)
(* A request that has been answered, in terms of the image that the answer *)
(* was given on: it says what the handler would say again.                 *)
(***************************************************************************)
LookupReply(m) ==
  IF LookupHits(m.inum, m.name)
  THEN Reply("L", EntAt(inodes[m.inum], Found(m.inum, m.name), data).inum) ELSE Reply("L", -1)

StatReply(m) ==
  IF inode_bitmap[m.inum] = 0 THEN Reply("S", -1)
  ELSE [Reply("S", 0) EXCEPT !.stats = StatsOf(inodes[m.inum])]

ReadReply(m) ==
  IF ReadOK(m.inum, m.block)
  THEN [Reply("R", 0) EXCEPT !.buffer = data[inodes[m.inum].blocks[m.block]]]
  ELSE Reply("R", -1)

Settled(m) ==
  /\ m.message_type = "I" => reply = Reply("I", 0)
  /\ m.message_type = "L" => reply = LookupReply(m)
  /\ m.message_type = "S" => reply = StatReply(m)
  /\ m.message_type = "R" => reply = ReadReply(m)
  /\ Modifies(m) => \/ Carried(m) /\ reply = Reply(m.message_type, 0)
                    \/ ~Carried(m) /\ Refusing(m) /\ reply = Reply(m.message_type, -1)

(***************************************************************************)
(* The answers to the requests that modify: success or failure, no more.   *)
(***************************************************************************)
LEMMA ModifyingReplies ==
  ASSUME NEW m, Modifies(m), Handle(m)
  PROVE  reply' = Reply(m.message_type, 0) \/ reply' = Reply(m.message_type, -1)
<1>1. CASE m.message_type = "W"
  BY <1>1 DEF Handle, reply_Write, WriteRefused, WriteInPlace, WriteNewBlock, WriteNoSpace,
              WritePastTable, WriteBehindTable, Answer
<1>2. CASE m.message_type = "C"
  <2>1. reply_Creat(m.inum, m.type, m.name)
    BY <1>2 DEF Handle
  <2>2. CASE CreatNew(m.inum, m.type, m.name)
    <3>1. reply' = Reply("C", 0)
      BY <2>2, Zenon DEF CreatNew
    <3>. QED BY <1>2, <3>1
  <2>. QED BY <1>2, <2>1, <2>2 DEF reply_Creat, CreatRefused, CreatExists, Answer
<1>3. CASE m.message_type = "U"
  <2>1. reply_Unlink(m.inum, m.name)
    BY <1>3 DEF Handle
  <2>2. CASE UnlinkRemove(m.inum, m.name)
    <3>1. reply' = Reply("U", 0)
      BY <2>2, Zenon DEF UnlinkRemove
    <3>. QED BY <1>3, <3>1
  <2>. QED BY <1>3, <2>1, <2>2 DEF reply_Unlink, UnlinkRefused, UnlinkAbsent, Answer
<1>. QED BY <1>1, <1>2, <1>3 DEF Modifies

(***************************************************************************)
(* What a handler answers stands in the image it leaves.                   *)
(***************************************************************************)
LEMMA AnswerStands ==
  ASSUME ImageInv, ImageInv', Sound', NEW m \in Calls, Handle(m)
  PROVE  Settled(m)'
<1>1. ASSUME NEW r, Answer(r) PROVE reply' = r /\ UNCHANGED image
  BY <1>1 DEF Answer
<1>2. CASE m.message_type = "I"
  BY <1>2 DEF Handle, reply_Init, Answer, Settled, Modifies
<1>3. CASE m.message_type = "L"
  <2>1. reply' = LookupReply(m) /\ UNCHANGED image
    BY <1>3 DEF Handle, reply_Lookup, LookupReply, Answer
  <2>. QED BY <1>3, <2>1 DEF Settled, Modifies, LookupReply, image, LookupHits, Found, IsFile
<1>4. CASE m.message_type = "S"
  <2>1. inode_bitmap[m.inum] = 1 => inode_bitmap[m.inum] # 0
    OBVIOUS
  <2>2. reply' = StatReply(m) /\ UNCHANGED image
    BY <1>4, <2>1 DEF Handle, reply_Stat, StatReply, Answer
  <2>. QED BY <1>4, <2>2 DEF Settled, Modifies, StatReply, image
<1>5. CASE m.message_type = "R"
  <2>1. reply' = ReadReply(m) /\ UNCHANGED image
    BY <1>5 DEF Handle, reply_Read, ReadReply, Answer
  <2>. QED BY <1>5, <2>1 DEF Settled, Modifies, ReadReply, image, ReadOK, InumOK, BlockOK
<1>6. CASE Modifies(m)
  <2>1. /\ m.message_type # "I" /\ m.message_type # "L"
        /\ m.message_type # "S" /\ m.message_type # "R"
    BY <1>6 DEF Modifies
  <2>2. \A s : Reply(s, 0).success = 0 /\ Reply(s, -1).success = -1
    BY DEF Reply
  <2>3. CASE reply' = Reply(m.message_type, 0)
    <3>1. Carried(m)'
      BY <2>2, <2>3, SuccessIsCarried
    <3>. QED BY <2>1, <2>3, <3>1 DEF Settled
  <2>4. CASE reply' = Reply(m.message_type, -1)
    <3>1. UNCHANGED image /\ Refusing(m)'
      BY <2>2, <2>4, FailureIsRefused, SameRefusing
    <3>2. ~Carried(m)
      BY <1>6, <2>2, <2>4, RepetitionIsNoop DEF Modifies
    <3>3. ~Carried(m)'
      BY <3>1, <3>2, SameCarried
    <3>. QED BY <2>1, <2>4, <3>1, <3>3 DEF Settled
  <2>. QED BY <1>6, <2>3, <2>4, ModifyingReplies
<1>. QED BY <1>2, <1>3, <1>4, <1>5, <1>6 DEF Handle, Modifies

(***************************************************************************)
(* The answer stands while the server does nothing.                        *)
(***************************************************************************)
LEMMA SameSettled ==
  ASSUME UNCHANGED vars, NEW m
  PROVE  Settled(m)' <=> Settled(m)
<1>1. UNCHANGED <<image, reply>>
  BY DEF vars, image
<1>2. /\ Carried(m)' <=> Carried(m)
      /\ Refusing(m)' <=> Refusing(m)
  BY <1>1, SameCarried, SameRefusing
<1>3. LookupReply(m)' = LookupReply(m) /\ StatReply(m)' = StatReply(m)
      /\ ReadReply(m)' = ReadReply(m)
  BY <1>1 DEF image, LookupReply, StatReply, ReadReply, LookupHits, Found, IsFile, ReadOK,
              InumOK, BlockOK
<1>. QED BY <1>1, <1>2, <1>3 DEF Settled

(***************************************************************************)
(* A request that was answered changes nothing when its message comes      *)
(* again, the answer included.                                             *)
(***************************************************************************)
LEMMA RepetitionIsStutter ==
  ASSUME ImageInv, Sound, Sound', NEW m \in Calls, Settled(m), Handle(m)
  PROVE  UNCHANGED vars
<1>1. harm' = harm
  BY DEF Sound
<1>2. CASE m.message_type = "I"
  BY <1>1, <1>2 DEF Handle, reply_Init, Answer, Settled, vars, image
<1>3. CASE m.message_type = "L"
  BY <1>1, <1>3 DEF Handle, reply_Lookup, LookupReply, Answer, Settled, vars, image
<1>4. CASE m.message_type = "S"
  BY <1>1, <1>4 DEF Handle, reply_Stat, StatReply, Answer, Settled, vars, image
<1>5. CASE m.message_type = "R"
  BY <1>1, <1>5 DEF Handle, reply_Read, ReadReply, Answer, Settled, vars, image
<1>6. CASE Modifies(m)
  <2>1. \A s : Reply(s, 0).success = 0 /\ Reply(s, -1).success = -1
    BY DEF Reply
  <2>2. CASE Carried(m) /\ reply = Reply(m.message_type, 0)
    <3>1. UNCHANGED image /\ reply'.success = 0
      BY <1>6, <2>2, RepetitionIsNoop DEF Modifies
    <3>2. reply' = Reply(m.message_type, 0)
      BY <1>6, <2>1, <3>1, ModifyingReplies
    <3>. QED BY <1>1, <2>2, <3>1, <3>2 DEF vars, image
  <2>3. CASE ~Carried(m) /\ Refusing(m) /\ reply = Reply(m.message_type, -1)
    <3>1. UNCHANGED image
      BY <2>3, RefusedAgain
    <3>2. ImageInv'
      BY ServesOneRequest, NextKeepsOrder
    <3>3. ~Carried(m)'
      BY <2>3, <3>1, SameCarried
    <3>4. reply' = Reply(m.message_type, -1)
      BY <1>6, <2>1, <3>2, <3>3, SuccessIsCarried, ModifyingReplies
    <3>. QED BY <1>1, <2>3, <3>1, <3>4 DEF vars, image
  <2>. QED BY <1>6, <2>2, <2>3 DEF Settled
<1>. QED BY <1>2, <1>3, <1>4, <1>5, <1>6 DEF Handle, Modifies

-----------------------------------------------------------------------------
(***************************************************************************)
(* The one client, and bags with one datagram at most.                     *)
(***************************************************************************)
LEMMA TheClient == Client \in Clients /\ \A c \in Clients : c = Client
BY OneClientAssumption DEF Client

(***************************************************************************)
(* A bag that holds one datagram holds it once.                            *)
(***************************************************************************)
LEMMA OneDatagram ==
  ASSUME NEW d
  PROVE  /\ BagToSet(EmptyBag) = {} /\ BagToSet(SetToBag({d})) = {d}
         /\ Sent(EmptyBag, d) = SetToBag({d})
         /\ Taken(SetToBag({d}), d) = EmptyBag
<1>1. /\ BagToSet(EmptyBag) = {} /\ BagToSet(SetToBag({d})) = {d}
      /\ EmptyBag = [e \in {} |-> 1] /\ SetToBag({d}) = [e \in {d} |-> 1]
  BY DEF EmptyBag, SetToBag, BagToSet
<1>2. Sent(EmptyBag, d) = SetToBag({d})
  <2>1. Copies(d, EmptyBag) = 0 /\ 0 < MaxCopies
    BY <1>1, CallsAssumption DEF Copies, BagIn
  <2>2. EmptyBag (+) SetToBag({d}) =
          [e \in {} \cup {d} |-> (IF e \in {} THEN EmptyBag[e] ELSE 0)
                                 + (IF e \in {d} THEN SetToBag({d})[e] ELSE 0)]
    BY <1>1 DEF (+), BagToSet
  <2>3. SetToBag({d})[d] = 1 /\ {} \cup {d} = {d}
    BY <1>1
  <2>4. EmptyBag (+) SetToBag({d}) = [e \in {d} |-> 1]
    BY <2>2, <2>3
  <2>. QED BY <1>1, <2>1, <2>4 DEF Sent
<1>3. Taken(SetToBag({d}), d) = EmptyBag
  <2>. DEFINE one == [e \in {d} |-> 1]
              less == [e \in DOMAIN one |-> IF e \in DOMAIN one THEN one[e] - one[e] ELSE one[e]]
  <2>1. Taken(SetToBag({d}), d) = [e \in {n \in DOMAIN less : less[n] > 0} |-> less[e]]
    BY <1>1 DEF Taken, (-)
  <2>2. {n \in DOMAIN less : less[n] > 0} = {}
    OBVIOUS
  <2>3. [e \in {n \in DOMAIN less : less[n] > 0} |-> less[e]] = [e \in {} |-> 1]
    BY <2>2
  <2>. QED BY <1>1, <2>1, <2>3
<1>. QED BY <1>1, <1>2, <1>3

(***************************************************************************)
(* What is on its way: nothing but the message of the call that waits, or  *)
(* the answer to it, and what was answered stands.                         *)
(***************************************************************************)
Quiescent == requests = EmptyBag /\ replies = EmptyBag

InFlight(d) ==
  \/ Quiescent
  \/ requests = SetToBag({d}) /\ replies = EmptyBag
  \/ /\ requests = EmptyBag
     /\ replies = SetToBag({[reply |-> reply, client |-> Client]})
     /\ carried

Awaits(m) == Waits(Client) /\ call[Client].message = m

PromptInv ==
  /\ SystemInv
  /\ carried \in BOOLEAN
  /\ ~Waits(Client) => Quiescent
  /\ Waits(Client) => InFlight(call[Client])
  /\ Sound /\ carried => \A m \in Calls : Awaits(m) => Settled(m)

(***************************************************************************)
(* What is taken from the network is the call, or the answer to it.        *)
(***************************************************************************)
LEMMA InFlightIsOwn ==
  ASSUME PromptInv
  PROVE  /\ \A d \in BagToSet(requests) :
              /\ d = call[Client] /\ d.client = Client /\ Waits(Client)
              /\ requests = SetToBag({d}) /\ replies = EmptyBag
         /\ \A d \in BagToSet(replies) :
              /\ d = [reply |-> reply, client |-> Client] /\ Waits(Client) /\ carried
              /\ replies = SetToBag({d}) /\ requests = EmptyBag
<1>1. Waits(Client) => call[Client].client = Client
  BY TheClient DEF PromptInv, SystemInv, Callers, OwnRequests
<1>2. ASSUME NEW d \in BagToSet(requests)
      PROVE  /\ d = call[Client] /\ Waits(Client)
             /\ requests = SetToBag({d}) /\ replies = EmptyBag
  BY <1>2, OneDatagram DEF PromptInv, InFlight, Quiescent
<1>3. ASSUME NEW d \in BagToSet(replies)
      PROVE  /\ d = [reply |-> reply, client |-> Client] /\ Waits(Client) /\ carried
             /\ replies = SetToBag({d}) /\ requests = EmptyBag
  BY <1>3, OneDatagram DEF PromptInv, InFlight, Quiescent
<1>. QED BY <1>1, <1>2, <1>3

(***************************************************************************)
(* The steps of MFSPrompt are steps of MFSSystem.                          *)
(***************************************************************************)
LEMMA PromptSteps ==
  ASSUME PromptInv, [PromptNext]_promptvars
  PROVE  [SystemNext]_allvars
<1>1. ASSUME NEW d \in BagToSet(replies), MFS_Receive_Reply(d) PROVE Receive(Client)
  <2>1. d = [reply |-> reply, client |-> Client]
    BY InFlightIsOwn
  <2>2. d.client = Client
    BY <2>1
  <2>. QED BY <1>1, <2>2 DEF Receive
<1>. QED
  BY <1>1, TheClient
     DEF PromptNext, promptvars, SystemNext, Ask, Resend, Carry, ReturnAny, Return, Drop

(***************************************************************************)
(* The invariant holds.                                                    *)
(***************************************************************************)
LEMMA PromptInvInit == PromptInit => PromptInv
BY SystemInvInit, TheClient DEF PromptInit, SystemInit, PromptInv, Waits, Quiescent

(***************************************************************************)
(* Every step keeps the invariant.                                         *)
(***************************************************************************)
LEMMA PromptInvKept ==
  ASSUME PromptInv, [PromptNext]_promptvars
  PROVE  PromptInv'
<1>. DEFINE c == Client
<1>1. c \in Clients /\ c = Client /\ \A e \in Clients : e = c
  BY TheClient
<1>. HIDE DEF c
<1>2. SystemInv /\ [SystemNext]_allvars /\ SystemInv' /\ (Sound' => Sound)
  BY PromptSteps, SystemInvKept, ImageIsKept DEF PromptInv, SystemInv
<1>3. SystemTypeOK /\ ImageInv /\ ImageInv'
  BY <1>2 DEF SystemInv
<1>4. ASSUME NEW m \in Calls, Ask(m) PROVE PromptInv'
  <2>1. call'[c] = [message |-> m, client |-> c] /\ call'[c] # Idle
    BY <1>1, <1>3, <1>4, CallsAssumption DEF Ask, Call, SystemTypeOK, Requests
  <2>2. Quiescent
    BY <1>4 DEF Ask, Call, PromptInv
  <2>3. requests' = SetToBag({call'[c]}) /\ replies' = EmptyBag /\ carried' = FALSE
    BY <1>1, <1>4, <2>2, OneDatagram DEF Ask, Call, Quiescent
  <2>. QED BY <1>1, <1>2, <2>1, <2>3 DEF PromptInv, InFlight, Waits, Awaits
<1>5. CASE Resend
  <2>1. Waits(c) /\ UNCHANGED <<vars, call, replies, carried>>
    BY <1>1, <1>5 DEF Resend, Timeout
  <2>2. Quiescent
    <3>1. ~(requests = SetToBag({call[c]}))
      BY <1>1, <1>5, InFlightIsOwn, OneDatagram DEF Resend, Clear
    <3>2. \A d : d.client = c => ~(replies = SetToBag({d}))
      BY <1>1, <1>5, OneDatagram DEF Resend, Clear
    <3>. QED BY <1>1, <2>1, <3>1, <3>2 DEF PromptInv, InFlight
  <2>3. requests' = SetToBag({call[c]}) /\ replies' = EmptyBag
    BY <1>1, <1>5, <2>2, OneDatagram DEF Resend, Timeout, Quiescent
  <2>4. Sound' /\ carried' => \A m \in Calls : Awaits(m)' => Settled(m)'
    BY <1>2, <2>1, SameSettled DEF PromptInv, Awaits, Waits
  <2>. QED BY <1>1, <1>2, <2>1, <2>3, <2>4 DEF PromptInv, InFlight, Waits
<1>6. CASE Carry
  <2>1. PICK d \in BagToSet(requests) : Serve(d)
    BY <1>6 DEF Carry, ServerLoop
  <2>2. /\ d = call[c] /\ Waits(c)
        /\ requests = SetToBag({d}) /\ replies = EmptyBag
    BY <1>1, InFlightIsOwn
  <2>3. d.client = c /\ d.message \in Calls
    BY <1>1, <1>3, InFlightIsOwn DEF SystemTypeOK, Requests
  <2>4. /\ requests' = EmptyBag
        /\ replies' = SetToBag({[reply |-> reply', client |-> c]})
        /\ carried' = TRUE /\ call' = call
    BY <1>6, <2>1, <2>2, <2>3, OneDatagram DEF Serve, Carry
  <2>5. Sound' => Settled(d.message)'
    BY <1>3, <2>1, <2>3, AnswerStands DEF Serve
  <2>6. \A m : Awaits(m)' => m = d.message
    BY <1>1, <2>2, <2>4 DEF Awaits
  <2>7. Sound' /\ carried' => \A m \in Calls : Awaits(m)' => Settled(m)'
    <3>. PICK k : k = d.message
      OBVIOUS
    <3>. QED BY <2>3, <2>5, <2>6
  <2>. QED BY <1>1, <1>2, <2>2, <2>4, <2>7 DEF PromptInv, InFlight, Waits
<1>7. CASE ReturnAny
  <2>1. PICK d \in BagToSet(replies) : MFS_Receive_Reply(d) /\ UNCHANGED carried
    BY <1>7 DEF ReturnAny, Return
  <2>2. replies = SetToBag({d}) /\ requests = EmptyBag
    BY InFlightIsOwn
  <2>3. d.client = c
    <3>1. d = [reply |-> reply, client |-> c]
      BY <1>1, InFlightIsOwn
    <3>. QED BY <3>1
  <2>4. ~Waits(c)'
    BY <1>1, <1>3, <2>1, <2>3 DEF MFS_Receive_Reply, Waits, SystemTypeOK
  <2>5. Quiescent'
    BY <2>1, <2>2, OneDatagram DEF MFS_Receive_Reply, Quiescent
  <2>. QED BY <1>1, <1>2, <2>1, <2>4, <2>5 DEF PromptInv, Awaits, Waits
<1>8. CASE Drop
  <2>1. UNCHANGED <<vars, call, carried>>
    BY <1>8 DEF Drop, Lose
  <2>2. Quiescent' /\ Waits(c)
    <3>1. CASE \E d \in BagToSet(requests) : requests' = Taken(requests, d) /\ UNCHANGED replies
      BY <1>1, <3>1, InFlightIsOwn, OneDatagram DEF Quiescent
    <3>2. CASE \E d \in BagToSet(replies) : replies' = Taken(replies, d) /\ UNCHANGED requests
      BY <1>1, <3>2, InFlightIsOwn, OneDatagram DEF Quiescent
    <3>. QED BY <1>8, <3>1, <3>2 DEF Drop, Lose
  <2>3. Sound' /\ carried' => \A m \in Calls : Awaits(m)' => Settled(m)'
    BY <1>2, <2>1, SameSettled DEF PromptInv, Awaits, Waits
  <2>. QED BY <1>1, <1>2, <2>1, <2>2, <2>3 DEF PromptInv, InFlight, Quiescent, Waits
<1>9. CASE UNCHANGED promptvars
  <2>1. UNCHANGED <<vars, call, carried, requests, replies, reply>>
    BY <1>9 DEF promptvars, allvars, system, vars
  <2>2. Sound' /\ carried' => \A m \in Calls : Awaits(m)' => Settled(m)'
    BY <1>2, <2>1, SameSettled DEF PromptInv, Awaits, Waits
  <2>. QED BY <1>1, <1>2, <2>1, <2>2 DEF PromptInv, InFlight, Quiescent, Waits
<1>. QED BY <1>4, <1>5, <1>6, <1>7, <1>8, <1>9 DEF PromptNext

-----------------------------------------------------------------------------
(***************************************************************************)
(* The refinement, step by step.                                           *)
(***************************************************************************)
(***************************************************************************)
(* The beginnings agree.                                                   *)
(***************************************************************************)
LEMMA RefinesInit == PromptInit => Remote!RemoteInit
BY SameInit, TheClient
   DEF PromptInit, SystemInit, Waits, Remote!RemoteInit, Reply, Remote!Reply, NoStats,
       Remote!NoStats, NoBuffer, Remote!NoBuffer, ZeroEnt, Remote!ZeroEnt, Slots, Remote!Slots,
       Blank, Remote!Blank

(***************************************************************************)
(* Every step of MFSPrompt is one of MFSRemoteCall or changes nothing of   *)
(* it: a message that is sent, lost, or served for the second time.        *)
(***************************************************************************)
LEMMA RefinesNext ==
  ASSUME PromptInv, Sound, Sound', [PromptNext]_promptvars
  PROVE  [Remote!RemoteNext]_(Remote!remotevars)
<1>. DEFINE c == Client
<1>1. c \in Clients /\ c = Client /\ \A e \in Clients : e = c
  BY TheClient
<1>. HIDE DEF c
<1>2. SystemTypeOK /\ ImageInv
  BY DEF PromptInv, SystemInv
<1>3. ASSUME UNCHANGED <<vars, call, carried, result>>
      PROVE  UNCHANGED Remote!remotevars
  BY <1>3 DEF Waits, vars, Remote!remotevars, Remote!vars
<1>4. ASSUME NEW m \in Calls, Ask(m) PROVE Remote!Begin(m)
  <2>1. ~Waits(Client)
    BY <1>4 DEF Ask, Call
  <2>2. call'[Client] = [message |-> m, client |-> Client] /\ call'[Client] # Idle
    BY <1>1, <1>2, <1>4, CallsAssumption DEF Ask, Call, SystemTypeOK, Requests
  <2>3. call'[Client].message = m
    BY <2>2
  <2>. QED BY <1>4, <2>1, <2>2, <2>3 DEF Ask, Call, Waits, vars, Remote!Begin, Remote!vars
<1>5. CASE Resend
  BY <1>3, <1>5 DEF Resend, Timeout
<1>6. CASE Carry
  <2>1. PICK d \in BagToSet(requests) : Serve(d)
    BY <1>6 DEF Carry, ServerLoop
  <2>2. d = call[Client] /\ Waits(Client) /\ d.message \in Calls
    BY <1>2, InFlightIsOwn DEF SystemTypeOK, Requests
  <2>3. Handle(d.message) /\ call' = call /\ carried' = TRUE /\ result' = result
    BY <1>6, <2>1 DEF Serve, Carry
  <2>4. CASE carried
    <3>1. Settled(d.message)
      BY <2>2, <2>4 DEF PromptInv, Awaits
    <3>2. UNCHANGED vars
      BY <1>2, <2>2, <2>3, <3>1, RepetitionIsStutter
    <3>3. carried' = carried
      BY <2>3, <2>4 DEF PromptInv
    <3>. QED BY <1>3, <2>3, <3>2, <3>3
  <2>5. CASE ~carried
    <3>1. Remote!Handle(call[Client].message)
      BY <2>2, <2>3, SameHandle
    <3>2. call[Client].message # Idle
      BY <2>2, NoCallAssumption
    <3>3. Remote!Carry
      BY <2>2, <2>3, <2>5, <3>1, <3>2 DEF Remote!Carry, Waits
    <3>. QED BY <3>3 DEF Remote!RemoteNext
  <2>. QED BY <2>4, <2>5
<1>7. CASE ReturnAny
  <2>1. PICK d \in BagToSet(replies) : Return(d)
    BY <1>7 DEF ReturnAny
  <2>2. d = [reply |-> reply, client |-> Client] /\ Waits(Client) /\ carried
    BY InFlightIsOwn
  <2>3. d.client = Client /\ d.reply = reply
    BY <2>2
  <2>4. call[Client].message # Idle
    BY <1>1, <1>2, <2>2, NoCallAssumption DEF SystemTypeOK, Requests, Waits
  <2>5. call'[Client] = Idle
    BY <1>1, <1>2, <2>1, <2>3 DEF Return, MFS_Receive_Reply, SystemTypeOK
  <2>6. Remote!Return
    BY <2>1, <2>2, <2>3, <2>4, <2>5
       DEF Return, MFS_Receive_Reply, Waits, vars, Remote!Return, Remote!vars
  <2>. QED BY <2>6 DEF Remote!RemoteNext
<1>8. CASE Drop
  BY <1>3, <1>8 DEF Drop, Lose
<1>9. CASE UNCHANGED promptvars
  BY <1>3, <1>9 DEF promptvars, allvars, system
<1>. QED BY <1>4, <1>5, <1>6, <1>7, <1>8, <1>9 DEF PromptNext, Remote!RemoteNext

(***************************************************************************)
(* With one client whose datagrams come or are lost before it sends again, *)
(* the server carries out each call once, between its beginning and its    *)
(* end, and the call returns the reply to that.  That it returns is        *)
(* liveness, which the runs check.                                         *)
(***************************************************************************)
THEOREM CallsAreCarriedOutOnce == PromptSpec /\ []Sound => Remote!RemoteSteps
<1>1. PromptInv /\ [PromptNext]_promptvars => PromptInv'
  BY PromptInvKept
<1>2. PromptInv /\ Sound /\ Sound' /\ [PromptNext]_promptvars
        => [Remote!RemoteNext]_(Remote!remotevars)
  BY RefinesNext
<1>. QED
  BY <1>1, <1>2, PromptInvInit, RefinesInit, PTL DEF PromptSpec, Remote!RemoteSteps
=============================================================================
