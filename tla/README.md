# A verification of Networked_FileServer

The program is a file server that keeps everything in one image file and is
called over UDP by a client library. This project models the server's handlers,
the image they keep, the client library with the datagrams between the two, the
test programs that use it, and a server that is killed in the middle of a
request, in TLA+. TLC checks the models on small instances, and TLAPS checks
theorems for every size: about the server, the system of clients and network
around it, and the refinements between the levels.

## The system

| part | code | state | operations |
|---|---|---|---|
| image | `mfs.h`, `server.c:10-327` | inode bitmap, data bitmap, inode table (type, size, real_size, block_nums, 10 pointers), 4096 data blocks | load and search (`valid_inum`, `valid_block`, `search_Directory`, `empty_Directory`), allocate (`next_available_*`, `push_*`), release (`decomission_file`) |
| server | `server.c:332-804` | the image, nothing else: it is stateless between requests | `reply_Init`, `_Lookup`, `_Stat`, `_Read`, `_Write`, `_Creat`, `_Unlink`, one request at a time |
| client library | `mfs.c` | one socket | `MFS_Init` ... `MFS_Unlink`, all through `MFS_Send_and_Receive`: send, wait five seconds for a reply, send again |
| datagrams | `udp.c` | what is on its way | lost, late, swapped, repeated |
| start | `server.c:10-63`, `751-762` | the image file | made if it is not there, taken as it is if it is |
| programs | `client.c`, `testcases/`, `run-test.py`, `util.py` | none | call the library; start, stop and restart the server |

A call of the library becomes one message; the server carries it out with
several writes to the image, syncs, and sends one reply. The client and the
server share nothing else, and a message does not say which call it belongs to.

What is hard, and where it bites, is listed under `hazards` in `PROJECT.json`:

- **long sequences of legal calls** (unlink, then make a directory; grow a
  directory, empty it, reuse its blocks), which tests with a few calls do not
  reach: bitmaps, pointers, entries and counters must go on agreeing;
- **limits**: no inode, no block, a full directory, the last pointer of a table;
- **repetition**: a request whose reply is lost is carried out again, maybe
  after another client's;
- **late replies**: they wait in the socket for the next call;
- **a kill between two writes** of one request, or of the making of the image.

What makes each part correct:

- image and server: no block has two owners; the data bitmap is exact; entries
  and inodes in use form a tree; the numbers in the inodes are true; names are
  unique; a file keeps its contents until it is written or removed; a request
  repeated changes nothing and succeeds. All in all, it is a tree of names;
- clients and server together: a call that returns success was carried out, one
  that returns failure changed nothing, a call takes effect once at most, and
  every call returns;
- a server that is killed: what paths lead to stays in order, other files keep
  their contents, what was acknowledged was done.

## Modules

| module | what it is |
|---|---|
| `MFSImage` | constants, the types of the image, the fresh image, and the helper functions of `server.c` as operators |
| `MFSServer` | the image as variables, one action for each way a handler ends, the loop of `main` as `Next`, and the properties of the image |
| `MFSServerClaims` | what comments and tests say and the server does not do |
| `MFSTree` | what the server promises, without bitmaps, inodes or places on a disk: a tree of names |
| `MFSServerTree` | the tree that an image stands for; `MFSServer` implements `MFSTree` |
| `MFSCrash` | the handlers write by write, a server killed and started again; implements `MFSServer` |
| `MFSCalls` | the messages of the client library |
| `MFSSystem` | clients, UDP and `MFSServer` together |
| `MFSRemoteCall` | what the library promises: a call is carried out once and returns the reply |
| `MFSPrompt` | `MFSSystem` on a network without late datagrams; implements `MFSRemoteCall` |
| `MFSTests` | the test programs and `client.c`, as sequences of calls with what each of them checks |
| `MFSPrograms` | those programs on `MFSPrompt`, with a server that is started and stopped |
| `MFSServerProofs` | that `MFSServer` keeps its types |
| `MFSImageProofs` | that `MFSServer` keeps the image in order, and files their contents |
| `MFSReachProofs` | that inodes can be reached, counts agree, and repetitions are harmless |
| `MFSTreeProofs` | that `MFSServer` implements `MFSTree` |
| `MFSCrashProofs` | that `MFSCrash` implements `MFSServer` |
| `MFSKillProofs` | what a kill leaves of the image: blocks, names, inodes, the files of others, and what was acknowledged |
| `MFSSystemProofs` | that `MFSSystem` serves with steps of `MFSServer`, and what its calls have done |
| `MFSPromptProofs` | that `MFSPrompt` takes only steps of `MFSRemoteCall` |
| `MCMFS...` | values of the constants for TLC |

`MFSImage` is extended by `MFSServer`, and that by `MFSSystem`, whose action
`Serve` takes a datagram, does a step of the server, and sends the reply of
that step; by `MFSCrash`, which takes the same step apart; and by
`MFSServerTree`. `MFSPrompt` extends `MFSSystem`, and `MFSPrograms` extends
`MFSPrompt`. There are three refinements, each an `INSTANCE ... WITH` of the
abstract module whose specification is a property of a run:

    MFSCrash   -- ImplementsServer     --> MFSServer -- ImplementsTree --> MFSTree
    MFSPrompt  -- ImplementsRemoteCall --> MFSRemoteCall (over MFSServer)

### How the model stands for the code

*Image.* Sizes are counted in directory entries of 256 bytes (a 4096-byte block
is `DirEntsPerBlock`, 16, entries), so `size \div DirEntsPerBlock` and `%` are
those of `search_Directory`. Where the code overwrites the inode table, bytes
count: `EntSize` and `InodeSize` (256 and 56) say which inodes some bytes of it
belong to (`InodesOver`). A block holds entries; a block of a file is one text
in every slot, since Write and Read always move whole blocks. Read as an entry
it has the text for its name, and for its number what the four bytes before that
are: `TextInum`, any number for each text, below 0, of the table or beyond it.
Names and texts may be equal: then a file's old contents look like a directory
entry, which is what a new directory made on such a block shows. `data` has a
block -1, the 4096 bytes in front of the data region: that is where the code
writes when it uses the -1 of a full disk as a block number.

*Handlers.* A handler is one atomic step: the server serves one request at a
time and nothing else touches the image; `MFSCrash` takes the step apart. Each
way to end is an action (`WriteRefused`, `WriteInPlace`, `WriteNewBlock`,
`WriteNoSpace`, `WritePastTable`; `CreatRefused`, `CreatExists`, `CreatNew`;
`UnlinkRefused`, `UnlinkAbsent`, `UnlinkRemove`), with the tests of the code as
its guards in the order of the code: a name that exists is a success before the
directory is found to be full, a missing name a success for Unlink. The reply
starts zeroed, so what does not set `success` returns 0.

*Writes that go astray.* `reply_Creat` ends with an `lseek` whose last argument
is a size; it fails, and the entry `"."` of a new directory is written where
the write of its inode left the file position. `CreatNew` writes it there:
`StrayHits` are the inodes it covers (five in the code, the last one in part,
`InodesPerDirEnt`), the first of which gets the new number as its type, and past
the end of the table it reaches the first entry of block 0. `TailHits` are the
inodes under an entry that Creat writes to block -1. What such bytes decode to is
any member of `ScrapInodes` and `ScrapEnts`, of which nothing is assumed: pointers
and sizes may be any numbers. The new directory's own block stays as it was. A
Write at block 10 reads the word behind the table on the stack: `WriteNewBlock`
and `WriteNoSpace` are what can come of it when that is -1, and `WritePastTable`
has the other outcomes: the text lands on a block or past the image, or, for the
words below 0, on a part of the inode table or on one of the bitmaps, or, when the
`lseek` fails, on the inodes behind the one that was just read. An Unlink of a
leftover whose number is outside the table takes what lies there for an inode
(`Loaded`), and what it stores there in the end falls on an entry or two of the
data region (`EntriesOver`). The byte that `decomission_file` clears for such a
number is one of the stack, and what comes of that is left out.

*The history variable `harm`.* After such a step nothing about the image holds.
So that what holds otherwise can be said, `harm` records which of four known
defects has struck, and the invariants speak of states where it is empty:

- `stray_write`: the misplaced `"."` hit an inode in use or the root's first
  entry; onto free inodes it does no harm, and those steps are not marked;
- `no_block`: Creat went on without a block;
- `default_entry`: Unlink took away an entry below 2, as of `"."` in the root;
- `past_table`: a Write at block 10 was not refused.

The types of the image are said of states without harm, too (`TypeOK`), and of
inodes in use: those that are not may hold stray bytes at any time.

No guard looks at `harm`. `MFSTree` tells, in terms of the tree, the requests by
which each of the four can come about; everything short of them is covered by
the invariants.

*Tree.* `MFSTree` has directories (names made, names left over, how many were
made) and files (what their blocks hold), one action for each request, and says
which answers each gets: Creat is refused only if no node is left or the
directory has had as many creations as it has slots, Write only if the disk is
full, and so on. `MFSServerTree` computes the tree of an image; `ImplementsTree`
says that every request does to that tree, and is answered, what `MFSTree` says.
Two things show through and are written into the abstract module because the
code has them: the names that a new directory may find in its block
(`leftovers`, in place of the "." and ".." it should have; they lead to any of
`Numbers`, which are those of the table and those that a text's first bytes read
as, and Lookup answers them), and slots that are not used again (`made`).
`Breaking` are the requests that may bring one of the four defects; after such a
step (`broken`) nothing more is promised, so the run shows as well that nothing
*but* these requests harms the image.

*Kills.* In `MFSCrash` the server works out its writes from the image
(`WriteStores`, `UnlinkStores`, `CreatStores`, in the order of the code) and
makes them one by one. `Kill` is `kill -9`, or a server that stops by itself:
the writes made so far are in the file, in their order. A power failure, in
which any of them may be missing until the `fsync`, is not modelled. The client
gets no reply and repeats its message on the server that is started next. It
calls with any number of the table, also one that no path leads to any more; the
server asks only whether it is marked. `Boot` and `MakePart` are
`MFS_File_System_Init`: a file that is there is not looked at, so a server
killed while it makes the image has a part of one at its next start (`parts`);
what it does with that is not modelled, its handlers run on whole images only.
`Tears` names the moments at which the image does not bear a kill, and `torn`
records that one was hit: while the image is made; in Creat after the parent's
inode and before the new one; in Write between inode and bitmap. `torn` records
as well a call that is `Astray`: a Write, Creat or Unlink with the number of an
inode that a kill left marked, that no path leads to (`Reached`), and whose
record is from before: its pointers may be those of another file by now. What
the properties say is said of all other kills and calls; the finding `kill_ack`
shows what the moments named by `Tears` lead to. Two more words of the
properties:

- `OthersKept` speaks of files that a path leads to, and led to when the request
  in progress began (`ReachedBefore`): while a Creat has counted its entry and not
  written it, the old bytes there are read as an entry, and lead anywhere;
- `AckedWasDone` asks of a Creat that its name is in the directory, and names an
  inode in use of the type asked for if it is not among the first two entries
  (`Done`): a Creat of ".", or of a name that a new directory's block held before,
  is a success and makes nothing.

`ImplementsServer` hides the image while a
handler is writing (`Seen` is the image before), so it says that all the writes
of a handler come to the one step that `MFSServer` takes.

*Clients and UDP.* A call puts a datagram in the bag `requests`; `Timeout` puts
another in, at any time while the call waits, since five seconds may pass with
a reply still on its way; `Receive` takes any reply there is. Datagrams can be
lost, repeated, and taken in any order, and do not say which call they belong
to. A server that is stopped and started between two requests is a lost
datagram. Every client binds port 20000 (`mfs.c:7`), so two clients are on two
hosts, and the server answers to the host that asked. Three history variables
say of which calls a property speaks: `effects` counts how often the image
changed for a client since its call began, `quiet` tells whether anything of its
earlier calls was on its way when it began, and `apart` whether another client's
request has since changed a name or an inode number that it uses.

*Prompt network.* In `MFSPrompt` there is one client, and a datagram that is not
lost arrives before `select` times out: `Resend` waits until nothing is on its
way. Repetitions then still happen, one for each reply or message lost, and
`ImplementsRemoteCall` says that the program cannot tell.

*Programs.* Each of the 20 test programs that the repository has, and
`client.c`, is a sequence of calls; `Step` says what the program checks of a
result, in the program's own words (some look for `!= -1`, some for `== 0`, some
compare contents, sizes or entries). The server may be started late, as
`run-test.py` does from test 41 on, and stopped and started again, as it does
for test 40. Sizes and pointers (16 entries, 10 pointers, 32 to 7 bytes for an
entry and an inode, as 256 to 56) are those of the code; the table has 24 inodes
and the region 20 blocks, more than a program uses.

### Not in the models

- inode numbers outside the table: `valid_inum` lets 4096 through
  (`server.c:123`) and Lookup and Stat do not check at all; what they then read
  is not the server's. The models pass -1 and the numbers of the table; Write to
  4096, which `test15` makes, is modelled (`WriteBehindTable`) and
  `DirectoryBehindTable` is why it is refused.
- types other than 0 and 1 for Creat, and names longer than a name's field.
- I/O errors: `read` and `write` succeed. The code does not look at their
  results (hazard `partial_failure`).
- that the image file can be opened again: it is made with `O_CREAT` and without
  a mode (`server.c:19`), so its permissions are what the stack holds. The models
  assume that a server started later can open it.
- the bitmaps of a fresh image are zero but for their first byte, as a fresh
  heap makes them; the `bzero` at `server.c:22` and `28` clears four bytes.
- power failures, and a server that serves a part of an image. A write is made
  or not made: a kill inside one, which only the 16 MB of the data region are
  long enough for (`server.c:61`), is not a case of its own.
- opening, binding and resolving in `udp.c`: a program does each once, and stops
  if it fails. The echo program in `src/udp` is not part of the file server, and
  `src/p3-public-tests` is a copy of the tests.

## Runs

| run | instance | shows |
|---|---|---|
| `image` | 3 inodes, 4 blocks of 3 entries, 2 pointers; names `""`, `"."`, `"a"`; texts `"a"` (number -2), `"."` (1) | `TypeOK`, `NoSharedBlock`, `BitmapExact`, `Accounts`, `DirectoryBehindTable`, `NamesUnique`, `DurableBlocks` |
| `tree` | 4 inodes, 5 blocks of 2 entries, 3 pointers; names `"."`, `"a"`; texts `"a"` (9), `"."` (1) | `LinksSound`, `Reachable`, `RetryIsNoop`, `ImplementsTree` |
| `killed` | 3 inodes, 4 blocks, 2 pointers, 2 kills; names `"a"`, `"b"`; texts `"a"` (7), `"x"` (2) | `ImplementsServer`, `BlocksSafe`, `NamesSafe`, `LostInodes`, `CountsAhead`, `OthersKept`, `AckedWasDone` |
| `late_calls` | one client, 3 calls, 2 copies of a datagram at a time | `OneEffect`, `AckedIsDone`, `FailedIsUndone`, `CallReturns` |
| `two_clients` | two clients, 3 calls, one copy | `OneEffect`, `AckedIsDone` |
| `prompt` | 7 calls of every kind | `ImplementsRemoteCall` |
| `programs` | the 21 programs | `NoProgramFails`, `TestsMeetNoDefect`, `ProgramsEnd` |
| `creat_clobbers` | 4 inodes, 4 blocks | a file or directory is overwritten by Creat: make 1 and 2, unlink 1, make a directory |
| `root_dot` | names `"."`, `"a"` | the root unlinks itself |
| `false_ack` | 3 calls | a Write returns success and is not carried out |
| `kill_ack` | one kill | a Creat returns success and there is a name without a file |
| `kill_startup` | one kill | a server that serves a part of an image |

**Bounds.** Slots of a directory are never reused, so the images of an instance
are finite without a bound. `image` has directories that grow into a second
block, fill it, are emptied and removed, blocks that go from file to directory
and back, and disks and inode tables that fill up. With three inodes a directory
is made soundly only as inode 1; `tree` has a fourth so that there are
directories in directories, blocks of two entries so that each grows with its
first entry, and three pointers so that a directory fills all its slots. Both
stop at a state in which a defect has struck (`UntilHarm`), after the invariants
and step properties were checked on it, and leave the last reply out of the
state (`ImageOnly`): no later step reads it. The same is done in `killed` for
kills that tear the image (`UntilTorn`, `ButReply`), and `prompt` ends its
behaviours at a defect. Entries and inodes have one size there: with so few
inodes, an entry of the code's size would cover the table; in `programs` it
covers five. Texts have numbers below 0, of the table and beyond it, and names
are spelled by texts, so that leftovers lead somewhere; `killed` has two texts,
one of them spelling a name. `MaxCopies` drops datagrams beyond it: `UDP_Write`
always sends, so that is the model's bound (`Sent`), and nothing that UDP may
not do; `MaxCalls` and `MaxKills` say where a run of the system ends, which is
why these runs do not check for deadlock. Three calls are what it takes for a
late reply to an early call to meet a later one of the same kind, and seven for
the disk of `prompt` to fill and be emptied again. `late_calls` and
`two_clients` use few calls (Creat, Unlink and Write of one name and one inode
number) that depend on each other; `prompt` has every kind, and `tree` every
argument.

**Fairness.** `CallReturns`: weak for `Timeout`, because the loop at `mfs.c:61`
goes on for ever and `select` always ends; strong for the server and for
`Receive`, because the server's loop takes whatever arrives and a network that
loses every copy lets no call return. Nothing is assumed of `Lose`. `MFSPrompt`
has the same three. `ProgramsEnd` adds that the server is started and that the
program makes its next call, and promises an end only if the server is left
running at last (`<>[]up`).

**What fails.** `PROJECT.json` lists the five violations under `findings` with
the lines that say otherwise. The damage that Creat and Unlink of `"."` do was
seen on the running program as well (a file whose Stat turns strange after an
unrelated `MFS_Creat`, the root lost after `MFS_Unlink(0, ".")`, and, of the
same misplaced write, `MFS_Lookup(d, ".")` failing for a new directory). The
other known defects, a Creat that goes on without a block and a Write at block
10, are in the models with what comes of them (`harm`, `Breaking`).

How far the protocol works: a call that begins when nothing of an earlier one is
on its way, and that no other client crosses, is done if it returns success, and
takes effect once. With one client, a call that returns failure changed nothing;
with two that is not so, since the other one may make room between the first
message and its repetition. Late replies are what breaks it: any reply is taken
for that of the call in progress.

How far a kill is borne: apart from the moments of `Tears`, it costs one inode
that stays marked, at most, and its blocks; and one directory may count an entry
too many for ever, which Stat reports: an Unlink killed after the entry is gone
and before the parent's inode is stored (`server.c:723`) is repeated as an
Unlink of a name that is not there. `CountsAhead` says that counts are never too
small, and too large in all by the number of kills at most. All else that paths
lead to, the repetition of the request puts right. The inode that stays marked
is a trap for a client that holds its number and calls with it (`Astray`).

**Mutants.** Each property is matched in `PROJECT.json` with a plausible bug in
one definition that breaks it (for instance `Hits_RealSize`, which searches as
many entries as are live, or `UnlinkStores_BlocksFirst`, which frees the blocks
before the entry is gone). They are the operators marked `Mutant`, each in
front of the definition it changes.

## Proofs

`TypeCorrect` (`Spec => []TypeOK`), for every value of the constants that
`SizesAssumption` and `DataAssumption` allow: any sizes, names and texts, any
number for the first bytes of a text, and any records for stray bytes. It speaks
of the states before a known defect strikes; until then stray bytes lie in inodes
that are not in use, and it says that no handler takes one of those for an inode
in use: Creat writes the whole record of the inode that it takes.

The invariant is `TypeInv`, `TypeOK` with `DirSizes`. `TypeOK` alone is not
inductive: the reply of Lookup is an entry of a directory, which is one only if
the entry's number divides into the table of the inode, and that is so because
`reply_Creat` stops when the size is that of a full table (`server.c:551`).
`DirSizes` says so for the directories in use, while no defect has struck; it
needs that an inode in use is a directory or a file, else a Write could make a
"directory" grow. The lemmas: `MinOfNats` (the least element of a set of
numbers, by well-foundedness of `<`), from it `SearchFinds` and `NextAvailable`
(what the loops return), `EntryTypes` (the arithmetic of entries), and one
lemma for each handler.

`MFSImageProofs` proves what the order of the image rests on, again for every
size, as long as no known defect has struck: `BlocksNotShared`
(`NoSharedBlock`), `BitmapIsExact` (`BitmapExact`), `LinksAreSound`
(`LinksSound`), `NamesAreUnique` (`NamesUnique`), and `FilesAreDurable`
(`DurableBlocks`). They have one inductive invariant, `ImageInv`, which
`OrderKept` shows to hold always; TLC found it to hold on the instances of
`image` and `tree` before it was proved. None of its parts is inductive alone:

- `Books`: the pointers of inodes in use are marked, differ, and are all that
  is marked. Unlink keeps it because the inode it frees is in use, that is
  because of
- `EntriesUsed` and `EntriesOnce` (`LinksSound`). They are kept because no
  request but Creat and Unlink writes a block of a directory, that is because
  of `Books`; and because the entries of a directory lie in blocks it has,
  which is
- `DirTable`: a directory's pointers come first in its table, and its size lies
  in the last of its blocks or at the end of the one before. So a new entry
  never falls on an old one, and a block that Creat takes for entries goes to a
  place that held none;
- `NamesOnce`, from what `search_Directory` returned.

`TakeBlock`, `TakeNone` and `ReleaseBlocks` are the bookkeeping alone, for any
table and bitmap; `EntryPlace`, `NextPlace` and `WithEntryTable` the arithmetic
of entries. Three formulas say what a step that does no harm does to the
directories, without the details of the handlers: `SparesDirs` (a request that
reads, or a Write), `Makes` (`CreatNew`) and `Removes` (`UnlinkRemove`).
`WriteKeeps`, `CreatNewMakes` and `UnlinkRemoves` show that the handlers come to
that; `MakesEntries` gives the entries that follow. Then there is one lemma for
each of the three.

`MFSReachProofs` builds on these. Its `StepChanges` says once and for all that
from an image in order a step is one of the three, and each theorem needs one
lemma for each of them:

- `InodesAreReachable` (`Reachable`): a set that holds the root and the children
  of its directories is all inodes in use. That is inductive with `ImageInv`:
  take such a set after the step and put back, or take out, the one inode that
  the step made or removed; the result is closed before the step. Unlink needs
  that a directory it removes has no entries, `empty_Directory`;
- `RootStandsBehindTable` (`DirectoryBehindTable`): the root keeps block 0 as
  its first and the entry 0 in it;
- `AccountsAgree` (`Accounts`): `real_size` is the number of entries, by adding
  or removing one element of a finite set; `block_nums` is the number of
  pointers, of a file by induction over its Writes (`PushCounts`), of a
  directory by `DirTable`;
- `RepeatedRequestsAreHarmless` (`RetryIsNoop`): the entry that Creat wrote is
  found; after Unlink no other entry with that name is left, by `NamesOnce`, and
  it was the first one, so no default entry has the name either; the block that
  a Write took is where the pointer says.

So each invariant and step property of `MFSServer` that a run checks is proved
for every size.

**The tree.** `TreeIsImplemented` (`AskedSpec => ImplementsTree`): each handler
does to the tree of `MFSServerTree`, and answers, what `MFSTree` says, and a
known defect strikes only at a request that the tree warns of. The invariant is
`ImageInv` with `ShownWell`: the counts of `AccountsAgree`, from which the
answers to Stat come, and that every entry Creat made has a name that a client
may give (`MadeNames`). A step that does no harm is matched with a
request of the tree (`RequestInTree`): the three formulas `SparesDirs`, `Makes`
and `Removes` give the directories after it, `MakesKeepsOrder` and the lemmas of
`MFSReachProofs` the rest. A step in which a defect strikes is matched with
`Breaking` (`BreakingInTree`).

**The writes of a handler.** `WritesAreOneStep` (`CrashSpec => ImplementsServer`):
whatever kills there were, the writes of a handler come to the step of
`MFSServer` for its request, and no step but a kill shows any of them before.
The image that a handler starts from can be one that kills have torn, so the
proof may use nothing of `ImageInv`, not even the types of its contents: only
that tables and bitmaps have their places (`Shaped`). `CrashInv` says that while
the handler writes there is an image `final` such that

- `Outcome(before, call, final)`: it is what the request makes of the image that
  the handler found, written down once as a record (`Overwritten`, `Extended`,
  `WithoutEntry`, `WithFile`);
- `Coming(writes, Snapshot, final)`: of the writes still to be made, the last
  one that touches a place stores there what `final` has, and a place that none
  of them touches has it already.

`BeginLeads` shows it of the writes that a handler sets out with, one lemma for
each list of writes: that is where the order counts, since in Unlink and in a
Creat whose last entry goes astray two writes can touch one inode. `ComingOn`
takes one write off the list, `NothingComing` ends it: the image is `final`. The
lemmas `OverwriteServed`, `ExtendServed`, `UnlinkServed` and `CreateServed` show
that an outcome is a step of the `MFSServer` that is an instance here.

**Kills.** `MFSKillProofs` proves `BlocksStaySafe` (`BlocksSafe`),
`NamesStaySafe` (`NamesSafe`), `FewInodesAreLost` (`LostInodes`),
`OthersStayKept` (`OthersKept`) and `AcknowledgedWasDone` (`AckedWasDone`) from
one invariant, `CrashInv /\ KillInv`, which `ImageExplained` shows to hold
always. `ImageInv` is of no use here: it says that what is marked is what is
used, and a kill leaves inodes and blocks marked that nothing leads to.
`KillInv` says, unless a defect or a kill at a moment of `Tears` has struck,
that there are inodes `R` and one more inode `x` such that

- the image is in order for `R` (`Orderly`): their pointers are marked and
  differ (`BlocksHeld`), the entries of the directories among them name members
  of `R`, each one once and never the root (`NamesHeld`), the root leads to all
  of them (`Spanned`), a directory has a name once, for an inode of the type that
  a Creat of that name asked for (`NamesApart`). Nothing is said of what lies in
  the other places of a block: it may be the bytes of a file. Creat stores the
  parent's inode before the entry, so in between the directory counts an entry
  that nobody wrote, which may lead anywhere;
- or it is on its way between the writes of a handler: `Overwriting`,
  `Extending`, `Unlinking` and `Creating` say, for each list of writes that is
  still to be made, in what way the image is not in order yet. `Settling` is a
  list of writes that can be cut off anywhere: each of them spares `R`
  (`Sparing`), and after the last one `x` is either in `R` or not marked
  (`Freed`);
- of the inodes in use, at most `kills` are neither in `R` nor `x` (`Lost`).

`StageOn` takes one write off the list; it rests on `SettlingOn`, `OverwriteOn`,
`ExtendOn`, `UnlinkOn` and `CreatOn`. `BeginExplained` shows that the writes with
which a handler begins are such a list, whatever kills left of the image it
begins with. `KillExplained` shows that the image is in order when the list is
cut off where the image bears it: these are the moments that `NotTorn` leaves,
and at most `x` is then lost. Between two requests there is no list, and `R` is
what paths lead to (`ReachedIs`), from which three of the theorems follow.
Of the call in progress it says that it is to an inode of `R`, or that its
inode is not marked (`CallHeld`): the server refuses it then, and the calls for
which neither is so are `Astray`.
`OthersStayKept` needs of each kind of list what its next write leaves alone
(`StageLeaves`). Only the last writes of a Creat are special: its entry is counted
and not written, or it is there and the inode that it names still is what it was
before, so paths may lead anywhere for the moment. A path that led there when the
request began stays within `R` (`ReachedBeforeWithin`, from the image that the
Creat began with, which was in order), and the last write touches no other inode
(`LastLeaves`).

`AcknowledgedWasDone` needs one thing more, of the image that a handler began
with (`before`): it was in order too (`BegunInv`). A handler that has made its
writes has brought the image to what it computed from that one (`WritingInv` of
`MFSCrashProofs`), which `OverwriteDone`, `ExtendDone`, `UnlinkDone` and
`CreateDone` show to be what the request asks for; Unlink takes away the first
entry of the name, and that there is no second one is `NamesApart` of `before`.
The request that was cut off comes again, and may then be answered without a
write: that Creat found the name, or Unlink did not, says that the request was
carried out (`AnswerTells`, `NamedAsAsked`), since half a Creat is only left by
the kills of `Tears`. A name that Creat found among the first two entries, which
no Creat made, says nothing of an inode, and `Done` asks nothing of one.
The theorem has the hypothesis `CreatsAgree` of `MFSCrash`:
the Creats among the calls agree on the type of a name. Without it the property is
false, kills or not: a Creat of a name that is there succeeds whatever the type
(server.c:542-547). TLC evaluates `CreatsAgree` for the calls of the runs
(`CallsAgree` of `MCMFSCrash`).

TLC found `KillInv` and `BegunInv` to hold on the instance of `killed` before they
were proved.

**The system.** `MFSSystemProofs` speaks of any number of clients and calls, and
of a network that loses, repeats and swaps datagrams.

- `SystemServes` (`SystemSpec => Spec`): the image goes through the steps of
  `MFSServer`. With it all the theorems above hold of the system.
- `EffectsHappenOnce` (`OneEffect`) and `AcknowledgedIsDone` (`AckedIsDone`)
  from the invariant `SystemInv`. Its part about the calls: what is on its way
  for a client whose call found the network empty is a copy of that call
  (`Callers`); and of a call that no one disturbs, if it has changed the image
  or an answer of success is on its way, then it is carried out now, and it
  changed the image once (`CallInv`). It is kept because a request that is
  carried out changes nothing when it comes again (`RetryIsNoop`'s lemmas, and
  for the requests that may come in between, that `apart` is still true).
- `FailedChangesNothing` (`FailedIsUndone`) assumes one client, as the property
  does: with two it is false.

`SystemInv` is about calls only while no defect has struck, since nothing holds
of the image after that. `AcknowledgedIsDone`, `FailedChangesNothing` and
`CallsAreCarriedOutOnce` therefore have `[]Sound` as a hypothesis: they speak
of the behaviours without a defect, which is what the runs explore.

**The prompt network.** `CallsAreCarriedOutOnce` shows `Remote!RemoteSteps`, the
initial states and the steps of `ImplementsRemoteCall`: every step of
`MFSPrompt` begins a call, carries it out on the image, returns its reply, or is
not seen. The invariant, `PromptInv`, adds to `SystemInv` that nothing is on its
way between calls, that of a call there is a message or an answer on its way or
neither (`InFlight`), and that once the call has been carried out, carrying it
out again leaves the image and gives the same answer (`Settled`).

**Assumptions.** `SizesAssumption` and `DataAssumption` (`MFSImage`) say what
the sizes of `mfs.h` satisfy, and that the first bytes of a text are a number,
and that there are stray bytes of each kind. `CallsAssumption` (`MFSSystem`) and
`KilledCallsAssumption` (`MFSCrash`) say that the messages are among those that
the library sends, and that "no call" is none of them. TLC checks each of them
on a run.

**Only model-checked.**

- Liveness, which is out of the prover's reach: `CallReturns`, `ProgramsEnd`,
  and that a call returns in `ImplementsRemoteCall` (its fairness).
- `CountsAhead`: the proofs follow what paths lead to, and not the counts.
- `NoProgramFails` and `TestsMeetNoDefect`: they are about 21 concrete programs,
  which the run goes through.

## Plan

1. *(done)* `MFSImage`, `MFSServer` with its properties and claims, `MFSSystem`.
2. *(done)* `MFSTree` and the refinement; `MFSCrash` with the start of the
   server; two clients; the prompt network and `MFSRemoteCall`; the programs.
3. *(done)* Proofs of all invariants and step properties of `MFSServer`.
4. *(done)* Proofs that `MFSServer` implements `MFSTree`, that `MFSCrash`
   implements `MFSServer`, that the steps of `MFSSystem` are those of
   `MFSServer`, of what its calls have done, and that `MFSPrompt` takes the
   steps of `MFSRemoteCall`.
5. *(done)* Proofs of what an image is like after kills.
