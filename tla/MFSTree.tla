------------------------------ MODULE MFSTree ------------------------------
(***************************************************************************)
(* What the file server promises: a tree of directories and files, without *)
(* bitmaps, inodes, or places on a disk.  MFSServerTree shows that the     *)
(* handlers of server.c implement it until one of their known defects      *)
(* strikes; then nothing is promised any more (broken).  When that can be, *)
(* a program can tell from the tree (Breaking).                            *)
(*                                                                         *)
(* Two things show through from below.  A new directory can have up to two *)
(* names in it that nobody made (leftovers), which lead to any number that *)
(* the bytes of a block can read as; and a directory takes only so many    *)
(* creations in its life, however many of them were removed again.         *)
(***************************************************************************)
EXTENDS Integers, FiniteSets

CONSTANTS
  Ids,             \* what names a file or directory, 0 being the root
  Numbers,         \* what a name that nobody made can lead to
  BlocksPerNode,   \* blocks that a file or a directory can have
  EntsPerBlock,    \* names that a block of a directory holds
  TotalBlocks,     \* blocks that all of them together can have
  Overrun,         \* nodes after a new directory that its making can hit
  Names,
  Contents,        \* what a block of a directory can read as
  Messages         \* the requests, records as MFS_Message_t

VARIABLES
  dirs,    \* for each directory: names made, names left over, how often one was made
  files,   \* for each file: what its blocks hold
  asked,   \* the last request
  answer,  \* what it was answered
  broken   \* whether a defect has struck

tree == <<dirs, files>>
treevars == <<dirs, files, asked, answer, broken>>

Directory == 0
RegularFile == 1
Indices == 0 .. BlocksPerNode - 1

Nodes == DOMAIN dirs \cup DOMAIN files

(***************************************************************************)
(* Functions with nothing in them, with one thing set, with some left out. *)
(***************************************************************************)
Empty == [x \in {} |-> x]
With(f, x, y) == [z \in DOMAIN f \cup {x} |-> IF z = x THEN y ELSE f[z]]
Without(f, S) == [x \in DOMAIN f \ S |-> f[x]]

(***************************************************************************)
(* What a name leads to: one left over comes before one that was made.     *)
(***************************************************************************)
Seen(d) == DOMAIN dirs[d].leftovers \cup DOMAIN dirs[d].entries
Lookups(d, name) ==
  IF name \in DOMAIN dirs[d].leftovers THEN dirs[d].leftovers[name] ELSE dirs[d].entries[name]

(***************************************************************************)
(* Blocks in use.  A directory starts with two entries and one block.      *)
(***************************************************************************)
BlocksFor(ents) == (ents + EntsPerBlock - 1) \div EntsPerBlock
DirBlocks(d) == BlocksFor(2 + dirs[d].made)
InUse ==
  {p \in (DOMAIN files) \X Indices : p[2] \in DOMAIN files[p[1]]}
  \cup {p \in (DOMAIN dirs) \X Indices : p[2] < DirBlocks(p[1])}
BlocksUsed == Cardinality(InUse)
NewDirBlocks(type) == IF type = Directory THEN 1 ELSE 0
MoreBlocks(d, type) == BlocksFor(3 + dirs[d].made) - DirBlocks(d) + NewDirBlocks(type)

-----------------------------------------------------------------------------
NoStats == [type |-> 0, size |-> 0, blocks |-> 0]
Answered(success, stats, text) == [success |-> success, stats |-> stats, text |-> text]
Answer(success) == Answered(success, NoStats, "")

Nothing == [message_type |-> "", inum |-> 0, type |-> 0, block |-> 0,
            name |-> "", buffer |-> ""]

Says(a) == answer' = a /\ UNCHANGED tree

Init ==
  /\ dirs = [d \in {0} |-> [entries |-> Empty,
                             leftovers |-> [name \in Names \cap {".", ".."} |-> 0],
                             made |-> 0]]
  /\ files = Empty
  /\ asked = Nothing
  /\ answer = Answer(0)
  /\ broken = FALSE

Greet == Says(Answer(0))

Lookup(d, name) ==
  \/ /\ d \in DOMAIN dirs /\ name \in Seen(d)
     /\ Says(Answer(Lookups(d, name)))
  \/ /\ ~(d \in DOMAIN dirs /\ name \in Seen(d))
     /\ Says(Answer(-1))

(***************************************************************************)
(* The size of a directory counts the names made in it, and two.           *)
(***************************************************************************)
Stat(n) ==
  \/ /\ n \in DOMAIN dirs
     /\ Says(Answered(0, [type |-> Directory, blocks |-> DirBlocks(n),
                           size |-> 2 + Cardinality(DOMAIN dirs[n].entries)], ""))
  \/ /\ n \in DOMAIN files
     /\ Says(Answered(0, [type |-> RegularFile, blocks |-> Cardinality(DOMAIN files[n]),
                           size |-> EntsPerBlock * Cardinality(DOMAIN files[n])], ""))
  \/ n \notin Nodes /\ Says(Answer(-1))

Read(n, j) ==
  \/ /\ n \in DOMAIN files /\ j \in DOMAIN files[n]
     /\ Says(Answered(0, NoStats, files[n][j]))
  \/ /\ n \in DOMAIN dirs /\ j \in 0 .. DirBlocks(n) - 1
     /\ \E text \in Contents : Says(Answered(0, NoStats, text))
  \/ /\ ~(n \in DOMAIN files /\ j \in DOMAIN files[n])
     /\ ~(n \in DOMAIN dirs /\ j \in 0 .. DirBlocks(n) - 1)
     /\ Says(Answer(-1))

(***************************************************************************)
(* A Write is refused for want of space only when all blocks are in use.   *)
(***************************************************************************)
CanWrite(n, j) ==
  /\ n \in DOMAIN files
  /\ j \in Indices
  /\ j \in DOMAIN files[n] \/ BlocksUsed < TotalBlocks

Write(n, j, text) ==
  \/ /\ CanWrite(n, j)
     /\ files' = [files EXCEPT ![n] = With(@, j, text)]
     /\ answer' = Answer(0)
     /\ UNCHANGED dirs
  \/ ~CanWrite(n, j) /\ Says(Answer(-1))

-----------------------------------------------------------------------------
Leftovers == UNION {[S -> Numbers] : S \in {S \in SUBSET Names : Cardinality(S) <= 2}}

NextId == CHOOSE n \in Ids \ Nodes : \A k \in Ids \ Nodes : n <= k
CanCreat(d) == Nodes # Ids /\ 2 + dirs[d].made < BlocksPerNode * EntsPerBlock

Entered(d, name, n) ==
  [dirs EXCEPT ![d].entries = With(@, name, n), ![d].made = @ + 1]

Creat(d, type, name) ==
  \/ /\ d \in DOMAIN dirs /\ name \in Seen(d)
     /\ Says(Answer(0))
  \/ /\ d \in DOMAIN dirs /\ name \notin Seen(d)
     /\ CanCreat(d)
     /\ BlocksUsed + MoreBlocks(d, type) <= TotalBlocks
     /\ \/ /\ type = RegularFile
           /\ dirs' = Entered(d, name, NextId)
           /\ files' = With(files, NextId, Empty)
        \/ /\ type = Directory
           /\ \E left \in Leftovers :
                dirs' = With(Entered(d, name, NextId), NextId,
                             [entries |-> Empty, leftovers |-> left, made |-> 0])
           /\ UNCHANGED files
     /\ answer' = Answer(0)
  \/ /\ ~(d \in DOMAIN dirs /\ (name \in Seen(d) \/ CanCreat(d)))
     /\ Says(Answer(-1))

(***************************************************************************)
(* What Unlink removes is gone; a directory must be empty for that.        *)
(***************************************************************************)
Busy(n) == n \in DOMAIN dirs /\ DOMAIN dirs[n].entries # {}

Unlink(d, name) ==
  \/ d \notin DOMAIN dirs /\ Says(Answer(-1))
  \/ /\ d \in DOMAIN dirs /\ name \notin Seen(d)
     /\ Says(Answer(0))
  \/ /\ d \in DOMAIN dirs /\ name \in Seen(d)
     /\ name \in DOMAIN dirs[d].leftovers \/ Busy(dirs[d].entries[name])
     /\ Says(Answer(-1))
  \/ /\ d \in DOMAIN dirs /\ name \in DOMAIN dirs[d].entries \ DOMAIN dirs[d].leftovers
     /\ ~Busy(dirs[d].entries[name])
     /\ LET n == dirs[d].entries[name]
        IN  /\ dirs' = Without([dirs EXCEPT ![d].entries = Without(@, {name})], {n})
            /\ files' = Without(files, {n})
     /\ answer' = Answer(0)

-----------------------------------------------------------------------------
Request(m) ==
  \/ m.message_type = "I" /\ Greet
  \/ m.message_type = "L" /\ Lookup(m.inum, m.name)
  \/ m.message_type = "S" /\ Stat(m.inum)
  \/ m.message_type = "R" /\ Read(m.inum, m.block)
  \/ m.message_type = "W" /\ Write(m.inum, m.block, m.buffer)
  \/ m.message_type = "C" /\ Creat(m.inum, m.type, m.name)
  \/ m.message_type = "U" /\ Unlink(m.inum, m.name)

(***************************************************************************)
(* The requests that can damage the server's image: one that needs a block *)
(* when there is none; the making of a directory when one of the nodes     *)
(* that come after it is in use (because its number was given back and     *)
(* taken again), or when it is one of the last; the removal of a name that *)
(* nobody made, as "."; and a Write just behind the last block of a file.  *)
(***************************************************************************)
Breaking(m) ==
  \/ /\ m.message_type = "C"
     /\ m.inum \in DOMAIN dirs /\ m.name \notin Seen(m.inum) /\ CanCreat(m.inum)
     /\ \/ BlocksUsed + MoreBlocks(m.inum, m.type) > TotalBlocks
        \/ /\ m.type = Directory
           /\ \E n \in NextId + 1 .. NextId + Overrun : n \in Nodes \/ n \notin Ids
  \/ /\ m.message_type = "U"
     /\ m.inum \in DOMAIN dirs /\ m.name \in DOMAIN dirs[m.inum].leftovers
  \/ /\ m.message_type = "W"
     /\ m.inum \in DOMAIN files /\ m.block = BlocksPerNode

Next ==
  \E m \in Messages :
    /\ asked' = m
    /\ \/ ~broken' /\ Request(m)
       \/ broken' /\ (broken \/ Breaking(m))

Spec == Init /\ [][Next]_treevars
=============================================================================
