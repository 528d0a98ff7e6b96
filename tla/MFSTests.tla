------------------------------ MODULE MFSTests ------------------------------
(***************************************************************************)
(* The programs that the repository has for the client library: those of   *)
(* testcases/, and client.c.  A program is a sequence of calls, each with  *)
(* what makes the program give up: where one of them looks at the results  *)
(* at its end only, the check is at the call that got the last of them.    *)
(* Sizes are in directory entries.                                         *)
(***************************************************************************)
EXTENDS MFSCalls, Sequences

Results == -1 .. MFS_INODE_TABLE_SIZE - 1
NotFailed == Results \ {-1}
NotRoot == Results \ {-1, 0}

(***************************************************************************)
(* Step(m, S): the call of message m, whose result must be in S.  What     *)
(* else is asked for is added to it with EXCEPT:                           *)
(*   of       the step whose result is the inum to pass, unless 0          *)
(*   stats    what the call may say of the inode, unless {}                *)
(*   differs  the steps whose results must not be this one's               *)
(*   text     what the block that was read must hold, unless Blank         *)
(*   entries  those that the block that was read must show, each a name,   *)
(*            the inums it may have and the slots it may be in             *)
(*   inums    the steps whose results must be the inums of some entry      *)
(***************************************************************************)
Step(m, S) == [message |-> m, of |-> 0, passing |-> S, stats |-> {}, differs |-> {},
               text |-> Blank, entries |-> {}, inums |-> {}]
Try(m) == Step(m, Results)
Do(m) == Step(m, NotFailed)
On(k, step) == [step EXCEPT !.of = k]

Stats(type, size, blocks) == [type |-> type, size |-> size, blocks |-> blocks]
OfSize(size) == {Stats(type, size, blocks) : type \in {MFS_DIRECTORY, MFS_REGULAR_FILE},
                                             blocks \in BlockIndices}
Entry(name, inums, slots) == [name |-> name, inums |-> inums, slots |-> slots]

File(name) == Do(MFS_Creat(0, MFS_REGULAR_FILE, name))
Directory(name) == Do(MFS_Creat(0, MFS_DIRECTORY, name))
Find(name, S) == Step(MFS_Lookup(0, name), S)

(***************************************************************************)
(* The message of step k of a program whose earlier calls returned got,    *)
(* and whether the program goes on after the reply r to it.                *)
(***************************************************************************)
MessageOf(step, got) ==
  IF step.of = 0 THEN step.message ELSE [step.message EXCEPT !.inum = got[step.of]]

Passes(step, r, got) ==
  /\ r.success \in step.passing
  /\ step.stats = {} \/ r.stats \in step.stats
  /\ \A k \in step.differs : r.success # got[k]
  /\ step.text = Blank \/ \A s \in Slots : r.buffer[s].name = step.text
  /\ \A e \in step.entries : \E s \in e.slots :
       r.buffer[s].name = e.name /\ r.buffer[s].inum \in e.inums
  /\ \A k \in step.inums : \E s \in Slots : r.buffer[s].inum = got[k]

-----------------------------------------------------------------------------
Start == Try(MFS_Init)

test5 == <<Start, Find("file.txt", {-1}), File("file.txt"), Find("file1.txt", {-1})>>

test8 == <<Start, Find("bin", {-1}), [Directory("bin") EXCEPT !.passing = {0}],
           Find("bin", NotRoot)>>

test9 == <<Start, Find("file.txt", {-1}), [File("file.txt") EXCEPT !.passing = {0}],
           Find("file.txt", NotFailed)>>

test12 == <<Start, Directory("usr"), Find("usr", NotFailed),
            On(3, File("file.txt")), On(3, Find("file.txt", NotFailed)),
            On(3, [Step(MFS_Stat(0), {0}) EXCEPT !.stats = {Stats(MFS_DIRECTORY, 3, 1)}])>>

test13 == <<Start, File("file.txt"), Find("file.txt", NotFailed),
            On(3, [Step(MFS_Stat(0), {0}) EXCEPT !.stats = {Stats(MFS_REGULAR_FILE, 0, 0)}])>>

test15 == <<Start>> \o [k \in 1 .. 3 |->
            Step(MFS_Write(<<-1, 1, MFS_INODE_TABLE_SIZE>>[k], "cc", 0), Results \ {0})]

WriteTo(k, j) == On(k, Do(MFS_Write(0, "cc", j)))
ReadBack(k, j) == On(k, [Do(MFS_Read(0, j)) EXCEPT !.text = "cc"])

test18 == <<Start, File("file.txt"), Find("file.txt", NotRoot), WriteTo(3, 0), ReadBack(3, 0)>>

test19 == <<Start, File("file.txt"), Find("file.txt", NotFailed)>>
          \o [k \in 1 .. 10 |-> WriteTo(3, k - 1)]
          \o [k \in 1 .. 10 |-> ReadBack(3, k - 1)]
test27 == test19

DirNames == <<"dir0", "dir1", "dir2", "dir3", "dir4", "dir5", "dir6", "dir7", "dir8",
              "dir9", "dir10", "dir11", "dir12", "dir13">>
LookupOfDir(i) == 2 * i + 1
test26 ==
  <<Start>>
  \o [k \in 1 .. 28 |->
        IF k % 2 = 1 THEN Directory(DirNames[(k + 1) \div 2])
        ELSE [Find(DirNames[k \div 2], NotRoot)
                EXCEPT !.differs = {LookupOfDir(i) : i \in 1 .. k \div 2 - 1}]]
  \o <<Find(Dot, NotFailed), Find(DotDot, NotFailed),
       Step(MFS_Read(0, 1), Results \ {0}),
       [Do(MFS_Read(0, 0)) EXCEPT
          !.inums = {LookupOfDir(i) : i \in 1 .. 14} \cup {30, 31},
          !.entries = {Entry(name, Results, Slots) :
                         name \in {DirNames[i] : i \in 1 .. 14} \cup {Dot, DotDot}}]>>

test29 == <<Start, Directory("dir0"), Find("dir0", NotRoot),
            On(3, [Do(MFS_Stat(0)) EXCEPT !.stats = {Stats(MFS_DIRECTORY, 2, 1)}])>>

test30 == <<Start, File("file0"), Find("file0", NotRoot),
            On(3, [Do(MFS_Stat(0)) EXCEPT !.stats = {Stats(MFS_REGULAR_FILE, 0, 0)}])>>

test37 ==
  <<Start, Directory("dir1"), Find("dir1", NotRoot),
    File("whatever"), [Find("whatever", NotRoot) EXCEPT !.differs = {3}],
    Directory("dir2"), [Find("dir2", NotRoot) EXCEPT !.differs = {3, 5}],
    Do(MFS_Unlink(0, "whatever")), Do(MFS_Unlink(0, "dir1")),
    Find("dir1", {-1}), Find("dir2", NotFailed),
    On(3, Step(MFS_Stat(0), Results \ {0})),
    [Do(MFS_Stat(0)) EXCEPT !.stats = OfSize(3)],
    [Do(MFS_Read(0, 0)) EXCEPT
       !.entries = {Entry(name, NotFailed, 0 .. 4) : name \in {Dot, DotDot, "dir2"}}]>>

(***************************************************************************)
(* The same calls, with the same checks.                                   *)
(***************************************************************************)
client == test37

test38 == <<Start, File("whatever"), Find("whatever", NotRoot),
            Do(MFS_Unlink(0, "whatever")), Find("whatever", {-1}),
            On(3, Step(MFS_Stat(0), Results \ {0}))>>

test41 == <<Start, Find(Dot, Results), Find(Dot, {0})>>

test42 == <<Start, [Do(MFS_Stat(0)) EXCEPT !.stats = {Stats(MFS_DIRECTORY, 2, 1)}]>>

test43 == <<Start, Step(MFS_Write(0, "cc", 0), Results \ {0})>>

InRoot(name, slots) == Entry(name, {0}, slots)
test44 ==
  <<Start,
    [Do(MFS_Read(0, 0)) EXCEPT !.entries = {InRoot(Dot, 0 .. 1), InRoot(DotDot, 0 .. 1)}],
    [Do(MFS_Stat(0)) EXCEPT !.stats = OfSize(2)]>>

test45 ==
  <<Start, Directory("dir"),
    [Do(MFS_Read(0, 0)) EXCEPT
       !.entries = {InRoot(Dot, 0 .. 2), InRoot(DotDot, 0 .. 2),
                    Entry("dir", Results \ {0}, 0 .. 2)}],
    [Do(MFS_Stat(0)) EXCEPT !.stats = OfSize(3)]>>

test46 == <<Start, Step(MFS_Unlink(8, "dir"), Results \ {0})>>

Programs ==
  [test5 |-> test5, test8 |-> test8, test9 |-> test9, test12 |-> test12,
   test13 |-> test13, test15 |-> test15, test18 |-> test18, test19 |-> test19,
   test26 |-> test26, test27 |-> test27, test29 |-> test29, test30 |-> test30,
   test37 |-> test37, test38 |-> test38, test41 |-> test41, test42 |-> test42,
   test43 |-> test43, test44 |-> test44, test45 |-> test45, test46 |-> test46,
   client |-> client]
=============================================================================
