---------------------------- MODULE MFSPrograms ----------------------------
(***************************************************************************)
(* One of the programs of MFSTests on a fresh server, over the network of  *)
(* MFSPrompt.  The server may be started before the program or at any time *)
(* after it, as run-test.py does for the tests from 41 on, and stopped and *)
(* started again, as it does for test 40: until then what is sent stays    *)
(* unanswered.                                                             *)
(***************************************************************************)
EXTENDS MFSPrompt, MFSTests

VARIABLES
  program, \* its name
  got,     \* the results of its calls so far
  failed,  \* whether it has given up
  up       \* whether the server runs

programvars == <<promptvars, program, got, failed, up>>

Steps == Programs[program]
Ended == failed \/ Len(got) = Len(Steps)

ProgramsInit ==
  /\ PromptInit
  /\ program \in DOMAIN Programs
  /\ got = <<>>
  /\ failed = FALSE
  /\ up = FALSE

StartServer ==
  /\ ~up
  /\ up' = TRUE
  /\ UNCHANGED <<promptvars, program, got, failed>>

(***************************************************************************)
(* killall, between two requests: the image stays.                         *)
(***************************************************************************)
StopServer ==
  /\ up
  /\ up' = FALSE
  /\ UNCHANGED <<promptvars, program, got, failed>>

NextCall ==
  /\ ~Ended
  /\ Ask(MessageOf(Steps[Len(got) + 1], got))
  /\ UNCHANGED <<program, got, failed, up>>

SendAgain == Resend /\ UNCHANGED <<program, got, failed, up>>
Answered == up /\ Carry /\ UNCHANGED <<program, got, failed, up>>
Lost == Drop /\ UNCHANGED <<program, got, failed, up>>

GoOn(d) ==
  /\ Return(d)
  /\ got' = Append(got, d.reply.success)
  /\ failed' = ~Passes(Steps[Len(got) + 1], d.reply, got)
  /\ UNCHANGED <<program, up>>

Received == \E d \in BagToSet(replies) : GoOn(d)

ProgramsNext ==
  StartServer \/ StopServer \/ NextCall \/ SendAgain \/ Answered \/ Lost \/ Received

(***************************************************************************)
(* The fairness of MFSPrompt; the program runs, and the server is started. *)
(***************************************************************************)
ProgramsSpec ==
  /\ ProgramsInit /\ [][ProgramsNext]_programvars
  /\ WF_programvars(StartServer) /\ WF_programvars(NextCall) /\ WF_programvars(SendAgain)
  /\ SF_programvars(Answered) /\ SF_programvars(Received)

-----------------------------------------------------------------------------
(***************************************************************************)
(* No program gives up, whichever of its datagrams are lost and whenever   *)
(* the server is started and stopped.                                      *)
(***************************************************************************)
NoProgramFails == ~failed

(***************************************************************************)
(* Every program comes to its end, if at last the server is left running.  *)
(***************************************************************************)
ProgramsEnd == <>[]up => <>Ended

(***************************************************************************)
(* The tests pass because they stay clear of the defects that damage the   *)
(* image: none of them ever makes a directory next to an inode in use,     *)
(* fills the disk, unlinks "." or writes behind the last block.            *)
(***************************************************************************)
TestsMeetNoDefect == Sound
=============================================================================
