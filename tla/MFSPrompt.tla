----------------------------- MODULE MFSPrompt -----------------------------
(***************************************************************************)
(* One client on a network that loses datagrams, but brings or loses each  *)
(* within the five seconds that the client waits, and repeats none: when   *)
(* select times out, nothing is on its way any more.  There the library    *)
(* keeps its promise, MFSRemoteCall, though the server carries out again   *)
(* every request whose reply was lost.                                     *)
(***************************************************************************)
EXTENDS MFSSystem

VARIABLES
  carried,  \* history: whether the current call has been carried out
  result    \* history: the reply that the last call returned

promptvars == <<allvars, carried, result>>

ASSUME OneClientAssumption == \E c \in Clients : Clients = {c}
ASSUME NoCallAssumption == Idle \notin Calls

Client == CHOOSE c \in Clients : TRUE

PromptInit ==
  /\ SystemInit
  /\ carried = FALSE
  /\ result = Reply("", 0)

Ask(m) ==
  /\ Call(Client, m)
  /\ carried' = FALSE
  /\ UNCHANGED result

(* Mutant: select returns before the reply can have come. *)
Resend_Early ==
  /\ Timeout(Client)
  /\ UNCHANGED <<carried, result>>

Resend ==
  /\ Clear(requests, Client) /\ Clear(replies, Client)
  /\ Timeout(Client)
  /\ UNCHANGED <<carried, result>>

Carry ==
  /\ ServerLoop
  /\ carried' = TRUE
  /\ UNCHANGED result

Return(d) ==
  /\ MFS_Receive_Reply(d)
  /\ result' = d.reply
  /\ UNCHANGED carried

ReturnAny == \E d \in BagToSet(replies) : Return(d)

Drop ==
  /\ Lose
  /\ UNCHANGED <<carried, result>>

PromptNext ==
  \/ \E m \in Calls : Ask(m)
  \/ Resend
  \/ Carry
  \/ ReturnAny
  \/ Drop

PromptSpec ==
  /\ PromptInit /\ [][PromptNext]_promptvars
  /\ WF_promptvars(Resend) /\ SF_promptvars(Carry) /\ SF_promptvars(ReturnAny)

(***************************************************************************)
(* A call is carried out once: what the server does when it gets the       *)
(* message again changes nothing and gives the same answer, for every kind *)
(* of call.  And it returns, with that answer.                             *)
(***************************************************************************)
Remote == INSTANCE MFSRemoteCall WITH
            call <- IF Waits(Client) THEN call[Client].message ELSE Idle

ImplementsRemoteCall == Remote!RemoteSpec
=============================================================================
