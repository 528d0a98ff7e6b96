--------------------------- MODULE MFSRemoteCall ---------------------------
(***************************************************************************)
(* What the client library promises: a call is carried out by the server   *)
(* once, between its beginning and its end, and returns the reply to that. *)
(* There are no datagrams here, and nothing is lost or sent again.         *)
(***************************************************************************)
EXTENDS MFSServer

CONSTANTS
  Calls,  \* the messages that the program may send
  Idle    \* no message

VARIABLES
  call,     \* the message of the call that was begun, or Idle
  carried,  \* whether the server has carried it out
  result    \* the reply that the last call returned

remotevars == <<vars, call, carried, result>>

RemoteInit ==
  /\ Init
  /\ call = Idle
  /\ carried = FALSE
  /\ result = Reply("", 0)

Begin(m) ==
  /\ call = Idle
  /\ call' = m
  /\ carried' = FALSE
  /\ UNCHANGED <<vars, result>>

Carry ==
  /\ call # Idle
  /\ ~carried
  /\ Handle(call)
  /\ carried' = TRUE
  /\ UNCHANGED <<call, result>>

Return ==
  /\ call # Idle
  /\ carried
  /\ result' = reply
  /\ call' = Idle
  /\ UNCHANGED <<vars, carried>>

RemoteNext == (\E m \in Calls : Begin(m)) \/ Carry \/ Return

RemoteSteps == RemoteInit /\ [][RemoteNext]_remotevars

RemoteSpec ==
  /\ RemoteSteps
  /\ WF_remotevars(Carry) /\ WF_remotevars(Return)
=============================================================================
