----------------------------- MODULE MFSSystem -----------------------------
(***************************************************************************)
(* Clients of the library mfs.c, the server of MFSServer, and the UDP      *)
(* datagrams between them.                                                 *)
(*                                                                         *)
(* MFS_Send_and_Receive sends its message, waits five seconds for a reply, *)
(* and starts over until one comes.  Nothing in a message tells which call *)
(* it belongs to: whatever reply arrives is the answer.  The server is     *)
(* stopped and started between requests, if at all: the image is on disk,  *)
(* so that is a lost message, and no more.  Every client has the same port *)
(* (mfs.c:7), so each is on a host of its own.                             *)
(***************************************************************************)
EXTENDS MFSServer, MFSCalls, Bags

CONSTANTS
  Clients,   \* the programs that use the library
  Calls,     \* the messages that they may send
  MaxCalls,  \* bound: calls of a run
  MaxCopies, \* bound: copies of a datagram on their way; more are dropped
  Idle       \* no call

VARIABLES
  call,      \* for each client, the datagram whose reply it awaits, or Idle
  calls,     \* number of calls made
  requests,  \* bag of datagrams on their way to the server
  replies,   \* bag of datagrams on their way to the clients' sockets
  effects,   \* history: how often a client's last call changed the image; 2, or more
  quiet,     \* history: whether nothing of the client was on its way before
  apart      \* history: whether no other client has crossed the current call

system == <<call, calls, requests, replies, effects, quiet, apart>>
allvars == <<vars, system>>

(***************************************************************************)
(* A datagram is a message, or a reply, with the address of the client.    *)
(* What was sent for different calls can be the same.                      *)
(***************************************************************************)
Requests == [message : Calls, client : Clients]
Answers == [reply : Replies, client : Clients]

ASSUME CallsAssumption ==
  /\ Calls \subseteq Messages
       \cup {MFS_Write(MFS_INODE_TABLE_SIZE, text, j) : text \in Texts, j \in BlockArgs}
  /\ Idle \notin Requests
  /\ MaxCalls \in Nat /\ MaxCopies \in Nat \ {0}

Copies(d, net) == IF BagIn(d, net) THEN net[d] ELSE 0

SystemInit ==
  /\ Init
  /\ call = [c \in Clients |-> Idle]
  /\ calls = 0
  /\ requests = EmptyBag
  /\ replies = EmptyBag
  /\ effects = [c \in Clients |-> 0]
  /\ quiet = [c \in Clients |-> TRUE]
  /\ apart = [c \in Clients |-> TRUE]

Waits(c) == call[c] # Idle

-----------------------------------------------------------------------------
(***************************************************************************)
(* UDP.  UDP_Write always sends.  That a datagram with MaxCopies copies on *)
(* their way is lost at once is the model's bound: it leaves out longer    *)
(* queues of the same datagram, and nothing that UDP may not do.           *)
(***************************************************************************)
Sent(net, d) == IF Copies(d, net) < MaxCopies THEN net (+) SetToBag({d}) ELSE net
Taken(net, d) == net (-) SetToBag({d})
Clear(net, c) == \A d \in BagToSet(net) : d.client # c

Lose ==
  /\ \/ /\ \E d \in BagToSet(requests) : requests' = Taken(requests, d)
        /\ UNCHANGED replies
     \/ /\ \E d \in BagToSet(replies) : replies' = Taken(replies, d)
        /\ UNCHANGED requests
  /\ UNCHANGED <<vars, call, calls, effects, quiet, apart>>

Duplicate ==
  /\ \/ /\ \E d \in BagToSet(requests) : requests' = Sent(requests, d)
        /\ UNCHANGED replies
     \/ /\ \E d \in BagToSet(replies) : replies' = Sent(replies, d)
        /\ UNCHANGED requests
  /\ UNCHANGED <<vars, call, calls, effects, quiet, apart>>

-----------------------------------------------------------------------------
(***************************************************************************)
(* The clients.  The select of MFS_Receive_Reply has timed out when        *)
(* nothing has arrived, which does not mean that nothing is on its way.    *)
(***************************************************************************)
Call(c, m) ==
  /\ ~Waits(c)
  /\ calls < MaxCalls
  /\ calls' = calls + 1
  /\ call' = [call EXCEPT ![c] = [message |-> m, client |-> c]]
  /\ requests' = Sent(requests, call'[c])
  /\ effects' = [effects EXCEPT ![c] = 0]
  /\ quiet' = [quiet EXCEPT ![c] = Clear(requests, c) /\ Clear(replies, c)]
  /\ apart' = [apart EXCEPT ![c] = TRUE]
  /\ UNCHANGED <<vars, replies>>

(* Mutant: waits again, but does not send again. *)
Timeout_NoResend(c) == Waits(c) /\ UNCHANGED allvars

Timeout(c) ==
  /\ Waits(c)
  /\ requests' = Sent(requests, call[c])
  /\ UNCHANGED <<vars, call, calls, replies, effects, quiet, apart>>

MFS_Receive_Reply(d) ==
  /\ Waits(d.client)
  /\ replies' = Taken(replies, d)
  /\ call' = [call EXCEPT ![d.client] = Idle]
  /\ UNCHANGED <<vars, calls, requests, effects, quiet, apart>>

Receive(c) == \E d \in BagToSet(replies) : d.client = c /\ MFS_Receive_Reply(d)

-----------------------------------------------------------------------------
(***************************************************************************)
(* The names and inodes that a call relies on, and those that carrying out *)
(* a request changes: a client is crossed by another's request for one of  *)
(* its own.                                                                *)
(***************************************************************************)
Uses(m) == {<<m.inum>>, <<m.inum, m.name>>}

Changed(m) ==
  CASE m.message_type = "W" -> {<<m.inum>>}
    [] m.message_type = "C" -> {<<m.inum, m.name>>, <<next_available_inode(inode_bitmap)>>}
    [] m.message_type = "U" -> {<<m.inum, m.name>>, <<EntryFor(m.inum, m.name).inum>>}

CrossedBy(c, d) ==
  /\ Waits(c) /\ d.client # c
  /\ image' # image
  /\ Uses(call[c].message) \cap Changed(d.message) # {}

(***************************************************************************)
(* The server replies to where the message came from.                      *)
(***************************************************************************)
Serve(d) ==
  /\ requests' = Taken(requests, d)
  /\ Handle(d.message)
  /\ replies' = Sent(replies, [reply |-> reply', client |-> d.client])
  /\ effects' = [effects EXCEPT ![d.client] = IF image' = image \/ @ = 2 THEN @ ELSE @ + 1]
  /\ apart' = [c \in Clients |-> apart[c] /\ ~CrossedBy(c, d)]
  /\ UNCHANGED <<call, calls, quiet>>

ServerLoop == \E d \in BagToSet(requests) : Serve(d)

SystemNext ==
  \/ \E c \in Clients :
       \/ \E m \in Calls : Call(c, m)
       \/ Timeout(c)
       \/ Receive(c)
  \/ ServerLoop
  \/ Lose
  \/ Duplicate

(***************************************************************************)
(* The client's loop sends again whenever select times out, the server's   *)
(* loop takes what has arrived, and the network does not lose every copy   *)
(* of what is sent again and again.                                        *)
(***************************************************************************)
ServeClient(c) == \E d \in BagToSet(requests) : d.client = c /\ Serve(d)

Fairness ==
  \A c \in Clients : /\ WF_allvars(Timeout(c))
                     /\ SF_allvars(ServeClient(c))
                     /\ SF_allvars(Receive(c))

SystemSpec == SystemInit /\ [][SystemNext]_allvars
FairSystemSpec == SystemSpec /\ Fairness

-----------------------------------------------------------------------------
(***************************************************************************)
(* What a request asks for, as the image shows it: the block reads as what *)
(* was written, the name is there, or it is gone.                          *)
(***************************************************************************)
Done(m) ==
  /\ m.message_type = "W" =>
       ReadOK(m.inum, m.block) /\ data[inodes[m.inum].blocks[m.block]] = TextBlock(m.buffer)
  /\ m.message_type = "C" => CreatOK(m.inum) /\ Found(m.inum, m.name) # -1
  /\ m.message_type = "U" => UnlinkOK(m.inum) /\ Found(m.inum, m.name) = -1

(***************************************************************************)
(* When nothing of the client's earlier calls is left on its way and no    *)
(* other client crosses it, a call that returns success has been carried   *)
(* out, however often its own messages are lost, repeated, delayed or      *)
(* swapped, and whatever inodes and blocks others take and give back.      *)
(***************************************************************************)
AckedIsDone ==
  [][\A d \in BagToSet(replies) :
       MFS_Receive_Reply(d) /\ d.reply.success = 0 /\ quiet[d.client] /\ apart[d.client]
         => Done(call[d.client].message)]_allvars

(***************************************************************************)
(* Such a call changes the image once at most before it returns: the       *)
(* server recognises the repetition by what it finds in the image, since   *)
(* nothing in the message tells it.                                        *)
(***************************************************************************)
OneEffect == \A c \in Clients : Waits(c) /\ quiet[c] /\ apart[c] => effects[c] <= 1

(***************************************************************************)
(* Such a call that returns failure has changed nothing: the first message *)
(* is not carried out and the second refused.  This holds of one client.   *)
(* With two it does not, since the other one can make room between the     *)
(* first message and the second.                                           *)
(***************************************************************************)
FailedIsUndone ==
  [][\A d \in BagToSet(replies) :
       MFS_Receive_Reply(d) /\ d.reply.success = -1 /\ quiet[d.client] /\ apart[d.client]
         => effects[d.client] = 0]_allvars

(***************************************************************************)
(* Every call returns.                                                     *)
(***************************************************************************)
CallReturns == \A c \in Clients : Waits(c) ~> ~Waits(c)

-----------------------------------------------------------------------------
(***************************************************************************)
(* Without the condition: a Write that returns success has been carried    *)
(* out.  It has not when the reply is a late one to an earlier call.       *)
(***************************************************************************)
AckedWriteIsDone ==
  [][\A d \in BagToSet(replies) :
       MFS_Receive_Reply(d) /\ d.reply.success = 0
         /\ call[d.client].message.message_type = "W"
         => Done(call[d.client].message)]_allvars
=============================================================================
