---------------------------- MODULE RelayShared ----------------------------
(***************************************************************************)
(* What the server goroutines and the client goroutine share: the bounded  *)
(* channel of queue.Queue, the reply channel carried by every SharedData,  *)
(* and the cancellation of the application context of core.App.            *)
(*                                                                         *)
(* A message stands for one frame sent once by one panel; a panel that     *)
(* repeats a report sends another message.  Message content is abstracted  *)
(* to the three outcomes handleRequest tells apart.                        *)
(***************************************************************************)
EXTENDS Integers, Sequences

CONSTANTS
  Events,      \* frames that pass IsMessageValid and ChangeAccountNumber
  Heartbeats,  \* frames that IsHeartBeat recognises
  Malformed,   \* every other frame: empty, wrong length or prefix, bad account
  BufferSize,  \* cfg.Queue.BufferSize, 0 included (an unbuffered channel)
  NoMsg        \* "no message", for local variables that hold none

Messages == Events \cup Heartbeats \cup Malformed

ASSUME SharedAssumption ==
  /\ BufferSize \in Nat
  /\ NoMsg \notin Messages
  /\ Events \cap Heartbeats = {}
  /\ Events \cap Malformed = {}
  /\ Heartbeats \cap Malformed = {}

VARIABLES
  dataChannel,  \* Queue.DataChannel, oldest message first
  replyCh,      \* replyCh[m]: what is in the reply channel made for m
  replyClosed,  \* the messages whose reply channel has been closed
  ctxDone       \* the application context has been cancelled

sharedVars == <<dataChannel, replyCh, replyClosed, ctxDone>>

\* Mutant: make(chan queue.DeliveryData), without the buffer.
ReplyCapacity_Unbuffered == 0

\* make(chan queue.DeliveryData, 1): room for one delivery status.
ReplyCapacity == 1

SharedTypeOK ==
  /\ dataChannel \in Seq(Messages)
  /\ replyCh \in [Messages -> Seq(BOOLEAN)]
  /\ replyClosed \in SUBSET Messages
  /\ ctxDone \in BOOLEAN

SharedInit ==
  /\ dataChannel = <<>>
  /\ replyCh = [m \in Messages |-> <<>>]
  /\ replyClosed = {}
  /\ ctxDone = FALSE

\* The select-with-default of Queue.Enqueue takes its send branch: there is
\* room, or the channel is unbuffered and its consumer is parked on it.
CanEnqueue(parked) ==
  \/ Len(dataChannel) < BufferSize
  \/ BufferSize = 0 /\ parked /\ dataChannel = <<>>

Enqueue(m) == dataChannel' = Append(dataChannel, m)

\* On an unbuffered channel a message that was sent has already been received:
\* the consumer can no longer choose another branch of its select.
HandedOver == BufferSize = 0 /\ dataChannel # <<>>

\* A send on the reply channel neither blocks nor panics.
CanReply(m) == Len(replyCh[m]) < ReplyCapacity /\ m \notin replyClosed

\* SIGINT, SIGTERM, SIGQUIT or App.Shutdown cancels the context.
Cancel ==
  /\ ~ctxDone
  /\ ctxDone' = TRUE
  /\ UNCHANGED <<dataChannel, replyCh, replyClosed>>
=============================================================================
