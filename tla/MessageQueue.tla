---------------------------- MODULE MessageQueue ----------------------------
(***************************************************************************)
(* What the programs take a pipe for: a queue of whole messages.  A call   *)
(* of receive() returns the oldest message, or that there is none, which   *)
(* it says only when there is none.  IpcBytes implements this; the pipes   *)
(* of Ipc are such queues.                                                 *)
(***************************************************************************)
EXTENDS Sequences

CONSTANTS
  Msg,     \* the messages
  EMPTY    \* what receive() returns if there is none

VARIABLES
  queue,    \* the messages that have been sent and not been received
  returned  \* what the last receive() has returned

vars == <<queue, returned>>

Init == queue = <<>> /\ returned = EMPTY

Put == \E m \in Msg : queue' = Append(queue, m) /\ UNCHANGED returned

Get ==
  /\ queue # <<>>
  /\ queue' = Tail(queue)
  /\ returned' = Head(queue)

FindEmpty ==
  /\ queue = <<>>
  /\ returned' = EMPTY
  /\ UNCHANGED queue

Next == Put \/ Get \/ FindEmpty

Spec == Init /\ [][Next]_vars
=============================================================================
