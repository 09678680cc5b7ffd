-------------------------------- MODULE Ipc --------------------------------
(***************************************************************************)
(* The message layer (pa1/ipcio.c) as the programs use it: N children and  *)
(* the parent, one pipe per ordered pair of processes.  What a process     *)
(* does when it finds a pipe empty is left to the modules of the programs. *)
(*                                                                         *)
(* A message is at most PIPE_BUF bytes, so write() puts all of it in the   *)
(* pipe or nothing, and a pipe is a FIFO queue of whole messages.  One     *)
(* handler may have several messages to send (a multicast, a loop of       *)
(* replies); every loop of sends in the program runs over the destinations *)
(* in ascending order and writes at most one message to each, so the sends *)
(* a process has still to make are one message or none per destination.    *)
(* Every write() is a step of its own.                                     *)
(***************************************************************************)
EXTENDS Naturals, Sequences

CONSTANT N      \* num_children

ASSUME NAssumption == N \in Nat \ {0}

PARENT_ID == 0
Children == 1..N
Procs == PARENT_ID..N

\* The types of ipc.h that pa1, pa4, pa5 and pa6 send.  The bank has more types, and
\* messages with a payload, which Bank adds.
MessageType == {"STARTED", "DONE", "CS_REQUEST", "CS_REPLY", "CS_RELEASE"}

\* A header reduced to s_type and s_local_time; no receiver of these programs
\* reads the payload.
Message == [type : MessageType, time : Nat]
NoMessage == [type |-> "NONE", time |-> 0]

VARIABLES
  pipes,    \* pipes[dst][from]: the messages written by from, not yet read by dst
  outbox    \* outbox[p][dst]: what the running handler of p has still to send to dst

ipcVars == <<pipes, outbox>>

IpcTypeOK ==
  /\ pipes \in [Procs -> [Procs -> Seq(Message)]]
  /\ outbox \in [Procs -> [Procs -> Message \cup {NoMessage}]]

IpcInit ==
  /\ pipes = [d \in Procs |-> [f \in Procs |-> <<>>]]
  /\ outbox = [p \in Procs |-> [d \in Procs |-> NoMessage]]

\* p is inside a send loop: its program does nothing else until it is over.
Sending(p) == \E d \in Procs : outbox[p][d] # NoMessage

\* Mutant of NextDst: the loops run downwards, the parent comes last.
NextDstDownwards(p, d) ==
  /\ outbox[p][d] # NoMessage
  /\ \A e \in Procs : outbox[p][e] # NoMessage => d >= e

\* d is the destination the send loop of p writes to next.
NextDst(p, d) ==
  /\ outbox[p][d] # NoMessage
  /\ \A e \in Procs : outbox[p][e] # NoMessage => d <= e

\* Start sending m[d] to every process d of D.
PostEach(p, D, m) ==
  outbox' = [outbox EXCEPT ![p] = [d \in Procs |-> IF d \in D THEN m[d] ELSE NoMessage]]

\* Start sending m to every process of D.
Post(p, D, m) ==
  outbox' = [outbox EXCEPT ![p] = [d \in Procs |-> IF d \in D THEN m ELSE NoMessage]]

send(p, dst, m) == Post(p, {dst}, m)

\* Mutant of send_multicast: the loop starts after the parent.
send_multicast_children(p, m) == Post(p, Children \ {p}, m)

\* To all other processes including the parent.
send_multicast(p, m) == Post(p, Procs \ {p}, m)

\* To all other children.
ipc_multicast_to_children(p, m) == Post(p, Children \ {p}, m)

\* The message that the next receive() of p from f returns.
Oldest(p, f) == Head(pipes[p][f])

\* receive(): the header and the payload of the oldest message leave the pipe.
receive(p, f) ==
  /\ pipes[p][f] # <<>>
  /\ pipes' = [pipes EXCEPT ![p][f] = Tail(@)]

-----------------------------------------------------------------------------
(* What is under way from p to q: in the pipe and, after it, still to be     *)
(* written.                                                                  *)

Link(p, q) ==
  IF outbox[p][q] = NoMessage THEN pipes[q][p] ELSE Append(pipes[q][p], outbox[p][q])

Contains(s, type) == \E k \in 1..Len(s) : s[k].type = type

Carries(p, q, type) == Contains(Link(p, q), type)

-----------------------------------------------------------------------------
\* Mutant of NextFrom: every id from the own one on is taken for it.
NextFromBelow(p, f) == IF f + 1 >= p THEN f + 2 ELSE f + 1

\* ipc_receive_all_next(): the sender to read from after f.
NextFrom(p, f) == IF f + 1 = p THEN f + 2 ELSE f + 1

=============================================================================
