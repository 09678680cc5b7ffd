--------------------------- MODULE BarrierProgram ---------------------------
(***************************************************************************)
(* pa1: every child multicasts STARTED, waits for the STARTED of all other *)
(* children, multicasts DONE, waits for the DONE of all others and returns *)
(* from main; the parent waits for both of all children.  The pipes block, *)
(* and there is neither a clock nor a sleep.                               *)
(***************************************************************************)
EXTENDS Ipc

VARIABLES
  pc,      \* where each process is in its program
  from     \* cursor of its receive_all loop

vars == <<pipes, outbox, pc, from>>

\* A process ends by returning from main ("exited"), by SIGPIPE ("killed") or by
\* log_panic() ("failed").
Label == {"spawn", "start", "await_started", "broadcast_done", "await_done", "wait",
          "exited", "killed", "failed"}

TypeOK ==
  /\ IpcTypeOK
  /\ pc \in [Procs -> Label]
  /\ from \in [Procs -> 1..(N + 1)]

Init ==
  /\ IpcInit
  /\ pc = [p \in Procs |-> IF p = PARENT_ID THEN "spawn" ELSE "start"]
  /\ from = [p \in Procs |-> NextFrom(p, PARENT_ID)]

Goto(p, label) == pc' = [pc EXCEPT ![p] = label]

Gone(p) == pc[p] \in {"exited", "killed", "failed"}

\* No end of p's pipes is open any more: p is gone and the parent, which has a copy
\* of every end while it forks, has closed the ones it does not use.
HungUp(p) == Gone(p) /\ pc[PARENT_ID] # "spawn"

\* One write() of a send loop; without a reader SIGPIPE ends the writer.
Write(p) ==
  \E d \in Procs :
    /\ NextDst(p, d)
    /\ IF HungUp(d)
         THEN /\ outbox' = [outbox EXCEPT ![p] = [e \in Procs |-> NoMessage]]
              /\ Goto(p, "killed")
              /\ UNCHANGED pipes
         ELSE /\ pipes' = [pipes EXCEPT ![d][p] = Append(@, outbox[p][d])]
              /\ outbox' = [outbox EXCEPT ![p][d] = NoMessage]
              /\ UNCHANGED pc
    /\ UNCHANGED from

\* Multicast a message of the type on the way from one label to the next.
Broadcast(p, type, label, next) ==
  /\ pc[p] = label /\ ~Sending(p)
  /\ send_multicast(p, [type |-> type, time |-> 0])
  /\ Goto(p, next)
  /\ UNCHANGED <<pipes, from>>

\* One round of ipc_ext_receive_all_type(); read() blocks while the pipe is empty.
ReceiveNext(p, type) ==
  /\ from[p] <= N
  /\ receive(p, from[p])
  /\ IF Oldest(p, from[p]).type = type
       THEN from' = [from EXCEPT ![p] = NextFrom(p, @)] /\ UNCHANGED pc
       ELSE Goto(p, "failed") /\ UNCHANGED from

\* Mutant of ReceiveEnd: the next loop goes on where this one ended.
ReceiveEndKeepingCursor(p, next) ==
  /\ from[p] > N
  /\ Goto(p, next)
  /\ UNCHANGED <<pipes, from>>

\* RECEIVE_ALL_END; the next loop starts after the parent again.
ReceiveEnd(p, next) ==
  /\ from[p] > N
  /\ from' = [from EXCEPT ![p] = NextFrom(p, PARENT_ID)]
  /\ Goto(p, next)
  /\ UNCHANGED pipes

ReceiveAll(p, type, label, next) ==
  /\ pc[p] = label /\ ~Sending(p)
  /\ ReceiveNext(p, type) \/ ReceiveEnd(p, next)
  /\ UNCHANGED outbox

-----------------------------------------------------------------------------
\* child_entry
ChildNext(p) ==
  \/ Write(p)
  \/ Broadcast(p, "STARTED", "start", "await_started")
  \/ ReceiveAll(p, "STARTED", "await_started", "broadcast_done")
  \/ Broadcast(p, "DONE", "broadcast_done", "await_done")
  \/ ReceiveAll(p, "DONE", "await_done", "exited")

\* spawn_children: the fork() loop is over.
ParentSetUp ==
  /\ pc[PARENT_ID] = "spawn"
  /\ Goto(PARENT_ID, "await_started")
  /\ UNCHANGED <<pipes, outbox, from>>

\* The wait() loop is over.
ParentExit ==
  /\ pc[PARENT_ID] = "wait"
  /\ \A c \in Children : Gone(c)
  /\ Goto(PARENT_ID, "exited")
  /\ UNCHANGED <<pipes, outbox, from>>

ParentNext ==
  \/ ParentSetUp
  \/ ReceiveAll(PARENT_ID, "STARTED", "await_started", "await_done")
  \/ ReceiveAll(PARENT_ID, "DONE", "await_done", "wait")
  \/ ParentExit

Terminated == \A p \in Procs : pc[p] = "exited"

Next ==
  \/ \E p \in Children : ChildNext(p)
  \/ ParentNext
  \/ Terminated /\ UNCHANGED vars

\* The scheduler runs every process that has something to do.
Fairness == WF_vars(ParentNext) /\ \A p \in Children : WF_vars(ChildNext(p))

Spec == Init /\ [][Next]_vars
FairSpec == Spec /\ Fairness

-----------------------------------------------------------------------------
(* Properties *)

StageOf ==
  [p \in Children |->
     CASE pc[p] = "await_started" -> 1
       [] pc[p] = "broadcast_done" -> 2
       [] pc[p] = "await_done" -> 3
       [] pc[p] = "exited" -> 4
       [] OTHER -> 0]

Barriers == INSTANCE TwoBarriers WITH Participant <- Children, stage <- StageOf

\* No child logs that it received all STARTED (all DONE) before every child has begun
\* to send its own.
BarriersSpec == Barriers!Spec

\* Every process returns from main: a child exits without a sleep(), and still no peer
\* is ended by a write to its closed pipes or by a message of the other barrier.
Termination == <>Terminated
=============================================================================
