----------------------------- MODULE MutexChild -----------------------------
(***************************************************************************)
(* The process skeleton that pa4, pa5 and pa6 share: main.c, parent.c and  *)
(* child.c of pa4 with pa3's Lamport clock.  The three programs differ in  *)
(* mutex.c only; MutexLamport, MutexRicart and MutexForks extend this      *)
(* module with the state and the handlers of theirs.                       *)
(***************************************************************************)
EXTENDS Ipc, Integers

CONSTANTS
  Iterations,   \* iterations_count of each child (5 * id in the program)
  mutexl,       \* the --mutexl option
  SleepCovers   \* TRUE: sleep(1) is long enough for the peers to read every DONE

ASSUME ChildAssumption ==
  /\ Iterations \in [Children -> Nat]
  /\ mutexl \in BOOLEAN
  /\ SleepCovers \in BOOLEAN

VARIABLES
  pc,                 \* where each process is in its program
  lamport_time,       \* the clock of time.c, one per process
  from,               \* cursor of the receive_all loop
  i,                  \* iteration the child is at
  awaiting_children   \* children whose DONE has not been received

childVars == <<pipes, outbox, pc, lamport_time, from, i, awaiting_children>>

\* Where a process can be.  child_entry: "start" .. "sleep"; the parent: "spawn",
\* "await_started", "await_done", "wait".  A process ends by returning from main
\* ("exited"), by SIGPIPE ("killed"), by log_panic() or a failed assert
\* ("failed"), or it stays in a read() loop for ever ("spin").
Label == {"start", "await_started", "loop", "ask", "request", "cs", "drain", "sleep",
          "spawn", "await_done", "wait", "exited", "killed", "failed", "spin"}

ChildTypeOK ==
  /\ IpcTypeOK
  /\ pc \in [Procs -> Label]
  /\ lamport_time \in [Procs -> Nat]
  /\ from \in [Procs -> 1..(N + 1)]
  /\ i \in [Children -> Nat]
  /\ \A p \in Children : i[p] \in 1..(Iterations[p] + 1)
  /\ awaiting_children \in [Children -> Int]

ChildInit ==
  /\ IpcInit
  /\ pc = [p \in Procs |-> IF p = PARENT_ID THEN "spawn" ELSE "start"]
  /\ lamport_time = [p \in Procs |-> 0]
  /\ from = [p \in Procs |-> NextFrom(p, PARENT_ID)]
  /\ i = [p \in Children |-> 1]
  /\ awaiting_children = [p \in Children |-> N - 1]

\* A process that is no longer running.
Gone(p) == pc[p] \in {"exited", "killed", "failed"}

\* No end of p's pipes is open any more: p is gone and the parent, which has a copy
\* of every end while it forks, has closed the ones it does not use.
HungUp(p) == Gone(p) /\ pc[PARENT_ID] # "spawn"

\* A process that is still in its program.
Live(p) == pc[p] \notin {"exited", "killed", "failed", "spin"}

\* The child is executing the body that request_cs() and release_cs() enclose.
InCS(p) == pc[p] = "cs" /\ ~Sending(p)

Goto(p, label) == pc' = [pc EXCEPT ![p] = label]

\* Mutant of HasIteration: one iteration too many.
HasExtraIteration(p) == i[p] <= Iterations[p] + 1

\* The condition of the for loop of child_entry.
HasIteration(p) == i[p] <= Iterations[p]

-----------------------------------------------------------------------------
(* time.c *)

\* Mutant of Synchronized: the clock takes the time of the message even if it is
\* ahead of it.
TimeOfMessage(now, t) == t + 1

\* synchronize_time(t) on a clock that shows now.
Synchronized(now, t) == (IF t > now THEN t ELSE now) + 1

-----------------------------------------------------------------------------
(* Sending *)

\* One write() of a send loop.  Writing to a pipe without a reader raises SIGPIPE,
\* which ends the writer.
Write(p) ==
  \E d \in Procs :
    /\ NextDst(p, d)
    /\ IF HungUp(d)
         THEN /\ outbox' = [outbox EXCEPT ![p] = [e \in Procs |-> NoMessage]]
              /\ Goto(p, "killed")
              /\ UNCHANGED pipes
         ELSE /\ pipes' = [pipes EXCEPT ![d][p] = Append(@, outbox[p][d])]
              /\ outbox' = [outbox EXCEPT ![p][d] = NoMessage]
              /\ UNCHANGED pc
    /\ UNCHANGED <<lamport_time, from, i, awaiting_children>>

-----------------------------------------------------------------------------
(* ipc_ext_receive_all: one message of the given type from every other child *)

ReceiveAll(p, type, next) ==
  /\ ~Sending(p)
  /\ from[p] <= N
  /\ receive(p, from[p])
  /\ LET m == Oldest(p, from[p])
         f == NextFrom(p, from[p])
     IN  IF m.type # type
           THEN /\ Goto(p, "failed")
                /\ UNCHANGED <<lamport_time, from>>
           ELSE /\ lamport_time' = [lamport_time EXCEPT ![p] = Synchronized(@, m.time)]
                /\ from' = [from EXCEPT ![p] = IF f > N THEN NextFrom(p, PARENT_ID) ELSE f]
                /\ Goto(p, IF f > N THEN next ELSE pc[p])
  /\ UNCHANGED <<outbox, i, awaiting_children>>

-----------------------------------------------------------------------------
(* child_entry *)

\* child_sync_started(), up to the multicast.
Start(p) ==
  /\ pc[p] = "start" /\ ~Sending(p)
  /\ lamport_time' = [lamport_time EXCEPT ![p] = @ + 1]
  /\ send_multicast(p, [type |-> "STARTED", time |-> lamport_time'[p]])
  /\ Goto(p, IF from[p] > N THEN "loop" ELSE "await_started")
  /\ UNCHANGED <<pipes, from, i, awaiting_children>>

AwaitStarted(p) == pc[p] = "await_started" /\ ReceiveAll(p, "STARTED", "loop")

\* An iteration without --mutexl: print() and nothing else.
PlainIteration(p) ==
  /\ pc[p] = "loop" /\ ~Sending(p)
  /\ ~mutexl
  /\ HasIteration(p)
  /\ i' = [i EXCEPT ![p] = @ + 1]
  /\ UNCHANGED <<pipes, outbox, pc, lamport_time, from, awaiting_children>>

\* Mutant of SendDone: nothing follows the last iteration.
SendDoneOnly(p) ==
  /\ pc[p] = "loop" /\ ~Sending(p)
  /\ ~HasIteration(p)
  /\ lamport_time' = [lamport_time EXCEPT ![p] = @ + 1]
  /\ send_multicast(p, [type |-> "DONE", time |-> lamport_time'[p]])
  /\ Goto(p, "sleep")
  /\ UNCHANGED <<pipes, from, i, awaiting_children>>

\* child_send_done(); the DONE event is logged once "sleep" is reached and the
\* multicast is over.
SendDone(p) ==
  /\ pc[p] = "loop" /\ ~Sending(p)
  /\ ~HasIteration(p)
  /\ lamport_time' = [lamport_time EXCEPT ![p] = @ + 1]
  /\ send_multicast(p, [type |-> "DONE", time |-> lamport_time'[p]])
  /\ Goto(p, IF mutexl /\ awaiting_children[p] > 0 THEN "drain" ELSE "sleep")
  /\ UNCHANGED <<pipes, from, i, awaiting_children>>

HasLoggedDone(p) == pc[p] \in {"sleep", "exited"} /\ ~Sending(p)

\* Mutant of Exit: no sleep(1).
ExitAtOnce(p) ==
  /\ pc[p] = "sleep" /\ ~Sending(p)
  /\ Goto(p, "exited")
  /\ UNCHANGED <<pipes, outbox, lamport_time, from, i, awaiting_children>>

\* sleep(1) is over and the child returns from main.
Exit(p) ==
  /\ pc[p] = "sleep" /\ ~Sending(p)
  /\ SleepCovers => \A q \in Children : HasLoggedDone(q)
  /\ Goto(p, "exited")
  /\ UNCHANGED <<pipes, outbox, lamport_time, from, i, awaiting_children>>

\* The sweep of ipc_receive_any() reaches an empty pipe that nobody can write to:
\* read() returns 0 and the loop of ipc_read() never ends.  A message may have come
\* meanwhile to a pipe that the sweep has passed.
SpinOnEof(p) ==
  /\ pc[p] \in {"request", "drain"} /\ ~Sending(p)
  /\ \E q \in Procs \ {p} : HungUp(q) /\ pipes[p][q] = <<>>
  /\ Goto(p, "spin")
  /\ UNCHANGED <<pipes, outbox, lamport_time, from, i, awaiting_children>>

-----------------------------------------------------------------------------
(* What the receive loops of mutex.c have in common *)

\* p, in the receive loop at label, takes a message of one of the types from f:
\* ipc_receive_any() polls the pipes one after the other, so it may find the
\* message of f although one has come to a pipe it has passed.
Take(p, f, label, types) ==
  /\ pc[p] = label /\ ~Sending(p)
  /\ receive(p, f)
  /\ Oldest(p, f).type \in types
  /\ UNCHANGED <<from, i>>

\* Mutant of CountDone: awaiting_children is not decremented.
ForgetDone(p, m, next) ==
  /\ Goto(p, IF m.type = "DONE" THEN next ELSE "failed")
  /\ UNCHANGED awaiting_children

\* The loop returned on a message m that is not about the critical section:
\* child_entry accepts only a DONE, counts it and goes on at next.
CountDone(p, m, next) ==
  IF m.type = "DONE"
    THEN /\ awaiting_children' = [awaiting_children EXCEPT ![p] = @ - 1]
         /\ Goto(p, next)
    ELSE /\ Goto(p, "failed")
         /\ UNCHANGED awaiting_children

\* The same for a message that ended handle_cs_requests().
DrainTakesOther(p, f, types) ==
  /\ Take(p, f, "drain", types)
  /\ lamport_time' = [lamport_time EXCEPT ![p] = Synchronized(@, Oldest(p, f).time)]
  /\ CountDone(p, Oldest(p, f), IF awaiting_children[p] > 1 THEN "drain" ELSE "sleep")
  /\ UNCHANGED outbox

-----------------------------------------------------------------------------
(* The parent: spawn_children, parent_entry and the wait() loop *)

\* The loop of fork() is over: ipc_set_up_parent().
ParentSetUp ==
  /\ pc[PARENT_ID] = "spawn"
  /\ Goto(PARENT_ID, "await_started")
  /\ UNCHANGED <<pipes, outbox, lamport_time, from, i, awaiting_children>>

ParentAwaitStarted ==
  pc[PARENT_ID] = "await_started" /\ ReceiveAll(PARENT_ID, "STARTED", "await_done")

ParentAwaitDone ==
  pc[PARENT_ID] = "await_done" /\ ReceiveAll(PARENT_ID, "DONE", "wait")

ParentExit ==
  /\ pc[PARENT_ID] = "wait"
  /\ \A c \in Children : Gone(c)
  /\ Goto(PARENT_ID, "exited")
  /\ UNCHANGED <<pipes, outbox, lamport_time, from, i, awaiting_children>>

-----------------------------------------------------------------------------
\* The steps of a child outside mutex.c.
ChildStep(p) ==
  \/ Write(p)
  \/ Start(p)
  \/ AwaitStarted(p)
  \/ PlainIteration(p)
  \/ SendDone(p)
  \/ Exit(p)
  \/ SpinOnEof(p)

ParentStep == ParentSetUp \/ ParentAwaitStarted \/ ParentAwaitDone \/ ParentExit

\* Every process has returned from main.
Terminated == \A p \in Procs : pc[p] = "exited"

-----------------------------------------------------------------------------
(* Properties that the three programs share *)

\* No two children are between request_cs() and release_cs() at a time.
MutualExclusion == \A p, q \in Children : InCS(p) /\ InCS(q) => p = q

\* However short the sleep is, no child is killed or fails, and one that is left
\* polling a closed pipe is left there after the last iteration of all of them.
ShortSleepHarmless ==
  \A p \in Procs :
    /\ pc[p] \notin {"failed", "killed"}
    /\ pc[p] = "spin" => \A q \in Children : i[q] > Iterations[q] /\ pc[q] # "loop"

\* The messages under way from one process to another carry increasing times,
\* the last one at most the sender's clock.
ClocksIncrease ==
  \A p, q \in Procs :
    \A k \in 1..Len(Link(p, q)) :
      /\ Link(p, q)[k].time <= lamport_time[p]
      /\ k > 1 => Link(p, q)[k - 1].time < Link(p, q)[k].time

\* Every process returns from main; in particular no assert() of mutex.c and no check of
\* a message's type fails, nobody writes to a process that is gone, and none is left
\* polling its pipe.
Termination == <>Terminated

\* Every child writes its DONE event: what child_entry does once it has sent DONE.
EveryChildLogsDone == <>(\A p \in Children : HasLoggedDone(p))

\* The parent receives STARTED and DONE of every child, dead or alive by then.
ParentGetsAllDone == <>(pc[PARENT_ID] \in {"wait", "exited"})

\* What child_entry is doing, as the specification Mutex sees it.
ClientStatus ==
  [p \in Children |->
     IF ~Live(p) THEN "dead"
     ELSE IF InCS(p) THEN "in"
     ELSE IF pc[p] \in {"ask", "request", "cs"} THEN "waiting"
     ELSE "out"]

Service == INSTANCE Mutex WITH Client <- Children, status <- ClientStatus

\* The calls of child_entry see a mutual-exclusion service.
ServiceSpec == Service!Spec
=============================================================================
