---------------------------- MODULE BankPhysical ----------------------------
(***************************************************************************)
(* pa2: the bank with the physical clock of libruntime, a counter shared   *)
(* by all processes.  The library advances it when the parent writes an    *)
(* order; nothing else does.                                               *)
(***************************************************************************)
EXTENDS Bank

VARIABLE physical_time

vars == <<bankVars, physical_time>>

TypeOK == BankTypeOK /\ physical_time \in Nat

Init == BankInit /\ physical_time = 0

\* libruntime's write(): the counter advances before an order of the parent is
\* written.
WriteAndTick(p) ==
  /\ Write(p)
  /\ physical_time' = IF p = PARENT_ID /\ \E d \in Procs : outbox[p][d].type = "TRANSFER"
                        THEN physical_time + 1 ELSE physical_time

-----------------------------------------------------------------------------
(* child_entry; no message carries a time that anybody reads *)

SyncStarted(c) ==
  /\ At(c, "start")
  /\ Multicast(c, "STARTED", 0, "await_started")
  /\ UNCHANGED <<pipes, from, polled, balance, history, all_history, ordered>>

AwaitStarted(c) ==
  /\ At(c, "await_started")
  /\ \/ ReceiveNext(c, "STARTED")
     \/ ReceiveEnd(c) /\ Goto(c, "loop") /\ UNCHANGED outbox

\* The history of c when a message has come, up to the time of the receipt.
Filled(c) == FillHistory(history[c], physical_time, State(balance[c], 0))

TakeStop(c) ==
  /\ PollMessage(c)
  /\ Polled(c).type = "STOP"
  /\ history' = [history EXCEPT ![c] =
                   record_history(Filled(c), physical_time, State(balance[c], 0))]
  /\ Multicast(c, "DONE", 0, "await_done")
  /\ UNCHANGED balance

TransferOut(c) ==
  /\ PollMessage(c)
  /\ IsSource(c, Polled(c))
  /\ history' = [history EXCEPT ![c] = Filled(c)]
  /\ balance' = [balance EXCEPT ![c] = @ - Polled(c).order.amount]
  /\ send(c, Polled(c).order.dst, Polled(c))
  /\ UNCHANGED pc

TransferIn(c) ==
  /\ PollMessage(c)
  /\ IsDestination(c, Polled(c))
  /\ history' = [history EXCEPT ![c] = Filled(c)]
  /\ balance' = [balance EXCEPT ![c] = @ + Polled(c).order.amount]
  /\ send(c, PARENT_ID, [type |-> "ACK", time |-> 0])
  /\ UNCHANGED pc

\* A message that is of no interest is dropped, a DONE that comes before STOP too.
Ignore(c) ==
  /\ PollMessage(c)
  /\ IsIgnored(c, Polled(c))
  /\ history' = [history EXCEPT ![c] = Filled(c)]
  /\ UNCHANGED <<outbox, pc, balance>>

ReceiveAny(c) ==
  /\ At(c, "loop")
  /\ \/ TakeStop(c)
     \/ TransferOut(c)
     \/ TransferIn(c)
     \/ Ignore(c)
     \/ PollEmpty(c)

AwaitDone(c) ==
  /\ At(c, "await_done")
  /\ \/ ReceiveNext(c, "DONE")
     \/ /\ ReceiveEnd(c)
        /\ send(c, PARENT_ID, [type |-> "BALANCE_HISTORY", time |-> 0, history |-> history[c]])
        /\ Goto(c, "send_history")
     \/ SpinOnEof(c)

ChildNext(c) ==
  \/ WriteAndTick(c)
  \/ /\ SyncStarted(c) \/ AwaitStarted(c) \/ ReceiveAny(c) \/ AwaitDone(c) \/ ChildExit(c)
     /\ UNCHANGED physical_time

-----------------------------------------------------------------------------
(* parent_entry *)

ParentReceivesAll ==
  /\ \/ At(PARENT_ID, "await_started") /\ ReceiveNext(PARENT_ID, "STARTED")
     \/ At(PARENT_ID, "await_done") /\ ReceiveNext(PARENT_ID, "DONE")
     \/ At(PARENT_ID, "await_histories") /\ ReceiveNext(PARENT_ID, "BALANCE_HISTORY")
     \/ ParentGoesOn("await_started", "robbery")
     \/ ParentGoesOn("await_done", "await_histories")
     \/ ParentGoesOn("await_histories", "wait")

ParentNext ==
  \/ WriteAndTick(PARENT_ID)
  \/ /\ \/ ParentSetUp
        \/ ParentOrders(0)
        \/ ParentAwaitsAck
        \/ ParentStops(0)
        \/ ParentReceivesAll
        \/ ParentExit
     /\ UNCHANGED physical_time

Next ==
  \/ \E c \in Children : ChildNext(c)
  \/ ParentNext
  \/ Terminated /\ UNCHANGED vars

\* The scheduler runs every process that has something to do.
Fairness == WF_vars(ParentNext) /\ \A c \in Children : WF_vars(ChildNext(c))

Spec == Init /\ [][Next]_vars
FairSpec == Spec /\ Fairness

-----------------------------------------------------------------------------
(* Properties *)

\* The histories that the parent prints show all the money at every time up to the
\* last transfer, and the balances of now at that time.
Conservation ==
  Len(all_history) = N =>
    /\ \A t \in 0..Len(Orders) : ShownAt(t) = Total
    /\ \A c \in Children :
         /\ all_history[c].s_history_len = Len(Orders) + 1
         /\ all_history[c].s_history[Len(Orders)] = State(balance[c], 0)
=============================================================================
