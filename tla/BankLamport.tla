---------------------------- MODULE BankLamport ----------------------------
(***************************************************************************)
(* pa3: the bank with Lamport's clock.  A history also shows the money     *)
(* that has left its child and has not arrived yet.                        *)
(***************************************************************************)
EXTENDS Bank

VARIABLE lamport_time    \* the clock of time.c, one per process

vars == <<bankVars, lamport_time>>

TypeOK == BankTypeOK /\ lamport_time \in [Procs -> Nat]

Init == BankInit /\ lamport_time = [p \in Procs |-> 0]

\* Mutant of Synchronized: the receipt counts twice.
SynchronizedTwice(now, t) == (IF t > now THEN t ELSE now) + 2

\* synchronize_time(t) on a clock that shows now.
Synchronized(now, t) == (IF t > now THEN t ELSE now) + 1

SetTime(p, t) == lamport_time' = [lamport_time EXCEPT ![p] = t]

AdvancedTime(p) == lamport_time[p] + 1

-----------------------------------------------------------------------------
(* child_entry *)

SyncStarted(c) ==
  /\ At(c, "start")
  /\ SetTime(c, AdvancedTime(c))
  /\ Multicast(c, "STARTED", AdvancedTime(c), "await_started")
  /\ UNCHANGED <<pipes, from, polled, balance, history, all_history, ordered>>

\* One round of ipc_ext_receive_all(); after a wrong type there is no clock to speak of.
ReceiveNextTimed(p, type) ==
  /\ ReceiveNext(p, type)
  /\ SetTime(p, Synchronized(lamport_time[p], Oldest(p, from[p]).time))

AwaitStarted(c) ==
  /\ At(c, "await_started")
  /\ \/ ReceiveNextTimed(c, "STARTED")
     \/ ReceiveEnd(c) /\ Goto(c, "loop") /\ UNCHANGED <<outbox, lamport_time>>

\* The time of the receipt of the message polled.
ReceiptTime(c) == Synchronized(lamport_time[c], Polled(c).time)

\* The history of c when it has come, up to that time.
Filled(c) == FillHistory(history[c], ReceiptTime(c), State(balance[c], 0))

\* The clock advances again before the DONE that follows.
TakeStop(c) ==
  /\ PollMessage(c)
  /\ Polled(c).type = "STOP"
  /\ history' = [history EXCEPT ![c] = Filled(c)]
  /\ SetTime(c, ReceiptTime(c) + 1)
  /\ Multicast(c, "DONE", ReceiptTime(c) + 1, "await_done")
  /\ UNCHANGED balance

\* Mutant of TransferOut: the money is not shown on its way at the time it is sent.
TransferOutPendingOnce(c) ==
  LET left == balance[c] - Polled(c).order.amount
      pending == State(left, Polled(c).order.amount)
      t == ReceiptTime(c)
  IN  /\ PollMessage(c)
      /\ IsSource(c, Polled(c))
      /\ SetTime(c, t + 1)
      /\ balance' = [balance EXCEPT ![c] = left]
      /\ history' = [history EXCEPT ![c] = record_history(Filled(c), t, pending)]
      /\ send(c, Polled(c).order.dst, [Polled(c) EXCEPT !.time = t + 1])
      /\ UNCHANGED pc

\* The money leaves at the time of the receipt and is under way until it is sent, one
\* later: the receiver, whose clock is behind, has it at the time after that.
TransferOut(c) ==
  LET left == balance[c] - Polled(c).order.amount
      pending == State(left, Polled(c).order.amount)
      t == ReceiptTime(c)
  IN  /\ PollMessage(c)
      /\ IsSource(c, Polled(c))
      /\ SetTime(c, t + 1)
      /\ balance' = [balance EXCEPT ![c] = left]
      /\ history' = [history EXCEPT ![c] =
                       record_history(record_history(Filled(c), t, pending), t + 1, pending)]
      /\ send(c, Polled(c).order.dst, [Polled(c) EXCEPT !.time = t + 1])
      /\ UNCHANGED pc

TransferIn(c) ==
  /\ PollMessage(c)
  /\ IsDestination(c, Polled(c))
  /\ SetTime(c, ReceiptTime(c) + 1)
  /\ balance' = [balance EXCEPT ![c] = @ + Polled(c).order.amount]
  /\ history' = [history EXCEPT ![c] = Filled(c)]
  /\ send(c, PARENT_ID, [type |-> "ACK", time |-> ReceiptTime(c) + 1])
  /\ UNCHANGED pc

\* A message that is of no interest is dropped, a DONE that comes before STOP too.  Only
\* an order, were there one about others, would count as an event of its own.
Ignore(c) ==
  /\ PollMessage(c)
  /\ IsIgnored(c, Polled(c))
  /\ SetTime(c, IF Polled(c).type = "TRANSFER" THEN ReceiptTime(c) + 1 ELSE ReceiptTime(c))
  /\ history' = [history EXCEPT ![c] = Filled(c)]
  /\ UNCHANGED <<outbox, pc, balance>>

ReceiveAny(c) ==
  /\ At(c, "loop")
  /\ \/ TakeStop(c)
     \/ TransferOut(c)
     \/ TransferIn(c)
     \/ Ignore(c)
     \/ PollEmpty(c) /\ UNCHANGED lamport_time

\* After child_sync_done() the buffer still holds the last DONE received, or the own
\* one if there was no other; its time is taken once more.  It is never ahead of the
\* clock any more.
SendHistory(c) ==
  LET t == AdvancedTime(c)
      h == FillHistory(history[c], t, State(balance[c], 0))
  IN  /\ ReceiveEnd(c)
      /\ SetTime(c, t + 1)
      /\ send(c, PARENT_ID, [type |-> "BALANCE_HISTORY", time |-> t + 1, history |-> h])
      /\ Goto(c, "send_history")

AwaitDone(c) ==
  /\ At(c, "await_done")
  /\ \/ ReceiveNextTimed(c, "DONE")
     \/ SendHistory(c)
     \/ SpinOnEof(c) /\ UNCHANGED lamport_time

ChildNext(c) ==
  \/ SyncStarted(c)
  \/ AwaitStarted(c)
  \/ ReceiveAny(c)
  \/ AwaitDone(c)
  \/ (Write(c) \/ ChildExit(c)) /\ UNCHANGED lamport_time

-----------------------------------------------------------------------------
(* parent_entry *)

ParentReceivesAll ==
  \/ At(PARENT_ID, "await_started") /\ ReceiveNextTimed(PARENT_ID, "STARTED")
  \/ At(PARENT_ID, "await_done") /\ ReceiveNextTimed(PARENT_ID, "DONE")
  \/ At(PARENT_ID, "await_histories") /\ ReceiveNextTimed(PARENT_ID, "BALANCE_HISTORY")
  \/ /\ \/ ParentGoesOn("await_started", "robbery")
        \/ ParentGoesOn("await_done", "await_histories")
        \/ ParentGoesOn("await_histories", "wait")
     /\ UNCHANGED lamport_time

\* transfer() and bank_robbery(), and STOP after it.
ParentRobs ==
  \/ ParentOrders(AdvancedTime(PARENT_ID)) /\ SetTime(PARENT_ID, AdvancedTime(PARENT_ID))
  \/ /\ ParentAwaitsAck
     /\ SetTime(PARENT_ID, Synchronized(lamport_time[PARENT_ID],
                                        Oldest(PARENT_ID, Orders[ordered].dst).time))
  \/ ParentStops(AdvancedTime(PARENT_ID)) /\ SetTime(PARENT_ID, AdvancedTime(PARENT_ID))

ParentNext ==
  \/ ParentReceivesAll
  \/ ParentRobs
  \/ (Write(PARENT_ID) \/ ParentSetUp \/ ParentExit) /\ UNCHANGED lamport_time

Next ==
  \/ \E c \in Children : ChildNext(c)
  \/ ParentNext
  \/ Terminated /\ UNCHANGED vars

\* The scheduler runs every process that has something to do.
Fairness == WF_vars(ParentNext) /\ \A c \in Children : WF_vars(ChildNext(c))

Spec == Init /\ [][Next]_vars
FairSpec == Spec /\ Fairness

-----------------------------------------------------------------------------
(* Properties *)

\* The histories that the parent prints end at the same time, show all the money, in an
\* account or under way, at every time until then, and the balances of now at the end.
Conservation ==
  Len(all_history) = N =>
    LET end == all_history[1].s_history_len - 1
    IN  /\ \A t \in 0..end : ShownAt(t) = Total
        /\ \A c \in Children :
             /\ all_history[c].s_history_len = end + 1
             /\ all_history[c].s_history[end] = State(balance[c], 0)

\* How far the clocks go.  STARTED, the transfers and STOP take them to about 7N; a
\* child that drops the DONE of another one is ahead of the parent, so that its own
\* DONE takes the next child further still, and so on around.  15 children, the most
\* the program admits, stay at 246: s_history_len counts to 255.
ClockBound == \A p \in Procs : lamport_time[p] <= 8 * N + 6 + (N * (N + 1)) \div 2
=============================================================================
