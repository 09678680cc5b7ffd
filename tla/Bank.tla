-------------------------------- MODULE Bank --------------------------------
(***************************************************************************)
(* The bank of pa2 and pa3, without its clock: main (pa2/pa23.c), the      *)
(* parent, which orders one transfer after the other and then collects the *)
(* balance histories, and the receive loops of the children.  The two      *)
(* programs differ in what the time of a receipt is and in what a child    *)
(* records of it; BankPhysical and BankLamport extend this module with     *)
(* their clock and their handlers.                                         *)
(*                                                                         *)
(* Reads do not block.  receive_blocking() repeats a read until there is a *)
(* message; receive_any() polls the pipes one after the other, from the    *)
(* parent's on, and every poll is a step of its own.                       *)
(***************************************************************************)
EXTENDS Ipc, Integers, FiniteSetsExt

CONSTANT StartBalances    \* start_balances of main

ASSUME BankAssumption == StartBalances \in [Children -> Int]

VARIABLES
  pc,          \* where each process is in its program
  from,        \* cursor of the receive_all loop
  polled,      \* the pipe receive_any() of a child reads next
  balance,     \* the account each child keeps
  history,     \* its BalanceHistory
  all_history, \* the AllHistory of the parent
  ordered      \* how many transfers bank_robbery() has begun

bankVars == <<pipes, outbox, pc, from, polled, balance, history, all_history, ordered>>

\* A process ends by returning from main ("exited"), by SIGPIPE ("killed"), by
\* log_panic() or a failed assert ("failed"), or stays in a read() loop ("spin").
Label == {"spawn", "start", "await_started", "loop", "robbery", "await_ack",
          "await_done", "send_history", "await_histories", "wait",
          "exited", "killed", "failed", "spin"}

\* A BalanceState: s_time is the index of the entry, an entry that was never written
\* is not in the domain of s_history.
BalanceState == [s_balance : Int, s_balance_pending_in : Int]

IsBalanceHistory(h) ==
  /\ h.s_history_len \in Nat
  /\ DOMAIN h.s_history \subseteq Nat
  /\ \A t \in DOMAIN h.s_history : h.s_history[t] \in BalanceState

State(b, pending) == [s_balance |-> b, s_balance_pending_in |-> pending]

\* The entries with the state assigned to those of the times T.
Assigned(entries, T, state) ==
  [t \in T \cup DOMAIN entries |-> IF t \in T THEN state ELSE entries[t]]

\* Entry t is written and one more counted.
record_history(h, t, state) ==
  [s_history |-> Assigned(h.s_history, {t}, state), s_history_len |-> h.s_history_len + 1]

\* Mutant of FillHistory: the loop includes the time of the receipt.
FillHistoryThrough(h, recv_t, state) ==
  [s_history |-> Assigned(h.s_history, h.s_history_len..recv_t, state),
   s_history_len |-> IF recv_t + 1 > h.s_history_len THEN recv_t + 1 ELSE h.s_history_len]

\* The entries missing before recv_t.
FillHistory(h, recv_t, state) ==
  [s_history |-> Assigned(h.s_history, h.s_history_len..(recv_t - 1), state),
   s_history_len |-> IF recv_t > h.s_history_len THEN recv_t ELSE h.s_history_len]

-----------------------------------------------------------------------------
(* bank_robbery *)

TransferOrder(src, dst, amount) == [src |-> src, dst |-> dst, amount |-> amount]

\* Each child gives to the next one, the last one to the first.
Orders ==
  IF N = 1 THEN <<>>
  ELSE [k \in 1..N |-> IF k < N THEN TransferOrder(k, k + 1, k) ELSE TransferOrder(N, 1, 1)]

-----------------------------------------------------------------------------
BankTypeOK ==
  /\ pc \in [Procs -> Label]
  /\ from \in [Procs -> 1..(N + 1)]
  /\ polled \in [Children -> Procs]
  /\ balance \in [Children -> Int]
  /\ \A c \in Children : IsBalanceHistory(history[c])
  /\ Len(all_history) <= N
  /\ \A k \in DOMAIN all_history : IsBalanceHistory(all_history[k])
  /\ ordered \in 0..Len(Orders)

BankInit ==
  /\ IpcInit
  /\ pc = [p \in Procs |-> IF p = PARENT_ID THEN "spawn" ELSE "start"]
  /\ from = [p \in Procs |-> NextFrom(p, PARENT_ID)]
  /\ polled = [c \in Children |-> PARENT_ID]
  /\ balance = StartBalances
  /\ history = [c \in Children |-> [s_history |-> [t \in {0} |-> State(StartBalances[c], 0)],
                                    s_history_len |-> 1]]
  /\ all_history = <<>>
  /\ ordered = 0

Goto(p, label) == pc' = [pc EXCEPT ![p] = label]

Gone(p) == pc[p] \in {"exited", "killed", "failed"}

\* No end of p's pipes is open any more: p is gone and the parent, which has a copy
\* of every end while it forks, has closed the ones it does not use.
HungUp(p) == Gone(p) /\ pc[PARENT_ID] # "spawn"

At(p, label) == pc[p] = label /\ ~Sending(p)

-----------------------------------------------------------------------------
\* One write() of a send loop; without a reader SIGPIPE ends the writer.
Write(p) ==
  \E d \in Procs :
    /\ NextDst(p, d)
    /\ IF HungUp(d)
         THEN /\ outbox' = [outbox EXCEPT ![p] = [e \in Procs |-> NoMessage]]
              /\ Goto(p, "killed")
              /\ UNCHANGED pipes
         ELSE /\ pipes' = [pipes EXCEPT ![d][p] = Append(@, outbox[p][d])]
              /\ outbox' = [outbox EXCEPT ![p][d] = NoMessage]
              /\ UNCHANGED pc
    /\ UNCHANGED <<from, polled, balance, history, all_history, ordered>>

\* A message that is about its type only, sent to all on the way to the next label.
Multicast(p, type, t, next) ==
  /\ send_multicast(p, [type |-> type, time |-> t])
  /\ Goto(p, next)

-----------------------------------------------------------------------------
(* ipc_ext_receive_all: one message of the type from every other child *)

\* parent_fill_history_callback() on the history received from f.
FillCallback(f, h) ==
  IF Len(all_history) = f - 1
    THEN all_history' = Append(all_history, h) /\ UNCHANGED pc
    ELSE Goto(PARENT_ID, "failed") /\ UNCHANGED all_history

ReceiveNext(p, type) ==
  /\ from[p] <= N
  /\ receive(p, from[p])
  /\ LET m == Oldest(p, from[p])
     IN  IF m.type # type
           THEN Goto(p, "failed") /\ UNCHANGED <<from, all_history>>
           ELSE /\ from' = [from EXCEPT ![p] = NextFrom(p, @)]
                /\ IF type = "BALANCE_HISTORY"
                     THEN FillCallback(from[p], m.history)
                     ELSE UNCHANGED <<pc, all_history>>
  /\ UNCHANGED <<outbox, polled, balance, history, ordered>>

\* Mutant of ReceiveEnd: the next loop goes on where this one ended.
ReceiveEndKeepingCursor(p) ==
  /\ from[p] > N
  /\ UNCHANGED <<pipes, from, polled, balance, history, all_history, ordered>>

\* The loop of p is over; the next one starts after the parent again.
ReceiveEnd(p) ==
  /\ from[p] > N
  /\ from' = [from EXCEPT ![p] = NextFrom(p, PARENT_ID)]
  /\ UNCHANGED <<pipes, polled, balance, history, all_history, ordered>>

\* read() of an empty pipe that nobody can write to returns 0 and ipc_read() never
\* leaves its loop.
SpinOnEof(p) ==
  /\ from[p] <= N
  /\ pipes[p][from[p]] = <<>> /\ HungUp(from[p])
  /\ Goto(p, "spin")
  /\ UNCHANGED <<pipes, outbox, from, polled, balance, history, all_history, ordered>>

-----------------------------------------------------------------------------
(* receive_any in the loop of child_entry *)

NextPolled(c, f) ==
  LET g == IF f + 1 = c THEN f + 2 ELSE f + 1
  IN  IF g > N THEN PARENT_ID ELSE g

\* The pipe polled is empty.  After the last one the loop of child_entry starts the
\* next sweep.  (At the end of file the child would never come back.)
PollEmpty(c) ==
  /\ pipes[c][polled[c]] = <<>> /\ ~HungUp(polled[c])
  /\ polled' = [polled EXCEPT ![c] = NextPolled(c, @)]
  /\ UNCHANGED <<pipes, outbox, pc, from, balance, history, all_history, ordered>>

\* It holds a message m: the sweep is over, the handler runs and the next sweep
\* begins with the parent's pipe.
Polled(c) == Oldest(c, polled[c])

PollMessage(c) ==
  /\ receive(c, polled[c])
  /\ polled' = [polled EXCEPT ![c] = PARENT_ID]
  /\ UNCHANGED <<from, all_history, ordered>>

\* The first branch that transfer orders take in the handler, and the second one.
IsSource(c, m) == m.type = "TRANSFER" /\ m.order.src = c
IsDestination(c, m) == m.type = "TRANSFER" /\ m.order.src # c /\ m.order.dst = c

\* Neither STOP nor an order about c: only the clock and the history take notice.
IsIgnored(c, m) == m.type # "STOP" /\ ~IsSource(c, m) /\ ~IsDestination(c, m)

\* The history is sent and the child returns from main.
ChildExit(c) ==
  /\ At(c, "send_history")
  /\ Goto(c, "exited")
  /\ UNCHANGED <<pipes, outbox, from, polled, balance, history, all_history, ordered>>

-----------------------------------------------------------------------------
(* The parent *)

\* start(): the loop of fork() is over, ipc_set_up_parent().
ParentSetUp ==
  /\ pc[PARENT_ID] = "spawn"
  /\ Goto(PARENT_ID, "await_started")
  /\ UNCHANGED <<pipes, outbox, from, polled, balance, history, all_history, ordered>>

\* Mutant of ParentOrders: the ACK is not waited for.
ParentOrdersOnly(t) ==
  /\ At(PARENT_ID, "robbery")
  /\ ordered < Len(Orders)
  /\ ordered' = ordered + 1
  /\ send(PARENT_ID, Orders[ordered'].src,
          [type |-> "TRANSFER", time |-> t, order |-> Orders[ordered']])
  /\ UNCHANGED <<pipes, pc, from, polled, balance, history, all_history>>

\* transfer() called by bank_robbery(), up to the wait for the ACK.
ParentOrders(t) ==
  /\ At(PARENT_ID, "robbery")
  /\ ordered < Len(Orders)
  /\ ordered' = ordered + 1
  /\ send(PARENT_ID, Orders[ordered'].src,
          [type |-> "TRANSFER", time |-> t, order |-> Orders[ordered']])
  /\ Goto(PARENT_ID, "await_ack")
  /\ UNCHANGED <<pipes, from, polled, balance, history, all_history>>

\* receive_blocking() in transfer() and the assert after it.
ParentAwaitsAck ==
  /\ At(PARENT_ID, "await_ack")
  /\ LET dst == Orders[ordered].dst
     IN  /\ receive(PARENT_ID, dst)
         /\ Goto(PARENT_ID, IF Oldest(PARENT_ID, dst).type = "ACK" THEN "robbery" ELSE "failed")
  /\ UNCHANGED <<outbox, from, polled, balance, history, all_history, ordered>>

\* bank_robbery() has returned.
ParentStops(t) ==
  /\ At(PARENT_ID, "robbery")
  /\ ordered = Len(Orders)
  /\ Multicast(PARENT_ID, "STOP", t, "await_done")
  /\ UNCHANGED <<pipes, from, polled, balance, history, all_history, ordered>>

\* The receive_all loop at the label is over.
ParentGoesOn(label, next) ==
  /\ At(PARENT_ID, label)
  /\ ReceiveEnd(PARENT_ID)
  /\ Goto(PARENT_ID, next)
  /\ UNCHANGED outbox

\* print_history() is over and every child has been waited for.
ParentExit ==
  /\ pc[PARENT_ID] = "wait"
  /\ \A c \in Children : Gone(c)
  /\ Goto(PARENT_ID, "exited")
  /\ UNCHANGED <<pipes, outbox, from, polled, balance, history, all_history, ordered>>

Terminated == \A p \in Procs : pc[p] = "exited"

-----------------------------------------------------------------------------
(* Properties that the two programs share *)

\* No assert() and no check of a message's type ever fails, and nobody writes to a
\* process that is gone.
NoFailure == \A p \in Procs : pc[p] \notin {"failed", "killed"}

\* The DONE of q has been sent to c and is no longer in the pipe, but c has not
\* counted it: c took it in its loop before STOP.
DoneLost(c, q) ==
  /\ pc[q] \in {"await_done", "send_history", "exited", "spin"}
  /\ ~Carries(q, c, "DONE")
  /\ pc[c] = "loop" \/ (pc[c] \in {"await_done", "spin"} /\ from[c] <= q)

\* Every process returns from main, and so the parent has every history and prints them.
Termination == <>Terminated

\* The parent gets every DONE; every process returns from main, unless a child
\* drops the DONE of another one.
TerminationUnlessDoneLost ==
  /\ <>(pc[PARENT_ID] \in {"await_histories", "wait", "exited"})
  /\ <>(Terminated \/ \E c, q \in Children : c # q /\ DoneLost(c, q))

\* The money that the histories printed by the parent show at time t.
ShownAt(t) ==
  MapThenSumSet(LAMBDA k : all_history[k].s_history[t].s_balance
                             + all_history[k].s_history[t].s_balance_pending_in,
                Children)

Total == MapThenSumSet(LAMBDA c : StartBalances[c], Children)

OrderUnderWay(Senders) ==
  \E p \in Senders : \E q \in Procs : Carries(p, q, "TRANSFER")

AsLedger ==
  INSTANCE Ledger WITH
    Opening <- StartBalances,
    account <- balance,
    debited <- IF OrderUnderWay({PARENT_ID}) THEN ordered - 1 ELSE ordered,
    credited <- IF OrderUnderWay(Procs) THEN ordered - 1 ELSE ordered

\* The transfers are carried out one at a time, in order, each exactly once.
LedgerSpec == AsLedger!Spec
=============================================================================
