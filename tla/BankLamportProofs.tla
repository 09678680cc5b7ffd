-------------------------- MODULE BankLamportProofs --------------------------
(***************************************************************************)
(* Proofs about pa3: every action of BankLamport is a step of the protocol *)
(* that BankProofs treats, and the theorems that follow.                   *)
(***************************************************************************)
EXTENDS BankLamport, BankProofs

-----------------------------------------------------------------------------
(* pa3: every action of BankLamport is a step of the protocol *)

ClockTypes == lamport_time \in [Procs -> Nat]

\* Setting a clock to a time.
LEMMA SetTimeType ==
  ASSUME ClockTypes, NEW p \in Procs, NEW t \in Nat, SetTime(p, t)
  PROVE  ClockTypes'
BY DEF ClockTypes, SetTime

\* Every process says STARTED at the time of its first event.
LEMMA LamportSyncStarted ==
  ASSUME NEW w \in Where, ProtocolInv(w), ClockTypes, NEW c \in Children, SyncStarted(c)
  PROVE  BankStep(w) /\ ClockTypes'
<1> DEFINE t == AdvancedTime(c)  m == [type |-> "STARTED", time |-> t]
<1>1. t \in Nat /\ c \in Procs
  BY ProcsFacts DEF ClockTypes, AdvancedTime
<1>2. /\ At(c, "start") /\ SetTime(c, t) /\ send_multicast(c, m) /\ Goto(c, "await_started")
      /\ UNCHANGED <<pipes, from, polled, balance, history, all_history, ordered>>
  BY DEF SyncStarted, Multicast
<1>3. m \in BankMessage /\ m.type = "STARTED"
  BY <1>1, PlainMessage
<1> HIDE DEF t, m
<1>4. ProtocolInv(w)'
  BY <1>2, <1>3, SaysStarted
<1> QED
  BY <1>1, <1>2, <1>4, SetTimeType, StaysThere

\* The time of the message that p reads.
LEMMA SynchronizedType ==
  ASSUME NEW w \in Where, ProtocolInv(w), ClockTypes, NEW p \in Procs, NEW f \in Procs,
         receive(p, f)
  PROVE  Synchronized(lamport_time[p], Oldest(p, f).time) \in Nat
<1>1. Oldest(p, f) \in BankMessage
  BY LinkFirst DEF ProtocolInv, StateTypes
<1>2. Oldest(p, f).time \in Nat /\ lamport_time[p] \in Nat
  BY <1>1, MessageFacts DEF ClockTypes
<1> QED
  BY <1>2 DEF Synchronized

\* A message of the receive_all loop advances the clock.
LEMMA TimedReceipt ==
  ASSUME NEW w \in Where, ProtocolInv(w), ClockTypes, NEW p \in Procs, NEW type,
         ReceiveNextTimed(p, type)
  PROVE  ClockTypes'
<1>1. from[p] \in Procs /\ receive(p, from[p])
  BY NAssumption DEF ReceiveNextTimed, ReceiveNext, ProtocolInv, StateTypes, Procs, PARENT_ID
<1>2. Synchronized(lamport_time[p], Oldest(p, from[p]).time) \in Nat
  BY <1>1, SynchronizedType
<1> QED
  BY <1>2, SetTimeType DEF ReceiveNextTimed

\* A child hears STARTED of the others.
LEMMA LamportAwaitStarted ==
  ASSUME NEW w \in Where, ProtocolInv(w), ClockTypes, NEW c \in Children, AwaitStarted(c)
  PROVE  BankStep(w) /\ ClockTypes'
<1> c \in Procs
  BY ProcsFacts
<1>1. At(c, "await_started") /\ pc[c] = "await_started"
  BY DEF AwaitStarted, At
<1>2. CASE ReceiveNextTimed(c, "STARTED")
  <2>1. ProtocolInv(w)' /\ UNCHANGED <<balance, ordered>>
    BY <1>1, <1>2, ChildHears DEF ReceiveNextTimed
  <2> QED
    BY <1>2, <2>1, StaysThere, TimedReceipt
<1>3. CASE ReceiveEnd(c) /\ Goto(c, "loop") /\ UNCHANGED <<outbox, lamport_time>>
  <2>1. ProtocolInv(w)'
    BY <1>1, <1>3, ChildBegins
  <2>2. UNCHANGED <<balance, ordered>> /\ ClockTypes'
    BY <1>3 DEF ReceiveEnd, ClockTypes
  <2> QED
    BY <2>1, <2>2, StaysThere
<1> QED
  BY <1>2, <1>3 DEF AwaitStarted

\* What the handlers of the loop of child_entry have in common: the time of the receipt
\* and the history filled up to it.
LEMMA Receipt ==
  ASSUME NEW w \in Where, ProtocolInv(w), ClockTypes, NEW c \in Children, PollMessage(c)
  PROVE  ReceiptTime(c) \in Nat /\ Filled(c) \in History
<1>1. Polled(c).time \in Nat /\ lamport_time[c] \in Nat
  BY ProcsFacts, PolledMessage DEF ClockTypes
<1>2. ReceiptTime(c) \in Nat
  BY <1>1 DEF ReceiptTime, Synchronized
<1>3. history[c] \in History /\ State(balance[c], 0) \in BalanceState
  BY DEF ProtocolInv, StateTypes, State, BalanceState
<1> QED
  BY <1>2, <1>3, FillType DEF Filled

\* A child takes STOP and says DONE.
LEMMA LamportTakeStop ==
  ASSUME NEW w \in Where, ProtocolInv(w), ClockTypes, NEW c \in Children, At(c, "loop"),
         TakeStop(c)
  PROVE  BankStep(w) /\ ClockTypes'
<1> DEFINE t == ReceiptTime(c) + 1  m == [type |-> "DONE", time |-> t]
<1>1. PollMessage(c) /\ Polled(c).type = "STOP" /\ SetTime(c, t) /\ send_multicast(c, m)
      /\ Goto(c, "await_done") /\ balance' = balance
      /\ history' = [history EXCEPT ![c] = Filled(c)]
  BY DEF TakeStop, Multicast
<1>2. ReceiptTime(c) \in Nat /\ Filled(c) \in History /\ c \in Procs
  BY <1>1, Receipt, ProcsFacts
<1>3. t \in Nat
  BY <1>2
<1> HIDE DEF t
<1>4. m \in BankMessage /\ m.type = "DONE"
  BY <1>3, PlainMessage
<1>5. balance' \in [Children -> Int] /\ history' \in [Children -> History]
  BY <1>1, <1>2 DEF ProtocolInv, StateTypes
<1>6. ordered' = ordered
  BY <1>1 DEF PollMessage
<1> HIDE DEF m
<1>7. ProtocolInv(w)'
  BY <1>1, <1>4, <1>5, TakesStop
<1> QED
  BY <1>1, <1>2, <1>3, <1>6, <1>7, SetTimeType, StaysThere

\* The source takes the order and passes it on.
LEMMA LamportTransferOut ==
  ASSUME NEW w \in Where, ProtocolInv(w), ClockTypes, NEW c \in Children, At(c, "loop"),
         TransferOut(c)
  PROVE  BankStep(w) /\ ClockTypes'
<1> DEFINE left == balance[c] - Polled(c).order.amount
           pending == State(left, Polled(c).order.amount)
           t == ReceiptTime(c)
           m == [Polled(c) EXCEPT !.time = t + 1]
           h == record_history(record_history(Filled(c), t, pending), t + 1, pending)
<1>1. /\ PollMessage(c) /\ IsSource(c, Polled(c)) /\ SetTime(c, t + 1)
      /\ send(c, Polled(c).order.dst, m) /\ pc' = pc
      /\ balance' = [balance EXCEPT ![c] = left]
      /\ history' = [history EXCEPT ![c] = h]
  BY DEF TransferOut
<1>2. t \in Nat /\ Filled(c) \in History /\ c \in Procs
  BY <1>1, Receipt, ProcsFacts
<1>3. Polled(c) \in BankMessage /\ Polled(c).type = "TRANSFER" /\ Polled(c).order.amount \in Int
  BY <1>1, PolledMessage DEF IsSource
<1>4. m \in BankMessage /\ m.type = "TRANSFER" /\ m.order = Polled(c).order /\ t + 1 \in Nat
  BY <1>2, <1>3, ForwardedMessage
<1>5. left \in Int /\ balance \in [Children -> Int] /\ history \in [Children -> History]
  BY <1>3 DEF ProtocolInv, StateTypes
<1>6. pending \in BalanceState
  BY <1>3, <1>5 DEF State, BalanceState
<1> HIDE DEF t, m, pending
<1>7. h \in History
  <2>1. record_history(Filled(c), t, pending) \in History
    BY <1>2, <1>6, RecordType
  <2> QED
    BY <1>4, <1>6, <2>1, RecordType
<1> HIDE DEF h, left
<1>8. balance' \in [Children -> Int] /\ history' \in [Children -> History]
  BY <1>1, <1>5, <1>7
<1>9. w = "out" /\ c = Src /\ Polled(c).order = Orders[ordered] /\ ProtocolInv("over")'
  BY <1>1, <1>4, <1>8, TakesOrder
<1>10. ordered' = ordered
  BY <1>1 DEF PollMessage
<1>11. Debits
  BY <1>1, <1>9 DEF Debits, Src, left
<1>12. BankStep(w)
  BY <1>9, <1>10, <1>11 DEF BankStep, Transacts, Where
<1> QED
  BY <1>1, <1>2, <1>4, <1>12, SetTimeType

\* The destination takes the money and sends its ACK.
LEMMA LamportTransferIn ==
  ASSUME NEW w \in Where, ProtocolInv(w), ClockTypes, NEW c \in Children, At(c, "loop"),
         TransferIn(c)
  PROVE  BankStep(w) /\ ClockTypes'
<1> DEFINE t == ReceiptTime(c) + 1  m == [type |-> "ACK", time |-> t]
<1>1. /\ PollMessage(c) /\ IsDestination(c, Polled(c)) /\ SetTime(c, t)
      /\ send(c, PARENT_ID, m) /\ pc' = pc
      /\ balance' = [balance EXCEPT ![c] = @ + Polled(c).order.amount]
      /\ history' = [history EXCEPT ![c] = Filled(c)]
  BY DEF TransferIn
<1>2. ReceiptTime(c) \in Nat /\ Filled(c) \in History /\ c \in Procs
  BY <1>1, Receipt, ProcsFacts
<1>3. Polled(c).order.amount \in Int
  BY <1>1, PolledMessage DEF IsDestination
<1>4. t \in Nat
  BY <1>2
<1> HIDE DEF t
<1>5. m \in BankMessage /\ m.type = "ACK"
  BY <1>4, PlainMessage
<1>6. balance' \in [Children -> Int] /\ history' \in [Children -> History]
  BY <1>1, <1>2, <1>3 DEF ProtocolInv, StateTypes
<1> HIDE DEF m
<1>7. w = "over" /\ c = Dst /\ Polled(c).order = Orders[ordered] /\ ProtocolInv("back")'
  BY <1>1, <1>5, <1>6, TakesMoney
<1>8. ordered' = ordered
  BY <1>1 DEF PollMessage
<1>9. Credits
  BY <1>1, <1>7 DEF Credits, Dst
<1>10. BankStep(w)
  BY <1>7, <1>8, <1>9 DEF BankStep, Transacts, Where
<1> QED
  BY <1>1, <1>2, <1>10, <1>4, SetTimeType

\* A child drops a DONE that comes before STOP.
LEMMA LamportIgnore ==
  ASSUME NEW w \in Where, ProtocolInv(w), ClockTypes, NEW c \in Children, At(c, "loop"),
         Ignore(c)
  PROVE  BankStep(w) /\ ClockTypes'
<1> DEFINE t == IF Polled(c).type = "TRANSFER" THEN ReceiptTime(c) + 1 ELSE ReceiptTime(c)
<1>1. /\ PollMessage(c) /\ IsIgnored(c, Polled(c)) /\ SetTime(c, t)
      /\ UNCHANGED <<outbox, pc, balance>> /\ history' = [history EXCEPT ![c] = Filled(c)]
  BY DEF Ignore
<1>2. t \in Nat /\ Filled(c) \in History /\ c \in Procs
  BY <1>1, Receipt, ProcsFacts
<1>3. balance' \in [Children -> Int] /\ history' \in [Children -> History]
  BY <1>1, <1>2 DEF ProtocolInv, StateTypes
<1> HIDE DEF t
<1>4. ProtocolInv(w)'
  BY <1>1, <1>3, DropsDone
<1>5. UNCHANGED <<balance, ordered>>
  BY <1>1 DEF PollMessage
<1> QED
  BY <1>1, <1>2, <1>4, <1>5, SetTimeType, StaysThere

\* One poll of the loop of child_entry.
LEMMA LamportReceiveAny ==
  ASSUME NEW w \in Where, ProtocolInv(w), ClockTypes, NEW c \in Children, ReceiveAny(c)
  PROVE  BankStep(w) /\ ClockTypes'
<1>1. At(c, "loop")
  BY DEF ReceiveAny
<1>2. CASE TakeStop(c)
  BY <1>1, <1>2, LamportTakeStop
<1>3. CASE TransferOut(c)
  BY <1>1, <1>3, LamportTransferOut
<1>4. CASE TransferIn(c)
  BY <1>1, <1>4, LamportTransferIn
<1>5. CASE Ignore(c)
  BY <1>1, <1>5, LamportIgnore
<1>6. CASE PollEmpty(c) /\ UNCHANGED lamport_time
  <2>1. ProtocolInv(w)'
    BY <1>6, PollsNothing
  <2>2. UNCHANGED <<balance, ordered>> /\ ClockTypes'
    BY <1>6 DEF PollEmpty, ClockTypes
  <2> QED
    BY <2>1, <2>2, StaysThere
<1> QED
  BY <1>2, <1>3, <1>4, <1>5, <1>6 DEF ReceiveAny

\* A child hears the DONE of the others and then sends its history.
LEMMA LamportAwaitDone ==
  ASSUME NEW w \in Where, ProtocolInv(w), ClockTypes, NEW c \in Children, AwaitDone(c)
  PROVE  BankStep(w) /\ ClockTypes'
<1> c \in Procs
  BY ProcsFacts
<1>1. At(c, "await_done") /\ pc[c] = "await_done"
  BY DEF AwaitDone, At
<1>2. CASE ReceiveNextTimed(c, "DONE")
  <2>1. ProtocolInv(w)' /\ UNCHANGED <<balance, ordered>>
    BY <1>1, <1>2, ChildHears DEF ReceiveNextTimed
  <2> QED
    BY <1>2, <2>1, StaysThere, TimedReceipt
<1>3. CASE SendHistory(c)
  <2> DEFINE t == AdvancedTime(c)
             h == FillHistory(history[c], t, State(balance[c], 0))
             m == [type |-> "BALANCE_HISTORY", time |-> t + 1, history |-> h]
  <2>1. ReceiveEnd(c) /\ SetTime(c, t + 1) /\ send(c, PARENT_ID, m) /\ Goto(c, "send_history")
    BY <1>3 DEF SendHistory
  <2>2. t \in Nat /\ t + 1 \in Nat
    BY DEF ClockTypes, AdvancedTime
  <2>3. h \in History
    <3>1. history[c] \in History /\ State(balance[c], 0) \in BalanceState
      BY DEF ProtocolInv, StateTypes, State, BalanceState
    <3> QED
      BY <2>2, <3>1, FillType
  <2> HIDE DEF t, h
  <2>4. m \in BankMessage /\ m.type = "BALANCE_HISTORY"
    BY <2>2, <2>3, HistoryMessage
  <2> HIDE DEF m
  <2>5. ProtocolInv(w)'
    BY <1>1, <2>1, <2>4, ChildSendsHistory
  <2>6. UNCHANGED <<balance, ordered>>
    BY <2>1 DEF ReceiveEnd
  <2> QED
    BY <2>1, <2>2, <2>5, <2>6, SetTimeType, StaysThere
<1>4. CASE SpinOnEof(c) /\ UNCHANGED lamport_time
  <2>1. ProtocolInv(w)'
    BY <1>1, <1>4, ChildSpins
  <2>2. UNCHANGED <<balance, ordered>> /\ ClockTypes'
    BY <1>4 DEF SpinOnEof, ClockTypes
  <2> QED
    BY <2>1, <2>2, StaysThere
<1> QED
  BY <1>2, <1>3, <1>4 DEF AwaitDone

\* A step of a child of pa3 is a step of the protocol.
LEMMA LamportChildNext ==
  ASSUME NEW w \in Where, ProtocolInv(w), ClockTypes, NEW c \in Children, ChildNext(c)
  PROVE  BankStep(w) /\ ClockTypes'
<1>1. CASE SyncStarted(c)
  BY <1>1, LamportSyncStarted
<1>2. CASE AwaitStarted(c)
  BY <1>2, LamportAwaitStarted
<1>3. CASE ReceiveAny(c)
  BY <1>3, LamportReceiveAny
<1>4. CASE AwaitDone(c)
  BY <1>4, LamportAwaitDone
<1>5. CASE Write(c) /\ UNCHANGED lamport_time
  <2>1. ProtocolInv(w)' /\ UNCHANGED <<balance, ordered>>
    BY <1>5, Writes, ProcsFacts
  <2> QED
    BY <1>5, <2>1, StaysThere DEF ClockTypes
<1>6. CASE ChildExit(c) /\ UNCHANGED lamport_time
  <2>1. ProtocolInv(w)'
    BY <1>6, ChildReturns
  <2>2. UNCHANGED <<balance, ordered>> /\ ClockTypes'
    BY <1>6 DEF ChildExit, ClockTypes
  <2> QED
    BY <2>1, <2>2, StaysThere
<1> QED
  BY <1>1, <1>2, <1>3, <1>4, <1>5, <1>6 DEF ChildNext

\* The receive_all loops of the parent.
LEMMA LamportParentReceives ==
  ASSUME NEW w \in Where, ProtocolInv(w), ClockTypes, ParentReceivesAll
  PROVE  BankStep(w) /\ ClockTypes'
<1> PARENT_ID \in Procs
  BY ProcsFacts
<1>1. ASSUME NEW type, ReceiveNextTimed(PARENT_ID, type),
             \/ type = "STARTED" /\ pc[PARENT_ID] = "await_started"
             \/ type = "DONE" /\ pc[PARENT_ID] = "await_done"
             \/ type = "BALANCE_HISTORY" /\ pc[PARENT_ID] = "await_histories"
      PROVE  BankStep(w) /\ ClockTypes'
  <2>1. ProtocolInv(w)' /\ UNCHANGED <<balance, ordered>>
    BY <1>1, ParentHears DEF ReceiveNextTimed
  <2>2. ClockTypes'
    BY <1>1, TimedReceipt
  <2> QED
    BY <2>1, <2>2, StaysThere
<1>2. ASSUME NEW label, NEW next, ParentGoesOn(label, next), lamport_time' = lamport_time,
             <<label, next>> \in {<<"await_started", "robbery">>, <<"await_done", "await_histories">>,
                                  <<"await_histories", "wait">>}
      PROVE  BankStep(w) /\ ClockTypes'
  <2>1. ProtocolInv(w)'
    BY <1>2, GoesOn
  <2>2. UNCHANGED <<balance, ordered>> /\ ClockTypes'
    BY <1>2 DEF ParentGoesOn, ReceiveEnd, ClockTypes
  <2> QED
    BY <2>1, <2>2, StaysThere
<1>3. CASE At(PARENT_ID, "await_started") /\ ReceiveNextTimed(PARENT_ID, "STARTED")
  BY <1>1, <1>3 DEF At
<1>4. CASE At(PARENT_ID, "await_done") /\ ReceiveNextTimed(PARENT_ID, "DONE")
  BY <1>1, <1>4 DEF At
<1>5. CASE At(PARENT_ID, "await_histories") /\ ReceiveNextTimed(PARENT_ID, "BALANCE_HISTORY")
  BY <1>1, <1>5 DEF At
<1>6. CASE ParentGoesOn("await_started", "robbery") /\ UNCHANGED lamport_time
  BY <1>2, <1>6
<1>7. CASE ParentGoesOn("await_done", "await_histories") /\ UNCHANGED lamport_time
  BY <1>2, <1>7
<1>8. CASE ParentGoesOn("await_histories", "wait") /\ UNCHANGED lamport_time
  BY <1>2, <1>8
<1> QED
  BY <1>3, <1>4, <1>5, <1>6, <1>7, <1>8 DEF ParentReceivesAll

\* transfer() gives an order and waits for its ACK; STOP comes after the last one.
LEMMA LamportParentRobs ==
  ASSUME NEW w \in Where, ProtocolInv(w), ClockTypes, ParentRobs
  PROVE  BankStep(w) /\ ClockTypes'
<1> DEFINE t == AdvancedTime(PARENT_ID)
<1>1. t \in Nat /\ PARENT_ID \in Procs
  BY ProcsFacts DEF ClockTypes, AdvancedTime
<1> HIDE DEF t
<1>2. CASE ParentOrders(t) /\ SetTime(PARENT_ID, t)
  <2>1. w = "none" /\ ordered' = ordered + 1 /\ ordered' \in 1..Len(Orders) /\ ProtocolInv("out")'
    BY <1>1, <1>2, GivesOrder
  <2>2. balance' = balance
    BY <1>2 DEF ParentOrders
  <2>3. BankStep(w)
    BY <2>1, <2>2 DEF BankStep, Transacts, Where
  <2> QED
    BY <1>1, <1>2, <2>3, SetTimeType
<1>3. CASE /\ ParentAwaitsAck
           /\ SetTime(PARENT_ID, Synchronized(lamport_time[PARENT_ID],
                                              Oldest(PARENT_ID, Orders[ordered].dst).time))
  <2>1. w = "back" /\ ProtocolInv("none")' /\ UNCHANGED <<balance, ordered>>
    BY <1>3, GetsAck
  <2>2. BankStep(w)
    BY <2>1 DEF BankStep, Transacts, Where
  <2>3. Dst \in Procs /\ receive(PARENT_ID, Dst)
    BY <1>3, <2>1, CurrentOrder, ProcsFacts DEF ParentAwaitsAck, Dst, ProtocolInv
  <2>4. Synchronized(lamport_time[PARENT_ID], Oldest(PARENT_ID, Dst).time) \in Nat
    BY <1>1, <2>3, SynchronizedType
  <2> QED
    BY <1>1, <1>3, <2>2, <2>4, SetTimeType DEF Dst
<1>4. CASE ParentStops(t) /\ SetTime(PARENT_ID, t)
  <2>1. ProtocolInv(w)'
    BY <1>1, <1>4, SaysStop
  <2>2. UNCHANGED <<balance, ordered>>
    BY <1>4 DEF ParentStops
  <2> QED
    BY <1>1, <1>4, <2>1, <2>2, SetTimeType, StaysThere
<1> QED
  BY <1>2, <1>3, <1>4 DEF ParentRobs, t

\* A step of the parent of pa3 is a step of the protocol.
LEMMA LamportParentNext ==
  ASSUME NEW w \in Where, ProtocolInv(w), ClockTypes, ParentNext
  PROVE  BankStep(w) /\ ClockTypes'
<1>1. CASE ParentReceivesAll
  BY <1>1, LamportParentReceives
<1>2. CASE ParentRobs
  BY <1>2, LamportParentRobs
<1>3. CASE Write(PARENT_ID) /\ UNCHANGED lamport_time
  <2>1. ProtocolInv(w)' /\ UNCHANGED <<balance, ordered>>
    BY <1>3, Writes, ProcsFacts
  <2> QED
    BY <1>3, <2>1, StaysThere DEF ClockTypes
<1>4. CASE ParentSetUp /\ UNCHANGED lamport_time
  <2>1. ProtocolInv(w)'
    BY <1>4, SetsUp
  <2>2. UNCHANGED <<balance, ordered>> /\ ClockTypes'
    BY <1>4 DEF ParentSetUp, ClockTypes
  <2> QED
    BY <2>1, <2>2, StaysThere
<1>5. CASE ParentExit /\ UNCHANGED lamport_time
  <2>1. ProtocolInv(w)'
    BY <1>5, ParentReturns
  <2>2. UNCHANGED <<balance, ordered>> /\ ClockTypes'
    BY <1>5 DEF ParentExit, ClockTypes
  <2> QED
    BY <2>1, <2>2, StaysThere
<1> QED
  BY <1>1, <1>2, <1>3, <1>4, <1>5 DEF ParentNext

\* A step of pa3 is a step of the protocol.
LEMMA LamportNext ==
  ASSUME NEW w \in Where, ProtocolInv(w), ClockTypes, [Next]_vars
  PROVE  BankStep(w) /\ ClockTypes'
<1>1. ASSUME NEW c \in Children, ChildNext(c)
      PROVE  BankStep(w) /\ ClockTypes'
  BY <1>1, LamportChildNext
<1>2. CASE ParentNext
  BY <1>2, LamportParentNext
<1>3. CASE UNCHANGED vars
  <2>1. UNCHANGED bankVars /\ ClockTypes'
    BY <1>3 DEF vars, ClockTypes
  <2> QED
    BY <2>1, BankStutters
<1> QED
  BY <1>1, <1>2, <1>3 DEF Next

-----------------------------------------------------------------------------
(* The theorems of pa3 *)

\* The inductive invariant: somewhere the order under way is.
BankInv == ClockTypes /\ \E w \in Where : ProtocolInv(w)

\* The program begins with nothing under way and the ledger untouched.
LEMMA LamportBegins == Init => BankInv /\ AsLedger!Init
<1> SUFFICES ASSUME Init PROVE BankInv /\ AsLedger!Init
  OBVIOUS
<1>1. BankInit /\ ClockTypes
  BY DEF Init, ClockTypes
<1>2. ProtocolInv("none") /\ "none" \in Where
  BY <1>1, BankBegins DEF Where
<1> QED
  BY <1>1, <1>2, LedgerBegins DEF BankInv

\* A step of pa3 keeps the invariant and is a step of the ledger, or none.
LEMMA LamportGoesOn == BankInv /\ [Next]_vars => BankInv' /\ [AsLedger!Next]_(AsLedger!vars)
<1> SUFFICES ASSUME BankInv, [Next]_vars PROVE BankInv' /\ [AsLedger!Next]_(AsLedger!vars)
  OBVIOUS
<1>1. PICK w \in Where : ProtocolInv(w)
  BY DEF BankInv
<1>2. BankStep(w) /\ ClockTypes'
  BY <1>1, LamportNext DEF BankInv
<1>3. [AsLedger!Next]_(AsLedger!vars)
  BY <1>1, <1>2, LedgerNext
<1>4. BankInv'
  BY <1>2 DEF BankInv, BankStep
<1> QED
  BY <1>3, <1>4

\* The induction.
LEMMA LamportInvariant == Spec => []BankInv
BY LamportBegins, LamportGoesOn, PTL DEF Spec

\* The types of pa3: no process leaves the labels of its program, no cursor and no
\* history gets out of shape, and the parent never has more histories than children.
THEOREM BankTypes == Spec => []TypeOK
<1>1. BankInv => TypeOK
  BY ProtocolTypes DEF BankInv, ClockTypes, TypeOK
<1> QED
  BY <1>1, LamportInvariant, PTL

\* In pa3 every message that is waited for has the type that is tested, and nobody
\* writes to a process that has returned from main.
THEOREM BankSucceeds == Spec => []NoFailure
<1>1. BankInv => NoFailure
  BY ProtocolSucceeds DEF BankInv
<1> QED
  BY <1>1, LamportInvariant, PTL

\* pa3 implements the ledger: the orders of bank_robbery() are carried out one at a
\* time and in order, each takes its amount from one account and puts it on another
\* exactly once.
THEOREM BankImplementsLedger == Spec => LedgerSpec
BY LamportBegins, LamportGoesOn, PTL DEF Spec, LedgerSpec, AsLedger!Spec

-----------------------------------------------------------------------------
(* The times of pa3.  Up to STOP every event has one time, whatever the      *)
(* scheduler does, and after it too unless a child drops a DONE.             *)

\* The clock of the parent when k orders have been carried out.  The source has the
\* next one two later and its account is without the money for two more.
Turn(k) == N + 1 + 6 * k

StopTime == Turn(Len(Orders)) + 1

\* The number of entries of a history.
EndTime == StopTime + N + 2

\* Time t belongs to order k, and what the history of c shows then.
Begun(k, t) ==
  /\ k = 0 \/ Turn(k - 1) + 2 <= t
  /\ k = Len(Orders) \/ t < Turn(k) + 2

Entry(k, c, t) ==
  IF k # 0 /\ t < Turn(k - 1) + 4
    THEN State(Taken(After[k - 1], Orders[k])[c], IF c = Orders[k].src THEN Orders[k].amount ELSE 0)
    ELSE State(After[k][c], 0)

Right(state, c, t) == \A k \in 0..Len(Orders) : Begun(k, t) => state = Entry(k, c, t)

Shows(h, c) ==
  \A t \in 0..(h.s_history_len - 1) : t \in DOMAIN h.s_history /\ Right(h.s_history[t], c, t)

\* The time of the next change of an account, if there is one to come.
Horizon(w) ==
  IF w = "out" THEN Turn(ordered - 1) + 2
  ELSE IF w = "over" THEN Turn(ordered - 1) + 4
  ELSE Turn(ordered) + 2

Foreseen(w, t) == t < Horizon(w) \/ (w \in {"none", "back"} /\ ordered = Len(Orders))

\* The history of c is right as far as it goes, it does not go further than the clock,
\* and what is missing before the next change is the balance that c has.
Recorded(w, c) ==
  /\ Shows(history[c], c)
  /\ history[c].s_history_len <= lamport_time[c] + 1
  /\ \A t \in Nat :
       history[c].s_history_len <= t /\ Foreseen(w, t) => Right(State(balance[c], 0), c, t)

\* The histories sent are right.
Archived ==
  /\ \A c \in Children : \A k \in 1..Len(Link(c, PARENT_ID)) :
       Link(c, PARENT_ID)[k].type = "BALANCE_HISTORY" => Shows(Link(c, PARENT_ID)[k].history, c)
  /\ \A c \in 1..Len(all_history) : Shows(all_history[c], c)

\* No DONE has been dropped: one that has been said and not been counted is under way.
Lossless ==
  \A q \in Children : \A c \in Children \ {q} :
    SaidDone(q) /\ ~HeardDone(c, q) => Mail(q, c) # <<>>

\* How many of the others the cursor of c has passed.
Passed(c) == IF from[c] > c THEN from[c] - 2 ELSE from[c] - 1

ChildOnTime(w, c) ==
  /\ pc[c] = "start" => lamport_time[c] = 0
  /\ pc[c] = "await_started" => lamport_time[c] = 1 + Passed(c)
  /\ pc[c] = "loop" => lamport_time[c] < Horizon(w)
  /\ pc[c] = "await_done" => lamport_time[c] = StopTime + 2 + Passed(c)

ParentOnTime ==
  /\ pc[PARENT_ID] \in {"spawn", "await_started"} =>
       /\ ordered = 0
       /\ lamport_time[PARENT_ID] = IF from[PARENT_ID] = 1 THEN 0 ELSE from[PARENT_ID]
  /\ pc[PARENT_ID] = "robbery" => lamport_time[PARENT_ID] = Turn(ordered)
  /\ pc[PARENT_ID] = "await_ack" => lamport_time[PARENT_ID] = Turn(ordered - 1) + 1

OnTime(w, p) == IF p = PARENT_ID THEN ParentOnTime ELSE ChildOnTime(w, p)

\* A message m of a, when k orders have been given.
TimedAt(k, a, m) ==
  /\ m.type = "STARTED" => m.time = 1
  /\ m.type = "TRANSFER" => m.time = Turn(k - 1) + (IF a = PARENT_ID THEN 1 ELSE 3)
  /\ m.type = "ACK" => m.time = Turn(k - 1) + 5
  /\ m.type = "STOP" => m.time = StopTime
  /\ m.type = "DONE" => m.time = StopTime + 2
  /\ m.type = "BALANCE_HISTORY" => m.history.s_history_len = EndTime

MailOnTime ==
  \A a, b \in Procs : \A k \in 1..Len(Link(a, b)) : TimedAt(ordered, a, Link(a, b)[k])

Punctual(w) ==
  /\ \A p \in Procs : OnTime(w, p)
  /\ MailOnTime
  /\ \A c \in 1..Len(all_history) : all_history[c].s_history_len = EndTime

TimesInv(w) ==
  /\ \A c \in Children : Recorded(w, c)
  /\ Archived
  /\ SaidStop => ordered = Len(Orders)
  /\ Lossless => Punctual(w)

-----------------------------------------------------------------------------
(* Facts about the times *)

\* Where the order under way is, is no choice once it is there.
LEMMA WhereUnique ==
  ASSUME NEW w \in Where, NEW v \in Where, ProtocolInv(w)', ProtocolInv(v)'
  PROVE  w = v
<1>1. /\ w = "out" <=> v = "out"
      /\ w \in {"out", "over"} <=> v \in {"out", "over"}
  BY LedgerCountsNext
<1>2. /\ w # "none" <=> pc'[PARENT_ID] = "await_ack"
      /\ v # "none" <=> pc'[PARENT_ID] = "await_ack"
  BY DEF ProtocolInv, Progress
<1> QED
  BY <1>1, <1>2 DEF Where

\* The orders come one after the other.
LEMMA TurnFacts ==
  /\ \A k \in Nat : Turn(k) \in Nat /\ Turn(k) = Turn(0) + 6 * k
  /\ \A k \in Nat \ {0} : Turn(k) = Turn(k - 1) + 6
  /\ Turn(0) = N + 1 /\ N \in Nat \ {0}
  /\ StopTime = Turn(Len(Orders)) + 1 /\ StopTime \in Nat
  /\ EndTime = StopTime + N + 2 /\ EndTime \in Nat
<1>1. N \in Nat \ {0} /\ Len(Orders) \in Nat
  BY NAssumption, OrderFacts
<1> QED
  BY <1>1 DEF Turn, StopTime, EndTime

\* A time belongs to one order only.
LEMMA BegunOnce ==
  ASSUME NEW j \in 0..Len(Orders), NEW k \in 0..Len(Orders), NEW t \in Nat,
         Begun(j, t), Begun(k, t)
  PROVE  j = k
<1>1. ASSUME NEW a \in 0..Len(Orders), NEW b \in 0..Len(Orders), Begun(a, t), Begun(b, t), a < b
      PROVE  FALSE
  <2>1. Len(Orders) \in Nat /\ N \in Nat
    BY OrderFacts, TurnFacts
  <2>2. Turn(b - 1) + 2 <= t /\ t < Turn(a) + 2
    BY <1>1, <2>1 DEF Begun
  <2>3. a <= b - 1
    BY <1>1, <2>1
  <2> QED
    BY <2>1, <2>2, <2>3 DEF Turn
<1>2. Len(Orders) \in Nat
  BY OrderFacts
<1>3. j < k \/ k < j \/ j = k
  BY <1>2
<1> QED
  BY <1>1, <1>3

\* What is right at a time that is known to belong to order k.
LEMMA RightFrom ==
  ASSUME NEW k \in 0..Len(Orders), NEW t \in Nat, Begun(k, t), NEW c, NEW state,
         state = Entry(k, c, t)
  PROVE  Right(state, c, t)
BY BegunOnce DEF Right

\* Every time belongs to an order.
LEMMA BegunSome ==
  ASSUME NEW t \in Nat
  PROVE  \E k \in 0..Len(Orders) : Begun(k, t)
<1>1. Len(Orders) \in Nat /\ N \in Nat
  BY OrderFacts, TurnFacts
<1> DEFINE S == {k \in 0..Len(Orders) : k = Len(Orders) \/ t < Turn(k) + 2}
<1>2. PICK k \in S : \A j \in S : k <= j
  <2>1. S \in SUBSET Nat /\ Len(Orders) \in S
    BY <1>1
  <2> HIDE DEF S
  <2>2. S # {}
    BY <2>1
  <2> QED
    BY <2>1, <2>2, Least
<1>3. k \in 0..Len(Orders) /\ (k = Len(Orders) \/ t < Turn(k) + 2)
  OBVIOUS
<1>4. CASE k = 0
  BY <1>3, <1>4 DEF Begun
<1>5. CASE k # 0
  <2>1. k - 1 \in 0..Len(Orders) /\ k - 1 # Len(Orders) /\ ~(k <= k - 1)
    BY <1>1, <1>3, <1>5
  <2>2. ~(t < Turn(k - 1) + 2)
    BY <1>2, <2>1
  <2>3. Turn(k - 1) + 2 <= t
    BY <1>1, <2>1, <2>2 DEF Turn
  <2> QED
    BY <1>3, <2>3 DEF Begun
<1> QED
  BY <1>3, <1>4, <1>5

\* The time before the first transfer.
LEMMA RightFirst ==
  ASSUME NEW c \in Children, NEW t \in Nat, t < Turn(0) + 2 \/ Len(Orders) = 0
  PROVE  Right(State(StartBalances[c], 0), c, t)
<1>1. 0 \in 0..Len(Orders) /\ Begun(0, t)
  BY OrderFacts DEF Begun
<1>2. Entry(0, c, t) = State(StartBalances[c], 0)
  BY AfterType DEF Entry
<1> QED
  BY <1>1, <1>2, RightFrom

\* A step of the whole program: from the order at w to the order at v.
Moment(w) == ProtocolInv(w) /\ ClockTypes /\ Accounts(w)

Stepping(w, v) == Moment(w) /\ TimesInv(w) /\ Moment(v)' /\ Transacts(w, v)

\* The order that is under way, with its times.
LEMMA OrderTimes ==
  ASSUME NEW w \in Where, ProtocolInv(w), w # "none"
  PROVE  /\ ordered \in 1..Len(Orders) /\ ordered - 1 \in 0..Len(Orders)
         /\ Turn(ordered) = Turn(ordered - 1) + 6 /\ Turn(ordered - 1) \in Nat
         /\ Turn(0) <= Turn(ordered - 1)
<1>1. ordered \in 1..Len(Orders) /\ Len(Orders) \in Nat
  BY CurrentOrder, OrderFacts DEF ProtocolInv
<1>2. N \in Nat
  BY TurnFacts
<1> QED
  BY <1>1, <1>2 DEF Turn

\* The horizon is a time after the beginning, and no step takes it back.
LEMMA HorizonType ==
  ASSUME NEW w \in Where, ProtocolInv(w)
  PROVE  Horizon(w) \in Nat /\ Turn(0) + 2 <= Horizon(w)
<1>1. ordered \in Nat /\ N \in Nat
  BY OrderFacts, TurnFacts DEF ProtocolInv, StateTypes
<1>2. CASE w \in {"none", "back"}
  BY <1>1, <1>2 DEF Horizon, Turn
<1>3. CASE w \in {"out", "over"}
  <2>1. Turn(ordered - 1) \in Nat /\ Turn(0) <= Turn(ordered - 1) /\ Turn(0) \in Nat
    <3>1. w # "none"
      BY <1>3
    <3> QED
      BY <3>1, OrderTimes, TurnFacts
  <2>2. Horizon(w) = Turn(ordered - 1) + 2 \/ Horizon(w) = Turn(ordered - 1) + 4
    BY <1>3 DEF Horizon
  <2> QED
    BY <2>1, <2>2
<1> QED
  BY <1>2, <1>3 DEF Where

\* No step takes the horizon back.
LEMMA HorizonGrows ==
  ASSUME NEW w \in Where, NEW v \in Where, ProtocolInv(w), ProtocolInv(v)', Transacts(w, v)
  PROVE  Horizon(w) <= Horizon(v)'
<1>1. ordered \in Nat /\ N \in Nat
  BY OrderFacts, TurnFacts DEF ProtocolInv, StateTypes
<1>2. CASE v = w /\ ordered' = ordered
  BY <1>1, <1>2 DEF Horizon, Turn
<1>3. CASE w = "none" /\ v = "out" /\ ordered' = ordered + 1
  BY <1>1, <1>3 DEF Horizon, Turn
<1>4. CASE w = "out" /\ v = "over" /\ ordered' = ordered
  BY <1>1, <1>4 DEF Horizon, Turn
<1>5. CASE w = "over" /\ v = "back" /\ ordered' = ordered
  BY <1>1, <1>5 DEF Horizon, Turn
<1>6. CASE w = "back" /\ v = "none" /\ ordered' = ordered
  BY <1>1, <1>6 DEF Horizon, Turn
<1> QED
  BY <1>2, <1>3, <1>4, <1>5, <1>6 DEF Transacts

\* What the accounts show at the times that a step brings into view.
LEMMA HorizonMoves ==
  ASSUME NEW w \in Where, NEW v \in Where, ProtocolInv(w), Accounts(v)', Transacts(w, v),
         NEW c \in Children, NEW t \in Nat, Foreseen(v, t)', ~Foreseen(w, t),
         ~(w = "out" /\ v = "over" /\ c = Src)
  PROVE  Right(State(balance'[c], 0), c, t)
<1>1. ordered \in Nat /\ N \in Nat
  BY OrderFacts, TurnFacts DEF ProtocolInv, StateTypes
<1>2. ~(v = w /\ ordered' = ordered)
  BY DEF Foreseen, Horizon
<1>3. ~(w = "none" /\ v = "out" /\ ordered' = ordered + 1)
  <2> SUFFICES ASSUME w = "none", v = "out", ordered' = ordered + 1 PROVE FALSE
    OBVIOUS
  <2>1. ordered' - 1 = ordered
    BY <1>1
  <2> QED
    BY <2>1 DEF Foreseen, Horizon
<1>4. ~(w = "back" /\ v = "none" /\ ordered' = ordered)
  BY DEF Foreseen, Horizon
<1>5. CASE w = "out" /\ v = "over" /\ ordered' = ordered
  <2>1. /\ ordered \in 1..Len(Orders) /\ ordered - 1 \in 0..Len(Orders)
        /\ Turn(ordered) = Turn(ordered - 1) + 6 /\ Turn(ordered - 1) \in Nat
    BY <1>5, OrderTimes
  <2>2. Turn(ordered - 1) + 2 <= t /\ t < Turn(ordered - 1) + 4
    BY <1>5, <2>1 DEF Foreseen, Horizon
  <2>3. Begun(ordered, t) /\ ordered # 0 /\ ordered \in 0..Len(Orders)
    BY <2>1, <2>2 DEF Begun
  <2>4. balance' = Taken(After[ordered - 1], Orders[ordered])
    BY <1>5 DEF Accounts
  <2>5. c # Orders[ordered].src
    BY <1>5 DEF Src
  <2>6. State(balance'[c], 0) = Entry(ordered, c, t)
    BY <2>2, <2>3, <2>4, <2>5 DEF Entry
  <2> QED
    BY <2>3, <2>6, RightFrom
<1>6. CASE w = "over" /\ v = "back" /\ ordered' = ordered
  <2>1. /\ ordered \in 1..Len(Orders) /\ Turn(ordered) = Turn(ordered - 1) + 6
        /\ Turn(ordered - 1) \in Nat
    BY <1>6, OrderTimes
  <2>2. Turn(ordered - 1) + 4 <= t /\ (ordered = Len(Orders) \/ t < Turn(ordered) + 2)
    BY <1>6, <2>1 DEF Foreseen, Horizon
  <2>3. Begun(ordered, t) /\ ordered \in 0..Len(Orders) /\ ~(t < Turn(ordered - 1) + 4)
    BY <2>1, <2>2 DEF Begun
  <2>4. balance' = After[ordered]
    BY <1>6 DEF Accounts, Credited
  <2>5. State(balance'[c], 0) = Entry(ordered, c, t)
    BY <2>3, <2>4 DEF Entry
  <2> QED
    BY <2>3, <2>5, RightFrom
<1> QED
  BY <1>2, <1>3, <1>4, <1>5, <1>6 DEF Transacts

-----------------------------------------------------------------------------
(* Facts about the histories *)

\* A handler that fills the history up to the receipt.
LEMMA FillRight ==
  ASSUME NEW h \in History, NEW c, Shows(h, c), NEW T \in Nat, NEW state,
         \A t \in Nat : h.s_history_len <= t /\ t < T => Right(state, c, t),
         NEW g, g = FillHistory(h, T, state)
  PROVE  /\ Shows(g, c)
         /\ g.s_history_len = IF T > h.s_history_len THEN T ELSE h.s_history_len
<1> DEFINE len == h.s_history_len
<1>1. len \in Nat
  BY DEF History
<1>2. /\ g.s_history_len = IF T > len THEN T ELSE len
      /\ g.s_history = Assigned(h.s_history, len..(T - 1), state)
  BY DEF FillHistory
<1>3. ASSUME NEW t \in 0..(g.s_history_len - 1)
      PROVE  t \in DOMAIN g.s_history /\ Right(g.s_history[t], c, t)
  <2>1. t \in 0..(len - 1) \/ t \in len..(T - 1)
    BY <1>1, <1>2
  <2>2. CASE t \in len..(T - 1)
    <3>1. Right(state, c, t)
      BY <1>1, <2>2
    <3>2. t \in DOMAIN g.s_history /\ g.s_history[t] = state
      BY <1>2, <2>2 DEF Assigned
    <3> QED
      BY <3>1, <3>2
  <2>3. CASE t \notin len..(T - 1)
    <3>1. t \in DOMAIN h.s_history /\ Right(h.s_history[t], c, t)
      BY <2>1, <2>3 DEF Shows
    <3>2. t \in DOMAIN g.s_history /\ g.s_history[t] = h.s_history[t]
      BY <1>2, <2>3, <3>1 DEF Assigned
    <3> QED
      BY <3>1, <3>2
  <2> QED
    BY <2>1, <2>2, <2>3
<1> QED
  BY <1>2, <1>3 DEF Shows

\* One entry more.
LEMMA RecordRight ==
  ASSUME NEW h \in History, NEW c, Shows(h, c), NEW T, T = h.s_history_len, NEW state,
         Right(state, c, T), NEW g, g = record_history(h, T, state)
  PROVE  Shows(g, c) /\ g.s_history_len = T + 1
<1>1. T \in Nat
  BY DEF History
<1>2. g.s_history_len = T + 1 /\ g.s_history = Assigned(h.s_history, {T}, state)
  BY DEF record_history
<1>3. ASSUME NEW t \in 0..(g.s_history_len - 1)
      PROVE  t \in DOMAIN g.s_history /\ Right(g.s_history[t], c, t)
  <2>1. t \in 0..(T - 1) \/ t = T
    BY <1>1, <1>2
  <2>2. CASE t = T
    <3>1. t \in DOMAIN g.s_history /\ g.s_history[t] = state
      BY <1>2, <2>2 DEF Assigned
    <3> QED
      BY <2>2, <3>1
  <2>3. CASE t # T
    <3>1. t \in DOMAIN h.s_history /\ Right(h.s_history[t], c, t)
      BY <2>1, <2>3 DEF Shows
    <3>2. t \in DOMAIN g.s_history /\ g.s_history[t] = h.s_history[t]
      BY <1>2, <2>3, <3>1 DEF Assigned
    <3> QED
      BY <3>1, <3>2
  <2> QED
    BY <2>2, <2>3
<1> QED
  BY <1>2, <1>3 DEF Shows

\* A history that is right stays right while its child does not act.
LEMMA RecordedKept ==
  ASSUME NEW w \in Where, NEW v \in Where, Stepping(w, v), NEW c \in Children,
         history'[c] = history[c], balance'[c] = balance[c],
         lamport_time[c] <= lamport_time'[c],
         ~(w = "out" /\ v = "over" /\ c = Src)
  PROVE  Recorded(v, c)'
<1>1. Recorded(w, c) /\ history[c] \in History /\ lamport_time[c] \in Nat /\ lamport_time'[c] \in Nat
  BY ProcsFacts DEF Stepping, Moment, TimesInv, ProtocolInv, StateTypes, ClockTypes
<1>2. Shows(history'[c], c)
  BY <1>1 DEF Recorded
<1>3. history'[c].s_history_len <= lamport_time'[c] + 1
  <2>1. history[c].s_history_len <= lamport_time[c] + 1 /\ history[c].s_history_len \in Nat
    BY <1>1 DEF Recorded, History
  <2> QED
    BY <1>1, <2>1
<1>4. ASSUME NEW t \in Nat, history'[c].s_history_len <= t, Foreseen(v, t)'
      PROVE  Right(State(balance'[c], 0), c, t)
  <2>1. CASE Foreseen(w, t)
    BY <1>1, <1>4, <2>1 DEF Recorded
  <2>2. CASE ~Foreseen(w, t)
    BY <1>4, <2>2, HorizonMoves DEF Stepping, Moment
  <2> QED
    BY <2>1, <2>2
<1> QED
  BY <1>2, <1>3, <1>4 DEF Recorded

-----------------------------------------------------------------------------
(* What one process changes: p reads messages, and posts m to D. *)

Moves(p, D, m) ==
  /\ \A a \in Procs \ {p} : SameState(a) /\ lamport_time'[a] = lamport_time[a]
  /\ \A c \in Children \ {p} : history'[c] = history[c] /\ balance'[c] = balance[c]
  /\ p # PARENT_ID => ordered' = ordered /\ all_history' = all_history
  /\ \A a, b \in Procs :
       \/ Link(a, b)' = Link(a, b)
       \/ Link(a, b) # <<>> /\ Link(a, b)' = Tail(Link(a, b))
       \/ a = p /\ b \in D /\ Link(a, b)' = Append(Link(a, b), m)

\* A message under way was so before, or it is the new one.
LEMMA LinkOrigin ==
  ASSUME MailTypes, NEW p \in Procs, NEW D, NEW m, Moves(p, D, m), D # {} => m \in BankMessage,
         NEW a \in Procs, NEW b \in Procs, NEW k \in 1..Len(Link(a, b)')
  PROVE  \/ \E j \in 1..Len(Link(a, b)) : Link(a, b)'[k] = Link(a, b)[j]
         \/ a = p /\ b \in D /\ Link(a, b)'[k] = m
<1> DEFINE s == Link(a, b)  r == Link(a, b)'
<1>1. s \in Seq(BankMessage) /\ Len(s) \in Nat
  BY LinkMessages
<1>2. \/ r = s
      \/ s # <<>> /\ r = Tail(s)
      \/ a = p /\ b \in D /\ r = Append(s, m)
  BY DEF Moves
<1>3. k \in 1..Len(r)
  OBVIOUS
<1> HIDE DEF s, r
<1>4. CASE r = s
  BY <1>3, <1>4 DEF s, r
<1>5. CASE s # <<>> /\ r = Tail(s)
  <2>1. Len(r) = Len(s) - 1 /\ k + 1 \in 1..Len(s) /\ r[k] = s[k + 1]
    BY <1>1, <1>3, <1>5
  <2> QED
    BY <2>1 DEF s, r
<1>6. CASE a = p /\ b \in D /\ r = Append(s, m)
  <2>1. m \in BankMessage
    BY <1>6
  <2>2. Len(r) = Len(s) + 1 /\ r[Len(s) + 1] = m /\ \A j \in 1..Len(s) : r[j] = s[j]
    BY <1>1, <1>6, <2>1
  <2>3. k \in 1..Len(s) \/ k = Len(s) + 1
    BY <1>1, <1>3, <2>2
  <2> QED
    BY <1>6, <2>2, <2>3 DEF s, r
<1> QED
  BY <1>2, <1>4, <1>5, <1>6

\* What the parent has of the children that came before stays when one more comes.
LEMMA OneMore ==
  ASSUME NEW s \in Seq(History), NEW h
  PROVE  /\ Len(s) \in Nat /\ Len(Append(s, h)) = Len(s) + 1 /\ Append(s, h)[Len(s) + 1] = h
         /\ \A j \in 1..Len(s) : Append(s, h)[j] = s[j]
<1> DEFINE S == History \cup {h}
<1>1. s \in Seq(S) /\ h \in S
  OBVIOUS
<1> HIDE DEF S
<1> QED
  BY <1>1, AppendProperties

\* The histories sent stay right when the one posted is, and the one received.
Archives(p, D, m) ==
  /\ p \in Children /\ D # {} /\ m.type = "BALANCE_HISTORY" => Shows(m.history, p)
  /\ \/ all_history' = all_history
     \/ \E h : /\ all_history' = Append(all_history, h)
               /\ Shows(h, Len(all_history) + 1)
               /\ Lossless => h.s_history_len = EndTime

\* No step spoils a history that was sent.
LEMMA ArchivedKept ==
  ASSUME MailTypes, all_history \in Seq(History), all_history' \in Seq(History), Archived,
         NEW p \in Procs, NEW D, NEW m, Moves(p, D, m), D # {} => m \in BankMessage,
         Archives(p, D, m)
  PROVE  Archived'
<1>1. ASSUME NEW c \in Children, NEW k \in 1..Len(Link(c, PARENT_ID)'),
             Link(c, PARENT_ID)'[k].type = "BALANCE_HISTORY"
      PROVE  Shows(Link(c, PARENT_ID)'[k].history, c)
  <2>1. c \in Procs /\ PARENT_ID \in Procs
    BY ProcsFacts
  <2>2. CASE \E j \in 1..Len(Link(c, PARENT_ID)) : Link(c, PARENT_ID)'[k] = Link(c, PARENT_ID)[j]
    BY <1>1, <2>2 DEF Archived
  <2>3. CASE c = p /\ PARENT_ID \in D /\ Link(c, PARENT_ID)'[k] = m
    BY <1>1, <2>3 DEF Archives
  <2> QED
    BY <2>1, <2>2, <2>3, LinkOrigin
<1>2. ASSUME NEW c \in 1..Len(all_history') PROVE Shows(all_history'[c], c)
  <2>1. CASE all_history' = all_history
    BY <2>1 DEF Archived
  <2>2. ASSUME NEW h, all_history' = Append(all_history, h), Shows(h, Len(all_history) + 1)
        PROVE  Shows(all_history'[c], c)
    <3> DEFINE s == all_history  n == Len(s)
    <3>1. n \in Nat /\ Len(Append(s, h)) = n + 1 /\ Append(s, h)[n + 1] = h
          /\ \A j \in 1..n : Append(s, h)[j] = s[j]
      BY OneMore
    <3>2. c \in 1..n \/ c = n + 1
      BY <2>2, <3>1
    <3>3. CASE c \in 1..n
      BY <2>2, <3>1, <3>3 DEF Archived
    <3>4. CASE c = n + 1
      BY <2>2, <3>1, <3>4
    <3> QED
      BY <3>2, <3>3, <3>4
  <2> QED
    BY <2>1, <2>2 DEF Archives
<1> QED
  BY <1>1, <1>2 DEF Archived

\* An ACK is under way only when the order has been carried out.
LEMMA NoAcks ==
  ASSUME ProtocolInv("none"), NEW a \in Procs, NEW b \in Procs, NEW k \in 1..Len(Link(a, b))
  PROVE  Link(a, b)[k].type # "ACK" /\ Link(a, b)[k].type # "TRANSFER"
<1> USE ProcsFacts DEF OrderOn, AckOn
<1>1. StateTypes /\ MailTypes /\ Pairs("none")
  BY DEF ProtocolInv, StateTypes
<1>2. /\ Link(a, b) \in Seq(BankMessage) /\ Len(Mail(a, b)) = Len(Link(a, b))
      /\ Link(a, b)[k].type = Mail(a, b)[k]
  BY <1>1, LinkMessages, TypesOfType DEF Mail
<1> DEFINE T == {"STARTED", "STOP", "DONE", "BALANCE_HISTORY"}
<1>3. \/ Mail(a, b) = <<>>
      \/ \E x \in T : Mail(a, b) = <<x>>
      \/ \E x, y \in T : Mail(a, b) = <<x, y>>
  <2>2. CASE a = b
    BY <1>1, <2>2 DEF Pairs
  <2>3. CASE a = PARENT_ID /\ b \in Children
    <3>1. ParentMail("none", b)
      BY <1>1, <2>3 DEF Pairs
    <3> QED
      BY <1>1, <2>3, <3>1 DEF ParentMail
  <2>4. CASE a \in Children /\ b = PARENT_ID
    <3>1. MailToParent("none", a)
      BY <1>1, <2>4 DEF Pairs
    <3> QED
      BY <1>1, <2>4, <3>1 DEF MailToParent
  <2>5. CASE a \in Children /\ b \in Children /\ a # b
    <3>1. ChildMail("none", a, b)
      BY <1>1, <2>5 DEF Pairs
    <3> QED
      BY <1>1, <2>5, <3>1 DEF ChildMail
  <2> QED
    BY <2>2, <2>3, <2>4, <2>5, NAssumption DEF Procs, Children, PARENT_ID
<1>4. CASE Mail(a, b) = <<>>
  BY <1>2, <1>4
<1>5. ASSUME NEW x \in T, Mail(a, b) = <<x>>
      PROVE  Mail(a, b)[k] \in T
  <2>1. Len(<<x>>) = 1 /\ <<x>>[1] = x
    OBVIOUS
  <2>2. k \in 1..Len(Mail(a, b))
    BY <1>2
  <2>3. k = 1
    BY <1>5, <2>1, <2>2
  <2> QED
    BY <1>5, <2>1, <2>3
<1>6. ASSUME NEW x \in T, NEW y \in T, Mail(a, b) = <<x, y>>
      PROVE  Mail(a, b)[k] \in T
  <2>1. Len(<<x, y>>) = 2 /\ <<x, y>>[1] = x /\ <<x, y>>[2] = y
    OBVIOUS
  <2>2. k \in 1..Len(Mail(a, b))
    BY <1>2
  <2>3. k \in {1, 2}
    BY <1>6, <2>1, <2>2
  <2> QED
    BY <1>6, <2>1, <2>3
<1> QED
  BY <1>2, <1>3, <1>4, <1>5, <1>6

\* Messages under way keep their times.
LEMMA MailKept ==
  ASSUME NEW w \in Where, NEW v \in Where, ProtocolInv(w), Transacts(w, v), MailOnTime,
         NEW p \in Procs, NEW D, NEW m, Moves(p, D, m), D # {} => m \in BankMessage,
         D # {} => TimedAt(ordered', p, m)
  PROVE  MailOnTime'
<1>1. MailTypes
  BY DEF ProtocolInv, StateTypes
<1>2. ASSUME NEW a \in Procs, NEW b \in Procs, NEW j \in 1..Len(Link(a, b))
      PROVE  TimedAt(ordered', a, Link(a, b)[j])
  <2>1. TimedAt(ordered, a, Link(a, b)[j])
    BY DEF MailOnTime
  <2>2. CASE ordered' = ordered
    BY <2>1, <2>2
  <2>3. CASE w = "none"
    <3>1. Link(a, b)[j].type # "ACK" /\ Link(a, b)[j].type # "TRANSFER"
      BY <2>3, NoAcks
    <3> QED
      BY <2>1, <3>1 DEF TimedAt
  <2> QED
    BY <2>2, <2>3 DEF Transacts
<1>3. ASSUME NEW a \in Procs, NEW b \in Procs, NEW k \in 1..Len(Link(a, b)')
      PROVE  TimedAt(ordered', a, Link(a, b)'[k])
  <2>1. CASE \E j \in 1..Len(Link(a, b)) : Link(a, b)'[k] = Link(a, b)[j]
    BY <1>2, <2>1
  <2>2. CASE a = p /\ b \in D /\ Link(a, b)'[k] = m
    BY <2>2
  <2> QED
    BY <1>1, <2>1, <2>2, LinkOrigin
<1> QED
  BY <1>3 DEF MailOnTime

\* What p says, and does not say any more, when it has said DONE; and of whom it has
\* heard DONE.
Counts(p, D) ==
  p \in Children =>
    /\ SaidDone(p) => SaidDone(p)' /\ D \cap Children = {}
    /\ \A q \in Children \ {p} : HeardDone(p, q)' => HeardDone(p, q) \/ Mail(q, p) # <<>>

\* A DONE that has been dropped is not found again.
LEMMA LossStays ==
  ASSUME MailTypes, NEW p \in Procs, NEW D, NEW m, Moves(p, D, m), Counts(p, D), Lossless'
  PROVE  Lossless
<1> SUFFICES ASSUME NEW q \in Children, NEW c \in Children \ {q}, SaidDone(q), ~HeardDone(c, q),
                    Mail(q, c) = <<>>
             PROVE  FALSE
  BY DEF Lossless
<1>1. q \in Procs /\ c \in Procs
  BY ProcsFacts
<1>2. SaidDone(q)'
  <2>1. CASE q = p
    BY <2>1 DEF Counts
  <2>2. CASE q # p
    BY <1>1, <2>2 DEF Moves, SameState, SaidDone
  <2> QED
    BY <2>1, <2>2
<1>3. ~HeardDone(c, q)'
  <2>1. CASE c = p
    BY <2>1 DEF Counts
  <2>2. CASE c # p
    BY <1>1, <2>2 DEF Moves, SameState, HeardDone
  <2> QED
    BY <2>1, <2>2
<1>4. Link(q, c) = <<>>
  <2>1. Link(q, c) \in Seq(BankMessage)
    BY <1>1, LinkMessages
  <2>2. Len(Link(q, c)) = Len(Mail(q, c))
    BY <2>1, TypesOfType DEF Mail
  <2> QED
    BY <2>1, <2>2
<1>5. Link(q, c)' = Link(q, c)
  <2>1. ~(q = p /\ c \in D)
    BY DEF Counts
  <2> QED
    BY <1>1, <1>4, <2>1 DEF Moves
<1>6. Mail(q, c)' = <<>>
  BY <1>5 DEF Mail
<1> QED
  BY <1>2, <1>3, <1>6 DEF Lossless

\* The times of a step: what p has to keep, when no DONE has been dropped.
Keeps(w, v, p, D, m) ==
  Lossless /\ Lossless' /\ Punctual(w) => OnTime(v, p)' /\ (D # {} => TimedAt(ordered', p, m))

\* A step of p, by what p does.
LEMMA Frame ==
  ASSUME NEW w \in Where, NEW v \in Where, Stepping(w, v),
         NEW p \in Procs, NEW D, NEW m, D # {} => m \in BankMessage,
         Moves(p, D, m), Archives(p, D, m), Counts(p, D), Keeps(w, v, p, D, m),
         ~(w = "out" /\ v = "over" /\ p # Src),
         p \in Children => Recorded(v, p)',
         p = PARENT_ID => /\ UNCHANGED <<history, balance>>
                          /\ SaidStop' => ordered' = Len(Orders)
  PROVE  TimesInv(v)'
<1>1. /\ StateTypes /\ MailTypes /\ Progress(w) /\ ClockTypes /\ TimesInv(w) /\ ProtocolInv(w)
      /\ StateTypes' /\ ClockTypes' /\ ProtocolInv(v)' /\ Transacts(w, v)
  BY DEF Stepping, Moment, ProtocolInv, StateTypes
<1>2. ASSUME NEW c \in Children PROVE Recorded(v, c)'
  <2>1. CASE c = p
    BY <2>1
  <2>2. CASE c # p
    <3>1. c \in Procs /\ lamport_time[c] \in Nat
      BY <1>1, ProcsFacts DEF ClockTypes
    <3>2. history'[c] = history[c] /\ balance'[c] = balance[c] /\ lamport_time'[c] = lamport_time[c]
      BY <2>2, <3>1 DEF Moves
    <3>3. lamport_time[c] <= lamport_time'[c]
      BY <3>1, <3>2
    <3>4. ~(w = "out" /\ v = "over" /\ c = Src)
      BY <2>2
    <3> QED
      BY <3>2, <3>3, <3>4, RecordedKept
  <2> QED
    BY <2>1, <2>2
<1>3. Archived'
  BY <1>1, ArchivedKept DEF TimesInv, StateTypes
<1>4. SaidStop' => ordered' = Len(Orders)
  <2>1. CASE p # PARENT_ID
    <3>1. SaidStop' <=> SaidStop
      BY <2>1, ProcsFacts DEF Moves, SameState, SaidStop
    <3> QED
      BY <1>1, <2>1, <3>1 DEF Moves, TimesInv
  <2> QED
    BY <2>1
<1>5. ASSUME Lossless' PROVE Punctual(v)'
  <2>1. Lossless /\ Punctual(w)
    BY <1>1, <1>5, LossStays DEF TimesInv
  <2>2. OnTime(v, p)' /\ (D # {} => TimedAt(ordered', p, m))
    BY <1>5, <2>1 DEF Keeps
  <2>3. MailOnTime'
    BY <1>1, <2>1, <2>2, MailKept DEF Punctual
  <2>4. ASSUME NEW a \in Procs, a # p PROVE OnTime(v, a)'
    <3>1. /\ pc'[a] = pc[a] /\ from'[a] = from[a] /\ lamport_time'[a] = lamport_time[a]
          /\ OnTime(w, a)
      BY <2>1, <2>4 DEF Moves, SameState, Punctual
    <3>2. CASE a = PARENT_ID
      <4>1. ordered' = ordered
        BY <2>4, <3>2 DEF Moves
      <4> QED
        BY <3>1, <3>2, <4>1 DEF OnTime, ParentOnTime
    <3>3. CASE a # PARENT_ID
      <4>1. /\ ChildOnTime(w, a) /\ lamport_time[a] \in Nat
            /\ Horizon(w) <= Horizon(v)' /\ Horizon(w) \in Nat /\ Horizon(v)' \in Nat
        <5>1. Horizon(v)' \in Nat
          <6>1. ordered' \in 0..Len(Orders) /\ (v # "none" => ordered' # 0)
            BY <1>1 DEF StateTypes, ProtocolInv, Progress
          <6>2. Len(Orders) \in Nat /\ N \in Nat
            BY OrderFacts, TurnFacts
          <6> DEFINE o == ordered'
          <6>3. o \in Nat /\ (v # "none" => o # 0)
            BY <6>1, <6>2
          <6> HIDE DEF o
          <6>4. v # "none" => o - 1 \in Nat
            BY <6>3
          <6>5. ordered' \in Nat /\ (v # "none" => ordered' - 1 \in Nat)
            BY <6>3, <6>4 DEF o
          <6>6. Turn(ordered') \in Nat /\ (v # "none" => Turn(ordered' - 1) \in Nat)
            BY <6>5, TurnFacts
          <6> QED
            BY <6>6 DEF Horizon
        <5> QED
          BY <1>1, <3>1, <3>3, <5>1, HorizonGrows, HorizonType DEF OnTime, ClockTypes
      <4>2. lamport_time[a] < Horizon(w) => lamport_time[a] < Horizon(v)'
        BY <4>1
      <4>3. Passed(a)' = Passed(a)
        BY <3>1 DEF Passed
      <4>4. ChildOnTime(v, a)'
        BY <3>1, <4>1, <4>2, <4>3 DEF ChildOnTime
      <4> QED
        BY <3>3, <4>4 DEF OnTime
    <3> QED
      BY <3>2, <3>3
  <2>5. ASSUME NEW c \in 1..Len(all_history') PROVE all_history'[c].s_history_len = EndTime
    <3>1. \A d \in 1..Len(all_history) : all_history[d].s_history_len = EndTime
      BY <2>1 DEF Punctual
    <3>2. CASE all_history' = all_history
      BY <3>1, <3>2
    <3>3. ASSUME NEW h, all_history' = Append(all_history, h), h.s_history_len = EndTime
          PROVE  all_history'[c].s_history_len = EndTime
      <4> DEFINE s == all_history  n == Len(s)
      <4>1. n \in Nat /\ Len(Append(s, h)) = n + 1 /\ Append(s, h)[n + 1] = h
            /\ \A j \in 1..n : Append(s, h)[j] = s[j]
        <5>1. s \in Seq(History)
          BY <1>1 DEF StateTypes
        <5> HIDE DEF s
        <5> QED
          BY <5>1, OneMore
      <4>2. c \in 1..n \/ c = n + 1
        BY <3>3, <4>1
      <4> QED
        BY <3>1, <3>3, <4>1, <4>2
    <3> QED
      BY <2>1, <3>2, <3>3 DEF Archives
  <2> QED
    BY <2>2, <2>3, <2>4, <2>5 DEF Punctual
<1> QED
  BY <1>2, <1>3, <1>4, <1>5 DEF TimesInv

-----------------------------------------------------------------------------
(* The children of pa3 *)

\* What a step starts from and ends in, taken apart.
LEMMA SteppingFacts ==
  ASSUME NEW w \in Where, NEW v \in Where, Stepping(w, v)
  PROVE  /\ ProtocolInv(w) /\ StateTypes /\ MailTypes /\ Progress(w) /\ OrdersCurrent /\ Pairs(w)
         /\ ClockTypes /\ Accounts(w) /\ TimesInv(w)
         /\ ProtocolInv(v)' /\ ClockTypes' /\ Accounts(v)' /\ Transacts(w, v)
         /\ \A u \in Where : ProtocolInv(u)' => u = v
BY WhereUnique DEF Stepping, Moment, ProtocolInv, StateTypes

\* A label, and a clock, change for their process only.
LEMMA GotoFacts ==
  ASSUME StateTypes, NEW p \in Procs, NEW label, Goto(p, label)
  PROVE  pc'[p] = label /\ \A a \in Procs \ {p} : pc'[a] = pc[a]
BY DEF StateTypes, Goto

\* Setting a clock changes no other one.
LEMMA SetTimeFacts ==
  ASSUME ClockTypes, NEW p \in Procs, NEW t, SetTime(p, t)
  PROVE  lamport_time'[p] = t /\ \A a \in Procs \ {p} : lamport_time'[a] = lamport_time[a]
BY DEF ClockTypes, SetTime

\* The cursor of a loop that has not begun.
LEMMA PassedFacts ==
  ASSUME NEW c \in Children
  PROVE  /\ from[c] = NextFrom(c, PARENT_ID) => Passed(c) = 0
         /\ from[c] = N + 1 => Passed(c) = N - 1
BY NAssumption DEF Children, NextFrom, PARENT_ID, Passed

\* A handler that answers nothing.
LEMMA LinksSame ==
  ASSUME UNCHANGED <<pipes, outbox>>
  PROVE  \A a, b : Link(a, b)' = Link(a, b)
BY DEF Link

\* STARTED is sent at time 1 by every child.
LEMMA TimedSyncStarted ==
  ASSUME NEW w \in Where, NEW v \in Where, Stepping(w, v), NEW c \in Children, SyncStarted(c)
  PROVE  TimesInv(v)'
<1> DEFINE t == AdvancedTime(c)  m == [type |-> "STARTED", time |-> t]  D == Procs \ {c}
<1>1. /\ StateTypes /\ MailTypes /\ Progress(w) /\ ProtocolInv(w) /\ ClockTypes /\ TimesInv(w)
      /\ \A u \in Where : ProtocolInv(u)' => u = v
  BY SteppingFacts
<1>2. c \in Procs /\ c # PARENT_ID /\ lamport_time[c] \in Nat
  BY <1>1, ProcsFacts DEF ClockTypes
<1>3. t = lamport_time[c] + 1 /\ t \in Nat
  BY <1>2 DEF AdvancedTime
<1>4. /\ At(c, "start") /\ SetTime(c, t) /\ send_multicast(c, m) /\ Goto(c, "await_started")
      /\ UNCHANGED <<pipes, from, polled, balance, history, all_history, ordered>>
  BY DEF SyncStarted, Multicast
<1>5. m \in BankMessage /\ m.type = "STARTED" /\ m.time = t
  BY <1>3, PlainMessage
<1> HIDE DEF m, t
<1>6. v = w
  <2>1. ProtocolInv(w)'
    BY <1>1, <1>4, <1>5, SaysStarted
  <2> QED
    BY <1>1, <2>1
<1>7. /\ pc[c] = "start" /\ pc'[c] = "await_started" /\ \A a \in Procs \ {c} : pc'[a] = pc[a]
      /\ lamport_time'[c] = t /\ \A a \in Procs \ {c} : lamport_time'[a] = lamport_time[a]
  BY <1>1, <1>2, <1>4, GotoFacts, SetTimeFacts DEF At
<1>8. Moves(c, D, m)
  <2>1. /\ ~Sending(c) /\ pipes' = pipes /\ Post(c, D, m)
    BY <1>4 DEF At, send_multicast
  <2>2. \A a, b \in Procs : Link(a, b)' = IF a = c /\ b \in D THEN Append(Link(a, b), m) ELSE Link(a, b)
    BY <1>1, <1>2, <1>5, <2>1, LinkPosts
  <2> QED
    BY <1>4, <1>7, <2>2 DEF Moves, SameState
<1>9. Archives(c, D, m)
  BY <1>4, <1>5 DEF Archives
<1>10. Counts(c, D)
  BY <1>7 DEF Counts, SaidDone, HeardDone
<1>11. Keeps(w, v, c, D, m)
  <2> SUFFICES ASSUME Punctual(w) PROVE OnTime(v, c)' /\ TimedAt(ordered', c, m)
    BY DEF Keeps
  <2>1. lamport_time[c] = 0
    BY <1>2, <1>7 DEF Punctual, OnTime, ChildOnTime
  <2>2. from'[c] = NextFrom(c, PARENT_ID)
    BY <1>1, <1>2, <1>4, <1>7 DEF Progress, Idle
  <2>3. Passed(c)' = 0
    BY <2>2, NAssumption DEF Passed, Children, NextFrom, PARENT_ID
  <2>4. lamport_time'[c] = 1 + 0
    BY <1>3, <1>7, <2>1
  <2>5. ChildOnTime(v, c)'
    BY <1>7, <2>3, <2>4 DEF ChildOnTime
  <2>6. TimedAt(ordered', c, m)
    BY <1>3, <1>5, <2>1 DEF TimedAt
  <2> QED
    BY <1>2, <2>5, <2>6 DEF OnTime
<1>12. Recorded(v, c)'
  <2>1. lamport_time[c] <= lamport_time'[c]
    BY <1>2, <1>3, <1>7
  <2> QED
    BY <1>4, <1>6, <2>1, RecordedKept
<1> QED
  BY <1>2, <1>5, <1>6, <1>8, <1>9, <1>10, <1>11, <1>12, Frame

\* The message that is read has its time.
LEMMA ReadOnTime ==
  ASSUME MailTypes, MailOnTime, NEW p \in Procs, NEW f \in Procs, receive(p, f)
  PROVE  TimedAt(ordered, f, Oldest(p, f))
<1>1. Link(f, p) \in Seq(BankMessage) /\ Link(f, p) # <<>> /\ Oldest(p, f) = Head(Link(f, p))
  BY LinkMessages, LinkFirst
<1>2. 1 \in 1..Len(Link(f, p)) /\ Head(Link(f, p)) = Link(f, p)[1]
  BY <1>1
<1> QED
  BY <1>1, <1>2 DEF MailOnTime

\* The cursor of a child passes one of the others.
LEMMA PassedNext ==
  ASSUME NEW c \in Children, NEW f \in Children \ {c}, from[c] = f, from'[c] = NextFrom(c, f)
  PROVE  Passed(c)' = Passed(c) + 1 /\ Passed(c) \in Nat
BY NAssumption DEF Children, NextFrom, Passed

\* A message of a receive_all loop takes the clock one further, if it was sent in time.
LEMMA TimedHears ==
  ASSUME NEW w \in Where, NEW v \in Where, Stepping(w, v), NEW c \in Children,
         NEW type \in {"STARTED", "DONE"},
         pc[c] = IF type = "STARTED" THEN "await_started" ELSE "await_done",
         ReceiveNextTimed(c, type)
  PROVE  TimesInv(v)'
<1> DEFINE f == from[c]  m == Oldest(c, from[c])  t == Synchronized(lamport_time[c], m.time)
<1>1. /\ StateTypes /\ MailTypes /\ Progress(w) /\ ProtocolInv(w) /\ ClockTypes /\ TimesInv(w)
      /\ \A u \in Where : ProtocolInv(u)' => u = v
  BY SteppingFacts
<1>2. c \in Procs /\ c # PARENT_ID /\ lamport_time[c] \in Nat
  BY <1>1, ProcsFacts DEF ClockTypes
<1>3. /\ from[c] <= N /\ receive(c, f) /\ SetTime(c, t)
      /\ UNCHANGED <<outbox, polled, balance, history, ordered>>
  BY DEF ReceiveNextTimed, ReceiveNext
<1>4. /\ f \in Children \ {c} /\ f \in Procs /\ m.type = type
      /\ type = "DONE" => Mail(f, c) = <<"DONE">>
  BY <1>1, <1>3, ChildHeadsType, ProcsFacts
<1>5. from' = [from EXCEPT ![c] = NextFrom(c, f)] /\ UNCHANGED <<pc, all_history>>
  BY <1>4 DEF ReceiveNextTimed, ReceiveNext
<1>6. v = w
  <2>1. ProtocolInv(w)'
    BY <1>1, ChildHears DEF ReceiveNextTimed
  <2> QED
    BY <1>1, <2>1
<1>7. m.time \in Nat
  BY <1>1, <1>2, <1>3, <1>4, LinkFirst, MessageFacts
<1>8. /\ from'[c] = NextFrom(c, f) /\ \A a \in Procs \ {c} : from'[a] = from[a]
      /\ lamport_time'[c] = t /\ \A a \in Procs \ {c} : lamport_time'[a] = lamport_time[a]
  BY <1>1, <1>2, <1>3, <1>5, SetTimeFacts DEF StateTypes
<1>9. Moves(c, {}, NoMessage)
  <2>1. \A a, b \in Procs : Link(a, b)' = IF a = f /\ b = c THEN Tail(Link(a, b)) ELSE Link(a, b)
    BY <1>1, <1>2, <1>3, <1>4, LinkReads
  <2>2. Link(f, c) # <<>>
    BY <1>1, <1>2, <1>3, <1>4, LinkFirst
  <2> QED
    BY <1>3, <1>5, <1>8, <2>1, <2>2 DEF Moves, SameState
<1>10. Archives(c, {}, NoMessage)
  BY <1>5 DEF Archives
<1>11. Counts(c, {})
  <2>1. ASSUME NEW q \in Children \ {c}, HeardDone(c, q)'
        PROVE  HeardDone(c, q) \/ Mail(q, c) # <<>>
    <3>1. pc[c] = "await_done" /\ q < from'[c] /\ type = "DONE"
      BY <1>5, <2>1 DEF HeardDone
    <3>2. q < f \/ q = f
      BY <1>2, <1>4, <1>8, <3>1, CursorNext
    <3>3. CASE q < f
      <4>1. pc[c] = "await_done" /\ q < from[c]
        BY <3>1, <3>3
      <4> QED
        BY <4>1 DEF HeardDone
    <3>4. CASE q = f
      <4>1. Mail(q, c) = <<"DONE">>
        BY <1>4, <3>1, <3>4
      <4>2. <<"DONE">> # <<>>
        OBVIOUS
      <4> QED
        BY <4>1, <4>2
    <3> QED
      BY <3>2, <3>3, <3>4
  <2>2. SaidDone(c)' <=> SaidDone(c)
    BY <1>5 DEF SaidDone
  <2> QED
    BY <2>1, <2>2 DEF Counts
<1>12. Keeps(w, v, c, {}, NoMessage)
  <2> SUFFICES ASSUME Punctual(w) PROVE OnTime(v, c)'
    BY DEF Keeps
  <2>1. TimedAt(ordered, f, m)
    BY <1>1, <1>2, <1>3, <1>4, ReadOnTime DEF Punctual
  <2>2. Passed(c)' = Passed(c) + 1 /\ Passed(c) \in Nat
    BY <1>4, <1>8, PassedNext
  <2>3. ChildOnTime(w, c)
    BY <1>2 DEF Punctual, OnTime
  <2>4. CASE type = "STARTED"
    <3>1. lamport_time[c] = 1 + Passed(c) /\ m.time = 1
      BY <1>4, <2>1, <2>3, <2>4 DEF ChildOnTime, TimedAt
    <3>2. t = 1 + Passed(c)'
      BY <2>2, <3>1 DEF Synchronized
    <3>3. pc'[c] = "await_started"
      BY <1>5, <2>4
    <3> QED
      BY <1>2, <1>8, <3>2, <3>3 DEF OnTime, ChildOnTime
  <2>5. CASE type = "DONE"
    <3>1. lamport_time[c] = StopTime + 2 + Passed(c) /\ m.time = StopTime + 2
      BY <1>4, <2>1, <2>3, <2>5 DEF ChildOnTime, TimedAt
    <3>2. t = StopTime + 2 + Passed(c)'
      <4>1. StopTime \in Nat
        BY TurnFacts
      <4> QED
        BY <2>2, <3>1, <4>1 DEF Synchronized
    <3>3. pc'[c] = "await_done"
      BY <1>5, <2>5
    <3> QED
      BY <1>2, <1>8, <3>2, <3>3 DEF OnTime, ChildOnTime
  <2> QED
    BY <2>4, <2>5
<1>13. Recorded(v, c)'
  <2>1. lamport_time[c] <= lamport_time'[c]
    BY <1>2, <1>7, <1>8 DEF Synchronized
  <2> QED
    BY <1>3, <1>6, <2>1, RecordedKept
<1> QED
  BY <1>2, <1>6, <1>9, <1>10, <1>11, <1>12, <1>13, Frame

\* A step of p after which the same messages are under way, at the same time.
LEMMA TimedQuiet ==
  ASSUME NEW w \in Where, NEW v \in Where, Stepping(w, v), ProtocolInv(w)', NEW p \in Procs,
         \A a, b \in Procs : Link(a, b)' = Link(a, b),
         UNCHANGED <<balance, history, all_history, ordered, lamport_time>>,
         \A a \in Procs \ {p} : SameState(a),
         p \in Children => /\ SaidDone(p) => SaidDone(p)'
                           /\ \A q \in Children \ {p} : HeardDone(p, q)' => HeardDone(p, q),
         p = PARENT_ID => (SaidStop' <=> SaidStop),
         Punctual(w) => OnTime(w, p)'
  PROVE  TimesInv(v)'
<1>1. /\ TimesInv(w) /\ ClockTypes /\ \A u \in Where : ProtocolInv(u)' => u = v
  BY SteppingFacts
<1>2. v = w
  BY <1>1
<1>3. Moves(p, {}, NoMessage)
  BY DEF Moves
<1>4. Archives(p, {}, NoMessage)
  BY DEF Archives
<1>5. Counts(p, {})
  BY DEF Counts
<1>6. Keeps(w, v, p, {}, NoMessage)
  BY <1>2 DEF Keeps
<1>7. ASSUME p \in Children PROVE Recorded(v, p)'
  <2>1. lamport_time[p] \in Nat /\ lamport_time'[p] = lamport_time[p]
    BY <1>1 DEF ClockTypes
  <2>2. lamport_time[p] <= lamport_time'[p]
    BY <2>1
  <2> QED
    BY <1>2, <1>7, <2>2, RecordedKept
<1>8. SaidStop' /\ p = PARENT_ID => ordered' = Len(Orders)
  BY <1>1 DEF TimesInv
<1> QED
  BY <1>2, <1>3, <1>4, <1>5, <1>6, <1>7, <1>8, Frame

\* The child has STARTED of all the others.
LEMMA TimedBegins ==
  ASSUME NEW w \in Where, NEW v \in Where, Stepping(w, v), NEW c \in Children,
         At(c, "await_started"), ReceiveEnd(c), Goto(c, "loop"), UNCHANGED <<outbox, lamport_time>>
  PROVE  TimesInv(v)'
<1>1. /\ StateTypes /\ Progress(w) /\ ProtocolInv(w) /\ ClockTypes
  BY SteppingFacts
<1>2. c \in Procs /\ c # PARENT_ID
  BY ProcsFacts
<1>3. ProtocolInv(w)'
  BY <1>1, ChildBegins
<1>4. /\ from[c] > N /\ from' = [from EXCEPT ![c] = NextFrom(c, PARENT_ID)]
      /\ UNCHANGED <<pipes, polled, balance, history, all_history, ordered>>
  BY DEF ReceiveEnd
<1>5. /\ pc[c] = "await_started" /\ pc'[c] = "loop" /\ \A a \in Procs \ {c} : pc'[a] = pc[a]
      /\ \A a \in Procs \ {c} : from'[a] = from[a]
  BY <1>1, <1>2, <1>4, GotoFacts DEF At, StateTypes
<1>6. \A a, b \in Procs : Link(a, b)' = Link(a, b)
  BY <1>4, LinksSame
<1>7. ASSUME Punctual(w) PROVE OnTime(w, c)'
  <2>1. lamport_time[c] = 1 + Passed(c)
    BY <1>2, <1>5, <1>7 DEF Punctual, OnTime, ChildOnTime
  <2>2. from[c] = N + 1
    <3>1. from[c] \in 1..(N + 1) /\ N \in Nat
      BY <1>1, <1>2, TurnFacts DEF StateTypes
    <3> QED
      BY <1>4, <3>1
  <2>3. lamport_time[c] < Horizon(w)
    <3>1. lamport_time[c] = 1 + (N - 1)
      BY <2>1, <2>2, PassedFacts
    <3>2. Horizon(w) \in Nat /\ Turn(0) + 2 <= Horizon(w) /\ Turn(0) = N + 1 /\ N \in Nat
      BY <1>1, HorizonType, TurnFacts
    <3> QED
      BY <3>1, <3>2
  <2>4. Horizon(w)' = Horizon(w)
    BY <1>4 DEF Horizon
  <2>5. ChildOnTime(w, c)'
    BY <1>5, <2>3, <2>4 DEF ChildOnTime
  <2> QED
    BY <1>2, <2>5 DEF OnTime
<1>8. ~SaidDone(c) /\ \A q \in Children : ~HeardDone(c, q)'
  BY <1>5 DEF SaidDone, HeardDone
<1> QED
  BY <1>2, <1>3, <1>4, <1>5, <1>6, <1>7, <1>8, TimedQuiet DEF SameState

\* A child hears STARTED of the others.
LEMMA TimedAwaitStarted ==
  ASSUME NEW w \in Where, NEW v \in Where, Stepping(w, v), NEW c \in Children, AwaitStarted(c)
  PROVE  TimesInv(v)'
<1>1. At(c, "await_started") /\ pc[c] = "await_started"
  BY DEF AwaitStarted, At
<1>2. CASE ReceiveNextTimed(c, "STARTED")
  BY <1>1, <1>2, TimedHears
<1>3. CASE ReceiveEnd(c) /\ Goto(c, "loop") /\ UNCHANGED <<outbox, lamport_time>>
  BY <1>1, <1>3, TimedBegins
<1> QED
  BY <1>2, <1>3 DEF AwaitStarted

\* The pipe of a child that has returned from main is at its end.
LEMMA TimedSpins ==
  ASSUME NEW w \in Where, NEW v \in Where, Stepping(w, v), NEW c \in Children,
         At(c, "await_done"), SpinOnEof(c), UNCHANGED lamport_time
  PROVE  TimesInv(v)'
<1>1. StateTypes /\ ProtocolInv(w)
  BY SteppingFacts
<1>2. c \in Procs /\ c # PARENT_ID
  BY ProcsFacts
<1>3. ProtocolInv(w)'
  BY <1>1, ChildSpins
<1>4. /\ Goto(c, "spin")
      /\ UNCHANGED <<pipes, outbox, from, polled, balance, history, all_history, ordered>>
  BY DEF SpinOnEof
<1>5. pc'[c] = "spin" /\ \A a \in Procs \ {c} : pc'[a] = pc[a]
  BY <1>1, <1>2, <1>4, GotoFacts
<1>6. \A a, b \in Procs : Link(a, b)' = Link(a, b)
  BY <1>4, LinksSame
<1>7. OnTime(w, c)'
  BY <1>2, <1>5 DEF OnTime, ChildOnTime
<1>8. SaidDone(c)' /\ \A q \in Children : ~HeardDone(c, q)'
  BY <1>5 DEF SaidDone, HeardDone
<1> QED
  BY <1>2, <1>3, <1>4, <1>5, <1>6, <1>7, <1>8, TimedQuiet DEF SameState

\* Returning from main changes no clock.
LEMMA TimedReturns ==
  ASSUME NEW w \in Where, NEW v \in Where, Stepping(w, v), NEW c \in Children,
         ChildExit(c), UNCHANGED lamport_time
  PROVE  TimesInv(v)'
<1>1. StateTypes /\ ProtocolInv(w)
  BY SteppingFacts
<1>2. c \in Procs /\ c # PARENT_ID
  BY ProcsFacts
<1>3. ProtocolInv(w)'
  BY <1>1, ChildReturns
<1>4. /\ pc[c] = "send_history" /\ Goto(c, "exited")
      /\ UNCHANGED <<pipes, outbox, from, polled, balance, history, all_history, ordered>>
  BY DEF ChildExit, At
<1>5. pc'[c] = "exited" /\ \A a \in Procs \ {c} : pc'[a] = pc[a]
  BY <1>1, <1>2, <1>4, GotoFacts
<1>6. \A a, b \in Procs : Link(a, b)' = Link(a, b)
  BY <1>4, LinksSame
<1>7. OnTime(w, c)'
  BY <1>2, <1>5 DEF OnTime, ChildOnTime
<1>8. SaidDone(c)' /\ \A q \in Children : HeardDone(c, q)
  BY <1>4, <1>5 DEF SaidDone, HeardDone
<1> QED
  BY <1>2, <1>3, <1>4, <1>5, <1>6, <1>7, <1>8, TimedQuiet DEF SameState

\* A write of a send loop takes the message from the buffer to the pipe.
LEMMA TimedWrites ==
  ASSUME NEW w \in Where, NEW v \in Where, Stepping(w, v), NEW p \in Procs,
         Write(p), UNCHANGED lamport_time
  PROVE  TimesInv(v)'
<1>1. StateTypes /\ ProtocolInv(w) /\ MailTypes
  BY SteppingFacts
<1>2. ProtocolInv(w)' /\ UNCHANGED pc
  BY <1>1, Writes
<1>3. UNCHANGED <<from, balance, history, all_history, ordered>>
  BY DEF Write
<1>4. \A a, b \in Procs : Link(a, b)' = Link(a, b)
  <2>1. PICK d \in Procs : /\ NextDst(p, d)
                           /\ IF HungUp(d)
                                THEN Goto(p, "killed")
                                ELSE /\ pipes' = [pipes EXCEPT ![d][p] = Append(@, outbox[p][d])]
                                     /\ outbox' = [outbox EXCEPT ![p][d] = NoMessage]
    BY DEF Write
  <2>2. outbox[p][d] # NoMessage
    BY <2>1 DEF NextDst
  <2>3. ~HungUp(d)
    BY <1>1, <2>2, NobodyGone DEF HungUp
  <2> QED
    BY <1>1, <2>1, <2>2, <2>3, LinkWrites
<1>5. \A a \in Procs : SameState(a)
  BY <1>2, <1>3 DEF SameState
<1>6. /\ SaidDone(p)' <=> SaidDone(p)
      /\ \A q \in Children : HeardDone(p, q)' <=> HeardDone(p, q)
      /\ SaidStop' <=> SaidStop
  BY <1>2, <1>3 DEF SaidDone, HeardDone, SaidStop
<1>7. Punctual(w) => OnTime(w, p)'
  <2>1. OnTime(w, p)' <=> OnTime(w, p)
    BY <1>2, <1>3 DEF OnTime, ChildOnTime, ParentOnTime, Passed, Horizon
  <2> QED
    BY <2>1 DEF Punctual
<1> QED
  BY <1>2, <1>3, <1>4, <1>5, <1>6, <1>7, TimedQuiet

\* Nothing is found.
LEMMA TimedPollsNothing ==
  ASSUME NEW w \in Where, NEW v \in Where, Stepping(w, v), NEW c \in Children,
         PollEmpty(c), UNCHANGED lamport_time
  PROVE  TimesInv(v)'
<1>1. ProtocolInv(w) /\ c \in Procs
  BY SteppingFacts, ProcsFacts
<1>2. ProtocolInv(w)'
  BY <1>1, PollsNothing
<1>3. UNCHANGED <<pipes, outbox, pc, from, balance, history, all_history, ordered>>
  BY DEF PollEmpty
<1>4. \A a, b \in Procs : Link(a, b)' = Link(a, b)
  BY <1>3, LinksSame
<1>5. \A a \in Procs : SameState(a)
  BY <1>3 DEF SameState
<1>6. /\ SaidDone(c)' <=> SaidDone(c)
      /\ \A q \in Children : HeardDone(c, q)' <=> HeardDone(c, q)
      /\ SaidStop' <=> SaidStop
  BY <1>3 DEF SaidDone, HeardDone, SaidStop
<1>7. Punctual(w) => OnTime(w, c)'
  <2>1. OnTime(w, c)' <=> OnTime(w, c)
    BY <1>3 DEF OnTime, ChildOnTime, ParentOnTime, Passed, Horizon
  <2> QED
    BY <1>1, <2>1 DEF Punctual
<1> QED
  BY <1>1, <1>2, <1>3, <1>4, <1>5, <1>6, <1>7, TimedQuiet

\* Before STOP there is no DONE to drop, so that everything is on time.
LEMMA OrderOnTime ==
  ASSUME NEW w \in Where, ProtocolInv(w), TimesInv(w), w # "none"
  PROVE  Lossless /\ Punctual(w)
<1>1. Progress(w) /\ ~SaidStop
  BY CurrentOrder DEF ProtocolInv
<1>2. \A c \in Children : ~SaidDone(c)
  BY <1>1 DEF Progress
<1> QED
  BY <1>2 DEF Lossless, TimesInv

\* After STOP there are no changes to come.
LEMMA NothingToCome ==
  ASSUME NEW w \in Where, ProtocolInv(w), TimesInv(w), SaidStop
  PROVE  w = "none" /\ \A t : Foreseen(w, t)
<1>1. w = "none"
  BY AfterStop DEF ProtocolInv
<1> QED
  BY <1>1 DEF TimesInv, Foreseen

\* The history filled up to the receipt.
LEMMA FilledRight ==
  ASSUME NEW w \in Where, NEW v \in Where, Stepping(w, v), NEW c \in Children, PollMessage(c),
         \A t \in Nat : t < ReceiptTime(c) => Foreseen(w, t)
  PROVE  /\ ReceiptTime(c) \in Nat /\ lamport_time[c] \in Nat
         /\ lamport_time[c] < ReceiptTime(c) /\ Polled(c).time < ReceiptTime(c)
         /\ Filled(c) \in History /\ Shows(Filled(c), c)
         /\ Filled(c).s_history_len = ReceiptTime(c)
<1>1. /\ ProtocolInv(w) /\ StateTypes /\ ClockTypes /\ TimesInv(w) /\ c \in Procs
  BY SteppingFacts, ProcsFacts
<1>2. /\ ReceiptTime(c) \in Nat /\ Filled(c) \in History /\ lamport_time[c] \in Nat
      /\ history[c] \in History /\ Polled(c).time \in Nat
  BY <1>1, Receipt, PolledMessage DEF StateTypes, ClockTypes
<1>3. lamport_time[c] < ReceiptTime(c) /\ Polled(c).time < ReceiptTime(c)
  BY <1>2 DEF ReceiptTime, Synchronized
<1>4. Recorded(w, c)
  BY <1>1 DEF TimesInv
<1>5. /\ Shows(Filled(c), c)
      /\ Filled(c).s_history_len = IF ReceiptTime(c) > history[c].s_history_len THEN ReceiptTime(c)
                                   ELSE history[c].s_history_len
  <2> DEFINE T == ReceiptTime(c)  h == history[c]  state == State(balance[c], 0)
  <2>1. \A t \in Nat : h.s_history_len <= t /\ t < T => Right(state, c, t)
    BY <1>4 DEF Recorded
  <2>2. Shows(h, c) /\ T \in Nat /\ h \in History /\ Filled(c) = FillHistory(h, T, state)
    BY <1>2, <1>4 DEF Recorded, Filled
  <2> HIDE DEF T, h, state
  <2>3. /\ Shows(Filled(c), c)
        /\ Filled(c).s_history_len = IF T > h.s_history_len THEN T ELSE h.s_history_len
    BY <2>1, <2>2, FillRight
  <2> QED
    BY <2>3 DEF T, h
<1>6. history[c].s_history_len \in Nat /\ history[c].s_history_len <= lamport_time[c] + 1
  BY <1>2, <1>4 DEF Recorded, History
<1>7. history[c].s_history_len <= ReceiptTime(c)
  BY <1>2, <1>3, <1>6
<1> QED
  BY <1>2, <1>3, <1>5, <1>6, <1>7

\* What a receipt in the loop of child_entry and the message that follows it change.
LEMMA LoopMoves ==
  ASSUME NEW w \in Where, NEW v \in Where, Stepping(w, v), NEW c \in Children, At(c, "loop"),
         PollMessage(c), NEW D, NEW m \in BankMessage, Post(c, D, m),
         \A a \in Procs \ {c} : pc'[a] = pc[a] /\ lamport_time'[a] = lamport_time[a],
         \A a \in Children \ {c} : history'[a] = history[a] /\ balance'[a] = balance[a]
  PROVE  Moves(c, D, m) /\ UNCHANGED <<from, all_history, ordered>>
<1>1. StateTypes /\ MailTypes /\ ProtocolInv(w) /\ ClockTypes /\ c \in Procs /\ c # PARENT_ID
  BY SteppingFacts, ProcsFacts
<1>2. /\ receive(c, polled[c]) /\ UNCHANGED <<from, all_history, ordered>> /\ ~Sending(c)
      /\ pc[c] = "loop" /\ polled[c] \in Procs
  BY <1>1 DEF PollMessage, At, StateTypes
<1>3. polled[c] # c
  BY <1>1, <1>2, FoundInLoop
<1>4. \A a, b1 \in Procs :
        Link(a, b1)' = IF a = polled[c] /\ b1 = c THEN Tail(Link(a, b1))
                       ELSE IF a = c /\ b1 \in D THEN Append(Link(a, b1), m)
                       ELSE Link(a, b1)
  BY <1>1, <1>2, <1>3, LinkHandler
<1>5. Link(polled[c], c) # <<>>
  BY <1>1, <1>2, LinkFirst
<1>6. Moves(c, D, m)
  BY <1>1, <1>2, <1>4, <1>5 DEF Moves, SameState
<1> QED
  BY <1>2, <1>6

\* STOP comes at the same time for every child, and so does its DONE.
LEMMA TimedTakeStop ==
  ASSUME NEW w \in Where, NEW v \in Where, Stepping(w, v), NEW c \in Children, At(c, "loop"),
         TakeStop(c)
  PROVE  TimesInv(v)'
<1> DEFINE r == ReceiptTime(c)  t == r + 1  m == [type |-> "DONE", time |-> t]  D == Procs \ {c}
<1>1. /\ StateTypes /\ MailTypes /\ Progress(w) /\ ProtocolInv(w) /\ ClockTypes /\ TimesInv(w)
      /\ \A u \in Where : ProtocolInv(u)' => u = v
      /\ ProtocolInv(v)' /\ Transacts(w, v)
  BY SteppingFacts
<1>2. c \in Procs /\ c # PARENT_ID
  BY ProcsFacts
<1>3. /\ PollMessage(c) /\ Polled(c).type = "STOP" /\ SetTime(c, t) /\ send_multicast(c, m)
      /\ Goto(c, "await_done") /\ balance' = balance
      /\ history' = [history EXCEPT ![c] = Filled(c)]
  BY DEF TakeStop, Multicast
<1>4. /\ receive(c, polled[c]) /\ polled[c] \in Procs /\ pc[c] = "loop"
  BY <1>1, <1>3 DEF PollMessage, At, StateTypes
<1>5. SaidStop
  BY <1>1, <1>3, <1>4, FoundInLoop DEF Polled
<1>6. w = "none" /\ \A s : Foreseen(w, s)
  BY <1>1, <1>5, NothingToCome
<1>7. /\ r \in Nat /\ lamport_time[c] \in Nat /\ lamport_time[c] < r
      /\ Filled(c) \in History /\ Shows(Filled(c), c) /\ Filled(c).s_history_len = r
  BY <1>3, <1>6, FilledRight
<1>8. m \in BankMessage /\ m.type = "DONE" /\ m.time = t /\ t \in Nat
  <2>1. t \in Nat
    BY <1>7
  <2> HIDE DEF t
  <2> QED
    BY <2>1, PlainMessage
<1>9. r = Synchronized(lamport_time[c], Polled(c).time)
  BY DEF ReceiptTime
<1> HIDE DEF m, r
<1>10. v = "none" /\ ordered' = ordered
  <2>1. history' \in [Children -> History] /\ balance' \in [Children -> Int]
    BY <1>1, <1>3, <1>7 DEF StateTypes
  <2>2. ProtocolInv(w)'
    BY <1>1, <1>3, <1>8, <2>1, TakesStop
  <2> QED
    BY <1>1, <1>3, <1>6, <2>2 DEF PollMessage
<1>11. pc'[c] = "await_done" /\ \A a \in Procs \ {c} : pc'[a] = pc[a]
  BY <1>1, <1>2, <1>3, GotoFacts
<1>12. /\ Moves(c, D, m) /\ lamport_time'[c] = t /\ history'[c] = Filled(c)
       /\ balance'[c] = balance[c] /\ UNCHANGED <<from, all_history>>
  <2> HIDE DEF D, t
  <2>1. Post(c, D, m)
    BY <1>3 DEF send_multicast, D
  <2>2. lamport_time'[c] = t /\ \A a \in Procs \ {c} : lamport_time'[a] = lamport_time[a]
    BY <1>1, <1>2, <1>3, SetTimeFacts
  <2>3. history'[c] = Filled(c) /\ \A a \in Children \ {c} : history'[a] = history[a]
    BY <1>1, <1>3 DEF StateTypes
  <2> QED
    BY <1>3, <1>8, <1>11, <2>1, <2>2, <2>3, LoopMoves
<1>13. Archives(c, D, m)
  BY <1>8, <1>12 DEF Archives
<1>14. Counts(c, D)
  <2>1. ~SaidDone(c)
    BY <1>4 DEF SaidDone
  <2>2. ASSUME NEW q \in Children \ {c} PROVE ~HeardDone(c, q)'
    <3>1. from'[c] = NextFrom(c, PARENT_ID)
      BY <1>1, <1>2, <1>4, <1>12 DEF Progress, Idle
    <3>2. ~(q < from'[c])
      BY <1>2, <3>1, CursorStart
    <3> QED
      BY <1>11, <3>2 DEF HeardDone
  <2> QED
    BY <2>1, <2>2 DEF Counts
<1>15. Keeps(w, v, c, D, m)
  <2> SUFFICES ASSUME Punctual(w) PROVE OnTime(v, c)' /\ TimedAt(ordered', c, m)
    BY DEF Keeps
  <2>1. TimedAt(ordered, polled[c], Polled(c))
    BY <1>1, <1>2, <1>4, ReadOnTime DEF Punctual, Polled
  <2>2. Polled(c).time = StopTime
    BY <1>3, <2>1 DEF TimedAt
  <2>3. lamport_time[c] < StopTime + 1
    <3>1. lamport_time[c] < Horizon(w)
      BY <1>2, <1>4 DEF Punctual, OnTime, ChildOnTime
    <3>2. ordered = Len(Orders)
      BY <1>1, <1>5 DEF TimesInv
    <3>3. Horizon(w) = StopTime + 1
      <4>1. Horizon(w) = Turn(Len(Orders)) + 2
        BY <1>6, <3>2 DEF Horizon
      <4>2. StopTime = Turn(Len(Orders)) + 1 /\ Turn(Len(Orders)) \in Nat
        BY OrderFacts, TurnFacts
      <4> QED
        BY <4>1, <4>2
    <3> QED
      BY <3>1, <3>3
  <2>4. t = StopTime + 2
    <3>1. StopTime \in Nat
      BY TurnFacts
    <3> QED
      BY <1>7, <1>9, <2>2, <2>3, <3>1 DEF Synchronized
  <2>5. Passed(c)' = 0
    <3>1. from'[c] = NextFrom(c, PARENT_ID)
      BY <1>1, <1>2, <1>4, <1>12 DEF Progress, Idle
    <3> QED
      BY <3>1, NAssumption DEF Passed, Children, NextFrom, PARENT_ID
  <2>6. lamport_time'[c] = StopTime + 2 + 0
    <3>1. StopTime \in Nat
      BY TurnFacts
    <3> QED
      BY <1>12, <2>4, <3>1
  <2>7. ChildOnTime(v, c)'
    BY <1>11, <2>5, <2>6 DEF ChildOnTime
  <2>8. TimedAt(ordered', c, m)
    BY <1>8, <2>4 DEF TimedAt
  <2> QED
    BY <1>2, <2>7, <2>8 DEF OnTime
<1>16. Recorded(v, c)'
  <2>1. history'[c].s_history_len <= lamport_time'[c] + 1
    BY <1>7, <1>12
  <2>2. ASSUME NEW s \in Nat, history'[c].s_history_len <= s
        PROVE  Right(State(balance'[c], 0), c, s)
    <3>1. history[c].s_history_len <= s
      <4>1. history[c].s_history_len <= lamport_time[c] + 1 /\ history[c].s_history_len \in Nat
        BY <1>1 DEF TimesInv, Recorded, StateTypes, History
      <4> QED
        BY <1>7, <1>12, <2>2, <4>1
    <3> QED
      BY <1>1, <1>6, <1>12, <3>1 DEF TimesInv, Recorded
  <2> QED
    BY <1>7, <1>12, <2>1, <2>2 DEF Recorded
<1> QED
  BY <1>2, <1>6, <1>8, <1>12, <1>13, <1>14, <1>15, <1>16, Frame

\* The time at which the source gets its order, and the destination the money.
LEMMA OrderReceipt ==
  ASSUME NEW w \in Where, ProtocolInv(w), TimesInv(w), ClockTypes, NEW c \in Children,
         At(c, "loop"), PollMessage(c), Polled(c).type = "TRANSFER"
  PROVE  /\ w \in {"out", "over"} /\ Polled(c).order = Orders[ordered]
         /\ w = "out" => c = Src /\ polled[c] = PARENT_ID
         /\ w = "over" => c = Dst /\ polled[c] = Src
         /\ ReceiptTime(c) = Horizon(w)
         /\ Lossless /\ Punctual(w)
<1>1. /\ StateTypes /\ MailTypes /\ Progress(w) /\ c \in Procs /\ c # PARENT_ID
      /\ receive(c, polled[c]) /\ polled[c] \in Procs /\ pc[c] = "loop"
  BY ProcsFacts DEF ProtocolInv, StateTypes, PollMessage, At
<1>2. OrderOn(w, polled[c], c) /\ Polled(c).order = Orders[ordered]
  BY <1>1, FoundInLoop DEF Polled
<1>3. /\ w \in {"out", "over"}
      /\ w = "out" => c = Src /\ polled[c] = PARENT_ID
      /\ w = "over" => c = Dst /\ polled[c] = Src
  BY <1>2 DEF OrderOn
<1>4. Lossless /\ Punctual(w)
  BY <1>3, OrderOnTime
<1>5. /\ TimedAt(ordered, polled[c], Polled(c))
      /\ lamport_time[c] < Horizon(w) /\ lamport_time[c] \in Nat
  <2>1. ChildOnTime(w, c)
    BY <1>1, <1>4 DEF Punctual, OnTime
  <2> QED
    BY <1>1, <1>4, <2>1, ReadOnTime DEF Punctual, Polled, ChildOnTime, ClockTypes
<1>6. Turn(ordered - 1) \in Nat /\ Src # PARENT_ID
  <2>1. w # "none"
    BY <1>3
  <2>2. Src \in Children
    BY <1>1, <2>1, CurrentOrder
  <2> QED
    BY <2>1, <2>2, OrderTimes, ProcsFacts
<1>7. Polled(c).time + 1 = Horizon(w)
  <2>1. CASE w = "out"
    <3>1. Polled(c).time = Turn(ordered - 1) + 1
      BY <1>3, <1>5, <2>1 DEF TimedAt
    <3> QED
      BY <1>6, <2>1, <3>1 DEF Horizon
  <2>2. CASE w = "over"
    <3>1. Polled(c).time = Turn(ordered - 1) + 3
      BY <1>3, <1>5, <1>6, <2>2 DEF TimedAt
    <3> QED
      BY <1>6, <2>2, <3>1 DEF Horizon
  <2> QED
    BY <1>3, <2>1, <2>2
<1>8. Horizon(w) \in Nat
  BY HorizonType
<1>9. Polled(c).time \in Nat
  BY PolledMessage
<1>10. ReceiptTime(c) = Horizon(w)
  BY <1>5, <1>7, <1>8, <1>9 DEF ReceiptTime, Synchronized
<1> QED
  BY <1>2, <1>3, <1>4, <1>10

\* The money leaves at the horizon and is shown under way for the time of two entries.
LEMMA TimedTransferOut ==
  ASSUME NEW w \in Where, NEW v \in Where, Stepping(w, v), NEW c \in Children, At(c, "loop"),
         TransferOut(c)
  PROVE  TimesInv(v)'
<1> DEFINE left == balance[c] - Polled(c).order.amount
           pending == State(left, Polled(c).order.amount)
           r == ReceiptTime(c)
           t == r + 1
           m == [Polled(c) EXCEPT !.time = t]
           g == record_history(Filled(c), r, pending)
           h == record_history(g, t, pending)
           D == {Polled(c).order.dst}
<1>1. /\ StateTypes /\ MailTypes /\ Progress(w) /\ ProtocolInv(w) /\ ClockTypes /\ TimesInv(w)
      /\ \A u \in Where : ProtocolInv(u)' => u = v
      /\ ProtocolInv(v)' /\ Transacts(w, v) /\ Accounts(w) /\ Accounts(v)'
  BY SteppingFacts
<1>2. c \in Procs /\ c # PARENT_ID
  BY ProcsFacts
<1>3. /\ PollMessage(c) /\ IsSource(c, Polled(c)) /\ SetTime(c, t)
      /\ send(c, Polled(c).order.dst, m) /\ pc' = pc
      /\ balance' = [balance EXCEPT ![c] = left]
      /\ history' = [history EXCEPT ![c] = h]
  BY DEF TransferOut
<1>4. Polled(c).type = "TRANSFER" /\ Polled(c).order.src = c
  BY <1>3 DEF IsSource
<1>5. /\ w \in {"out", "over"} /\ Polled(c).order = Orders[ordered] /\ r = Horizon(w)
      /\ w = "out" => c = Src /\ polled[c] = PARENT_ID
      /\ w = "over" => c = Dst
      /\ Lossless /\ Punctual(w)
  BY <1>1, <1>3, <1>4, OrderReceipt
<1>6. w = "out"
  <2>1. Src # Dst
    BY <1>1, <1>5, CurrentOrder
  <2> QED
    BY <1>4, <1>5, <2>1 DEF Src
<1>7. /\ r \in Nat /\ lamport_time[c] \in Nat /\ lamport_time[c] < r
      /\ Filled(c) \in History /\ Shows(Filled(c), c) /\ Filled(c).s_history_len = r
  <2>1. \A s \in Nat : s < r => Foreseen(w, s)
    BY <1>5 DEF Foreseen
  <2> QED
    BY <1>3, <2>1, FilledRight
<1>8. /\ Polled(c) \in BankMessage /\ Polled(c).order.amount \in Int
      /\ m \in BankMessage /\ m.type = "TRANSFER" /\ m.order = Polled(c).order /\ m.time = t
      /\ t \in Nat
  <2>1. Polled(c) \in BankMessage /\ Polled(c).order.amount \in Int
    BY <1>1, <1>3, <1>4, PolledMessage
  <2>2. t \in Nat
    BY <1>7
  <2> HIDE DEF t
  <2>3. m \in BankMessage /\ m.type = "TRANSFER" /\ m.order = Polled(c).order
    BY <1>4, <2>1, <2>2, ForwardedMessage
  <2>4. m.time = t
    BY <1>4, <2>1 DEF BankMessage
  <2> QED
    BY <2>1, <2>2, <2>3, <2>4
<1>9. /\ Turn(ordered - 1) \in Nat /\ r = Turn(ordered - 1) + 2
      /\ ordered \in 1..Len(Orders) /\ Turn(ordered) = Turn(ordered - 1) + 6
  <2>1. w # "none"
    BY <1>6
  <2> QED
    BY <1>1, <1>5, <1>6, <2>1, OrderTimes DEF Horizon
<1> HIDE DEF m, left
<1>10. pending \in BalanceState /\ left \in Int
  BY <1>1, <1>8 DEF StateTypes, State, BalanceState, left
<1>11. g \in History /\ h \in History
  <2>1. g \in History
    BY <1>7, <1>10, RecordType
  <2> QED
    BY <1>8, <1>10, <2>1, RecordType
<1> HIDE DEF pending
<1>12. v = "over" /\ ordered' = ordered
  <2>1. history' \in [Children -> History] /\ balance' \in [Children -> Int]
    BY <1>1, <1>3, <1>10, <1>11 DEF StateTypes
  <2>2. ProtocolInv("over")'
    BY <1>1, <1>3, <1>8, <2>1, TakesOrder
  <2> QED
    BY <1>1, <1>3, <2>2 DEF PollMessage, Where
<1>13. left = balance'[c] /\ balance'[c] = Taken(After[ordered - 1], Orders[ordered])[c]
  BY <1>1, <1>3, <1>12 DEF StateTypes, Accounts
<1>14. ASSUME NEW s \in {r, t} PROVE Right(pending, c, s)
  <2>1. s \in Nat /\ Turn(ordered - 1) + 2 <= s /\ s < Turn(ordered - 1) + 4 /\ s < Turn(ordered) + 2
    BY <1>7, <1>9
  <2>2. Begun(ordered, s) /\ ordered \in 0..Len(Orders) /\ ordered # 0
    BY <1>9, <2>1 DEF Begun
  <2>3. pending = State(Taken(After[ordered - 1], Orders[ordered])[c], Orders[ordered].amount)
    BY <1>5, <1>13 DEF pending
  <2>4. c = Orders[ordered].src
    BY <1>4, <1>5
  <2>5. pending = Entry(ordered, c, s)
    BY <2>1, <2>2, <2>3, <2>4 DEF Entry
  <2> QED
    BY <2>1, <2>2, <2>5, RightFrom
<1>15. Shows(h, c) /\ h.s_history_len = t + 1
  <2>1. Right(pending, c, r) /\ Right(pending, c, t)
    BY <1>14
  <2> HIDE DEF h
  <2>2. Shows(g, c) /\ g.s_history_len = t
    BY <1>7, <2>1, RecordRight
  <2> HIDE DEF g, t
  <2> QED
    BY <1>11, <2>1, <2>2, RecordRight DEF h
<1> HIDE DEF h
<1>16. /\ Moves(c, D, m) /\ lamport_time'[c] = t /\ history'[c] = h
       /\ UNCHANGED <<from, all_history>>
  <2>1. Post(c, D, m)
    BY <1>3 DEF send
  <2>2. lamport_time'[c] = t /\ \A a \in Procs \ {c} : lamport_time'[a] = lamport_time[a]
    BY <1>1, <1>2, <1>3, SetTimeFacts
  <2>3. /\ history'[c] = h
        /\ \A a \in Children \ {c} : history'[a] = history[a] /\ balance'[a] = balance[a]
    BY <1>1, <1>3 DEF StateTypes
  <2> QED
    BY <1>3, <1>8, <2>1, <2>2, <2>3, LoopMoves
<1>17. Archives(c, D, m)
  BY <1>8, <1>16 DEF Archives
<1>18. Counts(c, D)
  BY <1>3, <1>16 DEF Counts, SaidDone, HeardDone, At
<1>19. Keeps(w, v, c, D, m)
  <2>1. pc'[c] = "loop"
    BY <1>3 DEF At
  <2>2. lamport_time'[c] < Horizon(v)'
    <3>1. Horizon(v)' = Turn(ordered - 1) + 4
      BY <1>12 DEF Horizon
    <3> QED
      BY <1>9, <1>16, <3>1
  <2>3. OnTime(v, c)'
    BY <1>2, <2>1, <2>2 DEF OnTime, ChildOnTime
  <2>4. m.time = Turn(ordered - 1) + 3
    BY <1>8, <1>9
  <2>5. TimedAt(ordered', c, m)
    BY <1>2, <1>8, <1>12, <2>4 DEF TimedAt
  <2> QED
    BY <2>3, <2>5 DEF Keeps
<1>20. Recorded(v, c)'
  <2>1. history'[c].s_history_len <= lamport_time'[c] + 1
    BY <1>8, <1>15, <1>16
  <2>2. ASSUME NEW s \in Nat, history'[c].s_history_len <= s, Foreseen(v, s)'
        PROVE  FALSE
    <3>1. s < Turn(ordered - 1) + 4
      BY <1>12, <2>2 DEF Foreseen, Horizon
    <3>2. t + 1 <= s
      BY <1>15, <1>16, <2>2
    <3> QED
      BY <1>9, <3>1, <3>2
  <2> QED
    BY <1>15, <1>16, <2>1, <2>2 DEF Recorded
<1>21. c = Src
  BY <1>5, <1>6
<1> QED
  BY <1>2, <1>8, <1>16, <1>17, <1>18, <1>19, <1>20, <1>21, Frame

\* The money comes when the source has stopped showing it.
LEMMA TimedTransferIn ==
  ASSUME NEW w \in Where, NEW v \in Where, Stepping(w, v), NEW c \in Children, At(c, "loop"),
         TransferIn(c)
  PROVE  TimesInv(v)'
<1> DEFINE r == ReceiptTime(c)
           t == r + 1
           m == [type |-> "ACK", time |-> t]
           D == {PARENT_ID}
<1>1. /\ StateTypes /\ MailTypes /\ Progress(w) /\ ProtocolInv(w) /\ ClockTypes /\ TimesInv(w)
      /\ \A u \in Where : ProtocolInv(u)' => u = v
      /\ ProtocolInv(v)' /\ Transacts(w, v) /\ Accounts(w) /\ Accounts(v)'
  BY SteppingFacts
<1>2. c \in Procs /\ c # PARENT_ID
  BY ProcsFacts
<1>3. /\ PollMessage(c) /\ IsDestination(c, Polled(c)) /\ SetTime(c, t)
      /\ send(c, PARENT_ID, m) /\ pc' = pc
      /\ balance' = [balance EXCEPT ![c] = @ + Polled(c).order.amount]
      /\ history' = [history EXCEPT ![c] = Filled(c)]
  BY DEF TransferIn
<1>4. Polled(c).type = "TRANSFER" /\ Polled(c).order.src # c
  BY <1>3 DEF IsDestination
<1>5. /\ w \in {"out", "over"} /\ Polled(c).order = Orders[ordered] /\ r = Horizon(w)
      /\ w = "out" => c = Src
      /\ Lossless /\ Punctual(w)
  BY <1>1, <1>3, <1>4, OrderReceipt
<1>6. w = "over"
  BY <1>4, <1>5 DEF Src
<1>7. /\ r \in Nat /\ lamport_time[c] \in Nat /\ lamport_time[c] < r
      /\ Filled(c) \in History /\ Shows(Filled(c), c) /\ Filled(c).s_history_len = r
  <2>1. \A s \in Nat : s < r => Foreseen(w, s)
    BY <1>5 DEF Foreseen
  <2> QED
    BY <1>3, <2>1, FilledRight
<1>8. m \in BankMessage /\ m.type = "ACK" /\ m.time = t /\ t \in Nat
  <2>1. t \in Nat
    BY <1>7
  <2> HIDE DEF t
  <2> QED
    BY <2>1, PlainMessage
<1>9. /\ Turn(ordered - 1) \in Nat /\ r = Turn(ordered - 1) + 4
      /\ Turn(ordered) = Turn(ordered - 1) + 6
  <2>1. w # "none"
    BY <1>6
  <2> QED
    BY <1>1, <1>5, <1>6, <2>1, OrderTimes DEF Horizon
<1> HIDE DEF m
<1>10. Polled(c).order.amount \in Int
  BY <1>1, <1>3, <1>4, PolledMessage
<1>11. v = "back" /\ ordered' = ordered
  <2>1. history' \in [Children -> History] /\ balance' \in [Children -> Int]
    BY <1>1, <1>3, <1>7, <1>10 DEF StateTypes
  <2>2. ProtocolInv("back")'
    BY <1>1, <1>3, <1>8, <2>1, TakesMoney
  <2> QED
    BY <1>1, <1>3, <2>2 DEF PollMessage, Where
<1>12. /\ Moves(c, D, m) /\ lamport_time'[c] = t /\ history'[c] = Filled(c)
       /\ UNCHANGED <<from, all_history>>
  <2>1. Post(c, D, m)
    BY <1>3 DEF send
  <2>2. lamport_time'[c] = t /\ \A a \in Procs \ {c} : lamport_time'[a] = lamport_time[a]
    BY <1>1, <1>2, <1>3, SetTimeFacts
  <2>3. /\ history'[c] = Filled(c)
        /\ \A a \in Children \ {c} : history'[a] = history[a] /\ balance'[a] = balance[a]
    BY <1>1, <1>3 DEF StateTypes
  <2> QED
    BY <1>3, <1>8, <2>1, <2>2, <2>3, LoopMoves
<1>13. Archives(c, D, m)
  BY <1>8, <1>12 DEF Archives
<1>14. Counts(c, D)
  BY <1>3, <1>12 DEF Counts, SaidDone, HeardDone, At
<1>15. Keeps(w, v, c, D, m)
  <2>1. pc'[c] = "loop"
    BY <1>3 DEF At
  <2>2. lamport_time'[c] < Horizon(v)'
    <3>1. Horizon(v)' = Turn(ordered) + 2
      BY <1>11 DEF Horizon
    <3> QED
      BY <1>9, <1>12, <3>1
  <2>3. OnTime(v, c)'
    BY <1>2, <2>1, <2>2 DEF OnTime, ChildOnTime
  <2>4. m.time = Turn(ordered - 1) + 5
    BY <1>8, <1>9
  <2>5. TimedAt(ordered', c, m)
    BY <1>8, <1>11, <2>4 DEF TimedAt
  <2> QED
    BY <2>3, <2>5 DEF Keeps
<1>16. Recorded(v, c)'
  <2>1. history'[c].s_history_len <= lamport_time'[c] + 1
    BY <1>7, <1>12
  <2>2. ASSUME NEW s \in Nat, history'[c].s_history_len <= s, Foreseen(v, s)'
        PROVE  Right(State(balance'[c], 0), c, s)
    <3>1. ~Foreseen(w, s)
      <4>1. r <= s
        BY <1>7, <1>12, <2>2
      <4>2. ~(s < r)
        BY <1>7, <4>1
      <4> QED
        BY <1>5, <1>6, <4>2 DEF Foreseen
    <3> QED
      BY <1>1, <1>6, <2>2, <3>1, HorizonMoves
  <2> QED
    BY <1>7, <1>12, <2>1, <2>2 DEF Recorded
<1> QED
  BY <1>2, <1>6, <1>8, <1>12, <1>13, <1>14, <1>15, <1>16, Frame

\* A child that takes a DONE before STOP drops it.
LEMMA TimedIgnore ==
  ASSUME NEW w \in Where, NEW v \in Where, Stepping(w, v), NEW c \in Children, At(c, "loop"),
         Ignore(c)
  PROVE  TimesInv(v)'
<1> DEFINE r == ReceiptTime(c)
<1>1. /\ StateTypes /\ MailTypes /\ OrdersCurrent /\ Progress(w) /\ Pairs(w) /\ ProtocolInv(w)
      /\ ClockTypes /\ TimesInv(w) /\ \A u \in Where : ProtocolInv(u)' => u = v
  BY SteppingFacts
<1>2. c \in Procs /\ c # PARENT_ID
  BY ProcsFacts
<1>3. /\ PollMessage(c) /\ IsIgnored(c, Polled(c)) /\ UNCHANGED <<outbox, pc, balance>>
      /\ history' = [history EXCEPT ![c] = Filled(c)]
  BY DEF Ignore
<1>4. r \in Nat /\ Filled(c) \in History
  BY <1>1, <1>3, Receipt
<1>5. Polled(c).type = "DONE" /\ v = w
  <2>1. history' \in [Children -> History] /\ balance' \in [Children -> Int]
    BY <1>1, <1>3, <1>4 DEF StateTypes
  <2>2. Polled(c).type = "DONE" /\ ProtocolInv(w)'
    BY <1>1, <1>3, <2>1, DropsDone
  <2> QED
    BY <1>1, <2>2
<1>6. SetTime(c, r)
  BY <1>5 DEF Ignore
<1>7. PICK q \in Procs : q = polled[c]
  BY <1>1 DEF StateTypes
<1>8. /\ receive(c, q) /\ pc[c] = "loop" /\ UNCHANGED <<from, all_history, ordered>>
  BY <1>3, <1>7 DEF PollMessage, At
<1>9. q \in Children /\ q # c /\ Mail(q, c) = <<"DONE">> /\ ~OrderOn(w, q, c)
  BY <1>1, <1>5, <1>8, <1>7, FoundInLoop DEF Polled
<1>10. SaidDone(q)
  <2>1. ChildMail(w, q, c)
    BY <1>1, <1>9 DEF Pairs
  <2>2. HeardStarted(c, q)
    BY <1>8 DEF HeardStarted
  <2>3. Mail(q, c) # <<>>
    <3>1. <<"DONE">> # <<>>
      OBVIOUS
    <3> QED
      BY <1>9, <3>1
  <2> QED
    BY <1>9, <2>1, <2>2, <2>3 DEF ChildMail
<1>11. w = "none" /\ \A s : Foreseen(w, s)
  <2>1. SaidStop
    BY <1>1, <1>9, <1>10 DEF Progress
  <2> QED
    BY <1>1, <2>1, NothingToCome
<1>12. /\ lamport_time[c] \in Nat /\ lamport_time[c] < r
       /\ Shows(Filled(c), c) /\ Filled(c).s_history_len = r
  BY <1>3, <1>11, FilledRight
<1>13. /\ \A a, b \in Procs : Link(a, b)' = IF a = q /\ b = c THEN Tail(Link(a, b)) ELSE Link(a, b)
       /\ Mail(q, c)' = Tail(Mail(q, c)) /\ Link(q, c) # <<>>
  <2>1. \A a, b \in Procs : Link(a, b)' = IF a = q /\ b = c THEN Tail(Link(a, b)) ELSE Link(a, b)
    BY <1>1, <1>2, <1>3, <1>8, LinkReads
  <2>2. \A a, b \in Procs : Mail(a, b)' = IF a = q /\ b = c THEN Tail(Mail(a, b)) ELSE Mail(a, b)
    BY <1>1, <1>2, <1>3, <1>8, MailReads
  <2>3. Link(q, c) # <<>>
    BY <1>1, <1>2, <1>8, LinkFirst
  <2> QED
    BY <1>2, <2>1, <2>2, <2>3
<1>14. lamport_time'[c] = r /\ \A a \in Procs \ {c} : lamport_time'[a] = lamport_time[a]
  BY <1>1, <1>2, <1>6, SetTimeFacts
<1>15. /\ history'[c] = Filled(c) /\ balance' = balance
       /\ \A a \in Children \ {c} : history'[a] = history[a]
  BY <1>1, <1>3 DEF StateTypes
<1>16. Moves(c, {}, NoMessage)
  BY <1>3, <1>8, <1>13, <1>14, <1>15 DEF Moves, SameState
<1>17. Archives(c, {}, NoMessage)
  BY <1>8 DEF Archives
<1>18. Counts(c, {})
  BY <1>3, <1>8 DEF Counts, SaidDone, HeardDone
<1>19. ~Lossless'
  <2>1. Mail(q, c)' = <<>>
    <3>1. Tail(<<"DONE">>) = <<>>
      BY WordFacts DEF BankType
    <3> QED
      BY <1>9, <1>13, <3>1
  <2>2. SaidDone(q)' /\ ~HeardDone(c, q)'
    BY <1>3, <1>8, <1>10 DEF SaidDone, HeardDone
  <2> QED
    BY <1>9, <2>1, <2>2 DEF Lossless
<1>20. Keeps(w, v, c, {}, NoMessage)
  BY <1>19 DEF Keeps
<1>21. Recorded(v, c)'
  <2>1. history'[c].s_history_len <= lamport_time'[c] + 1
    BY <1>4, <1>12, <1>14, <1>15
  <2>2. ASSUME NEW s \in Nat, history'[c].s_history_len <= s
        PROVE  Right(State(balance'[c], 0), c, s)
    <3>1. history[c].s_history_len <= s
      <4>1. history[c].s_history_len <= lamport_time[c] + 1 /\ history[c].s_history_len \in Nat
        BY <1>1 DEF TimesInv, Recorded, StateTypes, History
      <4> QED
        BY <1>4, <1>12, <1>15, <2>2, <4>1
    <3> QED
      BY <1>1, <1>11, <1>15, <3>1 DEF TimesInv, Recorded
  <2> QED
    BY <1>12, <1>15, <2>1, <2>2 DEF Recorded
<1> QED
  BY <1>2, <1>5, <1>11, <1>16, <1>17, <1>18, <1>20, <1>21, Frame

\* The history is filled up to the end and sent.
LEMMA TimedSendHistory ==
  ASSUME NEW w \in Where, NEW v \in Where, Stepping(w, v), NEW c \in Children,
         At(c, "await_done"), SendHistory(c)
  PROVE  TimesInv(v)'
<1> DEFINE t == AdvancedTime(c)
           state == State(balance[c], 0)
           h == FillHistory(history[c], t, state)
           m == [type |-> "BALANCE_HISTORY", time |-> t + 1, history |-> h]
           D == {PARENT_ID}
<1>1. /\ StateTypes /\ MailTypes /\ Progress(w) /\ ProtocolInv(w) /\ ClockTypes /\ TimesInv(w)
      /\ \A u \in Where : ProtocolInv(u)' => u = v
  BY SteppingFacts
<1>2. c \in Procs /\ c # PARENT_ID /\ lamport_time[c] \in Nat
  BY <1>1, ProcsFacts DEF ClockTypes
<1>3. /\ ReceiveEnd(c) /\ SetTime(c, t + 1) /\ send(c, PARENT_ID, m) /\ Goto(c, "send_history")
  BY DEF SendHistory
<1>4. /\ from[c] > N /\ from' = [from EXCEPT ![c] = NextFrom(c, PARENT_ID)]
      /\ UNCHANGED <<pipes, polled, balance, history, all_history, ordered>>
      /\ pc[c] = "await_done" /\ ~Sending(c)
  BY <1>3 DEF ReceiveEnd, At
<1>5. /\ pc'[c] = "send_history" /\ \A a \in Procs \ {c} : pc'[a] = pc[a]
      /\ \A a \in Procs \ {c} : from'[a] = from[a]
      /\ lamport_time'[c] = t + 1 /\ \A a \in Procs \ {c} : lamport_time'[a] = lamport_time[a]
  BY <1>1, <1>2, <1>3, <1>4, GotoFacts, SetTimeFacts DEF StateTypes
<1>6. t \in Nat /\ t + 1 \in Nat /\ t = lamport_time[c] + 1
  BY <1>2 DEF AdvancedTime
<1>7. SaidStop /\ w = "none" /\ \A s : Foreseen(w, s)
  <2>1. SaidStop
    BY <1>1, <1>4 DEF Progress, SaidDone
  <2> QED
    BY <1>1, <2>1, NothingToCome
<1>8. /\ Recorded(w, c) /\ history[c] \in History /\ history[c].s_history_len \in Nat
      /\ state \in BalanceState
  BY <1>1 DEF TimesInv, StateTypes, History, State, BalanceState
<1> HIDE DEF t, state
<1>9. h \in History /\ Shows(h, c) /\ h.s_history_len = t
  <2>1. \A s \in Nat : history[c].s_history_len <= s /\ s < t => Right(state, c, s)
    BY <1>7, <1>8 DEF Recorded, state
  <2>2. Shows(history[c], c) /\ history[c].s_history_len <= t
    BY <1>6, <1>8 DEF Recorded
  <2>3. h \in History
    BY <1>6, <1>8, FillType
  <2> HIDE DEF h
  <2>4. /\ Shows(h, c)
        /\ h.s_history_len = IF t > history[c].s_history_len THEN t ELSE history[c].s_history_len
    BY <1>6, <1>8, <2>1, <2>2, FillRight DEF h
  <2> QED
    BY <1>6, <1>8, <2>2, <2>3, <2>4
<1> HIDE DEF h
<1>10. m \in BankMessage /\ m.type = "BALANCE_HISTORY" /\ m.history = h
  BY <1>6, <1>9, HistoryMessage
<1> HIDE DEF m
<1>11. v = w
  <2>1. ProtocolInv(w)'
    BY <1>1, <1>3, <1>10, ChildSendsHistory
  <2> QED
    BY <1>1, <2>1
<1>12. Moves(c, D, m)
  <2>1. Post(c, D, m)
    BY <1>3 DEF send
  <2>2. \A a, b \in Procs : Link(a, b)' = IF a = c /\ b \in D THEN Append(Link(a, b), m) ELSE Link(a, b)
    BY <1>1, <1>2, <1>4, <1>10, <2>1, LinkPosts
  <2> QED
    BY <1>4, <1>5, <2>2 DEF Moves, SameState
<1>13. Archives(c, D, m)
  BY <1>4, <1>9, <1>10 DEF Archives
<1>14. from[c] = N + 1
  <2>1. from[c] \in 1..(N + 1) /\ N \in Nat
    BY <1>1, <1>2, TurnFacts DEF StateTypes
  <2> QED
    BY <1>4, <2>1
<1>15. Counts(c, D)
  <2>1. SaidDone(c)'
    BY <1>5 DEF SaidDone
  <2>2. D \cap Children = {}
    BY ProcsFacts
  <2>3. ASSUME NEW q \in Children PROVE HeardDone(c, q)
    <3>1. q < from[c]
      BY <1>14, NAssumption DEF Children
    <3> QED
      BY <1>4, <3>1 DEF HeardDone
  <2> QED
    BY <2>1, <2>2, <2>3 DEF Counts
<1>16. Keeps(w, v, c, D, m)
  <2> SUFFICES ASSUME Punctual(w) PROVE OnTime(v, c)' /\ TimedAt(ordered', c, m)
    BY DEF Keeps
  <2>1. OnTime(v, c)'
    BY <1>2, <1>5 DEF OnTime, ChildOnTime
  <2>2. lamport_time[c] = StopTime + 2 + (N - 1)
    <3>1. lamport_time[c] = StopTime + 2 + Passed(c)
      BY <1>2, <1>4 DEF Punctual, OnTime, ChildOnTime
    <3> QED
      BY <1>14, <3>1, PassedFacts
  <2>3. t = EndTime
    <3>1. EndTime = StopTime + N + 2 /\ StopTime \in Nat /\ N \in Nat
      BY TurnFacts
    <3> QED
      BY <1>6, <2>2, <3>1
  <2>4. TimedAt(ordered', c, m)
    BY <1>9, <1>10, <2>3 DEF TimedAt
  <2> QED
    BY <2>1, <2>4
<1>17. Recorded(v, c)'
  <2>1. lamport_time[c] <= lamport_time'[c]
    BY <1>2, <1>5, <1>6
  <2> QED
    BY <1>4, <1>7, <2>1, RecordedKept
<1> QED
  BY <1>2, <1>7, <1>10, <1>12, <1>13, <1>15, <1>16, <1>17, Frame

\* Every step of a child keeps the times.
LEMMA TimedChildNext ==
  ASSUME NEW w \in Where, NEW v \in Where, Stepping(w, v), NEW c \in Children, ChildNext(c)
  PROVE  TimesInv(v)'
<1> c \in Procs
  BY ProcsFacts
<1>1. CASE SyncStarted(c)
  BY <1>1, TimedSyncStarted
<1>2. CASE AwaitStarted(c)
  BY <1>2, TimedAwaitStarted
<1>3. CASE ReceiveAny(c)
  <2>1. At(c, "loop")
    BY <1>3 DEF ReceiveAny
  <2>2. CASE TakeStop(c)
    BY <2>1, <2>2, TimedTakeStop
  <2>3. CASE TransferOut(c)
    BY <2>1, <2>3, TimedTransferOut
  <2>4. CASE TransferIn(c)
    BY <2>1, <2>4, TimedTransferIn
  <2>5. CASE Ignore(c)
    BY <2>1, <2>5, TimedIgnore
  <2>6. CASE PollEmpty(c) /\ UNCHANGED lamport_time
    BY <2>6, TimedPollsNothing
  <2> QED
    BY <1>3, <2>2, <2>3, <2>4, <2>5, <2>6 DEF ReceiveAny
<1>4. CASE AwaitDone(c)
  <2>1. At(c, "await_done") /\ pc[c] = "await_done"
    BY <1>4 DEF AwaitDone, At
  <2>2. CASE ReceiveNextTimed(c, "DONE")
    BY <2>1, <2>2, TimedHears
  <2>3. CASE SendHistory(c)
    BY <2>1, <2>3, TimedSendHistory
  <2>4. CASE SpinOnEof(c) /\ UNCHANGED lamport_time
    BY <2>1, <2>4, TimedSpins
  <2> QED
    BY <1>4, <2>2, <2>3, <2>4 DEF AwaitDone
<1>5. CASE Write(c) /\ UNCHANGED lamport_time
  BY <1>5, TimedWrites
<1>6. CASE ChildExit(c) /\ UNCHANGED lamport_time
  BY <1>6, TimedReturns
<1> QED
  BY <1>1, <1>2, <1>3, <1>4, <1>5, <1>6 DEF ChildNext

-----------------------------------------------------------------------------
(* The parent of pa3 *)

\* The parent says something, by which its clock advances.
LEMMA ParentMessage ==
  ASSUME NEW w \in Where, NEW v \in Where, Stepping(w, v), ~Sending(PARENT_ID), pipes' = pipes,
         NEW D, NEW m \in BankMessage, Post(PARENT_ID, D, m), m.type # "BALANCE_HISTORY",
         NEW next, Goto(PARENT_ID, next), NEW t, SetTime(PARENT_ID, t),
         UNCHANGED <<from, polled, balance, history, all_history>>,
         v # "over" \/ w # "out",
         SaidStop' => ordered' = Len(Orders),
         Punctual(w) => OnTime(v, PARENT_ID)' /\ TimedAt(ordered', PARENT_ID, m)
  PROVE  TimesInv(v)'
<1>1. StateTypes /\ MailTypes /\ ClockTypes
  BY SteppingFacts
<1>2. PARENT_ID \in Procs /\ PARENT_ID \notin Children
  BY ProcsFacts
<1>3. \A a, b \in Procs :
        Link(a, b)' = IF a = PARENT_ID /\ b \in D THEN Append(Link(a, b), m) ELSE Link(a, b)
  BY <1>1, <1>2, LinkPosts
<1>4. /\ \A a \in Procs \ {PARENT_ID} : pc'[a] = pc[a]
      /\ \A a \in Procs \ {PARENT_ID} : lamport_time'[a] = lamport_time[a]
  BY <1>1, <1>2, GotoFacts, SetTimeFacts
<1>5. Moves(PARENT_ID, D, m)
  BY <1>3, <1>4 DEF Moves, SameState
<1>6. Archives(PARENT_ID, D, m) /\ Counts(PARENT_ID, D)
  BY <1>2 DEF Archives, Counts
<1>7. Keeps(w, v, PARENT_ID, D, m)
  BY DEF Keeps
<1> QED
  BY <1>2, <1>5, <1>6, <1>7, Frame

\* The next order is given one after the turn.
LEMMA TimedOrders ==
  ASSUME NEW w \in Where, NEW v \in Where, Stepping(w, v),
         NEW t, t = AdvancedTime(PARENT_ID), ParentOrders(t), SetTime(PARENT_ID, t)
  PROVE  TimesInv(v)'
<1> DEFINE m == [type |-> "TRANSFER", time |-> t, order |-> Orders[ordered']]
<1>1. /\ StateTypes /\ Progress(w) /\ ProtocolInv(w) /\ ClockTypes /\ TimesInv(w)
      /\ ProtocolInv(v)' /\ \A u \in Where : ProtocolInv(u)' => u = v
  BY SteppingFacts
<1>2. PARENT_ID \in Procs /\ lamport_time[PARENT_ID] \in Nat
  BY <1>1, ProcsFacts DEF ClockTypes
<1>3. t \in Nat /\ t = lamport_time[PARENT_ID] + 1
  BY <1>2 DEF AdvancedTime
<1>4. w = "none" /\ v = "out" /\ ordered' = ordered + 1 /\ ordered' \in 1..Len(Orders)
  BY <1>1, <1>3, GivesOrder DEF Where
<1>5. /\ ~Sending(PARENT_ID) /\ pc[PARENT_ID] = "robbery"
      /\ Post(PARENT_ID, {Orders[ordered'].src}, m) /\ Goto(PARENT_ID, "await_ack")
      /\ UNCHANGED <<pipes, from, polled, balance, history, all_history>>
  BY DEF ParentOrders, At, send
<1>6. m \in BankMessage /\ m.type = "TRANSFER" /\ m.time = t
  <2>1. Orders[ordered'] \in Order
    BY <1>4, OrderFacts
  <2> QED
    BY <1>3, <2>1 DEF BankMessage
<1> HIDE DEF m
<1>7. pc'[PARENT_ID] = "await_ack" /\ lamport_time'[PARENT_ID] = t
  BY <1>1, <1>2, <1>5, GotoFacts, SetTimeFacts
<1>8. ~SaidStop'
  BY <1>7 DEF SaidStop
<1>9. ASSUME Punctual(w) PROVE OnTime(v, PARENT_ID)' /\ TimedAt(ordered', PARENT_ID, m)
  <2>1. lamport_time[PARENT_ID] = Turn(ordered)
    BY <1>2, <1>5, <1>9 DEF Punctual, OnTime, ParentOnTime
  <2>2. ordered' - 1 = ordered
    BY <1>1, <1>4, OrderFacts DEF StateTypes
  <2>3. t = Turn(ordered' - 1) + 1
    BY <1>3, <2>1, <2>2
  <2>4. OnTime(v, PARENT_ID)'
    BY <1>7, <2>3 DEF OnTime, ParentOnTime
  <2>5. TimedAt(ordered', PARENT_ID, m)
    BY <1>6, <2>3 DEF TimedAt
  <2> QED
    BY <2>4, <2>5
<1> QED
  BY <1>4, <1>5, <1>6, <1>8, <1>9, ParentMessage

\* STOP is one after the last turn.
LEMMA TimedStops ==
  ASSUME NEW w \in Where, NEW v \in Where, Stepping(w, v),
         NEW t, t = AdvancedTime(PARENT_ID), ParentStops(t), SetTime(PARENT_ID, t)
  PROVE  TimesInv(v)'
<1> DEFINE m == [type |-> "STOP", time |-> t]  D == Procs \ {PARENT_ID}
<1>1. /\ StateTypes /\ Progress(w) /\ ProtocolInv(w) /\ ClockTypes /\ TimesInv(w)
      /\ \A u \in Where : ProtocolInv(u)' => u = v
  BY SteppingFacts
<1>2. PARENT_ID \in Procs /\ lamport_time[PARENT_ID] \in Nat
  BY <1>1, ProcsFacts DEF ClockTypes
<1>3. t \in Nat /\ t = lamport_time[PARENT_ID] + 1
  BY <1>2 DEF AdvancedTime
<1>4. v = w
  BY <1>1, <1>3, SaysStop
<1>5. /\ ~Sending(PARENT_ID) /\ pc[PARENT_ID] = "robbery" /\ ordered = Len(Orders)
      /\ Post(PARENT_ID, D, m) /\ Goto(PARENT_ID, "await_done")
      /\ UNCHANGED <<pipes, from, polled, balance, history, all_history, ordered>>
  BY DEF ParentStops, At, Multicast, send_multicast
<1>6. m \in BankMessage /\ m.type = "STOP" /\ m.time = t
  BY <1>3, PlainMessage
<1> HIDE DEF m
<1>7. pc'[PARENT_ID] = "await_done"
  BY <1>1, <1>2, <1>5, GotoFacts
<1>8. ASSUME Punctual(w) PROVE OnTime(v, PARENT_ID)' /\ TimedAt(ordered', PARENT_ID, m)
  <2>1. lamport_time[PARENT_ID] = Turn(ordered)
    BY <1>2, <1>5, <1>8 DEF Punctual, OnTime, ParentOnTime
  <2>2. m.time = StopTime
    BY <1>3, <1>5, <1>6, <2>1 DEF StopTime
  <2>3. OnTime(v, PARENT_ID)'
    BY <1>7 DEF OnTime, ParentOnTime
  <2>4. TimedAt(ordered', PARENT_ID, m)
    BY <1>6, <2>2 DEF TimedAt
  <2> QED
    BY <2>3, <2>4
<1> QED
  BY <1>4, <1>5, <1>6, <1>8, ParentMessage

\* ipc_set_up_parent() changes no clock.
LEMMA TimedSetsUp ==
  ASSUME NEW w \in Where, NEW v \in Where, Stepping(w, v), ParentSetUp, UNCHANGED lamport_time
  PROVE  TimesInv(v)'
<1>1. StateTypes /\ ProtocolInv(w)
  BY SteppingFacts
<1>2. PARENT_ID \in Procs /\ PARENT_ID \notin Children
  BY ProcsFacts
<1>3. ProtocolInv(w)'
  BY <1>1, SetsUp
<1>4. /\ pc[PARENT_ID] = "spawn" /\ Goto(PARENT_ID, "await_started")
      /\ UNCHANGED <<pipes, outbox, from, polled, balance, history, all_history, ordered>>
  BY DEF ParentSetUp
<1>5. pc'[PARENT_ID] = "await_started" /\ \A a \in Procs \ {PARENT_ID} : pc'[a] = pc[a]
  BY <1>1, <1>2, <1>4, GotoFacts
<1>6. \A a, b \in Procs : Link(a, b)' = Link(a, b)
  BY <1>4, LinksSame
<1>7. Punctual(w) => OnTime(w, PARENT_ID)'
  BY <1>2, <1>4, <1>5 DEF Punctual, OnTime, ParentOnTime
<1>8. SaidStop' <=> SaidStop
  BY <1>4, <1>5 DEF SaidStop
<1> QED
  BY <1>2, <1>3, <1>4, <1>5, <1>6, <1>7, <1>8, TimedQuiet DEF SameState

\* Nor does returning from main.
LEMMA TimedExit ==
  ASSUME NEW w \in Where, NEW v \in Where, Stepping(w, v), ParentExit, UNCHANGED lamport_time
  PROVE  TimesInv(v)'
<1>1. StateTypes /\ ProtocolInv(w)
  BY SteppingFacts
<1>2. PARENT_ID \in Procs /\ PARENT_ID \notin Children
  BY ProcsFacts
<1>3. ProtocolInv(w)'
  BY <1>1, ParentReturns
<1>4. /\ pc[PARENT_ID] = "wait" /\ Goto(PARENT_ID, "exited")
      /\ UNCHANGED <<pipes, outbox, from, polled, balance, history, all_history, ordered>>
  BY DEF ParentExit
<1>5. pc'[PARENT_ID] = "exited" /\ \A a \in Procs \ {PARENT_ID} : pc'[a] = pc[a]
  BY <1>1, <1>2, <1>4, GotoFacts
<1>6. \A a, b \in Procs : Link(a, b)' = Link(a, b)
  BY <1>4, LinksSame
<1>7. OnTime(w, PARENT_ID)'
  BY <1>5 DEF OnTime, ParentOnTime
<1>8. SaidStop' <=> SaidStop
  BY <1>4, <1>5 DEF SaidStop
<1> QED
  BY <1>2, <1>3, <1>4, <1>5, <1>6, <1>7, <1>8, TimedQuiet DEF SameState

\* The next loop, or the first transfer.
LEMMA TimedGoesOn ==
  ASSUME NEW w \in Where, NEW v \in Where, Stepping(w, v), NEW label, NEW next,
         ParentGoesOn(label, next), UNCHANGED lamport_time,
         <<label, next>> \in {<<"await_started", "robbery">>, <<"await_done", "await_histories">>,
                              <<"await_histories", "wait">>}
  PROVE  TimesInv(v)'
<1>1. StateTypes /\ ProtocolInv(w)
  BY SteppingFacts
<1>2. PARENT_ID \in Procs /\ PARENT_ID \notin Children
  BY ProcsFacts
<1>3. ProtocolInv(w)'
  BY <1>1, GoesOn
<1>4. /\ pc[PARENT_ID] = label /\ Goto(PARENT_ID, next)
      /\ from' = [from EXCEPT ![PARENT_ID] = NextFrom(PARENT_ID, PARENT_ID)]
      /\ UNCHANGED <<pipes, outbox, polled, balance, history, all_history, ordered>>
  BY DEF ParentGoesOn, ReceiveEnd, At
<1>5. /\ pc'[PARENT_ID] = next /\ \A a \in Procs \ {PARENT_ID} : pc'[a] = pc[a]
      /\ \A a \in Procs \ {PARENT_ID} : from'[a] = from[a]
  BY <1>1, <1>2, <1>4, GotoFacts DEF StateTypes
<1>6. \A a, b \in Procs : Link(a, b)' = Link(a, b)
  BY <1>4, LinksSame
<1>7. ASSUME Punctual(w) PROVE OnTime(w, PARENT_ID)'
  <2>1. CASE label = "await_started" /\ next = "robbery"
    <3>1. /\ ordered = 0
          /\ lamport_time[PARENT_ID] = IF from[PARENT_ID] = 1 THEN 0 ELSE from[PARENT_ID]
      BY <1>2, <1>4, <1>7, <2>1 DEF Punctual, OnTime, ParentOnTime
    <3>2. from[PARENT_ID] = N + 1 /\ N \in Nat \ {0}
      <4>1. from[PARENT_ID] > N
        BY DEF ParentGoesOn, ReceiveEnd
      <4>2. from[PARENT_ID] \in 1..(N + 1) /\ N \in Nat \ {0}
        BY <1>1, <1>2, TurnFacts DEF StateTypes
      <4> QED
        BY <4>1, <4>2
    <3>3. lamport_time'[PARENT_ID] = Turn(ordered')
      BY <1>4, <3>1, <3>2, TurnFacts
    <3> QED
      BY <1>5, <2>1, <3>3 DEF OnTime, ParentOnTime
  <2>2. CASE next \in {"await_histories", "wait"}
    BY <1>5, <2>2 DEF OnTime, ParentOnTime
  <2> QED
    BY <2>1, <2>2
<1>8. SaidStop' <=> SaidStop
  BY <1>4, <1>5 DEF SaidStop
<1> QED
  BY <1>2, <1>3, <1>4, <1>5, <1>6, <1>7, <1>8, TimedQuiet DEF SameState

\* The parent gets what it waits for.
LEMMA TimedParentHears ==
  ASSUME NEW w \in Where, NEW v \in Where, Stepping(w, v), NEW type,
         \/ type = "STARTED" /\ pc[PARENT_ID] = "await_started"
         \/ type = "DONE" /\ pc[PARENT_ID] = "await_done"
         \/ type = "BALANCE_HISTORY" /\ pc[PARENT_ID] = "await_histories",
         ReceiveNextTimed(PARENT_ID, type)
  PROVE  TimesInv(v)'
<1>1. /\ StateTypes /\ MailTypes /\ Progress(w) /\ ProtocolInv(w) /\ ClockTypes /\ TimesInv(w)
      /\ ProtocolInv(v)' /\ \A u \in Where : ProtocolInv(u)' => u = v
  BY SteppingFacts
<1>2. PARENT_ID \in Procs /\ PARENT_ID \notin Children /\ lamport_time[PARENT_ID] \in Nat
  BY <1>1, ProcsFacts DEF ClockTypes
<1>3. PICK f \in Procs : f = from[PARENT_ID]
  <2>1. ReceiveNext(PARENT_ID, type) /\ from[PARENT_ID] \in 1..(N + 1)
    BY <1>1, <1>2 DEF ReceiveNextTimed, StateTypes
  <2>2. from[PARENT_ID] <= N /\ N \in Nat
    BY <2>1, TurnFacts DEF ReceiveNext
  <2> QED
    BY <2>1, <2>2 DEF Procs, PARENT_ID
<1> DEFINE m == Oldest(PARENT_ID, f)
           t == Synchronized(lamport_time[PARENT_ID], m.time)
<1>4. /\ f <= N /\ receive(PARENT_ID, f) /\ SetTime(PARENT_ID, t)
      /\ UNCHANGED <<outbox, polled, balance, history, ordered>>
  BY <1>3 DEF ReceiveNextTimed, ReceiveNext
<1>5. f \in Children /\ m \in BankMessage /\ m.type = type /\ w = "none"
  BY <1>1, <1>3, <1>4, ParentHeadsType
<1>6. ProtocolInv(w)' /\ v = w
  <2>1. ProtocolInv(w)'
    BY <1>1, ParentHears DEF ReceiveNextTimed
  <2> QED
    BY <1>1, <2>1
<1>7. /\ from' = [from EXCEPT ![PARENT_ID] = NextFrom(PARENT_ID, f)]
      /\ IF type = "BALANCE_HISTORY" THEN FillCallback(f, m.history) ELSE UNCHANGED <<pc, all_history>>
  BY <1>3, <1>5 DEF ReceiveNextTimed, ReceiveNext
<1>8. pc' = pc /\ from'[PARENT_ID] = f + 1
  <2>1. from'[PARENT_ID] = f + 1
    BY <1>1, <1>2, <1>5, <1>7, CursorNext DEF StateTypes
  <2>2. pc'[PARENT_ID] # "failed"
    BY <1>6 DEF ProtocolInv, Progress, ParentLabel
  <2>3. CASE type = "BALANCE_HISTORY"
    <3>1. FillCallback(f, m.history)
      BY <1>7, <2>3
    <3>2. ~Goto(PARENT_ID, "failed")
      BY <1>1, <1>2, <2>2, GotoFacts
    <3> QED
      BY <2>1, <3>1, <3>2 DEF FillCallback
  <2> QED
    BY <1>7, <2>1, <2>3
<1>9. /\ \A a \in Procs \ {PARENT_ID} : from'[a] = from[a] /\ lamport_time'[a] = lamport_time[a]
      /\ lamport_time'[PARENT_ID] = t
  BY <1>1, <1>2, <1>4, <1>7, SetTimeFacts DEF StateTypes
<1>10. Moves(PARENT_ID, {}, NoMessage)
  <2>1. \A a, b \in Procs : Link(a, b)' = IF a = f /\ b = PARENT_ID THEN Tail(Link(a, b)) ELSE Link(a, b)
    BY <1>1, <1>2, <1>4, LinkReads
  <2>2. Link(f, PARENT_ID) # <<>>
    BY <1>1, <1>2, <1>4, LinkFirst
  <2> QED
    BY <1>4, <1>8, <1>9, <2>1, <2>2 DEF Moves, SameState
<1>11. Archives(PARENT_ID, {}, NoMessage)
  <2>1. CASE type # "BALANCE_HISTORY"
    BY <1>2, <1>7, <2>1 DEF Archives
  <2>2. CASE type = "BALANCE_HISTORY"
    <3>1. FillCallback(f, m.history)
      BY <1>7, <2>2
    <3>2. ~Goto(PARENT_ID, "failed")
      <4>1. pc'[PARENT_ID] # "failed"
        BY <1>6 DEF ProtocolInv, Progress, ParentLabel
      <4> QED
        BY <1>1, <1>2, <4>1, GotoFacts
    <3>3. Len(all_history) = f - 1 /\ all_history' = Append(all_history, m.history)
      BY <3>1, <3>2 DEF FillCallback
    <3>4. Len(all_history) + 1 = f
      BY <1>5, <3>3, TurnFacts DEF Children
    <3>5. Link(f, PARENT_ID) \in Seq(BankMessage) /\ Link(f, PARENT_ID) # <<>> /\ m = Head(Link(f, PARENT_ID))
      BY <1>1, <1>2, <1>4, LinkMessages, LinkFirst
    <3>6. 1 \in 1..Len(Link(f, PARENT_ID)) /\ Link(f, PARENT_ID)[1] = m
      BY <3>5
    <3>7. Shows(m.history, f)
      BY <1>1, <1>5, <2>2, <3>6 DEF TimesInv, Archived
    <3>8. Lossless => m.history.s_history_len = EndTime
      <4> SUFFICES ASSUME Lossless PROVE m.history.s_history_len = EndTime
        OBVIOUS
      <4>1. TimedAt(ordered, f, m)
        BY <1>1, <1>2, <3>6 DEF TimesInv, Punctual, MailOnTime
      <4> QED
        BY <1>5, <2>2, <4>1 DEF TimedAt
    <3> QED
      BY <1>2, <3>3, <3>4, <3>7, <3>8 DEF Archives
  <2> QED
    BY <2>1, <2>2
<1>12. Counts(PARENT_ID, {})
  BY <1>2 DEF Counts
<1>13. Keeps(w, v, PARENT_ID, {}, NoMessage)
  <2> SUFFICES ASSUME Punctual(w) PROVE OnTime(v, PARENT_ID)'
    BY DEF Keeps
  <2>1. CASE type = "STARTED"
    <3>1. TimedAt(ordered, f, m)
      BY <1>1, <1>2, <1>4, ReadOnTime DEF Punctual
    <3>2. m.time = 1
      BY <1>5, <2>1, <3>1 DEF TimedAt
    <3>3. pc[PARENT_ID] = "await_started"
      BY <2>1
    <3>4. ordered = 0 /\ lamport_time[PARENT_ID] = IF f = 1 THEN 0 ELSE f
      BY <1>2, <1>3, <3>3 DEF Punctual, OnTime, ParentOnTime
    <3>5. f \in Nat \ {0}
      BY <1>5 DEF Children
    <3>6. t = f + 1 /\ f + 1 # 1
      BY <3>2, <3>4, <3>5 DEF Synchronized
    <3> QED
      BY <1>4, <1>8, <1>9, <3>3, <3>4, <3>6 DEF OnTime, ParentOnTime
  <2>2. CASE type # "STARTED"
    <3>1. pc'[PARENT_ID] \in {"await_done", "await_histories"}
      BY <1>8, <2>2
    <3> QED
      BY <3>1 DEF OnTime, ParentOnTime
  <2> QED
    BY <2>1, <2>2
<1>14. SaidStop' => ordered' = Len(Orders)
  <2>1. SaidStop' <=> SaidStop
    BY <1>8 DEF SaidStop
  <2> QED
    BY <1>1, <1>4, <2>1 DEF TimesInv
<1> QED
  BY <1>2, <1>4, <1>5, <1>10, <1>11, <1>12, <1>13, <1>14, Frame

\* The ACK ends the order.
LEMMA TimedAwaitsAck ==
  ASSUME NEW w \in Where, NEW v \in Where, Stepping(w, v), ParentAwaitsAck,
         SetTime(PARENT_ID, Synchronized(lamport_time[PARENT_ID],
                                         Oldest(PARENT_ID, Orders[ordered].dst).time))
  PROVE  TimesInv(v)'
<1>1. /\ StateTypes /\ MailTypes /\ Progress(w) /\ ProtocolInv(w) /\ ClockTypes /\ TimesInv(w)
      /\ \A u \in Where : ProtocolInv(u)' => u = v
  BY SteppingFacts
<1>2. PARENT_ID \in Procs /\ PARENT_ID \notin Children /\ lamport_time[PARENT_ID] \in Nat
  BY <1>1, ProcsFacts DEF ClockTypes
<1>3. w = "back" /\ ProtocolInv("none")' /\ v = "none"
  BY <1>1, GetsAck DEF Where
<1>4. PICK f \in Children : f = Orders[ordered].dst
  BY <1>1, <1>3, CurrentOrder DEF Dst
<1> DEFINE m == Oldest(PARENT_ID, f)
           t == Synchronized(lamport_time[PARENT_ID], m.time)
<1>5. /\ receive(PARENT_ID, f) /\ pc[PARENT_ID] = "await_ack" /\ SetTime(PARENT_ID, t)
      /\ Goto(PARENT_ID, IF m.type = "ACK" THEN "robbery" ELSE "failed")
      /\ UNCHANGED <<outbox, from, polled, balance, history, all_history, ordered>>
  BY <1>4 DEF ParentAwaitsAck, At
<1>6. f \in Procs
  BY ProcsFacts
<1>7. m.type = "ACK" /\ pc'[PARENT_ID] = "robbery" /\ \A a \in Procs \ {PARENT_ID} : pc'[a] = pc[a]
  <2>1. pc'[PARENT_ID] \in ParentLabel
    BY <1>3 DEF ProtocolInv, Progress
  <2>2. pc'[PARENT_ID] = IF m.type = "ACK" THEN "robbery" ELSE "failed"
    BY <1>1, <1>2, <1>5, GotoFacts
  <2> QED
    BY <1>1, <1>2, <1>5, <2>1, <2>2, GotoFacts DEF ParentLabel
<1>8. /\ lamport_time'[PARENT_ID] = t
      /\ \A a \in Procs \ {PARENT_ID} : lamport_time'[a] = lamport_time[a]
  BY <1>1, <1>2, <1>5, SetTimeFacts
<1>9. Moves(PARENT_ID, {}, NoMessage)
  <2>1. \A a, b \in Procs : Link(a, b)' = IF a = f /\ b = PARENT_ID THEN Tail(Link(a, b)) ELSE Link(a, b)
    BY <1>1, <1>2, <1>5, <1>6, LinkReads
  <2>2. Link(f, PARENT_ID) # <<>>
    BY <1>1, <1>2, <1>5, <1>6, LinkFirst
  <2> QED
    BY <1>5, <1>7, <1>8, <2>1, <2>2 DEF Moves, SameState
<1>10. Archives(PARENT_ID, {}, NoMessage) /\ Counts(PARENT_ID, {})
  BY <1>2, <1>5 DEF Archives, Counts
<1>11. Keeps(w, v, PARENT_ID, {}, NoMessage)
  <2> SUFFICES ASSUME Punctual(w) PROVE OnTime(v, PARENT_ID)'
    BY DEF Keeps
  <2>1. m.time = Turn(ordered - 1) + 5
    <3>1. TimedAt(ordered, f, m)
      BY <1>1, <1>2, <1>5, <1>6, ReadOnTime DEF Punctual
    <3> QED
      BY <1>7, <3>1 DEF TimedAt
  <2>2. lamport_time[PARENT_ID] = Turn(ordered - 1) + 1
    BY <1>2, <1>5 DEF Punctual, OnTime, ParentOnTime
  <2>3. Turn(ordered) = Turn(ordered - 1) + 6 /\ Turn(ordered - 1) \in Nat
    BY <1>1, <1>3, OrderTimes
  <2>4. t = Turn(ordered')
    <3>1. t = Turn(ordered)
      BY <2>1, <2>2, <2>3 DEF Synchronized
    <3> QED
      BY <1>5, <3>1
  <2> QED
    BY <1>7, <1>8, <2>4 DEF OnTime, ParentOnTime
<1>12. ~SaidStop'
  BY <1>7 DEF SaidStop
<1> QED
  BY <1>2, <1>3, <1>5, <1>9, <1>10, <1>11, <1>12, Frame

\* Every step of the parent keeps the times.
LEMMA TimedParentNext ==
  ASSUME NEW w \in Where, NEW v \in Where, Stepping(w, v), ParentNext
  PROVE  TimesInv(v)'
<1> PARENT_ID \in Procs
  BY ProcsFacts
<1>1. CASE ParentReceivesAll
  <2>1. CASE At(PARENT_ID, "await_started") /\ ReceiveNextTimed(PARENT_ID, "STARTED")
    BY <2>1, TimedParentHears DEF At
  <2>2. CASE At(PARENT_ID, "await_done") /\ ReceiveNextTimed(PARENT_ID, "DONE")
    BY <2>2, TimedParentHears DEF At
  <2>3. CASE At(PARENT_ID, "await_histories") /\ ReceiveNextTimed(PARENT_ID, "BALANCE_HISTORY")
    BY <2>3, TimedParentHears DEF At
  <2>4. CASE ParentGoesOn("await_started", "robbery") /\ UNCHANGED lamport_time
    BY <2>4, TimedGoesOn
  <2>5. CASE ParentGoesOn("await_done", "await_histories") /\ UNCHANGED lamport_time
    BY <2>5, TimedGoesOn
  <2>6. CASE ParentGoesOn("await_histories", "wait") /\ UNCHANGED lamport_time
    BY <2>6, TimedGoesOn
  <2> QED
    BY <1>1, <2>1, <2>2, <2>3, <2>4, <2>5, <2>6 DEF ParentReceivesAll
<1>2. CASE ParentRobs
  <2> DEFINE t == AdvancedTime(PARENT_ID)
  <2>1. CASE ParentOrders(t) /\ SetTime(PARENT_ID, t)
    BY <2>1, TimedOrders
  <2>2. CASE /\ ParentAwaitsAck
             /\ SetTime(PARENT_ID, Synchronized(lamport_time[PARENT_ID],
                                                Oldest(PARENT_ID, Orders[ordered].dst).time))
    BY <2>2, TimedAwaitsAck
  <2>3. CASE ParentStops(t) /\ SetTime(PARENT_ID, t)
    BY <2>3, TimedStops
  <2> QED
    BY <1>2, <2>1, <2>2, <2>3 DEF ParentRobs
<1>3. CASE Write(PARENT_ID) /\ UNCHANGED lamport_time
  BY <1>3, TimedWrites
<1>4. CASE ParentSetUp /\ UNCHANGED lamport_time
  BY <1>4, TimedSetsUp
<1>5. CASE ParentExit /\ UNCHANGED lamport_time
  BY <1>5, TimedExit
<1> QED
  BY <1>1, <1>2, <1>3, <1>4, <1>5 DEF ParentNext

-----------------------------------------------------------------------------
(* All the money at every time *)

\* Every step of pa3 keeps the times.
LEMMA TimedStep ==
  ASSUME NEW w \in Where, NEW v \in Where, Stepping(w, v), [Next]_vars
  PROVE  TimesInv(v)'
<1>1. ASSUME NEW c \in Children, ChildNext(c) PROVE TimesInv(v)'
  BY <1>1, TimedChildNext
<1>2. CASE ParentNext
  BY <1>2, TimedParentNext
<1>3. CASE UNCHANGED vars
  <2>1. UNCHANGED <<pipes, outbox, pc, from, polled, balance, history, all_history, ordered,
                    lamport_time>>
    BY <1>3 DEF vars, bankVars
  <2>2. ProtocolInv(w)'
    <3>1. ProtocolInv(w) /\ StateTypes'
      BY SteppingFacts DEF ProtocolInv
    <3> QED
      BY <2>1, <3>1, NothingMoves
  <2>3. \A a, b \in Procs : Link(a, b)' = Link(a, b)
    BY <2>1, LinksSame
  <2>4. SaidStop' <=> SaidStop
    BY <2>1 DEF SaidStop
  <2>5. PARENT_ID \in Procs /\ PARENT_ID \notin Children /\ \A a \in Procs : SameState(a)
    BY <2>1, ProcsFacts DEF SameState
  <2>6. Punctual(w) => OnTime(w, PARENT_ID)'
    BY <2>1, <2>5 DEF Punctual, OnTime, ParentOnTime, Turn
  <2> QED
    BY <2>1, <2>2, <2>3, <2>4, <2>5, <2>6, TimedQuiet
<1> QED
  BY <1>1, <1>2, <1>3 DEF Next

\* The invariant is inductive: there is a place for the order after every step.
LEMMA TimedNext ==
  ASSUME NEW w \in Where, Moment(w), TimesInv(w), [Next]_vars
  PROVE  \E v \in Where : Moment(v)' /\ TimesInv(v)'
<1>1. ProtocolInv(w) /\ ClockTypes /\ Accounts(w)
  BY DEF Moment
<1>2. BankStep(w) /\ ClockTypes'
  BY <1>1, LamportNext
<1>3. PICK v \in Where : ProtocolInv(v)' /\ Transacts(w, v)
  BY <1>2 DEF BankStep
<1>4. Accounts(v)'
  BY <1>1, <1>3, AccountsNext
<1>5. Moment(v)' /\ Stepping(w, v)
  BY <1>2, <1>3, <1>4 DEF Stepping, Moment
<1>6. TimesInv(v)'
  BY <1>5, TimedStep
<1> QED
  BY <1>5, <1>6

\* At the beginning the clocks show 0 and the histories the opening balances.
LEMMA TimedBegin ==
  ASSUME Init
  PROVE  Moment("none") /\ TimesInv("none")
<1> USE ProcsFacts
<1>1. BankInit /\ lamport_time = [p \in Procs |-> 0]
  BY DEF Init
<1>2. ProtocolInv("none") /\ ClockTypes
  BY <1>1, BankBegins DEF ClockTypes
<1>3. /\ ordered = 0 /\ balance = StartBalances /\ all_history = <<>>
      /\ pc[PARENT_ID] = "spawn" /\ from[PARENT_ID] = NextFrom(PARENT_ID, PARENT_ID)
      /\ \A c \in Children : pc[c] = "start"
  BY <1>1 DEF BankInit
<1>4. Accounts("none")
  BY <1>3, AfterType DEF Accounts, Credited
<1>5. \A a, b \in Procs : Len(Link(a, b)) = 0
  BY <1>1 DEF BankInit, IpcInit, Link
<1>6. Turn(0) \in Nat
  BY TurnFacts
<1>7. ASSUME NEW c \in Children PROVE Recorded("none", c)
  <2>1. history[c] = [s_history |-> [t \in {0} |-> State(StartBalances[c], 0)], s_history_len |-> 1]
    BY <1>1 DEF BankInit
  <2>2. Shows(history[c], c)
    <3>1. 0 < Turn(0) + 2
      BY <1>6
    <3>2. Right(State(StartBalances[c], 0), c, 0)
      BY <3>1, RightFirst
    <3> QED
      BY <2>1, <3>2 DEF Shows
  <2>3. history[c].s_history_len <= lamport_time[c] + 1
    BY <1>1, <2>1
  <2>4. ASSUME NEW t \in Nat, Foreseen("none", t)
        PROVE  Right(State(balance[c], 0), c, t)
    <3>1. t < Turn(0) + 2 \/ Len(Orders) = 0
      BY <1>3, <2>4 DEF Foreseen, Horizon
    <3> QED
      BY <1>3, <3>1, RightFirst
  <2> QED
    BY <2>2, <2>3, <2>4 DEF Recorded
<1>8. Archived
  BY <1>3, <1>5 DEF Archived
<1>9. ~SaidStop
  BY <1>3 DEF SaidStop
<1>10. Punctual("none")
  <2>1. \A c \in Children : ChildOnTime("none", c)
    BY <1>1, <1>3 DEF ChildOnTime
  <2>2. ParentOnTime
    BY <1>1, <1>3, NAssumption DEF ParentOnTime, NextFrom, PARENT_ID
  <2>3. MailOnTime
    BY <1>5 DEF MailOnTime
  <2>4. \A p \in Procs : OnTime("none", p)
    BY <2>1, <2>2 DEF OnTime, Procs, Children, PARENT_ID
  <2> QED
    BY <1>3, <2>3, <2>4 DEF Punctual
<1> QED
  BY <1>2, <1>4, <1>7, <1>8, <1>9, <1>10 DEF Moment, TimesInv

\* When the parent has all the histories every child has sent its own, every DONE has
\* been counted, and so none has been dropped.
LEMMA AllArrived ==
  ASSUME NEW w \in Where, ProtocolInv(w), TimesInv(w), Len(all_history) = N
  PROVE  /\ w = "none" /\ ordered = Len(Orders)
         /\ \A c \in Children : Shows(all_history[c], c) /\ all_history[c].s_history_len = EndTime
<1>1. Progress(w) /\ StateTypes /\ \A c \in Children : MailToParent(w, c)
  BY DEF ProtocolInv, Pairs
<1>2. N \in Nat \ {0} /\ 1 \in Children /\ Children = 1..N
  BY NAssumption DEF Children
<1>3. \A c \in Children : HeardHistory(c)
  <2>1. from[PARENT_ID] \in 1..(N + 1)
    BY <1>1, ProcsFacts DEF StateTypes
  <2>2. \/ pc[PARENT_ID] = "await_histories" /\ from[PARENT_ID] = N + 1
        \/ pc[PARENT_ID] \in {"wait", "exited"}
    BY <1>1, <1>2, <2>1 DEF Progress
  <2> QED
    BY <1>2, <2>2 DEF HeardHistory
<1>4. \A c \in Children : SentHistory(c)
  BY <1>1, <1>3 DEF MailToParent
<1>5. Lossless
  BY <1>4 DEF Lossless, HeardDone, SentHistory
<1>6. SaidStop
  <2>1. SaidDone(1)
    BY <1>2, <1>4 DEF SaidDone, SentHistory
  <2> QED
    BY <1>1, <1>2, <2>1 DEF Progress
<1>7. w = "none" /\ ordered = Len(Orders)
  BY <1>6, NothingToCome DEF TimesInv
<1>8. Archived /\ Punctual(w)
  BY <1>5 DEF TimesInv
<1>9. \A c \in Children : Shows(all_history[c], c) /\ all_history[c].s_history_len = EndTime
  BY <1>2, <1>8 DEF Archived, Punctual
<1> QED
  BY <1>7, <1>9

\* The entries that are right for a time show all the money.
LEMMA RightTotal ==
  ASSUME NEW t \in Nat, \A c \in Children : Right(all_history[c].s_history[t], c, t)
  PROVE  ShownAt(t) = Total
<1>1. PICK k \in 0..Len(Orders) : Begun(k, t)
  BY BegunSome
<1>2. \A c \in Children : all_history[c].s_history[t] = Entry(k, c, t)
  BY <1>1 DEF Right
<1>3. CASE k # 0 /\ t < Turn(k - 1) + 4
  <2>1. k \in 1..Len(Orders) /\ k - 1 \in 0..Len(Orders) /\ After[k - 1] \in [Children -> Int]
    BY <1>1, <1>3, AfterType
  <2>2. Orders[k].amount \in Int
    BY <2>1, OrderFacts DEF Order
  <2>3. ASSUME NEW c \in Children
        PROVE  After[k - 1][c] = all_history[c].s_history[t].s_balance
                                   + all_history[c].s_history[t].s_balance_pending_in
    <3> DEFINE b == Taken(After[k - 1], Orders[k])[c]
               p == IF c = Orders[k].src THEN Orders[k].amount ELSE 0
    <3>1. all_history[c].s_history[t] = [s_balance |-> b, s_balance_pending_in |-> p]
      BY <1>2, <1>3 DEF Entry, State
    <3>2. b = After[k - 1][c] - p
      BY DEF Taken
    <3>3. After[k - 1][c] \in Int /\ p \in Int
      BY <2>1, <2>2
    <3>4. After[k - 1][c] = b + p
      BY <3>2, <3>3
    <3> QED
      BY <3>1, <3>4
  <2> QED
    BY <2>1, <2>3, ShownIsTotal
<1>4. CASE ~(k # 0 /\ t < Turn(k - 1) + 4)
  <2>1. After[k] \in [Children -> Int]
    BY AfterType
  <2>2. ASSUME NEW c \in Children
        PROVE  After[k][c] = all_history[c].s_history[t].s_balance
                               + all_history[c].s_history[t].s_balance_pending_in
    <3>1. all_history[c].s_history[t] = [s_balance |-> After[k][c], s_balance_pending_in |-> 0]
      BY <1>2, <1>4 DEF Entry, State
    <3>2. After[k][c] = After[k][c] + 0
      BY <2>1
    <3> QED
      BY <3>1, <3>2
  <2> QED
    BY <2>2, ShownIsTotal
<1> QED
  BY <1>3, <1>4

\* In pa3 too: once the parent has all the histories, they end at the same time, show
\* all the money, in an account or under way, at every time until then, and the
\* balances of now at the end.  A child that drops a DONE never gets so far; if none
\* does, the time of every event is fixed, whatever the scheduler does.
THEOREM BankConserves == Spec => []Conservation
<1> DEFINE Inv == \E w \in Where : Moment(w) /\ TimesInv(w)
<1>1. Init => Inv
  BY TimedBegin DEF Where
<1>2. Inv /\ [Next]_vars => Inv'
  BY TimedNext
<1>3. Inv => Conservation
  <2> SUFFICES ASSUME NEW w \in Where, Moment(w), TimesInv(w), Len(all_history) = N
               PROVE  LET end == all_history[1].s_history_len - 1
                      IN  /\ \A t \in 0..end : ShownAt(t) = Total
                          /\ \A c \in Children :
                               /\ all_history[c].s_history_len = end + 1
                               /\ all_history[c].s_history[end] = State(balance[c], 0)
    BY DEF Conservation
  <2> DEFINE end == EndTime - 1
  <2>1. /\ w = "none" /\ ordered = Len(Orders)
        /\ \A c \in Children : Shows(all_history[c], c) /\ all_history[c].s_history_len = EndTime
    BY AllArrived DEF Moment
  <2>2. 1 \in Children
    BY NAssumption DEF Children
  <2>3. EndTime = end + 1 /\ end \in Nat /\ end = Turn(Len(Orders)) + N + 2
        /\ N \in Nat \ {0} /\ Len(Orders) \in Nat /\ Turn(Len(Orders)) \in Nat
    <3>1. Len(Orders) \in Nat /\ N \in Nat \ {0} /\ EndTime = (Turn(Len(Orders)) + 1) + N + 2
      BY TurnFacts, AfterType
    <3>2. Turn(Len(Orders)) \in Nat
      BY <3>1, TurnFacts
    <3> QED
      BY <3>1, <3>2
  <2> HIDE DEF end
  <2>4. \A c \in Children : \A t \in 0..end : Right(all_history[c].s_history[t], c, t)
    BY <2>1, <2>3 DEF Shows
  <2>5. \A t \in 0..end : ShownAt(t) = Total
    BY <2>3, <2>4, RightTotal
  <2>6. ASSUME NEW c \in Children
        PROVE  all_history[c].s_history[end] = State(balance[c], 0)
    <3> DEFINE k == Len(Orders)
    <3>1. k # 0 => Turn(k - 1) \in Nat /\ Turn(k) = Turn(k - 1) + 6
      BY <2>3, TurnFacts
    <3>2. Begun(k, end) /\ k \in 0..Len(Orders) /\ end \in 0..end
          /\ ~(k # 0 /\ end < Turn(k - 1) + 4)
      <4>1. k # 0 => Turn(k - 1) + 2 <= end /\ ~(end < Turn(k - 1) + 4)
        <5> DEFINE u == Turn(k - 1)
        <5> SUFFICES ASSUME k # 0 PROVE u + 2 <= end /\ ~(end < u + 4)
          OBVIOUS
        <5>1. u \in Nat /\ N \in Nat /\ end = (u + 6) + N + 2
          BY <2>3, <3>1
        <5> HIDE DEF u, end
        <5> QED
          BY <5>1
      <4>2. k \in 0..Len(Orders) /\ end \in 0..end
        BY <2>3
      <4> QED
        BY <4>1, <4>2 DEF Begun
    <3>3. all_history[c].s_history[end] = State(After[k][c], 0)
      BY <2>4, <3>2 DEF Right, Entry
    <3>4. balance = After[k]
      BY <2>1 DEF Moment, Accounts, Credited
    <3> QED
      BY <3>3, <3>4
  <2>7. all_history[1].s_history_len - 1 = end
    BY <2>1, <2>2, <2>3
  <2> QED
    BY <2>1, <2>3, <2>5, <2>6, <2>7
<1> QED
  BY <1>1, <1>2, <1>3, PTL DEF Spec

-----------------------------------------------------------------------------
(* How far the clocks of pa3 go.  Until STOP is said every event has its     *)
(* time.  After it a child that drops the DONE of others is ahead of the     *)
(* parent, so that its own DONE is later, and the next one that drops it is  *)
(* later still.                                                              *)

\* The children that have said DONE; those of whom c has dropped the DONE; those that
\* have said DONE after they dropped another one.
Finished == {c \in Children : SaidDone(c)}
Dropped(c) == {q \in Children \ {c} : SaidDone(q) /\ ~HeardDone(c, q) /\ Mail(q, c) = <<>>}
Droppers == {c \in Finished : Dropped(c) # {}}

\* No DONE is later than that, when d children have said it and p of them dropped one:
\* the last one drops all the others in the order of their times.
Limit(d, p) == StopTime + 2 + 2 * p + (d * (d - 1)) \div 2

Takers == Cardinality(Finished)
Latest == Limit(Takers, Cardinality(Droppers))

\* A child drops a DONE when it polls a pipe before STOP is in the one of the parent.
\* STOP comes to the children in order: a child that is not one of the last to take it
\* drops at most one DONE that is late.
LoopWithin(c) ==
  /\ Dropped(c) = {} => lamport_time[c] <= StopTime
  /\ lamport_time[c] <= Latest + Cardinality(Dropped(c))
  /\ c <= Takers => lamport_time[c] <= Latest + (IF polled[c] = PARENT_ID THEN 1 ELSE 0)

ChildWithin(c) ==
  /\ pc[c] = "await_started" => Dropped(c) = {} /\ lamport_time[c] = 1 + Passed(c)
  /\ pc[c] = "loop" => LoopWithin(c)
  /\ pc[c] = "await_done" =>
       \/ lamport_time[c] <= Latest - Takers + 2 + Passed(c)
       \/ lamport_time[c] <= Latest - Takers + 1 + Passed(c) + Cardinality(Dropped(c))
  /\ pc[c] \in {"send_history", "spin", "exited"} =>
       Takers = N /\ lamport_time[c] <= Latest + 3

ParentWithin ==
  /\ pc[PARENT_ID] = "await_done" =>
       lamport_time[PARENT_ID] <= IF from[PARENT_ID] = 1 THEN StopTime
                                  ELSE Latest - Takers + 1 + from[PARENT_ID]
  /\ pc[PARENT_ID] = "await_histories" =>
       Takers = N /\ lamport_time[PARENT_ID] <= Latest + 2 + from[PARENT_ID]
  /\ pc[PARENT_ID] \in {"wait", "exited"} =>
       Takers = N /\ lamport_time[PARENT_ID] <= Latest + 3 + N

Within(p) == IF p = PARENT_ID THEN ParentWithin ELSE ChildWithin(p)

\* A message m of a, when d children have said DONE.  Only the last one to say DONE may have dropped all the others.
SentWithin(d, last, a, m) ==
  /\ m.type = "STARTED" => m.time = 1
  /\ m.type = "STOP" => m.time = StopTime
  /\ m.type = "DONE" => m.time <= last /\ (a < d => m.time <= last - d + 2)
  /\ m.type = "BALANCE_HISTORY" => m.time <= last + 3

MailWithin ==
  \A a, b \in Procs : \A k \in 1..Len(Link(a, b)) : SentWithin(Takers, Latest, a, Link(a, b)[k])

\* STOP is written to one child after the other.
StopInOrder ==
  \A a, b \in Children :
    a < b /\ outbox[PARENT_ID][a] # NoMessage => outbox[PARENT_ID][b] # NoMessage

\* The first to say DONE has dropped none.
FewDrop == Cardinality(Droppers) = 0 \/ Cardinality(Droppers) < Takers

ClocksInv ==
  SaidStop => /\ FewDrop
              /\ \A p \in Procs : Within(p)
              /\ MailWithin
              /\ StopInOrder

\* What one more DONE, and one more that has dropped another, make of the limit.
LEMMA LimitFacts ==
  ASSUME NEW d \in Nat, NEW p \in Nat
  PROVE  /\ Limit(d, p) \in Nat
         /\ Limit(d + 1, p) = Limit(d, p) + d
         /\ Limit(d, p + 1) = Limit(d, p) + 2
         /\ Limit(d, p) >= StopTime + 2 /\ Limit(d, p) >= StopTime + 1 + d
<1> DEFINE x == d * (d - 1)  y == (d + 1) * ((d + 1) - 1)
<1>1. x \in Nat /\ y = x + 2 * d
  <2>1. CASE d = 0
    BY <2>1
  <2>2. CASE d # 0
    <3>1. d - 1 \in Nat
      BY <2>2
    <3> QED
      BY <3>1
  <2> QED
    BY <2>1, <2>2
<1>2. x >= 2 * (d - 1)
  <2>1. CASE d \in {0, 1}
    BY <2>1
  <2>2. CASE d \notin {0, 1}
    <3> DEFINE e == d - 2
    <3>1. e \in Nat /\ d = e + 2
      BY <2>2
    <3> HIDE DEF e
    <3>2. x = (e + 2) * (e + 1) /\ e * (e + 1) \in Nat
      BY <3>1
    <3> QED
      BY <3>1, <3>2
  <2> QED
    BY <2>1, <2>2
<1>3. StopTime \in Nat
  BY TurnFacts
<1>4. Limit(d, p) = StopTime + 2 + 2 * p + x \div 2
      /\ Limit(d, p + 1) = StopTime + 2 + 2 * (p + 1) + x \div 2
      /\ Limit(d + 1, p) = StopTime + 2 + 2 * p + y \div 2
  BY DEF Limit
<1> HIDE DEF x, y
<1>5. x \div 2 \in Nat /\ y \div 2 = x \div 2 + d /\ x \div 2 >= d - 1
  BY <1>1, <1>2
<1> QED
  BY <1>3, <1>4, <1>5

\* The numbers of children.
LEMMA TakersFacts ==
  /\ IsFiniteSet(Finished) /\ Takers \in Nat /\ Takers <= N
  /\ Takers = N <=> \A c \in Children : SaidDone(c)
  /\ IsFiniteSet(Droppers) /\ Cardinality(Droppers) \in Nat
  /\ \A c \in Children : /\ IsFiniteSet(Dropped(c)) /\ Cardinality(Dropped(c)) \in Nat
                         /\ Cardinality(Dropped(c)) <= Takers
                         /\ Cardinality(Dropped(c)) = 0 <=> Dropped(c) = {}
  /\ Latest \in Nat /\ Latest >= StopTime + 2 /\ Latest >= StopTime + 1 + Takers
<1>1. N \in Nat /\ IsFiniteSet(Children) /\ Cardinality(Children) = N
  <2>1. N \in Nat \ {0}
    BY NAssumption
  <2> QED
    BY <2>1, FS_Interval DEF Children
<1>2. Finished \in SUBSET Children /\ Droppers \in SUBSET Finished
      /\ \A c \in Children : Dropped(c) \in SUBSET Finished
  BY DEF Finished, Droppers, Dropped
<1>3. IsFiniteSet(Finished) /\ Takers \in Nat /\ Takers <= N
  BY <1>1, <1>2, FS_Subset, FS_CardinalityType DEF Takers
<1>4. Takers = N <=> \A c \in Children : SaidDone(c)
  <2>1. Takers = N <=> Finished = Children
    BY <1>1, <1>2, FS_Subset DEF Takers
  <2> QED
    BY <2>1 DEF Finished
<1>5. IsFiniteSet(Droppers) /\ Cardinality(Droppers) \in Nat
  BY <1>2, <1>3, FS_Subset, FS_CardinalityType
<1>6. ASSUME NEW c \in Children
      PROVE  /\ IsFiniteSet(Dropped(c)) /\ Cardinality(Dropped(c)) \in Nat
             /\ Cardinality(Dropped(c)) <= Takers
             /\ Cardinality(Dropped(c)) = 0 <=> Dropped(c) = {}
  <2>1. IsFiniteSet(Dropped(c)) /\ Cardinality(Dropped(c)) <= Takers
    BY <1>2, <1>3, FS_Subset DEF Takers
  <2> QED
    BY <2>1, FS_CardinalityType, FS_EmptySet
<1>7. Latest \in Nat /\ Latest >= StopTime + 2 /\ Latest >= StopTime + 1 + Takers
  BY <1>3, <1>5, LimitFacts DEF Latest
<1> QED
  BY <1>3, <1>4, <1>5, <1>6, <1>7

\* A child hears the DONE of each other one, drops it, or has it to come.
LEMMA HeardAndDropped ==
  ASSUME NEW c \in Children, pc[c] = "await_done", from[c] \in 1..(N + 1), from[c] # c,
         \A q \in Children \ {c} : HeardDone(c, q) => SaidDone(q)
  PROVE  /\ Passed(c) \in Nat
         /\ Passed(c) + Cardinality(Dropped(c)) <= Takers - 1
<1> DEFINE H == {q \in Children \ {c} : q < from[c]}  F == Finished \ {c}
<1>1. N \in Nat /\ c \in 1..N
  BY NAssumption DEF Children
<1>2. IsFiniteSet(H) /\ Cardinality(H) = Passed(c) /\ Passed(c) \in Nat
  <2> DEFINE I == 1..(from[c] - 1)
  <2>1. IsFiniteSet(I) /\ Cardinality(I) = from[c] - 1
    <3>1. 1 \in Int /\ from[c] - 1 \in Int
      OBVIOUS
    <3>2. IsFiniteSet(I) /\ Cardinality(I) = IF 1 > from[c] - 1 THEN 0 ELSE (from[c] - 1) - 1 + 1
      BY <3>1, FS_Interval
    <3> HIDE DEF I
    <3> QED
      BY <3>2
  <2>2. H = I \ {c}
    BY <1>1 DEF Children
  <2>3. c \in I <=> from[c] > c
    BY <1>1
  <2> HIDE DEF I, H
  <2>4. IsFiniteSet(H) /\ Cardinality(H) = IF c \in I THEN Cardinality(I) - 1 ELSE Cardinality(I)
    BY <2>1, <2>2, FS_RemoveElement
  <2> QED
    BY <1>1, <2>1, <2>3, <2>4 DEF Passed
<1>3. IsFiniteSet(F) /\ Cardinality(F) = Takers - 1
  <2>1. c \in Finished
    BY DEF Finished, SaidDone
  <2> QED
    BY <2>1, TakersFacts, FS_RemoveElement DEF Takers
<1>4. H \cap Dropped(c) = {} /\ H \cup Dropped(c) \in SUBSET F
  <2>1. \A q \in H : HeardDone(c, q)
    BY DEF HeardDone
  <2> QED
    BY <2>1 DEF Dropped, Finished
<1>5. IsFiniteSet(Dropped(c)) /\ Cardinality(Dropped(c)) \in Nat
  BY TakersFacts
<1> HIDE DEF H, F
<1>6. Cardinality(H \cup Dropped(c)) = Cardinality(H) + Cardinality(Dropped(c)) - Cardinality(H \cap Dropped(c))
  BY <1>2, <1>5, FS_Union
<1>7. Cardinality(H \cap Dropped(c)) = 0
  BY <1>4, FS_EmptySet
<1>8. Cardinality(H \cup Dropped(c)) <= Takers - 1
  BY <1>3, <1>4, FS_Subset
<1> QED
  BY <1>2, <1>5, <1>6, <1>7, <1>8

\* Nothing is under way when there are no types of messages under way.
LEMMA NothingUnderWay ==
  ASSUME NEW s \in Seq(BankMessage)
  PROVE  TypesOf(s) = <<>> <=> s = <<>>
<1>1. Len(TypesOf(s)) = Len(s) /\ Len(s) \in Nat
  BY TypesOfType
<1>2. s = <<>> <=> Len(s) = 0
  OBVIOUS
<1>3. s = <<>> => TypesOf(s) = <<>>
  <2>1. TypesOf(s) \in Seq(BankType)
    BY TypesOfType
  <2> QED
    BY <1>1, <2>1
<1>4. TypesOf(s) = <<>> => Len(TypesOf(s)) = 0
  OBVIOUS
<1> QED
  BY <1>1, <1>2, <1>3, <1>4

-----------------------------------------------------------------------------
(* What one process does once STOP has been said: p reads messages, and      *)
(* posts m to D.                                                             *)

Acts(p, D, m) ==
  /\ \A a \in Procs \ {p} : SameState(a) /\ lamport_time'[a] = lamport_time[a]
  /\ \A c \in Children \ {p} : polled'[c] = polled[c]
  /\ \A a, b \in Procs :
       IF b = p THEN \/ Link(a, b)' = Link(a, b)
                     \/ Link(a, b) # <<>> /\ Link(a, b)' = Tail(Link(a, b))
       ELSE Link(a, b)' = IF a = p /\ b \in D THEN Append(Link(a, b), m) ELSE Link(a, b)

\* A child says nothing to the others, or it says DONE to all of them.
Tells(p, D) ==
  p \in Children => \/ (SaidDone(p)' <=> SaidDone(p)) /\ D \cap Children = {}
                    \/ ~SaidDone(p) /\ SaidDone(p)' /\ Children \ {p} \subseteq D

\* What the others have dropped is what they had dropped before.
LEMMA OthersDrop ==
  ASSUME MailTypes, NEW p \in Procs, NEW D, NEW m, D # {} => m \in BankMessage,
         Acts(p, D, m), Tells(p, D)
  PROVE  \A c \in Children \ {p} : Dropped(c)' = Dropped(c) /\ (SaidDone(c)' <=> SaidDone(c))
<1> SUFFICES ASSUME NEW c \in Children \ {p}
             PROVE  Dropped(c)' = Dropped(c) /\ (SaidDone(c)' <=> SaidDone(c))
  OBVIOUS
<1>1. \A a \in Children \ {p} : /\ SaidDone(a)' <=> SaidDone(a)
                                /\ \A q \in Children : HeardDone(a, q)' <=> HeardDone(a, q)
  BY ProcsFacts DEF Acts, SameState, SaidDone, HeardDone
<1>2. ASSUME NEW q \in Children \ {c}
      PROVE  SaidDone(q)' /\ ~HeardDone(c, q)' /\ Mail(q, c)' = <<>>
               <=> SaidDone(q) /\ ~HeardDone(c, q) /\ Mail(q, c) = <<>>
  <2>1. HeardDone(c, q)' <=> HeardDone(c, q)
    BY <1>1
  <2>2. /\ q \in Procs /\ c \in Procs /\ Link(q, c) \in Seq(BankMessage)
        /\ Link(q, c)' = IF q = p /\ c \in D THEN Append(Link(q, c), m) ELSE Link(q, c)
    BY ProcsFacts, LinkMessages DEF Acts
  <2>3. CASE ~(q = p /\ c \in D)
    <3>1. Mail(q, c)' = Mail(q, c)
      BY <2>2, <2>3 DEF Mail
    <3>2. SaidDone(q)' <=> SaidDone(q)
      BY <1>1, <2>3 DEF Tells
    <3> QED
      BY <2>1, <3>1, <3>2
  <2>4. CASE q = p /\ c \in D
    <3>1. ~SaidDone(q)
      BY <2>4 DEF Tells
    <3>2. m \in BankMessage
      BY <2>4
    <3>3. Link(q, c)' \in Seq(BankMessage) /\ Link(q, c)' # <<>>
      <4> DEFINE s == Link(q, c)
      <4>1. Append(s, m) \in Seq(BankMessage) /\ Len(Append(s, m)) = Len(s) + 1 /\ Len(s) \in Nat
        BY <2>2, <3>2
      <4>2. Append(s, m) # <<>>
        <5>1. Len(<<>>) = 0
          OBVIOUS
        <5> HIDE DEF s
        <5> QED
          BY <4>1, <5>1
      <4> QED
        BY <2>2, <2>4, <4>1, <4>2
    <3>4. Mail(q, c)' # <<>>
      BY <3>3, NothingUnderWay DEF Mail
    <3> QED
      BY <3>1, <3>4
  <2> QED
    BY <2>3, <2>4
<1> QED
  BY <1>1, <1>2 DEF Dropped

\* A step by which nobody says DONE and nobody who has said it drops another one.
LEMMA SameTakers ==
  ASSUME NEW p \in Procs,
         \A c \in Children \ {p} : Dropped(c)' = Dropped(c) /\ (SaidDone(c)' <=> SaidDone(c)),
         p \in Children => /\ SaidDone(p)' <=> SaidDone(p)
                           /\ SaidDone(p) => (Dropped(p)' = {} <=> Dropped(p) = {})
  PROVE  Takers' = Takers /\ Latest' = Latest /\ (FewDrop' <=> FewDrop)
<1>1. Finished' = Finished
  BY DEF Finished
<1>2. Droppers' = Droppers
  BY <1>1 DEF Droppers, Finished
<1> QED
  BY <1>1, <1>2 DEF Takers, Latest, FewDrop, Limit

\* A step by which p says DONE.
LEMMA OneMoreTaker ==
  ASSUME NEW p \in Children, ~SaidDone(p), SaidDone(p)', Dropped(p)' = Dropped(p),
         \A c \in Children \ {p} : Dropped(c)' = Dropped(c) /\ (SaidDone(c)' <=> SaidDone(c))
  PROVE  /\ Takers' = Takers + 1 /\ Takers' <= N
         /\ Latest' = Latest + Takers + (IF Dropped(p) = {} THEN 0 ELSE 2)
         /\ FewDrop => FewDrop'
<1> DEFINE k == Cardinality(Droppers)
<1>1. /\ IsFiniteSet(Finished) /\ Takers \in Nat /\ IsFiniteSet(Droppers) /\ k \in Nat
      /\ Cardinality(Dropped(p)) <= Takers /\ Cardinality(Dropped(p)) \in Nat
      /\ Cardinality(Dropped(p)) = 0 <=> Dropped(p) = {}
  BY TakersFacts
<1>2. Finished' = Finished \cup {p} /\ p \notin Finished
  BY DEF Finished
<1>3. Droppers' = IF Dropped(p) = {} THEN Droppers ELSE Droppers \cup {p}
  BY <1>2 DEF Droppers, Finished
<1>4. p \notin Droppers
  BY <1>2 DEF Droppers
<1>5. Takers' = Takers + 1
  BY <1>1, <1>2, FS_AddElement DEF Takers
<1>6. Takers' <= N
  <2>1. Finished' \in SUBSET Children /\ IsFiniteSet(Children) /\ Cardinality(Children) = N
    <3>1. N \in Nat \ {0}
      BY NAssumption
    <3>2. IsFiniteSet(1..N) /\ Cardinality(1..N) = N
      BY <3>1, FS_Interval
    <3> QED
      BY <1>2, <3>2 DEF Finished, Children
  <2> QED
    BY <2>1, FS_Subset DEF Takers
<1>7. Cardinality(Droppers') = IF Dropped(p) = {} THEN k ELSE k + 1
  BY <1>1, <1>3, <1>4, FS_AddElement
<1>8. Latest' = Limit(Takers', Cardinality(Droppers'))
  BY DEF Latest, Limit
<1>9. Latest = Limit(Takers, k)
  BY DEF Latest
<1> HIDE DEF k
<1>10. Limit(Takers + 1, k) = Limit(Takers, k) + Takers
       /\ Limit(Takers + 1, k + 1) = Limit(Takers + 1, k) + 2
       /\ Limit(Takers, k) \in Nat
  <2>1. Takers + 1 \in Nat
    BY <1>1
  <2> QED
    BY <1>1, <2>1, LimitFacts
<1>11. Latest' = Latest + Takers + (IF Dropped(p) = {} THEN 0 ELSE 2)
  BY <1>1, <1>5, <1>7, <1>8, <1>9, <1>10
<1>12. FewDrop => FewDrop'
  <2> SUFFICES ASSUME k = 0 \/ k < Takers PROVE Cardinality(Droppers') = 0 \/ Cardinality(Droppers') < Takers'
    BY DEF FewDrop, k
  <2>1. CASE Dropped(p) = {}
    BY <1>1, <1>5, <1>7, <2>1
  <2>2. CASE Dropped(p) # {}
    <3>1. Takers >= 1
      BY <1>1, <2>2
    <3> QED
      BY <1>1, <1>5, <1>7, <2>2, <3>1
  <2> QED
    BY <2>1, <2>2
<1> QED
  BY <1>5, <1>6, <1>11, <1>12

\* How the limits of the others move: not, or with one more DONE.
Advances ==
  \/ Takers' = Takers /\ Latest' = Latest
  \/ Takers' = Takers + 1 /\ Takers' <= N /\ Latest' \in Nat /\ Latest' >= Latest + Takers

\* The processes that do nothing stay within the limits.
LEMMA OthersWithin ==
  ASSUME NEW w \in Where, ProtocolInv(w), ClockTypes, NEW p \in Procs, NEW D, NEW m,
         Acts(p, D, m), Advances, NEW a \in Procs \ {p}, Within(a), a \in Children => Dropped(a)' = Dropped(a)
  PROVE  Within(a)'
<1> DEFINE d == Takers  e == Latest
<1>1. /\ d \in Nat /\ e \in Nat /\ d <= N /\ N \in Nat
      /\ e >= StopTime + 1 + d /\ StopTime \in Nat
  BY TakersFacts, TurnFacts
<1>2. \/ d' = d /\ e' = e
      \/ d' = d + 1 /\ d' <= N /\ e' \in Nat /\ e' >= e + d
  BY DEF Advances
<1>3. /\ pc'[a] = pc[a] /\ from'[a] = from[a] /\ lamport_time'[a] = lamport_time[a]
      /\ lamport_time[a] \in Nat /\ from[a] \in Nat
  BY DEF Acts, SameState, ClockTypes, ProtocolInv, StateTypes
<1>4. CASE a = PARENT_ID
  <2>1. ParentWithin
    BY <1>4 DEF Within
  <2>2. ASSUME pc[a] = "await_done"
        PROVE  lamport_time[a] <= IF from[a] = 1 THEN StopTime ELSE e' - d' + 1 + from[a]
    <3>1. lamport_time[a] <= IF from[a] = 1 THEN StopTime ELSE e - d + 1 + from[a]
      BY <1>4, <2>1, <2>2 DEF ParentWithin
    <3>2. from[a] # 1 => d # 0
      <4> SUFFICES ASSUME from[a] # 1 PROVE d # 0
        OBVIOUS
      <4>1. 1 \in Children /\ from[a] \in 1..(N + 1)
        BY <1>4, NAssumption DEF ProtocolInv, StateTypes, Children, Procs, PARENT_ID
      <4>2. HeardDone(PARENT_ID, 1)
        BY <1>4, <2>2, <4>1 DEF HeardDone
      <4>3. 1 \in Finished
        BY <4>1, <4>2 DEF ProtocolInv, Pairs, MailToParent, Finished
      <4> QED
        BY <4>3, TakersFacts, FS_EmptySet DEF Takers
    <3> HIDE DEF d, e
    <3> QED
      BY <1>1, <1>2, <1>3, <3>1, <3>2
  <2>3. ASSUME pc[a] \in {"await_histories", "wait", "exited"}
        PROVE  d' = N /\ e' = e
    <3>1. d = N
      BY <1>4, <2>1, <2>3 DEF ParentWithin
    <3> HIDE DEF d, e
    <3> QED
      BY <1>1, <1>2, <3>1
  <2>4. ParentWithin'
    BY <1>3, <1>4, <2>1, <2>2, <2>3 DEF ParentWithin
  <2> QED
    BY <1>4, <2>4 DEF Within
<1>5. CASE a # PARENT_ID
  <2>1. a \in Children /\ ChildWithin(a)
    BY <1>5, NAssumption DEF Within, Procs, Children, PARENT_ID
  <2>2. polled'[a] = polled[a] /\ Dropped(a)' = Dropped(a) /\ Passed(a)' = Passed(a)
    BY <1>3, <2>1 DEF Acts, Passed
  <2> DEFINE k == Cardinality(Dropped(a))
  <2>3. k \in Nat /\ k <= d /\ a \in Nat /\ Passed(a) \in Int
    BY <1>3, <2>1, TakersFacts DEF Children, Passed
  <2>4. ASSUME pc[a] = "loop" PROVE LoopWithin(a)'
    <3>1. LoopWithin(a)
      BY <2>1, <2>4 DEF ChildWithin
    <3>2. /\ lamport_time[a] <= e + k
          /\ a <= d => lamport_time[a] <= e + (IF polled[a] = PARENT_ID THEN 1 ELSE 0)
      BY <3>1 DEF LoopWithin
    <3>3. /\ lamport_time[a] <= e' + k
          /\ a <= d' => lamport_time[a] <= e' + (IF polled[a] = PARENT_ID THEN 1 ELSE 0)
      <4> HIDE DEF d, e, k
      <4> QED
        BY <1>1, <1>2, <1>3, <2>3, <3>2
    <3> QED
      BY <1>3, <2>2, <3>1, <3>3 DEF LoopWithin
  <2>5. ASSUME pc[a] = "await_done"
        PROVE  \/ lamport_time[a] <= e' - d' + 2 + Passed(a)
               \/ lamport_time[a] <= e' - d' + 1 + Passed(a) + k
    <3>1. \/ lamport_time[a] <= e - d + 2 + Passed(a)
          \/ lamport_time[a] <= e - d + 1 + Passed(a) + k
      BY <2>1, <2>5 DEF ChildWithin
    <3>2. d # 0
      <4>1. a \in Finished
        BY <2>1, <2>5 DEF Finished, SaidDone
      <4> QED
        BY <4>1, TakersFacts, FS_EmptySet DEF Takers
    <3> HIDE DEF d, e, k
    <3> QED
      BY <1>1, <1>2, <1>3, <2>3, <3>1, <3>2
  <2>6. ASSUME pc[a] \in {"send_history", "spin", "exited"}
        PROVE  d' = N /\ lamport_time[a] <= e' + 3
    <3>1. d = N /\ lamport_time[a] <= e + 3
      BY <2>1, <2>6 DEF ChildWithin
    <3> HIDE DEF d, e
    <3> QED
      BY <1>1, <1>2, <3>1
  <2>7. pc[a] = "await_started" => Dropped(a) = {} /\ lamport_time[a] = 1 + Passed(a)
    BY <2>1 DEF ChildWithin
  <2>8. ChildWithin(a)'
    BY <1>3, <2>2, <2>4, <2>5, <2>6, <2>7 DEF ChildWithin
  <2> QED
    BY <1>5, <2>8 DEF Within
<1> QED
  BY <1>4, <1>5

\* Messages under way stay within the limits, and so does the one that is posted.
LEMMA MailStaysWithin ==
  ASSUME MailTypes, MailWithin, Advances, NEW p \in Procs, NEW D, NEW m,
         D # {} => m \in BankMessage /\ SentWithin(Takers', Latest', p, m), Acts(p, D, m)
  PROVE  MailWithin'
<1> DEFINE d == Takers  e == Latest
<1>1. /\ d \in Nat /\ e \in Nat
      /\ \/ d' = d /\ e' = e
         \/ d' = d + 1 /\ e' \in Nat /\ e' >= e + d
  BY TakersFacts DEF Advances
<1>2. ASSUME NEW a \in Procs, NEW n \in BankMessage, SentWithin(d, e, a, n)
      PROVE  SentWithin(d', e', a, n)
  <2>1. n.time \in Nat /\ a \in Nat
    BY MessageFacts, NAssumption DEF Procs, PARENT_ID
  <2>2. CASE n.type = "DONE"
    <3>1. n.time <= e /\ (a < d => n.time <= e - d + 2)
      BY <1>2, <2>2 DEF SentWithin
    <3>2. n.time <= e' /\ (a < d' => n.time <= e' - d' + 2)
      <4> HIDE DEF d, e
      <4> QED
        BY <1>1, <2>1, <3>1
    <3> QED
      BY <2>2, <3>2 DEF SentWithin
  <2>3. CASE n.type = "BALANCE_HISTORY"
    <3>1. n.time <= e + 3
      BY <1>2, <2>3 DEF SentWithin
    <3>2. n.time <= e' + 3
      <4> HIDE DEF d, e
      <4> QED
        BY <1>1, <2>1, <3>1
    <3> QED
      BY <2>3, <3>2 DEF SentWithin
  <2>4. CASE n.type \notin {"DONE", "BALANCE_HISTORY"}
    BY <1>2, <2>4 DEF SentWithin
  <2> QED
    BY <2>2, <2>3, <2>4
<1>3. ASSUME NEW a \in Procs, NEW b \in Procs, NEW k \in 1..Len(Link(a, b)')
      PROVE  SentWithin(d', e', a, Link(a, b)'[k])
  <2> DEFINE s == Link(a, b)  r == Link(a, b)'
  <2>1. s \in Seq(BankMessage) /\ Len(s) \in Nat
    BY LinkMessages
  <2>2. \A j \in 1..Len(s) : SentWithin(d', e', a, s[j])
    <3>1. \A j \in 1..Len(s) : s[j] \in BankMessage /\ SentWithin(d, e, a, s[j])
      BY <2>1 DEF MailWithin
    <3> HIDE DEF s, d, e
    <3> QED
      BY <1>2, <3>1
  <2>3. \/ r = s
        \/ s # <<>> /\ r = Tail(s)
        \/ a = p /\ b \in D /\ r = Append(s, m)
    BY DEF Acts
  <2>4. k \in 1..Len(r)
    OBVIOUS
  <2> HIDE DEF s, r, d, e
  <2>5. CASE r = s
    BY <2>2, <2>4, <2>5 DEF r
  <2>6. CASE s # <<>> /\ r = Tail(s)
    <3>1. k + 1 \in 1..Len(s) /\ r[k] = s[k + 1]
      BY <2>1, <2>4, <2>6
    <3> QED
      BY <2>2, <3>1 DEF r
  <2>7. CASE a = p /\ b \in D /\ r = Append(s, m)
    <3>1. m \in BankMessage /\ SentWithin(d', e', a, m)
      BY <2>7 DEF d, e
    <3>2. Len(r) = Len(s) + 1 /\ r[Len(s) + 1] = m /\ \A j \in 1..Len(s) : r[j] = s[j]
      BY <2>1, <2>7, <3>1
    <3>3. k \in 1..Len(s) \/ k = Len(s) + 1
      BY <2>1, <2>4, <3>2
    <3> QED
      BY <2>2, <3>1, <3>2, <3>3 DEF r
  <2> QED
    BY <2>3, <2>5, <2>6, <2>7
<1> QED
  BY <1>3 DEF MailWithin

\* A step of p after STOP, by what p does.
LEMMA ClocksFrame ==
  ASSUME NEW w \in Where, ProtocolInv(w), ClockTypes, SaidStop, ClocksInv,
         NEW p \in Procs, NEW D, NEW m,
         D # {} => m \in BankMessage /\ SentWithin(Takers', Latest', p, m),
         Acts(p, D, m), Advances, \A c \in Children \ {p} : Dropped(c)' = Dropped(c),
         FewDrop', StopInOrder', Within(p)'
  PROVE  ClocksInv'
<1>1. MailTypes /\ MailWithin /\ \A a \in Procs : Within(a)
  BY DEF ProtocolInv, StateTypes, ClocksInv
<1>2. \A a \in Procs : Within(a)'
  BY <1>1, OthersWithin
<1>3. MailWithin'
  BY <1>1, MailStaysWithin
<1> QED
  BY <1>2, <1>3 DEF ClocksInv

\* The same for a step by which nobody says DONE, and nobody who has said it drops one.
LEMMA QuietFrame ==
  ASSUME NEW w \in Where, ProtocolInv(w), ClockTypes, SaidStop, ClocksInv,
         NEW p \in Procs, NEW D, NEW m,
         D # {} => m \in BankMessage /\ SentWithin(Takers, Latest, p, m),
         Acts(p, D, m), D \cap Children = {},
         p \in Children => /\ SaidDone(p)' <=> SaidDone(p)
                           /\ SaidDone(p) => (Dropped(p)' = {} <=> Dropped(p) = {}),
         StopInOrder',
         Takers' = Takers /\ Latest' = Latest => Within(p)'
  PROVE  ClocksInv'
<1>1. MailTypes /\ FewDrop
  BY DEF ProtocolInv, StateTypes, ClocksInv
<1>2. Tells(p, D)
  BY DEF Tells
<1>3. \A c \in Children \ {p} : Dropped(c)' = Dropped(c) /\ (SaidDone(c)' <=> SaidDone(c))
  BY <1>1, <1>2, OthersDrop
<1>4. Takers' = Takers /\ Latest' = Latest /\ FewDrop'
  BY <1>1, <1>3, SameTakers
<1>5. Advances
  BY <1>4 DEF Advances
<1> QED
  BY <1>3, <1>4, <1>5, ClocksFrame

-----------------------------------------------------------------------------
(* The steps of the children after STOP *)

AtEnd(w) == ProtocolInv(w) /\ ClockTypes /\ SaidStop /\ ClocksInv

\* What is known then.
LEMMA AtEndFacts ==
  ASSUME NEW w \in Where, AtEnd(w)
  PROVE  /\ ProtocolInv(w) /\ StateTypes /\ MailTypes /\ Progress(w) /\ Pairs(w) /\ OrdersCurrent
         /\ ClockTypes /\ SaidStop /\ ClocksInv /\ FewDrop /\ MailWithin /\ StopInOrder /\ ParentWithin
         /\ \A c \in Children : ChildWithin(c)
         /\ \A a, b : ~OrderOn(w, a, b) /\ ~AckOn(w, b)
         /\ N \in Nat /\ StopTime \in Nat
<1>1. /\ ProtocolInv(w) /\ StateTypes /\ MailTypes /\ Progress(w) /\ Pairs(w) /\ OrdersCurrent
      /\ ClockTypes /\ SaidStop /\ ClocksInv
  BY DEF AtEnd, ProtocolInv, StateTypes
<1>2. /\ FewDrop /\ MailWithin /\ StopInOrder /\ \A p \in Procs : Within(p)
  BY <1>1 DEF ClocksInv
<1>3. ParentWithin /\ \A c \in Children : ChildWithin(c)
  BY <1>2, ProcsFacts DEF Within
<1>4. \A a, b : ~OrderOn(w, a, b) /\ ~AckOn(w, b)
  BY <1>1, AfterStop
<1> QED
  BY <1>1, <1>2, <1>3, <1>4, TurnFacts

\* The message that is read is within the limits.
LEMMA ReadWithin ==
  ASSUME MailTypes, MailWithin, NEW p \in Procs, NEW f \in Procs, receive(p, f)
  PROVE  Oldest(p, f).time \in Nat /\ SentWithin(Takers, Latest, f, Oldest(p, f))
<1>1. /\ Link(f, p) \in Seq(BankMessage) /\ Link(f, p) # <<>> /\ Oldest(p, f) = Head(Link(f, p))
      /\ Oldest(p, f) \in BankMessage
  BY LinkMessages, LinkFirst
<1>2. 1 \in 1..Len(Link(f, p)) /\ Head(Link(f, p)) = Link(f, p)[1]
  BY <1>1
<1> QED
  BY <1>1, <1>2, MessageFacts DEF MailWithin

\* STOP is in its pipe for a child that is not one of the last to take it.
LEMMA StopWaits ==
  ASSUME NEW w \in Where, AtEnd(w), NEW c \in Children, ~SaidDone(c), c <= Takers
  PROVE  pipes[c][PARENT_ID] # <<>>
<1>1. /\ StateTypes /\ MailTypes /\ Pairs(w) /\ SaidStop /\ StopInOrder
      /\ \A a, b : ~OrderOn(w, a, b)
  BY AtEndFacts
<1>2. PICK q \in Finished : c < q
  <2> SUFFICES ASSUME \A q \in Finished : ~(c < q) PROVE FALSE
    OBVIOUS
  <2>1. c \in Nat \ {0} /\ Takers \in Nat
    BY TakersFacts DEF Children
  <2>2. \A q \in Finished : q \in Nat \ {0} /\ q # c
    BY DEF Finished, Children
  <2>3. Finished \in SUBSET (1..(c - 1))
    BY <2>1, <2>2
  <2>4. IsFiniteSet(1..(c - 1)) /\ Cardinality(1..(c - 1)) = IF 1 > c - 1 THEN 0 ELSE (c - 1) - 1 + 1
    <3>1. 1 \in Int /\ c - 1 \in Int
      BY <2>1
    <3> QED
      BY <3>1, FS_Interval
  <2>5. Takers <= Cardinality(1..(c - 1))
    BY <2>3, <2>4, FS_Subset DEF Takers
  <2> QED
    BY <2>1, <2>4, <2>5
<1>3. q \in Children /\ SaidDone(q) /\ q \in Procs /\ c \in Procs /\ PARENT_ID \in Procs
  BY ProcsFacts DEF Finished
<1>4. outbox[PARENT_ID][q] = NoMessage
  <2>1. Mail(PARENT_ID, q) = <<>>
    BY <1>1, <1>3 DEF Pairs, ParentMail
  <2> QED
    BY <1>1, <1>3, <2>1, StillToWrite
<1>5. outbox[PARENT_ID][c] = NoMessage
  BY <1>1, <1>2, <1>3, <1>4 DEF StopInOrder
<1>6. Mail(PARENT_ID, c) = <<"STOP">>
  BY <1>1 DEF Pairs, ParentMail
<1>7. Link(PARENT_ID, c) # <<>>
  <2>1. <<"STOP">> # <<>>
    OBVIOUS
  <2> QED
    BY <1>1, <1>3, <1>6, <2>1, LinkMessages, NothingUnderWay DEF Mail
<1> QED
  BY <1>5, <1>7 DEF Link

\* What a step that only reads does to the messages under way.
LEMMA ReadMoves ==
  ASSUME MailTypes, OrdersCurrent, NEW p \in Procs, NEW f \in Procs, receive(p, f),
         outbox' = outbox, ordered' = ordered
  PROVE  /\ \A a, b \in Procs : Link(a, b)' = IF a = f /\ b = p THEN Tail(Link(a, b)) ELSE Link(a, b)
         /\ Link(f, p) # <<>>
         /\ \A a, b \in Procs : Mail(a, b)' = IF a = f /\ b = p THEN Tail(Mail(a, b)) ELSE Mail(a, b)
<1>1. \A a, b \in Procs : Link(a, b)' = IF a = f /\ b = p THEN Tail(Link(a, b)) ELSE Link(a, b)
  BY LinkReads
<1>2. Link(f, p) # <<>>
  BY LinkFirst
<1>3. \A a, b \in Procs : Mail(a, b)' = IF a = f /\ b = p THEN Tail(Mail(a, b)) ELSE Mail(a, b)
  BY MailReads
<1> QED
  BY <1>1, <1>2, <1>3

\* A child hears STARTED of another one.
LEMMA EndHearsStarted ==
  ASSUME NEW w \in Where, AtEnd(w), NEW c \in Children, pc[c] = "await_started",
         ReceiveNextTimed(c, "STARTED")
  PROVE  ClocksInv'
<1> DEFINE f == from[c]  m == Oldest(c, from[c])  t == Synchronized(lamport_time[c], m.time)
<1>1. /\ ProtocolInv(w) /\ StateTypes /\ MailTypes /\ OrdersCurrent /\ ClockTypes /\ SaidStop
      /\ ClocksInv /\ StopInOrder /\ MailWithin /\ ChildWithin(c)
      /\ \A a, b : ~OrderOn(w, a, b)
  BY AtEndFacts
<1>2. c \in Procs /\ c # PARENT_ID /\ lamport_time[c] \in Nat
  BY <1>1, ProcsFacts DEF ClockTypes
<1>3. /\ from[c] <= N /\ receive(c, f) /\ SetTime(c, t)
      /\ UNCHANGED <<outbox, polled, balance, history, ordered>>
  BY DEF ReceiveNextTimed, ReceiveNext
<1>4. /\ f \in Children \ {c} /\ f \in Procs /\ m.type = "STARTED"
      /\ Mail(f, c) = IF SaidDone(f) THEN <<"STARTED", "DONE">> ELSE <<"STARTED">>
  BY <1>1, <1>3, ChildHeadsType, ProcsFacts
<1>5. from' = [from EXCEPT ![c] = NextFrom(c, f)] /\ UNCHANGED pc
  BY <1>4 DEF ReceiveNextTimed, ReceiveNext
<1>6. SentWithin(Takers, Latest, f, m) /\ m.time = 1
  <2>1. SentWithin(Takers, Latest, f, m)
    BY <1>1, <1>2, <1>3, <1>4, ReadWithin
  <2> QED
    BY <1>4, <2>1 DEF SentWithin
<1>7. /\ from'[c] = NextFrom(c, f) /\ \A a \in Procs \ {c} : from'[a] = from[a]
      /\ lamport_time'[c] = t /\ \A a \in Procs \ {c} : lamport_time'[a] = lamport_time[a]
  BY <1>1, <1>2, <1>3, <1>5, SetTimeFacts DEF StateTypes
<1>8. /\ \A a, b \in Procs : Link(a, b)' = IF a = f /\ b = c THEN Tail(Link(a, b)) ELSE Link(a, b)
      /\ Link(f, c) # <<>>
      /\ \A a, b \in Procs : Mail(a, b)' = IF a = f /\ b = c THEN Tail(Mail(a, b)) ELSE Mail(a, b)
  BY <1>1, <1>2, <1>3, <1>4, ReadMoves
<1>9. Acts(c, {}, NoMessage)
  BY <1>3, <1>5, <1>7, <1>8 DEF Acts, SameState
<1>10. StopInOrder'
  BY <1>1, <1>3 DEF StopInOrder
<1>11. ~SaidDone(c) /\ ~SaidDone(c)'
  BY <1>5 DEF SaidDone
<1>12. Dropped(c)' = {}
  <2> SUFFICES ASSUME NEW q \in Children \ {c}, SaidDone(q)', Mail(q, c)' = <<>> PROVE FALSE
    BY DEF Dropped
  <2>1. SaidDone(q) /\ q \in Procs /\ ~HeardDone(c, q)
    BY <1>5, ProcsFacts DEF SaidDone, HeardDone
  <2>2. CASE q = f
    <3>1. Mail(q, c)' = Tail(<<"STARTED", "DONE">>)
      BY <1>2, <1>4, <1>8, <2>1, <2>2
    <3>2. Tail(<<"STARTED", "DONE">>) = <<"DONE">> /\ <<"DONE">> # <<>>
      BY WordFacts DEF BankType
    <3> QED
      BY <3>1, <3>2
  <2>3. CASE q # f
    <3>1. Mail(q, c) = <<>>
      BY <1>2, <1>8, <2>1, <2>3
    <3>2. q \in Dropped(c)
      BY <2>1, <3>1 DEF Dropped
    <3> QED
      BY <1>1, <3>2 DEF ChildWithin
  <2> QED
    BY <2>2, <2>3
<1>13. Within(c)'
  <2>1. Passed(c)' = Passed(c) + 1 /\ Passed(c) \in Nat
    BY <1>4, <1>7, PassedNext
  <2>2. lamport_time[c] = 1 + Passed(c)
    BY <1>1 DEF ChildWithin
  <2>3. lamport_time'[c] = 1 + Passed(c)'
    BY <1>6, <1>7, <2>1, <2>2 DEF Synchronized
  <2> QED
    BY <1>2, <1>5, <1>12, <2>3 DEF Within, ChildWithin
<1> QED
  BY <1>1, <1>2, <1>9, <1>10, <1>11, <1>13, QuietFrame

\* A child hears the DONE of another one.
LEMMA EndHearsDone ==
  ASSUME NEW w \in Where, AtEnd(w), NEW c \in Children, pc[c] = "await_done",
         ReceiveNextTimed(c, "DONE")
  PROVE  ClocksInv'
<1> DEFINE f == from[c]  m == Oldest(c, from[c])  t == Synchronized(lamport_time[c], m.time)
           d == Takers  e == Latest  k == Cardinality(Dropped(c))
<1>1. /\ ProtocolInv(w) /\ StateTypes /\ MailTypes /\ OrdersCurrent /\ ClockTypes /\ SaidStop
      /\ ClocksInv /\ StopInOrder /\ MailWithin /\ ChildWithin(c)
  BY AtEndFacts
<1>2. c \in Procs /\ c # PARENT_ID /\ lamport_time[c] \in Nat
  BY <1>1, ProcsFacts DEF ClockTypes
<1>3. /\ from[c] <= N /\ receive(c, f) /\ SetTime(c, t)
      /\ UNCHANGED <<outbox, polled, balance, history, ordered>>
  BY DEF ReceiveNextTimed, ReceiveNext
<1>4. /\ f \in Children \ {c} /\ f \in Procs /\ m.type = "DONE" /\ Mail(f, c) = <<"DONE">>
  BY <1>1, <1>3, ChildHeadsType, ProcsFacts
<1>5. from' = [from EXCEPT ![c] = NextFrom(c, f)] /\ UNCHANGED pc
  BY <1>4 DEF ReceiveNextTimed, ReceiveNext
<1>6. m.time \in Nat /\ m.time <= e /\ (f < d => m.time <= e - d + 2)
  <2>1. m.time \in Nat /\ SentWithin(d, e, f, m)
    BY <1>1, <1>2, <1>3, <1>4, ReadWithin
  <2> QED
    BY <1>4, <2>1 DEF SentWithin
<1>7. /\ from'[c] = NextFrom(c, f) /\ \A a \in Procs \ {c} : from'[a] = from[a]
      /\ lamport_time'[c] = t /\ \A a \in Procs \ {c} : lamport_time'[a] = lamport_time[a]
  BY <1>1, <1>2, <1>3, <1>5, SetTimeFacts DEF StateTypes
<1>8. /\ \A a, b \in Procs : Link(a, b)' = IF a = f /\ b = c THEN Tail(Link(a, b)) ELSE Link(a, b)
      /\ Link(f, c) # <<>>
      /\ \A a, b \in Procs : Mail(a, b)' = IF a = f /\ b = c THEN Tail(Mail(a, b)) ELSE Mail(a, b)
  BY <1>1, <1>2, <1>3, <1>4, ReadMoves
<1>9. Acts(c, {}, NoMessage)
  BY <1>3, <1>5, <1>7, <1>8 DEF Acts, SameState
<1>10. StopInOrder'
  BY <1>1, <1>3 DEF StopInOrder
<1>11. SaidDone(c)' <=> SaidDone(c)
  BY <1>5 DEF SaidDone
<1>12. Dropped(c)' = Dropped(c)
  <2> SUFFICES ASSUME NEW q \in Children \ {c}
               PROVE  SaidDone(q)' /\ ~HeardDone(c, q)' /\ Mail(q, c)' = <<>>
                        <=> SaidDone(q) /\ ~HeardDone(c, q) /\ Mail(q, c) = <<>>
    BY DEF Dropped
  <2>1. (SaidDone(q)' <=> SaidDone(q)) /\ q \in Procs
    BY <1>5, ProcsFacts DEF SaidDone
  <2>2. HeardDone(c, q)' <=> HeardDone(c, q) \/ q = f
    <3>1. q < from'[c] <=> q < f \/ q = f
      BY <1>2, <1>4, <1>7, CursorNext
    <3> QED
      BY <1>5, <3>1 DEF HeardDone
  <2>3. CASE q = f
    <3>1. Mail(q, c) # <<>>
      <4>1. <<"DONE">> # <<>>
        OBVIOUS
      <4> QED
        BY <1>4, <2>3, <4>1
    <3> QED
      BY <2>2, <2>3, <3>1
  <2>4. CASE q # f
    <3>1. Mail(q, c)' = Mail(q, c)
      BY <1>2, <1>8, <2>1, <2>4
    <3> QED
      BY <2>1, <2>2, <2>4, <3>1
  <2> QED
    BY <2>3, <2>4
<1>13. ASSUME Takers' = d, Latest' = e PROVE Within(c)'
  <2>1. Passed(c)' = Passed(c) + 1 /\ Passed(c) \in Nat
    BY <1>4, <1>7, PassedNext
  <2>2. f <= Passed(c) + 2 /\ f \in Nat
    BY <1>4 DEF Passed, Children
  <2>3. \/ lamport_time[c] <= e - d + 2 + Passed(c)
        \/ lamport_time[c] <= e - d + 1 + Passed(c) + k
    BY <1>1 DEF ChildWithin
  <2>4. d \in Nat /\ e \in Nat /\ k \in Nat
    BY TakersFacts
  <2>5. t = (IF m.time > lamport_time[c] THEN m.time ELSE lamport_time[c]) + 1
    BY DEF Synchronized
  <2> HIDE DEF d, e, k, f, m, t
  <2>6. \/ t <= e - d + 2 + (Passed(c) + 1)
        \/ t <= e - d + 1 + (Passed(c) + 1) + k
    BY <1>2, <1>6, <2>1, <2>2, <2>3, <2>4, <2>5
  <2>7. \/ lamport_time'[c] <= Latest' - Takers' + 2 + Passed(c)'
        \/ lamport_time'[c] <= Latest' - Takers' + 1 + Passed(c)' + Cardinality(Dropped(c))
    BY <1>7, <1>13, <2>1, <2>6 DEF k
  <2> QED
    BY <1>2, <1>5, <1>12, <2>7 DEF Within, ChildWithin
<1> QED
  BY <1>1, <1>2, <1>9, <1>10, <1>11, <1>12, <1>13, QuietFrame

\* A step that moves no message and no clock, and by which nobody says DONE.
LEMMA StandStill ==
  ASSUME NEW w \in Where, AtEnd(w), NEW p \in Procs,
         \A a, b \in Procs : Link(a, b)' = Link(a, b), lamport_time' = lamport_time,
         \A a \in Procs \ {p} : SameState(a),
         \A c \in Children \ {p} : polled'[c] = polled[c],
         p \in Children => /\ SaidDone(p)' <=> SaidDone(p)
                           /\ SaidDone(p) => (Dropped(p)' = {} <=> Dropped(p) = {}),
         StopInOrder',
         Takers' = Takers /\ Latest' = Latest => Within(p)'
  PROVE  ClocksInv'
<1>1. ProtocolInv(w) /\ ClockTypes /\ SaidStop /\ ClocksInv
  BY AtEndFacts
<1>2. Acts(p, {}, NoMessage)
  BY DEF Acts
<1> QED
  BY <1>1, <1>2, QuietFrame

\* What has been dropped depends on what is under way and on what has been counted.
LEMMA SameDropped ==
  ASSUME NEW c \in Children,
         \A q \in Children \ {c} : /\ Mail(q, c)' = Mail(q, c) /\ (SaidDone(q)' <=> SaidDone(q))
                                   /\ HeardDone(c, q)' <=> HeardDone(c, q)
  PROVE  Dropped(c)' = Dropped(c)
BY DEF Dropped

\* A child has heard STARTED of all and enters the loop of child_entry.
LEMMA EndBegins ==
  ASSUME NEW w \in Where, AtEnd(w), NEW c \in Children, At(c, "await_started"),
         ReceiveEnd(c), Goto(c, "loop"), UNCHANGED <<outbox, lamport_time>>
  PROVE  ClocksInv'
<1>1. StateTypes /\ StopInOrder /\ ChildWithin(c) /\ N \in Nat /\ StopTime \in Nat
  BY AtEndFacts
<1>2. c \in Procs /\ c # PARENT_ID
  BY ProcsFacts
<1>3. /\ from[c] > N /\ from' = [from EXCEPT ![c] = NextFrom(c, PARENT_ID)]
      /\ UNCHANGED <<pipes, polled, balance, history, all_history, ordered>>
  BY DEF ReceiveEnd
<1>4. /\ pc[c] = "await_started" /\ pc'[c] = "loop" /\ \A a \in Procs \ {c} : pc'[a] = pc[a]
      /\ \A a \in Procs \ {c} : from'[a] = from[a]
  BY <1>1, <1>2, <1>3, GotoFacts DEF At, StateTypes
<1>5. \A a, b : Link(a, b)' = Link(a, b) /\ Mail(a, b)' = Mail(a, b)
  BY <1>3, LinksSame DEF Mail
<1>6. ~SaidDone(c) /\ ~SaidDone(c)' /\ \A q : ~HeardDone(c, q) /\ ~HeardDone(c, q)'
  BY <1>4 DEF SaidDone, HeardDone
<1>7. \A q \in Children \ {c} : SaidDone(q)' <=> SaidDone(q)
  BY <1>4, ProcsFacts DEF SaidDone
<1>8. Dropped(c)' = {} /\ lamport_time[c] = 1 + Passed(c)
  <2>1. Dropped(c) = {} /\ lamport_time[c] = 1 + Passed(c)
    BY <1>1, <1>4 DEF ChildWithin
  <2> QED
    BY <1>5, <1>6, <1>7, <2>1, SameDropped
<1>9. lamport_time'[c] <= StopTime
  <2>1. from[c] \in 1..(N + 1) /\ N \in Nat
    BY <1>1, <1>2 DEF StateTypes
  <2>2. from[c] = N + 1
    BY <1>3, <2>1
  <2>3. Passed(c) = N - 1
    BY <2>2, PassedFacts
  <2>4. lamport_time[c] = N
    BY <1>1, <1>8, <2>3
  <2>5. StopTime >= N
    <3> DEFINE k == Len(Orders)
    <3>1. k \in Nat /\ StopTime = Turn(k) + 1 /\ Turn(0) = N + 1
      BY TurnFacts, OrderFacts
    <3>2. Turn(k) = Turn(0) + 6 * k
      BY <3>1, TurnFacts
    <3> HIDE DEF k
    <3> QED
      BY <1>1, <3>1, <3>2
  <2> QED
    BY <1>1, <2>4, <2>5
<1>10. StopInOrder'
  BY <1>1, <1>3 DEF StopInOrder
<1>11. ASSUME Takers' = Takers, Latest' = Latest PROVE Within(c)'
  <2>1. Takers \in Nat /\ Latest \in Nat /\ Latest >= StopTime + 2 /\ Cardinality(Dropped(c)') = 0
        /\ c \in Nat /\ N \in Nat /\ lamport_time'[c] \in Nat
    <3>1. lamport_time \in [Procs -> Nat]
      BY AtEndFacts DEF ClockTypes
    <3> QED
      BY <1>1, <1>2, <1>8, <3>1, TakersFacts, FS_EmptySet DEF Children
  <2>2. StopTime' = StopTime
    BY DEF StopTime, Turn
  <2>3. /\ lamport_time'[c] <= Latest' + Cardinality(Dropped(c)')
        /\ lamport_time'[c] <= Latest' + (IF polled'[c] = PARENT_ID THEN 1 ELSE 0)
    BY <1>1, <1>9, <1>11, <2>1
  <2>4. LoopWithin(c)'
    BY <1>9, <2>2, <2>3 DEF LoopWithin
  <2> QED
    BY <1>2, <1>4, <2>4 DEF Within, ChildWithin
<1> QED
  BY <1>2, <1>3, <1>4, <1>5, <1>6, <1>10, <1>11, StandStill DEF SameState

\* Nothing is found; a child for which STOP waits finds it in the first pipe it polls.
LEMMA EndPollsNothing ==
  ASSUME NEW w \in Where, AtEnd(w), NEW c \in Children, pc[c] = "loop", PollEmpty(c),
         UNCHANGED lamport_time
  PROVE  ClocksInv'
<1>1. StateTypes /\ StopInOrder /\ ChildWithin(c)
  BY AtEndFacts
<1>2. c \in Procs /\ c # PARENT_ID
  BY ProcsFacts
<1>3. /\ pipes[c][polled[c]] = <<>> /\ polled' = [polled EXCEPT ![c] = NextPolled(c, polled[c])]
      /\ UNCHANGED <<pipes, outbox, pc, from, balance, history, all_history, ordered>>
  BY DEF PollEmpty
<1>4. \A a, b : Link(a, b)' = Link(a, b) /\ Mail(a, b)' = Mail(a, b)
  BY <1>3, LinksSame DEF Mail
<1>5. (SaidDone(c)' <=> SaidDone(c)) /\ Dropped(c)' = Dropped(c)
  <2>1. \A q \in Children : (SaidDone(q)' <=> SaidDone(q)) /\ (HeardDone(c, q)' <=> HeardDone(c, q))
    BY <1>3 DEF SaidDone, HeardDone
  <2> QED
    BY <1>4, <2>1, SameDropped
<1>6. StopInOrder'
  BY <1>1, <1>3 DEF StopInOrder
<1>7. ASSUME Takers' = Takers, Latest' = Latest PROVE Within(c)'
  <2>1. LoopWithin(c)
    BY <1>1 DEF ChildWithin
  <2>2. c <= Takers => lamport_time[c] <= Latest
    <3> SUFFICES ASSUME c <= Takers PROVE lamport_time[c] <= Latest
      OBVIOUS
    <3>1. ~SaidDone(c)
      BY DEF SaidDone
    <3>2. polled[c] # PARENT_ID
      BY <1>3, <3>1, StopWaits
    <3>3. Latest \in Nat
      BY TakersFacts
    <3> QED
      BY <2>1, <3>2, <3>3 DEF LoopWithin
  <2>3. c <= Takers' => lamport_time'[c] <= Latest' + (IF polled'[c] = PARENT_ID THEN 1 ELSE 0)
    <3>1. Latest \in Nat /\ lamport_time[c] \in Nat
      BY <1>2, TakersFacts, AtEndFacts DEF ClockTypes
    <3>2. lamport_time[c] <= Latest => lamport_time[c] <= Latest + (IF polled'[c] = PARENT_ID THEN 1 ELSE 0)
      BY <3>1
    <3> QED
      BY <1>7, <2>2, <3>2
  <2>4. StopTime' = StopTime
    BY DEF StopTime, Turn
  <2>5. LoopWithin(c)'
    BY <1>5, <1>7, <2>1, <2>3, <2>4 DEF LoopWithin
  <2> QED
    BY <1>2, <1>3, <2>5 DEF Within, ChildWithin
<1> QED
  BY <1>1, <1>2, <1>3, <1>4, <1>5, <1>6, <1>7, StandStill DEF SameState, StateTypes

\* A write() leaves what is under way as it is; the parent writes to one child after the other.
LEMMA EndWrites ==
  ASSUME NEW w \in Where, AtEnd(w), NEW p \in Procs, Write(p), UNCHANGED lamport_time
  PROVE  ClocksInv'
<1>1. ProtocolInv(w) /\ StateTypes /\ MailTypes /\ StopInOrder /\ ClocksInv /\ SaidStop
  BY AtEndFacts
<1>2. ProtocolInv(w)' /\ UNCHANGED pc
  BY <1>1, Writes
<1>3. UNCHANGED <<from, polled, balance, history, all_history, ordered>>
  BY DEF Write
<1>4. PICK d \in Procs : /\ NextDst(p, d)
                         /\ IF HungUp(d)
                              THEN Goto(p, "killed")
                              ELSE /\ pipes' = [pipes EXCEPT ![d][p] = Append(@, outbox[p][d])]
                                   /\ outbox' = [outbox EXCEPT ![p][d] = NoMessage]
  BY DEF Write
<1>5. /\ outbox[p][d] # NoMessage /\ \A e \in Procs : outbox[p][e] # NoMessage => d <= e
      /\ pipes' = [pipes EXCEPT ![d][p] = Append(@, outbox[p][d])]
      /\ outbox' = [outbox EXCEPT ![p][d] = NoMessage]
  <2>1. outbox[p][d] # NoMessage /\ \A e \in Procs : outbox[p][e] # NoMessage => d <= e
    BY <1>4 DEF NextDst
  <2>2. ~HungUp(d)
    BY <1>1, <2>1, NobodyGone DEF HungUp
  <2> QED
    BY <1>4, <2>1, <2>2
<1>6. \A a, b \in Procs : Link(a, b)' = Link(a, b)
  BY <1>1, <1>5, LinkWrites
<1>7. StopInOrder'
  <2> SUFFICES ASSUME NEW a \in Children, NEW b \in Children, a < b,
                      outbox'[PARENT_ID][a] # NoMessage
               PROVE  outbox'[PARENT_ID][b] # NoMessage
    BY DEF StopInOrder
  <2>1. a \in Procs /\ b \in Procs /\ PARENT_ID \in Procs
    BY ProcsFacts
  <2>2. \A x, y \in Procs : outbox'[x][y] = IF x = p /\ y = d THEN NoMessage ELSE outbox[x][y]
    BY <1>1, <1>5 DEF MailTypes
  <2>3. outbox[PARENT_ID][a] # NoMessage
    BY <2>1, <2>2
  <2>4. outbox[PARENT_ID][b] # NoMessage
    BY <1>1, <2>3 DEF StopInOrder
  <2>5. ~(p = PARENT_ID /\ b = d)
    <3> SUFFICES ASSUME p = PARENT_ID, b = d PROVE FALSE
      OBVIOUS
    <3>1. b <= a
      BY <1>5, <2>1, <2>3
    <3> QED
      BY <3>1 DEF Children
  <2> QED
    BY <2>1, <2>2, <2>4, <2>5
<1>8. \A c \in Children : /\ SaidDone(c)' <=> SaidDone(c)
                          /\ \A q : HeardDone(c, q)' <=> HeardDone(c, q)
  BY <1>2, <1>3 DEF SaidDone, HeardDone
<1>9. \A a, b \in Procs : Mail(a, b)' = Mail(a, b)
  BY <1>6 DEF Mail
<1>10. p \in Children => Dropped(p)' = Dropped(p)
  BY <1>8, <1>9, ProcsFacts, SameDropped
<1>11. ASSUME Takers' = Takers, Latest' = Latest PROVE Within(p)'
  <2>1. Within(p)
    BY <1>1 DEF ClocksInv
  <2>2. StopTime' = StopTime /\ (p \in Children => Passed(p)' = Passed(p))
    BY <1>3 DEF StopTime, Turn, Passed
  <2>3. CASE p = PARENT_ID
    <3>1. ParentWithin
      BY <2>1, <2>3 DEF Within
    <3>2. ParentWithin'
      BY <1>2, <1>3, <1>11, <2>2, <3>1 DEF ParentWithin
    <3> QED
      BY <2>3, <3>2 DEF Within
  <2>4. CASE p # PARENT_ID
    <3>1. p \in Children /\ ChildWithin(p)
      BY <2>1, <2>4, NAssumption DEF Within, Procs, Children, PARENT_ID
    <3>2. LoopWithin(p)' <=> LoopWithin(p)
      BY <1>3, <1>10, <1>11, <2>2, <3>1 DEF LoopWithin
    <3>3. ChildWithin(p)'
      BY <1>2, <1>10, <1>11, <2>2, <3>1, <3>2 DEF ChildWithin
    <3> QED
      BY <2>4, <3>3 DEF Within
  <2> QED
    BY <2>3, <2>4
<1> QED
  BY <1>2, <1>3, <1>6, <1>7, <1>8, <1>10, <1>11, StandStill DEF SameState

\* A child returns from main after its history is sent.
LEMMA EndReturns ==
  ASSUME NEW w \in Where, AtEnd(w), NEW c \in Children, ChildExit(c), UNCHANGED lamport_time
  PROVE  ClocksInv'
<1>1. StateTypes /\ StopInOrder /\ ChildWithin(c)
  BY AtEndFacts
<1>2. c \in Procs /\ c # PARENT_ID
  BY ProcsFacts
<1>3. /\ pc[c] = "send_history" /\ Goto(c, "exited")
      /\ UNCHANGED <<pipes, outbox, from, polled, balance, history, all_history, ordered>>
  BY DEF ChildExit, At
<1>4. pc'[c] = "exited" /\ \A a \in Procs \ {c} : pc'[a] = pc[a]
  BY <1>1, <1>2, <1>3, GotoFacts
<1>5. \A a, b : Link(a, b)' = Link(a, b)
  BY <1>3, LinksSame
<1>6. SaidDone(c) /\ SaidDone(c)'
  BY <1>3, <1>4 DEF SaidDone
<1>7. Dropped(c) = {} /\ Dropped(c)' = {}
  <2>1. ProtocolInv(w) /\ SaidStop
    BY AtEndFacts
  <2>2. \A q \in Children \ {c} : HeardDone(c, q) /\ HeardDone(c, q)'
    BY <1>3, <1>4 DEF HeardDone
  <2> QED
    BY <2>2 DEF Dropped
<1>8. StopInOrder'
  BY <1>1, <1>3 DEF StopInOrder
<1>9. ASSUME Takers' = Takers, Latest' = Latest PROVE Within(c)'
  <2>1. Takers = N /\ lamport_time[c] <= Latest + 3
    BY <1>1, <1>3 DEF ChildWithin
  <2> QED
    BY <1>2, <1>4, <1>9, <2>1 DEF Within, ChildWithin
<1> QED
  BY <1>2, <1>3, <1>4, <1>5, <1>6, <1>7, <1>8, <1>9, StandStill DEF SameState

\* The end of file of a child that has returned: all have said DONE by then.
LEMMA EndSpins ==
  ASSUME NEW w \in Where, AtEnd(w), NEW c \in Children, At(c, "await_done"), SpinOnEof(c),
         UNCHANGED lamport_time
  PROVE  ClocksInv'
<1> DEFINE d == Takers  e == Latest  k == Cardinality(Dropped(c))
<1>1. /\ ProtocolInv(w) /\ StateTypes /\ MailTypes /\ Progress(w) /\ Pairs(w) /\ StopInOrder
      /\ ChildWithin(c) /\ N \in Nat /\ SaidStop
  BY AtEndFacts
<1>2. c \in Procs /\ c # PARENT_ID /\ lamport_time[c] \in Nat
  BY ProcsFacts, AtEndFacts DEF ClockTypes
<1>3. /\ pc[c] = "await_done" /\ ~Sending(c) /\ from[c] <= N
      /\ pipes[c][from[c]] = <<>> /\ HungUp(from[c]) /\ Goto(c, "spin")
      /\ UNCHANGED <<pipes, outbox, from, polled, balance, history, all_history, ordered>>
  BY DEF SpinOnEof, At
<1>4. PICK q \in Children \ {c} : q = from[c] /\ q \in Procs /\ q \in 1..(N + 1)
  <2>1. from[c] \in 1..(N + 1) /\ from[c] # c
    BY <1>1, <1>2 DEF StateTypes, Progress
  <2> QED
    BY <1>1, <1>3, <2>1, ProcsFacts DEF Children
<1>5. pc'[c] = "spin" /\ \A a \in Procs \ {c} : pc'[a] = pc[a]
  BY <1>1, <1>2, <1>3, GotoFacts
<1>6. \A a, b : Link(a, b)' = Link(a, b) /\ Mail(a, b)' = Mail(a, b)
  BY <1>3, LinksSame DEF Mail
<1>7. pc[q] = "exited"
  BY <1>1, <1>3, <1>4 DEF HungUp, Gone, Progress, ChildLabel
<1>8. d = N /\ SaidDone(q) /\ SaidDone(q)'
  <2>1. ChildWithin(q)
    BY <1>4, AtEndFacts
  <2>2. d = N
    BY <1>7, <2>1 DEF ChildWithin
  <2>3. pc'[q] = pc[q]
    BY <1>4, <1>5
  <2> QED
    BY <1>7, <2>2, <2>3 DEF SaidDone
<1>9. Mail(q, c) = <<>>
  <2>1. outbox[q][c] = NoMessage
    <3>1. ~Sending(q)
      BY <1>1, <1>4, <1>7 DEF Progress
    <3> QED
      BY <1>2, <3>1 DEF Sending
  <2>2. Link(q, c) = <<>>
    BY <1>3, <1>4, <2>1 DEF Link
  <2> QED
    BY <1>1, <1>2, <1>4, <2>2, LinkMessages, NothingUnderWay DEF Mail
<1>10. q \in Dropped(c) /\ q \in Dropped(c)'
  <2>1. ~HeardDone(c, q)
    BY <1>3, <1>4 DEF HeardDone
  <2>2. ~HeardDone(c, q)'
    BY <1>5 DEF HeardDone
  <2>3. Mail(q, c)' = <<>>
    BY <1>6, <1>9
  <2> QED
    BY <1>4, <1>8, <1>9, <2>1, <2>2, <2>3 DEF Dropped
<1>11. lamport_time[c] <= e + 3
  <2>1. \A x \in Children \ {c} : HeardDone(c, x) => SaidDone(x)
    BY <1>1 DEF Pairs, ChildMail
  <2>2. Passed(c) \in Nat /\ Passed(c) + k <= d - 1
    BY <1>3, <1>4, <2>1, HeardAndDropped
  <2>3. \/ lamport_time[c] <= e - d + 2 + Passed(c)
        \/ lamport_time[c] <= e - d + 1 + Passed(c) + k
    BY <1>1, <1>3 DEF ChildWithin
  <2>4. d \in Nat /\ e \in Nat /\ k \in Nat
    BY TakersFacts
  <2> HIDE DEF d, e, k
  <2> QED
    BY <1>2, <2>2, <2>3, <2>4
<1>12. StopInOrder'
  BY <1>1, <1>3 DEF StopInOrder
<1>13. ASSUME Takers' = Takers, Latest' = Latest PROVE Within(c)'
  BY <1>2, <1>3, <1>5, <1>8, <1>11, <1>13 DEF Within, ChildWithin
<1>14. SaidDone(c) /\ SaidDone(c)'
  BY <1>3, <1>5 DEF SaidDone
<1> QED
  BY <1>2, <1>3, <1>5, <1>6, <1>10, <1>12, <1>13, <1>14, StandStill DEF SameState

\* A child drops a DONE that comes before STOP.
LEMMA EndIgnore ==
  ASSUME NEW w \in Where, AtEnd(w), NEW c \in Children, At(c, "loop"), Ignore(c)
  PROVE  ClocksInv'
<1> DEFINE r == ReceiptTime(c)  d == Takers  e == Latest  k == Cardinality(Dropped(c))
<1>1. /\ ProtocolInv(w) /\ StateTypes /\ MailTypes /\ OrdersCurrent /\ Pairs(w) /\ ClockTypes
      /\ SaidStop /\ ClocksInv /\ MailWithin /\ StopInOrder /\ ChildWithin(c)
  BY AtEndFacts
<1>2. c \in Procs /\ c # PARENT_ID /\ lamport_time[c] \in Nat
  BY <1>1, ProcsFacts DEF ClockTypes
<1>3. /\ PollMessage(c) /\ IsIgnored(c, Polled(c)) /\ UNCHANGED <<outbox, pc, balance>>
      /\ history' = [history EXCEPT ![c] = Filled(c)]
  BY DEF Ignore
<1>4. Polled(c).type = "DONE"
  <2>1. Filled(c) \in History
    BY <1>1, <1>3, Receipt
  <2>2. history' \in [Children -> History] /\ balance' \in [Children -> Int]
    BY <1>1, <1>3, <2>1 DEF StateTypes
  <2> QED
    BY <1>1, <1>3, <2>2, DropsDone
<1>5. PICK q \in Procs : q = polled[c]
  BY <1>1 DEF StateTypes
<1>6. /\ receive(c, q) /\ pc[c] = "loop" /\ polled' = [polled EXCEPT ![c] = PARENT_ID]
      /\ UNCHANGED <<from, all_history, ordered>>
  BY <1>3, <1>5 DEF PollMessage, At
<1>7. q \in Children /\ q # c /\ Mail(q, c) = <<"DONE">> /\ ~OrderOn(w, q, c)
  BY <1>1, <1>4, <1>5, <1>6, FoundInLoop DEF Polled
<1>8. SaidDone(q) /\ ~HeardDone(c, q) /\ <<"DONE">> # <<>>
  <2>1. ChildMail(w, q, c)
    BY <1>1, <1>7 DEF Pairs
  <2>2. HeardStarted(c, q) /\ ~HeardDone(c, q)
    BY <1>6 DEF HeardStarted, HeardDone
  <2>3. <<"DONE">> # <<>>
    OBVIOUS
  <2>4. SaidDone(q)
    BY <1>7, <2>1, <2>2, <2>3 DEF ChildMail
  <2> QED
    BY <2>2, <2>3, <2>4
<1>9. Polled(c).time \in Nat /\ Polled(c).time <= e /\ SetTime(c, r)
      /\ r = (IF Polled(c).time > lamport_time[c] THEN Polled(c).time ELSE lamport_time[c]) + 1
  <2>1. Polled(c).time \in Nat /\ SentWithin(Takers, Latest, q, Polled(c))
    BY <1>1, <1>2, <1>5, <1>6, ReadWithin DEF Polled
  <2>2. Polled(c).time <= e
    BY <1>4, <2>1 DEF SentWithin
  <2>3. SetTime(c, r)
    BY <1>4 DEF Ignore
  <2>4. r = (IF Polled(c).time > lamport_time[c] THEN Polled(c).time ELSE lamport_time[c]) + 1
    BY DEF ReceiptTime, Synchronized
  <2> QED
    BY <2>1, <2>2, <2>3, <2>4
<1> HIDE DEF r
<1>10. lamport_time'[c] = r /\ \A a \in Procs \ {c} : lamport_time'[a] = lamport_time[a]
  BY <1>1, <1>2, <1>9, SetTimeFacts
<1>11. /\ \A a, b \in Procs : Link(a, b)' = IF a = q /\ b = c THEN Tail(Link(a, b)) ELSE Link(a, b)
       /\ Link(q, c) # <<>>
       /\ \A a, b \in Procs : Mail(a, b)' = IF a = q /\ b = c THEN Tail(Mail(a, b)) ELSE Mail(a, b)
  BY <1>1, <1>2, <1>3, <1>6, ReadMoves
<1>12. polled'[c] = PARENT_ID /\ \A a \in Children \ {c} : polled'[a] = polled[a]
  BY <1>1, <1>6 DEF StateTypes
<1>13. Acts(c, {}, NoMessage)
  BY <1>3, <1>6, <1>10, <1>11, <1>12 DEF Acts, SameState
<1>14. Dropped(c)' = Dropped(c) \cup {q} /\ q \notin Dropped(c)
  <2>1. \A x \in Children : /\ SaidDone(x)' <=> SaidDone(x)
                            /\ HeardDone(c, x)' <=> HeardDone(c, x)
    BY <1>3, <1>6 DEF SaidDone, HeardDone
  <2>2. Mail(q, c)' = <<>>
    <3>1. Tail(<<"DONE">>) = <<>>
      BY WordFacts DEF BankType
    <3> QED
      BY <1>2, <1>7, <1>11, <3>1
  <2>3. \A x \in Children \ {q} : Mail(x, c)' = Mail(x, c)
    BY <1>2, <1>11, ProcsFacts
  <2>4. q \in Children \ {c} /\ SaidDone(q) /\ ~HeardDone(c, q) /\ Mail(q, c) # <<>>
    BY <1>2, <1>7, <1>8, <1>11
  <2>5. \A x \in Children \ {c, q} : x \in Dropped(c)' <=> x \in Dropped(c)
    BY <2>1, <2>3 DEF Dropped
  <2>6. q \in Dropped(c)' /\ q \notin Dropped(c)
    BY <2>1, <2>2, <2>4 DEF Dropped
  <2>7. Dropped(c) \in SUBSET (Children \ {c}) /\ Dropped(c)' \in SUBSET (Children \ {c})
    BY DEF Dropped
  <2> QED
    BY <2>4, <2>5, <2>6, <2>7
<1>15. Cardinality(Dropped(c)') = k + 1 /\ k \in Nat /\ Dropped(c)' # {}
  <2>1. IsFiniteSet(Dropped(c)) /\ k \in Nat
    BY TakersFacts
  <2> QED
    BY <1>14, <2>1, FS_AddElement
<1>16. StopInOrder'
  BY <1>1, <1>3 DEF StopInOrder
<1>17. ~SaidDone(c) /\ ~SaidDone(c)'
  BY <1>3, <1>6 DEF SaidDone
<1>18. ASSUME Takers' = Takers, Latest' = Latest PROVE Within(c)'
  <2>1. LoopWithin(c)
    BY <1>1, <1>6 DEF ChildWithin
  <2>2. /\ lamport_time[c] <= e + k
        /\ c <= d => lamport_time[c] <= e
    <3>1. q # PARENT_ID
      BY <1>7, ProcsFacts
    <3>2. e \in Nat
      BY TakersFacts
    <3> QED
      BY <1>5, <2>1, <3>1, <3>2 DEF LoopWithin
  <2>3. d \in Nat /\ e \in Nat
    BY TakersFacts
  <2>4. /\ r <= e + (k + 1)
        /\ c <= d => r <= e + 1
    <3> HIDE DEF d, e, k
    <3> QED
      BY <1>2, <1>9, <1>15, <2>2, <2>3
  <2>5. LoopWithin(c)'
    <3>1. /\ lamport_time'[c] <= Latest' + Cardinality(Dropped(c)')
          /\ c <= Takers' => lamport_time'[c] <= Latest' + (IF polled'[c] = PARENT_ID THEN 1 ELSE 0)
      BY <1>10, <1>12, <1>15, <1>18, <2>4
    <3> QED
      BY <1>15, <3>1 DEF LoopWithin
  <2> QED
    BY <1>2, <1>3, <1>6, <2>5 DEF Within, ChildWithin
<1> QED
  BY <1>1, <1>2, <1>13, <1>16, <1>17, <1>18, QuietFrame

\* A child takes STOP and says DONE: the later, the more it has dropped.
LEMMA EndTakesStop ==
  ASSUME NEW w \in Where, AtEnd(w), NEW c \in Children, At(c, "loop"), TakeStop(c)
  PROVE  ClocksInv'
<1> DEFINE r == ReceiptTime(c)  t == r + 1  m == [type |-> "DONE", time |-> t]  D == Procs \ {c}
           d == Takers  e == Latest  k == Cardinality(Dropped(c))
<1>1. /\ ProtocolInv(w) /\ StateTypes /\ MailTypes /\ Progress(w) /\ ClockTypes /\ FewDrop
      /\ SaidStop /\ ClocksInv /\ MailWithin /\ StopInOrder /\ ChildWithin(c)
      /\ N \in Nat /\ StopTime \in Nat
  BY AtEndFacts
<1>2. c \in Procs /\ c # PARENT_ID /\ lamport_time[c] \in Nat /\ PARENT_ID \in Procs
  BY <1>1, ProcsFacts DEF ClockTypes
<1>3. /\ PollMessage(c) /\ Polled(c).type = "STOP" /\ SetTime(c, t) /\ send_multicast(c, m)
      /\ Goto(c, "await_done")
  BY DEF TakeStop, Multicast
<1>4. /\ receive(c, polled[c]) /\ polled[c] \in Procs /\ pc[c] = "loop" /\ ~Sending(c)
      /\ polled' = [polled EXCEPT ![c] = PARENT_ID]
      /\ UNCHANGED <<from, all_history, ordered>>
  BY <1>1, <1>3 DEF PollMessage, At, StateTypes
<1>5. polled[c] = PARENT_ID
  BY <1>1, <1>3, <1>4, FoundInLoop DEF Polled
<1>6. r \in Nat /\ r = (IF StopTime > lamport_time[c] THEN StopTime ELSE lamport_time[c]) + 1
  <2>1. Polled(c).time = StopTime
    <3>1. SentWithin(Takers, Latest, PARENT_ID, Polled(c))
      BY <1>1, <1>2, <1>4, <1>5, ReadWithin DEF Polled
    <3> QED
      BY <1>3, <3>1 DEF SentWithin
  <2>2. r = (IF StopTime > lamport_time[c] THEN StopTime ELSE lamport_time[c]) + 1
    BY <2>1 DEF ReceiptTime, Synchronized
  <2> HIDE DEF r
  <2> QED
    BY <1>1, <1>2, <2>2
<1> HIDE DEF r
<1>7. m \in BankMessage /\ m.type = "DONE" /\ m.time = t /\ t \in Nat
  <2>1. t \in Nat
    BY <1>6
  <2> HIDE DEF t
  <2> QED
    BY <2>1, PlainMessage
<1> HIDE DEF m
<1>8. pc'[c] = "await_done" /\ \A a \in Procs \ {c} : pc'[a] = pc[a]
  BY <1>1, <1>2, <1>3, GotoFacts
<1>9. lamport_time'[c] = t /\ \A a \in Procs \ {c} : lamport_time'[a] = lamport_time[a]
  <2> HIDE DEF t
  <2> QED
    BY <1>1, <1>2, <1>3, SetTimeFacts
<1>10. /\ \A a \in Procs \ {c} : outbox'[a] = outbox[a]
       /\ \A a, b \in Procs :
            Link(a, b)' = IF a = PARENT_ID /\ b = c THEN Tail(Link(a, b))
                          ELSE IF a = c /\ b \in D THEN Append(Link(a, b), m)
                          ELSE Link(a, b)
       /\ Link(PARENT_ID, c) # <<>>
  <2> HIDE DEF D
  <2>1. Post(c, D, m)
    BY <1>3 DEF send_multicast, D
  <2>2. PARENT_ID \in Procs \ {c} /\ receive(c, PARENT_ID)
    BY <1>2, <1>4, <1>5
  <2>3. Link(PARENT_ID, c) # <<>>
    BY <1>1, <1>2, <2>2, LinkFirst
  <2> QED
    BY <1>1, <1>2, <1>4, <1>7, <2>1, <2>2, <2>3, LinkHandler
<1>11. Acts(c, D, m)
  <2>1. \A a \in Children \ {c} : polled'[a] = polled[a]
    BY <1>1, <1>4 DEF StateTypes
  <2>2. \A a \in Procs \ {c} : SameState(a)
    BY <1>4, <1>8 DEF SameState
  <2>3. c \notin D
    OBVIOUS
  <2> HIDE DEF D, t
  <2> QED
    BY <1>2, <1>9, <1>10, <2>1, <2>2, <2>3 DEF Acts
<1>12. ~SaidDone(c) /\ SaidDone(c)'
  BY <1>4, <1>8 DEF SaidDone
<1>13. \A a \in Children \ {c} : Dropped(a)' = Dropped(a) /\ (SaidDone(a)' <=> SaidDone(a))
  <2>1. Tells(c, D)
    <3>1. Children \ {c} \subseteq D
      BY ProcsFacts
    <3> HIDE DEF D
    <3> QED
      BY <1>12, <3>1 DEF Tells
  <2> HIDE DEF D
  <2> QED
    BY <1>1, <1>2, <1>7, <1>11, <2>1, OthersDrop
<1>14. from'[c] = NextFrom(c, PARENT_ID)
  BY <1>1, <1>2, <1>4 DEF Progress, Idle
<1>15. Dropped(c)' = Dropped(c)
  <2>1. \A q \in Children \ {c} : ~HeardDone(c, q) /\ ~HeardDone(c, q)'
    <3> SUFFICES ASSUME NEW q \in Children \ {c} PROVE ~HeardDone(c, q) /\ ~HeardDone(c, q)'
      OBVIOUS
    <3>1. ~(q < from'[c])
      BY <1>2, <1>14, CursorStart
    <3> QED
      BY <1>4, <1>8, <3>1 DEF HeardDone
  <2>2. \A q \in Children \ {c} : Mail(q, c)' = Mail(q, c)
    <3> SUFFICES ASSUME NEW q \in Children \ {c} PROVE Mail(q, c)' = Mail(q, c)
      OBVIOUS
    <3>1. q \in Procs /\ q # PARENT_ID /\ q # c
      BY ProcsFacts
    <3>2. Link(q, c)' = Link(q, c)
      BY <1>2, <1>10, <3>1
    <3> QED
      BY <3>2 DEF Mail
  <2> QED
    BY <1>13, <2>1, <2>2, SameDropped
<1>16. /\ Takers' = d + 1 /\ Takers' <= N
       /\ Latest' = e + d + (IF Dropped(c) = {} THEN 0 ELSE 2)
       /\ FewDrop'
  BY <1>1, <1>12, <1>13, <1>15, OneMoreTaker
<1>17. /\ d \in Nat /\ e \in Nat /\ k \in Nat /\ k <= d /\ (k = 0 <=> Dropped(c) = {})
       /\ e >= StopTime + 2 /\ e >= StopTime + 1 + d /\ c \in Nat
  BY TakersFacts DEF Children
<1>18. Advances
  <2>1. Latest' \in Nat /\ Latest' >= e + d
    <3> HIDE DEF d, e, k
    <3> QED
      BY <1>16, <1>17
  <2> QED
    BY <1>16, <2>1 DEF Advances
<1>19. /\ Dropped(c) = {} => lamport_time[c] <= StopTime
       /\ lamport_time[c] <= e + k
       /\ c <= d => lamport_time[c] <= e + 1
  <2>1. LoopWithin(c)
    BY <1>1, <1>4 DEF ChildWithin
  <2> QED
    BY <1>5, <2>1 DEF LoopWithin
<1>20. /\ t <= Latest' /\ (c < Takers' => t <= Latest' - Takers' + 2)
       /\ t <= Latest' - Takers' + 2 \/ t <= Latest' - Takers' + 1 + k
  <2>1. t = (IF StopTime > lamport_time[c] THEN StopTime ELSE lamport_time[c]) + 2
    BY <1>1, <1>2, <1>6
  <2> HIDE DEF t, d, e, k
  <2>2. CASE Dropped(c) = {}
    <3>1. t = StopTime + 2 /\ Latest' = e + d /\ Takers' = d + 1
      BY <1>1, <1>2, <1>16, <1>17, <1>19, <2>1, <2>2
    <3> QED
      BY <1>1, <1>17, <3>1
  <2>3. CASE Dropped(c) # {}
    <3>1. t <= e + k + 2 /\ (c <= d => t <= e + 3) /\ Latest' = e + d + 2 /\ Takers' = d + 1
      BY <1>1, <1>2, <1>16, <1>17, <1>19, <2>1, <2>3
    <3> QED
      BY <1>7, <1>17, <3>1
  <2> QED
    BY <2>2, <2>3
<1>21. SentWithin(Takers', Latest', c, m)
  <2> HIDE DEF t
  <2> QED
    BY <1>7, <1>20 DEF SentWithin
<1>22. StopInOrder'
  BY <1>1, <1>2, <1>10 DEF StopInOrder
<1>23. Within(c)'
  <2>1. Passed(c)' = 0
    BY <1>14, NAssumption DEF Passed, Children, NextFrom, PARENT_ID
  <2> HIDE DEF t
  <2>2. Latest' - Takers' + 2 \in Int /\ Latest' - Takers' + 1 \in Int
    BY <1>16, <1>17
  <2>3. \/ lamport_time'[c] <= Latest' - Takers' + 2 + Passed(c)'
        \/ lamport_time'[c] <= Latest' - Takers' + 1 + Passed(c)' + Cardinality(Dropped(c)')
    <3>1. Latest' - Takers' + 2 + Passed(c)' = Latest' - Takers' + 2
      BY <2>1, <2>2
    <3>2. Latest' - Takers' + 1 + Passed(c)' = Latest' - Takers' + 1
      BY <2>1, <2>2
    <3> QED
      BY <1>9, <1>15, <1>20, <3>1, <3>2
  <2> QED
    BY <1>2, <1>8, <2>3 DEF Within, ChildWithin
<1> HIDE DEF D
<1> QED
  BY <1>1, <1>2, <1>7, <1>11, <1>13, <1>16, <1>18, <1>21, <1>22, <1>23, ClocksFrame

\* A child sends its history when it has heard the DONE of all.
LEMMA EndSendsHistory ==
  ASSUME NEW w \in Where, AtEnd(w), NEW c \in Children, At(c, "await_done"), SendHistory(c)
  PROVE  ClocksInv'
<1> DEFINE t == AdvancedTime(c) + 1
           h == FillHistory(history[c], AdvancedTime(c), State(balance[c], 0))
           m == [type |-> "BALANCE_HISTORY", time |-> t, history |-> h]
           D == {PARENT_ID}
           d == Takers  e == Latest  k == Cardinality(Dropped(c))
<1>1. /\ ProtocolInv(w) /\ StateTypes /\ MailTypes /\ Pairs(w) /\ ClockTypes
      /\ SaidStop /\ ClocksInv /\ StopInOrder /\ ChildWithin(c) /\ N \in Nat
  BY AtEndFacts
<1>2. c \in Procs /\ c # PARENT_ID /\ lamport_time[c] \in Nat
  BY <1>1, ProcsFacts DEF ClockTypes
<1>3. /\ ReceiveEnd(c) /\ SetTime(c, t) /\ send(c, PARENT_ID, m) /\ Goto(c, "send_history")
  BY DEF SendHistory
<1>4. /\ from[c] > N /\ from' = [from EXCEPT ![c] = NextFrom(c, PARENT_ID)]
      /\ UNCHANGED <<pipes, polled, balance, history, all_history, ordered>>
      /\ pc[c] = "await_done" /\ ~Sending(c)
  BY <1>3 DEF ReceiveEnd, At
<1>5. t \in Nat /\ AdvancedTime(c) \in Nat /\ t = lamport_time[c] + 2
  BY <1>2 DEF AdvancedTime
<1> HIDE DEF t
<1>6. /\ pc'[c] = "send_history" /\ \A a \in Procs \ {c} : pc'[a] = pc[a]
      /\ \A a \in Procs \ {c} : from'[a] = from[a]
      /\ lamport_time'[c] = t /\ \A a \in Procs \ {c} : lamport_time'[a] = lamport_time[a]
  BY <1>1, <1>2, <1>3, <1>4, GotoFacts, SetTimeFacts DEF StateTypes
<1>7. m \in BankMessage /\ m.type = "BALANCE_HISTORY" /\ m.time = t
  <2>1. h \in History
    <3>1. history[c] \in History /\ State(balance[c], 0) \in BalanceState
      BY <1>1 DEF StateTypes, State, BalanceState
    <3> QED
      BY <1>5, <3>1, FillType
  <2> HIDE DEF h
  <2> QED
    BY <1>5, <2>1, HistoryMessage
<1> HIDE DEF m
<1>8. /\ \A a \in Procs \ {c} : outbox'[a] = outbox[a]
      /\ \A a, b \in Procs : Link(a, b)' = IF a = c /\ b \in D THEN Append(Link(a, b), m) ELSE Link(a, b)
  <2>1. Post(c, D, m)
    BY <1>3 DEF send
  <2> HIDE DEF D
  <2> QED
    BY <1>1, <1>2, <1>4, <1>7, <2>1, LinkPosts
<1>9. Acts(c, D, m)
  <2>1. c \notin D
    BY <1>2
  <2> HIDE DEF D
  <2> QED
    BY <1>4, <1>6, <1>8, <2>1 DEF Acts, SameState
<1>10. from[c] = N + 1 /\ \A q \in Children : HeardDone(c, q) /\ HeardDone(c, q)'
  <2>1. from[c] \in 1..(N + 1)
    BY <1>1, <1>2 DEF StateTypes
  <2>2. from[c] = N + 1
    BY <1>1, <1>4, <2>1
  <2>3. \A q \in Children : HeardDone(c, q)
    BY <1>1, <1>4, <2>2 DEF HeardDone, Children
  <2>4. \A q \in Children : HeardDone(c, q)'
    BY <1>6 DEF HeardDone
  <2> QED
    BY <2>2, <2>3, <2>4
<1>11. Dropped(c) = {} /\ Dropped(c)' = {}
  BY <1>10 DEF Dropped
<1>12. d = N
  <2>1. SaidDone(c)
    BY <1>4 DEF SaidDone
  <2>2. \A q \in Children \ {c} : SaidDone(q)
    BY <1>1, <1>10 DEF Pairs, ChildMail
  <2> QED
    BY <2>1, <2>2, TakersFacts
<1>13. t <= e + 3
  <2>1. Passed(c) = N - 1
    BY <1>10, PassedFacts
  <2>2. k = 0
    BY <1>11, TakersFacts
  <2>3. \/ lamport_time[c] <= e - d + 2 + Passed(c)
        \/ lamport_time[c] <= e - d + 1 + Passed(c) + k
    BY <1>1, <1>4 DEF ChildWithin
  <2>4. e \in Nat
    BY TakersFacts
  <2> HIDE DEF d, e, k
  <2> QED
    BY <1>1, <1>2, <1>5, <1>12, <2>1, <2>2, <2>3, <2>4
<1>14. SentWithin(Takers, Latest, c, m)
  BY <1>7, <1>13 DEF SentWithin
<1>15. SaidDone(c) /\ SaidDone(c)'
  BY <1>4, <1>6 DEF SaidDone
<1>16. StopInOrder'
  BY <1>1, <1>2, <1>8, ProcsFacts DEF StopInOrder
<1>17. ASSUME Takers' = Takers, Latest' = Latest PROVE Within(c)'
  BY <1>2, <1>6, <1>12, <1>13, <1>17 DEF Within, ChildWithin
<1>18. D \cap Children = {}
  BY ProcsFacts
<1> HIDE DEF D
<1> QED
  BY <1>1, <1>2, <1>7, <1>9, <1>11, <1>14, <1>15, <1>16, <1>17, <1>18, QuietFrame

-----------------------------------------------------------------------------
(* The steps of the parent after STOP *)

\* The parent hears a DONE, or gets a history.
LEMMA EndParentHears ==
  ASSUME NEW w \in Where, AtEnd(w), NEW type,
         \/ type = "DONE" /\ pc[PARENT_ID] = "await_done"
         \/ type = "BALANCE_HISTORY" /\ pc[PARENT_ID] = "await_histories",
         ReceiveNextTimed(PARENT_ID, type)
  PROVE  ClocksInv'
<1> DEFINE d == Takers  e == Latest
<1>1. /\ ProtocolInv(w) /\ StateTypes /\ MailTypes /\ ClockTypes /\ SaidStop /\ ClocksInv
      /\ MailWithin /\ StopInOrder /\ ParentWithin /\ OrdersCurrent /\ StopTime \in Nat
  BY AtEndFacts
<1>2. PARENT_ID \in Procs /\ PARENT_ID \notin Children /\ lamport_time[PARENT_ID] \in Nat
  BY <1>1, ProcsFacts DEF ClockTypes
<1>3. PICK f \in Procs : f = from[PARENT_ID]
  <2>1. ReceiveNext(PARENT_ID, type) /\ from[PARENT_ID] \in 1..(N + 1)
    BY <1>1, <1>2 DEF ReceiveNextTimed, StateTypes
  <2>2. from[PARENT_ID] <= N /\ N \in Nat
    BY <2>1, TurnFacts DEF ReceiveNext
  <2> QED
    BY <2>1, <2>2 DEF Procs, PARENT_ID
<1> DEFINE m == Oldest(PARENT_ID, f)
           t == Synchronized(lamport_time[PARENT_ID], m.time)
<1>4. /\ f <= N /\ receive(PARENT_ID, f) /\ SetTime(PARENT_ID, t)
      /\ UNCHANGED <<outbox, polled, balance, history, ordered>>
  BY <1>3 DEF ReceiveNextTimed, ReceiveNext
<1>5. f \in Children /\ m.type = type /\ f \in Nat \ {0}
  <2>1. f \in Children /\ m.type = type
    BY <1>1, <1>3, <1>4, ParentHeadsType
  <2> QED
    BY <2>1 DEF Children
<1>6. /\ from' = [from EXCEPT ![PARENT_ID] = NextFrom(PARENT_ID, f)]
      /\ IF type = "BALANCE_HISTORY" THEN FillCallback(f, m.history) ELSE UNCHANGED <<pc, all_history>>
  BY <1>3, <1>5 DEF ReceiveNextTimed, ReceiveNext
<1>7. pc' = pc /\ from'[PARENT_ID] = f + 1
  <2>1. from'[PARENT_ID] = f + 1
    BY <1>1, <1>2, <1>5, <1>6, CursorNext DEF StateTypes
  <2>2. pc'[PARENT_ID] # "failed"
    <3>1. ProtocolInv(w)'
      BY <1>1, ParentHears DEF ReceiveNextTimed
    <3> QED
      BY <3>1 DEF ProtocolInv, Progress, ParentLabel
  <2>3. CASE type = "BALANCE_HISTORY"
    <3>1. FillCallback(f, m.history)
      BY <1>6, <2>3
    <3>2. ~Goto(PARENT_ID, "failed")
      BY <1>1, <1>2, <2>2, GotoFacts
    <3> QED
      BY <2>1, <3>1, <3>2 DEF FillCallback
  <2> QED
    BY <1>6, <2>1, <2>3
<1>8. /\ \A a \in Procs \ {PARENT_ID} : from'[a] = from[a] /\ lamport_time'[a] = lamport_time[a]
      /\ lamport_time'[PARENT_ID] = t
  BY <1>1, <1>2, <1>4, <1>6, SetTimeFacts DEF StateTypes
<1>9. /\ \A a, b \in Procs :
           Link(a, b)' = IF a = f /\ b = PARENT_ID THEN Tail(Link(a, b)) ELSE Link(a, b)
      /\ Link(f, PARENT_ID) # <<>>
  BY <1>1, <1>2, <1>4, ReadMoves
<1>10. Acts(PARENT_ID, {}, NoMessage)
  BY <1>4, <1>7, <1>8, <1>9 DEF Acts, SameState
<1>11. StopInOrder'
  BY <1>1, <1>4 DEF StopInOrder
<1>12. m.time \in Nat /\ SentWithin(d, e, f, m)
  BY <1>1, <1>2, <1>4, ReadWithin
<1>13. d \in Nat /\ e \in Nat /\ e >= StopTime + 1 + d
  BY TakersFacts
<1>14. t = (IF m.time > lamport_time[PARENT_ID] THEN m.time ELSE lamport_time[PARENT_ID]) + 1
  BY DEF Synchronized
<1>15. ASSUME Takers' = d, Latest' = e PROVE Within(PARENT_ID)'
  <2>1. CASE type = "DONE"
    <3>1. pc[PARENT_ID] = "await_done"
      BY <2>1
    <3>2. lamport_time[PARENT_ID] <= IF f = 1 THEN StopTime ELSE e - d + 1 + f
      BY <1>1, <1>3, <3>1 DEF ParentWithin
    <3>3. m.time <= e /\ (f < d => m.time <= e - d + 2)
      BY <1>5, <1>12, <2>1 DEF SentWithin
    <3>4. t <= e - d + 1 + (f + 1) /\ f + 1 # 1
      <4> HIDE DEF d, e, m, t
      <4> QED
        BY <1>1, <1>2, <1>5, <1>12, <1>13, <1>14, <3>2, <3>3
    <3>5. lamport_time'[PARENT_ID] <= Latest' - Takers' + 1 + from'[PARENT_ID] /\ from'[PARENT_ID] # 1
      BY <1>7, <1>8, <1>15, <3>4
    <3>6. ParentWithin'
      BY <1>7, <3>1, <3>5 DEF ParentWithin
    <3> QED
      BY <3>6 DEF Within
  <2>2. CASE type = "BALANCE_HISTORY"
    <3>1. pc[PARENT_ID] = "await_histories"
      BY <2>2
    <3>2. d = N /\ lamport_time[PARENT_ID] <= e + 2 + f
      BY <1>1, <1>3, <3>1 DEF ParentWithin
    <3>3. m.time <= e + 3
      BY <1>5, <1>12, <2>2 DEF SentWithin
    <3>4. t <= e + 2 + (f + 1)
      <4> HIDE DEF d, e, m, t
      <4> QED
        BY <1>2, <1>5, <1>12, <1>13, <1>14, <3>2, <3>3
    <3>5. Takers' = N /\ lamport_time'[PARENT_ID] <= Latest' + 2 + from'[PARENT_ID]
      BY <1>7, <1>8, <1>15, <3>2, <3>4
    <3>6. ParentWithin'
      BY <1>7, <3>1, <3>5 DEF ParentWithin
    <3> QED
      BY <3>6 DEF Within
  <2> QED
    BY <2>1, <2>2
<1> QED
  BY <1>1, <1>2, <1>10, <1>11, <1>15, QuietFrame

\* A loop of the parent is over.
LEMMA EndGoesOn ==
  ASSUME NEW w \in Where, AtEnd(w), NEW label, NEW next, ParentGoesOn(label, next),
         UNCHANGED lamport_time,
         <<label, next>> \in {<<"await_done", "await_histories">>, <<"await_histories", "wait">>}
  PROVE  ClocksInv'
<1> DEFINE d == Takers  e == Latest
<1>1. /\ StateTypes /\ Pairs(w) /\ StopInOrder /\ ParentWithin /\ ClockTypes
      /\ N \in Nat \ {0} /\ StopTime \in Nat
  BY AtEndFacts, TurnFacts
<1>2. PARENT_ID \in Procs /\ PARENT_ID \notin Children /\ lamport_time[PARENT_ID] \in Nat
  BY <1>1, ProcsFacts DEF ClockTypes
<1>3. /\ pc[PARENT_ID] = label /\ Goto(PARENT_ID, next) /\ from[PARENT_ID] > N
      /\ from' = [from EXCEPT ![PARENT_ID] = NextFrom(PARENT_ID, PARENT_ID)]
      /\ UNCHANGED <<pipes, outbox, polled, balance, history, all_history, ordered>>
  BY DEF ParentGoesOn, ReceiveEnd, At
<1>4. /\ pc'[PARENT_ID] = next /\ \A a \in Procs \ {PARENT_ID} : pc'[a] = pc[a]
      /\ \A a \in Procs \ {PARENT_ID} : from'[a] = from[a]
      /\ from'[PARENT_ID] = 1
  <2>1. from'[PARENT_ID] = 1
    BY <1>1, <1>2, <1>3, CursorStart DEF StateTypes
  <2> QED
    BY <1>1, <1>2, <1>3, <2>1, GotoFacts DEF StateTypes
<1>5. \A a, b : Link(a, b)' = Link(a, b)
  BY <1>3, LinksSame
<1>6. from[PARENT_ID] = N + 1
  <2>1. from[PARENT_ID] \in 1..(N + 1)
    BY <1>1, <1>2 DEF StateTypes
  <2> QED
    BY <1>1, <1>3, <2>1
<1>7. StopInOrder'
  BY <1>1, <1>3 DEF StopInOrder
<1>8. d \in Nat /\ e \in Nat
  BY TakersFacts
<1>9. ASSUME Takers' = d, Latest' = e PROVE Within(PARENT_ID)'
  <2>1. CASE label = "await_done" /\ next = "await_histories"
    <3>1. \A c \in Children : HeardDone(PARENT_ID, c)
      BY <1>1, <1>3, <1>6, <2>1 DEF HeardDone, Children
    <3>2. d = N
      BY <1>1, <3>1, TakersFacts DEF Pairs, MailToParent
    <3>3. lamport_time[PARENT_ID] <= IF from[PARENT_ID] = 1 THEN StopTime ELSE e - d + 1 + from[PARENT_ID]
      BY <1>1, <1>3, <2>1 DEF ParentWithin
    <3>4. lamport_time[PARENT_ID] <= e + 2 + 1
      <4> HIDE DEF d, e
      <4> QED
        BY <1>1, <1>2, <1>6, <1>8, <3>2, <3>3
    <3>5. Takers' = N /\ lamport_time'[PARENT_ID] <= Latest' + 2 + from'[PARENT_ID]
      BY <1>4, <1>9, <3>2, <3>4
    <3>6. ParentWithin'
      BY <1>4, <2>1, <3>5 DEF ParentWithin
    <3> QED
      BY <3>6 DEF Within
  <2>2. CASE label = "await_histories" /\ next = "wait"
    <3>1. d = N /\ lamport_time[PARENT_ID] <= e + 2 + from[PARENT_ID]
      BY <1>1, <1>3, <2>2 DEF ParentWithin
    <3>2. lamport_time[PARENT_ID] <= e + 3 + N
      <4> HIDE DEF d, e
      <4> QED
        BY <1>1, <1>2, <1>6, <1>8, <3>1
    <3>3. Takers' = N /\ lamport_time'[PARENT_ID] <= Latest' + 3 + N
      BY <1>9, <3>1, <3>2
    <3>4. ParentWithin'
      BY <1>4, <2>2, <3>3 DEF ParentWithin
    <3> QED
      BY <3>4 DEF Within
  <2> QED
    BY <2>1, <2>2
<1> QED
  BY <1>2, <1>3, <1>4, <1>5, <1>7, <1>9, StandStill DEF SameState

\* The parent returns from main.
LEMMA EndParentExit ==
  ASSUME NEW w \in Where, AtEnd(w), ParentExit, UNCHANGED lamport_time
  PROVE  ClocksInv'
<1>1. StateTypes /\ StopInOrder /\ ParentWithin
  BY AtEndFacts
<1>2. PARENT_ID \in Procs /\ PARENT_ID \notin Children
  BY ProcsFacts
<1>3. /\ pc[PARENT_ID] = "wait" /\ Goto(PARENT_ID, "exited")
      /\ UNCHANGED <<pipes, outbox, from, polled, balance, history, all_history, ordered>>
  BY DEF ParentExit
<1>4. pc'[PARENT_ID] = "exited" /\ \A a \in Procs \ {PARENT_ID} : pc'[a] = pc[a]
  BY <1>1, <1>2, <1>3, GotoFacts
<1>5. \A a, b : Link(a, b)' = Link(a, b)
  BY <1>3, LinksSame
<1>6. StopInOrder'
  BY <1>1, <1>3 DEF StopInOrder
<1>7. ASSUME Takers' = Takers, Latest' = Latest PROVE Within(PARENT_ID)'
  <2>1. Takers = N /\ lamport_time[PARENT_ID] <= Latest + 3 + N
    BY <1>1, <1>3 DEF ParentWithin
  <2>2. ParentWithin'
    BY <1>4, <1>7, <2>1 DEF ParentWithin
  <2> QED
    BY <2>2 DEF Within
<1> QED
  BY <1>2, <1>3, <1>4, <1>5, <1>6, <1>7, StandStill DEF SameState

-----------------------------------------------------------------------------
(* Every step after STOP *)

\* Every step of a child keeps the clocks within the limits.
LEMMA EndChildNext ==
  ASSUME NEW w \in Where, AtEnd(w), NEW c \in Children, ChildNext(c)
  PROVE  ClocksInv'
<1> c \in Procs
  BY ProcsFacts
<1>1. ProtocolInv(w) /\ Progress(w) /\ Pairs(w) /\ SaidStop /\ \A a, b : ~OrderOn(w, a, b)
  BY AtEndFacts
<1>2. CASE SyncStarted(c)
  <2>1. HeardStarted(PARENT_ID, c)
    BY <1>1, AfterStop
  <2>2. pc[c] # "start"
    BY <1>1, <2>1 DEF Pairs, MailToParent, SaidStarted
  <2> QED
    BY <1>2, <2>2 DEF SyncStarted, At
<1>3. CASE AwaitStarted(c)
  <2>1. At(c, "await_started") /\ pc[c] = "await_started"
    BY <1>3 DEF AwaitStarted, At
  <2>2. CASE ReceiveNextTimed(c, "STARTED")
    BY <2>1, <2>2, EndHearsStarted
  <2>3. CASE ReceiveEnd(c) /\ Goto(c, "loop") /\ UNCHANGED <<outbox, lamport_time>>
    BY <2>1, <2>3, EndBegins
  <2> QED
    BY <1>3, <2>2, <2>3 DEF AwaitStarted
<1>4. CASE ReceiveAny(c)
  <2>1. At(c, "loop") /\ pc[c] = "loop"
    BY <1>4 DEF ReceiveAny, At
  <2>2. PollMessage(c) => Polled(c).type # "TRANSFER"
    <3> SUFFICES ASSUME PollMessage(c) PROVE Polled(c).type # "TRANSFER"
      OBVIOUS
    <3>1. receive(c, polled[c]) /\ polled[c] \in Procs
      BY <1>1 DEF PollMessage, ProtocolInv, StateTypes
    <3> QED
      BY <1>1, <2>1, <3>1, FoundInLoop DEF Polled
  <2>3. CASE TakeStop(c)
    BY <2>1, <2>3, EndTakesStop
  <2>4. CASE TransferOut(c)
    BY <2>2, <2>4 DEF TransferOut, IsSource
  <2>5. CASE TransferIn(c)
    BY <2>2, <2>5 DEF TransferIn, IsDestination
  <2>6. CASE Ignore(c)
    BY <2>1, <2>6, EndIgnore
  <2>7. CASE PollEmpty(c) /\ UNCHANGED lamport_time
    BY <2>1, <2>7, EndPollsNothing
  <2> QED
    BY <1>4, <2>3, <2>4, <2>5, <2>6, <2>7 DEF ReceiveAny
<1>5. CASE AwaitDone(c)
  <2>1. At(c, "await_done") /\ pc[c] = "await_done"
    BY <1>5 DEF AwaitDone, At
  <2>2. CASE ReceiveNextTimed(c, "DONE")
    BY <2>1, <2>2, EndHearsDone
  <2>3. CASE SendHistory(c)
    BY <2>1, <2>3, EndSendsHistory
  <2>4. CASE SpinOnEof(c) /\ UNCHANGED lamport_time
    BY <2>1, <2>4, EndSpins
  <2> QED
    BY <1>5, <2>2, <2>3, <2>4 DEF AwaitDone
<1>6. CASE Write(c) /\ UNCHANGED lamport_time
  BY <1>6, EndWrites
<1>7. CASE ChildExit(c) /\ UNCHANGED lamport_time
  BY <1>7, EndReturns
<1> QED
  BY <1>2, <1>3, <1>4, <1>5, <1>6, <1>7 DEF ChildNext

\* Every step of the parent does.
LEMMA EndParentNext ==
  ASSUME NEW w \in Where, AtEnd(w), ParentNext
  PROVE  ClocksInv'
<1> PARENT_ID \in Procs
  BY ProcsFacts
<1>1. pc[PARENT_ID] \in {"await_done", "await_histories", "wait", "exited"}
  BY AtEndFacts DEF SaidStop
<1>2. CASE ParentReceivesAll
  <2>1. CASE At(PARENT_ID, "await_done") /\ ReceiveNextTimed(PARENT_ID, "DONE")
    BY <2>1, EndParentHears DEF At
  <2>2. CASE At(PARENT_ID, "await_histories") /\ ReceiveNextTimed(PARENT_ID, "BALANCE_HISTORY")
    BY <2>2, EndParentHears DEF At
  <2>3. CASE ParentGoesOn("await_done", "await_histories") /\ UNCHANGED lamport_time
    BY <2>3, EndGoesOn
  <2>4. CASE ParentGoesOn("await_histories", "wait") /\ UNCHANGED lamport_time
    BY <2>4, EndGoesOn
  <2>5. ~At(PARENT_ID, "await_started") /\ ~ParentGoesOn("await_started", "robbery")
    BY <1>1 DEF At, ParentGoesOn
  <2> QED
    BY <1>2, <2>1, <2>2, <2>3, <2>4, <2>5 DEF ParentReceivesAll
<1>3. ~ParentRobs
  BY <1>1 DEF ParentRobs, ParentOrders, ParentAwaitsAck, ParentStops, At
<1>4. CASE Write(PARENT_ID) /\ UNCHANGED lamport_time
  BY <1>4, EndWrites
<1>5. ~ParentSetUp
  BY <1>1 DEF ParentSetUp
<1>6. CASE ParentExit /\ UNCHANGED lamport_time
  BY <1>6, EndParentExit
<1> QED
  BY <1>2, <1>3, <1>4, <1>5, <1>6 DEF ParentNext

\* STOP is said when nobody has said DONE and every event has had its time.
LEMMA BeforeStop ==
  ASSUME ProtocolInv("none"), ~SaidStop, NEW a \in Procs, NEW b \in Procs,
         NEW k \in 1..Len(Link(a, b))
  PROVE  Link(a, b)[k].type = "STARTED"
<1> USE ProcsFacts DEF OrderOn, AckOn
<1>1. StateTypes /\ MailTypes /\ Pairs("none") /\ Progress("none")
  BY DEF ProtocolInv, StateTypes
<1>2. /\ Link(a, b) \in Seq(BankMessage) /\ Len(Mail(a, b)) = Len(Link(a, b))
      /\ Link(a, b)[k].type = Mail(a, b)[k]
  BY <1>1, LinkMessages, TypesOfType DEF Mail
<1>3. \A c \in Children : ~SaidDone(c) /\ ~SentHistory(c)
  BY <1>1 DEF Progress, SaidDone, SentHistory
<1>4. Mail(a, b) = <<>> \/ Mail(a, b) = <<"STARTED">>
  <2>1. CASE a = b
    BY <1>1, <2>1 DEF Pairs
  <2>2. CASE a = PARENT_ID /\ b \in Children
    <3>1. ParentMail("none", b)
      BY <1>1, <2>2 DEF Pairs
    <3> QED
      BY <2>2, <3>1 DEF ParentMail
  <2>3. CASE a \in Children /\ b = PARENT_ID
    <3>1. MailToParent("none", a)
      BY <1>1, <2>3 DEF Pairs
    <3> QED
      BY <1>3, <2>3, <3>1 DEF MailToParent
  <2>4. CASE a \in Children /\ b \in Children /\ a # b
    <3>1. ChildMail("none", a, b)
      BY <1>1, <2>4 DEF Pairs
    <3> QED
      BY <1>3, <2>4, <3>1 DEF ChildMail
  <2> QED
    BY <2>1, <2>2, <2>3, <2>4, NAssumption DEF Procs, Children, PARENT_ID
<1>5. CASE Mail(a, b) = <<>>
  BY <1>2, <1>5
<1>6. CASE Mail(a, b) = <<"STARTED">>
  <2>1. Len(<<"STARTED">>) = 1 /\ <<"STARTED">>[1] = "STARTED"
    OBVIOUS
  <2>2. k = 1
    <3>1. Len(Link(a, b)) = 1
      BY <1>2, <1>6, <2>1
    <3> QED
      BY <3>1
  <2> QED
    BY <1>2, <1>6, <2>1, <2>2
<1> QED
  BY <1>4, <1>5, <1>6

\* The parent says STOP.
LEMMA EndIsSet ==
  ASSUME NEW w \in Where, Moment(w), TimesInv(w), NEW t, t = AdvancedTime(PARENT_ID),
         ParentStops(t), SetTime(PARENT_ID, t)
  PROVE  ClocksInv'
<1> DEFINE m == [type |-> "STOP", time |-> t]  D == Procs \ {PARENT_ID}
<1>1. /\ StateTypes /\ MailTypes /\ Progress(w) /\ ProtocolInv(w) /\ ClockTypes
      /\ N \in Nat /\ StopTime \in Nat
  BY TurnFacts DEF Moment, ProtocolInv, StateTypes
<1>2. PARENT_ID \in Procs /\ PARENT_ID \notin Children /\ lamport_time[PARENT_ID] \in Nat
  BY <1>1, ProcsFacts DEF ClockTypes
<1>3. t \in Nat /\ t = lamport_time[PARENT_ID] + 1
  BY <1>2 DEF AdvancedTime
<1>4. /\ ~Sending(PARENT_ID) /\ pc[PARENT_ID] = "robbery" /\ ordered = Len(Orders)
      /\ Post(PARENT_ID, D, m) /\ Goto(PARENT_ID, "await_done")
      /\ UNCHANGED <<pipes, from, polled, balance, history, all_history, ordered>>
  BY DEF ParentStops, At, Multicast, send_multicast
<1>5. m \in BankMessage /\ m.type = "STOP" /\ m.time = t /\ m # NoMessage
  <2>1. m \in BankMessage /\ m.type = "STOP" /\ m.time = t
    BY <1>3, PlainMessage
  <2> HIDE DEF m
  <2> QED
    BY <2>1, MessageFacts
<1> HIDE DEF m
<1>6. pc'[PARENT_ID] = "await_done" /\ \A a \in Procs \ {PARENT_ID} : pc'[a] = pc[a]
  BY <1>1, <1>2, <1>4, GotoFacts
<1>7. /\ lamport_time'[PARENT_ID] = t
      /\ \A a \in Procs \ {PARENT_ID} : lamport_time'[a] = lamport_time[a]
  BY <1>1, <1>2, SetTimeFacts
<1>8. w = "none" /\ ~SaidStop
  BY <1>1, <1>4 DEF Progress, SaidStop
<1>9. \A c \in Children : ~SaidDone(c) /\ ~SaidDone(c)'
  <2>1. \A c \in Children : ~SaidDone(c)
    BY <1>1, <1>8 DEF Progress
  <2> QED
    BY <1>6, <2>1, ProcsFacts DEF SaidDone
<1>10. Punctual(w)
  BY <1>9 DEF TimesInv, Lossless
<1>11. lamport_time[PARENT_ID] = Turn(ordered) /\ t = StopTime
  <2>1. lamport_time[PARENT_ID] = Turn(ordered)
    BY <1>2, <1>4, <1>10 DEF Punctual, OnTime, ParentOnTime
  <2> QED
    BY <1>3, <1>4, <2>1 DEF StopTime
<1>12. /\ Finished' = {} /\ Droppers' = {} /\ \A c \in Children : Dropped(c)' = {}
       /\ Takers' = 0 /\ Cardinality(Droppers') = 0 /\ Latest' = StopTime + 2
  <2>1. Finished' = {} /\ Droppers' = {} /\ \A c \in Children : Dropped(c)' = {}
    BY <1>9 DEF Finished, Droppers, Dropped
  <2>2. Cardinality(Finished') = 0 /\ Cardinality(Droppers') = 0
    BY <2>1, FS_EmptySet
  <2>3. Takers' = Cardinality(Finished') /\ Latest' = Limit(Takers', Cardinality(Droppers'))
    BY DEF Takers, Latest, Limit, StopTime, Turn
  <2>4. Limit(0, 0) = StopTime + 2
    BY <1>1 DEF Limit
  <2> QED
    BY <2>1, <2>2, <2>3, <2>4
<1>13. StopTime' = StopTime
  BY DEF StopTime, Turn
<1>14. ASSUME NEW c \in Children PROVE ChildWithin(c)'
  <2>1. c \in Procs /\ c # PARENT_ID /\ pc'[c] = pc[c] /\ lamport_time'[c] = lamport_time[c]
        /\ lamport_time[c] \in Nat /\ Passed(c)' = Passed(c) /\ c \in Nat \ {0}
    BY <1>1, <1>4, <1>6, <1>7, ProcsFacts DEF ClockTypes, Passed, Children
  <2>2. ChildOnTime(w, c)
    BY <1>10, <2>1 DEF Punctual, OnTime
  <2>3. pc'[c] = "await_started" => lamport_time'[c] = 1 + Passed(c)'
    BY <2>1, <2>2 DEF ChildOnTime
  <2>4. ASSUME pc'[c] = "loop" PROVE LoopWithin(c)'
    <3>1. lamport_time[c] < Horizon(w)
      BY <2>1, <2>2, <2>4 DEF ChildOnTime
    <3>2. Horizon(w) = Turn(Len(Orders)) + 2 /\ Turn(Len(Orders)) \in Nat
          /\ StopTime = Turn(Len(Orders)) + 1
      BY <1>4, <1>8, OrderFacts, TurnFacts DEF Horizon
    <3>3. lamport_time[c] <= StopTime
      BY <2>1, <3>1, <3>2
    <3>4. Cardinality(Dropped(c)') = 0
      BY <1>12, FS_EmptySet
    <3>5. lamport_time'[c] <= Latest' + Cardinality(Dropped(c)') /\ ~(c <= Takers')
      BY <1>1, <1>12, <2>1, <3>3, <3>4
    <3> QED
      BY <1>13, <2>1, <3>3, <3>5 DEF LoopWithin
  <2>5. pc'[c] \notin {"await_done", "send_history", "spin", "exited"}
    BY <1>9 DEF SaidDone
  <2> QED
    BY <1>12, <2>3, <2>4, <2>5 DEF ChildWithin
<1>15. ParentWithin'
  <2>1. from'[PARENT_ID] = 1
    <3>1. from[PARENT_ID] = NextFrom(PARENT_ID, PARENT_ID)
      BY <1>1, <1>2, <1>4 DEF Progress, Idle
    <3> QED
      BY <1>2, <1>4, <3>1, CursorStart
  <2> QED
    BY <1>1, <1>6, <1>7, <1>11, <1>13, <2>1 DEF ParentWithin
<1>16. MailWithin'
  <2> SUFFICES ASSUME NEW a \in Procs, NEW b \in Procs, NEW k \in 1..Len(Link(a, b)')
               PROVE  SentWithin(Takers', Latest', a, Link(a, b)'[k])
    BY <1>13 DEF MailWithin, SentWithin
  <2> DEFINE s == Link(a, b)  r == Link(a, b)'
  <2>1. r = IF a = PARENT_ID /\ b \in D THEN Append(s, m) ELSE s
    <3> HIDE DEF D
    <3> QED
      BY <1>1, <1>2, <1>4, <1>5, LinkPosts
  <2>2. s \in Seq(BankMessage) /\ Len(s) \in Nat
    BY <1>1, LinkMessages
  <2>3. \A j \in 1..Len(s) : s[j].type = "STARTED" /\ s[j].time = 1
    <3> SUFFICES ASSUME NEW j \in 1..Len(s) PROVE s[j].type = "STARTED" /\ s[j].time = 1
      OBVIOUS
    <3>1. s[j].type = "STARTED"
      BY <1>1, <1>8, BeforeStop
    <3>2. TimedAt(ordered, a, s[j])
      BY <1>10 DEF Punctual, MailOnTime
    <3> QED
      BY <3>1, <3>2 DEF TimedAt
  <2>4. k \in 1..Len(r)
    OBVIOUS
  <2> HIDE DEF s, r
  <2>5. \/ r[k].type = "STARTED" /\ r[k].time = 1
        \/ r[k].type = "STOP" /\ r[k].time = StopTime
    <3>1. CASE r = s
      BY <2>3, <2>4, <3>1
    <3>2. CASE r = Append(s, m)
      <4>1. Len(r) = Len(s) + 1 /\ r[Len(s) + 1] = m /\ \A j \in 1..Len(s) : r[j] = s[j]
        BY <1>5, <2>2, <3>2
      <4>2. k \in 1..Len(s) \/ k = Len(s) + 1
        BY <2>2, <2>4, <4>1
      <4> QED
        BY <1>5, <1>11, <2>3, <4>1, <4>2
    <3> QED
      BY <2>1, <3>1, <3>2
  <2>6. SentWithin(Takers', Latest', a, r[k])
    BY <2>5 DEF SentWithin
  <2> QED
    BY <2>6 DEF r
<1>17. StopInOrder'
  <2>1. \A b \in Children : outbox'[PARENT_ID][b] = m
    <3> HIDE DEF D
    <3>1. \A b \in Children : b \in Procs /\ b \in D
      BY ProcsFacts DEF D
    <3> QED
      BY <1>1, <1>2, <1>4, <3>1 DEF Post, MailTypes
  <2> QED
    BY <1>5, <2>1 DEF StopInOrder
<1>18. FewDrop'
  BY <1>12 DEF FewDrop
<1>19. \A p \in Procs : Within(p)'
  BY <1>14, <1>15, NAssumption DEF Within, Procs, Children, PARENT_ID
<1> QED
  BY <1>16, <1>17, <1>18, <1>19 DEF ClocksInv

\* Nothing happens.
LEMMA EndStutters ==
  ASSUME NEW w \in Where, AtEnd(w), UNCHANGED vars
  PROVE  ClocksInv'
<1>1. StopInOrder /\ \A p \in Procs : Within(p)
  BY AtEndFacts DEF ClocksInv
<1>2. UNCHANGED <<pipes, outbox, pc, from, polled, balance, history, all_history, ordered, lamport_time>>
  BY DEF vars, bankVars, ipcVars
<1>3. PARENT_ID \in Procs /\ PARENT_ID \notin Children
  BY ProcsFacts
<1>4. \A a, b : Link(a, b)' = Link(a, b)
  BY <1>2, LinksSame
<1>5. StopInOrder'
  BY <1>1, <1>2 DEF StopInOrder
<1>6. ASSUME Takers' = Takers, Latest' = Latest PROVE Within(PARENT_ID)'
  <2>1. ParentWithin
    BY <1>1, <1>3 DEF Within
  <2>2. ParentWithin'
    BY <1>2, <1>6, <2>1 DEF ParentWithin, StopTime, Turn
  <2> QED
    BY <2>2 DEF Within
<1> QED
  BY <1>2, <1>3, <1>4, <1>5, <1>6, StandStill DEF SameState

\* A child does not move the parent.
LEMMA ChildLeavesParent ==
  ASSUME NEW w \in Where, ProtocolInv(w), NEW c \in Children, ChildNext(c)
  PROVE  pc'[PARENT_ID] = pc[PARENT_ID]
<1>1. StateTypes /\ c \in Procs /\ PARENT_ID \in Procs /\ c # PARENT_ID
  BY ProcsFacts DEF ProtocolInv
<1>2. ASSUME NEW label, Goto(c, label) PROVE pc'[PARENT_ID] = pc[PARENT_ID]
  BY <1>1, <1>2, GotoFacts
<1>3. CASE SyncStarted(c)
  BY <1>2, <1>3 DEF SyncStarted, Multicast
<1>4. ASSUME NEW type, type # "BALANCE_HISTORY", ReceiveNextTimed(c, type)
      PROVE  pc'[PARENT_ID] = pc[PARENT_ID]
  <2>1. pc' = pc \/ Goto(c, "failed")
    BY <1>4 DEF ReceiveNextTimed, ReceiveNext
  <2> QED
    BY <1>2, <2>1
<1>5. CASE AwaitStarted(c)
  BY <1>2, <1>4, <1>5 DEF AwaitStarted
<1>6. CASE ReceiveAny(c)
  BY <1>2, <1>6 DEF ReceiveAny, TakeStop, Multicast, TransferOut, TransferIn, Ignore, PollEmpty
<1>7. CASE AwaitDone(c)
  BY <1>2, <1>4, <1>7 DEF AwaitDone, SendHistory, SpinOnEof
<1>8. CASE Write(c)
  BY <1>1, <1>8, Writes
<1>9. CASE ChildExit(c)
  BY <1>2, <1>9 DEF ChildExit
<1> QED
  BY <1>3, <1>5, <1>6, <1>7, <1>8, <1>9 DEF ChildNext

\* The parent comes to the end when it says STOP.
LEMMA ParentComesToEnd ==
  ASSUME NEW w \in Where, ProtocolInv(w), ~SaidStop, ParentNext, SaidStop'
  PROVE  ParentStops(AdvancedTime(PARENT_ID)) /\ SetTime(PARENT_ID, AdvancedTime(PARENT_ID))
<1>1. /\ StateTypes /\ PARENT_ID \in Procs
      /\ pc[PARENT_ID] \notin {"await_done", "await_histories", "wait", "exited"}
  BY ProcsFacts DEF ProtocolInv, SaidStop
<1>2. pc'[PARENT_ID] \in {"await_done", "await_histories", "wait", "exited"}
  BY DEF SaidStop
<1>3. pc' # pc
  BY <1>1, <1>2
<1>4. \A label : Goto(PARENT_ID, label) => label \in {"await_done", "await_histories", "wait", "exited"}
  BY <1>1, <1>2, GotoFacts
<1>5. ~ParentReceivesAll
  <2>1. ~(At(PARENT_ID, "await_started") /\ ReceiveNextTimed(PARENT_ID, "STARTED"))
    BY <1>3, <1>4 DEF ReceiveNextTimed, ReceiveNext
  <2> QED
    BY <1>1, <1>4, <2>1 DEF ParentReceivesAll, ParentGoesOn, At
<1>6. ~ParentOrders(AdvancedTime(PARENT_ID)) /\ ~ParentAwaitsAck
  BY <1>4 DEF ParentOrders, ParentAwaitsAck
<1>7. ~Write(PARENT_ID)
  BY <1>1, <1>3, Writes
<1>8. ~ParentSetUp /\ ~ParentExit
  BY <1>1, <1>4 DEF ParentSetUp, ParentExit
<1> QED
  BY <1>5, <1>6, <1>7, <1>8 DEF ParentNext, ParentRobs

\* The limits hold from step to step.
LEMMA ClocksNext ==
  ASSUME NEW w \in Where, Moment(w), TimesInv(w), ClocksInv, [Next]_vars
  PROVE  ClocksInv'
<1>1. ProtocolInv(w) /\ ClockTypes
  BY DEF Moment
<1>2. CASE SaidStop
  <2>1. AtEnd(w)
    BY <1>1, <1>2 DEF AtEnd
  <2>2. CASE \E c \in Children : ChildNext(c)
    BY <2>1, <2>2, EndChildNext
  <2>3. CASE ParentNext
    BY <2>1, <2>3, EndParentNext
  <2>4. CASE UNCHANGED vars
    BY <2>1, <2>4, EndStutters
  <2> QED
    BY <2>2, <2>3, <2>4 DEF Next
<1>3. CASE ~SaidStop /\ ~SaidStop'
  BY <1>3 DEF ClocksInv
<1>4. CASE ~SaidStop /\ SaidStop'
  <2>1. pc' # pc /\ pc'[PARENT_ID] # pc[PARENT_ID]
    BY <1>4 DEF SaidStop
  <2>2. ~\E c \in Children : ChildNext(c)
    BY <1>1, <2>1, ChildLeavesParent
  <2>3. ~UNCHANGED vars
    BY <2>1 DEF vars, bankVars
  <2>4. ParentNext
    BY <2>2, <2>3 DEF Next
  <2> QED
    BY <1>1, <1>4, <2>4, ParentComesToEnd, EndIsSet
<1> QED
  BY <1>2, <1>3, <1>4

-----------------------------------------------------------------------------
(* How far the limits go *)

\* There are at most as many orders as children.
LEMMA FewOrders == Len(Orders) \in 0..N /\ StopTime \in Nat /\ StopTime <= 7 * N + 2
<1>1. N \in Nat /\ Len(Orders) \in 0..N
  <2>1. CASE N = 1
    BY <2>1 DEF Orders
  <2>2. CASE N # 1
    <3>1. Orders = [k \in 1..N |-> IF k < N THEN TransferOrder(k, k + 1, k) ELSE TransferOrder(N, 1, 1)]
      BY <2>2 DEF Orders
    <3>2. Len(Orders) = N /\ N \in Nat
      BY <3>1, NAssumption
    <3> QED
      BY <3>2
  <2> QED
    BY <2>1, <2>2, NAssumption
<1>2. StopTime = N + 1 + 6 * Len(Orders) + 1
  BY DEF StopTime, Turn
<1> QED
  BY <1>1, <1>2

\* The limits of fewer children are closer; the limit with one more is at most half of N(N + 1).
LEMMA LimitTop ==
  ASSUME NEW d \in 0..N, NEW p \in Nat
  PROVE  /\ (N * (N + 1)) \div 2 \in Nat
         /\ Limit(d, p) <= 6 * N + 4 + 2 * p + (N * (N + 1)) \div 2
         /\ d < N => Limit(d, p) + d <= 6 * N + 4 + 2 * p + (N * (N + 1)) \div 2
<1> DEFINE x == d * (d - 1)  y == N * (N - 1)  z == N * (N + 1)
<1>1. N \in Nat \ {0} /\ d \in Nat /\ StopTime \in Nat /\ StopTime <= 7 * N + 2
  BY FewOrders, NAssumption
<1>2. x \in Nat /\ y \in Nat /\ z = y + 2 * N
  <2>1. y \in Nat /\ z = y + 2 * N
    BY <1>1
  <2>2. CASE d = 0
    BY <2>1, <2>2
  <2>3. CASE d # 0
    <3>1. d - 1 \in Nat
      BY <1>1, <2>3
    <3>2. x \in Nat
      BY <1>1, <3>1
    <3> QED
      BY <2>1, <3>2
  <2> QED
    BY <2>2, <2>3
<1>3. x <= y /\ (d < N => x + 2 * d <= y)
  <2> DEFINE e == N - d
  <2>1. e \in Nat /\ N = d + e
    BY <1>1
  <2> HIDE DEF e
  <2>2. y = x + 2 * (d * e) + e * (e - 1)
    BY <1>1, <2>1
  <2>3. d * e \in Nat /\ e * (e - 1) >= 0 /\ (e # 0 => d * e >= d)
    <3>1. d * e \in Nat
      BY <1>1, <2>1
    <3>2. CASE e = 0
      BY <1>1, <3>2
    <3>3. CASE e # 0
      <4>1. e - 1 \in Nat /\ d * e = d * (e - 1) + d
        BY <1>1, <2>1, <3>3
      <4>2. e * (e - 1) \in Nat /\ d * (e - 1) \in Nat
        BY <1>1, <2>1, <4>1
      <4> QED
        BY <1>1, <3>1, <4>1, <4>2
    <3> QED
      BY <3>2, <3>3
  <2>4. d < N => e # 0
    BY <1>1, <2>1
  <2>5. e * (e - 1) \in Int
    BY <2>1
  <2> HIDE DEF x, y, z
  <2> QED
    BY <1>1, <1>2, <2>2, <2>3, <2>4, <2>5
<1>4. Limit(d, p) = StopTime + 2 + 2 * p + x \div 2
  BY DEF Limit
<1>5. (N * (N + 1)) \div 2 = z \div 2
  OBVIOUS
<1> HIDE DEF x, y, z
<1>6. /\ z \div 2 \in Nat /\ x \div 2 \in Nat /\ x \div 2 + N <= z \div 2
      /\ d < N => x \div 2 + d + N <= z \div 2
  BY <1>1, <1>2, <1>3
<1> QED
  BY <1>1, <1>4, <1>5, <1>6

\* The largest of the limits, and of those of a child that has not said DONE.
LEMMA LatestTop ==
  ASSUME FewDrop
  PROVE  /\ (N * (N + 1)) \div 2 \in Nat /\ Latest \in Nat
         /\ Latest <= 8 * N + 2 + (N * (N + 1)) \div 2
         /\ Takers < N => Latest + Takers <= 8 * N + 2 + (N * (N + 1)) \div 2
         /\ \A p \in Nat : Cardinality(Droppers) <= p
              => Latest <= 6 * N + 4 + 2 * p + (N * (N + 1)) \div 2
<1> DEFINE k == Cardinality(Droppers)  h == (N * (N + 1)) \div 2
<1>1. /\ N \in Nat \ {0} /\ Takers \in 0..N /\ k \in Nat /\ Latest = Limit(Takers, k) /\ Latest \in Nat
      /\ k = 0 \/ k < Takers
  BY TakersFacts, NAssumption DEF Latest, FewDrop
<1>2. /\ h \in Nat /\ Latest <= 6 * N + 4 + 2 * k + h
      /\ Takers < N => Latest + Takers <= 6 * N + 4 + 2 * k + h
  BY <1>1, LimitTop
<1> HIDE DEF k, h
<1>3. k <= N - 1
  BY <1>1
<1>4. /\ Latest <= 8 * N + 2 + h /\ (Takers < N => Latest + Takers <= 8 * N + 2 + h)
      /\ \A p \in Nat : k <= p => Latest <= 6 * N + 4 + 2 * p + h
  BY <1>1, <1>2, <1>3
<1> QED
  BY <1>1, <1>2, <1>4 DEF h, k

\* A child whose history has been sent has heard every DONE.
LEMMA NoneDropped ==
  ASSUME NEW w \in Where, ProtocolInv(w), NEW c \in Children, HeardHistory(c)
  PROVE  Dropped(c) = {} /\ c \notin Droppers
<1>1. SentHistory(c)
  BY DEF ProtocolInv, Pairs, MailToParent
<1>2. \A q \in Children : HeardDone(c, q)
  BY <1>1 DEF SentHistory, HeardDone
<1> QED
  BY <1>2 DEF Dropped, Droppers

\* The histories that have been received leave only the others to have dropped one.
LEMMA LeftToDrop ==
  ASSUME NEW w \in Where, ProtocolInv(w), NEW f \in 1..(N + 1), \A c \in 1..(f - 1) : HeardHistory(c)
  PROVE  Cardinality(Droppers) <= N + 1 - f
<1> DEFINE I == f..N
<1>1. N \in Nat /\ f \in Int
  BY NAssumption
<1>2. Droppers \in SUBSET I
  <2> SUFFICES ASSUME NEW c \in Droppers PROVE c \in I
    OBVIOUS
  <2>1. c \in Children /\ c \in 1..N
    BY DEF Droppers, Finished, Children
  <2>2. c \notin 1..(f - 1)
    BY <2>1, NoneDropped
  <2> QED
    BY <1>1, <2>1, <2>2
<1>3. IsFiniteSet(I) /\ Cardinality(I) = N + 1 - f
  <2>1. IsFiniteSet(I) /\ Cardinality(I) = IF f > N THEN 0 ELSE N - f + 1
    BY <1>1, FS_Interval
  <2> HIDE DEF I
  <2> QED
    BY <1>1, <2>1
<1> HIDE DEF I
<1> QED
  BY <1>2, <1>3, FS_Subset

\* What is known once STOP has been said.
LEMMA ClocksAtEnd ==
  ASSUME NEW w \in Where, AtEnd(w)
  PROVE  ClockBound
<1> DEFINE h == (N * (N + 1)) \div 2
<1>1. /\ ProtocolInv(w) /\ StateTypes /\ Progress(w) /\ Pairs(w) /\ ClockTypes /\ SaidStop /\ FewDrop
      /\ ParentWithin /\ \A c \in Children : ChildWithin(c)
  BY AtEndFacts
<1>2. /\ N \in Nat \ {0} /\ StopTime \in Nat /\ StopTime <= 7 * N + 2
      /\ Takers \in Nat /\ Latest \in Nat /\ Latest >= StopTime + 2
  BY FewOrders, TakersFacts, NAssumption
<1>3. /\ h \in Nat /\ Latest <= 8 * N + 2 + h
      /\ Takers < N => Latest + Takers <= 8 * N + 2 + h
      /\ \A p \in Nat : Cardinality(Droppers) <= p => Latest <= 6 * N + 4 + 2 * p + h
  BY <1>1, LatestTop
<1> HIDE DEF h
<1>4. ASSUME NEW c \in Children PROVE lamport_time[c] <= 8 * N + 6 + h
  <2>1. /\ c \in Procs /\ pc[c] \in ChildLabel /\ ChildWithin(c) /\ lamport_time[c] \in Nat
        /\ from[c] \in 1..(N + 1) /\ from[c] # c
    BY <1>1, ProcsFacts DEF Progress, StateTypes, ClockTypes
  <2>2. CASE pc[c] = "start"
    <3>1. HeardStarted(PARENT_ID, c)
      BY <1>1, AfterStop
    <3> QED
      BY <1>1, <2>2, <3>1 DEF Pairs, MailToParent, SaidStarted
  <2>3. CASE pc[c] = "await_started"
    <3>1. Passed(c) \in 0..N
      BY <1>2, <2>1 DEF Passed, Children
    <3>2. lamport_time[c] = 1 + Passed(c)
      BY <2>1, <2>3 DEF ChildWithin
    <3> QED
      BY <1>2, <1>3, <3>1, <3>2
  <2>4. CASE pc[c] = "loop"
    <3>1. lamport_time[c] <= Latest + Cardinality(Dropped(c))
      BY <2>1, <2>4 DEF ChildWithin, LoopWithin
    <3>2. Cardinality(Dropped(c)) \in Nat /\ Cardinality(Dropped(c)) <= Takers /\ Takers <= N
      BY TakersFacts
    <3>3. Takers # N
      BY <2>4, TakersFacts DEF SaidDone
    <3> QED
      BY <1>2, <1>3, <2>1, <3>1, <3>2, <3>3
  <2>5. CASE pc[c] = "await_done"
    <3>1. \A q \in Children \ {c} : HeardDone(c, q) => SaidDone(q)
      BY <1>1 DEF Pairs, ChildMail
    <3>2. Passed(c) \in Nat /\ Passed(c) + Cardinality(Dropped(c)) <= Takers - 1
      BY <2>1, <2>5, <3>1, HeardAndDropped
    <3>3. Cardinality(Dropped(c)) \in Nat
      BY TakersFacts
    <3>4. \/ lamport_time[c] <= Latest - Takers + 2 + Passed(c)
          \/ lamport_time[c] <= Latest - Takers + 1 + Passed(c) + Cardinality(Dropped(c))
      BY <2>1, <2>5 DEF ChildWithin
    <3>5. lamport_time[c] <= Latest + 1
      BY <1>2, <2>1, <3>2, <3>3, <3>4
    <3> QED
      BY <1>2, <1>3, <2>1, <3>5
  <2>6. CASE pc[c] \in {"send_history", "spin", "exited"}
    <3>1. lamport_time[c] <= Latest + 3
      BY <2>1, <2>6 DEF ChildWithin
    <3> QED
      BY <1>2, <1>3, <2>1, <3>1
  <2> QED
    BY <2>1, <2>2, <2>3, <2>4, <2>5, <2>6 DEF ChildLabel
<1>5. lamport_time[PARENT_ID] <= 8 * N + 6 + h
  <2> DEFINE f == from[PARENT_ID]  t == lamport_time[PARENT_ID]
  <2>1. f \in 1..(N + 1) /\ t \in Nat
    BY <1>1, ProcsFacts DEF StateTypes, ClockTypes
  <2>2. CASE pc[PARENT_ID] = "await_done"
    <3>1. t <= IF f = 1 THEN StopTime ELSE Latest - Takers + 1 + f
      BY <1>1, <2>2 DEF ParentWithin
    <3>2. f - 1 <= Takers
      <4> DEFINE I == 1..(f - 1)
      <4>1. I \in SUBSET Finished
        <5> SUFFICES ASSUME NEW c \in I PROVE c \in Finished
          OBVIOUS
        <5>1. c \in Children /\ c < f
          BY <1>2, <2>1 DEF Children
        <5>2. SaidDone(c)
          BY <1>1, <2>2, <5>1 DEF HeardDone, Pairs, MailToParent
        <5> QED
          BY <5>1, <5>2 DEF Finished
      <4>2. Cardinality(I) = f - 1
        <5>1. 1 \in Int /\ f - 1 \in Int
          BY <2>1
        <5>2. Cardinality(I) = IF 1 > f - 1 THEN 0 ELSE (f - 1) - 1 + 1
          BY <5>1, FS_Interval
        <5> HIDE DEF I, f
        <5> QED
          BY <2>1, <5>2
      <4>3. Cardinality(I) <= Takers
        <5> HIDE DEF I
        <5> QED
          BY <4>1, TakersFacts, FS_Subset DEF Takers
      <4> QED
        BY <4>2, <4>3
    <3> HIDE DEF f, t
    <3>3. t <= 8 * N + 6 + h
      BY <1>2, <1>3, <2>1, <3>1, <3>2
    <3> QED
      BY <3>3 DEF t
  <2>3. CASE pc[PARENT_ID] = "await_histories"
    <3>1. t <= Latest + 2 + f
      BY <1>1, <2>3 DEF ParentWithin
    <3>2. \A c \in 1..(f - 1) : HeardHistory(c)
      BY <2>1, <2>3 DEF HeardHistory
    <3>3. Cardinality(Droppers) <= N + 1 - f
      BY <1>1, <2>1, <3>2, LeftToDrop
    <3> HIDE DEF f, t
    <3>4. N + 1 - f \in Nat
      BY <1>2, <2>1
    <3>5. Latest <= 6 * N + 4 + 2 * (N + 1 - f) + h
      BY <1>3, <3>3, <3>4
    <3>6. t <= 8 * N + 6 + h
      BY <1>2, <1>3, <2>1, <3>1, <3>5
    <3> QED
      BY <3>6 DEF t
  <2>4. CASE pc[PARENT_ID] \in {"wait", "exited"}
    <3>1. t <= Latest + 3 + N
      BY <1>1, <2>4 DEF ParentWithin
    <3>2. Cardinality(Droppers) <= N + 1 - (N + 1)
      <4>1. N + 1 \in 1..(N + 1) /\ \A c \in 1..((N + 1) - 1) : HeardHistory(c)
        BY <1>2, <2>4 DEF HeardHistory
      <4> QED
        BY <1>1, <4>1, LeftToDrop
    <3>3. Cardinality(Droppers) <= 0
      BY <1>2, <3>2
    <3>4. Latest <= 6 * N + 4 + 2 * 0 + h
      BY <1>3, <3>3
    <3> HIDE DEF t
    <3>5. t <= 8 * N + 6 + h
      BY <1>2, <1>3, <2>1, <3>1, <3>4
    <3> QED
      BY <3>5 DEF t
  <2> QED
    BY <1>1, <2>2, <2>3, <2>4 DEF SaidStop
<1>6. \A p \in Procs : lamport_time[p] <= 8 * N + 6 + h
  BY <1>4, <1>5, NAssumption DEF Procs, Children, PARENT_ID
<1> QED
  BY <1>6 DEF ClockBound, h

\* Until then every event has its time.
LEMMA ClocksBeforeStop ==
  ASSUME NEW w \in Where, Moment(w), TimesInv(w), ~SaidStop
  PROVE  ClockBound
<1> DEFINE h == (N * (N + 1)) \div 2
<1>1. ProtocolInv(w) /\ StateTypes /\ Progress(w) /\ ClockTypes
  BY DEF Moment, ProtocolInv
<1>2. N \in Nat \ {0} /\ Len(Orders) \in 0..N /\ ordered \in 0..Len(Orders) /\ h \in Nat
  <2>1. 0 \in 0..N
    BY NAssumption
  <2>2. h \in Nat
    BY <2>1, LimitTop
  <2> QED
    BY <1>1, <2>2, FewOrders, NAssumption DEF StateTypes
<1> HIDE DEF h
<1>3. \A c \in Children : ~SaidDone(c)
  BY <1>1 DEF Progress
<1>4. Punctual(w)
  BY <1>3 DEF TimesInv, Lossless
<1>5. \A k \in 0..N : Turn(k) \in Nat /\ Turn(k) <= 7 * N + 1
  BY <1>2 DEF Turn
<1>6. ASSUME NEW c \in Children PROVE lamport_time[c] <= 8 * N + 6 + h
  <2>1. /\ c \in Procs /\ c # PARENT_ID /\ pc[c] \in ChildLabel /\ lamport_time[c] \in Nat
        /\ from[c] \in 1..(N + 1)
    BY <1>1, ProcsFacts DEF Progress, StateTypes, ClockTypes
  <2>2. ChildOnTime(w, c)
    BY <1>4, <2>1 DEF Punctual, OnTime
  <2>3. CASE pc[c] = "start"
    BY <1>2, <2>2, <2>3 DEF ChildOnTime
  <2>4. CASE pc[c] = "await_started"
    <3>1. Passed(c) \in 0..N
      BY <1>2, <2>1 DEF Passed, Children
    <3> QED
      BY <1>2, <2>2, <2>4, <3>1 DEF ChildOnTime
  <2>5. CASE pc[c] = "loop"
    <3>1. lamport_time[c] < Horizon(w)
      BY <2>2, <2>5 DEF ChildOnTime
    <3>2. w # "none" => ordered - 1 \in 0..N
      BY <1>1, <1>2 DEF Progress
    <3>3. ordered \in 0..N /\ w \in {"none", "out", "over", "back"}
      BY <1>2 DEF Where
    <3>4. Horizon(w) \in Nat /\ Horizon(w) <= 7 * N + 5
      <4>1. CASE w = "none" \/ w = "back"
        <5>1. Horizon(w) = Turn(ordered) + 2
          BY <4>1 DEF Horizon
        <5> QED
          BY <1>2, <1>5, <3>3, <5>1
      <4>2. CASE w = "out" \/ w = "over"
        <5>1. Horizon(w) = Turn(ordered - 1) + 2 \/ Horizon(w) = Turn(ordered - 1) + 4
          BY <4>2 DEF Horizon
        <5>2. Turn(ordered - 1) \in Nat /\ Turn(ordered - 1) <= 7 * N + 1
          BY <1>5, <3>2, <4>2
        <5> QED
          BY <1>2, <5>1, <5>2
      <4> QED
        BY <3>3, <4>1, <4>2
    <3> QED
      BY <1>2, <2>1, <3>1, <3>4
  <2> QED
    BY <1>3, <2>1, <2>3, <2>4, <2>5 DEF ChildLabel, SaidDone
<1>7. lamport_time[PARENT_ID] <= 8 * N + 6 + h
  <2>1. /\ from[PARENT_ID] \in 1..(N + 1) /\ lamport_time[PARENT_ID] \in Nat
        /\ pc[PARENT_ID] \in {"spawn", "await_started", "robbery", "await_ack"}
    BY <1>1, ProcsFacts DEF Progress, StateTypes, ClockTypes, ParentLabel, SaidStop
  <2>2. ParentOnTime
    BY <1>4, ProcsFacts DEF Punctual, OnTime
  <2>3. CASE pc[PARENT_ID] \in {"spawn", "await_started"}
    BY <1>2, <2>1, <2>2, <2>3 DEF ParentOnTime
  <2>4. CASE pc[PARENT_ID] = "robbery"
    <3>1. ordered \in 0..N
      BY <1>2
    <3> QED
      BY <1>2, <1>5, <2>2, <2>4, <3>1 DEF ParentOnTime
  <2>5. CASE pc[PARENT_ID] = "await_ack"
    <3>1. ordered - 1 \in 0..N
      BY <1>1, <1>2, <2>5 DEF Progress
    <3> QED
      BY <1>2, <1>5, <2>2, <2>5, <3>1 DEF ParentOnTime
  <2> QED
    BY <2>1, <2>3, <2>4, <2>5
<1>8. \A p \in Procs : lamport_time[p] <= 8 * N + 6 + h
  BY <1>6, <1>7, NAssumption DEF Procs, Children, PARENT_ID
<1> QED
  BY <1>8 DEF ClockBound, h

\* No clock of pa3 passes the bound, whatever the scheduler does, with any number of
\* children: the DONE that one of them drops takes the time of the next one further,
\* and the parent's clock follows, but no child drops more than the others say.
THEOREM BankClocks == Spec => []ClockBound
<1> DEFINE Inv == \E w \in Where : Moment(w) /\ TimesInv(w) /\ ClocksInv
<1>1. Init => Inv
  <2>1. Init => Moment("none") /\ TimesInv("none") /\ "none" \in Where
    BY TimedBegin DEF Where
  <2>2. Init => ~SaidStop
    BY ProcsFacts DEF Init, BankInit, SaidStop
  <2> QED
    BY <2>1, <2>2 DEF ClocksInv
<1>2. Inv /\ [Next]_vars => Inv'
  <2> SUFFICES ASSUME NEW w \in Where, Moment(w), TimesInv(w), ClocksInv, [Next]_vars
               PROVE  Inv'
    OBVIOUS
  <2>1. \E v \in Where : Moment(v)' /\ TimesInv(v)'
    BY TimedNext
  <2>2. ClocksInv'
    BY ClocksNext
  <2> QED
    BY <2>1, <2>2
<1>3. Inv => ClockBound
  <2> SUFFICES ASSUME NEW w \in Where, Moment(w), TimesInv(w), ClocksInv
               PROVE  ClockBound
    OBVIOUS
  <2>1. CASE SaidStop
    <3>1. AtEnd(w)
      BY <2>1 DEF AtEnd, Moment
    <3> QED
      BY <3>1, ClocksAtEnd
  <2>2. CASE ~SaidStop
    BY <2>2, ClocksBeforeStop
  <2> QED
    BY <2>1, <2>2
<1> QED
  BY <1>1, <1>2, <1>3, PTL DEF Spec
=============================================================================
