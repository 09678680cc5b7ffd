-------------------------- MODULE BankPhysicalProofs --------------------------
(***************************************************************************)
(* Proofs about pa2: every action of BankPhysical is a step of the         *)
(* protocol that BankProofs treats, and the histories that the parent      *)
(* prints show all the money at every time.                                *)
(***************************************************************************)
EXTENDS BankPhysical, BankProofs

-----------------------------------------------------------------------------
(* pa2: every action of BankPhysical is a step of the protocol *)

TimeType == physical_time \in Nat

\* A write of a send loop, which may be the one after which time goes on.
LEMMA PhysicalWrite ==
  ASSUME NEW w \in Where, ProtocolInv(w), TimeType, NEW p \in Procs, WriteAndTick(p)
  PROVE  BankStep(w) /\ TimeType'
<1>1. Write(p)
  BY DEF WriteAndTick
<1>2. ProtocolInv(w)' /\ UNCHANGED <<balance, ordered>>
  BY <1>1, Writes
<1>3. TimeType'
  BY DEF WriteAndTick, TimeType
<1> QED
  BY <1>2, <1>3, StaysThere

\* A child says STARTED, and hears it of the others.
LEMMA PhysicalStarted ==
  ASSUME NEW w \in Where, ProtocolInv(w), NEW c \in Children,
         SyncStarted(c) \/ AwaitStarted(c)
  PROVE  BankStep(w)
<1>1. CASE SyncStarted(c)
  <2> DEFINE m == [type |-> "STARTED", time |-> 0]
  <2>1. At(c, "start") /\ Multicast(c, "STARTED", 0, "await_started")
        /\ UNCHANGED <<pipes, from, polled, balance, history, all_history, ordered>>
    BY <1>1 DEF SyncStarted
  <2>2. send_multicast(c, m) /\ Goto(c, "await_started")
    BY <2>1 DEF Multicast
  <2>3. m \in BankMessage /\ m.type = "STARTED"
    BY PlainMessage
  <2> HIDE DEF m
  <2>4. ProtocolInv(w)'
    BY <2>1, <2>2, <2>3, SaysStarted
  <2> QED
    BY <2>1, <2>4, StaysThere
<1>2. CASE AwaitStarted(c)
  <2>1. /\ At(c, "await_started")
        /\ \/ ReceiveNext(c, "STARTED")
           \/ ReceiveEnd(c) /\ Goto(c, "loop") /\ UNCHANGED outbox
    BY <1>2 DEF AwaitStarted
  <2>2. CASE ReceiveNext(c, "STARTED")
    <3>1. ProtocolInv(w)' /\ UNCHANGED <<balance, ordered>>
      BY <2>1, <2>2, ChildHears DEF At
    <3> QED
      BY <3>1, StaysThere
  <2>3. CASE ReceiveEnd(c) /\ Goto(c, "loop") /\ UNCHANGED outbox
    <3>1. ProtocolInv(w)'
      BY <2>1, <2>3, ChildBegins
    <3>2. UNCHANGED <<balance, ordered>>
      BY <2>3 DEF ReceiveEnd
    <3> QED
      BY <3>1, <3>2, StaysThere
  <2> QED
    BY <2>1, <2>2, <2>3
<1> QED
  BY <1>1, <1>2

\* The history filled up to the time of the receipt.
LEMMA PhysicalFilled ==
  ASSUME NEW w \in Where, ProtocolInv(w), TimeType, NEW c \in Children
  PROVE  Filled(c) \in History
<1>1. Filled(c) = FillHistory(history[c], physical_time, State(balance[c], 0))
  BY DEF Filled
<1>2. history[c] \in History /\ State(balance[c], 0) \in BalanceState
  BY DEF ProtocolInv, StateTypes, State, BalanceState
<1> QED
  BY <1>1, <1>2, FillType DEF TimeType

\* A child takes STOP and says DONE.
LEMMA PhysicalTakeStop ==
  ASSUME NEW w \in Where, ProtocolInv(w), TimeType, NEW c \in Children, At(c, "loop"),
         TakeStop(c)
  PROVE  BankStep(w)
<1> DEFINE m == [type |-> "DONE", time |-> 0]
           h == record_history(Filled(c), physical_time, State(balance[c], 0))
<1>1. PollMessage(c) /\ Polled(c).type = "STOP" /\ Multicast(c, "DONE", 0, "await_done")
      /\ balance' = balance /\ history' = [history EXCEPT ![c] = h]
  BY DEF TakeStop
<1>2. send_multicast(c, m) /\ Goto(c, "await_done") /\ ordered' = ordered
  BY <1>1 DEF Multicast, PollMessage
<1>3. m \in BankMessage /\ m.type = "DONE"
  BY PlainMessage
<1>4. h \in History
  <2>1. Filled(c) \in History
    BY PhysicalFilled
  <2>2. State(balance[c], 0) \in BalanceState
    BY DEF ProtocolInv, StateTypes, State, BalanceState
  <2> QED
    BY <2>1, <2>2, RecordType DEF TimeType
<1> HIDE DEF m, h
<1>5. balance' \in [Children -> Int] /\ history' \in [Children -> History]
  BY <1>1, <1>4 DEF ProtocolInv, StateTypes
<1>6. ProtocolInv(w)'
  BY <1>1, <1>2, <1>3, <1>5, TakesStop
<1> QED
  BY <1>1, <1>2, <1>6, StaysThere

\* The source takes the order and passes it on.
LEMMA PhysicalTransferOut ==
  ASSUME NEW w \in Where, ProtocolInv(w), TimeType, NEW c \in Children, At(c, "loop"),
         TransferOut(c)
  PROVE  BankStep(w)
<1> DEFINE m == Polled(c)
<1>1. /\ PollMessage(c) /\ IsSource(c, Polled(c)) /\ pc' = pc
      /\ history' = [history EXCEPT ![c] = Filled(c)]
      /\ balance' = [balance EXCEPT ![c] = @ - Polled(c).order.amount]
      /\ send(c, Polled(c).order.dst, m)
  BY DEF TransferOut
<1>2. m \in BankMessage /\ m.type = "TRANSFER" /\ m.order = Polled(c).order
      /\ Polled(c).order.amount \in Int
  BY <1>1, PolledMessage DEF IsSource
<1>3. balance' \in [Children -> Int] /\ history' \in [Children -> History]
  <2>1. Filled(c) \in History
    BY PhysicalFilled
  <2> QED
    BY <1>1, <1>2, <2>1 DEF ProtocolInv, StateTypes
<1> HIDE DEF m
<1>4. w = "out" /\ c = Src /\ Polled(c).order = Orders[ordered] /\ ProtocolInv("over")'
  BY <1>1, <1>2, <1>3, TakesOrder
<1>5. ordered' = ordered
  BY <1>1 DEF PollMessage
<1>6. Debits
  BY <1>1, <1>4 DEF Debits, Src
<1> QED
  BY <1>4, <1>5, <1>6 DEF BankStep, Transacts, Where

\* The destination takes the money and sends its ACK.
LEMMA PhysicalTransferIn ==
  ASSUME NEW w \in Where, ProtocolInv(w), TimeType, NEW c \in Children, At(c, "loop"),
         TransferIn(c)
  PROVE  BankStep(w)
<1> DEFINE m == [type |-> "ACK", time |-> 0]
<1>1. /\ PollMessage(c) /\ IsDestination(c, Polled(c)) /\ pc' = pc
      /\ history' = [history EXCEPT ![c] = Filled(c)]
      /\ balance' = [balance EXCEPT ![c] = @ + Polled(c).order.amount]
      /\ send(c, PARENT_ID, m)
  BY DEF TransferIn
<1>2. Polled(c).order.amount \in Int
  BY <1>1, PolledMessage DEF IsDestination
<1>3. m \in BankMessage /\ m.type = "ACK"
  BY PlainMessage
<1>4. balance' \in [Children -> Int] /\ history' \in [Children -> History]
  <2>1. Filled(c) \in History
    BY PhysicalFilled
  <2> QED
    BY <1>1, <1>2, <2>1 DEF ProtocolInv, StateTypes
<1> HIDE DEF m
<1>5. w = "over" /\ c = Dst /\ Polled(c).order = Orders[ordered] /\ ProtocolInv("back")'
  BY <1>1, <1>3, <1>4, TakesMoney
<1>6. ordered' = ordered
  BY <1>1 DEF PollMessage
<1>7. Credits
  BY <1>1, <1>5 DEF Credits, Dst
<1> QED
  BY <1>5, <1>6, <1>7 DEF BankStep, Transacts, Where

\* One poll of the loop of child_entry.
LEMMA PhysicalReceiveAny ==
  ASSUME NEW w \in Where, ProtocolInv(w), TimeType, NEW c \in Children, ReceiveAny(c)
  PROVE  BankStep(w)
<1>1. At(c, "loop")
  BY DEF ReceiveAny
<1>2. CASE TakeStop(c)
  BY <1>1, <1>2, PhysicalTakeStop
<1>3. CASE TransferOut(c)
  BY <1>1, <1>3, PhysicalTransferOut
<1>4. CASE TransferIn(c)
  BY <1>1, <1>4, PhysicalTransferIn
<1>5. CASE Ignore(c)
  <2>1. /\ PollMessage(c) /\ IsIgnored(c, Polled(c))
        /\ history' = [history EXCEPT ![c] = Filled(c)]
        /\ UNCHANGED <<outbox, pc, balance>>
    BY <1>5 DEF Ignore
  <2>2. balance' \in [Children -> Int] /\ history' \in [Children -> History]
    BY <2>1, PhysicalFilled DEF ProtocolInv, StateTypes
  <2>3. ProtocolInv(w)' /\ ordered' = ordered
    BY <1>1, <2>1, <2>2, DropsDone DEF PollMessage
  <2> QED
    BY <2>1, <2>3, StaysThere
<1>6. CASE PollEmpty(c)
  <2>1. ProtocolInv(w)' /\ UNCHANGED <<balance, ordered>>
    BY <1>6, PollsNothing DEF PollEmpty
  <2> QED
    BY <2>1, StaysThere
<1> QED
  BY <1>2, <1>3, <1>4, <1>5, <1>6 DEF ReceiveAny

\* A child hears the DONE of the others and then sends its history.
LEMMA PhysicalAwaitDone ==
  ASSUME NEW w \in Where, ProtocolInv(w), NEW c \in Children, AwaitDone(c)
  PROVE  BankStep(w)
<1> DEFINE m == [type |-> "BALANCE_HISTORY", time |-> 0, history |-> history[c]]
<1>1. /\ At(c, "await_done")
      /\ \/ ReceiveNext(c, "DONE")
         \/ ReceiveEnd(c) /\ send(c, PARENT_ID, m) /\ Goto(c, "send_history")
         \/ SpinOnEof(c)
  BY DEF AwaitDone
<1>2. m \in BankMessage /\ m.type = "BALANCE_HISTORY"
  BY HistoryMessage DEF ProtocolInv, StateTypes
<1> HIDE DEF m
<1>3. CASE ReceiveNext(c, "DONE")
  <2>1. ProtocolInv(w)' /\ UNCHANGED <<balance, ordered>>
    BY <1>1, <1>3, ChildHears DEF At
  <2> QED
    BY <2>1, StaysThere
<1>4. CASE ReceiveEnd(c) /\ send(c, PARENT_ID, m) /\ Goto(c, "send_history")
  <2>1. ProtocolInv(w)'
    BY <1>1, <1>2, <1>4, ChildSendsHistory
  <2>2. UNCHANGED <<balance, ordered>>
    BY <1>4 DEF ReceiveEnd
  <2> QED
    BY <2>1, <2>2, StaysThere
<1>5. CASE SpinOnEof(c)
  <2>1. ProtocolInv(w)'
    BY <1>1, <1>5, ChildSpins
  <2>2. UNCHANGED <<balance, ordered>>
    BY <1>5 DEF SpinOnEof
  <2> QED
    BY <2>1, <2>2, StaysThere
<1> QED
  BY <1>1, <1>3, <1>4, <1>5

\* A step of a child of pa2 is a step of the protocol.
LEMMA PhysicalChildNext ==
  ASSUME NEW w \in Where, ProtocolInv(w), TimeType, NEW c \in Children, ChildNext(c)
  PROVE  BankStep(w) /\ TimeType'
<1>1. CASE WriteAndTick(c)
  BY <1>1, PhysicalWrite, ProcsFacts
<1>2. CASE /\ \/ SyncStarted(c) \/ AwaitStarted(c) \/ ReceiveAny(c)
              \/ AwaitDone(c) \/ ChildExit(c)
           /\ UNCHANGED physical_time
  <2>1. TimeType'
    BY <1>2 DEF TimeType
  <2>2. CASE SyncStarted(c) \/ AwaitStarted(c)
    BY <2>1, <2>2, PhysicalStarted
  <2>3. CASE ReceiveAny(c)
    BY <2>1, <2>3, PhysicalReceiveAny
  <2>4. CASE AwaitDone(c)
    BY <2>1, <2>4, PhysicalAwaitDone
  <2>5. CASE ChildExit(c)
    <3>1. ProtocolInv(w)' /\ UNCHANGED <<balance, ordered>>
      BY <2>5, ChildReturns DEF ChildExit
    <3> QED
      BY <2>1, <3>1, StaysThere
  <2> QED
    BY <1>2, <2>2, <2>3, <2>4, <2>5
<1> QED
  BY <1>1, <1>2 DEF ChildNext

\* The receive_all loops of the parent.
LEMMA PhysicalParentReceives ==
  ASSUME NEW w \in Where, ProtocolInv(w), ParentReceivesAll
  PROVE  BankStep(w)
<1>1. \/ At(PARENT_ID, "await_started") /\ ReceiveNext(PARENT_ID, "STARTED")
      \/ At(PARENT_ID, "await_done") /\ ReceiveNext(PARENT_ID, "DONE")
      \/ At(PARENT_ID, "await_histories") /\ ReceiveNext(PARENT_ID, "BALANCE_HISTORY")
      \/ ParentGoesOn("await_started", "robbery")
      \/ ParentGoesOn("await_done", "await_histories")
      \/ ParentGoesOn("await_histories", "wait")
  BY DEF ParentReceivesAll
<1>2. ASSUME NEW type, ReceiveNext(PARENT_ID, type),
             \/ type = "STARTED" /\ pc[PARENT_ID] = "await_started"
             \/ type = "DONE" /\ pc[PARENT_ID] = "await_done"
             \/ type = "BALANCE_HISTORY" /\ pc[PARENT_ID] = "await_histories"
      PROVE  BankStep(w)
  <2>1. ProtocolInv(w)' /\ UNCHANGED <<balance, ordered>>
    BY <1>2, ParentHears
  <2> QED
    BY <2>1, StaysThere
<1>3. ASSUME NEW label, NEW next, ParentGoesOn(label, next),
             <<label, next>> \in {<<"await_started", "robbery">>, <<"await_done", "await_histories">>,
                                  <<"await_histories", "wait">>}
      PROVE  BankStep(w)
  <2>1. ProtocolInv(w)'
    BY <1>3, GoesOn
  <2>2. UNCHANGED <<balance, ordered>>
    BY <1>3 DEF ParentGoesOn, ReceiveEnd
  <2> QED
    BY <2>1, <2>2, StaysThere
<1>4. CASE At(PARENT_ID, "await_started") /\ ReceiveNext(PARENT_ID, "STARTED")
  BY <1>2, <1>4 DEF At
<1>5. CASE At(PARENT_ID, "await_done") /\ ReceiveNext(PARENT_ID, "DONE")
  BY <1>2, <1>5 DEF At
<1>6. CASE At(PARENT_ID, "await_histories") /\ ReceiveNext(PARENT_ID, "BALANCE_HISTORY")
  BY <1>2, <1>6 DEF At
<1>7. CASE ParentGoesOn("await_started", "robbery")
  BY <1>3, <1>7
<1>8. CASE ParentGoesOn("await_done", "await_histories")
  BY <1>3, <1>8
<1>9. CASE ParentGoesOn("await_histories", "wait")
  BY <1>3, <1>9
<1> QED
  BY <1>1, <1>4, <1>5, <1>6, <1>7, <1>8, <1>9

\* A step of the parent of pa2 is a step of the protocol.
LEMMA PhysicalParentNext ==
  ASSUME NEW w \in Where, ProtocolInv(w), TimeType, ParentNext
  PROVE  BankStep(w) /\ TimeType'
<1>1. \/ WriteAndTick(PARENT_ID)
      \/ /\ \/ ParentSetUp \/ ParentOrders(0) \/ ParentAwaitsAck \/ ParentStops(0)
            \/ ParentReceivesAll \/ ParentExit
         /\ UNCHANGED physical_time
  BY DEF ParentNext
<1>2. CASE WriteAndTick(PARENT_ID)
  BY <1>2, PhysicalWrite, ProcsFacts
<1>3. UNCHANGED physical_time => TimeType'
  BY DEF TimeType
<1>4. CASE ParentSetUp
  <2>1. ProtocolInv(w)' /\ UNCHANGED <<balance, ordered>>
    BY <1>4, SetsUp DEF ParentSetUp
  <2> QED
    BY <1>1, <1>2, <1>3, <2>1, StaysThere
<1>5. CASE ParentOrders(0)
  <2>1. w = "none" /\ ordered' = ordered + 1 /\ ordered' \in 1..Len(Orders) /\ ProtocolInv("out")'
    BY <1>5, GivesOrder
  <2>2. balance' = balance
    BY <1>5 DEF ParentOrders
  <2>3. BankStep(w)
    BY <2>1, <2>2 DEF BankStep, Transacts, Where
  <2> QED
    BY <1>1, <1>2, <1>3, <2>3
<1>6. CASE ParentAwaitsAck
  <2>1. w = "back" /\ ProtocolInv("none")' /\ UNCHANGED <<balance, ordered>>
    BY <1>6, GetsAck
  <2>2. BankStep(w)
    BY <2>1 DEF BankStep, Transacts, Where
  <2> QED
    BY <1>1, <1>2, <1>3, <2>2
<1>7. CASE ParentStops(0)
  <2>1. ProtocolInv(w)' /\ UNCHANGED <<balance, ordered>>
    BY <1>7, SaysStop DEF ParentStops
  <2> QED
    BY <1>1, <1>2, <1>3, <2>1, StaysThere
<1>8. CASE ParentReceivesAll
  BY <1>1, <1>2, <1>3, <1>8, PhysicalParentReceives
<1>9. CASE ParentExit
  <2>1. ProtocolInv(w)' /\ UNCHANGED <<balance, ordered>>
    BY <1>9, ParentReturns DEF ParentExit
  <2> QED
    BY <1>1, <1>2, <1>3, <2>1, StaysThere
<1> QED
  BY <1>1, <1>2, <1>4, <1>5, <1>6, <1>7, <1>8, <1>9

\* A step of pa2 is a step of the protocol.
LEMMA PhysicalNext ==
  ASSUME NEW w \in Where, ProtocolInv(w), TimeType, [Next]_(vars)
  PROVE  BankStep(w) /\ TimeType'
<1>1. ASSUME NEW c \in Children, ChildNext(c)
      PROVE  BankStep(w) /\ TimeType'
  BY <1>1, PhysicalChildNext
<1>2. CASE ParentNext
  BY <1>2, PhysicalParentNext
<1>3. CASE UNCHANGED vars
  <2>1. UNCHANGED bankVars /\ TimeType'
    BY <1>3 DEF vars, bankVars, bankVars, TimeType
  <2> QED
    BY <2>1, BankStutters
<1> QED
  BY <1>1, <1>2, <1>3 DEF Next

-----------------------------------------------------------------------------
(* The theorems of pa2 *)

PhysicalInv == TimeType /\ \E w \in Where : ProtocolInv(w)

\* The program begins with nothing under way and the ledger untouched.
LEMMA PhysicalBegins == Init => PhysicalInv /\ AsLedger!Init
<1> SUFFICES ASSUME Init PROVE PhysicalInv /\ AsLedger!Init
  OBVIOUS
<1>1. BankInit /\ TimeType
  BY DEF Init, TimeType
<1>2. ProtocolInv("none") /\ "none" \in Where
  BY <1>1, BankBegins DEF Where
<1> QED
  BY <1>1, <1>2, LedgerBegins DEF PhysicalInv

\* A step of pa2 keeps the invariant and is a step of the ledger, or none.
LEMMA PhysicalGoesOn ==
  PhysicalInv /\ [Next]_(vars)
    => PhysicalInv' /\ [AsLedger!Next]_(AsLedger!vars)
<1> SUFFICES ASSUME PhysicalInv, [Next]_(vars)
             PROVE  PhysicalInv' /\ [AsLedger!Next]_(AsLedger!vars)
  OBVIOUS
<1>1. PICK w \in Where : ProtocolInv(w)
  BY DEF PhysicalInv
<1>2. BankStep(w) /\ TimeType'
  BY <1>1, PhysicalNext DEF PhysicalInv
<1>3. [AsLedger!Next]_(AsLedger!vars)
  BY <1>1, <1>2, LedgerNext
<1>4. PhysicalInv'
  BY <1>2 DEF PhysicalInv, BankStep
<1> QED
  BY <1>3, <1>4

\* The induction.
LEMMA PhysicalInvariant == Spec => []PhysicalInv
BY PhysicalBegins, PhysicalGoesOn, PTL DEF Spec

\* In pa2, too, every message that is waited for has the type that is tested, and
\* nobody writes to a process that has returned from main.
THEOREM PhysicalSucceeds == Spec => []NoFailure
<1>1. PhysicalInv => NoFailure
  BY ProtocolSucceeds DEF PhysicalInv
<1> QED
  BY <1>1, PhysicalInvariant, PTL

\* The types of pa2, its clock included.
THEOREM PhysicalTypes == Spec => []TypeOK
<1>1. PhysicalInv => TypeOK
  BY ProtocolTypes DEF PhysicalInv, TimeType, TypeOK
<1> QED
  BY <1>1, PhysicalInvariant, PTL

\* pa2 implements the ledger as well.
THEOREM PhysicalImplementsLedger == Spec => LedgerSpec
BY PhysicalBegins, PhysicalGoesOn, PTL DEF Spec, LedgerSpec, AsLedger!Spec

-----------------------------------------------------------------------------
(* Histories of pa2: the entry of time t is the balance after order t *)

Shows(h, c) ==
  \A t \in 0..(h.s_history_len - 1) :
    t \in DOMAIN h.s_history /\ h.s_history[t] = State(After[t][c], 0)

\* The loop before the handler fills the history, as long as the balance has not changed.
LEMMA FillShows ==
  ASSUME NEW h \in History, NEW c, Shows(h, c), NEW T \in Nat, NEW b,
         \A t \in h.s_history_len..(T - 1) : After[t][c] = b
  PROVE  /\ Shows(FillHistory(h, T, State(b, 0)), c)
         /\ FillHistory(h, T, State(b, 0)).s_history_len =
              IF T > h.s_history_len THEN T ELSE h.s_history_len
<1> DEFINE len == h.s_history_len  g == FillHistory(h, T, State(b, 0))
<1>1. len \in Nat
  BY DEF History
<1>2. /\ g.s_history_len = IF T > len THEN T ELSE len
      /\ g.s_history = Assigned(h.s_history, len..(T - 1), State(b, 0))
  BY DEF FillHistory
<1>3. ASSUME NEW t \in 0..(g.s_history_len - 1)
      PROVE  t \in DOMAIN g.s_history /\ g.s_history[t] = State(After[t][c], 0)
  <2>1. t \in 0..(len - 1) \/ t \in len..(T - 1)
    BY <1>1, <1>2
  <2>2. CASE t \in len..(T - 1)
    BY <1>2, <2>2 DEF Assigned
  <2>3. CASE t \notin len..(T - 1)
    <3>1. t \in DOMAIN h.s_history /\ h.s_history[t] = State(After[t][c], 0)
      BY <2>1, <2>3 DEF Shows
    <3> QED
      BY <1>2, <2>3, <3>1 DEF Assigned
  <2> QED
    BY <2>2, <2>3
<1> QED
  BY <1>2, <1>3 DEF Shows

\* The final entry.
LEMMA RecordShows ==
  ASSUME NEW h \in History, NEW c, Shows(h, c)
  PROVE  /\ Shows(record_history(h, h.s_history_len, State(After[h.s_history_len][c], 0)), c)
         /\ record_history(h, h.s_history_len, State(After[h.s_history_len][c], 0)).s_history_len
              = h.s_history_len + 1
<1> DEFINE len == h.s_history_len  state == State(After[len][c], 0)  g == record_history(h, len, state)
<1>1. len \in Nat
  BY DEF History
<1>2. g.s_history_len = len + 1 /\ g.s_history = Assigned(h.s_history, {len}, state)
  BY DEF record_history
<1>3. ASSUME NEW t \in 0..(g.s_history_len - 1)
      PROVE  t \in DOMAIN g.s_history /\ g.s_history[t] = State(After[t][c], 0)
  <2>1. t \in 0..(len - 1) \/ t = len
    BY <1>1, <1>2
  <2>2. CASE t = len
    BY <1>2, <2>2 DEF Assigned
  <2>3. CASE t # len
    <3>1. t \in DOMAIN h.s_history /\ h.s_history[t] = State(After[t][c], 0)
      BY <2>1, <2>3 DEF Shows
    <3> QED
      BY <1>2, <2>3, <3>1 DEF Assigned
  <2> QED
    BY <2>2, <2>3
<1> QED
  BY <1>2, <1>3 DEF Shows

-----------------------------------------------------------------------------
(* What pa2 knows of its histories, besides the protocol *)

\* The current order is still to be written by the parent.
Unwritten == \E d \in Procs : outbox[PARENT_ID][d].type = "TRANSFER"

\* The physical clock counts the orders written.
Ticked == physical_time = IF Unwritten THEN ordered - 1 ELSE ordered

\* The history of c is right as far as it goes, and the balance has not changed since.
Recorded(c) ==
  /\ Shows(history[c], c)
  /\ IF SaidDone(c) THEN history[c].s_history_len = Len(Orders) + 1
     ELSE history[c].s_history_len <= IF physical_time > 1 THEN physical_time ELSE 1
  /\ \A t \in history[c].s_history_len..(ordered - 1) : After[t][c] = balance[c]

\* A history is final when it is sent, and arrives as it is.
Delivered ==
  /\ \A c \in Children : \A k \in 1..Len(Link(c, PARENT_ID)) :
       Link(c, PARENT_ID)[k].type = "BALANCE_HISTORY" =>
         SaidDone(c) /\ Link(c, PARENT_ID)[k].history = history[c]
  /\ \A c \in 1..Len(all_history) : SaidDone(c) /\ all_history[c] = history[c]

HistoryInv ==
  /\ Ticked
  /\ \A c \in Children : Recorded(c)
  /\ Delivered
  /\ SaidStop => ordered = Len(Orders)

\* The parent has at most its order to write while it waits for the ACK.
LEMMA OnlyOrder ==
  ASSUME NEW w \in Where, ProtocolInv(w), Unwritten
  PROVE  /\ w = "out" /\ Src \in Procs
         /\ \A d \in Procs \ {Src} : outbox[PARENT_ID][d] = NoMessage
<1> USE ProcsFacts
<1>1. StateTypes /\ MailTypes /\ Progress(w) /\ Pairs(w)
  BY DEF ProtocolInv, StateTypes
<1>2. PICK d \in Procs : outbox[PARENT_ID][d].type = "TRANSFER"
  BY DEF Unwritten
<1>3. Carries(PARENT_ID, d, "TRANSFER")
  <2>1. outbox[PARENT_ID][d] # NoMessage /\ outbox[PARENT_ID][d] \in BankMessage
    BY <1>1, <1>2 DEF MailTypes, NoMessage
  <2>2. Link(PARENT_ID, d) = Append(pipes[d][PARENT_ID], outbox[PARENT_ID][d])
    BY <2>1 DEF Link
  <2>3. pipes[d][PARENT_ID] \in Seq(BankMessage)
    BY <1>1 DEF MailTypes
  <2> DEFINE s == pipes[d][PARENT_ID]  m == outbox[PARENT_ID][d]
  <2>4. Len(Append(s, m)) = Len(s) + 1 /\ Append(s, m)[Len(s) + 1] = m /\ Len(s) + 1 \in 1..(Len(s) + 1)
    <3> HIDE DEF m, s
    <3> QED
      BY <2>1, <2>3 DEF m, s
  <2> QED
    BY <1>2, <2>2, <2>4 DEF Carries, Contains
<1>4. w = "out" /\ d = Src
  <2>1. OrderOn(w, PARENT_ID, d)
    BY <1>3, OrderUnderWayThere
  <2>2. w # "none"
    BY <2>1 DEF OrderOn
  <2>3. Src \in Children
    BY <1>1, <2>2, CurrentOrder
  <2> QED
    BY <2>1, <2>3 DEF OrderOn
<1>5. ASSUME NEW e \in Procs \ {Src} PROVE outbox[PARENT_ID][e] = NoMessage
  <2> SUFFICES ASSUME outbox[PARENT_ID][e] # NoMessage PROVE FALSE
    OBVIOUS
  <2>1. Mail(PARENT_ID, e) # <<>>
    BY <1>1, StillToWrite
  <2>2. e \in Children
    BY <1>1, <2>1, NAssumption DEF Pairs, Procs, Children, PARENT_ID
  <2>3. ParentMail(w, e) /\ ~OrderOn(w, PARENT_ID, e) /\ ~SaidStop
    <3>1. Src \in Children /\ ~SaidStop
      BY <1>1, <1>4, CurrentOrder
    <3> QED
      BY <1>1, <1>4, <2>2, <3>1 DEF Pairs, OrderOn
  <2> QED
    BY <2>1, <2>3 DEF ParentMail
<1> QED
  BY <1>4, <1>5

\* A child that has found its order in the pipe of the parent reads what has been written.
LEMMA OrderWritten ==
  ASSUME NEW w \in Where, ProtocolInv(w), NEW c \in Children, receive(c, PARENT_ID),
         Mail(PARENT_ID, c) = <<"TRANSFER">>
  PROVE  outbox[PARENT_ID][c] = NoMessage
<1> USE ProcsFacts
<1> SUFFICES ASSUME outbox[PARENT_ID][c] # NoMessage PROVE FALSE
  OBVIOUS
<1> DEFINE s == pipes[c][PARENT_ID]  m == outbox[PARENT_ID][c]
<1>1. s \in Seq(BankMessage) /\ m \in BankMessage /\ s # <<>> /\ MailTypes
  <2>1. MailTypes
    BY DEF ProtocolInv, StateTypes
  <2> QED
    BY <2>1 DEF MailTypes, receive
<1>2. Link(PARENT_ID, c) = Append(s, m) /\ Link(PARENT_ID, c) \in Seq(BankMessage)
  BY <1>1, LinkMessages DEF Link
<1>3. Len(Link(PARENT_ID, c)) = 1
  <2>1. Len(Mail(PARENT_ID, c)) = Len(Link(PARENT_ID, c))
    BY <1>2, TypesOfType DEF Mail
  <2> QED
    BY <2>1
<1> HIDE DEF s, m
<1>4. Len(s) # 0 /\ Len(s) \in Nat /\ Len(Append(s, m)) = Len(s) + 1
  BY <1>1
<1> QED
  BY <1>2, <1>3, <1>4

-----------------------------------------------------------------------------
(* What does not touch the histories *)

\* The time goes on and nothing else changes for c.
LEMMA RecordedKept ==
  ASSUME NEW c \in Children, Recorded(c), TimeType, physical_time' \in {physical_time, physical_time + 1},
         history'[c] = history[c], balance'[c] = balance[c], ordered' = ordered,
         SaidDone(c)' <=> SaidDone(c), history[c] \in History
  PROVE  Recorded(c)'
<1>1. Shows(history[c], c)'
  BY DEF Recorded, Shows
<1>2. history[c].s_history_len \in Nat
  BY DEF History
<1>3. (history[c].s_history_len <= IF physical_time > 1 THEN physical_time ELSE 1) =>
        history[c].s_history_len <= IF physical_time' > 1 THEN physical_time' ELSE 1
  BY <1>2 DEF TimeType
<1> QED
  BY <1>1, <1>3 DEF Recorded

\* A child posts nothing but m to the parent.
LEMMA ChildDelivers ==
  ASSUME MailTypes, Delivered, NEW c \in Children,
         pipes'[PARENT_ID] = pipes[PARENT_ID], all_history' = all_history,
         \A q \in Children \ {c} : outbox'[q][PARENT_ID] = outbox[q][PARENT_ID],
         NEW m \in BankMessage,
         \/ outbox'[c][PARENT_ID] = outbox[c][PARENT_ID]
         \/ outbox[c][PARENT_ID] = NoMessage /\ outbox'[c][PARENT_ID] \in {NoMessage, m},
         \A q \in Children : SaidDone(q) => SaidDone(q)' /\ history'[q] = history[q],
         \A q \in 1..Len(all_history) : q \in Children,
         m.type = "BALANCE_HISTORY" => SaidDone(c)' /\ m.history = history'[c]
  PROVE  Delivered'
<1> USE ProcsFacts
<1>1. ASSUME NEW q \in Children
      PROVE  \A k \in 1..Len(Link(q, PARENT_ID)') :
               Link(q, PARENT_ID)'[k].type = "BALANCE_HISTORY" =>
                 SaidDone(q)' /\ Link(q, PARENT_ID)'[k].history = history'[q]
  <2> DEFINE s == Link(q, PARENT_ID)  t == Link(q, PARENT_ID)'
  <2>1. s \in Seq(BankMessage)
    BY LinkMessages
  <2>2. \A k \in 1..Len(s) : s[k].type = "BALANCE_HISTORY" =>
                               SaidDone(q)' /\ s[k].history = history'[q]
    BY DEF Delivered
  <2>3. \/ t = s
        \/ q = c /\ t = Append(s, m)
    BY DEF Link
  <2> HIDE DEF s, t
  <2>4. CASE t = s
    BY <2>2, <2>4 DEF t
  <2>5. CASE q = c /\ t = Append(s, m)
    <3>1. \A k \in 1..Len(t) : (k \in 1..Len(s) /\ t[k] = s[k]) \/ t[k] = m
      BY <2>1, <2>5
    <3> QED
      BY <2>2, <2>5, <3>1 DEF t
  <2> QED
    BY <2>3, <2>4, <2>5
<1>2. \A q \in 1..Len(all_history') : SaidDone(q)' /\ all_history'[q] = history'[q]
  BY DEF Delivered
<1> QED
  BY <1>1, <1>2 DEF Delivered

\* The parent reads from f, or nothing.
LEMMA ParentDelivers ==
  ASSUME MailTypes, Delivered, UNCHANGED history,
         \A q \in Children : SaidDone(q)' <=> SaidDone(q),
         \A q \in Children : \/ Link(q, PARENT_ID)' = Link(q, PARENT_ID)
                             \/ /\ Link(q, PARENT_ID) # <<>>
                                /\ Link(q, PARENT_ID)' = Tail(Link(q, PARENT_ID)),
         \A q \in 1..Len(all_history) : q \in Children,
         all_history \in Seq(History),
         \/ all_history' = all_history
         \/ \E q \in Children : /\ SaidDone(q) /\ Len(all_history) = q - 1
                                /\ history[q] \in History
                                /\ all_history' = Append(all_history, history[q])
  PROVE  Delivered'
<1> USE ProcsFacts
<1>1. ASSUME NEW q \in Children
      PROVE  \A k \in 1..Len(Link(q, PARENT_ID)') :
               Link(q, PARENT_ID)'[k].type = "BALANCE_HISTORY" =>
                 SaidDone(q)' /\ Link(q, PARENT_ID)'[k].history = history'[q]
  <2> DEFINE s == Link(q, PARENT_ID)  t == Link(q, PARENT_ID)'
  <2>1. s \in Seq(BankMessage)
    BY LinkMessages
  <2>2. \A k \in 1..Len(s) : s[k].type = "BALANCE_HISTORY" =>
                               SaidDone(q)' /\ s[k].history = history'[q]
    BY DEF Delivered
  <2>3. \/ t = s
        \/ s # <<>> /\ t = Tail(s)
    OBVIOUS
  <2> HIDE DEF s, t
  <2>4. CASE t = s
    BY <2>2, <2>4 DEF t
  <2>5. CASE s # <<>> /\ t = Tail(s)
    <3>1. \A k \in 1..Len(t) : k + 1 \in 1..Len(s) /\ t[k] = s[k + 1]
      BY <2>1, <2>5
    <3> QED
      BY <2>2, <2>5, <3>1 DEF t
  <2> QED
    BY <2>3, <2>4, <2>5
<1>2. CASE all_history' = all_history
  BY <1>1, <1>2 DEF Delivered
<1>3. ASSUME NEW q \in Children, SaidDone(q), Len(all_history) = q - 1, history[q] \in History,
             all_history' = Append(all_history, history[q])
      PROVE  Delivered'
  <2>1. q \in Nat
    BY NAssumption DEF Children
  <2>2. ASSUME NEW r \in 1..Len(all_history')
        PROVE  SaidDone(r)' /\ all_history'[r] = history'[r]
    <3>1. \/ r \in 1..Len(all_history) /\ all_history'[r] = all_history[r]
          \/ r = q /\ all_history'[r] = history[q]
      BY <1>3, <2>1
    <3> QED
      BY <1>3, <3>1 DEF Delivered
  <2> QED
    BY <1>1, <2>2 DEF Delivered
<1> QED
  BY <1>2, <1>3

-----------------------------------------------------------------------------
(* Every action keeps the histories right *)

\* The clock is at the current order, or just before it.
LEMMA TimeBounds ==
  ASSUME NEW w \in Where, ProtocolInv(w), TimeType, HistoryInv
  PROVE  /\ Len(Orders) \in Nat /\ ordered \in 0..Len(Orders) /\ physical_time \in Nat
         /\ physical_time <= ordered
         /\ ~Unwritten => physical_time = ordered
         /\ w # "out" => physical_time = ordered
<1>1. Len(Orders) \in Nat /\ ordered \in 0..Len(Orders) /\ physical_time \in Nat
  BY OrderFacts DEF ProtocolInv, StateTypes, TimeType
<1>2. w # "out" => ~Unwritten
  BY OnlyOrder
<1>3. physical_time = IF Unwritten THEN ordered - 1 ELSE ordered
  BY DEF HistoryInv, Ticked
<1> QED
  BY <1>1, <1>2, <1>3

\* A step of c that is no write().
LEMMA ChildStep ==
  ASSUME NEW w \in Where, ProtocolInv(w), TimeType, HistoryInv, NEW c \in Children,
         UNCHANGED <<all_history, ordered, physical_time>>,
         pipes'[PARENT_ID] = pipes[PARENT_ID],
         \/ outbox' = outbox
         \/ /\ ~Sending(c)
            /\ \E m \in BankMessage : \E D :
                 /\ Post(c, D, m)
                 /\ m.type = "BALANCE_HISTORY" => SaidDone(c)' /\ m.history = history'[c],
         \A q \in Procs \ {c} : pc'[q] = pc[q],
         \A q \in Children \ {c} : history'[q] = history[q] /\ balance'[q] = balance[q],
         SaidDone(c) => SaidDone(c)' /\ history'[c] = history[c],
         Recorded(c)'
  PROVE  HistoryInv'
<1> USE ProcsFacts
<1>1. StateTypes /\ MailTypes /\ Ticked /\ Delivered /\ Len(all_history) \in 0..N
  BY NAssumption DEF ProtocolInv, StateTypes, HistoryInv, Progress, Children
<1>2. \A q \in Procs \ {c} : outbox'[q] = outbox[q]
  BY <1>1 DEF Post, MailTypes
<1>3. Ticked' /\ (SaidStop' <=> SaidStop)
  <2>1. PARENT_ID \in Procs \ {c}
    BY NAssumption DEF PARENT_ID, Children
  <2> QED
    BY <1>1, <1>2, <2>1 DEF Ticked, Unwritten, SaidStop
<1>4. ASSUME NEW q \in Children \ {c} PROVE (SaidDone(q)' <=> SaidDone(q)) /\ Recorded(q)'
  <2>1. (SaidDone(q)' <=> SaidDone(q)) /\ Recorded(q) /\ history[q] \in History
    BY <1>1 DEF SaidDone, HistoryInv, StateTypes
  <2> QED
    BY <2>1, RecordedKept
<1>5. Delivered'
  <2>1. /\ \A q \in Children \ {c} : outbox'[q][PARENT_ID] = outbox[q][PARENT_ID]
        /\ \A q \in Children : SaidDone(q) => SaidDone(q)' /\ history'[q] = history[q]
        /\ \A q \in 1..Len(all_history) : q \in Children
    <3>1. \A q \in 1..Len(all_history) : q \in Children
      BY <1>1, NAssumption DEF Children
    <3>2. ASSUME NEW q \in Children, SaidDone(q) PROVE SaidDone(q)' /\ history'[q] = history[q]
      BY <1>4, <3>2
    <3> QED
      BY <1>2, <3>1, <3>2
  <2>2. CASE outbox' = outbox
    <3> DEFINE m == [type |-> "STARTED", time |-> 0]
    <3>1. m \in BankMessage /\ m.type = "STARTED"
      BY PlainMessage
    <3> HIDE DEF m
    <3> QED
      BY <1>1, <2>1, <2>2, <3>1, ChildDelivers
  <2>3. ASSUME ~Sending(c), NEW m \in BankMessage, NEW D, Post(c, D, m),
               m.type = "BALANCE_HISTORY" => SaidDone(c)' /\ m.history = history'[c]
        PROVE  Delivered'
    <3>1. outbox[c][PARENT_ID] = NoMessage
      BY <2>3 DEF Sending
    <3>2. outbox'[c][PARENT_ID] \in {NoMessage, m}
      BY <1>1, <2>3 DEF Post, MailTypes
    <3> QED
      BY <1>1, <2>1, <2>3, <3>1, <3>2, ChildDelivers
  <2> QED
    BY <2>2, <2>3
<1> QED
  BY <1>3, <1>4, <1>5 DEF HistoryInv

\* A step of c that leaves its history and its account alone.
LEMMA QuietChild ==
  ASSUME NEW w \in Where, ProtocolInv(w), TimeType, HistoryInv, NEW c \in Children,
         UNCHANGED <<all_history, ordered, physical_time, history, balance>>,
         pipes'[PARENT_ID] = pipes[PARENT_ID],
         \/ outbox' = outbox
         \/ /\ ~Sending(c)
            /\ \E m \in BankMessage : \E D :
                 /\ Post(c, D, m)
                 /\ m.type = "BALANCE_HISTORY" => SaidDone(c)' /\ m.history = history'[c],
         \A q \in Procs \ {c} : pc'[q] = pc[q],
         SaidDone(c)' <=> SaidDone(c)
  PROVE  HistoryInv'
<1>1. Recorded(c) /\ history[c] \in History
  BY DEF HistoryInv, ProtocolInv, StateTypes
<1>2. Recorded(c)'
  BY <1>1, RecordedKept
<1> QED
  BY <1>2, ChildStep

\* A step of the parent that gives no order.
LEMMA ParentStep ==
  ASSUME NEW w \in Where, ProtocolInv(w), TimeType, HistoryInv,
         UNCHANGED <<ordered, history, balance>>, physical_time' \in {physical_time, physical_time + 1},
         Ticked', Delivered', SaidStop' => ordered = Len(Orders),
         \A q \in Children : SaidDone(q)' <=> SaidDone(q)
  PROVE  HistoryInv'
<1>1. ASSUME NEW c \in Children PROVE Recorded(c)'
  <2>1. Recorded(c) /\ history[c] \in History
    BY DEF HistoryInv, ProtocolInv, StateTypes
  <2> QED
    BY <2>1, RecordedKept
<1> QED
  BY <1>1 DEF HistoryInv

\* A write(): the clock advances with the order.
LEMMA HistoryWrite ==
  ASSUME NEW w \in Where, ProtocolInv(w), TimeType, HistoryInv, NEW p \in Procs,
         WriteAndTick(p)
  PROVE  HistoryInv'
<1> USE ProcsFacts
<1>1. /\ Write(p)
      /\ physical_time' = IF p = PARENT_ID /\ \E d \in Procs : outbox[p][d].type = "TRANSFER"
                            THEN physical_time + 1 ELSE physical_time
  BY DEF WriteAndTick
<1>2. ProtocolInv(w)' /\ UNCHANGED <<pc, balance, ordered, history, all_history>>
  BY <1>1, Writes DEF Write
<1>3. MailTypes /\ Len(all_history) \in 0..N /\ all_history \in Seq(History)
  BY NAssumption DEF ProtocolInv, StateTypes, Progress, Children
<1>4. PICK d \in Procs : /\ NextDst(p, d)
                         /\ pipes' = [pipes EXCEPT ![d][p] = Append(@, outbox[p][d])]
                         /\ outbox' = [outbox EXCEPT ![p][d] = NoMessage]
  <2>1. PICK d \in Procs :
          /\ NextDst(p, d)
          /\ IF HungUp(d)
               THEN /\ outbox' = [outbox EXCEPT ![p] = [e \in Procs |-> NoMessage]]
                    /\ Goto(p, "killed")
                    /\ UNCHANGED pipes
               ELSE /\ pipes' = [pipes EXCEPT ![d][p] = Append(@, outbox[p][d])]
                    /\ outbox' = [outbox EXCEPT ![p][d] = NoMessage]
                    /\ UNCHANGED pc
    BY <1>1 DEF Write
  <2>2. ~HungUp(d)
    <3>1. pc'[p] # "killed" /\ pc \in [Procs -> Label]
      BY <1>2, ProtocolSucceeds DEF ProtocolInv, StateTypes, NoFailure
    <3> QED
      BY <2>1, <3>1 DEF Goto
  <2> QED
    BY <2>1, <2>2
<1>5. outbox[p][d] # NoMessage /\ \A a, b \in Procs : Link(a, b)' = Link(a, b)
  BY <1>3, <1>4, LinkWrites DEF NextDst
<1>6. Delivered'
  BY <1>2, <1>3, <1>5 DEF HistoryInv, Delivered, SaidDone
<1>7. Ticked' /\ physical_time' \in {physical_time, physical_time + 1}
  <2>1. Ticked /\ physical_time \in Nat /\ ordered \in Nat
    BY TimeBounds DEF HistoryInv
  <2>2. \A e \in Procs : outbox'[PARENT_ID][e] =
                           IF p = PARENT_ID /\ e = d THEN NoMessage ELSE outbox[PARENT_ID][e]
    BY <1>3, <1>4 DEF MailTypes
  <2>3. CASE p = PARENT_ID /\ Unwritten
    <3>1. d = Src
      BY <1>5, <2>3, OnlyOrder
    <3>2. \A e \in Procs : outbox'[PARENT_ID][e] = NoMessage
      BY <2>2, <2>3, <3>1, OnlyOrder
    <3>3. ~Unwritten'
      BY <3>2 DEF Unwritten, NoMessage
    <3>4. physical_time' = physical_time + 1
      BY <1>1, <2>3 DEF Unwritten
    <3> QED
      BY <1>2, <2>1, <2>3, <3>3, <3>4 DEF Ticked
  <2>4. CASE ~(p = PARENT_ID /\ Unwritten)
    <3>1. physical_time' = physical_time
      BY <1>1, <2>4 DEF Unwritten
    <3>2. Unwritten' <=> Unwritten
      BY <2>2, <2>4 DEF Unwritten, NoMessage
    <3> QED
      BY <1>2, <2>1, <3>1, <3>2 DEF Ticked
  <2> QED
    BY <2>3, <2>4
<1>8. (SaidStop' => ordered = Len(Orders)) /\ \A q \in Children : SaidDone(q)' <=> SaidDone(q)
  BY <1>2 DEF HistoryInv, SaidStop, SaidDone
<1> QED
  BY <1>2, <1>6, <1>7, <1>8, ParentStep

\* Outside the loop the children touch neither their histories nor their accounts.
LEMMA HistoryStarts ==
  ASSUME NEW w \in Where, ProtocolInv(w), TimeType, HistoryInv, NEW c \in Children,
         SyncStarted(c) \/ AwaitStarted(c), physical_time' = physical_time
  PROVE  HistoryInv'
<1> USE ProcsFacts
<1>0. pc \in [Procs -> Label] /\ c # PARENT_ID /\ MailTypes
  BY NAssumption DEF ProtocolInv, StateTypes, Children, PARENT_ID
<1>1. CASE SyncStarted(c)
  <2> DEFINE m == [type |-> "STARTED", time |-> 0]
  <2>1. /\ ~Sending(c) /\ pc[c] = "start" /\ Post(c, Procs \ {c}, m) /\ Goto(c, "await_started")
        /\ UNCHANGED <<pipes, from, polled, balance, history, all_history, ordered>>
    BY <1>1 DEF SyncStarted, Multicast, send_multicast, At
  <2>2. m \in BankMessage /\ m.type = "STARTED"
    BY PlainMessage
  <2> HIDE DEF m
  <2>3. (SaidDone(c)' <=> SaidDone(c)) /\ \A q \in Procs \ {c} : pc'[q] = pc[q]
    BY <1>0, <2>1 DEF Goto, SaidDone
  <2>4. \E n \in BankMessage : \E D :
          Post(c, D, n) /\ (n.type = "BALANCE_HISTORY" => SaidDone(c)' /\ n.history = history'[c])
    BY <2>1, <2>2
  <2> QED
    BY <2>1, <2>3, <2>4, QuietChild
<1>2. CASE AwaitStarted(c)
  <2>1. /\ At(c, "await_started")
        /\ \/ ReceiveNext(c, "STARTED")
           \/ ReceiveEnd(c) /\ Goto(c, "loop") /\ UNCHANGED outbox
    BY <1>2 DEF AwaitStarted
  <2>2. CASE ReceiveNext(c, "STARTED")
    <3>1. from[c] \in Children \ {c} /\ Oldest(c, from[c]).type = "STARTED" /\ receive(c, from[c])
      BY <2>1, <2>2, ChildHeadsType DEF At, ReceiveNext
    <3>2. UNCHANGED <<pc, outbox, all_history, ordered, history, balance>>
      BY <2>2, <3>1 DEF ReceiveNext
    <3>3. pipes'[PARENT_ID] = pipes[PARENT_ID]
      BY <1>0, <3>1 DEF receive, MailTypes
    <3>4. SaidDone(c)' <=> SaidDone(c)
      BY <3>2 DEF SaidDone
    <3> QED
      BY <3>2, <3>3, <3>4, QuietChild
  <2>3. CASE ReceiveEnd(c) /\ Goto(c, "loop") /\ UNCHANGED outbox
    <3>1. (SaidDone(c)' <=> SaidDone(c)) /\ \A q \in Procs \ {c} : pc'[q] = pc[q]
      BY <1>0, <2>1, <2>3 DEF Goto, SaidDone, At
    <3>2. UNCHANGED <<pipes, all_history, ordered, history, balance>>
      BY <2>3 DEF ReceiveEnd
    <3> QED
      BY <2>3, <3>1, <3>2, QuietChild
  <2> QED
    BY <2>1, <2>2, <2>3
<1> QED
  BY <1>1, <1>2

\* The child sends the history that it has.
LEMMA HistorySent ==
  ASSUME NEW w \in Where, ProtocolInv(w), TimeType, HistoryInv, NEW c \in Children,
         AwaitDone(c), physical_time' = physical_time
  PROVE  HistoryInv'
<1> USE ProcsFacts
<1> DEFINE m == [type |-> "BALANCE_HISTORY", time |-> 0, history |-> history[c]]
<1>0. pc \in [Procs -> Label] /\ c # PARENT_ID /\ MailTypes
  BY NAssumption DEF ProtocolInv, StateTypes, Children, PARENT_ID
<1>1. /\ At(c, "await_done")
      /\ \/ ReceiveNext(c, "DONE")
         \/ ReceiveEnd(c) /\ send(c, PARENT_ID, m) /\ Goto(c, "send_history")
         \/ SpinOnEof(c)
  BY DEF AwaitDone
<1>2. m \in BankMessage /\ m.history = history[c]
  BY HistoryMessage DEF ProtocolInv, StateTypes
<1> HIDE DEF m
<1>3. CASE ReceiveNext(c, "DONE")
  <2>1. from[c] \in Children \ {c} /\ Oldest(c, from[c]).type = "DONE" /\ receive(c, from[c])
    BY <1>1, <1>3, ChildHeadsType DEF At, ReceiveNext
  <2>2. UNCHANGED <<pc, outbox, all_history, ordered, history, balance>>
    BY <1>3, <2>1 DEF ReceiveNext
  <2>3. pipes'[PARENT_ID] = pipes[PARENT_ID]
    BY <1>0, <2>1 DEF receive, MailTypes
  <2>4. SaidDone(c)' <=> SaidDone(c)
    BY <2>2 DEF SaidDone
  <2> QED
    BY <2>2, <2>3, <2>4, QuietChild
<1>4. CASE ReceiveEnd(c) /\ send(c, PARENT_ID, m) /\ Goto(c, "send_history")
  <2>1. SaidDone(c)' /\ SaidDone(c) /\ ~Sending(c) /\ \A q \in Procs \ {c} : pc'[q] = pc[q]
    BY <1>0, <1>1, <1>4 DEF Goto, SaidDone, At
  <2>2. UNCHANGED <<pipes, all_history, ordered, history, balance>>
    BY <1>4 DEF ReceiveEnd
  <2>3. \E n \in BankMessage : \E D :
          Post(c, D, n) /\ (n.type = "BALANCE_HISTORY" => SaidDone(c)' /\ n.history = history'[c])
    BY <1>2, <1>4, <2>1, <2>2 DEF send
  <2> QED
    BY <2>1, <2>2, <2>3, QuietChild
<1>5. CASE SpinOnEof(c)
  <2>1. UNCHANGED <<pipes, outbox, all_history, ordered, history, balance>>
    BY <1>5 DEF SpinOnEof
  <2>2. (SaidDone(c)' <=> SaidDone(c)) /\ \A q \in Procs \ {c} : pc'[q] = pc[q]
    BY <1>0, <1>1, <1>5 DEF SpinOnEof, Goto, SaidDone, At
  <2> QED
    BY <2>1, <2>2, QuietChild
<1> QED
  BY <1>1, <1>3, <1>4, <1>5

\* Returning from main changes no history.
LEMMA HistoryExit ==
  ASSUME NEW w \in Where, ProtocolInv(w), TimeType, HistoryInv, NEW c \in Children,
         ChildExit(c), physical_time' = physical_time
  PROVE  HistoryInv'
<1>1. pc \in [Procs -> Label] /\ c \in Procs
  BY ProcsFacts DEF ProtocolInv, StateTypes
<1>2. UNCHANGED <<pipes, outbox, all_history, ordered, history, balance>>
  BY DEF ChildExit
<1>3. (SaidDone(c)' <=> SaidDone(c)) /\ \A q \in Procs \ {c} : pc'[q] = pc[q]
  BY <1>1 DEF ChildExit, Goto, SaidDone, At
<1> QED
  BY <1>2, <1>3, QuietChild

\* The history of c, filled up to the time of the receipt, is right, and no entry
\* that is still missing differs from the balance that c had.
LEMMA FilledShows ==
  ASSUME NEW w \in Where, ProtocolInv(w), TimeType, HistoryInv, NEW c \in Children, ~SaidDone(c)
  PROVE  /\ Filled(c) \in History
         /\ Shows(Filled(c), c)
         /\ Filled(c).s_history_len \in Nat
         /\ Filled(c).s_history_len >= physical_time
         /\ Filled(c).s_history_len <= IF physical_time > 1 THEN physical_time ELSE 1
         /\ \A t \in Filled(c).s_history_len..(ordered - 1) : After[t][c] = balance[c]
<1> DEFINE h == history[c]  T == physical_time  g == Filled(c)
<1>1. /\ h \in History /\ Shows(h, c) /\ T \in Nat /\ T <= ordered /\ ordered \in Nat
      /\ h.s_history_len \in Nat /\ h.s_history_len <= IF T > 1 THEN T ELSE 1
      /\ \A t \in h.s_history_len..(ordered - 1) : After[t][c] = balance[c]
  <2>1. h \in History /\ Recorded(c)
    BY DEF ProtocolInv, StateTypes, HistoryInv
  <2>2. T \in Nat /\ T <= ordered /\ ordered \in Nat
    BY TimeBounds
  <2> QED
    BY <2>1, <2>2 DEF Recorded, History
<1>2. g = FillHistory(h, T, State(balance[c], 0))
  BY DEF Filled
<1>3. g \in History
  BY PhysicalFilled
<1> HIDE DEF h, T, g
<1>4. \A t \in h.s_history_len..(T - 1) : After[t][c] = balance[c]
  BY <1>1
<1>5. Shows(g, c) /\ g.s_history_len = IF T > h.s_history_len THEN T ELSE h.s_history_len
  BY <1>1, <1>2, <1>4, FillShows
<1>6. /\ g.s_history_len \in Nat /\ g.s_history_len >= T
      /\ g.s_history_len <= IF T > 1 THEN T ELSE 1
      /\ \A t \in g.s_history_len..(ordered - 1) : After[t][c] = balance[c]
  BY <1>1, <1>5
<1> QED
  BY <1>3, <1>5, <1>6 DEF g, T

\* A message found in the loop: c reads it, and posts what the handler says.
LEMMA HistoryHandler ==
  ASSUME NEW w \in Where, ProtocolInv(w), TimeType, HistoryInv, NEW c \in Children, At(c, "loop"),
         PollMessage(c), physical_time' = physical_time,
         \/ outbox' = outbox
         \/ \E m \in BankMessage : \E D : Post(c, D, m) /\ m.type # "BALANCE_HISTORY",
         \A q \in Procs \ {c} : pc'[q] = pc[q],
         NEW h, history' = [history EXCEPT ![c] = h],
         \A q \in Children \ {c} : balance'[q] = balance[q],
         Recorded(c)'
  PROVE  HistoryInv'
<1>1. /\ ~SaidDone(c) /\ ~Sending(c) /\ receive(c, polled[c]) /\ UNCHANGED <<all_history, ordered>>
      /\ MailTypes /\ history \in [Children -> History]
  BY DEF At, SaidDone, PollMessage, ProtocolInv, StateTypes
<1>2. pipes'[PARENT_ID] = pipes[PARENT_ID]
  BY <1>1, NAssumption, ProcsFacts DEF receive, MailTypes, Children, PARENT_ID
<1>3. \A q \in Children \ {c} : history'[q] = history[q]
  BY <1>1
<1>4. \/ outbox' = outbox
      \/ /\ ~Sending(c)
         /\ \E m \in BankMessage : \E D :
              Post(c, D, m) /\ (m.type = "BALANCE_HISTORY" => SaidDone(c)' /\ m.history = history'[c])
  BY <1>1
<1> QED
  BY <1>1, <1>2, <1>3, <1>4, ChildStep

\* An order or its second half comes when the clock has ticked for it.
LEMMA TimeOfOrder ==
  ASSUME NEW w \in Where, ProtocolInv(w), TimeType, HistoryInv, NEW c \in Children, At(c, "loop"),
         PollMessage(c), Polled(c).type = "TRANSFER"
  PROVE  physical_time = ordered
<1>1. pc[c] = "loop" /\ receive(c, polled[c]) /\ Polled(c) = Oldest(c, polled[c]) /\ polled[c] \in Procs
  BY DEF At, PollMessage, Polled, ProtocolInv, StateTypes
<1>2. Mail(polled[c], c) = <<"TRANSFER">> /\ OrderOn(w, polled[c], c)
  BY <1>1, FoundInLoop
<1>3. CASE w = "out"
  <2>1. polled[c] = PARENT_ID /\ c = Src
    BY <1>2, <1>3 DEF OrderOn
  <2>2. outbox[PARENT_ID][c] = NoMessage
    BY <1>1, <1>2, <2>1, OrderWritten
  <2>3. ~Unwritten
    <3> SUFFICES ASSUME Unwritten PROVE FALSE
      OBVIOUS
    <3>1. \A d \in Procs : outbox[PARENT_ID][d] = NoMessage
      BY <2>1, <2>2, OnlyOrder
    <3> QED
      BY <3>1 DEF Unwritten, NoMessage
  <2> QED
    BY <2>3, TimeBounds
<1>4. CASE w # "out"
  BY <1>4, TimeBounds
<1> QED
  BY <1>3, <1>4

\* At STOP the history is filled up to the time of the last transfer.
LEMMA HistoryStop ==
  ASSUME N > 1, NEW w \in Where, ProtocolInv(w), TimeType, HistoryInv, Accounts(w),
         NEW c \in Children, At(c, "loop"), TakeStop(c), physical_time' = physical_time
  PROVE  HistoryInv'
<1> DEFINE m == [type |-> "DONE", time |-> 0]
           g == Filled(c)
           h == record_history(g, physical_time, State(balance[c], 0))
<1>1. PollMessage(c) /\ Polled(c).type = "STOP" /\ Multicast(c, "DONE", 0, "await_done")
      /\ balance' = balance /\ history' = [history EXCEPT ![c] = h]
  BY DEF TakeStop
<1>2. m \in BankMessage /\ m.type = "DONE" /\ Post(c, Procs \ {c}, m) /\ Goto(c, "await_done")
  BY <1>1, PlainMessage DEF Multicast, send_multicast
<1>3. pc \in [Procs -> Label] /\ c \in Procs /\ history \in [Children -> History] /\ ~SaidDone(c)
      /\ ordered' = ordered /\ receive(c, polled[c]) /\ polled[c] \in Procs /\ pc[c] = "loop"
  BY <1>1, ProcsFacts DEF ProtocolInv, StateTypes, At, SaidDone, PollMessage
<1>4. SaidDone(c)' /\ \A q \in Procs \ {c} : pc'[q] = pc[q]
  BY <1>2, <1>3 DEF Goto, SaidDone
<1>5. w = "none" /\ ordered = Len(Orders)
  <2>1. SaidStop
    BY <1>1, <1>3, FoundInLoop DEF Polled
  <2>2. Progress(w)
    BY DEF ProtocolInv
  <2> QED
    BY <2>1, <2>2, AfterStop DEF HistoryInv
<1>6. Len(Orders) = N /\ N \in Nat
  BY NAssumption DEF Orders
<1>7. physical_time = N /\ ordered = N
  BY <1>5, <1>6, TimeBounds
<1>8. g \in History /\ Shows(g, c) /\ g.s_history_len = N
  <2> HIDE DEF g
  <2>1. /\ g \in History /\ Shows(g, c) /\ g.s_history_len \in Nat /\ g.s_history_len >= physical_time
        /\ g.s_history_len <= IF physical_time > 1 THEN physical_time ELSE 1
    BY <1>3, FilledShows DEF g
  <2> QED
    BY <1>6, <1>7, <2>1
<1>9. balance[c] = After[N][c]
  BY <1>5, <1>7 DEF Accounts, Credited
<1>10. Shows(h, c) /\ h.s_history_len = N + 1
  <2> HIDE DEF g
  <2> QED
    BY <1>7, <1>8, <1>9, RecordShows
<1> HIDE DEF h, m, g
<1>11. Recorded(c)'
  <2>1. history'[c] = h
    BY <1>1, <1>3
  <2>2. Shows(history[c], c)'
    BY <1>10, <2>1 DEF Shows
  <2>3. ordered' = N /\ \A t \in (N + 1)..(N - 1) : FALSE
    BY <1>3, <1>6, <1>7
  <2>4. \A t \in h.s_history_len..(ordered' - 1) : After[t][c] = balance'[c]
    BY <1>10, <2>3
  <2> QED
    BY <1>4, <1>6, <1>10, <2>1, <2>2, <2>4 DEF Recorded
<1> QED
  BY <1>1, <1>2, <1>4, <1>11, HistoryHandler

\* What c has recorded after a handler that fills the history only.
LEMMA RecordedFilled ==
  ASSUME NEW w \in Where, ProtocolInv(w), TimeType, HistoryInv, NEW c \in Children, ~SaidDone(c),
         history' = [history EXCEPT ![c] = Filled(c)], UNCHANGED <<physical_time, ordered, pc>>,
         physical_time = ordered \/ balance'[c] = balance[c]
  PROVE  Recorded(c)'
<1> DEFINE g == Filled(c)
<1>1. history'[c] = g
  BY DEF ProtocolInv, StateTypes
<1>2. /\ Shows(g, c) /\ g.s_history_len \in Nat /\ g.s_history_len >= physical_time
      /\ g.s_history_len <= IF physical_time > 1 THEN physical_time ELSE 1
      /\ \A t \in g.s_history_len..(ordered - 1) : After[t][c] = balance[c]
      /\ ordered \in Nat /\ physical_time \in Nat
  BY FilledShows, TimeBounds
<1> HIDE DEF g
<1>3. Shows(history[c], c)'
  BY <1>1, <1>2 DEF Shows
<1>4. \A t \in g.s_history_len..(ordered - 1) : After[t][c] = balance'[c]
  BY <1>2
<1>5. ~SaidDone(c)'
  BY DEF SaidDone
<1> QED
  BY <1>1, <1>2, <1>3, <1>4, <1>5 DEF Recorded

\* A poll of the loop of child_entry keeps the histories right.
LEMMA HistoryLoop ==
  ASSUME N > 1, NEW w \in Where, ProtocolInv(w), TimeType, HistoryInv, Accounts(w),
         NEW c \in Children, ReceiveAny(c), physical_time' = physical_time
  PROVE  HistoryInv'
<1>1. At(c, "loop") /\ ~SaidDone(c)
  BY DEF ReceiveAny, At, SaidDone
<1>0. balance \in [Children -> Int]
  BY DEF ProtocolInv, StateTypes
<1>2. CASE TakeStop(c)
  BY <1>1, <1>2, HistoryStop
<1>3. CASE TransferOut(c)
  <2> DEFINE m == Polled(c)
  <2>1. /\ PollMessage(c) /\ IsSource(c, Polled(c)) /\ pc' = pc
        /\ history' = [history EXCEPT ![c] = Filled(c)]
        /\ balance' = [balance EXCEPT ![c] = @ - Polled(c).order.amount]
        /\ send(c, Polled(c).order.dst, m)
    BY <1>3 DEF TransferOut
  <2>2. m \in BankMessage /\ m.type = "TRANSFER" /\ ordered' = ordered
    BY <2>1, PolledMessage DEF IsSource, PollMessage
  <2>3. physical_time = ordered
    BY <1>1, <2>1, <2>2, TimeOfOrder
  <2>4. Recorded(c)'
    BY <1>1, <2>1, <2>2, <2>3, RecordedFilled
  <2>5. \E n \in BankMessage : \E D : Post(c, D, n) /\ n.type # "BALANCE_HISTORY"
    BY <2>1, <2>2 DEF send
  <2>6. \A q \in Children \ {c} : balance'[q] = balance[q]
    BY <1>0, <2>1
  <2> QED
    BY <1>1, <2>1, <2>4, <2>5, <2>6, HistoryHandler
<1>4. CASE TransferIn(c)
  <2> DEFINE m == [type |-> "ACK", time |-> 0]
  <2>1. /\ PollMessage(c) /\ IsDestination(c, Polled(c)) /\ pc' = pc
        /\ history' = [history EXCEPT ![c] = Filled(c)]
        /\ balance' = [balance EXCEPT ![c] = @ + Polled(c).order.amount]
        /\ send(c, PARENT_ID, m)
    BY <1>4 DEF TransferIn
  <2>2. m \in BankMessage /\ m.type = "ACK"
    BY PlainMessage
  <2>3. Polled(c).type = "TRANSFER" /\ ordered' = ordered
    BY <2>1 DEF IsDestination, PollMessage
  <2> HIDE DEF m
  <2>4. physical_time = ordered
    BY <1>1, <2>1, <2>3, TimeOfOrder
  <2>5. Recorded(c)'
    BY <1>1, <2>1, <2>3, <2>4, RecordedFilled
  <2>6. \E n \in BankMessage : \E D : Post(c, D, n) /\ n.type # "BALANCE_HISTORY"
    BY <2>1, <2>2 DEF send
  <2>7. \A q \in Children \ {c} : balance'[q] = balance[q]
    BY <1>0, <2>1
  <2> QED
    BY <1>1, <2>1, <2>5, <2>6, <2>7, HistoryHandler
<1>5. CASE Ignore(c)
  <2>1. /\ PollMessage(c) /\ history' = [history EXCEPT ![c] = Filled(c)]
        /\ UNCHANGED <<outbox, pc, balance>> /\ ordered' = ordered
    BY <1>5 DEF Ignore, PollMessage
  <2>2. Recorded(c)'
    BY <1>1, <2>1, RecordedFilled
  <2> QED
    BY <1>1, <2>1, <2>2, HistoryHandler
<1>6. CASE PollEmpty(c)
  <2>1. UNCHANGED <<pipes, outbox, pc, balance, history, all_history, ordered>>
    BY <1>6 DEF PollEmpty
  <2>2. SaidDone(c)' <=> SaidDone(c)
    BY <2>1 DEF SaidDone
  <2> QED
    BY <2>1, <2>2, QuietChild
<1> QED
  BY <1>2, <1>3, <1>4, <1>5, <1>6 DEF ReceiveAny

\* So does every step of a child.
LEMMA HistoryChildNext ==
  ASSUME N > 1, NEW w \in Where, ProtocolInv(w), TimeType, HistoryInv, Accounts(w),
         NEW c \in Children, ChildNext(c)
  PROVE  HistoryInv'
<1>1. CASE WriteAndTick(c)
  BY <1>1, HistoryWrite, ProcsFacts
<1>2. CASE /\ \/ SyncStarted(c) \/ AwaitStarted(c) \/ ReceiveAny(c)
              \/ AwaitDone(c) \/ ChildExit(c)
           /\ UNCHANGED physical_time
  <2>1. CASE SyncStarted(c) \/ AwaitStarted(c)
    BY <1>2, <2>1, HistoryStarts
  <2>2. CASE ReceiveAny(c)
    BY <1>2, <2>2, HistoryLoop
  <2>3. CASE AwaitDone(c)
    BY <1>2, <2>3, HistorySent
  <2>4. CASE ChildExit(c)
    BY <1>2, <2>4, HistoryExit
  <2> QED
    BY <1>2, <2>1, <2>2, <2>3, <2>4
<1> QED
  BY <1>1, <1>2 DEF ChildNext

\* The parent in bank_robbery().
LEMMA HistoryOrder ==
  ASSUME NEW w \in Where, ProtocolInv(w), TimeType, HistoryInv, Accounts(w), ParentOrders(0),
         physical_time' = physical_time
  PROVE  HistoryInv'
<1> USE ProcsFacts
<1> DEFINE src == Orders[ordered'].src
           m == [type |-> "TRANSFER", time |-> 0, order |-> Orders[ordered']]
<1>1. /\ w = "none" /\ ordered' = ordered + 1 /\ ordered' \in 1..Len(Orders) /\ ProtocolInv("out")'
      /\ ~Sending(PARENT_ID) /\ send(PARENT_ID, src, m) /\ pc[PARENT_ID] = "robbery"
      /\ Goto(PARENT_ID, "await_ack")
      /\ UNCHANGED <<pipes, from, polled, balance, history, all_history>>
  BY GivesOrder DEF ParentOrders, At
<1>2. MailTypes /\ pc \in [Procs -> Label] /\ m \in BankMessage /\ m.type = "TRANSFER" /\ src \in Procs
  <2>1. Orders[ordered'] \in Order
    BY <1>1, OrderFacts
  <2> QED
    BY <2>1 DEF ProtocolInv, StateTypes, BankMessage, Order
<1> HIDE DEF m, src
<1>3. physical_time = ordered /\ ordered \in Nat /\ physical_time \in Nat
  BY <1>1, TimeBounds
<1>4. Ticked'
  <2>1. outbox'[PARENT_ID][src] = m
    BY <1>1, <1>2 DEF send, Post, MailTypes
  <2>2. Unwritten'
    BY <1>2, <2>1 DEF Unwritten
  <2> QED
    BY <1>1, <1>3, <2>2 DEF Ticked
<1>5. (\A q \in Children : SaidDone(q)' <=> SaidDone(q)) /\ ~SaidStop'
  BY <1>1, <1>2, NAssumption DEF SaidDone, SaidStop, Goto, Children, PARENT_ID
<1>6. Delivered'
  <2>1. \A q \in Children : outbox'[q] = outbox[q]
    BY <1>1, <1>2, NAssumption DEF send, Post, MailTypes, Children, PARENT_ID
  <2>2. \A q \in Children : Link(q, PARENT_ID)' = Link(q, PARENT_ID)
    BY <1>1, <2>1 DEF Link
  <2>3. \A q \in 1..Len(all_history) : q \in Children
    BY <1>1 DEF ProtocolInv, Progress
  <2> QED
    BY <1>1, <1>2, <1>5, <2>2, <2>3, ParentDelivers DEF HistoryInv, ProtocolInv, StateTypes
<1>7. ASSUME NEW c \in Children PROVE Recorded(c)'
  <2>1. Recorded(c) /\ ~SaidDone(c) /\ history[c].s_history_len \in Nat
    <3>1. ~SaidDone(c)
      BY <1>1 DEF ProtocolInv, Progress, SaidStop
    <3> QED
      BY <3>1 DEF HistoryInv, ProtocolInv, StateTypes, History
  <2>2. balance[c] = After[ordered][c]
    BY <1>1 DEF Accounts, Credited
  <2>3. \A t \in history[c].s_history_len..(ordered' - 1) : After[t][c] = balance[c]
    <3>1. ASSUME NEW t \in history[c].s_history_len..(ordered' - 1) PROVE After[t][c] = balance[c]
      <4>1. t = ordered \/ t \in history[c].s_history_len..(ordered - 1)
        BY <1>1, <1>3, <2>1
      <4> QED
        BY <2>1, <2>2, <4>1 DEF Recorded
    <3> QED
      BY <3>1
  <2>4. Shows(history[c], c)'
    BY <1>1, <2>1 DEF Recorded, Shows
  <2> QED
    BY <1>1, <1>5, <2>1, <2>3, <2>4 DEF Recorded
<1> QED
  BY <1>4, <1>5, <1>6, <1>7 DEF HistoryInv

\* A step of the parent that gives no order and posts nothing, or posts STOP.
LEMMA QuietParent ==
  ASSUME NEW w \in Where, ProtocolInv(w), TimeType, HistoryInv,
         UNCHANGED <<ordered, history, balance, physical_time>>,
         \A q \in Children : pc'[q] = pc[q],
         \/ outbox' = outbox
         \/ \E D : ~Sending(PARENT_ID) /\ Post(PARENT_ID, D, [type |-> "STOP", time |-> 0]),
         \/ pipes' = pipes
         \/ \E f \in Children : receive(PARENT_ID, f),
         \/ all_history' = all_history
         \/ \E q \in Children : /\ SaidDone(q) /\ Len(all_history) = q - 1
                                /\ history[q] \in History
                                /\ all_history' = Append(all_history, history[q]),
         SaidStop' => ordered = Len(Orders)
  PROVE  HistoryInv'
<1> USE ProcsFacts
<1>1. MailTypes /\ Ticked /\ Delivered /\ all_history \in Seq(History) /\ Len(all_history) \in 0..N
  BY NAssumption DEF ProtocolInv, StateTypes, HistoryInv, Progress, Children
<1>2. \A q \in Children : SaidDone(q)' <=> SaidDone(q)
  BY DEF SaidDone
<1>3. (\A q \in Children : outbox'[q] = outbox[q]) /\ (Unwritten' <=> Unwritten)
  <2>1. CASE outbox' = outbox
    BY <2>1 DEF Unwritten
  <2>2. ASSUME NEW D, ~Sending(PARENT_ID), Post(PARENT_ID, D, [type |-> "STOP", time |-> 0])
        PROVE  (\A q \in Children : outbox'[q] = outbox[q]) /\ ~Unwritten /\ ~Unwritten'
    <3>1. \A d \in Procs : outbox[PARENT_ID][d] = NoMessage
      BY <2>2 DEF Sending
    <3>2. \A d \in Procs : outbox'[PARENT_ID][d] \in {[type |-> "STOP", time |-> 0], NoMessage}
      BY <1>1, <2>2 DEF Post, MailTypes
    <3>3. \A q \in Children : outbox'[q] = outbox[q]
      BY <1>1, <2>2, NAssumption DEF Post, MailTypes, Children, PARENT_ID
    <3>4. ~Unwritten
      BY <3>1 DEF Unwritten, NoMessage
    <3>5. ~Unwritten'
      BY <3>2 DEF Unwritten, NoMessage
    <3> QED
      BY <3>3, <3>4, <3>5
  <2> QED
    BY <2>1, <2>2
<1>4. Ticked'
  BY <1>1, <1>3 DEF Ticked
<1>5. ASSUME NEW q \in Children
      PROVE  \/ Link(q, PARENT_ID)' = Link(q, PARENT_ID)
             \/ Link(q, PARENT_ID) # <<>> /\ Link(q, PARENT_ID)' = Tail(Link(q, PARENT_ID))
  <2>1. CASE pipes' = pipes
    BY <1>3, <2>1 DEF Link
  <2>2. ASSUME NEW f \in Children, receive(PARENT_ID, f), f # q
        PROVE  Link(q, PARENT_ID)' = Link(q, PARENT_ID)
    <3>1. pipes'[PARENT_ID][q] = pipes[PARENT_ID][q]
      BY <1>1, <2>2 DEF receive, MailTypes
    <3> QED
      BY <1>3, <3>1 DEF Link
  <2>3. ASSUME receive(PARENT_ID, q)
        PROVE  Link(q, PARENT_ID) # <<>> /\ Link(q, PARENT_ID)' = Tail(Link(q, PARENT_ID))
    <3> DEFINE s == pipes[PARENT_ID][q]  m == outbox[q][PARENT_ID]
    <3>1. /\ s \in Seq(BankMessage) /\ s # <<>> /\ pipes'[PARENT_ID][q] = Tail(s)
          /\ m = NoMessage \/ m \in BankMessage
      BY <1>1, <2>3 DEF receive, MailTypes
    <3>2. outbox'[q][PARENT_ID] = m
      BY <1>3
    <3>3. /\ Link(q, PARENT_ID) = IF m = NoMessage THEN s ELSE Append(s, m)
          /\ Link(q, PARENT_ID)' = IF m = NoMessage THEN Tail(s) ELSE Append(Tail(s), m)
      BY <3>1, <3>2 DEF Link
    <3> HIDE DEF s, m
    <3>4. m \in BankMessage => Tail(Append(s, m)) = Append(Tail(s), m) /\ Append(s, m) # <<>>
      BY <3>1
    <3> QED
      BY <3>1, <3>3, <3>4
  <2> QED
    BY <2>1, <2>2, <2>3
<1>6. \A q \in 1..Len(all_history) : q \in Children
  BY <1>1, NAssumption DEF Children
<1>7. Delivered'
  BY <1>1, <1>2, <1>5, <1>6, ParentDelivers
<1> QED
  BY <1>2, <1>4, <1>7, ParentStep

\* The parent keeps the history that it receives.
LEMMA HistoryReceived ==
  ASSUME NEW w \in Where, ProtocolInv(w), TimeType, HistoryInv,
         NEW type, ReceiveNext(PARENT_ID, type), physical_time' = physical_time,
         \/ type = "STARTED" /\ pc[PARENT_ID] = "await_started"
         \/ type = "DONE" /\ pc[PARENT_ID] = "await_done"
         \/ type = "BALANCE_HISTORY" /\ pc[PARENT_ID] = "await_histories"
  PROVE  HistoryInv'
<1> USE ProcsFacts
<1> DEFINE f == from[PARENT_ID]  m == Oldest(PARENT_ID, f)
<1>1. /\ f \in Children /\ m \in BankMessage /\ m.type = type /\ receive(PARENT_ID, f)
      /\ type = "BALANCE_HISTORY" => SentHistory(f)
  BY ParentHeadsType DEF ReceiveNext
<1>2. /\ UNCHANGED <<outbox, polled, balance, history, ordered>>
      /\ IF type = "BALANCE_HISTORY" THEN FillCallback(f, m.history) ELSE UNCHANGED <<pc, all_history>>
  BY <1>1 DEF ReceiveNext
<1>3. MailTypes /\ Progress(w) /\ Delivered /\ history \in [Children -> History] /\ (SaidStop => ordered = Len(Orders))
  BY DEF ProtocolInv, StateTypes, HistoryInv
<1>4. CASE type # "BALANCE_HISTORY"
  <2>1. UNCHANGED <<pc, all_history>> /\ (SaidStop' <=> SaidStop)
    BY <1>2, <1>4 DEF SaidStop
  <2> QED
    BY <1>1, <1>2, <1>3, <2>1, QuietParent
<1>5. CASE type = "BALANCE_HISTORY"
  <2>1. Len(all_history) = f - 1
    BY <1>3, <1>5 DEF Progress
  <2>2. UNCHANGED pc /\ all_history' = Append(all_history, m.history)
    BY <1>2, <1>5, <2>1 DEF FillCallback
  <2>3. m.history = history[f]
    <3> DEFINE s == Link(f, PARENT_ID)
    <3>1. s \in Seq(BankMessage) /\ s # <<>> /\ m = Head(s)
      BY <1>1, <1>3, LinkFirst, LinkMessages
    <3>2. 1 \in 1..Len(s) /\ m = s[1]
      <4> HIDE DEF s, m
      <4> QED
        BY <3>1
    <3> QED
      BY <1>1, <1>3, <1>5, <3>2 DEF Delivered
  <2>4. SaidDone(f) /\ history[f] \in History
    BY <1>1, <1>3, <1>5 DEF SentHistory, SaidDone
  <2>5. SaidStop' <=> SaidStop
    BY <2>2 DEF SaidStop
  <2> HIDE DEF f, m
  <2> QED
    BY <1>1, <1>2, <1>3, <2>1, <2>2, <2>3, <2>4, <2>5, QuietParent
<1> QED
  BY <1>4, <1>5

\* The end of a receive_all loop of the parent changes no history.
LEMMA HistoryGoesOn ==
  ASSUME NEW w \in Where, ProtocolInv(w), TimeType, HistoryInv, NEW label, NEW next,
         ParentGoesOn(label, next), physical_time' = physical_time,
         <<label, next>> \in {<<"await_started", "robbery">>, <<"await_done", "await_histories">>,
                              <<"await_histories", "wait">>}
  PROVE  HistoryInv'
<1>1. UNCHANGED <<pipes, outbox, balance, history, all_history, ordered>>
  BY DEF ParentGoesOn, ReceiveEnd
<1>2. /\ pc \in [Procs -> Label] /\ pc[PARENT_ID] = label /\ Goto(PARENT_ID, next)
      /\ PARENT_ID \in Procs /\ PARENT_ID \notin Children
      /\ SaidStop => ordered = Len(Orders)
  BY ProcsFacts, NAssumption DEF ParentGoesOn, At, ProtocolInv, StateTypes, HistoryInv, Children, PARENT_ID
<1>3. (\A q \in Children : pc'[q] = pc[q]) /\ (SaidStop' => SaidStop)
  BY <1>2 DEF Goto, SaidStop
<1> QED
  BY <1>1, <1>2, <1>3, QuietParent

\* Every step of the parent keeps the histories right.
LEMMA HistoryParentNext ==
  ASSUME NEW w \in Where, ProtocolInv(w), TimeType, HistoryInv, Accounts(w), ParentNext
  PROVE  HistoryInv'
<1> USE ProcsFacts
<1>0. /\ pc \in [Procs -> Label] /\ PARENT_ID \in Procs /\ PARENT_ID \notin Children
      /\ SaidStop => ordered = Len(Orders)
  BY NAssumption DEF ProtocolInv, StateTypes, HistoryInv, Children, PARENT_ID
<1>1. \/ WriteAndTick(PARENT_ID)
      \/ /\ \/ ParentSetUp \/ ParentOrders(0) \/ ParentAwaitsAck \/ ParentStops(0)
            \/ ParentReceivesAll \/ ParentExit
         /\ UNCHANGED physical_time
  BY DEF ParentNext
<1>2. CASE WriteAndTick(PARENT_ID)
  BY <1>2, HistoryWrite
<1>3. CASE ParentSetUp /\ UNCHANGED physical_time
  <2>1. UNCHANGED <<pipes, outbox, balance, history, all_history, ordered>>
    BY <1>3 DEF ParentSetUp
  <2>2. (\A q \in Children : pc'[q] = pc[q]) /\ ~SaidStop'
    BY <1>0, <1>3 DEF ParentSetUp, Goto, SaidStop
  <2> QED
    BY <1>3, <2>1, <2>2, QuietParent
<1>4. CASE ParentOrders(0) /\ UNCHANGED physical_time
  BY <1>4, HistoryOrder
<1>5. CASE ParentAwaitsAck /\ UNCHANGED physical_time
  <2>1. /\ UNCHANGED <<outbox, balance, history, all_history, ordered>>
        /\ receive(PARENT_ID, Orders[ordered].dst) /\ At(PARENT_ID, "await_ack")
        /\ \E next \in {"robbery", "failed"} : Goto(PARENT_ID, next)
    BY <1>5 DEF ParentAwaitsAck
  <2>2. Orders[ordered].dst \in Children
    <3>1. StateTypes /\ Progress(w) /\ w # "none"
      BY <2>1 DEF ProtocolInv, Progress, At
    <3> QED
      BY <3>1, CurrentOrder DEF Dst
  <2>3. (\A q \in Children : pc'[q] = pc[q]) /\ ~SaidStop'
    BY <1>0, <2>1 DEF Goto, SaidStop
  <2> QED
    BY <1>5, <2>1, <2>2, <2>3, QuietParent
<1>6. CASE ParentStops(0) /\ UNCHANGED physical_time
  <2>1. /\ UNCHANGED <<pipes, balance, history, all_history, ordered>>
        /\ ~Sending(PARENT_ID) /\ Post(PARENT_ID, Procs \ {PARENT_ID}, [type |-> "STOP", time |-> 0])
        /\ Goto(PARENT_ID, "await_done") /\ ordered = Len(Orders)
    BY <1>6 DEF ParentStops, At, Multicast, send_multicast
  <2>2. \A q \in Children : pc'[q] = pc[q]
    BY <1>0, <2>1 DEF Goto
  <2> QED
    BY <1>6, <2>1, <2>2, QuietParent
<1>7. CASE ParentReceivesAll /\ UNCHANGED physical_time
  <2>1. \/ At(PARENT_ID, "await_started") /\ ReceiveNext(PARENT_ID, "STARTED")
        \/ At(PARENT_ID, "await_done") /\ ReceiveNext(PARENT_ID, "DONE")
        \/ At(PARENT_ID, "await_histories") /\ ReceiveNext(PARENT_ID, "BALANCE_HISTORY")
        \/ ParentGoesOn("await_started", "robbery")
        \/ ParentGoesOn("await_done", "await_histories")
        \/ ParentGoesOn("await_histories", "wait")
    BY <1>7 DEF ParentReceivesAll
  <2>2. CASE At(PARENT_ID, "await_started") /\ ReceiveNext(PARENT_ID, "STARTED")
    BY <1>7, <2>2, HistoryReceived DEF At
  <2>3. CASE At(PARENT_ID, "await_done") /\ ReceiveNext(PARENT_ID, "DONE")
    BY <1>7, <2>3, HistoryReceived DEF At
  <2>4. CASE At(PARENT_ID, "await_histories") /\ ReceiveNext(PARENT_ID, "BALANCE_HISTORY")
    BY <1>7, <2>4, HistoryReceived DEF At
  <2>5. CASE ParentGoesOn("await_started", "robbery")
    BY <1>7, <2>5, HistoryGoesOn
  <2>6. CASE ParentGoesOn("await_done", "await_histories")
    BY <1>7, <2>6, HistoryGoesOn
  <2>7. CASE ParentGoesOn("await_histories", "wait")
    BY <1>7, <2>7, HistoryGoesOn
  <2> QED
    BY <2>1, <2>2, <2>3, <2>4, <2>5, <2>6, <2>7
<1>8. CASE ParentExit /\ UNCHANGED physical_time
  <2>1. UNCHANGED <<pipes, outbox, balance, history, all_history, ordered>>
    BY <1>8 DEF ParentExit
  <2>2. (\A q \in Children : pc'[q] = pc[q]) /\ (SaidStop' => SaidStop)
    BY <1>0, <1>8 DEF ParentExit, Goto, SaidStop
  <2> QED
    BY <1>0, <1>8, <2>1, <2>2, QuietParent
<1> QED
  BY <1>1, <1>2, <1>3, <1>4, <1>5, <1>6, <1>7, <1>8

-----------------------------------------------------------------------------
(* The theorem *)

HistoriesInv == TimeType /\ HistoryInv /\ \E w \in Where : ProtocolInv(w) /\ Accounts(w)

\* At the beginning the histories show the opening balances at time 0.
LEMMA HistoriesBegin == Init => HistoriesInv
<1> SUFFICES ASSUME Init PROVE HistoriesInv
  OBVIOUS
<1> USE ProcsFacts
<1>1. BankInit /\ physical_time = 0
  BY DEF Init
<1>2. ProtocolInv("none") /\ "none" \in Where
  BY <1>1, BankBegins DEF Where
<1>3. Accounts("none")
  BY <1>1, AfterType DEF BankInit, Accounts, Credited
<1>4. \A p, d \in Procs : outbox[p][d] = NoMessage /\ Link(p, d) = <<>>
  BY <1>1 DEF BankInit, IpcInit, Link
<1>5. Ticked
  BY <1>1, <1>4 DEF BankInit, Ticked, Unwritten, NoMessage
<1>6. ASSUME NEW c \in Children PROVE Recorded(c)
  <2>1. /\ history[c] = [s_history |-> [t \in {0} |-> State(StartBalances[c], 0)], s_history_len |-> 1]
        /\ ordered = 0 /\ pc[c] = "start"
    BY <1>1, NAssumption DEF BankInit, Children, PARENT_ID
  <2>2. Shows(history[c], c)
    BY <2>1, AfterType DEF Shows
  <2> QED
    BY <1>1, <2>1, <2>2 DEF Recorded, SaidDone
<1>7. Delivered
  <2>1. all_history = <<>>
    BY <1>1 DEF BankInit
  <2> QED
    BY <1>4, <2>1 DEF Delivered
<1>8. ~SaidStop
  BY <1>1 DEF BankInit, SaidStop
<1> QED
  BY <1>1, <1>2, <1>3, <1>5, <1>6, <1>7, <1>8 DEF HistoriesInv, HistoryInv, TimeType

\* A step of pa2 keeps the histories right, if there is an order at all.
LEMMA HistoriesGoOn ==
  ASSUME N > 1
  PROVE  HistoriesInv /\ [Next]_(vars) => HistoriesInv'
<1> SUFFICES ASSUME HistoriesInv, [Next]_(vars) PROVE HistoriesInv'
  OBVIOUS
<1>1. PICK w \in Where : ProtocolInv(w) /\ Accounts(w)
  BY DEF HistoriesInv
<1>2. TimeType /\ HistoryInv
  BY DEF HistoriesInv
<1>3. BankStep(w) /\ TimeType'
  BY <1>1, <1>2, PhysicalNext
<1>4. PICK v \in Where : ProtocolInv(v)' /\ Transacts(w, v)
  BY <1>3 DEF BankStep
<1>5. Accounts(v)'
  BY <1>1, <1>4, AccountsNext
<1>6. HistoryInv'
  <2>1. ASSUME NEW c \in Children, ChildNext(c) PROVE HistoryInv'
    BY <1>1, <1>2, <2>1, HistoryChildNext
  <2>2. CASE ParentNext
    BY <1>1, <1>2, <2>2, HistoryParentNext
  <2>3. CASE UNCHANGED vars
    <3>1. UNCHANGED <<pipes, outbox, pc, balance, history, all_history, ordered, physical_time>>
      BY <2>3 DEF vars, bankVars
    <3> QED
      BY <1>1, <1>2, <3>1, QuietParent DEF HistoryInv, SaidStop
  <2> QED
    BY <2>1, <2>2, <2>3 DEF Next
<1> QED
  BY <1>3, <1>4, <1>5, <1>6 DEF HistoriesInv

\* Once the parent of pa2 has all the histories, they show all the money at every time
\* up to the last transfer, and the balances of now at that time.
THEOREM PhysicalConserves ==
  ASSUME N > 1
  PROVE  Spec => []Conservation
<1>1. HistoriesInv => Conservation
  <2> SUFFICES ASSUME HistoriesInv, Len(all_history) = N PROVE
                 /\ \A t \in 0..Len(Orders) : ShownAt(t) = Total
                 /\ \A c \in Children :
                      /\ all_history[c].s_history_len = Len(Orders) + 1
                      /\ all_history[c].s_history[Len(Orders)] = State(balance[c], 0)
    BY DEF Conservation
  <2>1. PICK w \in Where : ProtocolInv(w) /\ Accounts(w)
    BY DEF HistoriesInv
  <2>2. ASSUME NEW c \in Children
        PROVE  /\ SaidDone(c) /\ Shows(all_history[c], c)
               /\ all_history[c].s_history_len = Len(Orders) + 1
    <3>1. SaidDone(c) /\ all_history[c] = history[c]
      BY NAssumption DEF HistoriesInv, HistoryInv, Delivered, Children
    <3> QED
      BY <3>1 DEF HistoriesInv, HistoryInv, Recorded
  <2>3. Len(Orders) \in Nat /\ \A k \in 0..Len(Orders) : After[k] \in [Children -> Int]
    BY AfterType
  <2>4. ASSUME NEW c \in Children, NEW t \in 0..Len(Orders)
        PROVE  all_history[c].s_history[t] = State(After[t][c], 0)
    BY <2>2, <2>3 DEF Shows
  <2>5. balance = After[Len(Orders)]
    <3>1. 1 \in Children
      BY NAssumption DEF Children
    <3>2. SaidStop
      BY <2>1, <2>2, <3>1 DEF ProtocolInv, Progress
    <3>3. w = "none" /\ ordered = Len(Orders)
      BY <2>1, <3>2, AfterStop DEF HistoriesInv, HistoryInv, ProtocolInv
    <3> QED
      BY <2>1, <3>3 DEF Accounts, Credited
  <2>6. ASSUME NEW t \in 0..Len(Orders) PROVE ShownAt(t) = Total
    <3>1. After[t] \in [Children -> Int]
      BY <2>3
    <3>2. \A c \in Children : After[t][c] = all_history[c].s_history[t].s_balance
                                              + all_history[c].s_history[t].s_balance_pending_in
      <4>1. ASSUME NEW c \in Children
            PROVE  After[t][c] = all_history[c].s_history[t].s_balance
                                   + all_history[c].s_history[t].s_balance_pending_in
        <5>1. all_history[c].s_history[t] = [s_balance |-> After[t][c], s_balance_pending_in |-> 0]
          BY <2>4 DEF State
        <5>2. After[t][c] \in Int
          BY <3>1
        <5> QED
          BY <5>1, <5>2
      <4> QED
        BY <4>1
    <3> QED
      BY <3>2, ShownIsTotal
  <2> QED
    BY <2>2, <2>3, <2>4, <2>5, <2>6
<1>2. HistoriesInv /\ [Next]_(vars) => HistoriesInv'
  BY HistoriesGoOn
<1> QED
  BY <1>1, <1>2, HistoriesBegin, PTL DEF Spec

=============================================================================
