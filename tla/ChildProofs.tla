------------------------------ MODULE ChildProofs ------------------------------
(***************************************************************************)
(* Facts that the proofs of the three mutual-exclusion programs share: the *)
(* message layer (its types, what a sequence of messages contains, how the *)
(* steps of a process change what is under way), and the process skeleton  *)
(* of MutexChild.                                                          *)
(***************************************************************************)
EXTENDS MutexChild, FiniteSetTheorems, WellFoundedInduction, TLAPS

-----------------------------------------------------------------------------
(* The message layer keeps its types *)

\* A receive() leaves whole messages in the pipe and returns one.
LEMMA ReceiveType ==
  ASSUME IpcTypeOK, NEW p \in Procs, NEW f \in Procs, receive(p, f)
  PROVE  /\ pipes' \in [Procs -> [Procs -> Seq(Message)]]
         /\ Oldest(p, f) \in Message
         /\ Oldest(p, f).type \in MessageType
         /\ Oldest(p, f).time \in Nat
<1>1. pipes[p][f] \in Seq(Message) /\ pipes[p][f] # <<>>
  BY DEF IpcTypeOK, receive
<1>2. Head(pipes[p][f]) \in Message /\ Tail(pipes[p][f]) \in Seq(Message)
  BY <1>1
<1>3. pipes' \in [Procs -> [Procs -> Seq(Message)]]
  BY <1>2 DEF IpcTypeOK, receive
<1> QED
  BY <1>2, <1>3 DEF Oldest, Message

\* A send loop starts with messages.
LEMMA PostType ==
  ASSUME IpcTypeOK, NEW p \in Procs, NEW D, NEW m \in Message, Post(p, D, m)
  PROVE  outbox' \in [Procs -> [Procs -> Message \cup {NoMessage}]]
BY DEF IpcTypeOK, Post

\* The parent is not a child.
LEMMA ProcsFacts == Children \subseteq Procs /\ PARENT_ID \in Procs /\ PARENT_ID \notin Children
BY NAssumption DEF Children, Procs, PARENT_ID

-----------------------------------------------------------------------------
(* Sequences of messages *)

\* Append adds its message to what the sequence contains.
LEMMA ContainsAppend ==
  ASSUME NEW s \in Seq(Message), NEW m \in Message, NEW type
  PROVE  Contains(Append(s, m), type) <=> Contains(s, type) \/ m.type = type
<1> DEFINE t == Append(s, m)
<1>1. /\ Len(s) \in Nat /\ Len(t) = Len(s) + 1
      /\ \A k \in 1..Len(s) : t[k] = s[k]
      /\ t[Len(s) + 1] = m
  OBVIOUS
<1>2. ASSUME Contains(t, type) PROVE Contains(s, type) \/ m.type = type
  BY <1>1, <1>2 DEF Contains
<1>3. ASSUME Contains(s, type) PROVE Contains(t, type)
  <2>1. PICK k \in 1..Len(s) : s[k].type = type
    BY <1>3 DEF Contains
  <2>2. k \in 1..Len(t) /\ t[k].type = type
    BY <1>1, <2>1
  <2> QED
    BY <2>2 DEF Contains
<1>4. ASSUME m.type = type PROVE Contains(t, type)
  <2>1. Len(s) + 1 \in 1..Len(t) /\ t[Len(s) + 1].type = type
    BY <1>1, <1>4
  <2> QED
    BY <2>1 DEF Contains
<1> QED
  BY <1>2, <1>3, <1>4

\* What a sequence contains is what its head is and what its tail contains.
LEMMA ContainsTail ==
  ASSUME NEW s \in Seq(Message), s # <<>>, NEW type
  PROVE  Contains(s, type) <=> Head(s).type = type \/ Contains(Tail(s), type)
<1> DEFINE t == Tail(s)
<1>1. /\ Len(s) \in Nat \ {0} /\ Len(t) = Len(s) - 1
      /\ Head(s) = s[1]
      /\ \A k \in 1..Len(t) : t[k] = s[k + 1]
  OBVIOUS
<1>2. ASSUME Contains(s, type) PROVE Head(s).type = type \/ Contains(t, type)
  <2>1. PICK k \in 1..Len(s) : s[k].type = type
    BY <1>2 DEF Contains
  <2>2. CASE k = 1
    BY <1>1, <2>1, <2>2
  <2>3. CASE k # 1
    <3>1. k - 1 \in 1..Len(t) /\ t[k - 1] = s[k]
      BY <1>1, <2>1, <2>3
    <3> QED
      BY <2>1, <3>1 DEF Contains
  <2> QED
    BY <2>2, <2>3
<1>3. ASSUME Head(s).type = type PROVE Contains(s, type)
  <2>1. 1 \in 1..Len(s) /\ s[1].type = type
    BY <1>1, <1>3
  <2> QED
    BY <2>1 DEF Contains
<1>4. ASSUME Contains(t, type) PROVE Contains(s, type)
  <2>1. PICK k \in 1..Len(t) : t[k].type = type
    BY <1>4 DEF Contains
  <2>2. k + 1 \in 1..Len(s) /\ s[k + 1].type = type
    BY <1>1, <2>1
  <2> QED
    BY <2>2 DEF Contains
<1> QED
  BY <1>2, <1>3, <1>4

-----------------------------------------------------------------------------
(* How steps change what is under way *)

\* What is under way between two processes is a sequence of messages.
LEMMA LinkType ==
  ASSUME IpcTypeOK, NEW p \in Procs, NEW q \in Procs
  PROVE  Link(p, q) \in Seq(Message)
BY DEF IpcTypeOK, Link

\* A write() moves a message from the send loop to the pipe: nothing under way
\* changes.
LEMMA LinkWrite ==
  ASSUME IpcTypeOK, NEW p \in Procs, NEW d \in Procs, outbox[p][d] # NoMessage,
         pipes' = [pipes EXCEPT ![d][p] = Append(@, outbox[p][d])],
         outbox' = [outbox EXCEPT ![p][d] = NoMessage]
  PROVE  \A a, b \in Procs : Link(a, b)' = Link(a, b)
<1> SUFFICES ASSUME NEW a \in Procs, NEW b \in Procs PROVE Link(a, b)' = Link(a, b)
  OBVIOUS
<1>1. pipes'[b][a] = IF b = d /\ a = p THEN Append(pipes[b][a], outbox[p][d]) ELSE pipes[b][a]
  BY DEF IpcTypeOK
<1>2. outbox'[a][b] = IF b = d /\ a = p THEN NoMessage ELSE outbox[a][b]
  BY DEF IpcTypeOK
<1> QED
  BY <1>1, <1>2 DEF Link

\* The oldest message of a pipe is the oldest message under way.
LEMMA LinkOldest ==
  ASSUME IpcTypeOK, NEW p \in Procs, NEW f \in Procs, receive(p, f)
  PROVE  /\ Link(f, p) # <<>>
         /\ Oldest(p, f) = Head(Link(f, p))
         /\ outbox'[f][p] = outbox[f][p] => Link(f, p)' = Tail(Link(f, p))
<1> DEFINE s == pipes[p][f]  m == outbox[f][p]
<1>1. s \in Seq(Message) /\ s # <<>> /\ pipes'[p][f] = Tail(s) /\ (m # NoMessage => m \in Message)
  BY DEF IpcTypeOK, receive
<1>2. m # NoMessage => /\ Append(s, m) # <<>>
                       /\ Head(Append(s, m)) = Head(s)
                       /\ Tail(Append(s, m)) = Append(Tail(s), m)
  BY <1>1
<1> QED
  BY <1>1, <1>2 DEF Link, Oldest

\* A receive() takes the oldest message of one link.
LEMMA LinkReceive ==
  ASSUME IpcTypeOK, NEW p \in Procs, NEW f \in Procs, receive(p, f), outbox' = outbox
  PROVE  \A a, b \in Procs : Link(a, b)' = IF a = f /\ b = p THEN Tail(Link(a, b)) ELSE Link(a, b)
<1> SUFFICES ASSUME NEW a \in Procs, NEW b \in Procs, ~(a = f /\ b = p) PROVE Link(a, b)' = Link(a, b)
  BY LinkOldest
<1>1. pipes'[b][a] = pipes[b][a]
  BY DEF IpcTypeOK, receive
<1> QED
  BY <1>1 DEF Link

\* NoMessage is none.
LEMMA NoMessageIsNone == NoMessage \notin Message
BY DEF NoMessage, Message, MessageType

\* The sends of a loop are under way as soon as it starts.
LEMMA LinkPost ==
  ASSUME IpcTypeOK, NEW p \in Procs, ~Sending(p), NEW D, NEW m \in Message, Post(p, D, m),
         pipes' = pipes
  PROVE  \A a, b \in Procs : Link(a, b)' = IF a = p /\ b \in D THEN Append(Link(a, b), m) ELSE Link(a, b)
<1> SUFFICES ASSUME NEW a \in Procs, NEW b \in Procs
             PROVE  Link(a, b)' = IF a = p /\ b \in D THEN Append(Link(a, b), m) ELSE Link(a, b)
  OBVIOUS
<1>1. outbox'[a][b] = IF a = p THEN IF b \in D THEN m ELSE NoMessage ELSE outbox[a][b]
  BY DEF Post, IpcTypeOK
<1>2. a = p => outbox[a][b] = NoMessage
  BY DEF Sending
<1> QED
  BY <1>1, <1>2, NoMessageIsNone DEF Link

\* A receive() answered at once.
LEMMA LinkReceiveSend ==
  ASSUME IpcTypeOK, NEW p \in Procs, NEW f \in Procs, p # f, ~Sending(p), receive(p, f),
         NEW m \in Message, send(p, f, m)
  PROVE  \A a, b \in Procs :
           Link(a, b)' = IF a = f /\ b = p THEN Tail(Link(a, b))
                         ELSE IF a = p /\ b = f THEN Append(Link(a, b), m)
                         ELSE Link(a, b)
<1> SUFFICES ASSUME NEW a \in Procs, NEW b \in Procs
             PROVE  Link(a, b)' = IF a = f /\ b = p THEN Tail(Link(a, b))
                                  ELSE IF a = p /\ b = f THEN Append(Link(a, b), m)
                                  ELSE Link(a, b)
  OBVIOUS
<1>1. outbox'[a][b] = IF a = p THEN IF b = f THEN m ELSE NoMessage ELSE outbox[a][b]
  BY DEF send, Post, IpcTypeOK
<1>2. a = p => outbox[a][b] = NoMessage
  BY DEF Sending
<1>3. CASE a = f /\ b = p
  BY <1>1, <1>3, LinkOldest
<1>4. CASE ~(a = f /\ b = p)
  <2>1. pipes'[b][a] = pipes[b][a]
    BY <1>4 DEF IpcTypeOK, receive
  <2> QED
    BY <1>1, <1>2, <1>4, <2>1, NoMessageIsNone DEF Link
<1> QED
  BY <1>3, <1>4

\* The same for a loop that sends each of D a message of its own.
LEMMA LinkPostEach ==
  ASSUME IpcTypeOK, NEW p \in Procs, ~Sending(p), NEW D, NEW m, \A d \in D : m[d] \in Message,
         PostEach(p, D, m), pipes' = pipes
  PROVE  /\ \A a, b \in Procs : Link(a, b)' = IF a = p /\ b \in D THEN Append(Link(a, b), m[b]) ELSE Link(a, b)
         /\ outbox' \in [Procs -> [Procs -> Message \cup {NoMessage}]]
         /\ \A a \in Procs \ {p} : outbox'[a] = outbox[a]
         /\ \A d \in Procs : outbox'[p][d] = IF d \in D THEN m[d] ELSE NoMessage
<1>1. outbox' = [outbox EXCEPT ![p] = [d \in Procs |-> IF d \in D THEN m[d] ELSE NoMessage]]
  BY DEF PostEach
<1>2. [d \in Procs |-> IF d \in D THEN m[d] ELSE NoMessage] \in [Procs -> Message \cup {NoMessage}]
  OBVIOUS
<1>3. outbox' \in [Procs -> [Procs -> Message \cup {NoMessage}]]
  BY <1>1, <1>2 DEF IpcTypeOK
<1>4. /\ \A a \in Procs \ {p} : outbox'[a] = outbox[a]
      /\ \A d \in Procs : outbox'[p][d] = IF d \in D THEN m[d] ELSE NoMessage
  BY <1>1 DEF IpcTypeOK
<1>5. ASSUME NEW a \in Procs, NEW b \in Procs
      PROVE  Link(a, b)' = IF a = p /\ b \in D THEN Append(Link(a, b), m[b]) ELSE Link(a, b)
  <2>1. outbox'[a][b] = IF a = p THEN IF b \in D THEN m[b] ELSE NoMessage ELSE outbox[a][b]
    BY <1>4
  <2>2. a = p => outbox[a][b] = NoMessage
    BY DEF Sending
  <2> QED
    BY <2>1, <2>2, NoMessageIsNone DEF Link
<1> QED
  BY <1>3, <1>4, <1>5

-----------------------------------------------------------------------------
(* Induction *)

\* A set of natural numbers that is not empty has a least element.
LEMMA Least ==
  ASSUME NEW S \in SUBSET Nat, S # {}
  PROVE  \E n \in S : \A m \in S : n <= m
<1>1. IsWellFoundedOn(OpToRel(<, Nat), Nat)
  BY NatLessThanWellFounded
<1>2. \E n \in S : \A m \in S : ~(<<m, n>> \in OpToRel(<, Nat))
  BY <1>1, WFMin
<1> DEFINE R == {ss \in Nat \X Nat : ss[1] < ss[2]}
<1>3. OpToRel(<, Nat) = R
  BY DEF OpToRel
<1>4. PICK n \in S : \A m \in S : <<m, n>> \notin R
  BY <1>2, <1>3, Zenon
<1>5. \A m \in S : ~(m < n)
  BY <1>4
<1> QED
  BY <1>5

\* A set that 0 is in, and k + 1 with every k below n, holds the numbers up to n.
LEMMA UpTo ==
  ASSUME NEW n \in Nat, NEW S, 0 \in S,
         \A k \in 0..n : k < n /\ k \in S => k + 1 \in S
  PROVE  \A k \in 0..n : k \in S
<1> DEFINE Missing == {k \in 0..n : k \notin S}
<1> SUFFICES ASSUME Missing # {} PROVE FALSE
  OBVIOUS
<1>1. PICK m \in Missing : \A k \in Missing : m <= k
  <2>1. Missing \in SUBSET Nat
    OBVIOUS
  <2> QED
    BY <2>1, Least
<1>2. m \in Nat /\ m # 0 /\ m <= n /\ m \notin S
  BY <1>1
<1>3. m - 1 \in 0..n /\ m - 1 < n /\ ~(m <= m - 1) /\ (m - 1) + 1 = m
  BY <1>2
<1>4. m - 1 \in S
  BY <1>1, <1>3
<1> QED
  BY <1>2, <1>3, <1>4

-----------------------------------------------------------------------------
(* The process skeleton *)

\* synchronize_time() moves a clock past its old value and past the message's.
LEMMA SynchronizedType ==
  ASSUME NEW now \in Nat, NEW t \in Nat
  PROVE  Synchronized(now, t) \in Nat /\ Synchronized(now, t) > now /\ Synchronized(now, t) > t
BY DEF Synchronized

-----------------------------------------------------------------------------
(* Types.  ChildTypeOK alone is not inductive: the end of an iteration needs *)
(* that the child is still within its iterations.                            *)

ChildInv ==
  /\ ChildTypeOK
  /\ \A p \in Children : pc[p] \in {"ask", "request", "cs"} => i[p] <= Iterations[p]

\* The state after the forks of main.c has its type.
LEMMA ChildInitType == ChildInit => ChildInv
<1> SUFFICES ASSUME ChildInit PROVE ChildInv
  OBVIOUS
<1> USE NAssumption, ChildAssumption
<1>1. IpcTypeOK
  BY DEF ChildInit, IpcInit, IpcTypeOK
<1>2. from \in [Procs -> 1..(N + 1)]
  BY DEF ChildInit, NextFrom, Procs, PARENT_ID
<1>3. pc \in [Procs -> Label]
  BY DEF ChildInit, Label
<1>4. /\ lamport_time \in [Procs -> Nat]
      /\ i \in [Children -> Nat]
      /\ \A p \in Children : i[p] \in 1..(Iterations[p] + 1)
      /\ awaiting_children \in [Children -> Int]
  BY DEF ChildInit
<1>5. \A p \in Children : pc[p] \notin {"ask", "request", "cs"}
  BY ProcsFacts DEF ChildInit
<1> QED
  BY <1>1, <1>2, <1>3, <1>4, <1>5 DEF ChildInv, ChildTypeOK

\* One round of ipc_ext_receive_all() keeps the types.
LEMMA ReceiveAllType ==
  ASSUME ChildInv, NEW p \in Procs, NEW type, NEW next \in Label \ {"ask", "request", "cs"},
         ReceiveAll(p, type, next)
  PROVE  ChildInv'
<1> USE NAssumption, ChildAssumption, ProcsFacts
<1> DEFINE m == Oldest(p, from[p])  f == NextFrom(p, from[p])
<1>1. from[p] \in Procs /\ from[p] \in 1..N
  BY DEF ReceiveAll, ChildInv, ChildTypeOK, Procs, PARENT_ID
<1>2. pipes' \in [Procs -> [Procs -> Seq(Message)]] /\ m.time \in Nat
  BY <1>1, ReceiveType DEF ReceiveAll, ChildInv, ChildTypeOK
<1>3. IpcTypeOK'
  BY <1>2 DEF ReceiveAll, ChildInv, ChildTypeOK, IpcTypeOK
<1>4. f \in 1..(N + 1) /\ NextFrom(p, PARENT_ID) \in 1..(N + 1)
  BY <1>1 DEF NextFrom, Procs, PARENT_ID
<1>5. lamport_time[p] \in Nat /\ Synchronized(lamport_time[p], m.time) \in Nat
  BY <1>2, SynchronizedType DEF ChildInv, ChildTypeOK
<1>6. lamport_time' \in [Procs -> Nat]
  BY <1>5 DEF ReceiveAll, ChildInv, ChildTypeOK
<1>7. from' \in [Procs -> 1..(N + 1)]
  BY <1>4 DEF ReceiveAll, ChildInv, ChildTypeOK
<1>8. /\ pc' \in [Procs -> Label]
      /\ \A q \in Procs : pc'[q] \in {"ask", "request", "cs"} => pc[q] = pc'[q]
  BY DEF ReceiveAll, ChildInv, ChildTypeOK, Goto, Label
<1> QED
  BY <1>3, <1>6, <1>7, <1>8 DEF ReceiveAll, ChildInv, ChildTypeOK

\* One write() of a send loop keeps the types, SIGPIPE included.
LEMMA WriteType ==
  ASSUME ChildInv, NEW p \in Procs, Write(p)
  PROVE  ChildInv'
<1>1. PICK d \in Procs : NextDst(p, d)
                         /\ IF HungUp(d)
                              THEN /\ outbox' = [outbox EXCEPT ![p] = [e \in Procs |-> NoMessage]]
                                   /\ Goto(p, "killed")
                                   /\ UNCHANGED pipes
                              ELSE /\ pipes' = [pipes EXCEPT ![d][p] = Append(@, outbox[p][d])]
                                   /\ outbox' = [outbox EXCEPT ![p][d] = NoMessage]
                                   /\ UNCHANGED pc
  BY DEF Write
<1>2. outbox[p][d] \in Message
  BY <1>1 DEF NextDst, ChildInv, ChildTypeOK, IpcTypeOK
<1>3. pipes[d][p] \in Seq(Message) /\ Append(pipes[d][p], outbox[p][d]) \in Seq(Message)
  BY <1>2 DEF ChildInv, ChildTypeOK, IpcTypeOK
<1>4. IpcTypeOK'
  <2>1. CASE HungUp(d)
    <3>1. outbox' = [outbox EXCEPT ![p] = [e \in Procs |-> NoMessage]] /\ pipes' = pipes
      BY <1>1, <2>1
    <3> QED
      BY <3>1 DEF ChildInv, ChildTypeOK, IpcTypeOK
  <2>2. CASE ~HungUp(d)
    <3>1. /\ pipes' = [pipes EXCEPT ![d][p] = Append(@, outbox[p][d])]
          /\ outbox' = [outbox EXCEPT ![p][d] = NoMessage]
      BY <1>1, <2>2
    <3>2. pipes' \in [Procs -> [Procs -> Seq(Message)]]
      BY <1>3, <3>1 DEF ChildInv, ChildTypeOK, IpcTypeOK
    <3>3. outbox' \in [Procs -> [Procs -> Message \cup {NoMessage}]]
      BY <3>1 DEF ChildInv, ChildTypeOK, IpcTypeOK
    <3> QED
      BY <3>2, <3>3 DEF IpcTypeOK
  <2> QED
    BY <2>1, <2>2
<1>5. /\ pc' \in [Procs -> Label]
      /\ \A q \in Procs : pc'[q] \in {"ask", "request", "cs"} => pc[q] = pc'[q]
  BY <1>1 DEF ChildInv, ChildTypeOK, Goto, Label
<1> QED
  BY <1>4, <1>5, ProcsFacts DEF Write, ChildInv, ChildTypeOK

\* Steps that only move pc, never into request_cs().
LEMMA MoveType ==
  ASSUME ChildInv, NEW p \in Procs, NEW l \in Label \ {"ask", "request", "cs"}, Goto(p, l),
         UNCHANGED <<pipes, outbox, lamport_time, from, i, awaiting_children>>
  PROVE  ChildInv'
<1>1. /\ pc' \in [Procs -> Label]
      /\ \A q \in Procs : pc'[q] \in {"ask", "request", "cs"} => pc[q] = pc'[q]
  BY DEF ChildInv, ChildTypeOK, Goto
<1> QED
  BY <1>1, ProcsFacts DEF ChildInv, ChildTypeOK, IpcTypeOK

\* The steps of child.c outside mutex.c keep the types.
LEMMA ChildStepType ==
  ASSUME ChildInv, NEW p \in Children, ChildStep(p)
  PROVE  ChildInv'
<1> USE NAssumption, ChildAssumption, ProcsFacts
<1>0. p \in Procs
  OBVIOUS
<1>a. /\ lamport_time[p] + 1 \in Nat
      /\ [type |-> "STARTED", time |-> lamport_time[p] + 1] \in Message
      /\ [type |-> "DONE", time |-> lamport_time[p] + 1] \in Message
  BY <1>0 DEF ChildInv, ChildTypeOK, Message, MessageType
<1>1. CASE Write(p)
  BY <1>0, <1>1, WriteType
<1>2. CASE Start(p)
  <2>1. lamport_time' \in [Procs -> Nat] /\ lamport_time'[p] = lamport_time[p] + 1
    BY <1>a, <1>2 DEF Start, ChildInv, ChildTypeOK
  <2>2. IpcTypeOK'
    BY <1>a, <1>2, <2>1, PostType DEF Start, ChildInv, ChildTypeOK, IpcTypeOK, send_multicast
  <2>3. /\ pc' \in [Procs -> Label]
        /\ \A q \in Procs : pc'[q] \in {"ask", "request", "cs"} => pc[q] = pc'[q]
    BY <1>2 DEF Start, ChildInv, ChildTypeOK, Goto, Label
  <2> QED
    BY <1>2, <2>1, <2>2, <2>3 DEF Start, ChildInv, ChildTypeOK
<1>3. CASE AwaitStarted(p)
  BY <1>0, <1>3, ReceiveAllType DEF AwaitStarted, Label
<1>4. CASE PlainIteration(p)
  <2>1. i' \in [Children -> Nat] /\ \A q \in Children : i'[q] \in 1..(Iterations[q] + 1)
    BY <1>4 DEF PlainIteration, HasIteration, ChildInv, ChildTypeOK
  <2>2. \A q \in Children : pc[q] \in {"ask", "request", "cs"} => i'[q] <= Iterations[q]
    BY <1>4 DEF PlainIteration, HasIteration, ChildInv, ChildTypeOK
  <2> QED
    BY <1>4, <2>1, <2>2 DEF PlainIteration, HasIteration, ChildInv, ChildTypeOK, IpcTypeOK
<1>5. CASE SendDone(p)
  <2>1. lamport_time' \in [Procs -> Nat] /\ lamport_time'[p] = lamport_time[p] + 1
    BY <1>a, <1>5 DEF SendDone, ChildInv, ChildTypeOK
  <2>2. IpcTypeOK'
    BY <1>a, <1>5, <2>1, PostType DEF SendDone, ChildInv, ChildTypeOK, IpcTypeOK, send_multicast
  <2>3. /\ pc' \in [Procs -> Label]
        /\ \A q \in Procs : pc'[q] \in {"ask", "request", "cs"} => pc[q] = pc'[q]
    BY <1>5 DEF SendDone, ChildInv, ChildTypeOK, Goto, Label
  <2> QED
    BY <1>5, <2>1, <2>2, <2>3 DEF SendDone, ChildInv, ChildTypeOK
<1>6. CASE Exit(p)
  BY <1>0, <1>6, MoveType DEF Exit, Label
<1>7. CASE SpinOnEof(p)
  BY <1>0, <1>7, MoveType DEF SpinOnEof, Label
<1> QED
  BY <1>1, <1>2, <1>3, <1>4, <1>5, <1>6, <1>7 DEF ChildStep

\* The steps of the parent keep the types.
LEMMA ParentStepType ==
  ASSUME ChildInv, ParentStep
  PROVE  ChildInv'
<1>1. CASE ParentAwaitStarted
  BY <1>1, ReceiveAllType, ProcsFacts DEF ParentAwaitStarted, Label
<1>2. CASE ParentAwaitDone
  BY <1>2, ReceiveAllType, ProcsFacts DEF ParentAwaitDone, Label
<1>3. CASE ParentExit
  BY <1>3, MoveType, ProcsFacts DEF ParentExit, Label
<1>4. CASE ParentSetUp
  BY <1>4, MoveType, ProcsFacts DEF ParentSetUp, Label
<1> QED
  BY <1>1, <1>2, <1>3, <1>4 DEF ParentStep

\* What a receive loop takes from a pipe is a message, and the rest stays typed.
LEMMA TakeType ==
  ASSUME ChildTypeOK, NEW p \in Children, NEW f \in Procs, NEW label, NEW types,
         Take(p, f, label, types)
  PROVE  /\ pipes' \in [Procs -> [Procs -> Seq(Message)]]
         /\ Oldest(p, f).time \in Nat
         /\ lamport_time[p] \in Nat
         /\ Synchronized(lamport_time[p], Oldest(p, f).time) \in Nat
         /\ Synchronized(lamport_time[p], Oldest(p, f).time) + 1 \in Nat
         /\ [type |-> "CS_REPLY", time |-> Synchronized(lamport_time[p], Oldest(p, f).time) + 1] \in Message
         /\ from' = from /\ i' = i
<1>1. p \in Procs
  BY ProcsFacts
<1>2. pipes' \in [Procs -> [Procs -> Seq(Message)]] /\ Oldest(p, f).time \in Nat
  BY <1>1, ReceiveType DEF Take, ChildTypeOK
<1>3. lamport_time[p] \in Nat
  BY <1>1 DEF ChildTypeOK
<1>4. Synchronized(lamport_time[p], Oldest(p, f).time) \in Nat
  BY <1>2, <1>3, SynchronizedType
<1>5. [type |-> "CS_REPLY", time |-> Synchronized(lamport_time[p], Oldest(p, f).time) + 1] \in Message
  BY <1>4 DEF Message, MessageType
<1> QED
  BY <1>2, <1>3, <1>4, <1>5 DEF Take

\* Counting a DONE, or failing on another message, keeps the types.
LEMMA CountDoneType ==
  ASSUME ChildTypeOK, NEW p \in Children, NEW m, NEW next \in Label,
         CountDone(p, m, next), next \in {"ask", "request"} => pc[p] = "request", next # "cs"
  PROVE  /\ pc' \in [Procs -> Label]
         /\ \A c \in Children : pc'[c] \in {"ask", "request", "cs"} => pc[c] \in {"ask", "request", "cs"}
         /\ awaiting_children' \in [Children -> Int]
BY ProcsFacts DEF CountDone, Goto, Label, ChildTypeOK

\* A DONE, or a message out of place, that ends handle_cs_requests() keeps the types.
LEMMA DrainTakesOtherType ==
  ASSUME ChildInv, NEW p \in Children, NEW f \in Procs, NEW types, DrainTakesOther(p, f, types)
  PROVE  ChildInv'
<1> USE ProcsFacts
<1>0. "drain" \in Label /\ "sleep" \in Label
  BY DEF Label
<1>1. IpcTypeOK' /\ lamport_time' \in [Procs -> Nat]
  BY TakeType DEF DrainTakesOther, ChildInv, ChildTypeOK, IpcTypeOK
<1>2. /\ pc' \in [Procs -> Label]
      /\ \A c \in Children : pc'[c] \in {"ask", "request", "cs"} => pc[c] \in {"ask", "request", "cs"}
      /\ awaiting_children' \in [Children -> Int]
  BY <1>0, CountDoneType DEF DrainTakesOther, ChildInv
<1> QED
  BY <1>1, <1>2, TakeType DEF DrainTakesOther, ChildInv, ChildTypeOK

-----------------------------------------------------------------------------
(* The times of the messages under way *)

\* The times of s increase and none is after now.
Ascending(s, now) ==
  \A k \in 1..Len(s) :
    /\ s[k].time <= now
    /\ k > 1 => s[k - 1].time < s[k].time

\* One step changes what is under way from s to t, while the sender's clock goes from
\* now to later: nothing, a receive, a send that is lost or a new send.
LinkStep(s, t, now, later) ==
  \/ t = s
  \/ s # <<>> /\ t = Tail(s)
  \/ \E m \in Message : s = Append(t, m)
  \/ \E m \in Message : t = Append(s, m) /\ now < m.time /\ m.time <= later

\* Such a step keeps the times increasing.
LEMMA AscendingStep ==
  ASSUME NEW s \in Seq(Message), NEW t \in Seq(Message), NEW now \in Nat, NEW later \in Nat,
         now <= later, Ascending(s, now), LinkStep(s, t, now, later)
  PROVE  Ascending(t, later)
<1>0. /\ Len(s) \in Nat /\ Len(t) \in Nat
      /\ \A k \in 1..Len(s) : s[k].time \in Nat
  <2>1. \A k \in 1..Len(s) : s[k] \in Message
    OBVIOUS
  <2>2. Len(s) \in Nat /\ Len(t) \in Nat
    OBVIOUS
  <2>3. \A m \in Message : m.time \in Nat
    BY DEF Message
  <2> QED
    BY ONLY <2>1, <2>2, <2>3
<1>1. CASE t = s
  BY <1>0, <1>1 DEF Ascending
<1>2. CASE s # <<>> /\ t = Tail(s)
  <2>1. /\ Len(s) \in Nat \ {0} /\ Len(t) = Len(s) - 1
        /\ \A k \in 1..Len(t) : t[k] = s[k + 1]
    BY <1>2
  <2> SUFFICES ASSUME NEW k \in 1..Len(t)
               PROVE  t[k].time <= later /\ (k > 1 => t[k - 1].time < t[k].time)
    BY DEF Ascending
  <2>2. k + 1 \in 1..Len(s) /\ k \in 1..Len(s) /\ t[k] = s[k + 1]
        /\ (k > 1 => t[k - 1] = s[k])
    BY <1>0, <2>1
  <2>3. s[k + 1].time <= now /\ s[(k + 1) - 1].time < s[k + 1].time
    BY <1>0, <2>2 DEF Ascending
  <2> QED
    BY <1>0, <2>2, <2>3
<1>3. ASSUME NEW m \in Message, s = Append(t, m) PROVE Ascending(t, later)
  <2>1. /\ Len(t) \in Nat /\ Len(s) = Len(t) + 1
        /\ \A k \in 1..Len(t) : t[k] = s[k]
    BY <1>3
  <2> SUFFICES ASSUME NEW k \in 1..Len(t)
               PROVE  t[k].time <= later /\ (k > 1 => t[k - 1].time < t[k].time)
    BY DEF Ascending
  <2>2. k \in 1..Len(s) /\ t[k] = s[k] /\ (k > 1 => k - 1 \in 1..Len(t))
    BY <1>0, <2>1
  <2>3. s[k].time <= now /\ (k > 1 => s[k - 1].time < s[k].time)
    BY <2>2 DEF Ascending
  <2>4. k > 1 => t[k - 1] = s[k - 1]
    BY <2>1, <2>2
  <2> QED
    BY <1>0, <2>2, <2>3, <2>4
<1>4. ASSUME NEW m \in Message, t = Append(s, m), now < m.time, m.time <= later
      PROVE  Ascending(t, later)
  <2>1. /\ Len(s) \in Nat /\ Len(t) = Len(s) + 1
        /\ \A k \in 1..Len(s) : t[k] = s[k]
        /\ t[Len(s) + 1] = m
        /\ m.time \in Nat
    BY <1>4 DEF Message
  <2> SUFFICES ASSUME NEW k \in 1..Len(t)
               PROVE  t[k].time <= later /\ (k > 1 => t[k - 1].time < t[k].time)
    BY DEF Ascending
  <2>2. CASE k \in 1..Len(s)
    <3>1. s[k].time <= now /\ (k > 1 => s[k - 1].time < s[k].time)
      BY <2>2 DEF Ascending
    <3>2. t[k] = s[k] /\ (k > 1 => k - 1 \in 1..Len(s))
      BY <1>0, <2>1, <2>2
    <3>3. k > 1 => t[k - 1] = s[k - 1]
      BY <2>1, <3>2
    <3> QED
      BY <1>0, <2>2, <3>1, <3>2, <3>3
  <2>3. CASE k = Len(s) + 1
    <3>1. k > 1 => k - 1 \in 1..Len(s) /\ t[k - 1] = s[k - 1]
      BY <2>1, <2>3
    <3> QED
      BY <1>0, <1>4, <2>1, <2>3, <3>1 DEF Ascending
  <2> QED
    BY <2>1, <2>2, <2>3
<1> QED
  BY <1>1, <1>2, <1>3, <1>4 DEF LinkStep

\* A step that sends only messages later than the sender's clock keeps ClocksIncrease.
LEMMA ClocksStep ==
  ASSUME ChildTypeOK, ChildTypeOK', ClocksIncrease,
         \A a \in Procs : lamport_time[a] <= lamport_time'[a],
         \A a, b \in Procs : LinkStep(Link(a, b), Link(a, b)', lamport_time[a], lamport_time'[a])
  PROVE  ClocksIncrease'
<1> SUFFICES ASSUME NEW a \in Procs, NEW b \in Procs
             PROVE  Ascending(Link(a, b)', lamport_time'[a])
  BY DEF ClocksIncrease, Ascending
<1>1. Link(a, b) \in Seq(Message)
  BY LinkType DEF ChildTypeOK
<1>2. Link(a, b)' \in Seq(Message)
  <2>1. IpcTypeOK'
    BY DEF ChildTypeOK
  <2> QED
    BY <2>1 DEF IpcTypeOK, Link
<1>3. lamport_time[a] \in Nat /\ lamport_time'[a] \in Nat
  BY DEF ChildTypeOK
<1>4. Ascending(Link(a, b), lamport_time[a])
  BY DEF ClocksIncrease, Ascending
<1> QED
  BY <1>1, <1>2, <1>3, <1>4, AscendingStep

\* No message is under way at first.
LEMMA ClocksInit == ChildInit => ClocksIncrease
BY DEF ChildInit, IpcInit, Link, ClocksIncrease

\* A write() changes nothing under way, unless the writer is killed.
LEMMA LinkStepWrite ==
  ASSUME IpcTypeOK, NEW p \in Procs, Write(p)
  PROVE  \/ pc' = pc /\ \A a, b \in Procs : Link(a, b)' = Link(a, b)
         \/ /\ Goto(p, "killed")
            /\ \A a, b \in Procs :
                 \/ Link(a, b)' = Link(a, b)
                 \/ a = p /\ \E m \in Message : Link(a, b) = Append(Link(a, b)', m)
<1>1. PICK d \in Procs : NextDst(p, d)
                         /\ IF HungUp(d)
                              THEN /\ outbox' = [outbox EXCEPT ![p] = [e \in Procs |-> NoMessage]]
                                   /\ Goto(p, "killed")
                                   /\ UNCHANGED pipes
                              ELSE /\ pipes' = [pipes EXCEPT ![d][p] = Append(@, outbox[p][d])]
                                   /\ outbox' = [outbox EXCEPT ![p][d] = NoMessage]
                                   /\ UNCHANGED pc
  BY DEF Write
<1>2. CASE HungUp(d)
  <2> SUFFICES ASSUME NEW a \in Procs, NEW b \in Procs
               PROVE  \/ Link(a, b)' = Link(a, b)
                      \/ a = p /\ \E m \in Message : Link(a, b) = Append(Link(a, b)', m)
    BY <1>1, <1>2
  <2>1. pipes' = pipes /\ outbox'[a][b] = IF a = p THEN NoMessage ELSE outbox[a][b]
    BY <1>1, <1>2 DEF IpcTypeOK
  <2>2. outbox[a][b] \in Message \cup {NoMessage}
    BY DEF IpcTypeOK
  <2> QED
    BY <2>1, <2>2 DEF Link
<1>3. CASE ~HungUp(d)
  BY <1>1, <1>3, LinkWrite DEF NextDst
<1> QED
  BY <1>2, <1>3

\* A receive() advances the reader's clock and leaves the other links alone.
LEMMA ClocksReceive ==
  ASSUME ChildTypeOK, ChildTypeOK', ClocksIncrease,
         NEW p \in Procs, NEW f \in Procs, receive(p, f), outbox' = outbox,
         \A a \in Procs : lamport_time[a] <= lamport_time'[a]
  PROVE  ClocksIncrease'
<1>1. Link(f, p) # <<>>
  BY LinkOldest DEF ChildTypeOK
<1>2. \A a, b \in Procs : Link(a, b)' = IF a = f /\ b = p THEN Tail(Link(a, b)) ELSE Link(a, b)
  BY LinkReceive DEF ChildTypeOK
<1>3. \A a, b \in Procs : LinkStep(Link(a, b), Link(a, b)', lamport_time[a], lamport_time'[a])
  BY <1>1, <1>2 DEF LinkStep
<1> QED
  BY <1>3, ClocksStep

\* So does a send loop whose messages have the time to which the clock advances.
LEMMA ClocksPost ==
  ASSUME ChildTypeOK, ChildTypeOK', ClocksIncrease,
         NEW p \in Procs, ~Sending(p), pipes' = pipes,
         NEW D, NEW m \in Message, Post(p, D, m),
         lamport_time' = [lamport_time EXCEPT ![p] = @ + 1], m.time = lamport_time[p] + 1
  PROVE  ClocksIncrease'
<1>1. \A a, b \in Procs : Link(a, b)' = IF a = p /\ b \in D THEN Append(Link(a, b), m) ELSE Link(a, b)
  BY LinkPost DEF ChildTypeOK
<1>2. /\ \A a \in Procs : lamport_time[a] \in Nat /\ lamport_time[a] <= lamport_time'[a]
      /\ lamport_time'[p] = lamport_time[p] + 1
  BY DEF ChildTypeOK
<1>3. \A a, b \in Procs : LinkStep(Link(a, b), Link(a, b)', lamport_time[a], lamport_time'[a])
  BY <1>1, <1>2 DEF LinkStep
<1> QED
  BY <1>2, <1>3, ClocksStep

\* Nothing is sent or received.
LEMMA ClocksStutter ==
  ASSUME ChildTypeOK, ChildTypeOK', ClocksIncrease,
         \A a, b \in Procs : Link(a, b)' = Link(a, b),
         \A a \in Procs : lamport_time[a] <= lamport_time'[a]
  PROVE  ClocksIncrease'
BY ClocksStep DEF LinkStep

\* The steps outside mutex.c keep the times increasing.
LEMMA ReceiveAllClocks ==
  ASSUME ChildInv, ChildInv', ClocksIncrease, NEW p \in Procs, NEW type, NEW next,
         ReceiveAll(p, type, next)
  PROVE  ClocksIncrease'
<1>1. from[p] \in Procs
  BY NAssumption, SMTT(30) DEF ReceiveAll, ChildInv, ChildTypeOK, Procs, PARENT_ID
<1>2. /\ lamport_time \in [Procs -> Nat] /\ Oldest(p, from[p]).time \in Nat
      /\ Synchronized(lamport_time[p], Oldest(p, from[p]).time) \in Nat
      /\ Synchronized(lamport_time[p], Oldest(p, from[p]).time) > lamport_time[p]
  BY <1>1, ReceiveType, SynchronizedType DEF ReceiveAll, ChildInv, ChildTypeOK
<1>3. \A a \in Procs : lamport_time[a] <= lamport_time'[a]
  BY <1>2 DEF ReceiveAll
<1> QED
  BY <1>1, <1>3, ClocksReceive DEF ReceiveAll, ChildInv

\* The steps of child.c outside mutex.c keep the times increasing.
LEMMA ChildStepClocks ==
  ASSUME ChildInv, ChildInv', ClocksIncrease, NEW p \in Children, ChildStep(p)
  PROVE  ClocksIncrease'
<1> USE ProcsFacts
<1>0. /\ ChildTypeOK /\ ChildTypeOK' /\ IpcTypeOK
      /\ \A a \in Procs : lamport_time[a] \in Nat
  BY DEF ChildInv, ChildTypeOK
<1>a. lamport_time' = lamport_time => \A a \in Procs : lamport_time[a] <= lamport_time'[a]
  BY <1>0
<1>b. /\ [type |-> "STARTED", time |-> lamport_time[p] + 1] \in Message
      /\ [type |-> "DONE", time |-> lamport_time[p] + 1] \in Message
  BY <1>0 DEF Message, MessageType
<1>c. pipes' = pipes /\ outbox' = outbox => \A a, b \in Procs : Link(a, b)' = Link(a, b)
  BY DEF Link
<1>1. CASE Write(p)
  <2>1. lamport_time' = lamport_time
    BY <1>1 DEF Write
  <2>2. \A a, b \in Procs : LinkStep(Link(a, b), Link(a, b)', lamport_time[a], lamport_time'[a])
    BY <1>0, <1>1, LinkStepWrite DEF LinkStep
  <2> QED
    BY <1>0, <1>a, <2>1, <2>2, ClocksStep
<1>2. CASE Start(p)
  <2>1. lamport_time' = [lamport_time EXCEPT ![p] = @ + 1] /\ lamport_time'[p] = lamport_time[p] + 1
    BY <1>2 DEF Start, ChildInv, ChildTypeOK
  <2> QED
    BY <1>0, <1>b, <1>2, <2>1, ClocksPost DEF Start, send_multicast
<1>3. CASE AwaitStarted(p)
  BY <1>3, ReceiveAllClocks DEF AwaitStarted
<1>4. CASE PlainIteration(p)
  BY <1>0, <1>a, <1>c, <1>4, ClocksStutter DEF PlainIteration
<1>5. CASE SendDone(p)
  <2>1. lamport_time' = [lamport_time EXCEPT ![p] = @ + 1] /\ lamport_time'[p] = lamport_time[p] + 1
    BY <1>5 DEF SendDone, ChildInv, ChildTypeOK
  <2> QED
    BY <1>0, <1>b, <1>5, <2>1, ClocksPost DEF SendDone, send_multicast
<1>6. CASE Exit(p)
  BY <1>0, <1>a, <1>c, <1>6, ClocksStutter DEF Exit
<1>7. CASE SpinOnEof(p)
  BY <1>0, <1>a, <1>c, <1>7, ClocksStutter DEF SpinOnEof
<1> QED
  BY <1>1, <1>2, <1>3, <1>4, <1>5, <1>6, <1>7 DEF ChildStep

\* The steps of the parent keep the times increasing.
LEMMA ParentStepClocks ==
  ASSUME ChildInv, ChildInv', ClocksIncrease, ParentStep
  PROVE  ClocksIncrease'
<1> USE ProcsFacts
<1>0. /\ ChildTypeOK /\ ChildTypeOK'
      /\ \A a \in Procs : lamport_time[a] \in Nat
  BY DEF ChildInv, ChildTypeOK
<1>1. CASE UNCHANGED <<pipes, outbox, lamport_time>>
  BY <1>0, <1>1, ClocksStutter DEF Link
<1>2. CASE ParentAwaitStarted \/ ParentAwaitDone
  BY <1>2, ReceiveAllClocks DEF ParentAwaitStarted, ParentAwaitDone
<1> QED
  BY <1>1, <1>2 DEF ParentStep, ParentSetUp, ParentExit

\* What a receive loop takes never carries the reader's clock back.
LEMMA TakeClocks ==
  ASSUME ChildTypeOK, ChildTypeOK', ClocksIncrease,
         NEW p \in Children, NEW f \in Procs, NEW label, NEW types, Take(p, f, label, types),
         outbox' = outbox,
         \/ lamport_time' = lamport_time
         \/ lamport_time' = [lamport_time EXCEPT ![p] = Synchronized(@, Oldest(p, f).time)]
         \/ lamport_time' = [lamport_time EXCEPT ![p] = Synchronized(@, Oldest(p, f).time) + 1]
  PROVE  ClocksIncrease'
<1> USE ProcsFacts
<1>1. /\ lamport_time \in [Procs -> Nat] /\ Oldest(p, f).time \in Nat
      /\ Synchronized(lamport_time[p], Oldest(p, f).time) \in Nat
      /\ Synchronized(lamport_time[p], Oldest(p, f).time) > lamport_time[p]
  BY TakeType, SynchronizedType DEF ChildTypeOK
<1>2. \A a \in Procs : lamport_time[a] <= lamport_time'[a]
  BY <1>1
<1> QED
  BY <1>2, ClocksReceive DEF Take

\* Neither does a request that is answered at once.
LEMMA AnswerClocks ==
  ASSUME ChildTypeOK, ChildTypeOK', ClocksIncrease,
         NEW p \in Children, NEW f \in Procs \ {p}, NEW label, NEW types, Take(p, f, label, types),
         NEW t, t = Synchronized(lamport_time[p], Oldest(p, f).time) + 1,
         lamport_time' = [lamport_time EXCEPT ![p] = t],
         send(p, f, [type |-> "CS_REPLY", time |-> t])
  PROVE  ClocksIncrease'
<1> USE ProcsFacts
<1> DEFINE m == [type |-> "CS_REPLY", time |-> t]
<1>1. /\ lamport_time \in [Procs -> Nat] /\ Oldest(p, f).time \in Nat
      /\ Synchronized(lamport_time[p], Oldest(p, f).time) \in Nat
      /\ Synchronized(lamport_time[p], Oldest(p, f).time) > lamport_time[p]
  BY TakeType, SynchronizedType DEF ChildTypeOK
<1>2. t \in Nat /\ lamport_time[p] < t /\ lamport_time'[p] = t
  BY <1>1
<1>3. \A a \in Procs : lamport_time[a] <= lamport_time'[a]
  BY <1>1, <1>2
<1>4. m \in Message /\ m.time = t
  BY <1>2 DEF Message, MessageType
<1>5. Link(f, p) # <<>>
  BY LinkOldest DEF ChildTypeOK, Take
<1> HIDE DEF m
<1>6. \A a, b \in Procs :
        Link(a, b)' = IF a = f /\ b = p THEN Tail(Link(a, b))
                      ELSE IF a = p /\ b = f THEN Append(Link(a, b), m)
                      ELSE Link(a, b)
  BY <1>4, LinkReceiveSend, SMTT(30) DEF ChildTypeOK, Take, m
<1>7. \A a, b \in Procs : LinkStep(Link(a, b), Link(a, b)', lamport_time[a], lamport_time'[a])
  BY <1>1, <1>2, <1>4, <1>5, <1>6, SMTT(30) DEF LinkStep
<1> QED
  BY <1>3, <1>7, ClocksStep

-----------------------------------------------------------------------------
(* The service of Mutex *)

\* At the start every child is outside.
LEMMA ServiceInit == ChildInit => Service!Init
BY ProcsFacts DEF ChildInit, Service!Init, ClientStatus, Live, InCS

\* A step of one child that changes its status the way a client of Mutex may; when it
\* enters, mutual exclusion after the step says that nobody was inside before.
LEMMA ServiceStep ==
  ASSUME NEW p \in Children, MutualExclusion',
         \A c \in Children \ {p} : ClientStatus'[c] = ClientStatus[c],
         \/ ClientStatus'[p] = ClientStatus[p]
         \/ ClientStatus[p] = "out" /\ ClientStatus'[p] \in {"waiting", "dead"}
         \/ ClientStatus[p] = "waiting" /\ ClientStatus'[p] \in {"in", "dead"}
         \/ ClientStatus[p] = "in" /\ ClientStatus'[p] = "out"
  PROVE  [Service!Next]_ClientStatus
<1> DEFINE s == ClientStatus  t == ClientStatus'
<1>1. /\ s = [c \in Children |-> s[c]] /\ t = [c \in Children |-> t[c]]
      /\ \A c \in Children : t[c] = "in" <=> Live(c)' /\ InCS(c)'
  BY DEF ClientStatus
<1>2. ASSUME s[p] = "waiting", t[p] = "in"
      PROVE  \A d \in Children : s[d] # "in"
  <2> SUFFICES ASSUME NEW d \in Children, s[d] = "in" PROVE FALSE
    OBVIOUS
  <2>1. d # p /\ t[d] = "in"
    BY <1>2
  <2> QED
    BY <1>1, <1>2, <2>1 DEF MutualExclusion
<1> HIDE DEF s, t
<1>3. t = [s EXCEPT ![p] = t[p]]
  BY <1>1 DEF s, t
<1>4. CASE t[p] = s[p]
  BY <1>1, <1>3, <1>4 DEF s, t
<1>5. CASE \/ s[p] = "out" /\ t[p] \in {"waiting", "dead"}
           \/ s[p] = "waiting" /\ t[p] \in {"in", "dead"}
           \/ s[p] = "in" /\ t[p] = "out"
  BY <1>2, <1>3, <1>5 DEF s, t, Service!Next, Service!Request, Service!Enter, Service!Leave,
                          Service!Die, Service!Move
<1> QED
  BY <1>4, <1>5 DEF s, t

\* What a step leaves of pc and of the outbox it leaves of the status.
LEMMA StatusFrame ==
  ASSUME NEW c \in Children, pc'[c] = pc[c], outbox'[c] = outbox[c]
  PROVE  ClientStatus'[c] = ClientStatus[c]
BY DEF ClientStatus, Live, InCS, Sending

\* The steps of child.c outside mutex.c touch no other child.
LEMMA ChildStepFrame ==
  ASSUME ChildTypeOK, NEW p \in Children, ChildStep(p)
  PROVE  \A c \in Procs \ {p} : pc'[c] = pc[c] /\ outbox'[c] = outbox[c]
<1> USE ProcsFacts
<1>1. CASE Write(p)
  BY <1>1 DEF Write, Goto, ChildTypeOK, IpcTypeOK
<1>2. CASE Start(p)
  BY <1>2 DEF Start, Goto, send_multicast, Post, ChildTypeOK, IpcTypeOK
<1>3. CASE AwaitStarted(p)
  BY <1>3 DEF AwaitStarted, ReceiveAll, Goto, ChildTypeOK
<1>4. CASE PlainIteration(p)
  BY <1>4 DEF PlainIteration
<1>5. CASE SendDone(p)
  BY <1>5 DEF SendDone, Goto, send_multicast, Post, ChildTypeOK, IpcTypeOK
<1>6. CASE Exit(p) \/ SpinOnEof(p)
  BY <1>6 DEF Exit, SpinOnEof, Goto, ChildTypeOK
<1> QED
  BY <1>1, <1>2, <1>3, <1>4, <1>5, <1>6 DEF ChildStep

\* What they do is what a client of Mutex may do.
LEMMA ChildStepService ==
  ASSUME ChildTypeOK, MutualExclusion', NEW p \in Children, ChildStep(p)
  PROVE  [Service!Next]_ClientStatus
<1> USE ProcsFacts
<1> DEFINE s == ClientStatus  t == ClientStatus'
           Status(l, sending) == IF l \in {"exited", "killed", "failed", "spin"} THEN "dead"
                                 ELSE IF l = "cs" /\ ~sending THEN "in"
                                 ELSE IF l \in {"ask", "request", "cs"} THEN "waiting"
                                 ELSE "out"
<1>0. pc \in [Procs -> Label]
  BY DEF ChildTypeOK
<1>1. s[p] = Status(pc[p], Sending(p)) /\ t[p] = Status(pc'[p], Sending(p)')
  BY DEF ClientStatus, Live, InCS
<1>2. \A c \in Children \ {p} : t[c] = s[c]
  BY ChildStepFrame, StatusFrame
<1>3. CASE Write(p)
  <2>1. Sending(p) /\ (pc'[p] = pc[p] \/ pc'[p] = "killed")
    BY <1>0, <1>3 DEF Write, NextDst, Sending, Goto
  <2>2. s[p] # "in"
    BY <1>1, <2>1
  <2>3. t[p] = s[p] \/ t[p] = "dead" \/ (s[p] = "waiting" /\ t[p] = "in")
    BY <1>1, <2>1
  <2>4. s[p] \in {"dead", "waiting", "out"}
    BY <1>1, <2>2
  <2> QED
    BY <1>2, <2>3, <2>4, ServiceStep
<1>4. CASE Start(p)
  <2>1. pc[p] = "start" /\ pc'[p] \in {"loop", "await_started"}
    BY <1>0, <1>4 DEF Start, Goto
  <2> QED
    BY <1>1, <1>2, <2>1, ServiceStep
<1>5. CASE AwaitStarted(p)
  <2>1. pc[p] = "await_started" /\ pc'[p] \in {"await_started", "loop", "failed"}
    BY <1>0, <1>5 DEF AwaitStarted, ReceiveAll, Goto
  <2> QED
    BY <1>1, <1>2, <2>1, ServiceStep
<1>6. CASE PlainIteration(p)
  <2>1. pc[p] = "loop" /\ pc'[p] = "loop"
    BY <1>6 DEF PlainIteration
  <2> QED
    BY <1>1, <1>2, <2>1, ServiceStep
<1>7. CASE SendDone(p)
  <2>1. pc[p] = "loop" /\ pc'[p] \in {"drain", "sleep"}
    BY <1>0, <1>7 DEF SendDone, Goto
  <2> QED
    BY <1>1, <1>2, <2>1, ServiceStep
<1>8. CASE Exit(p)
  <2>1. pc[p] = "sleep" /\ pc'[p] = "exited"
    BY <1>0, <1>8 DEF Exit, Goto
  <2> QED
    BY <1>1, <1>2, <2>1, ServiceStep
<1>9. CASE SpinOnEof(p)
  <2>1. pc[p] \in {"request", "drain"} /\ pc'[p] = "spin"
    BY <1>0, <1>9 DEF SpinOnEof, Goto
  <2> QED
    BY <1>1, <1>2, <2>1, ServiceStep
<1> QED
  BY <1>3, <1>4, <1>5, <1>6, <1>7, <1>8, <1>9 DEF ChildStep

\* The parent is not a client.
LEMMA ParentStepService ==
  ASSUME ChildTypeOK, ParentStep
  PROVE  ClientStatus' = ClientStatus
<1> USE ProcsFacts
<1>1. \A c \in Children : pc'[c] = pc[c]
  BY DEF ParentStep, ParentSetUp, ParentAwaitStarted, ParentAwaitDone, ParentExit, ReceiveAll, Goto,
         ChildTypeOK
<1>2. outbox' = outbox
  BY DEF ParentStep, ParentSetUp, ParentAwaitStarted, ParentAwaitDone, ParentExit, ReceiveAll
<1> QED
  BY <1>1, <1>2 DEF ClientStatus, Live, InCS, Sending

-----------------------------------------------------------------------------
(* STARTED and DONE.  With --mutexl a child waits for the DONE of all the    *)
(* others, so nobody leaves while somebody may still write to it.            *)

\* p has sent DONE to everybody, or is about to.
Finished(p) == pc[p] \in {"drain", "sleep", "exited", "spin"}

\* p has received the STARTED of q.
Greeted(p, q) == q < from[p] \/ pc[p] \notin {"start", "spawn", "await_started"}

\* The DONE of q is still to be received by p.
DoneComing(q, p) == ~Finished(q) \/ Carries(q, p, "DONE")

\* The children whose DONE p has not received.
Awaited(p) == {q \in Children \ {p} : DoneComing(q, p)}

StartedFirst(s) == s # <<>> /\ Head(s).type = "STARTED" /\ ~Contains(Tail(s), "STARTED")

AtMostOneDone(s) == \A k, l \in 1..Len(s) : s[k].type = "DONE" /\ s[l].type = "DONE" => k = l

\* Where a child and the parent can be as long as nothing goes wrong.
GoodLabels ==
  /\ pc[PARENT_ID] \in {"spawn", "await_started", "await_done", "wait", "exited"}
  /\ \A p \in Children : pc[p] \in {"start", "await_started", "loop", "ask", "request", "cs",
                                    "drain", "sleep", "exited", "spin"}

\* The parent gets STARTED and DONE only, and sends nothing.
ParentMail ==
  \A p \in Procs : /\ Link(PARENT_ID, p) = <<>>
                   /\ \A x \in {"CS_REQUEST", "CS_REPLY", "CS_RELEASE"} : ~Carries(p, PARENT_ID, x)

\* STARTED is the first message of q to p, and DONE is sent once.
Phases(q, p) ==
  /\ Greeted(p, q) => pc[q] # "start" /\ ~Carries(q, p, "STARTED")
  /\ ~Greeted(p, q) => IF pc[q] = "start" THEN Link(q, p) = <<>> ELSE StartedFirst(Link(q, p))
  /\ AtMostOneDone(Link(q, p))
  /\ ~Finished(q) => ~Carries(q, p, "DONE")

LinkPhases == \A p \in Procs : from[p] # p /\ \A q \in Children \ {p} : Phases(q, p)

\* awaiting_children is what its name says, and it is what drain waits for.
DoneAccounting ==
  \A p \in Children :
    /\ awaiting_children[p] = Cardinality(Awaited(p))
    /\ pc[p] = "drain" => awaiting_children[p] > 0
    /\ pc[p] \in {"sleep", "exited"} => awaiting_children[p] = 0

\* A child that has finished sends nothing but its DONE and replies; one that has left,
\* nothing.
LastSends ==
  \A p \in Children :
    Finished(p) =>
      /\ i[p] > Iterations[p]
      /\ \A d \in Procs : outbox[p][d] # NoMessage =>
           pc[p] \in {"drain", "sleep"} /\ outbox[p][d].type \in {"DONE", "CS_REPLY"}

\* The parent leaves last, and only the end of the program closes a pipe that is polled.
LastToLeave ==
  /\ pc[PARENT_ID] = "exited" => \A p \in Children : pc[p] = "exited"
  /\ \A p \in Children : pc[p] = "spin" => \A q \in Children : Finished(q)

SkeletonInv ==
  /\ GoodLabels
  /\ ParentMail
  /\ LinkPhases
  /\ DoneAccounting
  /\ LastSends
  /\ LastToLeave

\* Only a child that waits for it is sent a reply.
RepliesAwaited ==
  \A p, q \in Children : p # q /\ Carries(p, q, "CS_REPLY") => pc[q] # "exited"

\* What a receive makes of the place of STARTED and DONE.
LEMMA PhaseTail ==
  ASSUME NEW s \in Seq(Message), s # <<>>
  PROVE  /\ AtMostOneDone(s) => AtMostOneDone(Tail(s))
         /\ AtMostOneDone(s) /\ Head(s).type = "DONE" => ~Contains(Tail(s), "DONE")
<1> DEFINE t == Tail(s)
<1>1. /\ Len(s) \in Nat \ {0} /\ Len(t) = Len(s) - 1
      /\ Head(s) = s[1] /\ 1 \in 1..Len(s)
      /\ \A k \in 1..Len(t) : k + 1 \in 1..Len(s) /\ t[k] = s[k + 1]
  OBVIOUS
<1> HIDE DEF t
<1> QED
  BY <1>1 DEF AtMostOneDone, Contains, t

\* What a send makes of it.
LEMMA PhaseAppend ==
  ASSUME NEW s \in Seq(Message), NEW m \in Message
  PROVE  /\ StartedFirst(s) /\ m.type # "STARTED" => StartedFirst(Append(s, m))
         /\ m.type = "STARTED" => StartedFirst(Append(<<>>, m))
         /\ AtMostOneDone(s) /\ (m.type # "DONE" \/ ~Contains(s, "DONE"))
              => AtMostOneDone(Append(s, m))
<1> DEFINE t == Append(s, m)
<1>1. /\ Len(s) \in Nat /\ Len(t) = Len(s) + 1
      /\ \A k \in 1..Len(t) : (k \in 1..Len(s) /\ t[k] = s[k]) \/ (k = Len(s) + 1 /\ t[k] = m)
  OBVIOUS
<1>2. ASSUME StartedFirst(s), m.type # "STARTED" PROVE StartedFirst(t)
  <2>1. s # <<>> /\ Tail(s) \in Seq(Message)
    BY <1>2 DEF StartedFirst
  <2>2. t # <<>> /\ Head(t) = Head(s) /\ Tail(t) = Append(Tail(s), m)
    BY <2>1
  <2> QED
    BY <1>2, <2>1, <2>2, ContainsAppend DEF StartedFirst
<1>3. ASSUME m.type = "STARTED" PROVE StartedFirst(Append(<<>>, m))
  BY <1>3 DEF StartedFirst, Contains
<1> HIDE DEF t
<1>4. AtMostOneDone(s) /\ (m.type # "DONE" \/ ~Contains(s, "DONE")) => AtMostOneDone(t)
  BY <1>1 DEF AtMostOneDone, Contains
<1> QED
  BY <1>2, <1>3, <1>4 DEF t

\* t says the same about STARTED and DONE as s.
SamePhase(s, t) ==
  /\ \A x \in {"STARTED", "DONE"} : Contains(t, x) <=> Contains(s, x)
  /\ StartedFirst(s) => StartedFirst(t)
  /\ AtMostOneDone(s) => AtMostOneDone(t)

\* The messages about critical sections.
Talk == {"CS_REQUEST", "CS_REPLY", "CS_RELEASE"}

\* Sending and receiving about critical sections.
LEMMA TalkPhase ==
  ASSUME NEW s \in Seq(Message)
  PROVE  /\ SamePhase(s, s)
         /\ s # <<>> /\ Head(s).type \in Talk => SamePhase(s, Tail(s))
         /\ \A m \in Message : m.type \in Talk => SamePhase(s, Append(s, m))
<1>1. SamePhase(s, s)
  BY DEF SamePhase
<1>2. ASSUME s # <<>>, Head(s).type \in Talk PROVE SamePhase(s, Tail(s))
  BY <1>2, PhaseTail, ContainsTail DEF SamePhase, StartedFirst, Talk
<1>3. ASSUME NEW m \in Message, m.type \in Talk PROVE SamePhase(s, Append(s, m))
  BY <1>3, PhaseAppend, ContainsAppend DEF SamePhase, Talk
<1> QED
  BY <1>1, <1>2, <1>3

\* The children are finitely many.
LEMMA ChildrenFinite ==
  ASSUME NEW S \in SUBSET Children
  PROVE  IsFiniteSet(S) /\ Cardinality(S) \in Nat /\ IsFiniteSet(Children) /\ Cardinality(Children) = N
<1>1. IsFiniteSet(Children) /\ Cardinality(Children) = N
  BY FS_Interval, NAssumption DEF Children
<1> QED
  BY <1>1, FS_Subset, FS_CardinalityType

\* So are those that a child waits for.
LEMMA AwaitedFinite ==
  ASSUME NEW p \in Children
  PROVE  IsFiniteSet(Awaited(p)) /\ Cardinality(Awaited(p)) \in Nat
BY ChildrenFinite DEF Awaited

\* A child that has left, or is about to, awaits nobody: all have finished, and their
\* DONE has been received.
LEMMA LeftLast ==
  ASSUME SkeletonInv, NEW p \in Children, pc[p] \in {"sleep", "exited"}
  PROVE  \A q \in Children : Finished(q) /\ (q # p => ~Carries(q, p, "DONE"))
<1>1. Cardinality(Awaited(p)) = 0
  BY DEF SkeletonInv, DoneAccounting
<1>2. Awaited(p) = {}
  BY <1>1, AwaitedFinite, FS_EmptySet
<1> QED
  BY <1>2 DEF Awaited, DoneComing, Finished

\* A step that moves no process from one phase to another.
LEMMA PhaseKept ==
  ASSUME SkeletonInv, from' = from,
         \A p \in Procs : pc'[p] \in {"start", "spawn", "await_started"}
                            <=> pc[p] \in {"start", "spawn", "await_started"},
         \A q \in Children : /\ pc'[q] = "start" <=> pc[q] = "start"
                             /\ Finished(q)' <=> Finished(q),
         \A p \in Procs : \A q \in Children \ {p} :
           /\ SamePhase(Link(q, p), Link(q, p)')
           /\ pc[q] = "start" /\ Link(q, p) = <<>> => Link(q, p)' = <<>>
  PROVE  LinkPhases' /\ \A p \in Children : Awaited(p)' = Awaited(p)
<1> USE ProcsFacts
<1>1. \A p \in Procs : \A q \in Children \ {p} : Phases(q, p)'
  BY DEF SkeletonInv, LinkPhases, Phases, Greeted, SamePhase, Carries
<1>2. \A p \in Children : \A q \in Children \ {p} : DoneComing(q, p)' <=> DoneComing(q, p)
  BY DEF DoneComing, SamePhase, Carries
<1>3. \A p \in Children : Awaited(p)' = Awaited(p)
  BY <1>2 DEF Awaited
<1> QED
  BY <1>1, <1>3 DEF SkeletonInv, LinkPhases

\* A step of mutex.c about critical sections.
LEMMA TalkStep ==
  ASSUME ChildInv, SkeletonInv, NEW p \in Children, from' = from, awaiting_children' = awaiting_children,
         \A c \in Procs \ {p} : pc'[c] = pc[c] /\ outbox'[c] = outbox[c],
         \A c \in Children \ {p} : i'[c] = i[c],
         pc[p] \in {"loop", "ask", "request", "cs", "drain"},
         pc'[p] \in {"loop", "ask", "request", "cs", "drain"},
         pc[p] = "drain" <=> pc'[p] = "drain",
         pc[p] = "drain" => i'[p] = i[p] /\ \A d \in Procs : outbox'[p][d] = NoMessage \/ outbox'[p][d].type = "CS_REPLY",
         \A a, b \in Children : a # b =>
           /\ SamePhase(Link(a, b), Link(a, b)')
           /\ pc[a] = "start" /\ Link(a, b) = <<>> => Link(a, b)' = <<>>,
         \A a \in Procs : Link(PARENT_ID, a)' = Link(PARENT_ID, a) /\ Link(a, PARENT_ID)' = Link(a, PARENT_ID)
  PROVE  SkeletonInv'
<1> USE ProcsFacts
<1>1. GoodLabels'
  BY DEF SkeletonInv, GoodLabels
<1>2. ParentMail'
  BY DEF SkeletonInv, ParentMail, Carries
<1>3. /\ \A a \in Procs : \A b \in Children \ {a} :
           /\ SamePhase(Link(b, a), Link(b, a)')
           /\ pc[b] = "start" /\ Link(b, a) = <<>> => Link(b, a)' = <<>>
      /\ \A a \in Procs : pc'[a] \in {"start", "spawn", "await_started"}
                            <=> pc[a] \in {"start", "spawn", "await_started"}
      /\ \A a \in Children : (pc'[a] = "start" <=> pc[a] = "start") /\ (Finished(a)' <=> Finished(a))
  <2>1. \A a \in Procs : a \in Children \/ a = PARENT_ID
    BY DEF Procs, Children, PARENT_ID
  <2> QED
    BY <2>1 DEF SamePhase, Finished
<1>4. LinkPhases' /\ \A c \in Children : Awaited(c)' = Awaited(c)
  BY <1>3, PhaseKept
<1>5. DoneAccounting'
  <2> SUFFICES ASSUME NEW c \in Children
               PROVE  /\ awaiting_children[c] = Cardinality(Awaited(c))
                      /\ pc'[c] = "drain" => awaiting_children[c] > 0
                      /\ pc'[c] \in {"sleep", "exited"} => awaiting_children[c] = 0
    BY <1>4 DEF DoneAccounting
  <2>1. CASE c = p
    BY <2>1 DEF SkeletonInv, DoneAccounting
  <2>2. CASE c # p
    BY <2>2 DEF SkeletonInv, DoneAccounting
  <2> QED
    BY <2>1, <2>2
<1>6. LastSends'
  <2> SUFFICES ASSUME NEW c \in Children, Finished(c)'
               PROVE  /\ i'[c] > Iterations[c]
                      /\ \A d \in Procs : outbox'[c][d] # NoMessage =>
                           pc'[c] \in {"drain", "sleep"} /\ outbox'[c][d].type \in {"DONE", "CS_REPLY"}
    BY DEF LastSends
  <2>1. CASE c = p
    <3>1. pc[p] = "drain" /\ pc'[p] = "drain"
      BY <2>1 DEF Finished
    <3>2. i'[p] = i[p] /\ \A d \in Procs : outbox'[p][d] = NoMessage \/ outbox'[p][d].type = "CS_REPLY"
      BY <3>1
    <3> QED
      BY <2>1, <3>1, <3>2 DEF SkeletonInv, LastSends, Finished
  <2>2. CASE c # p
    BY <2>2 DEF SkeletonInv, LastSends, Finished
  <2> QED
    BY <2>1, <2>2
<1>7. LastToLeave'
  BY <1>3 DEF SkeletonInv, LastToLeave
<1> QED
  BY <1>1, <1>2, <1>4, <1>5, <1>6, <1>7 DEF SkeletonInv

\* What a step leaves of a link and of its ends it leaves of the phases.
LEMMA PhaseFrame ==
  ASSUME NEW p \in Procs, NEW q \in Children, Phases(q, p), Link(q, p)' = Link(q, p),
         Greeted(p, q)' <=> Greeted(p, q), pc'[q] = "start" <=> pc[q] = "start",
         Finished(q)' <=> Finished(q)
  PROVE  Phases(q, p)'
BY DEF Phases, Carries

\* A child that has sent everything stays so while it sends nothing more.
LEMMA LastSendsKept ==
  ASSUME SkeletonInv, outbox' = outbox, i' = i,
         \A c \in Children :
           Finished(c)' => \/ pc'[c] = pc[c]
                           \/ Finished(c) /\ ~Sending(c)
  PROVE  LastSends'
BY DEF SkeletonInv, LastSends, Finished, Sending

\* A DONE is received and counted.
LEMMA DoneStep ==
  ASSUME ChildInv, SkeletonInv, NEW p \in Children, NEW f \in Procs \ {p}, ~Sending(p),
         receive(p, f), Oldest(p, f).type = "DONE",
         outbox' = outbox, from' = from, i' = i,
         awaiting_children' = [awaiting_children EXCEPT ![p] = @ - 1],
         NEW l, Goto(p, l),
         \/ pc[p] = "request" /\ l \in {"request", "ask"}
         \/ pc[p] = "drain" /\ l = IF awaiting_children[p] > 1 THEN "drain" ELSE "sleep"
  PROVE  SkeletonInv'
<1> USE ProcsFacts
<1> DEFINE s == Link(f, p)
<1>0. /\ IpcTypeOK /\ pc \in [Procs -> Label]
      /\ awaiting_children \in [Children -> Int]
  BY DEF ChildInv, ChildTypeOK
<1>1. /\ \A a, b \in Procs : Link(a, b)' = IF a = f /\ b = p THEN Tail(Link(a, b)) ELSE Link(a, b)
      /\ s # <<>> /\ Head(s).type = "DONE" /\ s \in Seq(Message)
  <2>1. p \in Procs /\ f \in Procs
    OBVIOUS
  <2>2. \A a, b \in Procs : Link(a, b)' = IF a = f /\ b = p THEN Tail(Link(a, b)) ELSE Link(a, b)
    BY <1>0, <2>1, LinkReceive
  <2>3. s # <<>> /\ Oldest(p, f) = Head(s) /\ s \in Seq(Message)
    BY <1>0, <2>1, LinkOldest, LinkType
  <2> QED
    BY <2>2, <2>3
<1>2. f \in Children
  BY <1>1 DEF SkeletonInv, ParentMail, Procs, Children, PARENT_ID
<1>3. /\ Phases(f, p) /\ Greeted(p, f) /\ Carries(f, p, "DONE") /\ Finished(f)
      /\ Phases(f, p)' /\ ~Carries(f, p, "DONE")'
  <2>1. Phases(f, p) /\ Greeted(p, f)
    BY <1>2 DEF SkeletonInv, LinkPhases, Greeted
  <2>2. Contains(s, "DONE")
    BY <1>1, ContainsTail
  <2>3. Finished(f)
    BY <2>1, <2>2 DEF Phases, Carries
  <2>4. ~Contains(Tail(s), "STARTED") /\ ~Contains(Tail(s), "DONE") /\ AtMostOneDone(Tail(s))
    BY <1>1, <2>1, ContainsTail, PhaseTail DEF Phases, Carries
  <2>5. pc'[f] = pc[f] /\ Greeted(p, f)'
    BY <1>0, <1>2 DEF Goto, Greeted
  <2>6. Link(f, p)' = Tail(s)
    BY <1>1, <1>2
  <2> HIDE DEF s
  <2> QED
    BY <2>1, <2>2, <2>3, <2>4, <2>5, <2>6 DEF Phases, Carries, s
<1>4. /\ pc'[p] = l /\ \A c \in Procs \ {p} : pc'[c] = pc[c]
      /\ \A c \in Children : Finished(c)' <=> Finished(c)
  BY <1>0 DEF Goto, Finished
<1>5. GoodLabels'
  BY <1>4 DEF SkeletonInv, GoodLabels
<1>6. ParentMail'
  <2>1. p # PARENT_ID /\ f # PARENT_ID
    BY <1>2
  <2> QED
    BY <1>1, <2>1 DEF SkeletonInv, ParentMail, Carries
<1>7. LinkPhases'
  <2> SUFFICES ASSUME NEW a \in Procs, NEW b \in Children \ {a} PROVE Phases(b, a)'
    BY DEF SkeletonInv, LinkPhases
  <2>1. CASE a = p /\ b = f
    BY <1>3, <2>1
  <2>2. CASE ~(a = p /\ b = f)
    <3>1. Link(b, a)' = Link(b, a) /\ Phases(b, a)
      BY <1>1, <2>2 DEF SkeletonInv, LinkPhases
    <3>2. (Greeted(a, b)' <=> Greeted(a, b)) /\ (pc'[b] = "start" <=> pc[b] = "start")
      BY <1>4 DEF Greeted
    <3> QED
      BY <1>4, <3>1, <3>2, PhaseFrame
  <2> QED
    BY <2>1, <2>2
<1>8. /\ f \in Awaited(p) /\ Awaited(p)' = Awaited(p) \ {f}
      /\ \A c \in Children \ {p} : Awaited(c)' = Awaited(c)
  <2>1. \A c \in Children, b \in Children : ~(c = p /\ b = f) => (DoneComing(b, c)' <=> DoneComing(b, c))
    BY <1>1, <1>4 DEF DoneComing, Carries
  <2>2. DoneComing(f, p) /\ ~DoneComing(f, p)'
    BY <1>3, <1>2, <1>4 DEF DoneComing
  <2> QED
    BY <1>2, <2>1, <2>2 DEF Awaited
<1>9. DoneAccounting'
  <2>1. /\ Cardinality(Awaited(p)') = Cardinality(Awaited(p)) - 1
        /\ awaiting_children[p] = Cardinality(Awaited(p))
    <3>1. IsFiniteSet(Awaited(p)) /\ f \in Awaited(p) /\ Awaited(p)' = Awaited(p) \ {f}
      BY <1>8, AwaitedFinite
    <3>2. Cardinality(Awaited(p) \ {f}) = Cardinality(Awaited(p)) - 1
      BY ONLY <3>1, FS_RemoveElement
    <3> QED
      BY <3>1, <3>2 DEF SkeletonInv, DoneAccounting
  <2>2. /\ awaiting_children'[p] = awaiting_children[p] - 1 /\ awaiting_children[p] \in Int
        /\ \A c \in Children \ {p} : awaiting_children'[c] = awaiting_children[c]
    BY <1>0
  <2>3. pc[p] = "drain" => awaiting_children[p] > 0
    BY DEF SkeletonInv, DoneAccounting
  <2> SUFFICES ASSUME NEW c \in Children
               PROVE  /\ awaiting_children'[c] = Cardinality(Awaited(c)')
                      /\ pc'[c] = "drain" => awaiting_children'[c] > 0
                      /\ pc'[c] \in {"sleep", "exited"} => awaiting_children'[c] = 0
    BY DEF DoneAccounting
  <2>4. CASE c = p
    BY <1>4, <2>1, <2>2, <2>3, <2>4
  <2>5. CASE c # p
    BY <1>4, <1>8, <2>2, <2>5 DEF SkeletonInv, DoneAccounting
  <2> QED
    BY <2>4, <2>5
<1>10. LastSends'
  BY <1>4, LastSendsKept DEF Finished
<1>11. LastToLeave'
  BY <1>4 DEF SkeletonInv, LastToLeave
<1> QED
  BY <1>5, <1>6, <1>7, <1>9, <1>10, <1>11 DEF SkeletonInv

\* Nobody writes to a process that has left: it had the DONE of the writer, and its own
\* request was answered.
LEMMA NobodyHangsUp ==
  ASSUME ChildInv, SkeletonInv, RepliesAwaited, NEW p \in Children, NEW d \in Procs,
         outbox[p][d] # NoMessage
  PROVE  ~HungUp(d)
<1> USE ProcsFacts
<1>1. Finished(p) => pc[p] \in {"drain", "sleep"} /\ outbox[p][d].type \in {"DONE", "CS_REPLY"}
  BY DEF SkeletonInv, LastSends
<1>2. CASE d = PARENT_ID
  BY <1>1, <1>2 DEF SkeletonInv, GoodLabels, LastToLeave, HungUp, Gone, Finished
<1>3. CASE d \in Children
  <2> SUFFICES ASSUME pc[d] = "exited" PROVE FALSE
    BY <1>3 DEF SkeletonInv, GoodLabels, HungUp, Gone
  <2>1. Finished(p) /\ (p # d => ~Carries(p, d, "DONE"))
    BY <1>3, LeftLast
  <2>2. p # d
    BY <1>1, <2>1
  <2>3. outbox[p][d] \in Message /\ pipes[d][p] \in Seq(Message)
    BY DEF ChildInv, ChildTypeOK, IpcTypeOK
  <2>4. Link(p, d) = Append(pipes[d][p], outbox[p][d])
    BY DEF Link
  <2>5. Carries(p, d, outbox[p][d].type)
    BY <2>3, <2>4, ContainsAppend DEF Carries
  <2> QED
    BY <1>1, <1>3, <2>1, <2>2, <2>5 DEF RepliesAwaited
<1> QED
  BY <1>2, <1>3 DEF Procs, Children, PARENT_ID

\* So a write() puts its message in the pipe.
LEMMA WriteGood ==
  ASSUME ChildInv, SkeletonInv, RepliesAwaited, NEW p \in Children, Write(p)
  PROVE  /\ pc' = pc /\ \A a, b \in Procs : Link(a, b)' = Link(a, b)
         /\ \A a, d \in Procs : outbox'[a][d] = outbox[a][d] \/ outbox'[a][d] = NoMessage
         /\ UNCHANGED <<lamport_time, from, i, awaiting_children>>
<1> USE ProcsFacts
<1>0. IpcTypeOK
  BY DEF ChildInv, ChildTypeOK
<1>1. PICK d \in Procs : NextDst(p, d)
                         /\ IF HungUp(d)
                              THEN /\ outbox' = [outbox EXCEPT ![p] = [e \in Procs |-> NoMessage]]
                                   /\ Goto(p, "killed")
                                   /\ UNCHANGED pipes
                              ELSE /\ pipes' = [pipes EXCEPT ![d][p] = Append(@, outbox[p][d])]
                                   /\ outbox' = [outbox EXCEPT ![p][d] = NoMessage]
                                   /\ UNCHANGED pc
  BY DEF Write
<1>2. outbox[p][d] # NoMessage /\ ~HungUp(d)
  BY <1>1, NobodyHangsUp DEF NextDst
<1>3. /\ pipes' = [pipes EXCEPT ![d][p] = Append(@, outbox[p][d])]
      /\ outbox' = [outbox EXCEPT ![p][d] = NoMessage] /\ pc' = pc
  BY <1>1, <1>2
<1>4. \A a, b \in Procs : Link(a, b)' = Link(a, b)
  BY <1>0, <1>2, <1>3, LinkWrite
<1>5. \A a, e \in Procs : outbox'[a][e] = outbox[a][e] \/ outbox'[a][e] = NoMessage
  BY <1>0, <1>3 DEF IpcTypeOK
<1> QED
  BY <1>3, <1>4, <1>5 DEF Write

\* A write() keeps the phases.
LEMMA WriteSkeleton ==
  ASSUME ChildInv, SkeletonInv, RepliesAwaited, NEW p \in Children, Write(p)
  PROVE  SkeletonInv'
<1> USE ProcsFacts
<1>1. /\ pc' = pc /\ \A a, b \in Procs : Link(a, b)' = Link(a, b)
      /\ \A a, d \in Procs : outbox'[a][d] = outbox[a][d] \/ outbox'[a][d] = NoMessage
      /\ UNCHANGED <<lamport_time, from, i, awaiting_children>>
  BY WriteGood
<1>2. \A a \in Procs : \A b \in Children \ {a} : SamePhase(Link(b, a), Link(b, a)')
  BY <1>1 DEF SamePhase
<1>3. LinkPhases' /\ \A c \in Children : Awaited(c)' = Awaited(c)
  BY <1>1, <1>2, PhaseKept DEF Finished
<1>4. DoneAccounting'
  BY <1>1, <1>3 DEF SkeletonInv, DoneAccounting
<1>5. GoodLabels' /\ ParentMail' /\ LastSends' /\ LastToLeave'
  BY <1>1 DEF SkeletonInv, GoodLabels, ParentMail, Carries, LastSends, LastToLeave, Finished
<1> QED
  BY <1>3, <1>4, <1>5 DEF SkeletonInv

\* The multicast of STARTED.
LEMMA StartSkeleton ==
  ASSUME ChildInv, ChildInv', SkeletonInv, NEW p \in Children, Start(p)
  PROVE  SkeletonInv'
<1> USE ProcsFacts
<1> DEFINE m == [type |-> "STARTED", time |-> lamport_time[p] + 1]
<1>0. /\ IpcTypeOK /\ pc \in [Procs -> Label] /\ lamport_time[p] \in Nat
      /\ from[p] \in 1..(N + 1)
  BY DEF ChildInv, ChildTypeOK
<1>1. /\ pc[p] = "start" /\ ~Sending(p) /\ UNCHANGED <<pipes, from, i, awaiting_children>>
      /\ pc'[p] \in {"loop", "await_started"} /\ (pc'[p] = "loop" => from[p] > N)
      /\ \A c \in Procs \ {p} : pc'[c] = pc[c]
  BY <1>0 DEF Start, Goto
<1>2. m \in Message /\ m.type = "STARTED" /\ Post(p, Procs \ {p}, m)
  BY <1>0 DEF Start, send_multicast, Message, MessageType, ChildInv, ChildTypeOK
<1> HIDE DEF m
<1>3. /\ \A a, b \in Procs : Link(a, b)' = IF a = p /\ b # p THEN Append(Link(a, b), m) ELSE Link(a, b)
      /\ \A a, b \in Procs : Link(a, b) \in Seq(Message)
  <2>1. p \in Procs /\ pipes' = pipes /\ ~Sending(p)
    BY <1>1
  <2>2. \A a, b \in Procs : Link(a, b)' = IF a = p /\ b \in Procs \ {p} THEN Append(Link(a, b), m) ELSE Link(a, b)
    BY <1>0, <1>2, <2>1, LinkPost
  <2>3. \A a, b \in Procs : Link(a, b) \in Seq(Message)
    BY <1>0, LinkType
  <2> QED
    BY <2>2, <2>3
<1>4. \A c \in Children : (Finished(c)' <=> Finished(c)) /\ (Finished(c) => c # p)
  BY <1>1 DEF Finished
<1>5. ASSUME NEW a \in Procs, NEW b \in Children \ {a} PROVE Greeted(a, b)' <=> Greeted(a, b)
  BY <1>0, <1>1, NAssumption DEF Greeted, Children
<1>6. ASSUME NEW a \in Procs \ {p} PROVE Phases(p, a)' /\ DoneComing(p, a)' /\ DoneComing(p, a)
  <2>1. Phases(p, a) /\ ~Greeted(a, p) /\ Link(p, a) = <<>>
    BY <1>1 DEF SkeletonInv, LinkPhases, Phases
  <2>2. Link(p, a)' = Append(<<>>, m)
    BY <1>3, <2>1
  <2>3. /\ StartedFirst(Append(<<>>, m)) /\ AtMostOneDone(Append(<<>>, m))
        /\ ~Contains(Append(<<>>, m), "DONE")
    <3>1. <<>> \in Seq(Message) /\ AtMostOneDone(<<>>) /\ ~Contains(<<>>, "DONE")
      BY DEF AtMostOneDone, Contains
    <3> QED
      BY <1>2, <3>1, PhaseAppend, ContainsAppend
  <2> QED
    BY <1>1, <1>4, <1>5, <2>1, <2>2, <2>3 DEF Phases, Carries, DoneComing
<1>7. LinkPhases'
  <2> SUFFICES ASSUME NEW a \in Procs, NEW b \in Children \ {a} PROVE Phases(b, a)'
    BY <1>1 DEF SkeletonInv, LinkPhases
  <2>1. CASE b = p
    BY <1>6, <2>1
  <2>2. CASE b # p
    BY <1>1, <1>3, <1>4, <1>5, <2>2, PhaseFrame DEF SkeletonInv, LinkPhases
  <2> QED
    BY <2>1, <2>2
<1>8. \A c \in Children : Awaited(c)' = Awaited(c)
  <2>1. \A c \in Children, b \in Children : c # b => (DoneComing(b, c)' <=> DoneComing(b, c))
    BY <1>3, <1>4, <1>6 DEF DoneComing, Carries
  <2> QED
    BY <2>1 DEF Awaited
<1>9. DoneAccounting'
  BY <1>1, <1>8 DEF SkeletonInv, DoneAccounting
<1>10. LastSends'
  <2>1. \A c \in Children \ {p} : outbox'[c] = outbox[c]
    BY <1>0, <1>2 DEF Post, IpcTypeOK
  <2> QED
    BY <1>1, <1>4, <2>1 DEF SkeletonInv, LastSends, Finished
<1>11. ParentMail'
  <2> SUFFICES ASSUME NEW a \in Procs
               PROVE  /\ Link(PARENT_ID, a)' = <<>>
                      /\ \A x \in Talk : ~Contains(Link(a, PARENT_ID)', x)
    BY DEF ParentMail, Carries, Talk
  <2>1. Link(PARENT_ID, a) = <<>> /\ \A x \in Talk : ~Contains(Link(a, PARENT_ID), x)
    BY DEF SkeletonInv, ParentMail, Carries, Talk
  <2>2. Link(PARENT_ID, a)' = Link(PARENT_ID, a)
    BY <1>3
  <2>3. \/ Link(a, PARENT_ID)' = Link(a, PARENT_ID)
        \/ Link(a, PARENT_ID)' = Append(Link(a, PARENT_ID), m)
    BY <1>3
  <2>4. \A x \in Talk : ~Contains(Append(Link(a, PARENT_ID), m), x)
    BY <1>2, <1>3, <2>1, ContainsAppend DEF Talk
  <2> QED
    BY <2>1, <2>2, <2>3, <2>4
<1>12. GoodLabels' /\ LastToLeave'
  BY <1>1, <1>4 DEF SkeletonInv, GoodLabels, LastToLeave
<1> QED
  BY <1>7, <1>9, <1>10, <1>11, <1>12 DEF SkeletonInv

\* A process takes the STARTED of a child, its oldest message, and passes to the next.
LEMMA GreetingStep ==
  ASSUME ChildInv, SkeletonInv, NEW p \in Procs, pc[p] = "await_started",
         NEW next, next \notin {"start", "spawn", "await_started"},
         ReceiveAll(p, "STARTED", next)
  PROVE  /\ LinkPhases' /\ ParentMail' /\ UNCHANGED <<outbox, i, awaiting_children>>
         /\ pc'[p] \in {"await_started", next} /\ \A c \in Procs \ {p} : pc'[c] = pc[c]
         /\ \A c \in Children \ {p}, q \in Children : Carries(q, c, "DONE")' <=> Carries(q, c, "DONE")
         /\ p \in Children => \A q \in Children : Carries(q, p, "DONE")' <=> Carries(q, p, "DONE")
<1> USE ProcsFacts
<1> DEFINE f == from[p]  s == Link(f, p)  g == NextFrom(p, f)
<1>0. /\ IpcTypeOK /\ pc \in [Procs -> Label] /\ from \in [Procs -> 1..(N + 1)]
  BY DEF ChildInv, ChildTypeOK
<1>1. f \in Children /\ f # p /\ f \in Procs /\ receive(p, f) /\ outbox' = outbox
  BY <1>0, NAssumption DEF ReceiveAll, SkeletonInv, LinkPhases, Children, Procs, PARENT_ID
<1>2. /\ \A a, b \in Procs : Link(a, b)' = IF a = f /\ b = p THEN Tail(Link(a, b)) ELSE Link(a, b)
      /\ s # <<>> /\ Oldest(p, f) = Head(s) /\ s \in Seq(Message)
  <2>1. \A a, b \in Procs : Link(a, b)' = IF a = f /\ b = p THEN Tail(Link(a, b)) ELSE Link(a, b)
    BY <1>0, <1>1, LinkReceive
  <2>2. s # <<>> /\ Oldest(p, f) = Head(s)
    BY <1>0, <1>1, LinkOldest
  <2>3. s \in Seq(Message)
    BY <1>0, <1>1, LinkType
  <2> QED
    BY <2>1, <2>2, <2>3
<1>3. Phases(f, p) /\ ~Greeted(p, f)
  BY <1>0, <1>1 DEF SkeletonInv, LinkPhases, Greeted
<1>4. /\ Head(s).type = "STARTED" /\ ~Contains(Tail(s), "STARTED") /\ pc[f] # "start"
      /\ AtMostOneDone(Tail(s)) /\ (Contains(Tail(s), "DONE") <=> Contains(s, "DONE"))
      /\ \A x \in Talk : Contains(Tail(s), x) => Contains(s, x)
  BY <1>2, <1>3, ContainsTail, PhaseTail DEF Phases, StartedFirst
<1>5. /\ from' = [from EXCEPT ![p] = IF g > N THEN NextFrom(p, PARENT_ID) ELSE g]
      /\ Goto(p, IF g > N THEN next ELSE "await_started")
  BY <1>2, <1>4 DEF ReceiveAll
<1>6. /\ pc'[p] = (IF g > N THEN next ELSE "await_started") /\ \A c \in Procs \ {p} : pc'[c] = pc[c]
      /\ \A c \in Children : (Finished(c)' => Finished(c) \/ c = p) /\ (pc'[c] = "start" <=> pc[c] = "start")
  BY <1>0, <1>5 DEF Goto, Finished
<1>7. from'[p] # p /\ (g <= N => from'[p] = g)
  BY <1>0, <1>5, NAssumption DEF NextFrom, PARENT_ID, Procs
<1>8. /\ \A c \in Procs \ {p} : from'[c] = from[c]
      /\ \A c \in Procs \ {p}, q \in Children : Greeted(c, q)' <=> Greeted(c, q)
  BY <1>0, <1>5, <1>6 DEF Greeted
<1>9. \A q \in Children \ {p} : Greeted(p, q)' <=> Greeted(p, q) \/ q = f
  <2> SUFFICES ASSUME NEW q \in Children \ {p} PROVE Greeted(p, q)' <=> q < f \/ q = f
    BY DEF Greeted
  <2>1. q \in 1..N /\ f \in 1..N /\ p \in Nat /\ N \in Nat
    BY <1>1, NAssumption DEF Children, Procs, PARENT_ID
  <2>2. q < g <=> q < f \/ q = f
    BY <2>1 DEF NextFrom
  <2>3. g > N => q < g
    BY <2>1 DEF NextFrom
  <2>6. g \in Int
    BY <2>1 DEF NextFrom
  <2> HIDE DEF f, g
  <2>4. CASE g > N
    <3>1. Greeted(p, q)'
      BY <1>6, <2>4 DEF Greeted
    <3> QED
      BY <2>2, <2>3, <2>4, <3>1
  <2>5. CASE ~(g > N)
    <3>1. pc'[p] = "await_started" /\ from'[p] = g
      BY <1>6, <1>7, <2>1, <2>5, <2>6
    <3> QED
      BY <2>2, <3>1 DEF Greeted
  <2> QED
    BY <2>4, <2>5
<1> HIDE DEF f, s, g
<1>10. LinkPhases'
  <2>1. \A c \in Procs : from'[c] # c
    BY <1>7, <1>8 DEF SkeletonInv, LinkPhases
  <2> SUFFICES ASSUME NEW a \in Procs, NEW b \in Children \ {a} PROVE Phases(b, a)'
    BY <2>1 DEF LinkPhases
  <2>2. Phases(b, a)
    BY DEF SkeletonInv, LinkPhases
  <2>a. Finished(b) => Finished(b)'
    BY <1>0, <1>6 DEF Finished
  <2>3. CASE a = p /\ b = f
    <3>1. Link(b, a)' = Tail(s)
      BY <1>1, <1>2, <2>3 DEF s
    <3> QED
      BY <1>3, <1>4, <1>6, <1>9, <2>2, <2>3, <2>a, <3>1 DEF Phases, Carries, s
  <2>4. CASE ~(a = p /\ b = f)
    <3>1. Link(b, a)' = Link(b, a)
      BY <1>2, <2>4
    <3>2. Greeted(a, b)' <=> Greeted(a, b)
      BY <1>8, <1>9, <2>4
    <3> QED
      BY <1>6, <2>2, <2>a, <3>1, <3>2 DEF Phases, Carries
  <2> QED
    BY <2>3, <2>4
<1>11. ParentMail'
  <2>1. f # PARENT_ID
    BY <1>1
  <2> QED
    <3>1. \A b \in Procs : Link(PARENT_ID, b)' = Link(PARENT_ID, b) /\ Link(PARENT_ID, b) = <<>>
      BY <1>2, <2>1 DEF SkeletonInv, ParentMail
    <3>2. \A b \in Procs, x \in Talk : Contains(Link(b, PARENT_ID)', x) => Contains(Link(b, PARENT_ID), x)
      BY <1>2, <1>4 DEF s
    <3>3. \A b \in Procs, x \in Talk : ~Contains(Link(b, PARENT_ID), x)
      BY DEF SkeletonInv, ParentMail, Carries, Talk
    <3> QED
      BY <3>1, <3>2, <3>3 DEF ParentMail, Carries, Talk
<1>12. \A c \in Procs, q \in Children : Carries(q, c, "DONE")' <=> Carries(q, c, "DONE")
  BY <1>1, <1>2, <1>4 DEF Carries, s
<1> QED
  BY <1>6, <1>10, <1>11, <1>12 DEF ReceiveAll

\* A child that takes a STARTED keeps the skeleton.
LEMMA AwaitStartedSkeleton ==
  ASSUME ChildInv, SkeletonInv, NEW p \in Children, AwaitStarted(p)
  PROVE  SkeletonInv'
<1> USE ProcsFacts
<1>0. pc[p] = "await_started" /\ ReceiveAll(p, "STARTED", "loop")
  BY DEF AwaitStarted
<1>1. /\ LinkPhases' /\ ParentMail' /\ UNCHANGED <<outbox, i, awaiting_children>>
      /\ pc'[p] \in {"await_started", "loop"} /\ \A c \in Procs \ {p} : pc'[c] = pc[c]
      /\ \A c \in Children, q \in Children : Carries(q, c, "DONE")' <=> Carries(q, c, "DONE")
  BY <1>0, GreetingStep
<1>2. \A c \in Children : Finished(c)' <=> Finished(c)
  BY <1>0, <1>1 DEF Finished
<1>3. \A c \in Children : Awaited(c)' = Awaited(c)
  BY <1>1, <1>2 DEF Awaited, DoneComing
<1>4. DoneAccounting'
  BY <1>0, <1>1, <1>3 DEF SkeletonInv, DoneAccounting
<1>5. LastSends'
  BY <1>0, <1>1, <1>2 DEF SkeletonInv, LastSends, Finished
<1>6. GoodLabels' /\ LastToLeave'
  BY <1>0, <1>1, <1>2 DEF SkeletonInv, GoodLabels, LastToLeave
<1> QED
  BY <1>1, <1>4, <1>5, <1>6 DEF SkeletonInv

\* The multicast of DONE.
LEMMA SendDoneSkeleton ==
  ASSUME ChildInv, SkeletonInv, mutexl, NEW p \in Children, SendDone(p)
  PROVE  SkeletonInv'
<1> USE ProcsFacts
<1> DEFINE m == [type |-> "DONE", time |-> lamport_time[p] + 1]
<1>0. /\ IpcTypeOK /\ pc \in [Procs -> Label] /\ lamport_time \in [Procs -> Nat]
      /\ i[p] \in Nat /\ Iterations[p] \in Nat /\ awaiting_children[p] \in Int
  BY ChildAssumption DEF ChildInv, ChildTypeOK
<1>1. /\ pc[p] = "loop" /\ ~Sending(p) /\ UNCHANGED <<pipes, from, i, awaiting_children>>
      /\ i[p] > Iterations[p]
      /\ pc'[p] = IF awaiting_children[p] > 0 THEN "drain" ELSE "sleep"
      /\ \A c \in Procs \ {p} : pc'[c] = pc[c]
  BY <1>0 DEF SendDone, Goto, HasIteration
<1>2. m \in Message /\ m.type = "DONE" /\ Post(p, Procs \ {p}, m)
  BY <1>0 DEF SendDone, send_multicast, Message, MessageType
<1> HIDE DEF m
<1>3. /\ \A a, b \in Procs : Link(a, b)' = IF a = p /\ b # p THEN Append(Link(a, b), m) ELSE Link(a, b)
      /\ \A a, b \in Procs : Link(a, b) \in Seq(Message)
  <2>1. p \in Procs /\ pipes' = pipes /\ ~Sending(p)
    BY <1>1
  <2>2. \A a, b \in Procs : Link(a, b)' = IF a = p /\ b \in Procs \ {p} THEN Append(Link(a, b), m) ELSE Link(a, b)
    BY <1>0, <1>2, <2>1, LinkPost
  <2>3. \A a, b \in Procs : Link(a, b) \in Seq(Message)
    BY <1>0, LinkType
  <2> QED
    BY <2>2, <2>3
<1>4. /\ Finished(p)' /\ ~Finished(p)
      /\ \A c \in Children \ {p} : Finished(c)' <=> Finished(c)
  BY <1>1 DEF Finished
<1>5. ASSUME NEW a \in Procs, NEW b \in Children \ {a}
      PROVE  (Greeted(a, b)' <=> Greeted(a, b)) /\ (pc'[b] = "start" <=> pc[b] = "start")
  BY <1>1 DEF Greeted
<1>6. ASSUME NEW a \in Procs \ {p} PROVE Phases(p, a)' /\ Contains(Link(p, a)', "DONE")
  <2>1. Phases(p, a) /\ ~Contains(Link(p, a), "DONE")
    BY <1>4 DEF SkeletonInv, LinkPhases, Phases, Carries
  <2>2. Link(p, a)' = Append(Link(p, a), m) /\ Link(p, a) \in Seq(Message)
    BY <1>3
  <2>3. /\ StartedFirst(Link(p, a)) => StartedFirst(Link(p, a)')
        /\ AtMostOneDone(Link(p, a)) => AtMostOneDone(Link(p, a)')
    BY <1>2, <2>1, <2>2, PhaseAppend
  <2>4. \A x : Contains(Link(p, a)', x) <=> Contains(Link(p, a), x) \/ x = "DONE"
    BY <1>2, <2>2, ContainsAppend
  <2> QED
    BY <1>1, <1>4, <1>5, <2>1, <2>3, <2>4 DEF Phases, Carries
<1>7. LinkPhases'
  <2> SUFFICES ASSUME NEW a \in Procs, NEW b \in Children \ {a} PROVE Phases(b, a)'
    BY <1>1 DEF SkeletonInv, LinkPhases
  <2>1. CASE b = p
    BY <1>6, <2>1
  <2>2. CASE b # p
    <3>1. Link(b, a)' = Link(b, a) /\ Phases(b, a)
      BY <1>3, <2>2 DEF SkeletonInv, LinkPhases
    <3> QED
      BY <1>4, <1>5, <2>2, <3>1, PhaseFrame
  <2> QED
    BY <2>1, <2>2
<1>8. \A c \in Children : Awaited(c)' = Awaited(c)
  <2>1. \A c \in Children, b \in Children : c # b => (DoneComing(b, c)' <=> DoneComing(b, c))
    BY <1>3, <1>4, <1>6 DEF DoneComing, Carries
  <2> QED
    BY <2>1 DEF Awaited
<1>9. DoneAccounting'
  <2>1. awaiting_children[p] = Cardinality(Awaited(p)) /\ awaiting_children[p] \in Nat
    BY AwaitedFinite DEF SkeletonInv, DoneAccounting
  <2> QED
    BY <1>1, <1>8, <2>1 DEF SkeletonInv, DoneAccounting
<1>10. LastSends'
  <2>1. /\ \A c \in Children \ {p} : outbox'[c] = outbox[c]
        /\ \A d \in Procs : outbox'[p][d] # NoMessage => outbox'[p][d].type = "DONE"
    BY <1>0, <1>2 DEF Post, IpcTypeOK
  <2> SUFFICES ASSUME NEW c \in Children, Finished(c)'
               PROVE  /\ i[c] > Iterations[c]
                      /\ \A d \in Procs : outbox'[c][d] # NoMessage =>
                           pc'[c] \in {"drain", "sleep"} /\ outbox'[c][d].type \in {"DONE", "CS_REPLY"}
    BY <1>1 DEF LastSends
  <2>2. CASE c = p
    BY <1>1, <2>1, <2>2
  <2>3. CASE c # p
    BY <1>1, <1>4, <2>1, <2>3 DEF SkeletonInv, LastSends
  <2> QED
    BY <2>2, <2>3
<1>11. ParentMail'
  <2> SUFFICES ASSUME NEW a \in Procs
               PROVE  /\ Link(PARENT_ID, a)' = <<>>
                      /\ \A x \in Talk : ~Contains(Link(a, PARENT_ID)', x)
    BY DEF ParentMail, Carries, Talk
  <2>1. Link(PARENT_ID, a) = <<>> /\ \A x \in Talk : ~Contains(Link(a, PARENT_ID), x)
    BY DEF SkeletonInv, ParentMail, Carries, Talk
  <2>2. Link(PARENT_ID, a)' = Link(PARENT_ID, a)
    BY <1>3
  <2>3. \/ Link(a, PARENT_ID)' = Link(a, PARENT_ID)
        \/ Link(a, PARENT_ID)' = Append(Link(a, PARENT_ID), m)
    BY <1>3
  <2>4. \A x \in Talk : ~Contains(Append(Link(a, PARENT_ID), m), x)
    BY <1>2, <1>3, <2>1, ContainsAppend DEF Talk
  <2> QED
    BY <2>1, <2>2, <2>3, <2>4
<1>12. GoodLabels'
  BY <1>1 DEF SkeletonInv, GoodLabels
<1>13. LastToLeave'
  <2>1. \A c \in Children : (pc'[c] = "spin" => pc[c] = "spin") /\ (Finished(c) => Finished(c)')
    BY <1>1, <1>4
  <2>2. pc[PARENT_ID] # "exited"
    BY <1>1 DEF SkeletonInv, LastToLeave
  <2> QED
    BY <1>1, <2>1, <2>2 DEF SkeletonInv, LastToLeave
<1> QED
  BY <1>7, <1>9, <1>10, <1>11, <1>12, <1>13 DEF SkeletonInv

\* A child that has sent everything goes on.
LEMMA LeavingStep ==
  ASSUME ChildInv, SkeletonInv, NEW p \in Children, ~Sending(p),
         UNCHANGED <<pipes, outbox, from, i, awaiting_children>>,
         NEW l \in {"exited", "spin"}, Goto(p, l), Finished(p),
         l = "exited" => pc[p] = "sleep",
         l = "spin" => pc[p] = "drain" /\ \A q \in Children : Finished(q)
  PROVE  SkeletonInv'
<1> USE ProcsFacts
<1>1. /\ pc'[p] = l /\ \A c \in Procs \ {p} : pc'[c] = pc[c]
      /\ \A c \in Children : Finished(c)' <=> Finished(c)
  BY DEF Goto, Finished, ChildInv, ChildTypeOK
<1>2. /\ \A a, b \in Procs : Link(a, b)' = Link(a, b)
      /\ \A a \in Procs : \A b \in Children \ {a} : SamePhase(Link(b, a), Link(b, a)')
  BY DEF SamePhase, Link
<1>3. LinkPhases' /\ \A c \in Children : Awaited(c)' = Awaited(c)
  <2>1. \A a \in Procs : pc'[a] \in {"start", "spawn", "await_started"}
                           <=> pc[a] \in {"start", "spawn", "await_started"}
    BY <1>1 DEF Finished
  <2>2. \A c \in Children : pc'[c] = "start" <=> pc[c] = "start"
    BY <1>1 DEF Finished
  <2> QED
    BY <1>1, <1>2, <2>1, <2>2, PhaseKept
<1>4. DoneAccounting'
  BY <1>1, <1>3 DEF SkeletonInv, DoneAccounting
<1>5. GoodLabels' /\ ParentMail'
  BY <1>1, <1>2 DEF SkeletonInv, GoodLabels, ParentMail, Carries
<1>6. LastSends'
  BY <1>1, LastSendsKept
<1>7. LastToLeave'
  <2>1. pc[PARENT_ID] = "exited" => l # "spin"
    BY DEF SkeletonInv, LastToLeave, Finished
  <2>2. pc'[PARENT_ID] = pc[PARENT_ID]
    BY <1>1
  <2>3. pc'[PARENT_ID] = "exited" => \A c \in Children : pc'[c] = "exited"
    BY <1>1, <2>1, <2>2 DEF SkeletonInv, LastToLeave
  <2>4. \A c \in Children : pc'[c] = "spin" => \A q \in Children : Finished(q)
    BY <1>1 DEF SkeletonInv, LastToLeave
  <2> QED
    BY <1>1, <2>3, <2>4 DEF LastToLeave
<1> QED
  BY <1>3, <1>4, <1>5, <1>6, <1>7 DEF SkeletonInv

\* With --mutexl the steps of a child outside mutex.c keep the skeleton.
LEMMA ChildStepSkeleton ==
  ASSUME ChildInv, ChildInv', SkeletonInv, RepliesAwaited, mutexl, NEW p \in Children, ChildStep(p)
  PROVE  SkeletonInv'
<1> USE ProcsFacts
<1>1. CASE Write(p)
  BY <1>1, WriteSkeleton
<1>2. CASE Start(p)
  BY <1>2, StartSkeleton
<1>3. CASE AwaitStarted(p)
  BY <1>3, AwaitStartedSkeleton
<1>4. CASE SendDone(p)
  BY <1>4, SendDoneSkeleton
<1>5. CASE Exit(p)
  <2>1. /\ pc[p] = "sleep" /\ Finished(p) /\ ~Sending(p) /\ Goto(p, "exited")
        /\ UNCHANGED <<pipes, outbox, from, i, awaiting_children>>
    BY <1>5 DEF Exit, Finished
  <2> QED
    BY <2>1, LeavingStep
<1>6. CASE SpinOnEof(p)
  <2>1. /\ pc[p] \in {"request", "drain"} /\ ~Sending(p) /\ Goto(p, "spin")
        /\ UNCHANGED <<pipes, outbox, from, i, awaiting_children>>
    BY <1>6 DEF SpinOnEof
  <2>2. PICK q \in Procs \ {p} : HungUp(q)
    BY <1>6 DEF SpinOnEof
  <2>3. q \in Children /\ pc[q] = "exited"
    <3>1. pc[q] = "exited"
      BY <2>2 DEF HungUp, Gone, SkeletonInv, GoodLabels, Procs, Children, PARENT_ID
    <3>2. q # PARENT_ID
      BY <2>1, <3>1 DEF SkeletonInv, LastToLeave
    <3> QED
      BY <3>1, <3>2 DEF Procs, Children, PARENT_ID
  <2>4. \A c \in Children : Finished(c)
    BY <2>3, LeftLast
  <2>5. pc[p] = "drain"
    BY <2>1, <2>4 DEF Finished
  <2> QED
    BY <2>1, <2>4, <2>5, LeavingStep
<1> QED
  BY <1>1, <1>2, <1>3, <1>4, <1>5, <1>6 DEF ChildStep, PlainIteration

\* The steps of the parent keep it: the parent takes a STARTED and a DONE of every child.
LEMMA ParentStepSkeleton ==
  ASSUME ChildInv, SkeletonInv, ParentStep
  PROVE  SkeletonInv'
<1> USE ProcsFacts
<1> DEFINE z == PARENT_ID
<1>0. /\ IpcTypeOK /\ pc \in [Procs -> Label] /\ from \in [Procs -> 1..(N + 1)] /\ z \in Procs
  BY DEF ChildInv, ChildTypeOK
<1> SUFFICES /\ UNCHANGED <<outbox, i, awaiting_children>> /\ LinkPhases' /\ ParentMail'
             /\ \A c \in Children : pc'[c] = pc[c]
             /\ \A c \in Children, q \in Children : Carries(q, c, "DONE")' <=> Carries(q, c, "DONE")
             /\ pc'[z] \in {"await_started", "await_done", "wait", "exited"}
             /\ pc'[z] = "exited" => \A c \in Children : pc[c] = "exited"
  <2>1. \A c \in Children : (Finished(c)' <=> Finished(c)) /\ Awaited(c)' = Awaited(c)
    BY DEF Finished, Awaited, DoneComing
  <2>2. DoneAccounting' /\ LastSends'
    BY <2>1 DEF SkeletonInv, DoneAccounting, LastSends
  <2>3. GoodLabels' /\ LastToLeave'
    BY <2>1 DEF SkeletonInv, GoodLabels, LastToLeave
  <2> QED
    BY <2>2, <2>3 DEF SkeletonInv
<1>1. CASE ParentAwaitStarted
  <2>1. ReceiveAll(z, "STARTED", "await_done") /\ pc[z] = "await_started"
    BY <1>1 DEF ParentAwaitStarted
  <2> QED
    BY <1>0, <2>1, GreetingStep
<1>2. CASE ParentAwaitDone
  <2> DEFINE f == from[z]  s == Link(f, z)
  <2>1. /\ f \in Children /\ f # z /\ f \in Procs /\ receive(z, f)
        /\ pc[z] = "await_done" /\ UNCHANGED <<outbox, i, awaiting_children>>
    BY <1>0, <1>2, NAssumption DEF ParentAwaitDone, ReceiveAll, SkeletonInv, LinkPhases, Children, Procs, PARENT_ID
  <2>2. /\ \A a, b \in Procs : Link(a, b)' = IF a = f /\ b = z THEN Tail(Link(a, b)) ELSE Link(a, b)
        /\ s # <<>> /\ Oldest(z, f) = Head(s) /\ s \in Seq(Message)
    BY <1>0, <2>1, LinkReceive, LinkOldest, LinkType
  <2>3. Phases(f, z) /\ Greeted(z, f) /\ \A x \in Talk : ~Contains(s, x)
    BY <2>1 DEF SkeletonInv, LinkPhases, Greeted, ParentMail, Carries, Talk
  <2>4. Head(s).type = "DONE" /\ \A x \in MessageType : Contains(Tail(s), x) => Contains(s, x)
    <3>1. Head(s) \in Message
      BY <2>2
    <3>2. Head(s).type \in MessageType
      BY <3>1 DEF Message
    <3> QED
      BY <2>2, <2>3, <3>2, ContainsTail DEF Phases, Carries, Talk, MessageType
  <2>5. /\ pc'[z] \in {"await_done", "wait"} /\ \A c \in Children : pc'[c] = pc[c]
        /\ from'[z] # z /\ \A c \in Procs \ {z} : from'[c] = from[c]
    <3>1. /\ from' = [from EXCEPT ![z] = IF NextFrom(z, f) > N THEN NextFrom(z, PARENT_ID) ELSE NextFrom(z, f)]
          /\ Goto(z, IF NextFrom(z, f) > N THEN "wait" ELSE "await_done")
      BY <1>2, <2>2, <2>4 DEF ParentAwaitDone, ReceiveAll
    <3> QED
      BY <1>0, <2>1, <3>1, NAssumption DEF Goto, NextFrom, Procs, Children, PARENT_ID
  <2> HIDE DEF f, s
  <2>6. \A c \in Procs : (\A q \in Children \ {c} : Greeted(c, q)' <=> Greeted(c, q)) /\ from'[c] # c
    BY <2>1, <2>5 DEF Greeted, SkeletonInv, LinkPhases, Procs, Children, PARENT_ID
  <2>7. LinkPhases'
    <3> SUFFICES ASSUME NEW a \in Procs, NEW b \in Children \ {a} PROVE Phases(b, a)'
      BY <2>6 DEF LinkPhases
    <3>1. CASE a = z /\ b = f
      <4>1. Link(b, a)' = Tail(s) /\ (Finished(b)' <=> Finished(b))
        BY <2>1, <2>2, <2>5, <3>1 DEF s, Finished
      <4>2. AtMostOneDone(Tail(s)) /\ ~Contains(Tail(s), "STARTED")
        BY <2>2, <2>3, <2>4, PhaseTail DEF Phases, Carries, s, MessageType
      <4>3. Finished(b)
        BY <2>2, <2>3, <2>4, <3>1, ContainsTail DEF Phases, Carries, s
      <4> QED
        BY <2>1, <2>3, <2>5, <2>6, <3>1, <4>1, <4>2, <4>3 DEF Phases, Carries
    <3>2. CASE ~(a = z /\ b = f)
      <4>1. Link(b, a)' = Link(b, a) /\ Phases(b, a)
        BY <2>2, <3>2 DEF SkeletonInv, LinkPhases
      <4>2. (Finished(b)' <=> Finished(b)) /\ (pc'[b] = "start" <=> pc[b] = "start")
        BY <2>5 DEF Finished
      <4> QED
        BY <2>6, <4>1, <4>2, PhaseFrame
    <3> QED
      BY <3>1, <3>2
  <2>8. ParentMail'
    <3>1. \A a \in Procs : Link(z, a)' = Link(z, a)
      BY <2>1, <2>2
    <3>2. \A a \in Procs : \A x \in Talk : Contains(Link(a, z)', x) => Contains(Link(a, z), x)
      BY <2>1, <2>2, <2>4 DEF Talk, MessageType, s
    <3> QED
      BY <3>1, <3>2 DEF SkeletonInv, ParentMail, Carries, Talk
  <2>9. \A c, q \in Children : Link(q, c)' = Link(q, c)
    BY <2>2
  <2> QED
    BY <2>1, <2>5, <2>7, <2>8, <2>9 DEF Carries
<1>3. CASE ParentSetUp \/ ParentExit
  <2>1. /\ UNCHANGED <<pipes, outbox, from, i, awaiting_children>>
        /\ \A c \in Children : pc'[c] = pc[c]
        /\ pc'[z] \in {"await_started", "exited"}
        /\ (pc[z] = "spawn" /\ pc'[z] = "await_started") \/ (pc[z] = "wait" /\ pc'[z] = "exited")
        /\ pc'[z] = "exited" => \A c \in Children : Gone(c)
    <3>1. CASE ParentSetUp
      <4>1. /\ UNCHANGED <<pipes, outbox, from, i, awaiting_children>>
            /\ pc[z] = "spawn" /\ pc' = [pc EXCEPT ![z] = "await_started"]
        BY <3>1 DEF ParentSetUp, Goto
      <4>2. pc'[z] = "await_started" /\ \A c \in Children : pc'[c] = pc[c]
        BY <1>0, <4>1
      <4> QED
        BY <4>1, <4>2
    <3>2. CASE ParentExit
      <4>1. /\ UNCHANGED <<pipes, outbox, from, i, awaiting_children>>
            /\ pc[z] = "wait" /\ pc' = [pc EXCEPT ![z] = "exited"] /\ \A c \in Children : Gone(c)
        BY <3>2 DEF ParentExit, Goto
      <4>2. pc'[z] = "exited" /\ \A c \in Children : pc'[c] = pc[c]
        BY <1>0, <4>1
      <4> QED
        BY <4>1, <4>2
    <3> QED
      BY <1>3, <3>1, <3>2
  <2>2. /\ \A a, b \in Procs : Link(a, b)' = Link(a, b)
        /\ \A a \in Procs : \A b \in Children \ {a} : SamePhase(Link(b, a), Link(b, a)')
    BY <2>1 DEF SamePhase, Link
  <2>3. LinkPhases'
    <3>1. \A a \in Procs : pc'[a] \in {"start", "spawn", "await_started"}
                             <=> pc[a] \in {"start", "spawn", "await_started"}
      BY <2>1 DEF Procs, Children, PARENT_ID
    <3> QED
      BY <2>1, <2>2, <3>1, PhaseKept DEF Finished
  <2>4. ParentMail'
    BY <2>2 DEF SkeletonInv, ParentMail, Carries
  <2>5. pc'[z] = "exited" => \A c \in Children : pc[c] = "exited"
    BY <2>1 DEF SkeletonInv, GoodLabels, Gone
  <2> QED
    BY <2>1, <2>2, <2>3, <2>4, <2>5 DEF Carries
<1> QED
  BY <1>1, <1>2, <1>3 DEF ParentStep

\* The skeleton holds at the start.
LEMMA SkeletonInit == ChildInit => SkeletonInv
<1> SUFFICES ASSUME ChildInit PROVE SkeletonInv
  OBVIOUS
<1> USE ProcsFacts
<1>1. \A a, b \in Procs : Link(a, b) = <<>>
  BY DEF ChildInit, IpcInit, Link
<1>2. ~\E x : Contains(<<>>, x)
  BY DEF Contains
<1>3. /\ pc[PARENT_ID] = "spawn" /\ \A p \in Children : pc[p] = "start"
      /\ \A p \in Procs : from[p] = NextFrom(p, PARENT_ID)
      /\ \A p \in Children : awaiting_children[p] = N - 1
  BY DEF ChildInit
<1>4. GoodLabels /\ ParentMail /\ LastToLeave /\ LastSends
  BY <1>1, <1>2, <1>3 DEF GoodLabels, ParentMail, Carries, LastToLeave, LastSends, Finished
<1>5. LinkPhases
  <2>1. \A p \in Procs : from[p] # p /\ \A q \in Children \ {p} : ~(q < from[p])
    BY <1>3, NAssumption DEF NextFrom, Children, Procs, PARENT_ID
  <2>2. AtMostOneDone(<<>>)
    BY DEF AtMostOneDone
  <2>3. \A p \in Procs : \A q \in Children \ {p} : ~Greeted(p, q)
    BY <1>3, <2>1 DEF Greeted, Procs, Children, PARENT_ID
  <2> QED
    BY <1>1, <1>2, <1>3, <2>1, <2>2, <2>3 DEF LinkPhases, Phases, Carries
<1>6. DoneAccounting
  <2> SUFFICES ASSUME NEW p \in Children PROVE N - 1 = Cardinality(Awaited(p))
    BY <1>3 DEF DoneAccounting
  <2>1. Awaited(p) = Children \ {p}
    BY <1>3 DEF Awaited, DoneComing, Finished
  <2>2. IsFiniteSet(Children) /\ Cardinality(Children) = N
    BY FS_Interval, NAssumption DEF Children
  <2> QED
    BY <2>1, <2>2, FS_RemoveElement
<1> QED
  BY <1>4, <1>5, <1>6 DEF SkeletonInv

\* What the skeleton says of short sleeps.
LEMMA SkeletonHarmless == SkeletonInv => ShortSleepHarmless
<1> SUFFICES ASSUME SkeletonInv, NEW p \in Procs
             PROVE  /\ pc[p] \notin {"failed", "killed"}
                    /\ pc[p] = "spin" => \A q \in Children : i[q] > Iterations[q] /\ pc[q] # "loop"
  BY DEF ShortSleepHarmless
<1>1. p = PARENT_ID \/ p \in Children
  BY DEF Procs, Children, PARENT_ID
<1>2. pc[p] \notin {"failed", "killed"} /\ (pc[p] = "spin" => p \in Children)
  BY <1>1 DEF SkeletonInv, GoodLabels
<1>3. pc[p] = "spin" => \A q \in Children : Finished(q)
  BY <1>2 DEF SkeletonInv, LastToLeave
<1> QED
  BY <1>2, <1>3 DEF SkeletonInv, LastSends, Finished

-----------------------------------------------------------------------------
(* What the steps outside mutex.c leave to the algorithms *)

\* A step changes what is under way from s to t by nothing about critical sections.
QuietStep(s, t) ==
  \/ t = s
  \/ s # <<>> /\ Head(s).type \notin Talk /\ t = Tail(s)
  \/ \E m \in Message : m.type \notin Talk /\ t = Append(s, m)

\* Such a step adds and removes no message about them.
LEMMA QuietContains ==
  ASSUME NEW s \in Seq(Message), NEW t, QuietStep(s, t), NEW x \in Talk
  PROVE  Contains(t, x) <=> Contains(s, x)
<1>1. CASE s # <<>> /\ Head(s).type \notin Talk /\ t = Tail(s)
  <2>1. Head(s).type # x
    BY <1>1
  <2> QED
    BY <1>1, <2>1, ContainsTail
<1>2. ASSUME NEW m \in Message, m.type \notin Talk, t = Append(s, m)
      PROVE  Contains(t, x) <=> Contains(s, x)
  <2>1. m.type # x
    BY <1>2
  <2> QED
    BY <1>2, <2>1, ContainsAppend
<1> QED
  BY <1>1, <1>2 DEF QuietStep

\* A receive of another message is one.
LEMMA ReceiveQuiet ==
  ASSUME IpcTypeOK, NEW p \in Procs, NEW f \in Procs, receive(p, f), outbox' = outbox,
         Oldest(p, f).type \notin Talk
  PROVE  \A a, b \in Procs : QuietStep(Link(a, b), Link(a, b)')
<1>1. Link(f, p) # <<>> /\ Head(Link(f, p)).type \notin Talk
  BY LinkOldest
<1>2. \A a, b \in Procs : Link(a, b)' = IF a = f /\ b = p THEN Tail(Link(a, b)) ELSE Link(a, b)
  BY LinkReceive
<1> QED
  BY <1>1, <1>2 DEF QuietStep

\* So is a send loop of another message.
LEMMA PostQuiet ==
  ASSUME IpcTypeOK, NEW p \in Procs, ~Sending(p), NEW D, NEW m \in Message, Post(p, D, m),
         pipes' = pipes, m.type \notin Talk
  PROVE  \A a, b \in Procs : QuietStep(Link(a, b), Link(a, b)')
<1>1. \A a, b \in Procs : Link(a, b)' = IF a = p /\ b \in D THEN Append(Link(a, b), m) ELSE Link(a, b)
  BY LinkPost
<1> QED
  BY <1>1 DEF QuietStep

\* One round of ipc_ext_receive_all() takes no message about critical sections, or it fails.
LEMMA ReceiveAllQuiet ==
  ASSUME ChildInv, NEW p \in Procs, NEW type, type \notin Talk, NEW next, ReceiveAll(p, type, next)
  PROVE  /\ \A a, b \in Procs : \A x \in Talk : Carries(a, b, x)' => Carries(a, b, x)
         /\ pc'[p] # "failed" => \A a, b \in Procs : QuietStep(Link(a, b), Link(a, b)')
<1>0. IpcTypeOK /\ pc \in [Procs -> Label]
  BY DEF ChildInv, ChildTypeOK
<1>1. from[p] \in Procs /\ receive(p, from[p]) /\ outbox' = outbox
  BY NAssumption DEF ReceiveAll, ChildInv, ChildTypeOK, Procs, PARENT_ID
<1>2. \A a, b \in Procs : Link(a, b)' = IF a = from[p] /\ b = p THEN Tail(Link(a, b)) ELSE Link(a, b)
  BY <1>0, <1>1, LinkReceive
<1>3. Link(from[p], p) # <<>> /\ Link(from[p], p) \in Seq(Message)
  BY <1>0, <1>1, LinkOldest, LinkType
<1>4. \A a, b \in Procs : \A x \in Talk : Carries(a, b, x)' => Carries(a, b, x)
  BY <1>2, <1>3, ContainsTail DEF Carries
<1>5. pc'[p] # "failed" => Oldest(p, from[p]).type \notin Talk
  BY <1>0 DEF ReceiveAll, Goto
<1> QED
  BY <1>0, <1>1, <1>4, <1>5, ReceiveQuiet

\* The steps of child.c outside mutex.c, unless they end the child.
LEMMA ChildStepQuiet ==
  ASSUME ChildInv, NEW p \in Children, ChildStep(p)
  PROVE  /\ \A a, b \in Procs : \A x \in Talk : Carries(a, b, x)' => Carries(a, b, x)
         /\ pc'[p] \notin {"killed", "failed"}
              => \A a, b \in Procs : QuietStep(Link(a, b), Link(a, b)')
<1> USE ProcsFacts
<1>0. IpcTypeOK /\ pc \in [Procs -> Label] /\ lamport_time \in [Procs -> Nat] /\ p \in Procs
  BY DEF ChildInv, ChildTypeOK
<1>1. ASSUME \A a, b \in Procs : QuietStep(Link(a, b), Link(a, b)')
      PROVE  \A a, b \in Procs : \A x \in Talk : Carries(a, b, x)' => Carries(a, b, x)
  BY <1>0, <1>1, LinkType, QuietContains DEF Carries
<1>2. CASE Write(p)
  <2>1. CASE pc' = pc /\ \A a, b \in Procs : Link(a, b)' = Link(a, b)
    BY <2>1 DEF QuietStep, Carries
  <2>2. CASE /\ Goto(p, "killed")
             /\ \A a, b \in Procs :
                  \/ Link(a, b)' = Link(a, b)
                  \/ a = p /\ \E m \in Message : Link(a, b) = Append(Link(a, b)', m)
    <3>1. pc'[p] = "killed"
      BY <1>0, <2>2 DEF Goto
    <3>2. \A a, b \in Procs : Link(a, b)' \in Seq(Message)
      <4>1. IpcTypeOK'
        BY <1>0, <1>2, WriteType DEF ChildInv, ChildTypeOK
      <4> QED
        BY <4>1 DEF IpcTypeOK, Link
    <3>3. ASSUME NEW a \in Procs, NEW b \in Procs, NEW x \in Talk, Contains(Link(a, b)', x)
          PROVE  Contains(Link(a, b), x)
      <4>1. Link(a, b)' = Link(a, b) \/ \E m \in Message : Link(a, b) = Append(Link(a, b)', m)
        BY <2>2
      <4>2. ASSUME NEW m \in Message, Link(a, b) = Append(Link(a, b)', m) PROVE Contains(Link(a, b), x)
        <5> DEFINE t == Link(a, b)'
        <5>1. t \in Seq(Message) /\ Contains(t, x)
          BY <3>2, <3>3
        <5> HIDE DEF t
        <5>2. Contains(Append(t, m), x)
          BY <5>1, ContainsAppend
        <5> QED
          BY <4>2, <5>2 DEF t
      <4> QED
        BY <3>3, <4>1, <4>2
    <3> QED
      BY <3>1, <3>3 DEF Carries
  <2> QED
    BY <1>0, <1>2, <2>1, <2>2, LinkStepWrite
<1>3. CASE Start(p)
  <2>1. [type |-> "STARTED", time |-> lamport_time'[p]] \in Message
    BY <1>0, <1>3 DEF Start, Message, MessageType
  <2> QED
    BY <1>0, <1>1, <1>3, <2>1, PostQuiet DEF Start, send_multicast, Talk
<1>4. CASE AwaitStarted(p)
  BY <1>0, <1>4, ReceiveAllQuiet DEF AwaitStarted, Talk
<1>5. CASE SendDone(p)
  <2>1. [type |-> "DONE", time |-> lamport_time'[p]] \in Message
    BY <1>0, <1>5 DEF SendDone, Message, MessageType
  <2> QED
    BY <1>0, <1>1, <1>5, <2>1, PostQuiet DEF SendDone, send_multicast, Talk
<1>6. CASE UNCHANGED <<pipes, outbox>>
  BY <1>6 DEF QuietStep, Link, Carries
<1> QED
  BY <1>2, <1>3, <1>4, <1>5, <1>6 DEF ChildStep, PlainIteration, Exit, SpinOnEof

\* The clock of the child goes on, and it stays where it is in an iteration.
LEMMA ChildStepTurn ==
  ASSUME ChildInv, NEW p \in Children, ChildStep(p)
  PROVE  /\ \A c \in Procs : lamport_time[c] <= lamport_time'[c]
         /\ pc'[p] \in {"ask", "request", "cs"} => pc'[p] = pc[p]
         /\ pc[p] \in {"ask", "request", "cs"} => pc'[p] \in {pc[p], "killed", "spin"}
         /\ pc'[p] = "drain" => pc[p] = "drain" \/ mutexl
<1> USE ProcsFacts
<1>0. /\ IpcTypeOK /\ pc \in [Procs -> Label] /\ lamport_time \in [Procs -> Nat] /\ p \in Procs
      /\ \A c \in Procs : lamport_time[c] <= lamport_time[c]
  BY DEF ChildInv, ChildTypeOK
<1>1. CASE Write(p)
  BY <1>0, <1>1 DEF Write, Goto
<1>2. CASE Start(p)
  BY <1>0, <1>2 DEF Start, Goto
<1>3. CASE AwaitStarted(p)
  <2>1. from[p] \in Procs
    BY <1>3, NAssumption DEF AwaitStarted, ReceiveAll, ChildInv, ChildTypeOK, Procs, PARENT_ID
  <2>2. /\ Synchronized(lamport_time[p], Oldest(p, from[p]).time) \in Nat
        /\ Synchronized(lamport_time[p], Oldest(p, from[p]).time) > lamport_time[p]
    BY <1>0, <1>3, <2>1, ReceiveType, SynchronizedType DEF AwaitStarted, ReceiveAll
  <2>3. \A c \in Procs : lamport_time[c] <= lamport_time'[c]
    BY <1>0, <1>3, <2>2 DEF AwaitStarted, ReceiveAll
  <2>4. pc[p] = "await_started" /\ pc'[p] \in {"await_started", "loop", "failed"}
    BY <1>0, <1>3 DEF AwaitStarted, ReceiveAll, Goto
  <2> QED
    BY <2>3, <2>4
<1>4. CASE SendDone(p)
  BY <1>0, <1>4 DEF SendDone, Goto
<1>5. CASE PlainIteration(p) \/ Exit(p) \/ SpinOnEof(p)
  BY <1>0, <1>5 DEF PlainIteration, Exit, SpinOnEof, Goto
<1> QED
  BY <1>1, <1>2, <1>3, <1>4, <1>5 DEF ChildStep

\* With --mutexl a child does not leave its iteration this way.
LEMMA ChildStepStays ==
  ASSUME ChildInv, ChildInv', SkeletonInv, RepliesAwaited, mutexl, NEW p \in Children, ChildStep(p)
  PROVE  /\ SkeletonInv'
         /\ \A a, b \in Procs : QuietStep(Link(a, b), Link(a, b)')
         /\ \A c \in Procs : lamport_time[c] <= lamport_time'[c]
         /\ \A c \in Children \ {p} : pc'[c] = pc[c]
         /\ pc'[p] \in {"ask", "request", "cs"} \/ pc[p] \in {"ask", "request", "cs"} => pc'[p] = pc[p]
<1> USE ProcsFacts
<1>1. SkeletonInv'
  BY ChildStepSkeleton
<1>2. pc'[p] \notin {"killed", "failed"}
  BY <1>1 DEF SkeletonInv, GoodLabels
<1>3. \A c \in Children \ {p} : pc'[c] = pc[c]
  BY ChildStepFrame DEF ChildInv
<1>4. pc[p] \in {"ask", "request", "cs"} => pc'[p] # "spin"
  <2> SUFFICES ASSUME pc[p] \in {"ask", "request", "cs"}, pc'[p] = "spin" PROVE FALSE
    OBVIOUS
  <2>1. i[p] <= Iterations[p] /\ i'[p] > Iterations[p] /\ i[p] \in Nat /\ Iterations[p] \in Nat
    BY <1>1, ChildAssumption DEF ChildInv, ChildTypeOK, SkeletonInv, LastSends, Finished
  <2>2. i' = i \/ pc[p] = "loop"
    BY DEF ChildStep, Write, Start, AwaitStarted, ReceiveAll, PlainIteration, SendDone, Exit, SpinOnEof
  <2> QED
    BY <2>1, <2>2
<1> QED
  BY <1>1, <1>2, <1>3, <1>4, ChildStepQuiet, ChildStepTurn

\* The parent does nothing that concerns the children.
LEMMA ParentStepStays ==
  ASSUME ChildInv, ParentStep
  PROVE  /\ \A a \in Procs, b \in Children : Link(a, b)' = Link(a, b)
         /\ \A x \in Talk : \A a \in Procs : Carries(a, PARENT_ID, x)' => Carries(a, PARENT_ID, x)
         /\ \A c \in Children : lamport_time'[c] = lamport_time[c] /\ pc'[c] = pc[c]
<1> USE ProcsFacts
<1>0. /\ IpcTypeOK /\ pc \in [Procs -> Label] /\ lamport_time \in [Procs -> Nat]
  BY DEF ChildInv, ChildTypeOK
<1>1. CASE ParentSetUp \/ ParentExit
  BY <1>0, <1>1 DEF ParentSetUp, ParentExit, Goto, Link, Carries
<1>2. CASE ParentAwaitStarted \/ ParentAwaitDone
  <2>1. PICK type \in {"STARTED", "DONE"}, next \in Label : ReceiveAll(PARENT_ID, type, next)
    BY <1>2 DEF ParentAwaitStarted, ParentAwaitDone, Label
  <2>2. from[PARENT_ID] \in Procs /\ receive(PARENT_ID, from[PARENT_ID]) /\ outbox' = outbox
    BY <2>1, NAssumption DEF ReceiveAll, ChildInv, ChildTypeOK, Procs, PARENT_ID
  <2>3. \A a \in Procs, b \in Children : Link(a, b)' = Link(a, b)
    <3>1. \A a, b \in Procs : Link(a, b)' = IF a = from[PARENT_ID] /\ b = PARENT_ID THEN Tail(Link(a, b)) ELSE Link(a, b)
      BY <1>0, <2>2, LinkReceive
    <3> QED
      BY <3>1
  <2>4. \A c \in Children : lamport_time'[c] = lamport_time[c] /\ pc'[c] = pc[c]
    BY <1>0, <2>1 DEF ReceiveAll, Goto
  <2> QED
    BY <2>1, <2>3, <2>4, ReceiveAllQuiet DEF Talk
<1> QED
  BY <1>1, <1>2 DEF ParentStep

-----------------------------------------------------------------------------
(* Without --mutexl nobody asks for the critical section. *)

Plain ==
  /\ \A p \in Children : pc[p] \notin {"ask", "request", "cs", "drain"}
  /\ \A p, q \in Procs : \A x \in Talk : ~Carries(p, q, x)

\* Nothing is under way at first.
LEMMA PlainInit == ChildInit => Plain
<1> SUFFICES ASSUME ChildInit PROVE Plain
  OBVIOUS
<1>1. \A a, b \in Procs : Link(a, b) = <<>>
  BY DEF ChildInit, IpcInit, Link
<1> QED
  BY <1>1, ProcsFacts DEF Plain, Carries, Contains, ChildInit

\* The steps outside mutex.c send nothing about critical sections.
LEMMA PlainStep ==
  ASSUME ChildInv, ~mutexl, Plain, (\E p \in Children : ChildStep(p)) \/ ParentStep
  PROVE  Plain'
<1> USE ProcsFacts
<1>1. ASSUME NEW p \in Children, ChildStep(p) PROVE Plain'
  <2>1. \A c \in Children \ {p} : pc'[c] = pc[c]
    BY <1>1, ChildStepFrame DEF ChildInv
  <2>2. pc'[p] \notin {"ask", "request", "cs", "drain"}
    BY <1>1, ChildStepTurn DEF Plain
  <2>3. \A a, b \in Procs : \A x \in Talk : ~Carries(a, b, x)'
    BY <1>1, ChildStepQuiet DEF Plain
  <2> QED
    BY <2>1, <2>2, <2>3 DEF Plain
<1>2. ASSUME ParentStep PROVE Plain'
  <2>1. \A a, b \in Procs : \A x \in Talk : ~Carries(a, b, x)'
    BY <1>2, ParentStepStays DEF Plain, Carries, Procs, Children, PARENT_ID
  <2> QED
    BY <1>2, <2>1, ParentStepStays DEF Plain
<1> QED
  BY <1>1, <1>2

\* With --mutexl, what a receive loop takes is sent by a child.
LEMMA TakeFrom ==
  ASSUME ChildInv, SkeletonInv, NEW p \in Children, NEW f \in Procs \ {p}, NEW label, NEW types,
         Take(p, f, label, types)
  PROVE  /\ f \in Children /\ Link(f, p) \in Seq(Message) /\ Link(f, p) # <<>>
         /\ Oldest(p, f) = Head(Link(f, p)) /\ Oldest(p, f) \in Message
         /\ Head(Link(f, p)).type \in types
         /\ outbox' = outbox =>
              \A a, b \in Procs : Link(a, b)' = IF a = f /\ b = p THEN Tail(Link(a, b)) ELSE Link(a, b)
<1>0. p \in Procs /\ f \in Procs /\ IpcTypeOK /\ receive(p, f)
  BY ProcsFacts DEF ChildInv, ChildTypeOK, Take
<1>1. Link(f, p) # <<>> /\ Oldest(p, f) = Head(Link(f, p))
  BY <1>0, LinkOldest
<1>2. Link(f, p) \in Seq(Message)
  BY <1>0, LinkType
<1>3. f \in Children
  BY <1>0, <1>1 DEF SkeletonInv, ParentMail, Procs, Children, PARENT_ID
<1>4. outbox' = outbox =>
        \A a, b \in Procs : Link(a, b)' = IF a = f /\ b = p THEN Tail(Link(a, b)) ELSE Link(a, b)
  BY <1>0, LinkReceive
<1> QED
  BY <1>1, <1>2, <1>3, <1>4 DEF Take

\* So the messages that end a loop are DONE.
LEMMA TakeDone ==
  ASSUME ChildInv, SkeletonInv, NEW p \in Children, NEW f \in Procs \ {p}, NEW label, NEW types,
         Take(p, f, label, types), pc[p] \notin {"start", "spawn", "await_started"},
         Oldest(p, f).type \notin Talk
  PROVE  Oldest(p, f).type = "DONE"
<1>1. /\ f \in Children /\ Link(f, p) \in Seq(Message) /\ Link(f, p) # <<>>
      /\ Oldest(p, f) = Head(Link(f, p)) /\ Oldest(p, f) \in Message
  BY TakeFrom
<1>2. Phases(f, p) /\ Greeted(p, f)
  BY <1>1, ProcsFacts DEF SkeletonInv, LinkPhases, Greeted
<1>3. Head(Link(f, p)).type # "STARTED"
  BY <1>1, <1>2, ContainsTail DEF Phases, Carries
<1> QED
  BY <1>1, <1>3 DEF Message, MessageType, Talk

-----------------------------------------------------------------------------
(* How many messages are under way from one process to another.  A type is   *)
(* sent again only when the last message of that type has been received, and *)
(* some types exclude each other, so that their number is bounded.           *)

AtMostOne(s, type) == \A k, l \in 1..Len(s) : s[k].type = type /\ s[l].type = type => k = l

\* Nobody writes to itself.
NoSelfMail == \A p \in Procs : pipes[p][p] = <<>> /\ outbox[p][p] = NoMessage

\* A pipe holds at most what is under way.
LEMMA PipeInLink ==
  ASSUME IpcTypeOK, NEW p \in Procs, NEW q \in Procs
  PROVE  Len(pipes[p][q]) \in Nat /\ Len(Link(q, p)) \in Nat /\ Len(pipes[p][q]) <= Len(Link(q, p))
<1>1. pipes[p][q] \in Seq(Message) /\ (outbox[q][p] # NoMessage => outbox[q][p] \in Message)
  BY DEF IpcTypeOK
<1>2. CASE outbox[q][p] = NoMessage
  BY <1>1, <1>2 DEF Link
<1>3. CASE outbox[q][p] # NoMessage
  <2>1. Len(Append(pipes[p][q], outbox[q][p])) = Len(pipes[p][q]) + 1
    BY <1>1, <1>3
  <2> QED
    BY <1>1, <1>3, <2>1 DEF Link
<1> QED
  BY <1>2, <1>3

\* Every message of a sequence has one of the types.
LEMMA SequenceTypes ==
  ASSUME NEW s \in Seq(Message)
  PROVE  \A k \in 1..Len(s) : s[k].type \in MessageType
<1>1. \A k \in 1..Len(s) : s[k] \in Message
  OBVIOUS
<1> QED
  BY <1>1 DEF Message

\* Messages of two types, of each of them one at most, are two at most.
LEMMA TwoKinds ==
  ASSUME NEW s \in Seq(Message), NEW x, NEW y, AtMostOne(s, x), AtMostOne(s, y),
         \A k \in 1..Len(s) : s[k].type \in {x, y}
  PROVE  Len(s) <= 2
<1> SUFFICES ASSUME Len(s) > 2 PROVE FALSE
  OBVIOUS
<1>1. 1 \in 1..Len(s) /\ 2 \in 1..Len(s) /\ 3 \in 1..Len(s)
  OBVIOUS
<1>2. s[1].type \in {x, y} /\ s[2].type \in {x, y} /\ s[3].type \in {x, y}
  BY <1>1
<1> QED
  BY <1>1, <1>2 DEF AtMostOne

\* Messages of three types, of each of them one at most, are three at most.
LEMMA ThreeKinds ==
  ASSUME NEW s \in Seq(Message), NEW x, NEW y, NEW z, AtMostOne(s, x), AtMostOne(s, y), AtMostOne(s, z),
         \A k \in 1..Len(s) : s[k].type \in {x, y, z}
  PROVE  Len(s) <= 3
<1> SUFFICES ASSUME Len(s) > 3 PROVE FALSE
  OBVIOUS
<1>1. 1 \in 1..Len(s) /\ 2 \in 1..Len(s) /\ 3 \in 1..Len(s) /\ 4 \in 1..Len(s)
  OBVIOUS
<1>2. /\ s[1].type \in {x, y, z} /\ s[2].type \in {x, y, z}
      /\ s[3].type \in {x, y, z} /\ s[4].type \in {x, y, z}
  BY <1>1
<1> QED
  BY <1>1, <1>2 DEF AtMostOne

\* A step in which every process receives from others, or nothing, and posts nothing to itself.
LEMMA SelfKept ==
  ASSUME IpcTypeOK, NoSelfMail, NEW p \in Procs,
         pipes' = pipes \/ \E f \in Procs : receive(p, f),
         \A c \in Procs : outbox'[c][c] = outbox[c][c] \/ outbox'[c][c] = NoMessage
  PROVE  NoSelfMail'
<1>1. ASSUME NEW f \in Procs, receive(p, f) PROVE \A c \in Procs : pipes'[c][c] = <<>>
  <2>1. f # p
    BY <1>1 DEF NoSelfMail, receive
  <2>2. \A c \in Procs : pipes'[c][c] = pipes[c][c]
    BY <1>1, <2>1 DEF receive, IpcTypeOK
  <2> QED
    BY <2>2 DEF NoSelfMail
<1>2. \A c \in Procs : pipes'[c][c] = <<>>
  BY <1>1 DEF NoSelfMail
<1> QED
  BY <1>2 DEF NoSelfMail

\* What Post() leaves in the outboxes, as far as the own ones go.
LEMMA SelfPost ==
  ASSUME IpcTypeOK, NEW p \in Procs, NEW D, p \notin D, NEW m, Post(p, D, m) \/ PostEach(p, D, m)
  PROVE  \A c \in Procs : outbox'[c][c] = outbox[c][c] \/ outbox'[c][c] = NoMessage
<1>1. CASE Post(p, D, m)
  BY <1>1 DEF Post, IpcTypeOK
<1>2. CASE PostEach(p, D, m)
  BY <1>2 DEF PostEach, IpcTypeOK
<1> QED
  BY <1>1, <1>2

\* Nobody has written anything yet after the forks.
LEMMA SelfInit == ChildInit => NoSelfMail
BY DEF ChildInit, IpcInit, NoSelfMail

\* The multicasts leave out their sender.
LEMMA SelfChildStep ==
  ASSUME ChildInv, NoSelfMail, NEW p \in Children, ChildStep(p)
  PROVE  NoSelfMail'
<1> USE ProcsFacts
<1>0. IpcTypeOK /\ p \in Procs
  BY DEF ChildInv, ChildTypeOK
<1>1. CASE Write(p)
  <2>1. PICK d \in Procs : NextDst(p, d)
                           /\ IF HungUp(d)
                                THEN /\ outbox' = [outbox EXCEPT ![p] = [e \in Procs |-> NoMessage]]
                                     /\ UNCHANGED pipes
                                ELSE /\ pipes' = [pipes EXCEPT ![d][p] = Append(@, outbox[p][d])]
                                     /\ outbox' = [outbox EXCEPT ![p][d] = NoMessage]
    BY <1>1 DEF Write
  <2>2. d # p
    BY <1>0, <2>1 DEF NextDst, NoSelfMail
  <2>3. CASE HungUp(d)
    <3>1. outbox' = [outbox EXCEPT ![p] = [e \in Procs |-> NoMessage]] /\ pipes' = pipes
      BY <2>1, <2>3
    <3>2. \A c \in Procs : outbox'[c][c] = outbox[c][c] \/ outbox'[c][c] = NoMessage
      BY <1>0, <3>1 DEF IpcTypeOK
    <3> QED
      BY <3>1, <3>2 DEF NoSelfMail
  <2>4. CASE ~HungUp(d)
    <3>1. /\ outbox' = [outbox EXCEPT ![p][d] = NoMessage]
          /\ pipes' = [pipes EXCEPT ![d][p] = Append(@, outbox[p][d])]
      BY <2>1, <2>4
    <3>2. \A c \in Procs : outbox'[c][c] = outbox[c][c] \/ outbox'[c][c] = NoMessage
      BY <1>0, <3>1 DEF IpcTypeOK
    <3>3. \A c \in Procs : pipes'[c][c] = pipes[c][c]
      BY <1>0, <2>2, <3>1 DEF IpcTypeOK
    <3> QED
      BY <3>2, <3>3 DEF NoSelfMail
  <2> QED
    BY <2>3, <2>4
<1>2. CASE Start(p) \/ SendDone(p)
  <2>1. \E m : Post(p, Procs \ {p}, m)
    BY <1>2 DEF Start, SendDone, send_multicast
  <2>2. \A c \in Procs : outbox'[c][c] = outbox[c][c] \/ outbox'[c][c] = NoMessage
    BY <1>0, <2>1, SelfPost
  <2>3. pipes' = pipes
    BY <1>2 DEF Start, SendDone
  <2> QED
    BY <1>0, <2>2, <2>3, SelfKept
<1>3. CASE AwaitStarted(p)
  <2>1. from[p] \in Procs /\ receive(p, from[p]) /\ outbox' = outbox
    BY <1>3, NAssumption DEF AwaitStarted, ReceiveAll, ChildInv, ChildTypeOK, Procs, PARENT_ID
  <2> QED
    BY <1>0, <2>1, SelfKept
<1>4. CASE PlainIteration(p) \/ Exit(p) \/ SpinOnEof(p)
  BY <1>4 DEF PlainIteration, Exit, SpinOnEof, NoSelfMail
<1> QED
  BY <1>1, <1>2, <1>3, <1>4 DEF ChildStep

\* The parent writes nothing.
LEMMA SelfParentStep ==
  ASSUME ChildInv, NoSelfMail, ParentStep
  PROVE  NoSelfMail'
<1> USE ProcsFacts
<1>0. IpcTypeOK
  BY DEF ChildInv, ChildTypeOK
<1>1. CASE ParentSetUp \/ ParentExit
  BY <1>1 DEF ParentSetUp, ParentExit, NoSelfMail
<1>2. CASE ParentAwaitStarted \/ ParentAwaitDone
  <2>1. from[PARENT_ID] \in Procs /\ receive(PARENT_ID, from[PARENT_ID]) /\ outbox' = outbox
    BY <1>2, NAssumption
    DEF ParentAwaitStarted, ParentAwaitDone, ReceiveAll, ChildInv, ChildTypeOK, Procs, PARENT_ID
  <2> QED
    BY <1>0, <2>1, SelfKept
<1> QED
  BY <1>1, <1>2 DEF ParentStep

-----------------------------------------------------------------------------
(* Without --mutexl a child sends STARTED and DONE and nothing else, whatever *)
(* becomes of the others.                                                     *)

\* What p has sent to each of the others so far.
Sent(p) == IF pc[p] = "start" THEN 0 ELSE IF pc[p] \in {"await_started", "loop"} THEN 1 ELSE 2

Few ==
  /\ \A q \in Procs : Len(Link(PARENT_ID, q)) <= 0
  /\ \A p \in Children, q \in Procs : Len(Link(p, q)) <= Sent(p)

\* Nothing is sent at first.
LEMMA FewInit == ChildInit => Few
<1> SUFFICES ASSUME ChildInit PROVE Few
  OBVIOUS
<1>1. \A a, b \in Procs : Link(a, b) = <<>>
  BY DEF ChildInit, IpcInit, Link
<1> QED
  BY <1>1, ProcsFacts DEF Few, Sent

\* A step that sends nothing, or one message each on behalf of a child that goes on.
LEMMA FewKept ==
  ASSUME ChildInv, ChildInv', Few, NEW p \in Procs,
         \A c \in Procs \ {p} : pc'[c] = pc[c],
         p \in Children => Sent(p) <= Sent(p)',
         \/ \A a, b \in Procs : Len(Link(a, b)') <= Len(Link(a, b))
         \/ /\ p \in Children /\ Sent(p)' = Sent(p) + 1
            /\ \A a, b \in Procs : Len(Link(a, b)') <= IF a = p THEN Len(Link(a, b)) + 1 ELSE Len(Link(a, b))
  PROVE  Few'
<1> USE ProcsFacts
<1>1. \A a, b \in Procs : Len(Link(a, b)) \in Nat /\ Len(Link(a, b)') \in Nat
  BY PipeInLink DEF ChildInv, ChildTypeOK
<1>2. \A a \in Children : Sent(a) \in Nat /\ Sent(a)' \in Nat /\ (a # p => Sent(a)' = Sent(a))
  BY DEF Sent
<1>a. ASSUME NEW a \in Children PROVE Sent(a) <= Sent(a)'
  <2>1. CASE a = p
    BY <2>1
  <2>2. CASE a # p
    BY <1>2, <2>2
  <2> QED
    BY <2>1, <2>2
<1>3. ASSUME \A a, b \in Procs : Len(Link(a, b)') <= Len(Link(a, b)) PROVE Few'
  <2>1. ASSUME NEW q \in Procs PROVE Len(Link(PARENT_ID, q)') <= 0
    BY <1>1, <1>3 DEF Few
  <2>2. ASSUME NEW a \in Children, NEW q \in Procs PROVE Len(Link(a, q)') <= Sent(a)'
    <3>1. Len(Link(a, q)') <= Len(Link(a, q)) /\ Len(Link(a, q)) <= Sent(a)
      BY <1>3 DEF Few
    <3>2. Sent(a) <= Sent(a)'
      BY <1>a
    <3>3. /\ Len(Link(a, q)') \in Nat /\ Len(Link(a, q)) \in Nat
          /\ Sent(a) \in Nat /\ Sent(a)' \in Nat
      BY <1>1, <1>2
    <3> QED
      BY <3>1, <3>2, <3>3
  <2> QED
    BY <2>1, <2>2 DEF Few
<1>4. ASSUME p \in Children, Sent(p)' = Sent(p) + 1,
             \A a, b \in Procs : Len(Link(a, b)') <= IF a = p THEN Len(Link(a, b)) + 1 ELSE Len(Link(a, b))
      PROVE  Few'
  <2>1. ASSUME NEW q \in Procs PROVE Len(Link(PARENT_ID, q)') <= 0
    <3>1. Len(Link(PARENT_ID, q)') <= Len(Link(PARENT_ID, q)) /\ Len(Link(PARENT_ID, q)) <= 0
      BY <1>4 DEF Few
    <3> QED
      BY <1>1, <3>1
  <2>2. ASSUME NEW a \in Children, NEW q \in Procs PROVE Len(Link(a, q)') <= Sent(a)'
    <3>1. Len(Link(a, q)) <= Sent(a) /\ a \in Procs
      BY DEF Few
    <3>2. /\ Len(Link(a, q)') \in Nat /\ Len(Link(a, q)) \in Nat
          /\ Sent(a) \in Nat /\ Sent(a)' \in Nat
      BY <1>1, <1>2, <3>1
    <3>3. CASE a = p
      <4>1. Len(Link(a, q)') <= Len(Link(a, q)) + 1
        BY <1>4, <3>1, <3>3
      <4>2. Sent(a)' = Sent(a) + 1
        BY <1>4, <3>3
      <4> QED
        BY <3>1, <3>2, <4>1, <4>2
    <3>4. CASE a # p
      <4>1. Len(Link(a, q)') <= Len(Link(a, q))
        BY <1>4, <3>1, <3>4
      <4>2. Sent(a)' = Sent(a)
        BY <1>2, <3>4
      <4> QED
        BY <3>1, <3>2, <4>1, <4>2
    <3> QED
      BY <3>3, <3>4
  <2> QED
    BY <2>1, <2>2 DEF Few
<1> QED
  BY <1>3, <1>4

\* A receive leaves less under way.
LEMMA FewerReceived ==
  ASSUME IpcTypeOK, NEW p \in Procs, NEW f \in Procs, receive(p, f), outbox' = outbox
  PROVE  \A a, b \in Procs : Len(Link(a, b)') <= Len(Link(a, b))
<1> SUFFICES ASSUME NEW a \in Procs, NEW b \in Procs PROVE Len(Link(a, b)') <= Len(Link(a, b))
  OBVIOUS
<1>1. Link(a, b)' = IF a = f /\ b = p THEN Tail(Link(a, b)) ELSE Link(a, b)
  BY LinkReceive
<1>2. Link(a, b) \in Seq(Message)
  BY LinkType
<1>3. a = f /\ b = p => Link(a, b) # <<>>
  BY LinkOldest
<1> QED
  BY <1>1, <1>2, <1>3

\* The steps outside mutex.c.
LEMMA FewStep ==
  ASSUME ChildInv, ChildInv', Few, (\E p \in Children : ChildStep(p)) \/ ParentStep
  PROVE  Few'
<1> USE ProcsFacts
<1>0. IpcTypeOK /\ pc \in [Procs -> Label] /\ lamport_time \in [Procs -> Nat]
  BY DEF ChildInv, ChildTypeOK
<1>1. \A a, b \in Procs : Len(Link(a, b)) \in Nat /\ Link(a, b) \in Seq(Message) /\ Len(Link(a, b)) <= Len(Link(a, b))
  BY <1>0, LinkType, PipeInLink
<1>2. ASSUME NEW p \in Children, ChildStep(p) PROVE Few'
  <2>1. \A c \in Procs \ {p} : pc'[c] = pc[c]
    BY <1>0, <1>2
    DEF ChildStep, Write, Start, AwaitStarted, ReceiveAll, PlainIteration, SendDone, Exit, SpinOnEof, Goto
  <2>2. CASE Write(p)
    <3>1. \A a, b \in Procs : Len(Link(a, b)') <= Len(Link(a, b))
      <4>1. CASE \A a, b \in Procs : Link(a, b)' = Link(a, b)
        BY <1>1, <4>1
      <4>2. CASE \A a, b \in Procs :
                   \/ Link(a, b)' = Link(a, b)
                   \/ \E m \in Message : Link(a, b) = Append(Link(a, b)', m)
        <5>1. ASSUME NEW a \in Procs, NEW b \in Procs, NEW m \in Message, Link(a, b) = Append(Link(a, b)', m)
              PROVE  Len(Link(a, b)') <= Len(Link(a, b))
          <6> DEFINE t == Link(a, b)'
          <6>1. t \in Seq(Message)
            BY LinkType DEF ChildInv, ChildTypeOK, IpcTypeOK, Link
          <6> HIDE DEF t
          <6>2. Len(Append(t, m)) = Len(t) + 1 /\ Len(t) \in Nat
            BY <6>1
          <6>3. Len(Link(a, b)) = Len(t) + 1
            BY <5>1, <6>2 DEF t
          <6>4. Len(t) <= Len(Link(a, b))
            BY <6>2, <6>3
          <6> QED
            BY <6>4 DEF t
        <5> QED
          BY <1>1, <4>2, <5>1
      <4> QED
        BY <1>0, <2>2, <4>1, <4>2, LinkStepWrite
    <3>2. Sent(p) <= Sent(p)'
      BY <1>0, <2>2 DEF Write, Goto, Sent
    <3> QED
      BY <2>1, <3>1, <3>2, FewKept
  <2>3. CASE Start(p) \/ SendDone(p)
    <3>1. PICK m \in Message : Post(p, Procs \ {p}, m)
      <4>1. \A x \in {"STARTED", "DONE"} : [type |-> x, time |-> lamport_time[p] + 1] \in Message
        BY <1>0 DEF Message, MessageType
      <4>2. lamport_time'[p] = lamport_time[p] + 1
        BY <1>0, <2>3 DEF Start, SendDone
      <4> QED
        BY <2>3, <4>1, <4>2 DEF Start, SendDone, send_multicast
    <3>2. pipes' = pipes /\ ~Sending(p) /\ Sent(p)' = Sent(p) + 1
      BY <1>0, <2>3 DEF Start, SendDone, Goto, Sent
    <3>3. \A a, b \in Procs : Link(a, b)' = IF a = p /\ b \in Procs \ {p} THEN Append(Link(a, b), m) ELSE Link(a, b)
      BY <1>0, <3>1, <3>2, LinkPost
    <3>4. \A a, b \in Procs : Len(Link(a, b)') <= IF a = p THEN Len(Link(a, b)) + 1 ELSE Len(Link(a, b))
      <4> SUFFICES ASSUME NEW a \in Procs, NEW b \in Procs
                   PROVE  Len(Link(a, b)') <= IF a = p THEN Len(Link(a, b)) + 1 ELSE Len(Link(a, b))
        OBVIOUS
      <4>1. Len(Append(Link(a, b), m)) = Len(Link(a, b)) + 1 /\ Len(Link(a, b)) \in Nat
        BY <1>1
      <4>2. Link(a, b)' = Link(a, b) \/ (a = p /\ Link(a, b)' = Append(Link(a, b), m))
        BY <3>3
      <4> QED
        BY <4>1, <4>2
    <3>5. Sent(p) <= Sent(p)'
      BY <3>2 DEF Sent
    <3> QED
      BY <2>1, <3>2, <3>4, <3>5, FewKept
  <2>4. CASE AwaitStarted(p)
    <3>0. from[p] \in 1..(N + 1) /\ from[p] <= N /\ receive(p, from[p]) /\ outbox' = outbox
      BY <2>4 DEF AwaitStarted, ReceiveAll, ChildInv, ChildTypeOK
    <3>1. from[p] \in Procs /\ receive(p, from[p]) /\ outbox' = outbox
      BY <3>0, NAssumption DEF Procs, PARENT_ID
    <3>2. Sent(p) <= Sent(p)'
      BY <1>0, <2>4 DEF AwaitStarted, ReceiveAll, Goto, Sent
    <3> QED
      BY <1>0, <2>1, <3>1, <3>2, FewerReceived, FewKept
  <2>5. CASE PlainIteration(p) \/ Exit(p) \/ SpinOnEof(p)
    <3>1. \A a, b \in Procs : Link(a, b)' = Link(a, b)
      BY <2>5 DEF PlainIteration, Exit, SpinOnEof, Link
    <3>2. \A a, b \in Procs : Len(Link(a, b)') <= Len(Link(a, b))
      BY <1>1, <3>1
    <3>3. Sent(p) <= Sent(p)'
      BY <1>0, <2>5 DEF PlainIteration, Exit, SpinOnEof, Goto, Sent
    <3> QED
      BY <2>1, <3>2, <3>3, FewKept
  <2> QED
    BY <1>2, <2>2, <2>3, <2>4, <2>5 DEF ChildStep
<1>3. CASE ParentStep
  <2>1. \A c \in Procs \ {PARENT_ID} : pc'[c] = pc[c]
    BY <1>0, <1>3
    DEF ParentStep, ParentSetUp, ParentAwaitStarted, ParentAwaitDone, ReceiveAll, ParentExit, Goto
  <2>2. \A a, b \in Procs : Len(Link(a, b)') <= Len(Link(a, b))
    <3>1. CASE ParentSetUp \/ ParentExit
      <4>1. \A a, b \in Procs : Link(a, b)' = Link(a, b)
        BY <3>1 DEF ParentSetUp, ParentExit, Link
      <4> QED
        BY <1>1, <4>1
    <3>2. CASE ParentAwaitStarted \/ ParentAwaitDone
      <4>1. from[PARENT_ID] \in Procs /\ receive(PARENT_ID, from[PARENT_ID]) /\ outbox' = outbox
        BY <3>2, NAssumption
        DEF ParentAwaitStarted, ParentAwaitDone, ReceiveAll, ChildInv, ChildTypeOK, Procs, PARENT_ID
      <4> QED
        BY <1>0, <4>1, FewerReceived
    <3> QED
      BY <1>3, <3>1, <3>2 DEF ParentStep
  <2> QED
    BY <2>1, <2>2, FewKept
<1> QED
  BY <1>2, <1>3

\* So a pipe never holds more than a STARTED and a DONE.
LEMMA FewPipes ==
  ASSUME IpcTypeOK, Few
  PROVE  \A p, q \in Procs : Len(pipes[p][q]) <= 2
<1> SUFFICES ASSUME NEW p \in Procs, NEW q \in Procs PROVE Len(pipes[p][q]) <= 2
  OBVIOUS
<1>1. Len(pipes[p][q]) \in Nat /\ Len(Link(q, p)) \in Nat /\ Len(pipes[p][q]) <= Len(Link(q, p))
  BY PipeInLink
<1>2. Len(Link(q, p)) <= 2
  <2>1. CASE q = PARENT_ID
    BY <1>1, <2>1 DEF Few
  <2>2. CASE q \in Children
    <3>1. Len(Link(q, p)) <= Sent(q) /\ Sent(q) \in {0, 1, 2}
      BY <2>2 DEF Few, Sent
    <3> QED
      BY <1>1, <3>1
  <2> QED
    BY <2>1, <2>2 DEF Procs, Children, PARENT_ID
<1> QED
  BY <1>1, <1>2

-----------------------------------------------------------------------------
(* With --mutexl STARTED and DONE are sent once each, too. *)

\* What the phases say of the number of messages.
LEMMA PhaseKinds ==
  ASSUME ChildInv, SkeletonInv, NEW p \in Procs, NEW q \in Children \ {p}
  PROVE  /\ Link(q, p) \in Seq(Message)
         /\ AtMostOne(Link(q, p), "STARTED") /\ AtMostOne(Link(q, p), "DONE")
         /\ Greeted(p, q) => ~Carries(q, p, "STARTED")
         /\ Carries(q, p, "DONE") => Finished(q)
<1> DEFINE s == Link(q, p)
<1>0. s \in Seq(Message)
  BY LinkType, ProcsFacts DEF ChildInv, ChildTypeOK
<1>1. Phases(q, p)
  BY DEF SkeletonInv, LinkPhases
<1>2. AtMostOne(s, "STARTED")
  <2>1. CASE ~Contains(s, "STARTED")
    BY <2>1 DEF AtMostOne, Contains
  <2>2. CASE StartedFirst(s)
    <3> DEFINE t == Tail(s)
    <3>1. /\ s # <<>> /\ ~Contains(t, "STARTED")
          /\ Len(s) \in Nat \ {0} /\ Len(t) = Len(s) - 1
          /\ \A k \in 1..Len(s) : k # 1 => k - 1 \in 1..Len(t) /\ t[k - 1] = s[k]
      BY <1>0, <2>2 DEF StartedFirst
    <3> HIDE DEF s, t
    <3>2. \A k \in 1..Len(s) : s[k].type = "STARTED" => k = 1
      BY <3>1 DEF Contains
    <3> QED
      BY <3>2 DEF AtMostOne
  <2>3. ~Contains(s, "STARTED") \/ StartedFirst(s)
    <3>1. ~Contains(<<>>, "STARTED")
      BY DEF Contains
    <3> QED
      BY <1>1, <3>1 DEF Phases, Carries
  <2> QED
    BY <2>1, <2>2, <2>3
<1>3. AtMostOne(s, "DONE")
  BY <1>1 DEF Phases, AtMostOneDone, AtMostOne
<1> QED
  BY <1>0, <1>1, <1>2, <1>3 DEF Phases, Carries

\* Two messages are the most that go to the parent; the parent and a process itself send none.
LEMMA OuterPipes ==
  ASSUME ChildInv, SkeletonInv, NoSelfMail, NEW p \in Procs, NEW q \in Procs,
         p = q \/ p = PARENT_ID \/ q = PARENT_ID
  PROVE  Len(pipes[p][q]) <= 2
<1> USE ProcsFacts
<1>1. Len(pipes[p][q]) \in Nat /\ Len(Link(q, p)) \in Nat /\ Len(pipes[p][q]) <= Len(Link(q, p))
  BY PipeInLink DEF ChildInv, ChildTypeOK
<1>2. CASE p = q
  BY <1>2 DEF NoSelfMail
<1>3. CASE q = PARENT_ID
  <2>1. Len(Link(q, p)) = 0
    BY <1>3 DEF SkeletonInv, ParentMail
  <2> QED
    BY <1>1, <2>1
<1>4. CASE p = PARENT_ID /\ q \in Children
  <2> DEFINE s == Link(q, p)
  <2>1. s \in Seq(Message) /\ AtMostOne(s, "STARTED") /\ AtMostOne(s, "DONE")
    BY <1>4, PhaseKinds
  <2>2. \A x \in {"CS_REQUEST", "CS_REPLY", "CS_RELEASE"} : ~Contains(s, x)
    BY <1>4 DEF SkeletonInv, ParentMail, Carries
  <2> HIDE DEF s
  <2>3. \A k \in 1..Len(s) : s[k].type \in {"STARTED", "DONE"}
    <3>1. \A k \in 1..Len(s) : s[k].type \in MessageType
      BY <2>1, SequenceTypes
    <3>2. \A k \in 1..Len(s) : s[k].type \notin {"CS_REQUEST", "CS_REPLY", "CS_RELEASE"}
      BY <2>2 DEF Contains
    <3> QED
      BY <3>1, <3>2 DEF MessageType
  <2>4. Len(s) <= 2
    BY <2>1, <2>3, TwoKinds
  <2> QED
    BY <1>1, <2>4 DEF s
<1> QED
  BY <1>2, <1>3, <1>4 DEF Procs, Children, PARENT_ID

\* Between children: STARTED and replies exclude each other if only those that wait are sent
\* replies, and so do requests and DONE if only those that wait send requests.
LEMMA InnerPipes ==
  ASSUME ChildInv, SkeletonInv, NEW p \in Children, NEW q \in Children \ {p},
         AtMostOne(Link(q, p), "CS_REQUEST"), AtMostOne(Link(q, p), "CS_REPLY"),
         ~Carries(q, p, "CS_RELEASE"),
         Carries(q, p, "CS_REPLY") => pc[p] \in {"ask", "request"},
         Carries(q, p, "CS_REQUEST") => pc[q] \in {"ask", "request"}
  PROVE  Len(pipes[p][q]) <= 2
<1> USE ProcsFacts
<1> DEFINE s == Link(q, p)
<1>1. Len(pipes[p][q]) \in Nat /\ Len(s) \in Nat /\ Len(pipes[p][q]) <= Len(s)
  BY PipeInLink DEF ChildInv, ChildTypeOK
<1>2. /\ s \in Seq(Message) /\ AtMostOne(s, "STARTED") /\ AtMostOne(s, "DONE")
      /\ Greeted(p, q) => ~Contains(s, "STARTED")
      /\ Contains(s, "DONE") => Finished(q)
  BY PhaseKinds DEF Carries
<1>3. ~(Contains(s, "STARTED") /\ Contains(s, "CS_REPLY"))
  BY <1>2 DEF Greeted, Carries
<1>4. ~(Contains(s, "DONE") /\ Contains(s, "CS_REQUEST"))
  BY <1>2 DEF Finished, Carries
<1>5. ~Contains(s, "CS_RELEASE") /\ AtMostOne(s, "CS_REQUEST") /\ AtMostOne(s, "CS_REPLY")
  BY DEF Carries
<1> HIDE DEF s
<1>a. \A k \in 1..Len(s) : s[k].type \in MessageType
  BY <1>2, SequenceTypes
<1>6. \A k \in 1..Len(s) : /\ s[k].type \in MessageType
                           /\ s[k].type = "CS_RELEASE" => Contains(s, "CS_RELEASE")
                           /\ s[k].type = "STARTED" => Contains(s, "STARTED")
                           /\ s[k].type = "CS_REPLY" => Contains(s, "CS_REPLY")
                           /\ s[k].type = "DONE" => Contains(s, "DONE")
                           /\ s[k].type = "CS_REQUEST" => Contains(s, "CS_REQUEST")
  BY <1>a DEF Contains
<1>7. PICK x \in {"STARTED", "CS_REPLY"}, y \in {"DONE", "CS_REQUEST"} :
        \A k \in 1..Len(s) : s[k].type \in {x, y}
  <2>1. PICK x \in {"STARTED", "CS_REPLY"} : \A z \in {"STARTED", "CS_REPLY"} : Contains(s, z) => z = x
    BY <1>3
  <2>2. PICK y \in {"DONE", "CS_REQUEST"} : \A z \in {"DONE", "CS_REQUEST"} : Contains(s, z) => z = y
    BY <1>4
  <2>3. \A k \in 1..Len(s) : s[k].type \in {x, y}
    BY <1>5, <1>6, <2>1, <2>2 DEF MessageType
  <2> QED
    BY <2>3
<1>8. Len(s) <= 2
  BY <1>2, <1>5, <1>7, TwoKinds
<1> QED
  BY <1>1, <1>8 DEF s

\* What is needed besides the invariants of the algorithms.
MailInv == NoSelfMail /\ (~mutexl => Few)

\* It holds at first,
LEMMA MailInit == ChildInit => MailInv
BY SelfInit, FewInit DEF MailInv

\* and the steps outside mutex.c keep it.
LEMMA MailStep ==
  ASSUME ChildInv, ChildInv', MailInv, (\E p \in Children : ChildStep(p)) \/ ParentStep
  PROVE  MailInv'
BY SelfChildStep, SelfParentStep, FewStep DEF MailInv

\* So does a receive of mutex.c.
LEMMA SelfTake ==
  ASSUME IpcTypeOK, NoSelfMail, NEW p \in Children, NEW f \in Procs \ {p}, NEW label, NEW types,
         Take(p, f, label, types),
         \A c \in Procs : outbox'[c][c] = outbox[c][c] \/ outbox'[c][c] = NoMessage
  PROVE  NoSelfMail'
BY SelfKept, ProcsFacts DEF Take

=============================================================================
