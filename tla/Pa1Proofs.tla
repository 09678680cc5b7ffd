------------------------------ MODULE Pa1Proofs ------------------------------
(***************************************************************************)
(* Proofs about pa1: its program, BarrierProgram, for every number of      *)
(* children, and its ipcio.c, IpcBytes, for every set of messages.         *)
(***************************************************************************)
EXTENDS BarrierProgram, IpcBytes, SequenceTheorems, WellFoundedInduction, TLAPS

-----------------------------------------------------------------------------
(* The message layer: its types, and how the steps of a process change what *)
(* is under way.                                                            *)

\* The parent is not a child.
LEMMA ProcsFacts == Children \subseteq Procs /\ PARENT_ID \in Procs /\ PARENT_ID \notin Children
BY NAssumption DEF Children, Procs, PARENT_ID

\* A receive() leaves whole messages in the pipe and returns one.
LEMMA ReceiveType ==
  ASSUME IpcTypeOK, NEW p \in Procs, NEW f \in Procs, receive(p, f)
  PROVE  /\ pipes' \in [Procs -> [Procs -> Seq(Message)]]
         /\ Oldest(p, f) \in Message
         /\ Oldest(p, f).type \in MessageType
         /\ Oldest(p, f).time \in Nat
<1>1. pipes[p][f] \in Seq(Message) /\ pipes[p][f] # <<>>
  BY DEF IpcTypeOK, receive
<1>2. Head(pipes[p][f]) \in Message /\ Tail(pipes[p][f]) \in Seq(Message)
  BY <1>1
<1>3. pipes' \in [Procs -> [Procs -> Seq(Message)]]
  BY <1>2 DEF IpcTypeOK, receive
<1> QED
  BY <1>2, <1>3 DEF Oldest, Message

\* A send loop starts with messages.
LEMMA PostType ==
  ASSUME IpcTypeOK, NEW p \in Procs, NEW D, NEW m \in Message, Post(p, D, m)
  PROVE  outbox' \in [Procs -> [Procs -> Message \cup {NoMessage}]]
BY DEF IpcTypeOK, Post

\* What is under way between two processes is a sequence of messages.
LEMMA LinkType ==
  ASSUME IpcTypeOK, NEW p \in Procs, NEW q \in Procs
  PROVE  Link(p, q) \in Seq(Message)
BY DEF IpcTypeOK, Link

\* A write() moves a message from the send loop to the pipe: nothing under way
\* changes.
LEMMA LinkWrite ==
  ASSUME IpcTypeOK, NEW p \in Procs, NEW d \in Procs, outbox[p][d] # NoMessage,
         pipes' = [pipes EXCEPT ![d][p] = Append(@, outbox[p][d])],
         outbox' = [outbox EXCEPT ![p][d] = NoMessage]
  PROVE  \A a, b \in Procs : Link(a, b)' = Link(a, b)
<1> SUFFICES ASSUME NEW a \in Procs, NEW b \in Procs PROVE Link(a, b)' = Link(a, b)
  OBVIOUS
<1>1. pipes'[b][a] = IF b = d /\ a = p THEN Append(pipes[b][a], outbox[p][d]) ELSE pipes[b][a]
  BY DEF IpcTypeOK
<1>2. outbox'[a][b] = IF b = d /\ a = p THEN NoMessage ELSE outbox[a][b]
  BY DEF IpcTypeOK
<1> QED
  BY <1>1, <1>2 DEF Link

\* The oldest message of a pipe is the oldest message under way.
LEMMA LinkOldest ==
  ASSUME IpcTypeOK, NEW p \in Procs, NEW f \in Procs, receive(p, f)
  PROVE  /\ Link(f, p) # <<>>
         /\ Oldest(p, f) = Head(Link(f, p))
         /\ outbox'[f][p] = outbox[f][p] => Link(f, p)' = Tail(Link(f, p))
<1> DEFINE s == pipes[p][f]  m == outbox[f][p]
<1>1. s \in Seq(Message) /\ s # <<>> /\ pipes'[p][f] = Tail(s) /\ (m # NoMessage => m \in Message)
  BY DEF IpcTypeOK, receive
<1>2. m # NoMessage => /\ Append(s, m) # <<>>
                       /\ Head(Append(s, m)) = Head(s)
                       /\ Tail(Append(s, m)) = Append(Tail(s), m)
  BY <1>1
<1> QED
  BY <1>1, <1>2 DEF Link, Oldest

\* A receive() takes the oldest message of one link.
LEMMA LinkReceive ==
  ASSUME IpcTypeOK, NEW p \in Procs, NEW f \in Procs, receive(p, f), outbox' = outbox
  PROVE  \A a, b \in Procs : Link(a, b)' = IF a = f /\ b = p THEN Tail(Link(a, b)) ELSE Link(a, b)
<1> SUFFICES ASSUME NEW a \in Procs, NEW b \in Procs, ~(a = f /\ b = p) PROVE Link(a, b)' = Link(a, b)
  BY LinkOldest
<1>1. pipes'[b][a] = pipes[b][a]
  BY DEF IpcTypeOK, receive
<1> QED
  BY <1>1 DEF Link

\* NoMessage is none.
LEMMA NoMessageIsNone == NoMessage \notin Message
BY DEF NoMessage, Message, MessageType

\* The sends of a loop are under way as soon as it starts.
LEMMA LinkPost ==
  ASSUME IpcTypeOK, NEW p \in Procs, ~Sending(p), NEW D, NEW m \in Message, Post(p, D, m),
         pipes' = pipes
  PROVE  \A a, b \in Procs : Link(a, b)' = IF a = p /\ b \in D THEN Append(Link(a, b), m) ELSE Link(a, b)
<1> SUFFICES ASSUME NEW a \in Procs, NEW b \in Procs
             PROVE  Link(a, b)' = IF a = p /\ b \in D THEN Append(Link(a, b), m) ELSE Link(a, b)
  OBVIOUS
<1>1. outbox'[a][b] = IF a = p THEN IF b \in D THEN m ELSE NoMessage ELSE outbox[a][b]
  BY DEF Post, IpcTypeOK
<1>2. a = p => outbox[a][b] = NoMessage
  BY DEF Sending
<1> QED
  BY <1>1, <1>2, NoMessageIsNone DEF Link

-----------------------------------------------------------------------------
(* What is under way.  A child says STARTED and DONE once each, to everybody, *)
(* and hears them once each from everybody; between two processes there is   *)
(* exactly what one has said and the other has not heard.                    *)

Said(type) == [type |-> type, time |-> 0]

SaidStarted(c) == pc[c] # "start"
SaidDone(c) == pc[c] \in {"await_done", "exited"}

HeardStarted(q, c) ==
  \/ pc[q] \in {"broadcast_done", "await_done", "wait", "exited"}
  \/ pc[q] = "await_started" /\ c < from[q]

HeardDone(q, c) ==
  \/ pc[q] \in {"wait", "exited"}
  \/ pc[q] = "await_done" /\ c < from[q]

Unheard(started, done) ==
  IF started
    THEN IF done THEN <<Said("STARTED"), Said("DONE")>> ELSE <<Said("STARTED")>>
    ELSE IF done THEN <<Said("DONE")>> ELSE <<>>

UnderWay(c, q) ==
  /\ HeardStarted(q, c) => SaidStarted(c)
  /\ HeardDone(q, c) => SaidDone(c)
  /\ Link(c, q) = Unheard(SaidStarted(c) /\ ~HeardStarted(q, c), SaidDone(c) /\ ~HeardDone(q, c))

\* Nobody fails or is killed, and a cursor that is not in use is where the next loop starts.
GoodProgress ==
  /\ \A c \in Children : pc[c] \in {"start", "await_started", "broadcast_done", "await_done", "exited"}
  /\ pc[PARENT_ID] \in {"spawn", "await_started", "await_done", "wait", "exited"}
  /\ \A p \in Procs : /\ Sending(p) => pc[p] \in {"await_started", "await_done"}
                      /\ pc[p] \in {"spawn", "start", "broadcast_done"} => from[p] = NextFrom(p, PARENT_ID)
                      /\ from[p] # p

BarrierInv ==
  /\ TypeOK
  /\ GoodProgress
  /\ \A c \in Children : \A q \in Procs \ {c} : UnderWay(c, q)

\* What is said goes to the end, what is heard is taken from the front.
LEMMA UnheardFacts ==
  /\ Unheard(FALSE, FALSE) = <<>>
  /\ Append(Unheard(FALSE, FALSE), Said("STARTED")) = Unheard(TRUE, FALSE)
  /\ \A s \in BOOLEAN :
       /\ Append(Unheard(s, FALSE), Said("DONE")) = Unheard(s, TRUE)
       /\ Unheard(s, TRUE) # <<>>
       /\ Unheard(TRUE, s) # <<>>
       /\ Head(Unheard(TRUE, s)) = Said("STARTED")
       /\ Tail(Unheard(TRUE, s)) = Unheard(FALSE, s)
  /\ Head(Unheard(FALSE, TRUE)) = Said("DONE")
  /\ Tail(Unheard(FALSE, TRUE)) = Unheard(FALSE, FALSE)
<1>1. Said("STARTED") \in Message /\ Said("DONE") \in Message
  BY DEF Said, Message, MessageType
<1> DEFINE x == Said("STARTED")  y == Said("DONE")
<1> HIDE DEF x, y
<1>2. x \in Message /\ y \in Message
  BY <1>1 DEF x, y
<1>3. <<>> \in Seq(Message) /\ <<x>> \in Seq(Message) /\ <<y>> \in Seq(Message) /\ <<x, y>> \in Seq(Message)
  BY <1>2
<1>4. Append(<<>>, x) = <<x>> /\ Append(<<>>, y) = <<y>> /\ Append(<<x>>, y) = <<x, y>>
  <2>1. ASSUME NEW z \in Message PROVE Append(<<>>, z) = <<z>>
    <3> DEFINE s == Append(<<>>, z)  t == <<z>>
    <3>1. s \in Seq(Message) /\ t \in Seq(Message) /\ Len(s) = 1 /\ Len(t) = 1 /\ s[1] = z /\ t[1] = z
      OBVIOUS
    <3> HIDE DEF s, t
    <3>2. \A k \in 1..Len(s) : s[k] = t[k]
      BY <3>1
    <3>3. s = t
      BY <3>1, <3>2, SeqEqual
    <3> QED
      BY <3>3 DEF s, t
  <2>2. Append(<<x>>, y) = <<x, y>>
    <3> DEFINE s == Append(<<x>>, y)  t == <<x, y>>
    <3>1. /\ s \in Seq(Message) /\ t \in Seq(Message) /\ Len(s) = 2 /\ Len(t) = 2
          /\ s[1] = x /\ t[1] = x /\ s[2] = y /\ t[2] = y
      BY <1>2, <1>3
    <3> HIDE DEF s, t
    <3>2. \A k \in 1..Len(s) : s[k] = t[k]
      BY <3>1
    <3>3. s = t
      BY <3>1, <3>2, SeqEqual
    <3> QED
      BY <3>3 DEF s, t
  <2> QED
    BY <1>2, <2>1, <2>2
<1>5. Head(<<x>>) = x /\ Head(<<y>>) = y /\ Head(<<x, y>>) = x
  BY <1>2, <1>3
<1>6. Tail(<<x>>) = <<>> /\ Tail(<<y>>) = <<>> /\ Tail(<<x, y>>) = <<y>>
  BY <1>2, <1>3
<1>7. <<x>> # <<>> /\ <<y>> # <<>> /\ <<x, y>> # <<>>
  BY <1>2, <1>3
<1> QED
  BY <1>4, <1>5, <1>6, <1>7 DEF Unheard, x, y

\* The cursor comes to every other process in turn, and to no process twice.
LEMMA CursorNext ==
  ASSUME NEW p \in Procs, NEW f \in PARENT_ID..N, f = PARENT_ID \/ f # p
  PROVE  /\ NextFrom(p, f) \in 1..(N + 1) /\ NextFrom(p, f) # p
         /\ \A c \in Children \ {p} : c < NextFrom(p, f) <=> c < f \/ c = f
BY NAssumption DEF NextFrom, Procs, Children, PARENT_ID

\* A link depends on these facts only.
LEMMA UnderWayKept ==
  ASSUME NEW c, NEW q, UnderWay(c, q), Link(c, q)' = Link(c, q),
         SaidStarted(c)' <=> SaidStarted(c), SaidDone(c)' <=> SaidDone(c),
         HeardStarted(q, c)' <=> HeardStarted(q, c), HeardDone(q, c)' <=> HeardDone(q, c)
  PROVE  UnderWay(c, q)'
<1>1. (SaidStarted(c) /\ ~HeardStarted(q, c))' = (SaidStarted(c) /\ ~HeardStarted(q, c))
  BY DEF SaidStarted, HeardStarted
<1>2. (SaidDone(c) /\ ~HeardDone(q, c))' = (SaidDone(c) /\ ~HeardDone(q, c))
  BY DEF SaidDone, HeardDone
<1> QED
  BY <1>1, <1>2 DEF UnderWay

\* At first nothing has been said.
LEMMA InitBarrier == Init => BarrierInv
<1> SUFFICES ASSUME Init PROVE BarrierInv
  OBVIOUS
<1> USE ProcsFacts
<1>1. \A p \in Procs : NextFrom(p, PARENT_ID) \in 1..(N + 1) /\ NextFrom(p, PARENT_ID) # p
  BY CursorNext, NAssumption DEF PARENT_ID
<1>2. TypeOK
  BY <1>1 DEF Init, IpcInit, TypeOK, IpcTypeOK, Label
<1>3. GoodProgress
  BY <1>1 DEF Init, IpcInit, GoodProgress, Sending
<1>4. ASSUME NEW c \in Children, NEW q \in Procs \ {c} PROVE UnderWay(c, q)
  <2>1. Link(c, q) = <<>> /\ pc[c] = "start" /\ pc[q] \in {"start", "spawn"}
    BY DEF Init, IpcInit, Link
  <2> QED
    BY <2>1 DEF UnderWay, Unheard, SaidStarted, SaidDone, HeardStarted, HeardDone
<1> QED
  BY <1>2, <1>3, <1>4 DEF BarrierInv

\* A step of p in which nobody else moves is to be looked at from p only.
LEMMA BarrierStep ==
  ASSUME BarrierInv, NEW p \in Procs, TypeOK',
         \A r \in Procs \ {p} : pc'[r] = pc[r] /\ from'[r] = from[r] /\ outbox'[r] = outbox[r],
         \A c \in Children \ {p} : \A q \in Procs \ {c, p} : Link(c, q)' = Link(c, q),
         p \in Children => /\ pc'[p] \in {"start", "await_started", "broadcast_done", "await_done", "exited"}
                           /\ \A q \in Procs \ {p} : UnderWay(p, q)',
         p = PARENT_ID => pc'[p] \in {"spawn", "await_started", "await_done", "wait", "exited"},
         Sending(p)' => pc'[p] \in {"await_started", "await_done"},
         pc'[p] \in {"spawn", "start", "broadcast_done"} => from'[p] = NextFrom(p, PARENT_ID),
         from'[p] # p,
         \A c \in Children \ {p} : UnderWay(c, p)'
  PROVE  BarrierInv'
<1> USE ProcsFacts
<1>1. \A r \in Procs \ {p} : Sending(r)' <=> Sending(r)
  BY DEF Sending
<1>2. GoodProgress'
  BY <1>1 DEF BarrierInv, GoodProgress
<1>3. ASSUME NEW c \in Children, NEW q \in Procs \ {c} PROVE UnderWay(c, q)'
  <2>1. CASE c = p \/ q = p
    BY <2>1
  <2>2. CASE c # p /\ q # p
    <3>1. UnderWay(c, q) /\ Link(c, q)' = Link(c, q) /\ pc'[c] = pc[c] /\ pc'[q] = pc[q] /\ from'[q] = from[q]
      BY <2>2 DEF BarrierInv
    <3> QED
      BY <3>1, UnderWayKept DEF SaidStarted, SaidDone, HeardStarted, HeardDone
  <2> QED
    BY <2>1, <2>2
<1> QED
  BY <1>2, <1>3 DEF BarrierInv

\* A write() goes to a process that is still running: one that has heard everything from
\* the writer has nothing more to come.
LEMMA WriteBarrier ==
  ASSUME BarrierInv, NEW p \in Children, Write(p)
  PROVE  BarrierInv' /\ pc' = pc
<1> USE ProcsFacts
<1>0. IpcTypeOK /\ GoodProgress /\ p \in Procs
  BY DEF BarrierInv, TypeOK
<1>1. PICK d \in Procs :
        /\ NextDst(p, d)
        /\ ~HungUp(d) => /\ pipes' = [pipes EXCEPT ![d][p] = Append(@, outbox[p][d])]
                         /\ outbox' = [outbox EXCEPT ![p][d] = NoMessage]
                         /\ pc' = pc
        /\ from' = from
  BY DEF Write
<1>2. outbox[p][d] # NoMessage /\ Sending(p) /\ pc[p] \in {"await_started", "await_done"}
  BY <1>0, <1>1 DEF NextDst, Sending, GoodProgress
<1>3. outbox[p][d] \in Message /\ pipes[d][p] \in Seq(Message)
  BY <1>0, <1>2 DEF IpcTypeOK
<1>4. ~HungUp(d)
  <2> SUFFICES ASSUME Gone(d) PROVE FALSE
    BY DEF HungUp
  <2>1. pc[d] = "exited" /\ d # p
    BY <1>0, <1>2 DEF Gone, GoodProgress, Procs, Children, PARENT_ID
  <2>2. Link(p, d) = <<>>
    BY <2>1, UnheardFacts DEF BarrierInv, UnderWay, HeardStarted, HeardDone
  <2>3. Append(pipes[d][p], outbox[p][d]) # <<>>
    BY <1>3
  <2> QED
    BY <1>2, <2>2, <2>3 DEF Link
<1>5. \A a, b \in Procs : Link(a, b)' = Link(a, b)
  BY <1>0, <1>1, <1>2, <1>4, LinkWrite
<1>6. TypeOK'
  <2>1. Append(pipes[d][p], outbox[p][d]) \in Seq(Message)
    BY <1>3
  <2>2. /\ pipes' = [pipes EXCEPT ![d][p] = Append(@, outbox[p][d])]
        /\ outbox' = [outbox EXCEPT ![p][d] = NoMessage]
    BY <1>1, <1>4
  <2>3. pipes' \in [Procs -> [Procs -> Seq(Message)]]
    BY <1>0, <2>1, <2>2 DEF IpcTypeOK
  <2>4. outbox' \in [Procs -> [Procs -> Message \cup {NoMessage}]]
    BY <1>0, <2>2 DEF IpcTypeOK
  <2> QED
    BY <1>1, <1>4, <2>3, <2>4 DEF BarrierInv, TypeOK, IpcTypeOK
<1>7. \A c \in Children : \A q \in Procs \ {c} : UnderWay(c, q)'
  <2> SUFFICES ASSUME NEW c \in Children, NEW q \in Procs \ {c} PROVE UnderWay(c, q)'
    OBVIOUS
  <2>1. UnderWay(c, q) /\ Link(c, q)' = Link(c, q) /\ pc' = pc /\ from' = from
    BY <1>1, <1>4, <1>5 DEF BarrierInv
  <2> QED
    BY <2>1, UnderWayKept DEF SaidStarted, SaidDone, HeardStarted, HeardDone
<1>8. GoodProgress'
  <2>1. ASSUME NEW r \in Procs, Sending(r)' PROVE Sending(r)
    <3>1. outbox' = [outbox EXCEPT ![p][d] = NoMessage] /\ outbox \in [Procs -> [Procs -> Message \cup {NoMessage}]]
      BY <1>0, <1>1, <1>4 DEF IpcTypeOK
    <3>2. PICK e \in Procs : outbox'[r][e] # NoMessage
      BY <2>1 DEF Sending
    <3>3. outbox[r][e] # NoMessage
      BY <3>1, <3>2
    <3> QED
      BY <3>3 DEF Sending
  <2> QED
    BY <1>0, <1>1, <1>4, <2>1 DEF GoodProgress
<1> QED
  BY <1>1, <1>4, <1>6, <1>7, <1>8 DEF BarrierInv

\* A multicast makes what is said go to everybody who has not heard it yet.
LEMMA BroadcastBarrier ==
  ASSUME BarrierInv, NEW p \in Children,
         NEW type \in {"STARTED", "DONE"}, NEW label, NEW next,
         \/ type = "STARTED" /\ label = "start" /\ next = "await_started"
         \/ type = "DONE" /\ label = "broadcast_done" /\ next = "await_done",
         Broadcast(p, type, label, next)
  PROVE  BarrierInv' /\ pc[p] = label /\ pc' = [pc EXCEPT ![p] = next]
<1> USE ProcsFacts
<1>0. IpcTypeOK /\ GoodProgress /\ p \in Procs /\ pc \in [Procs -> Label] /\ TypeOK
  BY DEF BarrierInv, TypeOK
<1> DEFINE m == Said(type)
<1>1. /\ pc[p] = label /\ ~Sending(p) /\ Post(p, Procs \ {p}, m)
      /\ pc' = [pc EXCEPT ![p] = next] /\ pipes' = pipes /\ from' = from
  BY DEF Broadcast, send_multicast, Goto, Said
<1>2. m \in Message
  BY DEF Said, Message, MessageType
<1> HIDE DEF m
<1>3. \A a, b \in Procs : Link(a, b)' = IF a = p /\ b \in Procs \ {p} THEN Append(Link(a, b), m) ELSE Link(a, b)
  BY <1>0, <1>1, <1>2, LinkPost
<1>4. TypeOK'
  <2>1. IpcTypeOK'
    BY <1>0, <1>1, <1>2, PostType DEF IpcTypeOK
  <2>2. next \in Label
    BY DEF Label
  <2> QED
    BY <1>0, <1>1, <2>1, <2>2 DEF TypeOK
<1>5. /\ \A r \in Procs \ {p} : pc'[r] = pc[r] /\ from'[r] = from[r] /\ outbox'[r] = outbox[r]
      /\ pc'[p] = next
  BY <1>0, <1>1 DEF Post, IpcTypeOK
<1>6. from[p] = NextFrom(p, PARENT_ID) /\ from[p] # p
  BY <1>0, <1>1 DEF GoodProgress
<1>7. \A c \in Children \ {p} : ~(c < from[p])
  BY <1>6, CursorNext, NAssumption DEF Children, PARENT_ID, Procs
<1>8. ASSUME NEW q \in Procs \ {p} PROVE UnderWay(p, q)'
  <2>1. UnderWay(p, q) /\ Link(p, q)' = Append(Link(p, q), m) /\ pc'[q] = pc[q] /\ from'[q] = from[q]
    BY <1>0, <1>3, <1>5 DEF BarrierInv
  <2>2. (HeardStarted(q, p)' <=> HeardStarted(q, p)) /\ (HeardDone(q, p)' <=> HeardDone(q, p))
    BY <2>1 DEF HeardStarted, HeardDone
  <2>3. CASE type = "STARTED"
    <3>1. /\ ~SaidStarted(p) /\ ~SaidDone(p) /\ SaidStarted(p)' /\ ~SaidDone(p)'
          /\ ~HeardStarted(q, p) /\ ~HeardDone(q, p)
      BY <1>1, <1>5, <2>1, <2>3 DEF SaidStarted, SaidDone, UnderWay
    <3>2. Link(p, q) = Unheard(FALSE, FALSE)
      BY <2>1, <3>1 DEF UnderWay
    <3>3. Link(p, q)' = Unheard(TRUE, FALSE)
      BY <2>1, <2>3, <3>2, UnheardFacts DEF m
    <3> QED
      BY <2>2, <3>1, <3>3 DEF UnderWay
  <2>4. CASE type = "DONE"
    <3>1. /\ SaidStarted(p) /\ ~SaidDone(p) /\ SaidStarted(p)' /\ SaidDone(p)'
          /\ ~HeardDone(q, p)
      BY <1>1, <1>5, <2>1, <2>4 DEF SaidStarted, SaidDone, UnderWay
    <3>2. Link(p, q) = Unheard(~HeardStarted(q, p), FALSE)
      BY <2>1, <3>1 DEF UnderWay
    <3>3. Link(p, q)' = Unheard(~HeardStarted(q, p), TRUE)
      BY <2>1, <2>4, <3>2, UnheardFacts DEF m
    <3>4. UnderWay(p, q)' = /\ HeardStarted(q, p)' => SaidStarted(p)'
                            /\ HeardDone(q, p)' => SaidDone(p)'
                            /\ Link(p, q)' = Unheard(SaidStarted(p)' /\ ~HeardStarted(q, p)', SaidDone(p)' /\ ~HeardDone(q, p)')
      BY DEF UnderWay
    <3>5. (SaidStarted(p)' /\ ~HeardStarted(q, p)') = ~HeardStarted(q, p)
      BY <2>2, <3>1
    <3>6. (SaidDone(p)' /\ ~HeardDone(q, p)') = TRUE
      BY <2>2, <3>1
    <3> QED
      BY <3>1, <3>3, <3>4, <3>5, <3>6
  <2> QED
    BY <2>3, <2>4
<1>9. ASSUME NEW c \in Children \ {p} PROVE UnderWay(c, p)'
  <2>1. UnderWay(c, p) /\ Link(c, p)' = Link(c, p) /\ pc'[c] = pc[c] /\ from'[p] = from[p]
    BY <1>0, <1>1, <1>3, <1>5 DEF BarrierInv
  <2>2. (HeardStarted(p, c)' <=> HeardStarted(p, c)) /\ (HeardDone(p, c)' <=> HeardDone(p, c))
    BY <1>1, <1>5, <1>7, <2>1 DEF HeardStarted, HeardDone
  <2>3. (SaidStarted(c)' <=> SaidStarted(c)) /\ (SaidDone(c)' <=> SaidDone(c))
    BY <2>1 DEF SaidStarted, SaidDone
  <2> QED
    BY <2>1, <2>2, <2>3, UnderWayKept
<1>10. \A c \in Children \ {p} : \A q \in Procs \ {c, p} : Link(c, q)' = Link(c, q)
  BY <1>3
<1>11. BarrierInv'
  BY <1>0, <1>1, <1>4, <1>5, <1>6, <1>8, <1>9, <1>10, BarrierStep
<1> QED
  BY <1>1, <1>11

\* The receive loops, with where they are and where they lead.
Round(p, type, label, next) ==
  \/ p \in Children /\ type = "STARTED" /\ label = "await_started" /\ next = "broadcast_done"
  \/ p \in Children /\ type = "DONE" /\ label = "await_done" /\ next = "exited"
  \/ p = PARENT_ID /\ type = "STARTED" /\ label = "await_started" /\ next = "await_done"
  \/ p = PARENT_ID /\ type = "DONE" /\ label = "await_done" /\ next = "wait"

\* One round: the message that comes is of the type expected, since what was said before
\* has been heard.
LEMMA ReceiveBarrier ==
  ASSUME BarrierInv, NEW p \in Procs, NEW type, NEW label, NEW next, Round(p, type, label, next),
         pc[p] = label, ~Sending(p), ReceiveNext(p, type), outbox' = outbox
  PROVE  BarrierInv' /\ pc' = pc
<1> USE ProcsFacts
<1> DEFINE f == from[p]
<1>0. /\ IpcTypeOK /\ GoodProgress /\ pc \in [Procs -> Label] /\ TypeOK
      /\ from \in [Procs -> 1..(N + 1)] /\ label \in {"await_started", "await_done"}
  BY DEF BarrierInv, TypeOK, Round
<1>1. f \in Children /\ f # p /\ receive(p, f)
  BY <1>0, NAssumption DEF ReceiveNext, GoodProgress, Children
<1>2. /\ UnderWay(f, p) /\ Link(f, p) # <<>> /\ Oldest(p, f) = Head(Link(f, p))
      /\ Link(f, p) \in Seq(Message)
      /\ \A a, b \in Procs : Link(a, b)' = IF a = f /\ b = p THEN Tail(Link(a, b)) ELSE Link(a, b)
  <2>1. UnderWay(f, p)
    BY <1>1 DEF BarrierInv
  <2>2. f \in Procs /\ p \in Procs
    BY <1>1
  <2> HIDE DEF f
  <2>3. \A a, b \in Procs : Link(a, b)' = IF a = f /\ b = p THEN Tail(Link(a, b)) ELSE Link(a, b)
    BY <1>0, <1>1, <2>2, LinkReceive
  <2> QED
    BY <1>0, <1>1, <2>1, <2>2, <2>3, LinkOldest, LinkType
<1>3. SaidDone(f) => SaidStarted(f)
  BY DEF SaidDone, SaidStarted
<1>4. ~(f < f)
  BY <1>1, NAssumption DEF Children
<1>5. /\ label = "await_started" => ~HeardStarted(p, f) /\ ~HeardDone(p, f)
      /\ label = "await_done" => HeardStarted(p, f) /\ ~HeardDone(p, f)
  BY <1>4 DEF HeardStarted, HeardDone
<1>6. CASE label = "await_started"
  <2>1. Link(f, p) = Unheard(SaidStarted(f), SaidDone(f))
    <3>1. (SaidStarted(f) /\ ~HeardStarted(p, f)) = SaidStarted(f) /\ (SaidDone(f) /\ ~HeardDone(p, f)) = SaidDone(f)
      BY <1>5, <1>6 DEF SaidStarted, SaidDone
    <3> QED
      BY <1>2, <3>1 DEF UnderWay
  <2>2. SaidStarted(f)
    BY <1>2, <1>3, <2>1, UnheardFacts DEF Unheard
  <2>3. Link(f, p) = Unheard(TRUE, SaidDone(f)) /\ SaidDone(f) \in BOOLEAN
    <3>1. SaidStarted(f) = TRUE /\ SaidDone(f) \in BOOLEAN
      BY <2>2 DEF SaidStarted, SaidDone
    <3> QED
      BY <2>1, <3>1
  <2>4. Head(Link(f, p)) = Said("STARTED") /\ Tail(Link(f, p)) = Unheard(FALSE, SaidDone(f))
    BY <2>3, UnheardFacts
  <2>5. Oldest(p, f).type = "STARTED" /\ type = "STARTED"
    BY <1>2, <1>6, <2>4 DEF Said, Round
  <2> DEFINE g == NextFrom(p, f)
  <2>6. from' = [from EXCEPT ![p] = g] /\ pc' = pc
    BY <1>1, <2>5 DEF ReceiveNext
  <2>7. /\ g \in 1..(N + 1) /\ g # p
        /\ \A c \in Children \ {p} : c < g <=> c < f \/ c = f
    BY <1>1, CursorNext, NAssumption DEF Children, PARENT_ID, Procs
  <2> HIDE DEF g, f
  <2>8. TypeOK'
    <3>1. IpcTypeOK'
      BY <1>0, <1>1, ReceiveType DEF IpcTypeOK
    <3> QED
      BY <1>0, <2>6, <2>7, <3>1 DEF TypeOK
  <2>9. from'[p] = g /\ \A r \in Procs \ {p} : from'[r] = from[r]
    BY <1>0, <2>6
  <2>10. ASSUME NEW c \in Children \ {p} PROVE UnderWay(c, p)'
    <3>1. UnderWay(c, p) /\ pc' = pc /\ pc[p] = "await_started"
      BY <1>6, <2>6 DEF BarrierInv
    <3>2. /\ HeardStarted(p, c)' <=> c < g
          /\ HeardStarted(p, c) <=> c < from[p]
          /\ ~HeardDone(p, c) /\ ~HeardDone(p, c)'
          /\ SaidStarted(c)' <=> SaidStarted(c)
          /\ SaidDone(c)' <=> SaidDone(c)
      BY <2>9, <3>1 DEF HeardStarted, HeardDone, SaidStarted, SaidDone
    <3>3. CASE c # f
      <4>1. Link(c, p)' = Link(c, p) /\ (c < g <=> c < from[p])
        BY <1>2, <2>7, <3>3 DEF f
      <4> QED
        BY <3>1, <3>2, <4>1, UnderWayKept
    <3>4. CASE c = f
      <4>1. Link(c, p)' = Unheard(FALSE, SaidDone(f)) /\ HeardStarted(p, c)'
        BY <1>1, <1>2, <2>4, <2>7, <3>2, <3>4
      <4>2. Unheard(SaidStarted(c)' /\ ~HeardStarted(p, c)', SaidDone(c)' /\ ~HeardDone(p, c)') = Unheard(FALSE, SaidDone(f))
        <5>1. (SaidStarted(c)' /\ ~HeardStarted(p, c)') = FALSE
          BY <4>1
        <5>2. (SaidDone(c)' /\ ~HeardDone(p, c)') = SaidDone(f)
          BY <3>2, <3>4 DEF SaidDone
        <5> QED
          BY <5>1, <5>2
      <4> QED
        BY <2>2, <3>2, <3>4, <4>1, <4>2 DEF UnderWay
    <3> QED
      BY <3>3, <3>4
  <2>11. p \in Children => \A q \in Procs \ {p} : UnderWay(p, q)'
    <3> SUFFICES ASSUME p \in Children, NEW q \in Procs \ {p} PROVE UnderWay(p, q)'
      OBVIOUS
    <3>1. UnderWay(p, q) /\ Link(p, q)' = Link(p, q) /\ pc' = pc /\ from'[q] = from[q]
      BY <1>2, <2>6, <2>9 DEF BarrierInv
    <3> QED
      BY <3>1, UnderWayKept DEF SaidStarted, SaidDone, HeardStarted, HeardDone
  <2>12. /\ \A r \in Procs \ {p} : pc'[r] = pc[r] /\ from'[r] = from[r] /\ outbox'[r] = outbox[r]
         /\ \A c \in Children \ {p} : \A q \in Procs \ {c, p} : Link(c, q)' = Link(c, q)
         /\ Sending(p)' => pc'[p] \in {"await_started", "await_done"}
         /\ pc'[p] \in {"spawn", "start", "broadcast_done"} => from'[p] = NextFrom(p, PARENT_ID)
         /\ from'[p] # p
    BY <1>2, <1>6, <2>6, <2>7, <2>9
  <2> QED
    BY <1>6, <2>6, <2>8, <2>10, <2>11, <2>12, BarrierStep
<1>7. CASE label = "await_done"
  <2>1. Link(f, p) = Unheard(FALSE, SaidDone(f))
    <3>1. (SaidStarted(f) /\ ~HeardStarted(p, f)) = FALSE /\ (SaidDone(f) /\ ~HeardDone(p, f)) = SaidDone(f)
      BY <1>5, <1>7 DEF SaidStarted, SaidDone
    <3> QED
      BY <1>2, <3>1 DEF UnderWay
  <2>2. SaidDone(f)
    BY <1>2, <2>1 DEF Unheard
  <2>3. Link(f, p) = Unheard(FALSE, TRUE)
    BY <2>1, <2>2 DEF SaidDone
  <2>4. Head(Link(f, p)) = Said("DONE") /\ Tail(Link(f, p)) = Unheard(FALSE, FALSE)
    BY <2>3, UnheardFacts
  <2>5. Oldest(p, f).type = "DONE" /\ type = "DONE"
    BY <1>2, <1>7, <2>4 DEF Said, Round
  <2> DEFINE g == NextFrom(p, f)
  <2>6. from' = [from EXCEPT ![p] = g] /\ pc' = pc
    BY <1>1, <2>5 DEF ReceiveNext
  <2>7. /\ g \in 1..(N + 1) /\ g # p
        /\ \A c \in Children \ {p} : c < g <=> c < f \/ c = f
    BY <1>1, CursorNext, NAssumption DEF Children, PARENT_ID, Procs
  <2> HIDE DEF g, f
  <2>8. TypeOK'
    <3>1. IpcTypeOK'
      BY <1>0, <1>1, ReceiveType DEF IpcTypeOK
    <3> QED
      BY <1>0, <2>6, <2>7, <3>1 DEF TypeOK
  <2>9. from'[p] = g /\ \A r \in Procs \ {p} : from'[r] = from[r]
    BY <1>0, <2>6
  <2>10. ASSUME NEW c \in Children \ {p} PROVE UnderWay(c, p)'
    <3>1. UnderWay(c, p) /\ pc' = pc /\ pc[p] = "await_done"
      BY <1>7, <2>6 DEF BarrierInv
    <3>2. /\ HeardDone(p, c)' <=> c < g
          /\ HeardDone(p, c) <=> c < from[p]
          /\ HeardStarted(p, c) /\ HeardStarted(p, c)'
          /\ SaidStarted(c)' <=> SaidStarted(c)
          /\ SaidDone(c)' <=> SaidDone(c)
      BY <2>9, <3>1 DEF HeardStarted, HeardDone, SaidStarted, SaidDone
    <3>3. CASE c # f
      <4>1. Link(c, p)' = Link(c, p) /\ (c < g <=> c < from[p])
        BY <1>2, <2>7, <3>3 DEF f
      <4> QED
        BY <3>1, <3>2, <4>1, UnderWayKept
    <3>4. CASE c = f
      <4>1. Link(c, p)' = Unheard(FALSE, FALSE) /\ HeardDone(p, c)'
        BY <1>1, <1>2, <2>4, <2>7, <3>2, <3>4
      <4>2. Unheard(SaidStarted(c)' /\ ~HeardStarted(p, c)', SaidDone(c)' /\ ~HeardDone(p, c)') = Unheard(FALSE, FALSE)
        BY <3>2, <3>4, <4>1
      <4> QED
        BY <1>3, <2>2, <3>2, <3>4, <4>1, <4>2 DEF UnderWay
    <3> QED
      BY <3>3, <3>4
  <2>11. p \in Children => \A q \in Procs \ {p} : UnderWay(p, q)'
    <3> SUFFICES ASSUME p \in Children, NEW q \in Procs \ {p} PROVE UnderWay(p, q)'
      OBVIOUS
    <3>1. UnderWay(p, q) /\ Link(p, q)' = Link(p, q) /\ pc' = pc /\ from'[q] = from[q]
      BY <1>2, <2>6, <2>9 DEF BarrierInv
    <3> QED
      BY <3>1, UnderWayKept DEF SaidStarted, SaidDone, HeardStarted, HeardDone
  <2>12. /\ \A r \in Procs \ {p} : pc'[r] = pc[r] /\ from'[r] = from[r] /\ outbox'[r] = outbox[r]
         /\ \A c \in Children \ {p} : \A q \in Procs \ {c, p} : Link(c, q)' = Link(c, q)
         /\ Sending(p)' => pc'[p] \in {"await_started", "await_done"}
         /\ pc'[p] \in {"spawn", "start", "broadcast_done"} => from'[p] = NextFrom(p, PARENT_ID)
         /\ from'[p] # p
    BY <1>2, <1>7, <2>6, <2>7, <2>9
  <2> QED
    BY <1>7, <2>6, <2>8, <2>10, <2>11, <2>12, BarrierStep
<1> QED
  BY <1>0, <1>6, <1>7

\* The end of a loop: everybody has said what it waited for.
LEMMA EndBarrier ==
  ASSUME BarrierInv, NEW p \in Procs, NEW type, NEW label, NEW next, Round(p, type, label, next),
         pc[p] = label, ~Sending(p), ReceiveEnd(p, next), outbox' = outbox
  PROVE  /\ BarrierInv' /\ pc' = [pc EXCEPT ![p] = next]
         /\ \A c \in Children \ {p} : /\ SaidStarted(c)
                                      /\ label = "await_done" => SaidDone(c)
<1> USE ProcsFacts
<1> DEFINE g == NextFrom(p, PARENT_ID)
<1>0. /\ IpcTypeOK /\ GoodProgress /\ pc \in [Procs -> Label] /\ TypeOK
      /\ from \in [Procs -> 1..(N + 1)] /\ label \in {"await_started", "await_done"}
  BY DEF BarrierInv, TypeOK, Round
<1>1. from[p] > N /\ from' = [from EXCEPT ![p] = g] /\ pc' = [pc EXCEPT ![p] = next] /\ pipes' = pipes
  BY DEF ReceiveEnd, Goto
<1>2. /\ g \in 1..(N + 1) /\ g # p
      /\ \A c \in Children \ {p} : ~(c < g) /\ c < from[p]
  BY <1>0, <1>1, CursorNext, NAssumption DEF Children, PARENT_ID, Procs
<1> HIDE DEF g
<1>3. next \in Label /\ next \in {"broadcast_done", "exited", "await_done", "wait"}
  BY DEF Label, Round
<1>4. TypeOK'
  BY <1>0, <1>1, <1>2, <1>3 DEF TypeOK, IpcTypeOK
<1>5. /\ \A r \in Procs \ {p} : pc'[r] = pc[r] /\ from'[r] = from[r] /\ outbox'[r] = outbox[r]
      /\ pc'[p] = next /\ from'[p] = g
  BY <1>0, <1>1
<1>6. \A a, b \in Procs : Link(a, b)' = Link(a, b)
  BY <1>1 DEF Link
<1>7. ASSUME NEW c \in Children \ {p}
      PROVE  UnderWay(c, p)' /\ SaidStarted(c) /\ (label = "await_done" => SaidDone(c))
  <2>1. UnderWay(c, p) /\ Link(c, p)' = Link(c, p) /\ pc'[c] = pc[c] /\ c < from[p] /\ ~(c < g)
    BY <1>2, <1>5, <1>6 DEF BarrierInv
  <2>2. (SaidStarted(c)' <=> SaidStarted(c)) /\ (SaidDone(c)' <=> SaidDone(c))
    BY <2>1 DEF SaidStarted, SaidDone
  <2>3. /\ HeardStarted(p, c) /\ HeardStarted(p, c)'
        /\ HeardDone(p, c) <=> label = "await_done"
        /\ HeardDone(p, c)' <=> label = "await_done"
    BY <1>0, <1>5, <2>1 DEF HeardStarted, HeardDone, Round
  <2> QED
    BY <2>1, <2>2, <2>3, UnderWayKept DEF UnderWay
<1>8. p \in Children => \A q \in Procs \ {p} : UnderWay(p, q)'
  <2> SUFFICES ASSUME p \in Children, NEW q \in Procs \ {p} PROVE UnderWay(p, q)'
    OBVIOUS
  <2>1. UnderWay(p, q) /\ Link(p, q)' = Link(p, q) /\ pc'[q] = pc[q] /\ from'[q] = from[q]
    BY <1>5, <1>6 DEF BarrierInv
  <2>2. (SaidStarted(p)' <=> SaidStarted(p)) /\ (SaidDone(p)' <=> SaidDone(p))
    BY <1>5 DEF SaidStarted, SaidDone, Round
  <2>3. (HeardStarted(q, p)' <=> HeardStarted(q, p)) /\ (HeardDone(q, p)' <=> HeardDone(q, p))
    BY <2>1 DEF HeardStarted, HeardDone
  <2> QED
    BY <2>1, <2>2, <2>3, UnderWayKept
<1>9. /\ p \in Children => next \in {"broadcast_done", "exited"}
      /\ p = PARENT_ID => next \in {"await_done", "wait"}
  BY DEF Round
<1>10. ~Sending(p)'
  BY DEF Sending
<1>11. BarrierInv'
  <2>1. /\ p \in Children => pc'[p] \in {"start", "await_started", "broadcast_done", "await_done", "exited"}
        /\ p = PARENT_ID => pc'[p] \in {"spawn", "await_started", "await_done", "wait", "exited"}
        /\ from'[p] = NextFrom(p, PARENT_ID) /\ from'[p] # p
    BY <1>2, <1>5, <1>9 DEF g
  <2>2. \A c \in Children \ {p} : \A q \in Procs \ {c, p} : Link(c, q)' = Link(c, q)
    BY <1>6
  <2>3. \A c \in Children \ {p} : UnderWay(c, p)'
    BY <1>7
  <2> QED
    BY <1>4, <1>5, <1>8, <1>10, <2>1, <2>2, <2>3, BarrierStep
<1> QED
  BY <1>1, <1>7, <1>11

\* The steps of the parent outside its loops concern no child.
LEMMA ParentBarrier ==
  ASSUME BarrierInv, ParentSetUp \/ ParentExit
  PROVE  BarrierInv' /\ \A c \in Children : pc'[c] = pc[c]
<1> USE ProcsFacts
<1> DEFINE p == PARENT_ID
<1>0. /\ GoodProgress /\ pc \in [Procs -> Label] /\ TypeOK /\ p \in Procs
  BY DEF BarrierInv, TypeOK
<1>1. /\ UNCHANGED <<pipes, outbox, from>>
      /\ \/ pc[p] = "spawn" /\ pc' = [pc EXCEPT ![p] = "await_started"]
         \/ pc[p] = "wait" /\ pc' = [pc EXCEPT ![p] = "exited"]
  BY DEF ParentSetUp, ParentExit, Goto
<1> HIDE DEF p
<1>2. /\ pc' \in [Procs -> Label] /\ \A r \in Procs \ {p} : pc'[r] = pc[r]
      /\ pc'[p] = IF pc[p] = "spawn" THEN "await_started" ELSE "exited"
  BY <1>0, <1>1 DEF Label
<1>3. TypeOK'
  BY <1>0, <1>1, <1>2 DEF TypeOK, IpcTypeOK
<1>4. \A a, b \in Procs : Link(a, b)' = Link(a, b)
  BY <1>1 DEF Link
<1>5. ASSUME NEW c \in Children PROVE UnderWay(c, p)'
  <2>1. UnderWay(c, p) /\ Link(c, p)' = Link(c, p) /\ pc'[c] = pc[c]
    BY <1>2, <1>4 DEF BarrierInv, p
  <2>2. pc[p] = "spawn" => ~(c < from[p])
    BY <1>0, CursorNext, NAssumption DEF GoodProgress, p, Children, PARENT_ID, Procs
  <2>3. (HeardStarted(p, c)' <=> HeardStarted(p, c)) /\ (HeardDone(p, c)' <=> HeardDone(p, c))
    BY <1>1, <1>2, <2>2 DEF HeardStarted, HeardDone
  <2> QED
    BY <2>1, <2>3, UnderWayKept DEF SaidStarted, SaidDone
<1>6. /\ ~Sending(p)'
      /\ pc'[p] \in {"await_started", "exited"} /\ from'[p] # p
      /\ p \notin Children /\ p = PARENT_ID /\ p \in Procs
  BY <1>0, <1>1, <1>2 DEF Sending, GoodProgress, p
<1>7. \A r \in Procs \ {p} : pc'[r] = pc[r] /\ from'[r] = from[r] /\ outbox'[r] = outbox[r]
  BY <1>1, <1>2
<1>8. \A c \in Children \ {p} : \A q \in Procs \ {c, p} : Link(c, q)' = Link(c, q)
  BY <1>4
<1>9. BarrierInv'
  BY <1>3, <1>5, <1>6, <1>7, <1>8, BarrierStep
<1> QED
  BY <1>6, <1>7, <1>9

-----------------------------------------------------------------------------
(* The barriers *)

\* How far a child has come, by its label.
LEMMA StageValue ==
  ASSUME NEW c \in Children
  PROVE  /\ pc[c] = "start" => StageOf[c] = 0
         /\ pc[c] = "await_started" => StageOf[c] = 1
         /\ pc[c] = "broadcast_done" => StageOf[c] = 2
         /\ pc[c] = "await_done" => StageOf[c] = 3
         /\ pc[c] = "exited" => StageOf[c] = 4
BY DEF StageOf

\* The same of the state after a step.
LEMMA StageValueNext ==
  ASSUME NEW c \in Children
  PROVE  /\ pc'[c] = "start" => StageOf'[c] = 0
         /\ pc'[c] = "await_started" => StageOf'[c] = 1
         /\ pc'[c] = "broadcast_done" => StageOf'[c] = 2
         /\ pc'[c] = "await_done" => StageOf'[c] = 3
         /\ pc'[c] = "exited" => StageOf'[c] = 4
BY DEF StageOf

\* A step of p alone that takes it on by one stage.
LEMMA StageStep ==
  ASSUME NEW p \in Children, NEW k \in 0..3, \A d \in Children \ {p} : pc'[d] = pc[d],
         StageOf[p] = k, StageOf'[p] = k + 1,
         k \in {1, 3} => \A d \in Children : StageOf[d] >= k
  PROVE  [Barriers!Next]_StageOf
<1> USE ProcsFacts
<1> DEFINE s == StageOf  t == StageOf'
<1>1. \A c \in Children \ {p} : t[c] = s[c]
  BY DEF StageOf
<1>2. s = [c \in Children |-> s[c]] /\ t = [c \in Children |-> t[c]]
  BY DEF StageOf
<1> HIDE DEF s, t
<1>3. t = [s EXCEPT ![p] = @ + 1]
  BY <1>1, <1>2 DEF s, t
<1>4. s[p] < 4
  BY DEF s
<1>5. CASE s[p] \in {0, 2}
  BY <1>3, <1>4, <1>5 DEF Barriers!Next, Barriers!Reach, Barriers!Advance, s, t
<1>6. CASE s[p] \in {1, 3}
  BY <1>3, <1>4, <1>6 DEF Barriers!Next, Barriers!Pass, Barriers!Advance, s, t
<1> QED
  BY <1>5, <1>6 DEF s

\* A step after which the children are where they were.
LEMMA StageStutter ==
  ASSUME \A c \in Children : pc'[c] = pc[c]
  PROVE  StageOf' = StageOf
BY DEF StageOf

\* Every step of pa1 keeps the invariant and is a step of TwoBarriers or none.
LEMMA NextBarrier == BarrierInv /\ [Next]_vars => BarrierInv' /\ [Barriers!Next]_StageOf
<1> SUFFICES ASSUME BarrierInv, [Next]_vars PROVE BarrierInv' /\ [Barriers!Next]_StageOf
  OBVIOUS
<1> USE ProcsFacts
<1>0. pc \in [Procs -> Label] /\ GoodProgress
  BY DEF BarrierInv, TypeOK
<1>1. CASE UNCHANGED vars
  <2>1. BarrierInv'
    BY <1>1 DEF vars, BarrierInv, TypeOK, IpcTypeOK, GoodProgress, Sending, UnderWay, Link, SaidStarted,
       SaidDone, HeardStarted, HeardDone
  <2> QED
    BY <1>1, <2>1 DEF vars, StageOf
<1>2. ASSUME NEW p \in Children, Write(p) PROVE BarrierInv' /\ [Barriers!Next]_StageOf
  BY <1>2, WriteBarrier, StageStutter
<1>3. ASSUME NEW p \in Children, Broadcast(p, "STARTED", "start", "await_started")
      PROVE  BarrierInv' /\ [Barriers!Next]_StageOf
  <2>1. BarrierInv' /\ pc[p] = "start" /\ pc' = [pc EXCEPT ![p] = "await_started"]
    BY <1>3, BroadcastBarrier
  <2>2. StageOf[p] = 0 /\ StageOf'[p] = 1
    BY <1>0, <2>1, StageValue, StageValueNext
  <2>3. \A d \in Children \ {p} : pc'[d] = pc[d]
    BY <1>0, <2>1
  <2>4. [Barriers!Next]_StageOf
    BY <2>2, <2>3, StageStep
  <2> QED
    BY <2>1, <2>4
<1>4. ASSUME NEW p \in Children, Broadcast(p, "DONE", "broadcast_done", "await_done")
      PROVE  BarrierInv' /\ [Barriers!Next]_StageOf
  <2>1. BarrierInv' /\ pc[p] = "broadcast_done" /\ pc' = [pc EXCEPT ![p] = "await_done"]
    BY <1>4, BroadcastBarrier
  <2>2. StageOf[p] = 2 /\ StageOf'[p] = 3
    BY <1>0, <2>1, StageValue, StageValueNext
  <2>3. \A d \in Children \ {p} : pc'[d] = pc[d]
    BY <1>0, <2>1
  <2>4. [Barriers!Next]_StageOf
    BY <2>2, <2>3, StageStep
  <2> QED
    BY <2>1, <2>4
<1>5. ASSUME NEW p \in Children, ReceiveAll(p, "STARTED", "await_started", "broadcast_done")
      PROVE  BarrierInv' /\ [Barriers!Next]_StageOf
  <2>1. /\ pc[p] = "await_started" /\ ~Sending(p) /\ outbox' = outbox /\ p \in Procs
        /\ Round(p, "STARTED", "await_started", "broadcast_done")
    BY <1>5 DEF ReceiveAll, Round
  <2>2. CASE ReceiveNext(p, "STARTED")
    BY <2>1, <2>2, ReceiveBarrier, StageStutter
  <2>3. CASE ReceiveEnd(p, "broadcast_done")
    <3>1. /\ BarrierInv' /\ pc' = [pc EXCEPT ![p] = "broadcast_done"]
          /\ \A c \in Children \ {p} : SaidStarted(c)
      BY <2>1, <2>3, EndBarrier
    <3>2. StageOf[p] = 1 /\ StageOf'[p] = 2
      BY <1>0, <2>1, <3>1, StageValue, StageValueNext
    <3>3. \A d \in Children : StageOf[d] >= 1
      BY <1>0, <3>1, <3>2, StageValue DEF GoodProgress, SaidStarted
    <3>4. \A d \in Children \ {p} : pc'[d] = pc[d]
      BY <1>0, <3>1
    <3>5. [Barriers!Next]_StageOf
      BY <3>2, <3>3, <3>4, StageStep
    <3> QED
      BY <3>1, <3>5
  <2> QED
    BY <1>5, <2>2, <2>3 DEF ReceiveAll
<1>6. ASSUME NEW p \in Children, ReceiveAll(p, "DONE", "await_done", "exited")
      PROVE  BarrierInv' /\ [Barriers!Next]_StageOf
  <2>1. /\ pc[p] = "await_done" /\ ~Sending(p) /\ outbox' = outbox /\ p \in Procs
        /\ Round(p, "DONE", "await_done", "exited")
    BY <1>6 DEF ReceiveAll, Round
  <2>2. CASE ReceiveNext(p, "DONE")
    BY <2>1, <2>2, ReceiveBarrier, StageStutter
  <2>3. CASE ReceiveEnd(p, "exited")
    <3>1. /\ BarrierInv' /\ pc' = [pc EXCEPT ![p] = "exited"]
          /\ \A c \in Children \ {p} : SaidDone(c)
      BY <2>1, <2>3, EndBarrier
    <3>2. StageOf[p] = 3 /\ StageOf'[p] = 4
      BY <1>0, <2>1, <3>1, StageValue, StageValueNext
    <3>3. \A d \in Children : StageOf[d] >= 3
      BY <1>0, <3>1, <3>2, StageValue DEF GoodProgress, SaidDone
    <3>4. \A d \in Children \ {p} : pc'[d] = pc[d]
      BY <1>0, <3>1
    <3>5. [Barriers!Next]_StageOf
      BY <3>2, <3>3, <3>4, StageStep
    <3> QED
      BY <3>1, <3>5
  <2> QED
    BY <1>6, <2>2, <2>3 DEF ReceiveAll
<1>7. CASE ParentNext
  <2>1. BarrierInv' /\ \A c \in Children : pc'[c] = pc[c]
    <3>1. CASE ParentSetUp \/ ParentExit
      BY <3>1, ParentBarrier
    <3>2. ASSUME NEW type, NEW label, NEW next, Round(PARENT_ID, type, label, next),
                 ReceiveAll(PARENT_ID, type, label, next)
          PROVE  BarrierInv' /\ \A c \in Children : pc'[c] = pc[c]
      <4>1. pc[PARENT_ID] = label /\ ~Sending(PARENT_ID) /\ outbox' = outbox
        BY <3>2 DEF ReceiveAll
      <4>2. CASE ReceiveNext(PARENT_ID, type)
        BY <3>2, <4>1, <4>2, ReceiveBarrier
      <4>3. CASE ReceiveEnd(PARENT_ID, next)
        <5>1. BarrierInv' /\ pc' = [pc EXCEPT ![PARENT_ID] = next]
          BY <3>2, <4>1, <4>3, EndBarrier
        <5> QED
          BY <1>0, <5>1
      <4> QED
        BY <3>2, <4>2, <4>3 DEF ReceiveAll
    <3>3. /\ Round(PARENT_ID, "STARTED", "await_started", "await_done")
          /\ Round(PARENT_ID, "DONE", "await_done", "wait")
      BY DEF Round
    <3> QED
      BY <1>7, <3>1, <3>2, <3>3 DEF ParentNext
  <2> QED
    BY <2>1, StageStutter
<1> QED
  BY <1>1, <1>2, <1>3, <1>4, <1>5, <1>6, <1>7 DEF Next, ChildNext

\* The state of pa1 stays in its type; in particular the cursors of the receive loops stay
\* within the processes or one past them.
THEOREM BarrierTypes == Spec => []TypeOK
<1>1. BarrierInv => TypeOK
  BY DEF BarrierInv
<1> QED
  BY <1>1, InitBarrier, NextBarrier, PTL DEF Spec

\* Nobody in pa1 is killed by a write() to a process that is gone, although nobody waits
\* for the others to close their pipes, and no message has another type than the one that
\* is waited for.
THEOREM BarrierNobodyFails == Spec => [](\A p \in Procs : pc[p] \notin {"killed", "failed"})
<1>1. BarrierInv => \A p \in Procs : pc[p] \notin {"killed", "failed"}
  BY NAssumption DEF BarrierInv, GoodProgress, Procs, Children, PARENT_ID
<1> QED
  BY <1>1, InitBarrier, NextBarrier, PTL DEF Spec

\* The loops of pa1 implement two barriers: no child logs that it received all STARTED (all
\* DONE) before every child has begun to send its own.
THEOREM BarrierBarriers == Spec => BarriersSpec
<1>1. Init => Barriers!Init
  BY ProcsFacts DEF Init, Barriers!Init, StageOf
<1> QED
  BY <1>1, InitBarrier, NextBarrier, PTL DEF Spec, BarriersSpec, Barriers!Spec

-----------------------------------------------------------------------------
(* ipcio.c byte by byte: one pipe and its two ends.  First, induction over  *)
(* sequences.                                                               *)

\* A set of natural numbers that is not empty has a least element.
LEMMA Least ==
  ASSUME NEW S \in SUBSET Nat, S # {}
  PROVE  \E n \in S : \A m \in S : n <= m
<1>1. IsWellFoundedOn(OpToRel(<, Nat), Nat)
  BY NatLessThanWellFounded
<1>2. \E n \in S : \A m \in S : ~(<<m, n>> \in OpToRel(<, Nat))
  BY <1>1, WFMin
<1> DEFINE R == {ss \in Nat \X Nat : ss[1] < ss[2]}
<1>3. OpToRel(<, Nat) = R
  BY DEF OpToRel
<1>4. PICK n \in S : \A m \in S : <<m, n>> \notin R
  BY <1>2, <1>3, Zenon
<1>5. \A m \in S : ~(m < n)
  BY <1>4
<1> QED
  BY <1>5

\* A set that 0 is in, and k + 1 with every k below n, holds the numbers up to n.
LEMMA UpTo ==
  ASSUME NEW n \in Nat, NEW S, 0 \in S,
         \A k \in 0..n : k < n /\ k \in S => k + 1 \in S
  PROVE  \A k \in 0..n : k \in S
<1> DEFINE Missing == {k \in 0..n : k \notin S}
<1> SUFFICES ASSUME Missing # {} PROVE FALSE
  OBVIOUS
<1>1. PICK m \in Missing : \A k \in Missing : m <= k
  <2>1. Missing \in SUBSET Nat
    OBVIOUS
  <2> QED
    BY <2>1, Least
<1>2. m \in Nat /\ m # 0 /\ m <= n /\ m \notin S
  BY <1>1
<1>3. m - 1 \in 0..n /\ m - 1 < n /\ ~(m <= m - 1) /\ (m - 1) + 1 = m
  BY <1>2
<1>4. m - 1 \in S
  BY <1>1, <1>3
<1> QED
  BY <1>2, <1>3, <1>4

\* A set that holds the empty sequence, and with every sequence those that are longer by one
\* element, holds all.
LEMMA AllSequences ==
  ASSUME NEW S, NEW T, <<>> \in T, \A r \in Seq(S), b \in S : r \in T => Append(r, b) \in T
  PROVE  \A s \in Seq(S) : s \in T
<1> SUFFICES ASSUME NEW s \in Seq(S) PROVE s \in T
  OBVIOUS
<1> DEFINE K == {k \in 0..Len(s) : SubSeq(s, 1, k) \in T}
<1>1. Len(s) \in Nat
  OBVIOUS
<1>2. 0 \in K
  <2>1. SubSeq(s, 1, 0) = <<>>
    BY SubSeqEmpty
  <2>2. 0 \in 0..Len(s)
    BY <1>1
  <2>3. SubSeq(s, 1, 0) \in T
    BY <2>1, Zenon
  <2> QED
    BY <2>2, <2>3, Zenon
<1>3. ASSUME NEW k \in 0..Len(s), k < Len(s), k \in K PROVE k + 1 \in K
  <2>1. 1 \in 1..Len(s) /\ k + 1 \in 1..Len(s) /\ (k + 1) - 1 = k
    BY <1>1, <1>3
  <2>2. s[k + 1] \in S /\ SubSeq(s, 1, k) \in Seq(S)
    BY <1>1, <2>1, SubSeqProperties, ElementOfSeq
  <2>3. SubSeq(s, 1, k + 1) = SubSeq(s, 1, k) \o <<s[k + 1]>>
    BY <2>1, SubSeqRecursiveSecond
  <2>4. SubSeq(s, 1, k + 1) = Append(SubSeq(s, 1, k), s[k + 1])
    BY <2>2, <2>3, AppendIsConcat
  <2>5. Append(SubSeq(s, 1, k), s[k + 1]) \in T
    BY <1>3, <2>2
  <2>6. k + 1 \in 0..Len(s)
    BY <2>1
  <2> QED
    BY <2>4, <2>5, <2>6
<1>4. Len(s) \in K
  <2> HIDE DEF K
  <2>1. \A k \in 0..Len(s) : k \in K
    BY <1>1, <1>2, <1>3, UpTo
  <2> QED
    BY <1>1, <2>1
<1>5. SubSeq(s, 1, Len(s)) \in T
  BY <1>4
<1>6. SubSeq(s, 1, Len(s)) = s
  BY <1>1, SubSeqFull
<1> QED
  BY <1>5, <1>6, Zenon

\* The first n elements of a sequence,
LEMMA FirstPart ==
  ASSUME NEW S, NEW s \in Seq(S), NEW n \in 0..Len(s)
  PROVE  /\ SubSeq(s, 1, n) \in Seq(S) /\ Len(SubSeq(s, 1, n)) = n
         /\ \A k \in 1..n : SubSeq(s, 1, n)[k] = s[k]
<1> PICK f : f = SubSeq(s, 1, n)
  OBVIOUS
<1>0. Len(s) \in Nat /\ n \in Nat /\ n <= Len(s)
  OBVIOUS
<1>1. \A k \in 1..n : s[k] \in S
  BY <1>0, ElementOfSeq
<1>2. /\ f \in Seq(S) /\ Len(f) = IF 1 <= n THEN n - 1 + 1 ELSE 0
      /\ \A k \in 1..(n - 1 + 1) : f[k] = s[1 + k - 1]
  BY <1>0, <1>1, SubSeqProperties
<1>3. n - 1 + 1 = n /\ \A k \in 1..n : 1 + k - 1 = k
  BY <1>0
<1> QED
  BY <1>0, <1>2, <1>3

\* and those behind them.
LEMMA LastPart ==
  ASSUME NEW S, NEW s \in Seq(S), NEW n \in 0..Len(s)
  PROVE  /\ SubSeq(s, n + 1, Len(s)) \in Seq(S) /\ Len(SubSeq(s, n + 1, Len(s))) = Len(s) - n
         /\ \A k \in 1..(Len(s) - n) : SubSeq(s, n + 1, Len(s))[k] = s[n + k]
         /\ s = SubSeq(s, 1, n) \o SubSeq(s, n + 1, Len(s))
<1> PICK t : t = SubSeq(s, n + 1, Len(s))
  OBVIOUS
<1>0. Len(s) \in Nat /\ n \in Nat /\ n <= Len(s)
  OBVIOUS
<1>1. \A k \in (n + 1)..Len(s) : s[k] \in S
  BY <1>0, ElementOfSeq
<1>2. /\ t \in Seq(S) /\ Len(t) = IF n + 1 <= Len(s) THEN Len(s) - (n + 1) + 1 ELSE 0
      /\ \A k \in 1..(Len(s) - (n + 1) + 1) : t[k] = s[(n + 1) + k - 1]
  BY <1>0, <1>1, SubSeqProperties
<1>3. Len(t) = Len(s) - n
  BY <1>0, <1>2
<1>4. ASSUME NEW k \in 1..(Len(s) - n) PROVE t[k] = s[n + k]
  <2>1. k \in 1..(Len(s) - (n + 1) + 1) /\ (n + 1) + k - 1 = n + k
    BY <1>0
  <2> QED
    BY <1>2, <2>1
<1>5. s = SubSeq(s, 1, n) \o t
  <2>1. 1 \in 1..(Len(s) + 1) /\ n \in (1 - 1)..Len(s) /\ Len(s) \in n..Len(s)
    BY <1>0
  <2>2. SubSeq(s, 1, n) \o SubSeq(s, n + 1, Len(s)) = SubSeq(s, 1, Len(s))
    BY <2>1, ConcatAdjacentSubSeq
  <2> QED
    BY <2>2, SubSeqFull
<1> QED
  BY <1>2, <1>3, <1>4, <1>5

-----------------------------------------------------------------------------
(* The messages of a sequence of bytes *)

\* What the definition of Messages makes of the first k bytes of s.
Among(s, k, f) ==
  f = [n \in 0..k |->
        IF n = 0 THEN <<>>
        ELSE IF IsLast(s[n]) THEN Append(f[n - 1], s[n].of)
        ELSE f[n - 1]]

\* There is such a function,
LEMMA AmongExists == ASSUME NEW s, NEW k \in Nat PROVE \E f : Among(s, k, f)
<1> DEFINE K == {l \in 0..k : \E f : Among(s, l, f)}
<1>1. 0 \in K
  <2>1. Among(s, 0, [n \in 0..0 |-> <<>>])
    BY DEF Among
  <2> QED
    BY <2>1
<1>2. ASSUME NEW l \in 0..k, l < k, l \in K PROVE l + 1 \in K
  <2>1. PICK f : Among(s, l, f)
    BY <1>2
  <2> DEFINE next == IF IsLast(s[l + 1]) THEN Append(f[l], s[l + 1].of) ELSE f[l]
             g == [n \in 0..(l + 1) |-> IF n = l + 1 THEN next ELSE f[n]]
             step(n) == IF n = 0 THEN <<>>
                        ELSE IF IsLast(s[n]) THEN Append(g[n - 1], s[n].of)
                        ELSE g[n - 1]
  <2>2. ASSUME NEW n \in 0..(l + 1) PROVE g[n] = step(n)
    <3>1. CASE n = l + 1
      <4>1. g[n] = next /\ n - 1 = l /\ n # 0 /\ g[l] = f[l]
        BY <3>1
      <4> QED
        BY <3>1, <4>1
    <3>2. CASE n # l + 1
      <4>1. n \in 0..l /\ g[n] = f[n] /\ (n # 0 => g[n - 1] = f[n - 1])
        BY <3>2
      <4>2. f[n] = IF n = 0 THEN <<>>
                   ELSE IF IsLast(s[n]) THEN Append(f[n - 1], s[n].of)
                   ELSE f[n - 1]
        BY <2>1, <4>1 DEF Among
      <4> QED
        BY <4>1, <4>2
    <3> QED
      BY <3>1, <3>2
  <2>3. g = [n \in 0..(l + 1) |-> step(n)]
    BY <2>2
  <2>4. Among(s, l + 1, g)
    BY <2>3 DEF Among
  <2> QED
    BY <1>2, <2>4
<1>3. k \in K
  <2> HIDE DEF K
  <2>1. \A l \in 0..k : l \in K
    BY <1>1, <1>2, UpTo
  <2> QED
    BY <2>1
<1> QED
  BY <1>3

\* and only one, however far it goes.
LEMMA AmongUnique ==
  ASSUME NEW s, NEW k \in Nat, NEW f, Among(s, k, f),
         NEW t, NEW l \in Nat, NEW g, Among(t, l, g),
         k <= l, \A n \in 1..k : s[n] = t[n]
  PROVE  f[k] = g[k]
<1> DEFINE K == {n \in 0..k : f[n] = g[n]}
<1>1. 0 \in K
  BY DEF Among
<1>2. ASSUME NEW n \in 0..k, n < k, n \in K PROVE n + 1 \in K
  <2>1. n + 1 \in 0..k /\ n + 1 \in 0..l /\ n + 1 \in 1..k /\ n + 1 # 0 /\ (n + 1) - 1 = n
    BY <1>2
  <2>2. f[n + 1] = IF IsLast(s[n + 1]) THEN Append(f[n], s[n + 1].of) ELSE f[n]
    BY <2>1 DEF Among
  <2>3. g[n + 1] = IF IsLast(t[n + 1]) THEN Append(g[n], t[n + 1].of) ELSE g[n]
    BY <2>1 DEF Among
  <2>4. s[n + 1] = t[n + 1] /\ f[n] = g[n]
    BY <1>2, <2>1
  <2> QED
    BY <2>1, <2>2, <2>3, <2>4
<1>3. k \in K
  <2> HIDE DEF K
  <2>1. \A n \in 0..k : n \in K
    BY <1>1, <1>2, UpTo
  <2> QED
    BY <2>1
<1> QED
  BY <1>3

\* Its last value is Messages.
LEMMA MessagesAmong ==
  ASSUME NEW s, Len(s) \in Nat, NEW f, Among(s, Len(s), f)
  PROVE  Messages(s) = f[Len(s)]
<1> DEFINE h == CHOOSE g : Among(s, Len(s), g)
<1>1. Messages(s) = h[Len(s)]
  BY DEF Messages, Among
<1>2. Among(s, Len(s), h)
  BY Zenon
<1> HIDE DEF h
<1> QED
  BY <1>1, <1>2, AmongUnique

\* There are none in no bytes.
LEMMA MessagesEmpty == Messages(<<>>) = <<>>
<1>1. Len(<<>>) = 0
  OBVIOUS
<1>2. PICK f : Among(<<>>, 0, f)
  BY AmongExists
<1>3. f[0] = <<>>
  BY <1>2 DEF Among
<1> QED
  BY <1>1, <1>2, <1>3, MessagesAmong

\* A byte adds its message if it is the last of it.
LEMMA MessagesAppend ==
  ASSUME NEW S, NEW s \in Seq(S), NEW b \in S
  PROVE  Messages(Append(s, b)) =
           IF IsLast(b) THEN Append(Messages(s), b.of) ELSE Messages(s)
<1>0. PICK t : t = Append(s, b)
  OBVIOUS
<1>1. /\ Len(s) \in Nat /\ Len(t) = Len(s) + 1 /\ t[Len(s) + 1] = b
      /\ \A n \in 1..Len(s) : s[n] = t[n]
  BY <1>0, AppendProperties
<1>2. PICK f : Among(s, Len(s), f)
  BY <1>1, AmongExists
<1>3. PICK g : Among(t, Len(s) + 1, g)
  <2>1. Len(s) + 1 \in Nat
    BY <1>1
  <2> QED
    BY <2>1, AmongExists
<1>4. f[Len(s)] = g[Len(s)]
  <2>1. Len(s) + 1 \in Nat /\ Len(s) <= Len(s) + 1
    BY <1>1
  <2>2. Len(s) \in Nat /\ \A n \in 1..Len(s) : s[n] = t[n]
    BY <1>1
  <2> QED
    BY <1>2, <1>3, <2>1, <2>2, AmongUnique
<1>5. Messages(s) = f[Len(s)] /\ Messages(t) = g[Len(s) + 1]
  <2>1. Len(t) \in Nat
    BY <1>1
  <2>2. Messages(t) = g[Len(t)]
    BY <1>1, <1>3, <2>1, MessagesAmong
  <2> QED
    BY <1>1, <1>2, <2>2, MessagesAmong
<1>6. g[Len(s) + 1] = IF IsLast(b) THEN Append(g[Len(s)], b.of) ELSE g[Len(s)]
  <2>1. Len(s) + 1 \in 0..(Len(s) + 1) /\ Len(s) + 1 # 0 /\ (Len(s) + 1) - 1 = Len(s)
    BY <1>1
  <2> QED
    BY <1>1, <1>3, <2>1 DEF Among
<1> QED
  BY <1>0, <1>4, <1>5, <1>6

\* The last bytes can be told from the rest, and each is of a message.
OfMessages(S) == \A b \in S : b.of \in Msg

\* Messages are returned.
LEMMA MessagesType ==
  ASSUME NEW S, OfMessages(S), NEW s \in Seq(S)
  PROVE  Messages(s) \in Seq(Msg)
<1> DEFINE T == {t \in Seq(S) : Messages(t) \in Seq(Msg)}
<1>1. <<>> \in T
  <2>1. <<>> \in Seq(S) /\ <<>> \in Seq(Msg)
    OBVIOUS
  <2>2. Messages(<<>>) \in Seq(Msg)
    BY <2>1, MessagesEmpty, Zenon
  <2> QED
    BY <2>1, <2>2, Zenon
<1>2. ASSUME NEW r \in Seq(S), NEW b \in S, r \in T PROVE Append(r, b) \in T
  <2>1. Messages(r) \in Seq(Msg) /\ b.of \in Msg
    BY <1>2 DEF OfMessages
  <2>2. Append(Messages(r), b.of) \in Seq(Msg)
    BY <2>1
  <2>3. Messages(Append(r, b)) \in Seq(Msg)
    BY <2>1, <2>2, MessagesAppend
  <2> QED
    BY <2>3
<1>3. \A t \in Seq(S) : t \in T
  <2> HIDE DEF T
  <2> QED
    BY <1>1, <1>2, AllSequences
<1> QED
  BY <1>3

\* What is appended behind is appended to the second part.
LEMMA AppendConcat ==
  ASSUME NEW S, NEW s \in Seq(S), NEW t \in Seq(S), NEW e \in S
  PROVE  s \o t \in Seq(S) /\ s \o Append(t, e) = Append(s \o t, e)
OBVIOUS

\* The messages of a sequence are those of its parts.
LEMMA MessagesConcat ==
  ASSUME NEW S, OfMessages(S), NEW s \in Seq(S), NEW t \in Seq(S)
  PROVE  Messages(s \o t) = Messages(s) \o Messages(t)
<1> DEFINE T == {u \in Seq(S) : Messages(s \o u) = Messages(s) \o Messages(u)}
<1>0. Messages(s) \in Seq(Msg)
  BY MessagesType
<1>1. <<>> \in T
  <2>1. s \o <<>> = s /\ Messages(s) \o <<>> = Messages(s)
    BY <1>0, ConcatEmptySeq
  <2>2. Messages(s \o <<>>) = Messages(s) \o Messages(<<>>)
    BY <2>1, MessagesEmpty, Zenon
  <2>3. <<>> \in Seq(S)
    OBVIOUS
  <2> QED
    BY <2>2, <2>3, Zenon
<1>2. ASSUME NEW r \in Seq(S), NEW b \in S, r \in T PROVE Append(r, b) \in T
  <2>1. s \o r \in Seq(S) /\ s \o Append(r, b) = Append(s \o r, b)
    BY AppendConcat
  <2>2. Messages(r) \in Seq(Msg) /\ b.of \in Msg
    BY MessagesType DEF OfMessages
  <2>3. Messages(s \o Append(r, b)) =
          IF IsLast(b) THEN Append(Messages(s \o r), b.of) ELSE Messages(s \o r)
    <3>1. Messages(Append(s \o r, b)) =
            IF IsLast(b) THEN Append(Messages(s \o r), b.of) ELSE Messages(s \o r)
      BY <2>1, MessagesAppend
    <3> QED
      BY <2>1, <3>1, Zenon
  <2>4. Messages(Append(r, b)) =
          IF IsLast(b) THEN Append(Messages(r), b.of) ELSE Messages(r)
    BY MessagesAppend
  <2>5. Append(Messages(s) \o Messages(r), b.of)
          = Messages(s) \o Append(Messages(r), b.of)
    <3>1. ASSUME NEW x \in Seq(Msg), NEW y \in Seq(Msg), NEW e \in Msg
          PROVE  x \o y \in Seq(Msg) /\ x \o Append(y, e) = Append(x \o y, e)
      BY AppendConcat
    <3> QED
      BY <1>0, <2>2, <3>1, Zenon
  <2>6. Messages(s \o r) = Messages(s) \o Messages(r)
    BY <1>2
  <2>7. Messages(s \o Append(r, b)) = Messages(s) \o Messages(Append(r, b))
    BY <2>3, <2>4, <2>5, <2>6, Zenon
  <2>8. Append(r, b) \in Seq(S)
    OBVIOUS
  <2> QED
    BY <2>7, <2>8
<1>3. \A u \in Seq(S) : u \in T
  <2> HIDE DEF T
  <2> QED
    BY <1>1, <1>2, AllSequences
<1> QED
  BY <1>3

\* Bytes of which none is the last of its message hold none,
LEMMA MessagesNone ==
  ASSUME NEW S, NEW s \in Seq(S), \A k \in 1..Len(s) : ~IsLast(s[k])
  PROVE  Messages(s) = <<>>
<1> DEFINE T == {u \in Seq(S) : (\A k \in 1..Len(u) : ~IsLast(u[k])) => Messages(u) = <<>>}
<1>1. <<>> \in T
  BY MessagesEmpty
<1>2. ASSUME NEW r \in Seq(S), NEW b \in S, r \in T PROVE Append(r, b) \in T
  <2> PICK u : u = Append(r, b)
    OBVIOUS
  <2>1. /\ u \in Seq(S) /\ Len(r) \in Nat /\ Len(u) = Len(r) + 1 /\ u[Len(r) + 1] = b
        /\ \A k \in 1..Len(r) : u[k] = r[k]
    BY AppendProperties
  <2>2. SUFFICES ASSUME \A k \in 1..Len(u) : ~IsLast(u[k]) PROVE Messages(u) = <<>>
    BY <2>1
  <2>3. Len(r) + 1 \in 1..Len(u) /\ \A k \in 1..Len(r) : k \in 1..Len(u)
    BY <2>1
  <2>4. ~IsLast(b) /\ \A k \in 1..Len(r) : ~IsLast(r[k])
    BY <2>1, <2>2, <2>3
  <2>5. Messages(r) = <<>>
    BY <1>2, <2>4
  <2> QED
    BY <2>4, <2>5, MessagesAppend
<1>3. \A u \in Seq(S) : u \in T
  <2> HIDE DEF T
  <2> QED
    BY <1>1, <1>2, AllSequences
<1> QED
  BY <1>3

\* and with a last one behind them its message.
LEMMA MessagesOne ==
  ASSUME NEW S, NEW s \in Seq(S), s # <<>>, \A k \in 1..Len(s) : IsLast(s[k]) <=> k = Len(s)
  PROVE  Messages(s) = <<s[Len(s)].of>>
<1>1. PICK r \in Seq(S), b \in S : s = Append(r, b)
  BY SequenceEmptyOrAppend
<1>2. /\ Len(r) \in Nat /\ Len(s) = Len(r) + 1 /\ s[Len(s)] = b
      /\ \A k \in 1..Len(r) : s[k] = r[k] /\ k \in 1..Len(s) /\ k # Len(s)
      /\ Len(s) \in 1..Len(s)
  BY <1>1, AppendProperties
<1>3. IsLast(b) /\ \A k \in 1..Len(r) : ~IsLast(r[k])
  BY <1>2
<1>4. Messages(r) = <<>>
  BY <1>3, MessagesNone
<1>5. Messages(s) = Append(<<>>, b.of)
  BY <1>1, <1>3, <1>4, MessagesAppend
<1> QED
  BY <1>2, <1>5

-----------------------------------------------------------------------------
(* The bytes of a message *)

Size(m) == HeaderLen + s_payload_len[m]

\* Byte k of what send() hands to write().
LEMMA EncodedBytes ==
  ASSUME NEW m \in Msg
  PROVE  /\ HeaderLen \in Nat \ {0} /\ MAX_PAYLOAD_LEN \in Nat /\ s_payload_len[m] \in 0..MAX_PAYLOAD_LEN
         /\ Size(m) \in Nat \ {0} /\ Size(m) >= HeaderLen /\ Size(m) <= HeaderLen + MAX_PAYLOAD_LEN
         /\ Len(Encoded(m)) = Size(m)
         /\ \A k \in 1..Size(m) :
              Encoded(m)[k] = IF k <= HeaderLen THEN Byte(m, "header", k)
                              ELSE Byte(m, "payload", k - HeaderLen)
         /\ Encoded(m) \in Seq(AnyByte)
<1>1. /\ HeaderLen \in Nat \ {0} /\ MAX_PAYLOAD_LEN \in Nat /\ s_payload_len[m] \in 0..MAX_PAYLOAD_LEN
      /\ s_payload_len[m] \in Nat
  BY IpcBytesAssumption
<1>2. Size(m) \in Nat \ {0} /\ Size(m) >= HeaderLen /\ Size(m) <= HeaderLen + MAX_PAYLOAD_LEN
  BY <1>1 DEF Size
<1> DEFINE S == {Byte(m, part, k) : part \in {"header", "payload"}, k \in Nat}
<1>3. ASSUME NEW part \in {"header", "payload"}, NEW len \in Nat
      PROVE  /\ Bytes(m, part, len) \in Seq(S) /\ Len(Bytes(m, part, len)) = len
             /\ \A k \in 1..len : Bytes(m, part, len)[k] = Byte(m, part, k)
  <2>1. \A k \in 1..len : Byte(m, part, k) \in S
    OBVIOUS
  <2> HIDE DEF S
  <2> QED
    BY <2>1 DEF Bytes
<1> HIDE DEF S
<1> PICK h, t : h = Bytes(m, "header", HeaderLen) /\ t = Bytes(m, "payload", s_payload_len[m])
  OBVIOUS
<1>4. /\ h \in Seq(S) /\ t \in Seq(S) /\ Len(h) = HeaderLen /\ Len(t) = s_payload_len[m]
      /\ \A k \in 1..HeaderLen : h[k] = Byte(m, "header", k)
      /\ \A k \in 1..s_payload_len[m] : t[k] = Byte(m, "payload", k)
  BY <1>1, <1>3
<1>5. Encoded(m) = h \o t
  BY DEF Encoded
<1>6. Encoded(m) \in Seq(S) /\ Len(Encoded(m)) = Size(m)
  <2>1. h \o t \in Seq(S) /\ Len(h \o t) = Len(h) + Len(t)
    BY <1>4, ConcatProperties
  <2>2. Len(h) + Len(t) = Size(m)
    BY <1>1, <1>4 DEF Size
  <2> QED
    BY <1>5, <2>1, <2>2
<1>7. ASSUME NEW k \in 1..Size(m)
      PROVE  Encoded(m)[k] = IF k <= HeaderLen THEN Byte(m, "header", k)
                             ELSE Byte(m, "payload", k - HeaderLen)
  <2>1. k \in 1..(Len(h) + Len(t))
    BY <1>4 DEF Size
  <2>2. Encoded(m)[k] = IF k <= HeaderLen THEN h[k] ELSE t[k - HeaderLen]
    BY <1>4, <1>5, <2>1, ConcatProperties
  <2>3. CASE k <= HeaderLen
    <3>1. k \in 1..HeaderLen
      BY <1>1, <2>3
    <3> QED
      BY <1>4, <2>2, <2>3, <3>1
  <2>4. CASE ~(k <= HeaderLen)
    <3>1. k - HeaderLen \in 1..s_payload_len[m]
      BY <1>1, <2>4 DEF Size
    <3> QED
      BY <1>4, <2>2, <2>4, <3>1
  <2> QED
    BY <2>3, <2>4
<1>8. Encoded(m) \in Seq(AnyByte)
  <2>1. Range(Encoded(m)) \subseteq AnyByte
    BY DEF AnyByte
  <2>2. DOMAIN Encoded(m) = 1..Size(m) /\ Encoded(m) = [k \in 1..Size(m) |-> Encoded(m)[k]]
    BY <1>6, LenProperties
  <2>3. \A k \in 1..Size(m) : Encoded(m)[k] \in AnyByte
    BY <2>1, <2>2 DEF Range
  <2>4. Encoded(m) \in [1..Size(m) -> AnyByte]
    BY <2>2, <2>3
  <2> QED
    BY <1>2, <2>4, SeqDef
<1> QED
  BY <1>1, <1>2, <1>6, <1>7, <1>8

\* A byte shows which message it is of, and where in it.
LEMMA SameByte ==
  ASSUME NEW m \in Msg, NEW k \in 1..Size(m)
  PROVE  /\ Encoded(m)[k].of = m
         /\ \A l \in Msg : \A j \in 1..Size(l) :
              Encoded(m)[k] = Encoded(l)[j] => m = l /\ k = j
         /\ IsLast(Encoded(m)[k]) <=> k = Size(m)
<1>0. ASSUME NEW l \in Msg, NEW j \in 1..Size(l) PROVE Encoded(l)[j].of = l
  <2>1. Encoded(l)[j] = IF j <= HeaderLen THEN Byte(l, "header", j)
                        ELSE Byte(l, "payload", j - HeaderLen)
    BY EncodedBytes
  <2> QED
    BY <2>1 DEF Byte
<1>1. Encoded(m)[k].of = m
  BY <1>0
<1>2. ASSUME NEW l \in Msg, NEW j \in 1..Size(l), Encoded(m)[k] = Encoded(l)[j]
      PROVE  m = l /\ k = j
  <2>1. m = l
    BY <1>0, <1>1, <1>2
  <2>2. HeaderLen \in Nat /\ Size(m) \in Nat
    BY EncodedBytes
  <2>3. /\ Encoded(m)[k] = IF k <= HeaderLen THEN Byte(m, "header", k)
                           ELSE Byte(m, "payload", k - HeaderLen)
        /\ Encoded(m)[j] = IF j <= HeaderLen THEN Byte(m, "header", j)
                           ELSE Byte(m, "payload", j - HeaderLen)
    BY <2>1, EncodedBytes
  <2>4. k = j
    BY <1>2, <2>1, <2>2, <2>3 DEF Byte
  <2> QED
    BY <2>1, <2>4
<1>3. IsLast(Encoded(m)[k]) <=> k = Size(m)
  <2>1. Size(m) \in 1..Size(m) /\ Len(Encoded(m)) = Size(m)
    BY EncodedBytes
  <2> QED
    BY <1>1, <1>2, <2>1 DEF IsLast
<1> QED
  BY <1>1, <1>2, <1>3

\* The same for two bytes.
LEMMA SamePlace ==
  ASSUME NEW m \in Msg, NEW l \in Msg, NEW k \in 1..Size(m), NEW j \in 1..Size(l),
         Encoded(m)[k] = Encoded(l)[j]
  PROVE  m = l /\ k = j
BY SameByte

\* Every byte is one of a message.
LEMMA AnyByteOf ==
  ASSUME NEW b \in AnyByte
  PROVE  \E m \in Msg : \E k \in 1..Size(m) : b = Encoded(m)[k]
<1>1. PICK m \in Msg : b \in Range(Encoded(m))
  BY DEF AnyByte
<1>2. DOMAIN Encoded(m) = 1..Size(m)
  BY EncodedBytes, LenProperties
<1> QED
  BY <1>1, <1>2 DEF Range

\* So it has a message.
LEMMA BytesOfMessages == OfMessages(AnyByte)
BY AnyByteOf, SameByte DEF OfMessages

\* What send() writes is one message.
LEMMA MessagesEncoded ==
  ASSUME NEW m \in Msg
  PROVE  Messages(Encoded(m)) = <<m>>
<1> PICK s : s = Encoded(m)
  OBVIOUS
<1>1. s \in Seq(AnyByte) /\ Len(s) = Size(m) /\ Size(m) \in Nat \ {0}
  BY EncodedBytes
<1>2. s # <<>>
  BY <1>1
<1>3. \A k \in 1..Len(s) : IsLast(s[k]) <=> k = Len(s)
  BY <1>1, SameByte
<1>4. Messages(s) = <<s[Len(s)].of>>
  BY <1>1, <1>2, <1>3, MessagesOne
<1>5. Len(s) \in 1..Size(m)
  BY <1>1
<1>6. s[Len(s)].of = m
  BY <1>5, SameByte
<1> QED
  BY <1>4, <1>6

-----------------------------------------------------------------------------
(* What a pipe holds *)

\* Byte r of m is in front of the next one of m, or of the first one of a message.
Follows(b, m, r) ==
  IF r < Size(m) THEN b = Encoded(m)[r + 1] ELSE \E l \in Msg : b = Encoded(l)[1]

\* The rest of a message and whole messages behind it.
Stream(s) ==
  /\ s \in Seq(AnyByte)
  /\ \A k \in 1..(Len(s) - 1) : \A m \in Msg : \A r \in 1..Size(m) :
       s[k] = Encoded(m)[r] => Follows(s[k + 1], m, r)
  /\ s # <<>> => \E m \in Msg : s[Len(s)] = Encoded(m)[Size(m)]

\* At first there is nothing.
LEMMA StreamEmpty == Stream(<<>>)
<1>1. <<>> \in Seq(AnyByte) /\ Len(<<>>) = 0
  OBVIOUS
<1> QED
  BY <1>1 DEF Stream

\* The rest of the message that is in front is there.
LEMMA StreamRest ==
  ASSUME NEW s, Stream(s), s # <<>>,
         NEW m \in Msg, NEW r \in 1..Size(m), s[1] = Encoded(m)[r]
  PROVE  /\ Size(m) - r + 1 <= Len(s)
         /\ \A j \in 0..(Size(m) - r) : s[j + 1] = Encoded(m)[r + j]
<1>0. /\ s \in Seq(AnyByte) /\ Len(s) \in Nat \ {0}
      /\ Size(m) \in Nat \ {0} /\ r \in Nat \ {0} /\ Size(m) - r \in Nat
  BY EncodedBytes, EmptySeq DEF Stream
<1> DEFINE n == Size(m) - r
           K == {j \in 0..n : j + 1 <= Len(s) /\ s[j + 1] = Encoded(m)[r + j]}
<1>1. 0 \in K
  <2>1. 0 \in 0..n /\ 0 + 1 = 1 /\ r + 0 = r /\ 1 <= Len(s)
    BY <1>0
  <2> QED
    BY <2>1
<1>2. ASSUME NEW j \in 0..n, j < n, j \in K PROVE j + 1 \in K
  <2>1. j \in Nat /\ r + j \in 1..Size(m) /\ r + j < Size(m) /\ j + 1 <= Len(s) /\ j + 1 \in 0..n
    BY <1>0, <1>2
  <2>2. s[j + 1] = Encoded(m)[r + j]
    BY <1>2
  <2>3. j + 1 # Len(s)
    <3> SUFFICES ASSUME j + 1 = Len(s) PROVE FALSE
      OBVIOUS
    <3>1. PICK l \in Msg : s[j + 1] = Encoded(l)[Size(l)]
      BY <1>0 DEF Stream
    <3>2. Size(l) \in 1..Size(l)
      BY EncodedBytes
    <3>3. Encoded(m)[r + j] = Encoded(l)[Size(l)] /\ r + j \in 1..Size(m)
      BY <2>1, <2>2, <3>1
    <3>4. m = l /\ r + j = Size(l)
      BY <3>2, <3>3, SamePlace
    <3> QED
      BY <1>0, <2>1, <3>4
  <2>4. j + 1 \in 1..(Len(s) - 1)
    BY <1>0, <2>1, <2>3
  <2>5. Follows(s[(j + 1) + 1], m, r + j)
    BY <2>1, <2>2, <2>4 DEF Stream
  <2>6. s[(j + 1) + 1] = Encoded(m)[r + (j + 1)]
    <3>1. (r + j) + 1 = r + (j + 1)
      BY <1>0, <2>1
    <3> QED
      BY <2>1, <2>5, <3>1 DEF Follows
  <2>7. (j + 1) + 1 <= Len(s)
    BY <1>0, <2>4
  <2> QED
    BY <2>1, <2>6, <2>7
<1>3. \A j \in 0..n : j \in K
  <2>1. n \in Nat
    BY <1>0
  <2> HIDE DEF K, n
  <2> QED
    BY <1>1, <1>2, <2>1, UpTo
<1>4. n \in 0..n
  BY <1>0
<1>5. n \in K
  BY <1>3, <1>4
<1> QED
  BY <1>0, <1>3, <1>5

\* What is behind a byte is a stream again.
LEMMA StreamDrop ==
  ASSUME NEW s, Stream(s), NEW n \in 0..Len(s)
  PROVE  /\ Stream(SubSeq(s, n + 1, Len(s)))
         /\ Len(SubSeq(s, n + 1, Len(s))) = Len(s) - n
         /\ \A k \in 1..(Len(s) - n) : SubSeq(s, n + 1, Len(s))[k] = s[n + k]
<1> PICK t : t = SubSeq(s, n + 1, Len(s))
  OBVIOUS
<1>0. s \in Seq(AnyByte) /\ Len(s) \in Nat /\ n \in Nat /\ n <= Len(s)
  BY DEF Stream
<1>1. /\ t \in Seq(AnyByte) /\ Len(t) = Len(s) - n
      /\ \A k \in 1..(Len(s) - n) : t[k] = s[n + k]
  BY <1>0, LastPart
<1>2. ASSUME NEW k \in 1..(Len(t) - 1), NEW m \in Msg, NEW r \in 1..Size(m), t[k] = Encoded(m)[r]
      PROVE  Follows(t[k + 1], m, r)
  <2>1. k \in 1..(Len(s) - n) /\ k + 1 \in 1..(Len(s) - n) /\ n + k \in 1..(Len(s) - 1) /\ n + (k + 1) = (n + k) + 1
    BY <1>0, <1>1
  <2>2. t[k] = s[n + k] /\ t[k + 1] = s[(n + k) + 1]
    BY <1>1, <2>1
  <2> QED
    BY <1>2, <2>1, <2>2 DEF Stream
<1>3. ASSUME t # <<>> PROVE \E m \in Msg : t[Len(t)] = Encoded(m)[Size(m)]
  <2>1. Len(t) \in 1..(Len(s) - n) /\ n + Len(t) = Len(s) /\ s # <<>>
    BY <1>0, <1>1, <1>3, EmptySeq
  <2>2. t[Len(t)] = s[Len(s)]
    BY <1>1, <2>1
  <2> QED
    BY <2>1, <2>2 DEF Stream
<1> QED
  BY <1>1, <1>2, <1>3 DEF Stream

\* A message behind a stream makes a stream.
LEMMA StreamSend ==
  ASSUME NEW s, Stream(s), NEW m \in Msg
  PROVE  /\ Stream(s \o Encoded(m))
         /\ Len(s \o Encoded(m)) = Len(s) + Size(m)
         /\ s \o Encoded(m) # <<>>
         /\ (s \o Encoded(m))[1] = IF s = <<>> THEN Encoded(m)[1] ELSE s[1]
<1> PICK e : e = Encoded(m)
  OBVIOUS
<1> PICK t : t = s \o e
  OBVIOUS
<1>0. /\ s \in Seq(AnyByte) /\ e \in Seq(AnyByte)
      /\ Len(s) \in Nat /\ Len(e) = Size(m) /\ Size(m) \in Nat \ {0}
  BY EncodedBytes DEF Stream
<1>1. /\ t \in Seq(AnyByte) /\ Len(t) = Len(s) + Size(m)
      /\ \A k \in 1..(Len(s) + Size(m)) : t[k] = IF k <= Len(s) THEN s[k] ELSE e[k - Len(s)]
  BY <1>0, ConcatProperties
<1>2. t # <<>>
  BY <1>0, <1>1
<1>3. t[1] = IF s = <<>> THEN e[1] ELSE s[1]
  <2>1. 1 \in 1..(Len(s) + Size(m)) /\ (s = <<>> <=> Len(s) = 0) /\ (Len(s) = 0 => 1 - Len(s) = 1)
    BY <1>0, EmptySeq
  <2> QED
    BY <1>0, <1>1, <2>1
<1>4. ASSUME NEW k \in 1..(Len(t) - 1), NEW l \in Msg, NEW r \in 1..Size(l), t[k] = Encoded(l)[r]
      PROVE  Follows(t[k + 1], l, r)
  <2>0. k \in 1..(Len(s) + Size(m)) /\ k + 1 \in 1..(Len(s) + Size(m)) /\ k \in Nat
    BY <1>0, <1>1
  <2>1. CASE k + 1 <= Len(s)
    <3>0. k \in 1..(Len(s) - 1) /\ k <= Len(s)
      BY <1>0, <2>0, <2>1
    <3>1. k \in 1..(Len(s) - 1) /\ t[k] = s[k] /\ t[k + 1] = s[k + 1]
      BY <1>1, <2>0, <2>1, <3>0
    <3> QED
      BY <1>4, <3>1 DEF Stream
  <2>2. CASE k = Len(s)
    <3>0. k <= Len(s) /\ ~(k + 1 <= Len(s)) /\ (k + 1) - Len(s) = 1 /\ Len(s) # 0
      BY <1>0, <2>0, <2>2
    <3>a. s # <<>>
      BY <3>0, EmptySeq
    <3>1. t[k] = s[Len(s)] /\ t[k + 1] = e[1] /\ s # <<>>
      BY <1>1, <2>0, <2>2, <3>0, <3>a
    <3>2. PICK q \in Msg : t[k] = Encoded(q)[Size(q)]
      BY <3>1 DEF Stream
    <3>3. Size(q) \in 1..Size(q) /\ Size(q) \in Nat
      BY EncodedBytes
    <3>b. Encoded(q)[Size(q)] = Encoded(l)[r]
      BY <1>4, <3>2
    <3>4. q = l /\ Size(q) = r
      BY <3>3, <3>b, SamePlace
    <3>5. ~(r < Size(l))
      BY <3>3, <3>4
    <3>6. \E x \in Msg : t[k + 1] = Encoded(x)[1]
      BY <3>1
    <3> QED
      BY <3>5, <3>6 DEF Follows
  <2>3. CASE k > Len(s)
    <3>1. PICK j : j = k - Len(s)
      OBVIOUS
    <3>2. j \in 1..(Size(m) - 1) /\ j \in 1..Size(m) /\ (k + 1) - Len(s) = j + 1 /\ j < Size(m)
      BY <1>0, <1>1, <2>0, <2>3, <3>1
    <3>a. ~(k <= Len(s)) /\ ~(k + 1 <= Len(s))
      BY <1>0, <2>0, <2>3
    <3>3. t[k] = e[j] /\ t[k + 1] = e[j + 1]
      BY <1>1, <2>0, <3>1, <3>2, <3>a
    <3>4. Encoded(m)[j] = Encoded(l)[r]
      BY <1>4, <3>3
    <3>5. m = l /\ j = r
      BY <3>2, <3>4, SamePlace
    <3> QED
      BY <3>2, <3>3, <3>5 DEF Follows
  <2> QED
    BY <1>0, <2>0, <2>1, <2>2, <2>3
<1>5. t[Len(t)] = Encoded(m)[Size(m)]
  <2>1. Len(t) \in 1..(Len(s) + Size(m)) /\ ~(Len(t) <= Len(s)) /\ Len(t) - Len(s) = Size(m)
    BY <1>0, <1>1
  <2> QED
    BY <1>1, <2>1
<1> QED
  BY <1>1, <1>2, <1>3, <1>4, <1>5 DEF Stream

-----------------------------------------------------------------------------
(* Reading a message *)

\* A function on 1..n is a sequence.
LEMMA SeqOfFunction ==
  ASSUME NEW S, NEW n \in Nat, NEW f \in [1..n -> S]
  PROVE  f \in Seq(S)
  BY SeqDef

\* The two parts that send() puts together.
LEMMA PartBytes ==
  ASSUME NEW m \in Msg
  PROVE  /\ Bytes(m, "header", HeaderLen) \in Seq(AnyByte)
         /\ Bytes(m, "payload", s_payload_len[m]) \in Seq(AnyByte)
         /\ Len(Bytes(m, "header", HeaderLen)) = HeaderLen
         /\ Len(Bytes(m, "payload", s_payload_len[m])) = s_payload_len[m]
         /\ \A k \in 1..HeaderLen : Bytes(m, "header", HeaderLen)[k] = Encoded(m)[k]
         /\ \A k \in 1..s_payload_len[m] :
              Bytes(m, "payload", s_payload_len[m])[k] = Encoded(m)[HeaderLen + k]
<1>0. /\ HeaderLen \in Nat \ {0} /\ s_payload_len[m] \in Nat /\ Size(m) = HeaderLen + s_payload_len[m]
      /\ Encoded(m) \in Seq(AnyByte) /\ Len(Encoded(m)) = Size(m)
  BY EncodedBytes DEF Size
<1> PICK h, t : h = Bytes(m, "header", HeaderLen) /\ t = Bytes(m, "payload", s_payload_len[m])
  OBVIOUS
<1>1. /\ h = [k \in 1..HeaderLen |-> Byte(m, "header", k)]
      /\ t = [k \in 1..s_payload_len[m] |-> Byte(m, "payload", k)]
  BY DEF Bytes
<1>2. ASSUME NEW k \in 1..HeaderLen PROVE h[k] = Encoded(m)[k] /\ h[k] \in AnyByte
  <2>1. k \in 1..Size(m) /\ k <= HeaderLen
    BY <1>0
  <2>2. Encoded(m)[k] = Byte(m, "header", k)
    BY <2>1, EncodedBytes
  <2> QED
    BY <1>0, <1>1, <2>1, <2>2, ElementOfSeq
<1>3. ASSUME NEW k \in 1..s_payload_len[m]
      PROVE  t[k] = Encoded(m)[HeaderLen + k] /\ t[k] \in AnyByte
  <2>1. HeaderLen + k \in 1..Size(m) /\ ~(HeaderLen + k <= HeaderLen) /\ (HeaderLen + k) - HeaderLen = k
    BY <1>0
  <2>2. Encoded(m)[HeaderLen + k] = Byte(m, "payload", (HeaderLen + k) - HeaderLen)
    BY <2>1, EncodedBytes
  <2> QED
    BY <1>0, <1>1, <2>1, <2>2, ElementOfSeq
<1>4. h \in [1..HeaderLen -> AnyByte] /\ t \in [1..s_payload_len[m] -> AnyByte]
  <2>1. h \in [1..HeaderLen -> AnyByte]
    BY <1>1, <1>2
  <2>2. t \in [1..s_payload_len[m] -> AnyByte]
    BY <1>1, <1>3
  <2> QED
    BY <2>1, <2>2
<1>5. h \in Seq(AnyByte) /\ t \in Seq(AnyByte)
  <2>0. HeaderLen \in Nat /\ s_payload_len[m] \in Nat
    BY <1>0
  <2>1. h \in Seq(AnyByte)
    BY <2>0, <1>4, SeqOfFunction
  <2>2. t \in Seq(AnyByte)
    BY <2>0, <1>4, SeqOfFunction
  <2> QED
    BY <2>1, <2>2
<1>6. Len(h) = HeaderLen /\ Len(t) = s_payload_len[m]
  BY <1>0, <1>4, <1>5, LenProperties
<1>7. \A k \in 1..HeaderLen : h[k] = Encoded(m)[k]
  BY <1>2
<1>8. \A k \in 1..s_payload_len[m] : t[k] = Encoded(m)[HeaderLen + k]
  BY <1>3
<1> QED
  BY <1>5, <1>6, <1>7, <1>8, Zenon

\* s begins with n bytes of m, those behind byte r.
BeginsWith(s, n, m, r) == \A k \in 1..n : s[k] = Encoded(m)[r + k]

\* Reading n bytes of m from a pipe takes its message if the last byte is among them.
LEMMA FrontMessages ==
  ASSUME NEW s \in Seq(AnyByte), NEW n \in 1..Len(s),
         NEW m \in Msg, NEW r \in Nat, r + n <= Size(m), BeginsWith(s, n, m, r)
  PROVE  LET rest == Messages(SubSeq(s, n + 1, Len(s)))
         IN  /\ rest \in Seq(Msg)
             /\ Messages(s) = IF r + n = Size(m) THEN <<m>> \o rest ELSE rest
<1>def. PICK f, t : f = SubSeq(s, 1, n) /\ t = SubSeq(s, n + 1, Len(s))
  OBVIOUS
<1>0. Len(s) \in Nat /\ n \in Nat /\ 1 <= n /\ n <= Len(s) /\ Size(m) \in Nat
  BY EncodedBytes
<1>1. f \in Seq(AnyByte) /\ Len(f) = n /\ \A k \in 1..n : f[k] = s[k]
  <2>1. n \in 0..Len(s)
    BY <1>0
  <2> QED
    BY <1>def, <2>1, FirstPart
<1>2. t \in Seq(AnyByte) /\ s = f \o t
  <2>1. n \in 0..Len(s)
    BY <1>0
  <2> QED
    BY <1>def, <2>1, LastPart
<1>4. Messages(s) = Messages(f) \o Messages(t) /\ Messages(t) \in Seq(Msg)
  BY <1>1, <1>2, BytesOfMessages, MessagesConcat, MessagesType
<1>5. ASSUME NEW k \in 1..n PROVE IsLast(f[k]) <=> r + k = Size(m)
  <2>1. r + k \in 1..Size(m)
    BY <1>0
  <2>2. f[k] = Encoded(m)[r + k]
    BY <1>1 DEF BeginsWith
  <2> QED
    BY <2>1, <2>2, SameByte
<1>6. CASE r + n = Size(m)
  <2>1. f # <<>> /\ \A k \in 1..Len(f) : IsLast(f[k]) <=> k = Len(f)
    <3>1. f # <<>>
      BY <1>0, <1>1, EmptySeq
    <3>2. \A k \in 1..n : r + k = Size(m) <=> k = n
      BY <1>0, <1>6
    <3> QED
      BY <1>1, <1>5, <3>1, <3>2
  <2>2. Messages(f) = <<f[Len(f)].of>>
    BY <1>1, <2>1, MessagesOne
  <2>3. n \in 1..n /\ r + n \in 1..Size(m)
    BY <1>0
  <2>4. f[Len(f)].of = m
    <3>1. f[Len(f)] = Encoded(m)[r + n]
      BY <1>1, <2>3 DEF BeginsWith
    <3> QED
      BY <2>3, <3>1, SameByte
  <2> QED
    BY <1>def, <1>4, <1>6, <2>2, <2>4
<1>7. CASE r + n # Size(m)
  <2>1. \A k \in 1..Len(f) : ~IsLast(f[k])
    BY <1>0, <1>1, <1>5, <1>7
  <2>2. Messages(f) = <<>>
    BY <1>1, <2>1, MessagesNone
  <2> QED
    BY <1>def, <1>4, <1>7, <2>2, ConcatEmptySeq
<1> QED
  BY <1>6, <1>7

\* ipc_read() gets what it asks for and puts it at the start of the buffer, in front of what
\* is left there of a longer message.
LEMMA OverwritePart ==
  ASSUME NEW S, pipe \in Seq(S), NEW old \in Seq(S), NEW n \in 0..Len(pipe)
  PROVE  /\ Overwrite(old, n) \in Seq(S)
         /\ Len(Overwrite(old, n)) = IF Len(old) <= n THEN n ELSE Len(old)
         /\ \A k \in 1..n : Overwrite(old, n)[k] = pipe[k]
<1>def. PICK f, g, t : f = SubSeq(pipe, 1, n) /\ g = SubSeq(old, n + 1, Len(old)) /\ t = f \o g
  OBVIOUS
<1>0. Len(pipe) \in Nat /\ n \in Nat /\ n <= Len(pipe) /\ Len(old) \in Nat
  OBVIOUS
<1>1. f \in Seq(S) /\ Len(f) = n /\ \A k \in 1..n : f[k] = pipe[k]
  BY <1>def, FirstPart
<1>2. g \in Seq(S) /\ Len(g) = IF Len(old) <= n THEN 0 ELSE Len(old) - n
  <2>1. CASE Len(old) <= n
    <3>1. n + 1 > Len(old) /\ n + 1 \in Int /\ Len(old) \in Int
      BY <1>0, <2>1
    <3>2. g = <<>>
      BY <1>def, <3>1, SubSeqEmpty
    <3>3. g \in Seq(S) /\ Len(g) = 0
      BY <3>2, EmptySeq
    <3> QED
      BY <2>1, <3>3, Zenon
  <2>2. CASE n < Len(old)
    <3>1. n \in 0..Len(old) /\ ~(Len(old) <= n)
      BY <1>0, <2>2
    <3>2. g \in Seq(S) /\ Len(g) = Len(old) - n
      BY <1>def, <3>1, LastPart
    <3> QED
      BY <3>1, <3>2, Zenon
  <2>3. Len(old) <= n \/ n < Len(old)
    BY <1>0
  <2> QED
    BY <2>1, <2>2, <2>3
<1>3. /\ t \in Seq(S) /\ Len(t) = Len(f) + Len(g)
      /\ \A k \in 1..(Len(f) + Len(g)) : t[k] = IF k <= Len(f) THEN f[k] ELSE g[k - Len(f)]
  <2>1. f \in Seq(S) /\ g \in Seq(S)
    BY <1>1, <1>2
  <2> QED
    BY <1>def, <2>1, ConcatProperties
<1>4. ASSUME NEW k \in 1..n PROVE t[k] = pipe[k]
  <2>1. Len(g) \in Nat /\ Len(f) = n
    BY <1>0, <1>1, <1>2
  <2>2. k \in 1..(Len(f) + Len(g)) /\ k <= Len(f)
    BY <1>0, <2>1
  <2> QED
    BY <1>1, <1>3, <2>2
<1>5. Len(t) = IF Len(old) <= n THEN n ELSE Len(old)
  <2>1. Len(t) = n + Len(g)
    BY <1>1, <1>3
  <2> QED
    BY <1>0, <1>2, <2>1
<1>6. t = Overwrite(old, n)
  BY <1>def DEF Overwrite
<1> QED
  BY <1>3, <1>4, <1>5, <1>6

\* A buffer with the bytes of m at the start of both parts is taken for m.
LEMMA DecodedMessage ==
  ASSUME NEW m \in Msg, NEW b,
         b["header"] \in Seq(AnyByte), Len(b["header"]) = HeaderLen,
         \A k \in 1..HeaderLen : b["header"][k] = Encoded(m)[k],
         b["payload"] \in Seq(AnyByte), Len(b["payload"]) >= s_payload_len[m],
         \A k \in 1..s_payload_len[m] : b["payload"][k] = Encoded(m)[HeaderLen + k]
  PROVE  Shown(b["header"]) = m /\ Decoded(b) = m
<1> PICK h, t : h = b["header"] /\ t = b["payload"]
  OBVIOUS
<1>0. HeaderLen \in Nat \ {0} /\ s_payload_len[m] \in Nat /\ Size(m) = HeaderLen + s_payload_len[m]
  BY EncodedBytes DEF Size
<1>1. Shown(h) = m
  <2>1. HeaderLen \in 1..HeaderLen /\ HeaderLen \in 1..Size(m)
    BY <1>0
  <2> QED
    BY <2>1, SameByte DEF Shown
<1> PICK x, y : x = SubSeq(h, 1, HeaderLen) /\ y = SubSeq(t, 1, s_payload_len[m])
  OBVIOUS
<1>2. x = Bytes(m, "header", HeaderLen)
  <2>1. x = h
    BY SubSeqFull
  <2> QED
    BY <2>1, PartBytes, SeqEqual
<1>3. y = Bytes(m, "payload", s_payload_len[m])
  <2>1. s_payload_len[m] \in 0..Len(t)
    BY <1>0
  <2>3. /\ y \in Seq(AnyByte) /\ Len(y) = s_payload_len[m]
        /\ \A k \in 1..s_payload_len[m] : y[k] = t[k]
    BY <2>1, FirstPart
  <2>4. /\ Bytes(m, "payload", s_payload_len[m]) \in Seq(AnyByte)
        /\ Len(Bytes(m, "payload", s_payload_len[m])) = s_payload_len[m]
        /\ \A k \in 1..s_payload_len[m] : Bytes(m, "payload", s_payload_len[m])[k] = y[k]
    BY <2>3, PartBytes
  <2> QED
    BY <2>3, <2>4, SeqEqual
<1>4. Encoded(m) = x \o y
  BY <1>2, <1>3 DEF Encoded
<1> QED
  BY <1>1, <1>4 DEF Decoded

-----------------------------------------------------------------------------
(* The inductive invariant *)

\* receive() is about to read a header or the payload of m, whose header is in the buffer; what
\* it is about to read is in front.
Reads(m) ==
  /\ s_payload_len[m] > 0 /\ pipe # <<>> /\ pipe[1] = Encoded(m)[HeaderLen + 1]
  /\ buf["header"] \in Seq(AnyByte) /\ Len(buf["header"]) = HeaderLen
  /\ \A k \in 1..HeaderLen : buf["header"][k] = Encoded(m)[k]

StreamInv ==
  /\ PipeTypeOK
  /\ buf \in [{"header", "payload"} -> Seq(AnyByte)]
  /\ total_read = 0
  /\ Stream(pipe)
  /\ reading = "header" /\ pipe # <<>> => \E m \in Msg : pipe[1] = Encoded(m)[1]
  /\ reading = "payload" => \E m \in Msg : Reads(m)

\* It holds of the empty pipe.
LEMMA StreamInit == ASSUME PipeInit PROVE StreamInv
<1>1. <<>> \in Seq(AnyByte) /\ Len(<<>>) = 0
  OBVIOUS
<1>2. HeaderLen \in Nat \ {0} /\ MAX_PAYLOAD_LEN \in Nat /\ 0 <= Capacity
  BY IpcBytesAssumption
<1>3. /\ buf \in [{"header", "payload"} -> Seq(AnyByte)]
      /\ \A part \in {"header", "payload"} : buf[part] = <<>>
      /\ pipe = <<>> /\ total_read = 0 /\ reading = "header" /\ nonblocking \in BOOLEAN
      /\ returned = EMPTY /\ err = 0
  BY <1>1 DEF PipeInit
<1>4. Stream(pipe)
  BY <1>3, StreamEmpty
<1>5. PipeTypeOK
  BY <1>1, <1>2, <1>3 DEF PipeTypeOK
<1> QED
  BY <1>3, <1>4, <1>5 DEF StreamInv

\* A send() puts a message behind all others, or leaves the pipe as it was.
LEMMA SendStep ==
  ASSUME StreamInv, NEW m \in Msg, ipc_write(m)
  PROVE  /\ StreamInv'
         /\ returned' = returned
         /\ \/ pipe' = pipe
            \/ Messages(pipe') = Append(Messages(pipe), m)
<1>0. /\ UNCHANGED <<reading, total_read, buf, returned, nonblocking>>
      /\ Stream(pipe) /\ pipe \in Seq(AnyByte) /\ Len(pipe) \in Nat
  BY DEF ipc_write, StreamInv, Stream
<1>1. CASE pipe' = pipe /\ err' = 1
  BY <1>0, <1>1 DEF StreamInv, Reads, PipeTypeOK
<1>2. CASE pipe' = pipe \o Encoded(m) /\ Len(pipe) + Len(Encoded(m)) <= Capacity /\ err' = 0
  <2>1. Len(Encoded(m)) = Size(m) /\ Encoded(m) \in Seq(AnyByte)
    BY EncodedBytes
  <2>2. /\ Stream(pipe') /\ Len(pipe') = Len(pipe) + Size(m) /\ pipe' # <<>>
        /\ pipe'[1] = IF pipe = <<>> THEN Encoded(m)[1] ELSE pipe[1]
    BY <1>0, <1>2, StreamSend
  <2>3. StreamInv'
    <3>1. pipe' \in Seq(AnyByte) /\ Len(pipe') <= Capacity
      BY <1>2, <2>1, <2>2 DEF Stream
    <3>2. PipeTypeOK'
      BY <1>0, <1>2, <3>1 DEF StreamInv, PipeTypeOK
    <3>3. reading = "header" => \E l \in Msg : pipe'[1] = Encoded(l)[1]
      BY <2>2 DEF StreamInv
    <3>4. reading = "payload" => \E l \in Msg : Reads(l)'
      BY <1>0, <2>2 DEF StreamInv, Reads
    <3>5. reading' = reading /\ total_read' = total_read
      BY <1>0
    <3>6. total_read' = 0
      BY <3>5 DEF StreamInv
    <3>7. reading' = "header" /\ pipe' # <<>> => \E l \in Msg : pipe'[1] = Encoded(l)[1]
      BY <3>3, <3>5
    <3>8. reading' = "payload" => \E l \in Msg : Reads(l)'
      BY <3>4, <3>5
    <3>9. buf' \in [{"header", "payload"} -> Seq(AnyByte)]
      BY <1>0 DEF StreamInv
    <3>10. Stream(pipe')
      BY <2>2
    <3>11. PipeTypeOK' /\ buf' \in [{"header", "payload"} -> Seq(AnyByte)] /\ total_read' = 0
      BY <3>2, <3>6, <3>9
    <3> QED
      BY <3>7, <3>8, <3>10, <3>11, Zenon DEF StreamInv
  <2>4. Messages(pipe') = Append(Messages(pipe), m)
    <3>0. Messages(pipe \o Encoded(m)) = Messages(pipe) \o Messages(Encoded(m))
      BY <1>0, <2>1, BytesOfMessages, MessagesConcat
    <3>1. Messages(pipe') = Messages(pipe) \o <<m>>
      BY <1>2, <3>0, MessagesEncoded
    <3>2. Messages(pipe) \in Seq(Msg)
      BY <1>0, BytesOfMessages, MessagesType
    <3> QED
      BY <3>1, <3>2, AppendIsConcat
  <2> QED
    BY <1>0, <2>3, <2>4
<1> QED
  BY <1>1, <1>2 DEF ipc_write

\* EAGAIN comes only between two messages.
LEMMA EmptyStep ==
  ASSUME StreamInv, ReadNothing
  PROVE  StreamInv' /\ pipe = <<>> /\ pipe' = pipe /\ returned' = EMPTY
<1>1. /\ pipe = <<>> /\ pipe' = pipe /\ returned' = EMPTY /\ reading' = "header"
      /\ UNCHANGED <<nonblocking, total_read, buf, err>>
  BY DEF ReadNothing
<1> QED
  BY <1>1 DEF StreamInv, PipeTypeOK

\* A read() has put n bytes of m, those behind byte r, at the start of a part of the buffer, now b.
PartRead(m, r, n, part, b) ==
  /\ n <= Len(pipe) /\ Stream(pipe')
  /\ pipe' \in Seq(AnyByte) /\ Len(pipe') <= Len(pipe)
  /\ r + n < Size(m) => pipe' # <<>> /\ pipe'[1] = Encoded(m)[(r + n) + 1]
  /\ r + n = Size(m) /\ pipe' # <<>> => \E l \in Msg : pipe'[1] = Encoded(l)[1]
  /\ b \in [{"header", "payload"} -> Seq(AnyByte)]
  /\ Len(b[part]) = IF Len(buf[part]) <= n THEN n ELSE Len(buf[part])
  /\ \A k \in 1..n : b[part][k] = Encoded(m)[r + k]
  /\ \A q \in {"header", "payload"} \ {part} : b[q] = buf[q]
  /\ Messages(pipe') \in Seq(Msg)
  /\ Messages(pipe) = IF r + n = Size(m) THEN <<m>> \o Messages(pipe') ELSE Messages(pipe')

\* If n bytes, all that is asked for, are there, what is left is a stream.
LEMMA ReadPart ==
  ASSUME StreamInv, NEW m \in Msg, NEW r \in Nat,
         pipe # <<>>, r + 1 <= Size(m), pipe[1] = Encoded(m)[r + 1],
         NEW n \in Nat \ {0}, r + n <= Size(m),
         NEW part \in {"header", "payload"}, NEW b, b = [buf EXCEPT ![part] = Overwrite(@, n)],
         pipe' = SubSeq(pipe, n + 1, Len(pipe))
  PROVE  PartRead(m, r, n, part, b)
<1>0. /\ Stream(pipe) /\ pipe \in Seq(AnyByte) /\ Len(pipe) \in Nat /\ Size(m) \in Nat
      /\ buf \in [{"header", "payload"} -> Seq(AnyByte)]
  <2>1. Size(m) \in Nat
    BY EncodedBytes
  <2> QED
    BY <2>1 DEF StreamInv, Stream
<1>1. r + 1 \in 1..Size(m)
  BY <1>0
<1>2. /\ Size(m) - (r + 1) + 1 <= Len(pipe)
      /\ \A j \in 0..(Size(m) - (r + 1)) : pipe[j + 1] = Encoded(m)[(r + 1) + j]
  BY <1>0, <1>1, StreamRest
<1>3. n <= Len(pipe) /\ n \in 0..Len(pipe) /\ n \in 1..Len(pipe)
  BY <1>0, <1>2
<1>4. BeginsWith(pipe, n, m, r)
  <2> SUFFICES ASSUME NEW k \in 1..n PROVE pipe[k] = Encoded(m)[r + k]
    BY DEF BeginsWith
  <2>1. k - 1 \in 0..(Size(m) - (r + 1)) /\ (k - 1) + 1 = k /\ (r + 1) + (k - 1) = r + k
    BY <1>0
  <2> QED
    BY <1>2, <2>1
<1>5. /\ Stream(pipe') /\ Len(pipe') = Len(pipe) - n
      /\ \A k \in 1..(Len(pipe) - n) : pipe'[k] = pipe[n + k]
  BY <1>0, <1>3, StreamDrop
<1>6. pipe' \in Seq(AnyByte) /\ Len(pipe') <= Len(pipe)
  BY <1>0, <1>3, <1>5 DEF Stream
<1>7. ASSUME r + n < Size(m) PROVE pipe' # <<>> /\ pipe'[1] = Encoded(m)[(r + n) + 1]
  <2>1. Len(pipe) - n >= 1 /\ 1 \in 1..(Len(pipe) - n)
    BY <1>0, <1>2, <1>3, <1>7
  <2>2. pipe'[1] = pipe[n + 1]
    BY <1>5, <2>1
  <2>3. n \in 0..(Size(m) - (r + 1)) /\ (r + 1) + n = (r + n) + 1
    BY <1>0, <1>7
  <2>4. pipe[n + 1] = Encoded(m)[(r + n) + 1]
    BY <1>2, <2>3
  <2>5. pipe' # <<>>
    <3>1. Len(pipe') # 0 /\ Len(<<>>) = 0
      BY <1>0, <1>5, <2>1
    <3> QED
      BY <3>1
  <2> QED
    BY <2>2, <2>4, <2>5
<1>8. ASSUME r + n = Size(m), pipe' # <<>> PROVE \E l \in Msg : pipe'[1] = Encoded(l)[1]
  <2>1. Len(pipe') \in Nat \ {0}
    BY <1>6, <1>8, EmptySeq
  <2>2. 1 \in 1..(Len(pipe) - n) /\ n \in 1..(Len(pipe) - 1)
    BY <1>0, <1>3, <1>5, <2>1
  <2>3. pipe'[1] = pipe[n + 1]
    BY <1>5, <2>2
  <2>4. n \in 1..n /\ Size(m) \in 1..Size(m)
    BY <1>0, <1>8
  <2>5. pipe[n] = Encoded(m)[Size(m)]
    BY <1>4, <1>8, <2>4 DEF BeginsWith
  <2>6. Follows(pipe[n + 1], m, Size(m))
    BY <1>0, <2>2, <2>4, <2>5 DEF Stream
  <2>7. ~(Size(m) < Size(m))
    BY <1>0
  <2> QED
    BY <2>3, <2>6, <2>7 DEF Follows
<1>9. /\ b \in [{"header", "payload"} -> Seq(AnyByte)]
      /\ Len(b[part]) = IF Len(buf[part]) <= n THEN n ELSE Len(buf[part])
      /\ \A k \in 1..n : b[part][k] = Encoded(m)[r + k]
      /\ \A q \in {"header", "payload"} \ {part} : b[q] = buf[q]
  <2>1. buf[part] \in Seq(AnyByte)
    BY <1>0
  <2>2. /\ b[part] = Overwrite(buf[part], n)
        /\ \A q \in {"header", "payload"} \ {part} : b[q] = buf[q]
    BY <1>0
  <2>a. pipe \in Seq(AnyByte) /\ n \in 0..Len(pipe)
    BY <1>0, <1>3
  <2>3. /\ Overwrite(buf[part], n) \in Seq(AnyByte)
        /\ Len(Overwrite(buf[part], n)) = IF Len(buf[part]) <= n THEN n ELSE Len(buf[part])
        /\ \A k \in 1..n : Overwrite(buf[part], n)[k] = pipe[k]
    BY <2>1, <2>a, OverwritePart
  <2>4. b \in [{"header", "payload"} -> Seq(AnyByte)]
    BY <1>0, <2>3
  <2> QED
    BY <1>4, <2>2, <2>3, <2>4 DEF BeginsWith
<1>10. LET rest == Messages(pipe')
       IN  /\ rest \in Seq(Msg)
           /\ Messages(pipe) = IF r + n = Size(m) THEN <<m>> \o rest ELSE rest
  BY <1>0, <1>3, <1>4, FrontMessages
<1> QED
  BY <1>3, <1>5, <1>6, <1>7, <1>8, <1>9, <1>10 DEF PartRead

\* The whole rest of a message that is in front has been written.
LEMMA EnoughThere ==
  ASSUME StreamInv, NEW m \in Msg, NEW r \in Nat,
         pipe # <<>>, r + 1 <= Size(m), pipe[1] = Encoded(m)[r + 1]
  PROVE  Size(m) - r <= Len(pipe) /\ Len(pipe) \in Nat
<1>0. Stream(pipe) /\ Len(pipe) \in Nat /\ Size(m) \in Nat
  <2>1. Size(m) \in Nat
    BY EncodedBytes
  <2> QED
    BY <2>1 DEF StreamInv, Stream
<1>1. r + 1 \in 1..Size(m)
  BY <1>0
<1>2. Size(m) - (r + 1) + 1 <= Len(pipe)
  BY <1>0, <1>1, StreamRest
<1> QED
  BY <1>0, <1>2

\* What a step of receive() does to the messages in the pipe: nothing, or it returns the first.
Receives ==
  LET rest == Messages(pipe')
  IN  \/ returned' = returned /\ rest = Messages(pipe)
      \/ \E m \in Msg : /\ rest \in Seq(Msg) /\ Messages(pipe) = <<m>> \o rest
                        /\ returned' = m

\* receive() reads a header: it goes on to the payload, or returns a message without one.
LEMMA HeaderStep ==
  ASSUME StreamInv, ReadSome, reading = "header"
  PROVE  StreamInv' /\ Receives
<1>1. pipe # <<>> /\ total_read = 0 /\ buf \in [{"header", "payload"} -> Seq(AnyByte)]
  BY DEF ReadSome, StreamInv
<1>2. PICK m \in Msg : pipe[1] = Encoded(m)[1]
  BY <1>1 DEF StreamInv
<1>3. /\ HeaderLen \in Nat \ {0} /\ s_payload_len[m] \in Nat /\ Size(m) = HeaderLen + s_payload_len[m]
      /\ s_payload_len[m] <= MAX_PAYLOAD_LEN /\ MAX_PAYLOAD_LEN \in Nat
  BY EncodedBytes DEF Size
<1>4. Size(m) <= Len(pipe) /\ Len(pipe) \in Nat
  <2>1. 0 + 1 <= Size(m) /\ 0 + 1 = 1 /\ Size(m) - 0 = Size(m)
    BY <1>3
  <2>2. Size(m) - 0 <= Len(pipe) /\ Len(pipe) \in Nat
    BY <1>1, <1>2, <2>1, EnoughThere
  <2> QED
    BY <2>1, <2>2
<1>5. PICK b : b = [buf EXCEPT !["header"] = Overwrite(@, HeaderLen)]
  OBVIOUS
<1>6. ~(Len(pipe) < HeaderLen - 0) /\ HeaderLen - 0 = HeaderLen /\ ~(0 + HeaderLen < HeaderLen)
  BY <1>3, <1>4
<1>7. /\ pipe' = SubSeq(pipe, HeaderLen + 1, Len(pipe))
      /\ buf' = b /\ total_read' = 0 /\ UNCHANGED <<nonblocking, err>>
      /\ LET last == s_payload_len[Shown(b["header"])] = 0
         IN  /\ reading' = IF last THEN "header" ELSE "payload"
             /\ returned' = IF last THEN Decoded(b) ELSE returned
  BY <1>1, <1>5, <1>6 DEF ReadSome, PartLen
<1>8. /\ Stream(pipe') /\ pipe' \in Seq(AnyByte) /\ Len(pipe') <= Len(pipe)
      /\ 0 + HeaderLen < Size(m) => pipe' # <<>> /\ pipe'[1] = Encoded(m)[(0 + HeaderLen) + 1]
      /\ 0 + HeaderLen = Size(m) /\ pipe' # <<>> => \E l \in Msg : pipe'[1] = Encoded(l)[1]
      /\ b \in [{"header", "payload"} -> Seq(AnyByte)]
      /\ Len(b["header"]) = IF Len(buf["header"]) <= HeaderLen THEN HeaderLen ELSE Len(buf["header"])
      /\ \A k \in 1..HeaderLen : b["header"][k] = Encoded(m)[0 + k]
      /\ \A q \in {"header", "payload"} \ {"header"} : b[q] = buf[q]
      /\ LET rest == Messages(pipe')
         IN  /\ rest \in Seq(Msg)
             /\ Messages(pipe) = IF 0 + HeaderLen = Size(m) THEN <<m>> \o rest ELSE rest
  <2>1. 0 + 1 <= Size(m) /\ 0 + HeaderLen <= Size(m) /\ 0 + 1 = 1
    BY <1>3
  <2>2. pipe[1] = Encoded(m)[0 + 1]
    BY <1>2, <2>1
  <2>3. PartRead(m, 0, HeaderLen, "header", b)
    BY <1>1, <1>3, <1>5, <1>7, <2>1, <2>2, ReadPart
  <2> QED
    BY <2>3 DEF PartRead
<1>9. /\ Len(b["header"]) = HeaderLen /\ b["payload"] = buf["payload"]
      /\ b["header"] \in Seq(AnyByte) /\ b["payload"] \in Seq(AnyByte)
      /\ \A k \in 1..HeaderLen : b["header"][k] = Encoded(m)[k]
  <2>1. Len(buf["header"]) <= HeaderLen
    BY DEF StreamInv, PipeTypeOK
  <2>2. \A k \in 1..HeaderLen : 0 + k = k
    BY <1>3
  <2> QED
    BY <1>8, <2>1, <2>2
<1>10. Shown(b["header"]) = m
  <2>1. HeaderLen \in 1..HeaderLen /\ HeaderLen \in 1..Size(m)
    BY <1>3
  <2> QED
    BY <1>9, <2>1, SameByte DEF Shown
<1>11. /\ Len(pipe') <= Capacity /\ nonblocking' \in BOOLEAN /\ err' \in {0, 1}
       /\ total_read' \in 0..(HeaderLen + MAX_PAYLOAD_LEN)
       /\ \A part \in {"header", "payload"} : buf'[part] \in Seq(AnyByte)
       /\ Len(buf'["header"]) <= HeaderLen /\ Len(buf'["payload"]) <= MAX_PAYLOAD_LEN
  <2>1. /\ Len(pipe) <= Capacity /\ Capacity \in Nat /\ nonblocking \in BOOLEAN /\ err \in {0, 1}
        /\ Len(buf["payload"]) <= MAX_PAYLOAD_LEN
    BY IpcBytesAssumption DEF StreamInv, PipeTypeOK
  <2>2. Len(pipe') \in Nat
    BY <1>8
  <2>3. Len(pipe') <= Capacity
    BY <1>4, <1>8, <2>1, <2>2
  <2>4. nonblocking' \in BOOLEAN /\ err' \in {0, 1} /\ total_read' \in 0..(HeaderLen + MAX_PAYLOAD_LEN)
    BY <1>3, <1>7, <1>8, <2>1
  <2>5. buf' = b
    BY <1>7, <1>8
  <2>6. HeaderLen <= HeaderLen
    BY <1>3
  <2> QED
    BY <1>9, <2>1, <2>3, <2>4, <2>5, <2>6, Zenon
<1>12. CASE s_payload_len[m] = 0
  <2>1. Decoded(b) = m
    BY <1>3, <1>9, <1>12, DecodedMessage
  <2>2. returned' = m /\ reading' = "header" /\ 0 + HeaderLen = Size(m)
    BY <1>3, <1>7, <1>10, <1>12, <2>1
  <2>3. PipeTypeOK'
    BY <1>8, <1>11, <2>2 DEF PipeTypeOK
  <2>4. StreamInv'
    BY <1>7, <1>8, <2>2, <2>3 DEF StreamInv
  <2> QED
    BY <1>8, <2>2, <2>4 DEF Receives
<1>13. CASE s_payload_len[m] # 0
  <2>1. /\ returned' = returned /\ reading' = "payload" /\ 0 + HeaderLen < Size(m) /\ 0 + HeaderLen # Size(m)
        /\ s_payload_len[m] > 0 /\ (0 + HeaderLen) + 1 = HeaderLen + 1
    BY <1>3, <1>7, <1>10, <1>13
  <2>2. Reads(m)'
    BY <1>7, <1>8, <1>9, <2>1 DEF Reads
  <2>3. PipeTypeOK'
    <3>1. returned \in Msg \cup {EMPTY, GARBLED}
      BY DEF StreamInv, PipeTypeOK
    <3> QED
      BY <1>8, <1>11, <2>1, <3>1 DEF PipeTypeOK
  <2>4. StreamInv'
    BY <1>7, <1>8, <2>1, <2>2, <2>3 DEF StreamInv
  <2> QED
    BY <1>8, <2>1, <2>4 DEF Receives
<1> QED
  BY <1>12, <1>13

\* receive() reads a payload, and returns the message.
LEMMA PayloadStep ==
  ASSUME StreamInv, ReadSome, reading = "payload"
  PROVE  StreamInv' /\ Receives
<1>1. pipe # <<>> /\ total_read = 0 /\ buf \in [{"header", "payload"} -> Seq(AnyByte)]
  BY DEF ReadSome, StreamInv
<1>2. PICK m \in Msg : Reads(m)
  BY DEF StreamInv
<1>3. /\ HeaderLen \in Nat \ {0} /\ s_payload_len[m] \in Nat \ {0} /\ Size(m) = HeaderLen + s_payload_len[m]
      /\ s_payload_len[m] <= MAX_PAYLOAD_LEN /\ MAX_PAYLOAD_LEN \in Nat
  BY <1>2, EncodedBytes DEF Size, Reads
<1>4. s_payload_len[m] <= Len(pipe) /\ Len(pipe) \in Nat
  <2>1. HeaderLen + 1 <= Size(m) /\ Size(m) - HeaderLen = s_payload_len[m] /\ HeaderLen \in Nat
    BY <1>3
  <2>2. Size(m) - HeaderLen <= Len(pipe) /\ Len(pipe) \in Nat
    BY <1>1, <1>2, <2>1, EnoughThere DEF Reads
  <2> QED
    BY <2>1, <2>2
<1> DEFINE L == s_payload_len[m]
<1>5. PICK b : b = [buf EXCEPT !["payload"] = Overwrite(@, L)]
  OBVIOUS
<1>6. ~(Len(pipe) < L - 0) /\ L - 0 = L /\ ~(0 + L < L)
  BY <1>3, <1>4
<1>7. Shown(buf["header"]) = m
  <2>1. HeaderLen \in 1..HeaderLen /\ HeaderLen \in 1..Size(m)
    BY <1>3
  <2> QED
    BY <1>2, <2>1, SameByte DEF Shown, Reads
<1>8. /\ pipe' = SubSeq(pipe, L + 1, Len(pipe))
      /\ buf' = b /\ total_read' = 0 /\ UNCHANGED <<nonblocking, err>>
      /\ reading' = "header" /\ returned' = Decoded(b)
  BY <1>1, <1>5, <1>6, <1>7 DEF ReadSome, PartLen
<1>9. /\ Stream(pipe') /\ pipe' \in Seq(AnyByte) /\ Len(pipe') <= Len(pipe)
      /\ HeaderLen + L = Size(m) /\ pipe' # <<>> => \E l \in Msg : pipe'[1] = Encoded(l)[1]
      /\ b \in [{"header", "payload"} -> Seq(AnyByte)]
      /\ Len(b["payload"]) = IF Len(buf["payload"]) <= L THEN L ELSE Len(buf["payload"])
      /\ \A k \in 1..L : b["payload"][k] = Encoded(m)[HeaderLen + k]
      /\ \A q \in {"header", "payload"} \ {"payload"} : b[q] = buf[q]
      /\ LET rest == Messages(pipe')
         IN  /\ rest \in Seq(Msg)
             /\ Messages(pipe) = IF HeaderLen + L = Size(m) THEN <<m>> \o rest ELSE rest
  <2>1. HeaderLen + 1 <= Size(m) /\ HeaderLen + L <= Size(m) /\ HeaderLen \in Nat /\ L \in Nat \ {0}
    BY <1>3
  <2>2. pipe[1] = Encoded(m)[HeaderLen + 1]
    BY <1>2 DEF Reads
  <2> HIDE DEF L
  <2>3. PartRead(m, HeaderLen, L, "payload", b)
    BY <1>1, <1>5, <1>8, <2>1, <2>2, ReadPart
  <2> QED
    BY <2>3 DEF PartRead
<1>10. /\ b["header"] = buf["header"] /\ Len(b["header"]) = HeaderLen
       /\ b["header"] \in Seq(AnyByte) /\ b["payload"] \in Seq(AnyByte)
       /\ \A k \in 1..HeaderLen : b["header"][k] = Encoded(m)[k]
       /\ Len(b["payload"]) >= L /\ Len(b["payload"]) <= MAX_PAYLOAD_LEN
  <2>1. Len(buf["payload"]) <= MAX_PAYLOAD_LEN /\ Len(buf["payload"]) \in Nat
    BY <1>1 DEF StreamInv, PipeTypeOK
  <2>2. b["header"] = buf["header"]
    BY <1>9
  <2>3. Len(b["payload"]) >= L /\ Len(b["payload"]) <= MAX_PAYLOAD_LEN
    BY <1>3, <1>9, <2>1
  <2> QED
    BY <1>2, <1>9, <2>2, <2>3 DEF Reads
<1>11. Decoded(b) = m
  BY <1>9, <1>10, DecodedMessage
<1>12. PipeTypeOK'
  <2>1. Len(pipe) <= Capacity /\ Capacity \in Nat /\ nonblocking \in BOOLEAN /\ err \in {0, 1}
    BY IpcBytesAssumption DEF StreamInv, PipeTypeOK
  <2>2. Len(pipe') \in Nat
    BY <1>9
  <2>3. Len(pipe') <= Capacity
    BY <1>4, <1>9, <2>1, <2>2
  <2>4. 0 \in 0..(HeaderLen + MAX_PAYLOAD_LEN) /\ HeaderLen <= HeaderLen
    BY <1>3
  <2> QED
    BY <1>8, <1>9, <1>10, <1>11, <2>1, <2>3, <2>4 DEF PipeTypeOK
<1>13. HeaderLen + L = Size(m)
  BY <1>3
<1>14. StreamInv'
  BY <1>8, <1>9, <1>12, <1>13 DEF StreamInv
<1> QED
  BY <1>8, <1>9, <1>11, <1>13, <1>14 DEF Receives

\* Every step keeps the invariant, and is one of the queue or none.
LEMMA StreamNext ==
  ASSUME StreamInv, [PipeNext]_pipeVars
  PROVE  StreamInv' /\ [Queue!Next]_(Queue!vars)
<1>0. Stream(pipe) /\ pipe \in Seq(AnyByte) /\ Messages(pipe) \in Seq(Msg)
  BY BytesOfMessages, MessagesType DEF StreamInv, Stream
<1>1. CASE UNCHANGED pipeVars
  BY <1>1 DEF pipeVars, StreamInv, Reads, PipeTypeOK, InPipe, Queue!vars
<1>2. ASSUME NEW m \in Msg, ipc_write(m) PROVE StreamInv' /\ [Queue!Next]_(Queue!vars)
  BY <1>2, SendStep DEF InPipe, Queue!vars, Queue!Next, Queue!Put
<1>3. CASE ReadSome
  <2>1. StreamInv' /\ Receives
    <3>1. reading \in {"header", "payload"}
      BY DEF StreamInv, PipeTypeOK
    <3> QED
      BY <1>3, <3>1, HeaderStep, PayloadStep
  <2>2. CASE returned' = returned /\ Messages(pipe') = Messages(pipe)
    BY <2>1, <2>2 DEF InPipe, Queue!vars
  <2>3. ASSUME NEW m \in Msg, NEW rest \in Seq(Msg), rest = Messages(pipe'),
               Messages(pipe) = <<m>> \o rest, returned' = m
        PROVE  Queue!Get
    <3>1. \A q : q = <<m>> \o rest => q # <<>> /\ Tail(q) = rest /\ Head(q) = m
      OBVIOUS
    <3>2. Messages(pipe) # <<>> /\ Tail(Messages(pipe)) = rest /\ Head(Messages(pipe)) = m
      BY <2>3, <3>1, Zenon
    <3> QED
      BY <2>3, <3>2 DEF InPipe, Queue!Get
  <2> QED
    BY <2>1, <2>2, <2>3 DEF Receives, Queue!Next
<1>4. CASE ReadNothing
  <2>1. StreamInv' /\ pipe = <<>> /\ pipe' = pipe /\ returned' = EMPTY
    BY <1>4, EmptyStep
  <2>2. Messages(pipe) = <<>>
    BY <2>1, MessagesEmpty
  <2> QED
    BY <2>1, <2>2 DEF InPipe, Queue!Next, Queue!FindEmpty
<1> QED
  BY <1>1, <1>2, <1>3, <1>4 DEF PipeNext

\* Whatever the messages, their lengths and the capacity of the pipe are, no variable of a pipe
\* leaves its type; in particular ipc_read() never writes past a part of the buffer.
THEOREM PipeTypes == PipeSpec => []PipeTypeOK
<1>1. StreamInv => PipeTypeOK
  BY DEF StreamInv
<1> QED
  BY <1>1, StreamInit, StreamNext, PTL DEF PipeSpec

\* Whatever the messages, their lengths, the capacity and the mode are, receive() returns the
\* messages that send() accepted, whole, each once and in their order.
THEOREM PipeQueue == PipeSpec => QueueSpec
<1>1. PipeInit => Queue!Init
  BY MessagesEmpty DEF PipeInit, Queue!Init, InPipe
<1> QED
  BY <1>1, StreamInit, StreamNext, PTL DEF PipeSpec, QueueSpec, Queue!Spec
=============================================================================
