----------------------------- MODULE BankProofs -----------------------------
(***************************************************************************)
(* Proofs about the bank, for every number of children and all balances.   *)
(* The protocol of pa2 and pa3 is the same but for the times, so its       *)
(* invariant, the ledger and the accounts are treated once, from the       *)
(* actions of Bank; BankPhysicalProofs and BankLamportProofs show that     *)
(* every action of the programs is such a step.                            *)
(***************************************************************************)
EXTENDS Bank, SequenceTheorems, FiniteSetTheorems, WellFoundedInduction, TLAPS

-----------------------------------------------------------------------------
(* Types *)

History == [s_history : UNION {[D -> BalanceState] : D \in SUBSET Nat}, s_history_len : Nat]

Order == [src : Children, dst : Children, amount : Nat]

BankMessage ==
  [type : {"STARTED", "ACK", "STOP", "DONE"}, time : Nat]
    \cup [type : {"TRANSFER"}, time : Nat, order : Order]
    \cup [type : {"BALANCE_HISTORY"}, time : Nat, history : History]

MailTypes ==
  /\ pipes \in [Procs -> [Procs -> Seq(BankMessage)]]
  /\ outbox \in [Procs -> [Procs -> BankMessage \cup {NoMessage}]]

StateTypes ==
  /\ MailTypes
  /\ pc \in [Procs -> Label]
  /\ from \in [Procs -> 1..(N + 1)]
  /\ polled \in [Children -> Procs]
  /\ balance \in [Children -> Int]
  /\ history \in [Children -> History]
  /\ all_history \in Seq(History)
  /\ ordered \in 0..Len(Orders)

-----------------------------------------------------------------------------
(* The protocol.  The order under way, or its ACK, is the only one of its    *)
(* kind; where it is decides what else is in the pipes.                      *)

\* Where the current order is: nowhere, on its way to the source, from there to the
\* destination, or carried out with the ACK on its way back.
Where == {"none", "out", "over", "back"}

Src == Orders[ordered].src
Dst == Orders[ordered].dst

OrderOn(w, a, b) ==
  \/ w = "out" /\ a = PARENT_ID /\ b = Src
  \/ w = "over" /\ a = Src /\ b = Dst

AckOn(w, c) == w = "back" /\ c = Dst

\* The types of the messages of a sequence, and of those under way from a to b.
TypesOf(s) == [k \in 1..Len(s) |-> s[k].type]
Mail(a, b) == TypesOf(Link(a, b))

\* What a process has said, and what another one has heard of it.
SaidStarted(c) == pc[c] # "start"
SaidDone(c) == pc[c] \in {"await_done", "send_history", "exited", "spin"}
SentHistory(c) == pc[c] \in {"send_history", "exited"}
SaidStop == pc[PARENT_ID] \in {"await_done", "await_histories", "wait", "exited"}

HeardStarted(p, c) ==
  \/ pc[p] \notin {"start", "spawn", "await_started"}
  \/ pc[p] = "await_started" /\ c < from[p]

HeardDone(p, c) ==
  \/ pc[p] \in {"send_history", "await_histories", "wait", "exited"}
  \/ pc[p] = "await_done" /\ c < from[p]

HeardHistory(c) ==
  \/ pc[PARENT_ID] \in {"wait", "exited"}
  \/ pc[PARENT_ID] = "await_histories" /\ c < from[PARENT_ID]

\* Between two children.  A DONE that has been said and not been counted may be gone.
ChildMail(w, q, c) ==
  /\ HeardStarted(c, q) => SaidStarted(q)
  /\ HeardDone(c, q) => SaidDone(q)
  /\ OrderOn(w, q, c) => SaidStarted(q)
  /\ ~SaidStarted(q) => Mail(q, c) = <<>>
  /\ SaidStarted(q) /\ ~HeardStarted(c, q)
       => Mail(q, c) = IF OrderOn(w, q, c) THEN <<"STARTED", "TRANSFER">>
                       ELSE IF SaidDone(q) THEN <<"STARTED", "DONE">> ELSE <<"STARTED">>
  /\ HeardStarted(c, q)
       => IF OrderOn(w, q, c) THEN Mail(q, c) = <<"TRANSFER">>
          ELSE Mail(q, c) # <<>> => Mail(q, c) = <<"DONE">> /\ SaidDone(q) /\ ~HeardDone(c, q)

\* From the parent to a child.
ParentMail(w, c) ==
  Mail(PARENT_ID, c) = IF OrderOn(w, PARENT_ID, c) THEN <<"TRANSFER">>
                       ELSE IF SaidStop /\ ~SaidDone(c) THEN <<"STOP">> ELSE <<>>

\* From a child to the parent.
MailToParent(w, c) ==
  /\ HeardStarted(PARENT_ID, c) => SaidStarted(c)
  /\ HeardDone(PARENT_ID, c) => SaidDone(c)
  /\ HeardHistory(c) => SentHistory(c)
  /\ ~SaidStarted(c) => Mail(c, PARENT_ID) = <<>>
  /\ SaidStarted(c) /\ ~HeardStarted(PARENT_ID, c) => Mail(c, PARENT_ID) = <<"STARTED">>
  /\ HeardStarted(PARENT_ID, c)
       => Mail(c, PARENT_ID) =
            IF AckOn(w, c) THEN <<"ACK">>
            ELSE IF SaidDone(c) /\ ~HeardDone(PARENT_ID, c)
              THEN IF SentHistory(c) THEN <<"DONE", "BALANCE_HISTORY">> ELSE <<"DONE">>
            ELSE IF SentHistory(c) /\ ~HeardHistory(c) THEN <<"BALANCE_HISTORY">> ELSE <<>>

\* Nobody fails or is killed; a cursor that is not in use is where the next loop starts.
ChildLabel == {"start", "await_started", "loop", "await_done", "send_history", "exited", "spin"}
ParentLabel == {"spawn", "await_started", "robbery", "await_ack", "await_done",
                "await_histories", "wait", "exited"}

Idle(p) == pc[p] \notin {"await_started", "await_done", "await_histories", "spin"}

Progress(w) ==
  /\ \A c \in Children : /\ pc[c] \in ChildLabel
                         /\ SaidDone(c) => SaidStop
                         /\ pc[PARENT_ID] = "exited" => pc[c] = "exited"
  /\ pc[PARENT_ID] \in ParentLabel
  /\ \A p \in Procs : /\ from[p] # p
                      /\ Idle(p) => from[p] = NextFrom(p, PARENT_ID)
                      /\ Sending(p) => pc[p] # "exited"
  /\ w \in Where
  /\ w # "none" <=> pc[PARENT_ID] = "await_ack"
  /\ w # "none" => ordered # 0
  /\ Len(all_history) = IF pc[PARENT_ID] = "await_histories" THEN from[PARENT_ID] - 1
                        ELSE IF pc[PARENT_ID] \in {"wait", "exited"} THEN N ELSE 0

\* An order under way is the one that bank_robbery() waits for.
OrdersCurrent ==
  \A a, b \in Procs : \A k \in 1..Len(Link(a, b)) :
    Link(a, b)[k].type = "TRANSFER" => Link(a, b)[k].order = Orders[ordered]

Pairs(w) ==
  /\ \A c \in Children : ParentMail(w, c) /\ MailToParent(w, c)
  /\ \A q \in Children : \A c \in Children \ {q} : ChildMail(w, q, c)
  /\ \A p \in Procs : Mail(p, p) = <<>>

ProtocolInv(w) ==
  /\ StateTypes
  /\ Progress(w)
  /\ OrdersCurrent
  /\ Pairs(w)

-----------------------------------------------------------------------------
(* Facts about the processes, and induction *)

\* The parent is not a child.
LEMMA ProcsFacts == Children \subseteq Procs /\ PARENT_ID \in Procs /\ PARENT_ID \notin Children
BY NAssumption DEF Children, Procs, PARENT_ID

\* A set of natural numbers that is not empty has a least element.
LEMMA Least ==
  ASSUME NEW S \in SUBSET Nat, S # {}
  PROVE  \E n \in S : \A m \in S : n <= m
<1>1. IsWellFoundedOn(OpToRel(<, Nat), Nat)
  BY NatLessThanWellFounded
<1>2. \E n \in S : \A m \in S : ~(<<m, n>> \in OpToRel(<, Nat))
  BY <1>1, WFMin
<1> DEFINE R == {ss \in Nat \X Nat : ss[1] < ss[2]}
<1>3. OpToRel(<, Nat) = R
  BY DEF OpToRel
<1>4. PICK n \in S : \A m \in S : <<m, n>> \notin R
  BY <1>2, <1>3, Zenon
<1>5. \A m \in S : ~(m < n)
  BY <1>4
<1> QED
  BY <1>5

\* A set that 0 is in, and k + 1 with every k below n, holds the numbers up to n.
LEMMA UpTo ==
  ASSUME NEW n \in Nat, NEW S, 0 \in S,
         \A k \in 0..n : k < n /\ k \in S => k + 1 \in S
  PROVE  \A k \in 0..n : k \in S
<1> DEFINE Missing == {k \in 0..n : k \notin S}
<1> SUFFICES ASSUME Missing # {} PROVE FALSE
  OBVIOUS
<1>1. PICK m \in Missing : \A k \in Missing : m <= k
  <2>1. Missing \in SUBSET Nat
    OBVIOUS
  <2> QED
    BY <2>1, Least
<1>2. m \in Nat /\ m # 0 /\ m <= n /\ m \notin S
  BY <1>1
<1>3. m - 1 \in 0..n /\ m - 1 < n /\ ~(m <= m - 1) /\ (m - 1) + 1 = m
  BY <1>2
<1>4. m - 1 \in S
  BY <1>1, <1>3
<1> QED
  BY <1>2, <1>3, <1>4

-----------------------------------------------------------------------------
(* Sequences of messages and of their types *)

BankType == {"STARTED", "ACK", "STOP", "DONE", "TRANSFER", "BALANCE_HISTORY"}

\* Every message has a type; the order is part of a transfer; NoMessage is none.
LEMMA MessageFacts ==
  /\ \A m \in BankMessage : /\ m.type \in BankType /\ m.time \in Nat
                            /\ m.type = "TRANSFER" => m.order \in Order
                            /\ m.type = "BALANCE_HISTORY" => m.history \in History
  /\ NoMessage \notin BankMessage
BY DEF BankMessage, BankType, NoMessage

\* The types of a sequence of messages are as many as the messages.
LEMMA TypesOfType ==
  ASSUME NEW s \in Seq(BankMessage)
  PROVE  /\ TypesOf(s) \in Seq(BankType) /\ Len(TypesOf(s)) = Len(s) /\ Len(s) \in Nat
         /\ \A k \in 1..Len(s) : TypesOf(s)[k] = s[k].type
<1>1. Len(s) \in Nat /\ \A k \in 1..Len(s) : s[k] \in BankMessage
  OBVIOUS
<1>2. \A k \in 1..Len(s) : s[k].type \in BankType
  BY <1>1, MessageFacts
<1>3. TypesOf(s) \in [1..Len(s) -> BankType]
  BY <1>2 DEF TypesOf
<1> QED
  BY <1>1, <1>3 DEF TypesOf

\* A message that comes last is last among the types.
LEMMA TypesOfAppend ==
  ASSUME NEW s \in Seq(BankMessage), NEW m \in BankMessage
  PROVE  TypesOf(Append(s, m)) = Append(TypesOf(s), m.type)
<1> DEFINE u == TypesOf(Append(s, m))  v == Append(TypesOf(s), m.type)
<1>1. Append(s, m) \in Seq(BankMessage) /\ Len(Append(s, m)) = Len(s) + 1 /\ Len(s) \in Nat
      /\ \A k \in 1..Len(s) : Append(s, m)[k] = s[k]
      /\ Append(s, m)[Len(s) + 1] = m
  OBVIOUS
<1>2. /\ u \in Seq(BankType) /\ Len(u) = Len(s) + 1
      /\ \A k \in 1..(Len(s) + 1) : u[k] = Append(s, m)[k].type
  BY <1>1, TypesOfType
<1>3. /\ TypesOf(s) \in Seq(BankType) /\ Len(TypesOf(s)) = Len(s) /\ m.type \in BankType
      /\ \A k \in 1..Len(s) : TypesOf(s)[k] = s[k].type
  BY TypesOfType, MessageFacts
<1>4. /\ v \in Seq(BankType) /\ Len(v) = Len(s) + 1 /\ v[Len(s) + 1] = m.type
      /\ \A k \in 1..Len(s) : v[k] = TypesOf(s)[k]
  BY <1>3
<1> HIDE DEF u, v
<1>5. \A k \in 1..Len(u) : u[k] = v[k]
  BY <1>1, <1>2, <1>3, <1>4
<1>6. u = v
  BY <1>2, <1>4, <1>5, SeqEqual
<1> QED
  BY <1>6 DEF u, v

\* The message that comes first is first among the types.
LEMMA TypesOfTail ==
  ASSUME NEW s \in Seq(BankMessage), s # <<>>
  PROVE  /\ TypesOf(s) # <<>> /\ Head(TypesOf(s)) = Head(s).type
         /\ TypesOf(Tail(s)) = Tail(TypesOf(s))
<1> DEFINE u == TypesOf(Tail(s))  v == Tail(TypesOf(s))
<1>1. /\ Tail(s) \in Seq(BankMessage) /\ Len(s) \in Nat \ {0} /\ Len(Tail(s)) = Len(s) - 1
      /\ Head(s) = s[1] /\ \A k \in 1..Len(Tail(s)) : Tail(s)[k] = s[k + 1]
  OBVIOUS
<1>2. u \in Seq(BankType) /\ Len(u) = Len(s) - 1 /\ \A k \in 1..Len(u) : u[k] = s[k + 1].type
  <2> DEFINE r == Tail(s)
  <2>1. u = TypesOf(r) /\ r \in Seq(BankMessage) /\ Len(r) = Len(s) - 1
        /\ \A k \in 1..Len(r) : r[k] = s[k + 1]
    BY <1>1
  <2> HIDE DEF u, r
  <2>2. u \in Seq(BankType) /\ Len(u) = Len(r) /\ \A k \in 1..Len(r) : u[k] = r[k].type
    BY <2>1, TypesOfType
  <2> QED
    BY <2>1, <2>2
<1>3. /\ TypesOf(s) \in Seq(BankType) /\ Len(TypesOf(s)) = Len(s)
      /\ \A k \in 1..Len(s) : TypesOf(s)[k] = s[k].type
  BY TypesOfType
<1>4. /\ TypesOf(s) # <<>> /\ Head(TypesOf(s)) = s[1].type
      /\ v \in Seq(BankType) /\ Len(v) = Len(s) - 1
      /\ \A k \in 1..Len(v) : v[k] = TypesOf(s)[k + 1]
  BY <1>1, <1>3
<1> HIDE DEF u, v
<1>5. \A k \in 1..Len(u) : k + 1 \in 1..Len(s) /\ u[k] = v[k]
  BY <1>1, <1>2, <1>3, <1>4
<1>6. u = v
  BY <1>2, <1>4, <1>5, SeqEqual
<1> QED
  BY <1>1, <1>4, <1>6 DEF u, v

\* Short sequences.
LEMMA WordFacts ==
  /\ \A x \in BankType : /\ Append(<<>>, x) = <<x>> /\ Head(<<x>>) = x /\ Tail(<<x>>) = <<>>
                         /\ <<x>> # <<>>
  /\ \A x, y \in BankType : /\ Append(<<x>>, y) = <<x, y>> /\ Head(<<x, y>>) = x
                            /\ Tail(<<x, y>>) = <<y>> /\ <<x, y>> # <<>>
<1>1. ASSUME NEW x \in BankType
      PROVE  Append(<<>>, x) = <<x>> /\ Head(<<x>>) = x /\ Tail(<<x>>) = <<>> /\ <<x>> # <<>>
  <2> DEFINE s == Append(<<>>, x)  t == <<x>>
  <2>1. s \in Seq(BankType) /\ t \in Seq(BankType) /\ Len(s) = 1 /\ Len(t) = 1 /\ s[1] = x /\ t[1] = x
    OBVIOUS
  <2>2. Head(t) = x /\ Tail(t) = <<>> /\ t # <<>>
    OBVIOUS
  <2> HIDE DEF s, t
  <2>3. s = t
    BY <2>1, SeqEqual
  <2> QED
    BY <2>2, <2>3 DEF s, t
<1>2. ASSUME NEW x \in BankType, NEW y \in BankType
      PROVE  /\ Append(<<x>>, y) = <<x, y>> /\ Head(<<x, y>>) = x
             /\ Tail(<<x, y>>) = <<y>> /\ <<x, y>> # <<>>
  <2> DEFINE s == Append(<<x>>, y)  t == <<x, y>>
  <2>1. /\ s \in Seq(BankType) /\ t \in Seq(BankType) /\ Len(s) = 2 /\ Len(t) = 2
        /\ s[1] = x /\ t[1] = x /\ s[2] = y /\ t[2] = y
    OBVIOUS
  <2>2. Head(t) = x /\ t # <<>>
    OBVIOUS
  <2> DEFINE v == Tail(<<x, y>>)  w == <<y>>
  <2>3. v \in Seq(BankType) /\ w \in Seq(BankType) /\ Len(v) = 1 /\ Len(w) = 1 /\ v[1] = y /\ w[1] = y
    OBVIOUS
  <2> HIDE DEF s, t, v, w
  <2>4. s = t
    <3>1. \A k \in 1..Len(s) : s[k] = t[k]
      BY <2>1
    <3> QED
      BY <2>1, <3>1, SeqEqual
  <2>5. v = w
    <3>1. \A k \in 1..Len(v) : v[k] = w[k]
      BY <2>3
    <3> QED
      BY <2>3, <3>1, SeqEqual
  <2> QED
    BY <2>2, <2>4, <2>5 DEF s, t, v, w
<1> QED
  BY <1>1, <1>2

-----------------------------------------------------------------------------
(* How steps change what is under way *)

\* What is under way between two processes is a sequence of messages.
LEMMA LinkMessages ==
  ASSUME MailTypes, NEW a \in Procs, NEW b \in Procs
  PROVE  Link(a, b) \in Seq(BankMessage)
BY DEF MailTypes, Link

\* A handler of p reads a message from f and posts m to D.
LEMMA LinkHandler ==
  ASSUME MailTypes, NEW p \in Procs, NEW f \in Procs \ {p}, ~Sending(p), receive(p, f),
         NEW D, NEW m \in BankMessage, Post(p, D, m)
  PROVE  /\ MailTypes'
         /\ \A a \in Procs \ {p} : outbox'[a] = outbox[a]
         /\ \A a, b \in Procs :
              Link(a, b)' = IF a = f /\ b = p THEN Tail(Link(a, b))
                            ELSE IF a = p /\ b \in D THEN Append(Link(a, b), m)
                            ELSE Link(a, b)
<1>1. /\ outbox' \in [Procs -> [Procs -> BankMessage \cup {NoMessage}]]
      /\ \A a \in Procs \ {p} : outbox'[a] = outbox[a]
      /\ \A b \in Procs : outbox'[p][b] = IF b \in D THEN m ELSE NoMessage
  BY DEF MailTypes, Post
<1>2. /\ pipes[p][f] \in Seq(BankMessage) /\ pipes[p][f] # <<>>
      /\ Tail(pipes[p][f]) \in Seq(BankMessage)
  BY DEF MailTypes, receive
<1>3. /\ pipes' \in [Procs -> [Procs -> Seq(BankMessage)]]
      /\ \A a, b \in Procs : pipes'[b][a] = IF a = f /\ b = p THEN Tail(pipes[b][a]) ELSE pipes[b][a]
  BY <1>2 DEF MailTypes, receive
<1>4. \A b \in Procs : outbox[p][b] = NoMessage
  BY DEF Sending
<1>5. ASSUME NEW a \in Procs, NEW b \in Procs
      PROVE  Link(a, b)' = IF a = f /\ b = p THEN Tail(Link(a, b))
                           ELSE IF a = p /\ b \in D THEN Append(Link(a, b), m)
                           ELSE Link(a, b)
  <2>1. CASE a = f /\ b = p
    <3>1. outbox'[f][p] = outbox[f][p] /\ pipes'[p][f] = Tail(pipes[p][f])
      BY <1>1, <1>3
    <3>2. CASE outbox[f][p] = NoMessage
      BY <2>1, <3>1, <3>2 DEF Link
    <3>3. CASE outbox[f][p] # NoMessage
      <4>1. outbox[f][p] \in BankMessage
        BY <3>3 DEF MailTypes
      <4>2. Tail(Append(pipes[p][f], outbox[f][p])) = Append(Tail(pipes[p][f]), outbox[f][p])
        BY <1>2, <4>1
      <4> QED
        BY <2>1, <3>1, <3>3, <4>2 DEF Link
    <3> QED
      BY <3>2, <3>3
  <2>2. CASE a = p
    <3>1. pipes'[b][a] = pipes[b][a] /\ Link(a, b) = pipes[b][a]
      BY <1>3, <1>4, <2>2 DEF Link
    <3>2. outbox'[a][b] = IF b \in D THEN m ELSE NoMessage
      BY <1>1, <2>2
    <3> QED
      BY <2>2, <3>1, <3>2, MessageFacts DEF Link
  <2>3. CASE a # p /\ ~(a = f /\ b = p)
    BY <1>1, <1>3, <2>3 DEF Link
  <2> QED
    BY <2>1, <2>2, <2>3
<1> QED
  BY <1>1, <1>3, <1>5 DEF MailTypes

\* p posts m to D and reads nothing.
LEMMA LinkPosts ==
  ASSUME MailTypes, NEW p \in Procs, ~Sending(p), pipes' = pipes,
         NEW D, NEW m \in BankMessage, Post(p, D, m)
  PROVE  /\ MailTypes'
         /\ \A a \in Procs \ {p} : outbox'[a] = outbox[a]
         /\ \A a, b \in Procs :
              Link(a, b)' = IF a = p /\ b \in D THEN Append(Link(a, b), m) ELSE Link(a, b)
<1>1. /\ outbox' \in [Procs -> [Procs -> BankMessage \cup {NoMessage}]]
      /\ \A a \in Procs \ {p} : outbox'[a] = outbox[a]
      /\ \A b \in Procs : outbox'[p][b] = IF b \in D THEN m ELSE NoMessage
  BY DEF MailTypes, Post
<1>2. \A b \in Procs : outbox[p][b] = NoMessage
  BY DEF Sending
<1>3. ASSUME NEW a \in Procs, NEW b \in Procs
      PROVE  Link(a, b)' = IF a = p /\ b \in D THEN Append(Link(a, b), m) ELSE Link(a, b)
  BY <1>1, <1>2, MessageFacts DEF Link
<1> QED
  BY <1>1, <1>3 DEF MailTypes

\* p reads a message from f and posts nothing.
LEMMA LinkReads ==
  ASSUME MailTypes, NEW p \in Procs, NEW f \in Procs, receive(p, f), outbox' = outbox
  PROVE  /\ MailTypes'
         /\ \A a, b \in Procs : Link(a, b)' = IF a = f /\ b = p THEN Tail(Link(a, b)) ELSE Link(a, b)
<1>1. /\ pipes[p][f] \in Seq(BankMessage) /\ pipes[p][f] # <<>>
      /\ Tail(pipes[p][f]) \in Seq(BankMessage)
  BY DEF MailTypes, receive
<1>2. /\ pipes' \in [Procs -> [Procs -> Seq(BankMessage)]]
      /\ \A a, b \in Procs : pipes'[b][a] = IF a = f /\ b = p THEN Tail(pipes[b][a]) ELSE pipes[b][a]
  BY <1>1 DEF MailTypes, receive
<1>3. ASSUME outbox[f][p] # NoMessage
      PROVE  Tail(Append(pipes[p][f], outbox[f][p])) = Append(Tail(pipes[p][f]), outbox[f][p])
  <2>1. outbox[f][p] \in BankMessage
    BY <1>3 DEF MailTypes
  <2> QED
    BY <1>1, <2>1
<1>4. ASSUME NEW a \in Procs, NEW b \in Procs
      PROVE  Link(a, b)' = IF a = f /\ b = p THEN Tail(Link(a, b)) ELSE Link(a, b)
  BY <1>2, <1>3 DEF Link
<1> QED
  BY <1>2, <1>4 DEF MailTypes

\* The message that p reads from f: the first one under way.
LEMMA LinkFirst ==
  ASSUME MailTypes, NEW p \in Procs, NEW f \in Procs, receive(p, f)
  PROVE  /\ Oldest(p, f) \in BankMessage
         /\ Link(f, p) # <<>> /\ Oldest(p, f) = Head(Link(f, p))
         /\ Mail(f, p) # <<>> /\ Oldest(p, f).type = Head(Mail(f, p))
<1>1. /\ pipes[p][f] \in Seq(BankMessage) /\ pipes[p][f] # <<>> /\ Oldest(p, f) = Head(pipes[p][f])
      /\ Oldest(p, f) \in BankMessage
  BY DEF MailTypes, receive, Oldest
<1>2. Link(f, p) # <<>> /\ Oldest(p, f) = Head(Link(f, p))
  <2>1. CASE outbox[f][p] = NoMessage
    BY <1>1, <2>1 DEF Link
  <2>2. CASE outbox[f][p] # NoMessage
    <3>1. outbox[f][p] \in BankMessage
      BY <2>2 DEF MailTypes
    <3>2. /\ Append(pipes[p][f], outbox[f][p]) # <<>>
          /\ Head(Append(pipes[p][f], outbox[f][p])) = Head(pipes[p][f])
      BY <1>1, <3>1
    <3> QED
      BY <1>1, <2>2, <3>2 DEF Link
  <2> QED
    BY <2>1, <2>2
<1>3. Link(f, p) \in Seq(BankMessage)
  BY LinkMessages
<1> QED
  BY <1>1, <1>2, <1>3, TypesOfTail DEF Mail

\* A write() moves a message to the pipe.
LEMMA LinkWrites ==
  ASSUME MailTypes, NEW p \in Procs, NEW d \in Procs, outbox[p][d] # NoMessage,
         pipes' = [pipes EXCEPT ![d][p] = Append(@, outbox[p][d])],
         outbox' = [outbox EXCEPT ![p][d] = NoMessage]
  PROVE  MailTypes' /\ \A a, b \in Procs : Link(a, b)' = Link(a, b)
<1>1. outbox[p][d] \in BankMessage /\ Append(pipes[d][p], outbox[p][d]) \in Seq(BankMessage)
  BY DEF MailTypes
<1>2. /\ pipes' \in [Procs -> [Procs -> Seq(BankMessage)]]
      /\ \A a, b \in Procs :
           pipes'[b][a] = IF b = d /\ a = p THEN Append(pipes[b][a], outbox[p][d]) ELSE pipes[b][a]
  BY <1>1 DEF MailTypes
<1>3. /\ outbox' \in [Procs -> [Procs -> BankMessage \cup {NoMessage}]]
      /\ \A a, b \in Procs : outbox'[a][b] = IF b = d /\ a = p THEN NoMessage ELSE outbox[a][b]
  BY DEF MailTypes
<1>4. ASSUME NEW a \in Procs, NEW b \in Procs PROVE Link(a, b)' = Link(a, b)
  BY <1>2, <1>3 DEF Link
<1> QED
  BY <1>2, <1>3, <1>4 DEF MailTypes

\* Every link loses its first message, gains m or stays as it is: so do the types, and
\* with m the orders under way stay the current one.
MailStep(a, b, m) ==
  \/ Link(a, b)' = Link(a, b)
  \/ Link(a, b) # <<>> /\ Link(a, b)' = Tail(Link(a, b))
  \/ Link(a, b)' = Append(Link(a, b), m)

\* The orders under way stay the current one.
LEMMA OrdersKept ==
  ASSUME MailTypes, OrdersCurrent, ordered' = ordered, NEW m \in BankMessage,
         m.type = "TRANSFER" => m.order = Orders[ordered],
         \A a, b \in Procs : MailStep(a, b, m)
  PROVE  OrdersCurrent'
<1> SUFFICES ASSUME NEW a \in Procs, NEW b \in Procs, NEW k \in 1..Len(Link(a, b)'),
                    Link(a, b)'[k].type = "TRANSFER"
             PROVE  Link(a, b)'[k].order = Orders[ordered]
  BY DEF OrdersCurrent
<1> DEFINE s == Link(a, b)  t == Link(a, b)'
<1>1. s \in Seq(BankMessage) /\ Len(s) \in Nat
  BY LinkMessages
<1>2. \A l \in 1..Len(s) : s[l].type = "TRANSFER" => s[l].order = Orders[ordered]
  BY DEF OrdersCurrent
<1>3. k \in 1..Len(t) /\ t[k].type = "TRANSFER" /\ MailStep(a, b, m)
  OBVIOUS
<1> HIDE DEF s, t
<1>4. CASE t = s
  BY <1>2, <1>3, <1>4 DEF t
<1>5. CASE s # <<>> /\ t = Tail(s)
  <2>1. k + 1 \in 1..Len(s) /\ t[k] = s[k + 1]
    BY <1>1, <1>3, <1>5
  <2> QED
    BY <1>2, <1>3, <2>1 DEF t
<1>6. CASE t = Append(s, m)
  <2>1. \/ k \in 1..Len(s) /\ t[k] = s[k]
        \/ t[k] = m
    BY <1>1, <1>3, <1>6
  <2> QED
    BY <1>2, <1>3, <2>1 DEF t
<1> QED
  BY <1>3, <1>4, <1>5, <1>6 DEF MailStep, s, t

\* The same in terms of the types of the messages.
LEMMA MailHandler ==
  ASSUME MailTypes, OrdersCurrent, ordered' = ordered,
         NEW p \in Procs, NEW f \in Procs \ {p}, ~Sending(p), receive(p, f),
         NEW D, NEW m \in BankMessage, Post(p, D, m), m.type = "TRANSFER" => m.order = Orders[ordered]
  PROVE  /\ MailTypes' /\ OrdersCurrent'
         /\ \A a \in Procs \ {p} : outbox'[a] = outbox[a]
         /\ \A a, b \in Procs :
              Mail(a, b)' = IF a = f /\ b = p THEN Tail(Mail(a, b))
                            ELSE IF a = p /\ b \in D THEN Append(Mail(a, b), m.type)
                            ELSE Mail(a, b)
<1>1. /\ MailTypes'
      /\ \A a \in Procs \ {p} : outbox'[a] = outbox[a]
      /\ \A a, b \in Procs :
           Link(a, b)' = IF a = f /\ b = p THEN Tail(Link(a, b))
                         ELSE IF a = p /\ b \in D THEN Append(Link(a, b), m)
                         ELSE Link(a, b)
  BY LinkHandler
<1>2. Link(f, p) # <<>>
  BY LinkFirst
<1>3. OrdersCurrent'
  <2>1. \A a, b \in Procs : MailStep(a, b, m)
    BY <1>1, <1>2 DEF MailStep
  <2> QED
    BY <2>1, OrdersKept
<1>4. ASSUME NEW a \in Procs, NEW b \in Procs
      PROVE  Mail(a, b)' = IF a = f /\ b = p THEN Tail(Mail(a, b))
                           ELSE IF a = p /\ b \in D THEN Append(Mail(a, b), m.type)
                           ELSE Mail(a, b)
  <2>1. Link(a, b) \in Seq(BankMessage)
    BY LinkMessages
  <2>2. /\ TypesOf(Append(Link(a, b), m)) = Append(TypesOf(Link(a, b)), m.type)
        /\ a = f /\ b = p => TypesOf(Tail(Link(a, b))) = Tail(TypesOf(Link(a, b)))
    BY <1>2, <2>1, TypesOfAppend, TypesOfTail
  <2> QED
    BY <1>1, <2>2 DEF Mail
<1> QED
  BY <1>1, <1>3, <1>4

\* Nothing is read.
LEMMA MailPosts ==
  ASSUME MailTypes, OrdersCurrent, ordered' = ordered,
         NEW p \in Procs, ~Sending(p), pipes' = pipes,
         NEW D, NEW m \in BankMessage, Post(p, D, m), m.type = "TRANSFER" => m.order = Orders[ordered]
  PROVE  /\ MailTypes' /\ OrdersCurrent'
         /\ \A a \in Procs \ {p} : outbox'[a] = outbox[a]
         /\ \A a, b \in Procs :
              Mail(a, b)' = IF a = p /\ b \in D THEN Append(Mail(a, b), m.type) ELSE Mail(a, b)
<1>1. /\ MailTypes'
      /\ \A a \in Procs \ {p} : outbox'[a] = outbox[a]
      /\ \A a, b \in Procs :
           Link(a, b)' = IF a = p /\ b \in D THEN Append(Link(a, b), m) ELSE Link(a, b)
  BY LinkPosts
<1>2. OrdersCurrent'
  <2>1. \A a, b \in Procs : MailStep(a, b, m)
    BY <1>1 DEF MailStep
  <2> QED
    BY <2>1, OrdersKept
<1>3. ASSUME NEW a \in Procs, NEW b \in Procs
      PROVE  Mail(a, b)' = IF a = p /\ b \in D THEN Append(Mail(a, b), m.type) ELSE Mail(a, b)
  <2>1. TypesOf(Append(Link(a, b), m)) = Append(TypesOf(Link(a, b)), m.type)
    BY LinkMessages, TypesOfAppend
  <2> QED
    BY <1>1, <2>1 DEF Mail
<1> QED
  BY <1>1, <1>2, <1>3

\* Nothing is posted.
LEMMA MailReads ==
  ASSUME MailTypes, OrdersCurrent, ordered' = ordered,
         NEW p \in Procs, NEW f \in Procs, receive(p, f), outbox' = outbox
  PROVE  /\ MailTypes' /\ OrdersCurrent'
         /\ \A a, b \in Procs : Mail(a, b)' = IF a = f /\ b = p THEN Tail(Mail(a, b)) ELSE Mail(a, b)
<1>1. /\ MailTypes'
      /\ \A a, b \in Procs : Link(a, b)' = IF a = f /\ b = p THEN Tail(Link(a, b)) ELSE Link(a, b)
  BY LinkReads
<1>2. Link(f, p) # <<>>
  BY LinkFirst
<1>3. OrdersCurrent'
  <2> DEFINE m == [type |-> "ACK", time |-> 0]
  <2>1. m \in BankMessage /\ m.type # "TRANSFER"
    BY DEF BankMessage
  <2>2. \A a, b \in Procs : MailStep(a, b, m)
    BY <1>1, <1>2 DEF MailStep
  <2> QED
    BY <2>1, <2>2, OrdersKept
<1>4. ASSUME NEW a \in Procs, NEW b \in Procs
      PROVE  Mail(a, b)' = IF a = f /\ b = p THEN Tail(Mail(a, b)) ELSE Mail(a, b)
  <2>1. a = f /\ b = p => TypesOf(Tail(Link(a, b))) = Tail(TypesOf(Link(a, b)))
    BY <1>2, LinkMessages, TypesOfTail
  <2> QED
    BY <1>1, <2>1 DEF Mail
<1> QED
  BY <1>1, <1>3, <1>4

\* The order that a message read carries is the current one.
LEMMA OrderRead ==
  ASSUME MailTypes, OrdersCurrent, NEW p \in Procs, NEW f \in Procs, receive(p, f),
         Oldest(p, f).type = "TRANSFER"
  PROVE  Oldest(p, f).order = Orders[ordered]
<1>1. Link(f, p) \in Seq(BankMessage) /\ Link(f, p) # <<>> /\ Oldest(p, f) = Head(Link(f, p))
  BY LinkMessages, LinkFirst
<1>2. 1 \in 1..Len(Link(f, p)) /\ Head(Link(f, p)) = Link(f, p)[1]
  BY <1>1
<1> QED
  BY <1>1, <1>2 DEF OrdersCurrent

-----------------------------------------------------------------------------
(* Frames: what a step of one process leaves as it is *)

\* The state of a process.
SameState(a) == pc'[a] = pc[a] /\ from'[a] = from[a]

\* A pair of children between which nothing happens.
LEMMA ChildMailKept ==
  ASSUME NEW w, NEW v, NEW q, NEW c, ChildMail(w, q, c), Mail(q, c)' = Mail(q, c),
         SaidStarted(q)' <=> SaidStarted(q), SaidDone(q)' <=> SaidDone(q),
         HeardStarted(c, q)' <=> HeardStarted(c, q), HeardDone(c, q)' <=> HeardDone(c, q),
         OrderOn(v, q, c)' <=> OrderOn(w, q, c)
  PROVE  ChildMail(v, q, c)'
BY DEF ChildMail

\* A child that the parent sends nothing.
LEMMA ParentMailKept ==
  ASSUME NEW w, NEW v, NEW c, ParentMail(w, c), Mail(PARENT_ID, c)' = Mail(PARENT_ID, c),
         SaidStop' <=> SaidStop, SaidDone(c)' <=> SaidDone(c),
         OrderOn(v, PARENT_ID, c)' <=> OrderOn(w, PARENT_ID, c)
  PROVE  ParentMail(v, c)'
BY DEF ParentMail

\* A child that sends the parent nothing.
LEMMA MailToParentKept ==
  ASSUME NEW w, NEW v, NEW c, MailToParent(w, c), Mail(c, PARENT_ID)' = Mail(c, PARENT_ID),
         SaidStarted(c)' <=> SaidStarted(c), SaidDone(c)' <=> SaidDone(c),
         SentHistory(c)' <=> SentHistory(c),
         HeardStarted(PARENT_ID, c)' <=> HeardStarted(PARENT_ID, c),
         HeardDone(PARENT_ID, c)' <=> HeardDone(PARENT_ID, c),
         HeardHistory(c)' <=> HeardHistory(c),
         AckOn(v, c)' <=> AckOn(w, c)
  PROVE  MailToParent(v, c)'
BY DEF MailToParent

\* A step of child p concerns the pairs that p is one of.
LEMMA ChildPairs ==
  ASSUME NEW w, NEW v, Pairs(w), NEW p \in Children,
         \A a \in Procs \ {p} : SameState(a),
         \A a, b \in Procs \ {p} : Mail(a, b)' = Mail(a, b),
         Mail(p, p)' = Mail(p, p),
         \A a, b \in Procs \ {p} : OrderOn(v, a, b)' <=> OrderOn(w, a, b),
         \A c \in Children \ {p} : AckOn(v, c)' <=> AckOn(w, c),
         ParentMail(v, p)', MailToParent(v, p)',
         \A c \in Children \ {p} : ChildMail(v, p, c)' /\ ChildMail(v, c, p)'
  PROVE  Pairs(v)'
<1> USE ProcsFacts
<1>1. ASSUME NEW c \in Children \ {p} PROVE ParentMail(v, c)' /\ MailToParent(v, c)'
  <2>1. /\ ParentMail(w, c) /\ MailToParent(w, c)
        /\ Mail(PARENT_ID, c)' = Mail(PARENT_ID, c) /\ Mail(c, PARENT_ID)' = Mail(c, PARENT_ID)
        /\ OrderOn(v, PARENT_ID, c)' <=> OrderOn(w, PARENT_ID, c)
        /\ AckOn(v, c)' <=> AckOn(w, c)
        /\ SameState(c) /\ SameState(PARENT_ID)
    BY DEF Pairs
  <2>2. /\ SaidStop' <=> SaidStop
        /\ SaidStarted(c)' <=> SaidStarted(c)
        /\ SaidDone(c)' <=> SaidDone(c)
        /\ SentHistory(c)' <=> SentHistory(c)
        /\ HeardStarted(PARENT_ID, c)' <=> HeardStarted(PARENT_ID, c)
        /\ HeardDone(PARENT_ID, c)' <=> HeardDone(PARENT_ID, c)
        /\ HeardHistory(c)' <=> HeardHistory(c)
    BY <2>1 DEF SameState, SaidStop, SaidStarted, SaidDone, SentHistory, HeardStarted, HeardDone, HeardHistory
  <2> QED
    BY ONLY <2>1, <2>2, ParentMailKept, MailToParentKept
<1>2. ASSUME NEW q \in Children \ {p}, NEW c \in Children \ {p, q} PROVE ChildMail(v, q, c)'
  <2>1. /\ ChildMail(w, q, c) /\ Mail(q, c)' = Mail(q, c)
        /\ OrderOn(v, q, c)' <=> OrderOn(w, q, c)
        /\ SameState(q) /\ SameState(c)
    BY DEF Pairs
  <2>2. /\ SaidStarted(q)' <=> SaidStarted(q)
        /\ SaidDone(q)' <=> SaidDone(q)
        /\ HeardStarted(c, q)' <=> HeardStarted(c, q)
        /\ HeardDone(c, q)' <=> HeardDone(c, q)
    BY <2>1 DEF SameState, SaidStarted, SaidDone, HeardStarted, HeardDone
  <2> QED
    BY ONLY <2>1, <2>2, ChildMailKept
<1>3. \A a \in Procs : Mail(a, a)' = <<>>
  BY DEF Pairs
<1> QED
  BY <1>1, <1>2, <1>3 DEF Pairs

\* A step of the parent concerns the pairs that it is one of.
LEMMA ParentPairs ==
  ASSUME NEW w, NEW v, Pairs(w),
         \A c \in Children : SameState(c),
         \A a, b \in Children : Mail(a, b)' = Mail(a, b),
         Mail(PARENT_ID, PARENT_ID)' = Mail(PARENT_ID, PARENT_ID),
         \A a, b \in Children : OrderOn(v, a, b)' <=> OrderOn(w, a, b),
         \A c \in Children : ParentMail(v, c)' /\ MailToParent(v, c)'
  PROVE  Pairs(v)'
<1> USE ProcsFacts
<1>1. ASSUME NEW q \in Children, NEW c \in Children \ {q} PROVE ChildMail(v, q, c)'
  <2>1. /\ ChildMail(w, q, c) /\ Mail(q, c)' = Mail(q, c)
        /\ OrderOn(v, q, c)' <=> OrderOn(w, q, c)
        /\ SameState(q) /\ SameState(c)
    BY DEF Pairs
  <2>2. /\ SaidStarted(q)' <=> SaidStarted(q)
        /\ SaidDone(q)' <=> SaidDone(q)
        /\ HeardStarted(c, q)' <=> HeardStarted(c, q)
        /\ HeardDone(c, q)' <=> HeardDone(c, q)
    BY <2>1 DEF SameState, SaidStarted, SaidDone, HeardStarted, HeardDone
  <2> QED
    BY ONLY <2>1, <2>2, ChildMailKept
<1>2. \A a \in Procs : Mail(a, a)' = <<>>
  <2>1. \A a \in Procs : a = PARENT_ID \/ a \in Children
    BY NAssumption DEF Procs, Children, PARENT_ID
  <2> QED
    BY <2>1 DEF Pairs
<1> QED
  BY <1>1, <1>2 DEF Pairs

\* What the proof of a child's step has to say of the child's own progress.
LEMMA ChildProgress ==
  ASSUME NEW w \in Where, NEW v \in Where, Progress(w), NEW p \in Children,
         \A a \in Procs \ {p} : SameState(a) /\ outbox'[a] = outbox[a],
         all_history' = all_history, ordered' = ordered, v # "none" <=> w # "none",
         pc'[p] \in ChildLabel, SaidDone(p)' => SaidStop, pc[PARENT_ID] # "exited",
         from'[p] # p, Idle(p)' => from'[p] = NextFrom(p, PARENT_ID),
         Sending(p)' => pc'[p] # "exited"
  PROVE  Progress(v)'
<1> USE ProcsFacts
<1>1. /\ SameState(PARENT_ID) /\ PARENT_ID \in Procs \ {p}
      /\ SaidStop' <=> SaidStop
  BY DEF SameState, SaidStop
<1>2. ASSUME NEW c \in Children
      PROVE  /\ pc'[c] \in ChildLabel
             /\ SaidDone(c)' => SaidStop'
             /\ pc'[PARENT_ID] = "exited" => pc'[c] = "exited"
  <2>1. CASE c = p
    BY <1>1, <2>1 DEF SameState
  <2>2. CASE c # p
    BY <1>1, <2>2 DEF SameState, Progress, SaidDone
  <2> QED
    BY <2>1, <2>2
<1>3. ASSUME NEW a \in Procs
      PROVE  /\ from'[a] # a
             /\ Idle(a)' => from'[a] = NextFrom(a, PARENT_ID)
             /\ Sending(a)' => pc'[a] # "exited"
  <2>1. CASE a = p
    BY <2>1
  <2>2. CASE a # p
    <3>1. SameState(a) /\ outbox'[a] = outbox[a]
      BY <2>2
    <3>2. (Idle(a)' <=> Idle(a)) /\ (Sending(a)' <=> Sending(a))
      BY <3>1 DEF SameState, Idle, Sending
    <3> QED
      BY <3>1, <3>2 DEF SameState, Progress
  <2> QED
    BY <2>1, <2>2
<1>4. /\ pc'[PARENT_ID] \in ParentLabel
      /\ v # "none" <=> pc'[PARENT_ID] = "await_ack"
      /\ v # "none" => ordered' # 0
      /\ Len(all_history') = IF pc'[PARENT_ID] = "await_histories" THEN from'[PARENT_ID] - 1
                             ELSE IF pc'[PARENT_ID] \in {"wait", "exited"} THEN N ELSE 0
  BY <1>1 DEF SameState, Progress
<1> QED
  BY <1>2, <1>3, <1>4 DEF Progress

\* The same for the parent.
LEMMA ParentProgress ==
  ASSUME NEW w \in Where, NEW v \in Where, Progress(w),
         \A c \in Children : SameState(c) /\ outbox'[c] = outbox[c],
         pc'[PARENT_ID] \in ParentLabel, SaidStop => SaidStop',
         pc'[PARENT_ID] = "exited" => \A c \in Children : pc[c] = "exited",
         from'[PARENT_ID] # PARENT_ID,
         Idle(PARENT_ID)' => from'[PARENT_ID] = NextFrom(PARENT_ID, PARENT_ID),
         Sending(PARENT_ID)' => pc'[PARENT_ID] # "exited",
         v # "none" <=> pc'[PARENT_ID] = "await_ack", v # "none" => ordered' # 0,
         Len(all_history') = IF pc'[PARENT_ID] = "await_histories" THEN from'[PARENT_ID] - 1
                             ELSE IF pc'[PARENT_ID] \in {"wait", "exited"} THEN N ELSE 0
  PROVE  Progress(v)'
<1>1. ASSUME NEW c \in Children
      PROVE  /\ pc'[c] \in ChildLabel
             /\ SaidDone(c)' => SaidStop'
             /\ pc'[PARENT_ID] = "exited" => pc'[c] = "exited"
  BY DEF SameState, Progress, SaidDone
<1>2. ASSUME NEW a \in Procs
      PROVE  /\ from'[a] # a
             /\ Idle(a)' => from'[a] = NextFrom(a, PARENT_ID)
             /\ Sending(a)' => pc'[a] # "exited"
  <2>1. CASE a = PARENT_ID
    BY <2>1
  <2>2. CASE a # PARENT_ID
    <3>1. a \in Children
      BY <2>2, NAssumption DEF Procs, Children, PARENT_ID
    <3>2. SameState(a) /\ outbox'[a] = outbox[a]
      BY <3>1
    <3>3. (Idle(a)' <=> Idle(a)) /\ (Sending(a)' <=> Sending(a))
      BY <3>2 DEF SameState, Idle, Sending
    <3> QED
      BY <3>2, <3>3 DEF SameState, Progress
  <2> QED
    BY <2>1, <2>2
<1> QED
  BY <1>1, <1>2 DEF Progress

\* The cursor of the receive loops goes over the other children in ascending order.
LEMMA CursorStart ==
  ASSUME NEW p \in Procs
  PROVE  /\ NextFrom(p, PARENT_ID) \in 1..(N + 1) /\ NextFrom(p, PARENT_ID) # p
         /\ \A q \in Children \ {p} : ~(q < NextFrom(p, PARENT_ID))
         /\ p = PARENT_ID => NextFrom(p, PARENT_ID) = 1
BY NAssumption DEF NextFrom, Procs, Children, PARENT_ID

\* The cursor of a receive_all loop passes one child at a time.
LEMMA CursorNext ==
  ASSUME NEW p \in Procs, NEW f \in Children \ {p}
  PROVE  /\ NextFrom(p, f) \in 1..(N + 1) /\ NextFrom(p, f) # p
         /\ \A q \in Children \ {p} : q < NextFrom(p, f) <=> q < f \/ q = f
         /\ p = PARENT_ID => NextFrom(p, f) = f + 1
BY NAssumption DEF NextFrom, Procs, Children, PARENT_ID

\* An order names two children.
LEMMA OrderFacts ==
  /\ Len(Orders) \in Nat
  /\ \A k \in 1..Len(Orders) : /\ Orders[k] \in Order /\ Orders[k].src # Orders[k].dst
                               /\ Orders[k].amount \in Nat
<1>1. CASE N = 1
  BY <1>1 DEF Orders
<1>2. CASE N # 1
  <2>1. N \in Nat /\ N > 1
    BY <1>2, NAssumption
  <2>2. Orders = [k \in 1..N |-> IF k < N THEN TransferOrder(k, k + 1, k) ELSE TransferOrder(N, 1, 1)]
    BY <1>2 DEF Orders
  <2>3. Len(Orders) = N
    BY <2>1, <2>2
  <2>4. ASSUME NEW k \in 1..N
        PROVE  Orders[k] \in Order /\ Orders[k].src # Orders[k].dst /\ Orders[k].amount \in Nat
    <3>1. CASE k < N
      <4>1. Orders[k] = [src |-> k, dst |-> k + 1, amount |-> k] /\ k \in Children /\ k + 1 \in Children
        BY <2>1, <2>2, <3>1 DEF TransferOrder, Children
      <4> QED
        BY <2>1, <4>1 DEF Order
    <3>2. CASE ~(k < N)
      <4>1. Orders[k] = [src |-> N, dst |-> 1, amount |-> 1] /\ 1 \in Children /\ N \in Children
        BY <2>1, <2>2, <3>2 DEF TransferOrder, Children
      <4> QED
        BY <2>1, <4>1 DEF Order
    <3> QED
      BY <3>1, <3>2
  <2> QED
    BY <2>1, <2>3, <2>4
<1> QED
  BY <1>1, <1>2

\* The order under way does.
LEMMA CurrentOrder ==
  ASSUME NEW w \in Where, StateTypes, Progress(w), w # "none"
  PROVE  /\ Src \in Children /\ Dst \in Children /\ Src # Dst /\ Orders[ordered] \in Order
         /\ ordered \in 1..Len(Orders) /\ ~SaidStop
         /\ \A c \in Children : ~SaidDone(c) /\ ~SentHistory(c)
         /\ \A c \in Children : HeardStarted(PARENT_ID, c) /\ ~HeardDone(PARENT_ID, c) /\ ~HeardHistory(c)
<1>1. ordered \in 1..Len(Orders)
  BY OrderFacts DEF StateTypes, Progress
<1>2. pc[PARENT_ID] = "await_ack"
  BY DEF Progress
<1>3. \A c \in Children : ~SaidDone(c) /\ ~SentHistory(c)
  BY <1>2 DEF Progress, SaidStop, SaidDone, SentHistory
<1> QED
  BY <1>1, <1>2, <1>3, OrderFacts DEF Src, Dst, Order, SaidStop, HeardStarted, HeardDone, HeardHistory

\* No order is under way once STOP has been said.
LEMMA AfterStop ==
  ASSUME NEW w \in Where, Progress(w), SaidStop
  PROVE  /\ w = "none" /\ \A a, b : ~OrderOn(w, a, b) /\ ~AckOn(w, b)
         /\ \A c \in Children : HeardStarted(PARENT_ID, c)
BY DEF Progress, SaidStop, OrderOn, AckOn, HeardStarted

\* While no other order is given the places of the order keep their meaning.
LEMMA OrderSame ==
  ASSUME ordered' = ordered
  PROVE  /\ Src' = Src /\ Dst' = Dst
         /\ \A w, a, b : OrderOn(w, a, b)' <=> OrderOn(w, a, b)
         /\ \A w, c : AckOn(w, c)' <=> AckOn(w, c)
BY DEF Src, Dst, OrderOn, AckOn

-----------------------------------------------------------------------------
(* The steps of a child *)

\* A step by which nothing of the protocol moves.
LEMMA NothingMoves ==
  ASSUME NEW w \in Where, ProtocolInv(w), StateTypes',
         UNCHANGED <<pipes, outbox, pc, from, all_history, ordered>>
  PROVE  ProtocolInv(w)'
<1>1. /\ \A a, b : Mail(a, b)' = Mail(a, b) /\ Link(a, b)' = Link(a, b)
      /\ \A a : /\ SameState(a)
                /\ SaidStarted(a)' <=> SaidStarted(a)
                /\ SaidDone(a)' <=> SaidDone(a)
                /\ SentHistory(a)' <=> SentHistory(a)
                /\ HeardHistory(a)' <=> HeardHistory(a)
                /\ Idle(a)' <=> Idle(a)
                /\ Sending(a)' <=> Sending(a)
      /\ \A a, b : /\ HeardStarted(a, b)' <=> HeardStarted(a, b)
                   /\ HeardDone(a, b)' <=> HeardDone(a, b)
      /\ SaidStop' <=> SaidStop
  BY DEF Mail, TypesOf, Link, SameState, SaidStarted, SaidDone, SentHistory, HeardHistory, Idle,
         Sending, HeardStarted, HeardDone, SaidStop
<1>2. /\ \A a, b : OrderOn(w, a, b)' <=> OrderOn(w, a, b)
      /\ \A c : AckOn(w, c)' <=> AckOn(w, c)
  BY OrderSame
<1>3. Progress(w)'
  BY <1>1 DEF ProtocolInv, Progress, SameState
<1>4. OrdersCurrent'
  BY <1>1 DEF ProtocolInv, OrdersCurrent
<1>5. Pairs(w)'
  <2>1. \A c \in Children : ParentMail(w, c)' /\ MailToParent(w, c)'
    BY <1>1, <1>2, ParentMailKept, MailToParentKept DEF ProtocolInv, Pairs
  <2>2. \A q \in Children : \A c \in Children \ {q} : ChildMail(w, q, c)'
    BY <1>1, <1>2, ChildMailKept DEF ProtocolInv, Pairs
  <2>3. \A a \in Procs : Mail(a, a)' = <<>>
    BY <1>1 DEF ProtocolInv, Pairs
  <2> QED
    BY <2>1, <2>2, <2>3 DEF Pairs
<1> QED
  BY <1>3, <1>4, <1>5 DEF ProtocolInv

\* A child says STARTED.
LEMMA SaysStarted ==
  ASSUME NEW w \in Where, ProtocolInv(w), NEW c \in Children, At(c, "start"),
         NEW m \in BankMessage, m.type = "STARTED",
         send_multicast(c, m), Goto(c, "await_started"),
         UNCHANGED <<pipes, from, polled, balance, history, all_history, ordered>>
  PROVE  ProtocolInv(w)'
<1> USE ProcsFacts
<1>1. /\ StateTypes /\ Progress(w) /\ OrdersCurrent /\ Pairs(w) /\ MailTypes
      /\ pc[c] = "start" /\ ~Sending(c) /\ c \in Procs
      /\ pc' \in [Procs -> Label] /\ pc'[c] = "await_started"
      /\ \A a \in Procs \ {c} : SameState(a)
      /\ from'[c] = from[c]
  BY DEF ProtocolInv, At, Goto, StateTypes, SameState, Label
<1>2. /\ MailTypes' /\ OrdersCurrent'
      /\ \A a \in Procs \ {c} : outbox'[a] = outbox[a]
      /\ \A a, b \in Procs :
           Mail(a, b)' = IF a = c /\ b \in Procs \ {c} THEN Append(Mail(a, b), "STARTED") ELSE Mail(a, b)
  <2> DEFINE D == Procs \ {c}
  <2>1. Post(c, D, m)
    BY DEF send_multicast
  <2> HIDE DEF D
  <2>2. /\ MailTypes' /\ OrdersCurrent'
        /\ \A a \in Procs \ {c} : outbox'[a] = outbox[a]
        /\ \A a, b \in Procs :
             Mail(a, b)' = IF a = c /\ b \in D THEN Append(Mail(a, b), m.type) ELSE Mail(a, b)
    BY <1>1, <2>1, MailPosts
  <2> QED
    BY <2>2 DEF D
<1>3. /\ from[c] = NextFrom(c, PARENT_ID)
      /\ \A q \in Children \ {c} : ~(q < from[c])
  BY <1>1, CursorStart DEF Progress, Idle
<1>4. pc[PARENT_ID] # "exited"
  BY <1>1 DEF Progress
<1>5. Progress(w)'
  <2>1. ~SaidDone(c)' /\ from'[c] # c /\ ~Idle(c)'
    BY <1>1 DEF SaidDone, Idle, Progress
  <2> QED
    BY <1>1, <1>2, <1>4, <2>1, ChildProgress DEF ChildLabel
<1>6. /\ ~SaidStarted(c) /\ SaidStarted(c)' /\ ~SaidDone(c) /\ ~SaidDone(c)'
      /\ ~SentHistory(c) /\ ~SentHistory(c)'
      /\ \A q \in Children \ {c} : /\ ~HeardStarted(c, q) /\ ~HeardStarted(c, q)'
                                   /\ ~HeardDone(c, q) /\ ~HeardDone(c, q)'
  BY <1>1, <1>3 DEF SaidStarted, SaidDone, SentHistory, HeardStarted, HeardDone
<1>7. /\ \A a, b : OrderOn(w, a, b)' <=> OrderOn(w, a, b)
      /\ \A a : AckOn(w, a)' <=> AckOn(w, a)
  BY OrderSame
<1>8. ParentMail(w, c)'
  <2>1. SaidStop' <=> SaidStop
    BY <1>1 DEF SameState, SaidStop
  <2> QED
    BY <1>1, <1>2, <1>6, <1>7, <2>1, ParentMailKept DEF Pairs
<1>9. MailToParent(w, c)'
  <2>1. MailToParent(w, c) /\ Mail(c, PARENT_ID)' = Append(Mail(c, PARENT_ID), "STARTED")
    BY <1>1, <1>2 DEF Pairs
  <2>2. /\ HeardStarted(PARENT_ID, c)' <=> HeardStarted(PARENT_ID, c)
        /\ HeardDone(PARENT_ID, c)' <=> HeardDone(PARENT_ID, c)
        /\ HeardHistory(c)' <=> HeardHistory(c)
    BY <1>1 DEF SameState, HeardStarted, HeardDone, HeardHistory
  <2> QED
    BY <1>6, <2>1, <2>2, WordFacts DEF MailToParent, BankType
<1>10. ASSUME NEW q \in Children \ {c} PROVE ChildMail(w, c, q)' /\ ChildMail(w, q, c)'
  <2>1. /\ ChildMail(w, c, q) /\ Mail(c, q)' = Append(Mail(c, q), "STARTED")
        /\ ChildMail(w, q, c) /\ Mail(q, c)' = Mail(q, c) /\ SameState(q)
    BY <1>1, <1>2 DEF Pairs
  <2>2. /\ HeardStarted(q, c)' <=> HeardStarted(q, c)
        /\ HeardDone(q, c)' <=> HeardDone(q, c)
        /\ SaidStarted(q)' <=> SaidStarted(q)
        /\ SaidDone(q)' <=> SaidDone(q)
    BY <2>1 DEF SameState, HeardStarted, HeardDone, SaidStarted, SaidDone
  <2>3. ChildMail(w, c, q)'
    BY <1>6, <1>7, <2>1, <2>2, WordFacts DEF ChildMail, BankType
  <2>4. ChildMail(w, q, c)'
    BY <1>6, <1>7, <2>1, <2>2, ChildMailKept
  <2> QED
    BY <2>3, <2>4
<1>11. Pairs(w)'
  BY <1>1, <1>2, <1>7, <1>8, <1>9, <1>10, ChildPairs
<1>12. StateTypes'
  BY <1>1, <1>2 DEF StateTypes
<1> QED
  BY <1>2, <1>5, <1>11, <1>12 DEF ProtocolInv

\* What a child finds at the cursor of its loops is what it waits for.
LEMMA ChildHeadsType ==
  ASSUME NEW w \in Where, ProtocolInv(w), NEW c \in Children, NEW type \in {"STARTED", "DONE"},
         pc[c] = IF type = "STARTED" THEN "await_started" ELSE "await_done",
         from[c] <= N, receive(c, from[c])
  PROVE  /\ from[c] \in Children \ {c} /\ Oldest(c, from[c]).type = type
         /\ type = "STARTED" => /\ SaidStarted(from[c])
                                /\ Mail(from[c], c) = IF OrderOn(w, from[c], c) THEN <<"STARTED", "TRANSFER">>
                                                      ELSE IF SaidDone(from[c]) THEN <<"STARTED", "DONE">>
                                                      ELSE <<"STARTED">>
         /\ type = "DONE" => Mail(from[c], c) = <<"DONE">> /\ SaidDone(from[c]) /\ ~OrderOn(w, from[c], c)
<1> USE ProcsFacts
<1>1. StateTypes /\ Progress(w) /\ Pairs(w) /\ MailTypes /\ c \in Procs
  BY DEF ProtocolInv, StateTypes
<1>2. from[c] \in Children \ {c}
  BY <1>1, NAssumption DEF StateTypes, Progress, Children
<1>3. /\ ChildMail(w, from[c], c) /\ Mail(from[c], c) # <<>>
      /\ Oldest(c, from[c]).type = Head(Mail(from[c], c))
  BY <1>1, <1>2, LinkFirst DEF Pairs
<1>4. CASE type = "STARTED"
  <2>1. ~HeardStarted(c, from[c])
    BY <1>2, <1>4 DEF HeardStarted, Children
  <2>2. /\ SaidStarted(from[c])
        /\ Mail(from[c], c) = IF OrderOn(w, from[c], c) THEN <<"STARTED", "TRANSFER">>
                              ELSE IF SaidDone(from[c]) THEN <<"STARTED", "DONE">>
                              ELSE <<"STARTED">>
    BY <1>3, <2>1 DEF ChildMail
  <2> QED
    BY <1>2, <1>3, <1>4, <2>2, WordFacts DEF BankType
<1>5. CASE type = "DONE"
  <2>1. HeardStarted(c, from[c]) /\ SaidDone(c)
    BY <1>5 DEF HeardStarted, SaidDone
  <2>2. SaidStop
    BY <1>1, <2>1 DEF Progress
  <2>3. ~OrderOn(w, from[c], c)
    BY <1>1, <2>2, AfterStop
  <2>4. Mail(from[c], c) = <<"DONE">> /\ SaidDone(from[c])
    BY <1>3, <2>1, <2>3 DEF ChildMail
  <2> QED
    BY <1>2, <1>3, <1>5, <2>3, <2>4, WordFacts DEF BankType
<1> QED
  BY <1>4, <1>5

\* A child hears STARTED or DONE from the next one.
LEMMA ChildHears ==
  ASSUME NEW w \in Where, ProtocolInv(w), NEW c \in Children, NEW type \in {"STARTED", "DONE"},
         pc[c] = IF type = "STARTED" THEN "await_started" ELSE "await_done",
         ReceiveNext(c, type)
  PROVE  ProtocolInv(w)' /\ UNCHANGED <<balance, ordered>>
<1> USE ProcsFacts
<1> DEFINE f == from[c]
<1>1. /\ StateTypes /\ Progress(w) /\ OrdersCurrent /\ Pairs(w) /\ MailTypes /\ c \in Procs
      /\ from[c] <= N /\ receive(c, f)
      /\ UNCHANGED <<outbox, polled, balance, history, ordered>>
  BY DEF ProtocolInv, StateTypes, ReceiveNext
<1>2. /\ f \in Children \ {c} /\ Oldest(c, f).type = type
      /\ type = "STARTED" => /\ SaidStarted(f)
                             /\ Mail(f, c) = IF OrderOn(w, f, c) THEN <<"STARTED", "TRANSFER">>
                                             ELSE IF SaidDone(f) THEN <<"STARTED", "DONE">>
                                             ELSE <<"STARTED">>
      /\ type = "DONE" => Mail(f, c) = <<"DONE">> /\ SaidDone(f) /\ ~OrderOn(w, f, c)
  BY <1>1, ChildHeadsType
<1>3. /\ from' = [from EXCEPT ![c] = NextFrom(c, @)]
      /\ UNCHANGED <<pc, all_history>>
  BY <1>2 DEF ReceiveNext
<1>4. /\ NextFrom(c, f) \in 1..(N + 1) /\ NextFrom(c, f) # c
      /\ \A q \in Children \ {c} : q < NextFrom(c, f) <=> q < f \/ q = f
  BY <1>1, <1>2, CursorNext
<1>5. /\ from' \in [Procs -> 1..(N + 1)] /\ from'[c] = NextFrom(c, f)
      /\ \A a \in Procs \ {c} : SameState(a)
  BY <1>1, <1>3, <1>4 DEF StateTypes, SameState
<1>6. /\ MailTypes' /\ OrdersCurrent'
      /\ \A a, b \in Procs : Mail(a, b)' = IF a = f /\ b = c THEN Tail(Mail(a, b)) ELSE Mail(a, b)
  <2> HIDE DEF f
  <2> QED
    BY <1>1, <1>2, MailReads
<1>7. pc[PARENT_ID] # "exited"
  BY <1>1 DEF Progress
<1>8. Progress(w)'
  <2>1. /\ pc'[c] = pc[c] /\ pc[c] \in ChildLabel /\ (SaidDone(c)' => SaidStop)
        /\ ~Idle(c)' /\ (Sending(c)' => pc'[c] # "exited")
    BY <1>1, <1>3 DEF Progress, SaidDone, Idle
  <2>2. \A a \in Procs \ {c} : SameState(a) /\ outbox'[a] = outbox[a]
    BY <1>1, <1>5
  <2>3. from'[c] # c /\ all_history' = all_history /\ ordered' = ordered
    BY <1>1, <1>3, <1>4, <1>5
  <2> QED
    BY <1>1, <1>7, <2>1, <2>2, <2>3, ChildProgress
<1>9. /\ \A a : /\ SaidStarted(a)' <=> SaidStarted(a)
                /\ SaidDone(a)' <=> SaidDone(a)
                /\ SentHistory(a)' <=> SentHistory(a)
      /\ SaidStop' <=> SaidStop
      /\ \A q \in Children : HeardHistory(q)' <=> HeardHistory(q)
      /\ \A a \in Procs \ {c} : \A q : /\ HeardStarted(a, q)' <=> HeardStarted(a, q)
                                       /\ HeardDone(a, q)' <=> HeardDone(a, q)
  BY <1>3, <1>5 DEF SameState, SaidStarted, SaidDone, SentHistory, SaidStop, HeardHistory,
                    HeardStarted, HeardDone
<1>10. \A q \in Children \ {c} :
          /\ HeardStarted(c, q)' <=> HeardStarted(c, q) \/ (q = f /\ type = "STARTED")
          /\ HeardDone(c, q)' <=> HeardDone(c, q) \/ (q = f /\ type = "DONE")
  BY <1>3, <1>4, <1>5 DEF HeardStarted, HeardDone
<1>11. /\ \A a, b : OrderOn(w, a, b)' <=> OrderOn(w, a, b)
       /\ \A a : AckOn(w, a)' <=> AckOn(w, a)
  BY <1>1, OrderSame
<1>12. ParentMail(w, c)' /\ MailToParent(w, c)'
  <2>1. /\ ParentMail(w, c) /\ MailToParent(w, c)
        /\ Mail(PARENT_ID, c)' = Mail(PARENT_ID, c) /\ Mail(c, PARENT_ID)' = Mail(c, PARENT_ID)
    BY <1>1, <1>2, <1>6 DEF Pairs
  <2> QED
    BY <1>9, <1>11, <2>1, ParentMailKept, MailToParentKept
<1>13. ASSUME NEW q \in Children \ {c} PROVE ChildMail(w, c, q)' /\ ChildMail(w, q, c)'
  <2>1. /\ ChildMail(w, c, q) /\ Mail(c, q)' = Mail(c, q) /\ ChildMail(w, q, c)
    BY <1>1, <1>2, <1>6 DEF Pairs
  <2>2. ChildMail(w, c, q)'
    BY <1>9, <1>11, <2>1, ChildMailKept
  <2>3. CASE q # f
    <3>1. Mail(q, c)' = Mail(q, c)
      BY <1>6, <2>3
    <3> QED
      BY <1>9, <1>10, <1>11, <2>1, <2>2, <2>3, <3>1, ChildMailKept
  <2>4. CASE q = f /\ type = "STARTED"
    <3>1. Mail(q, c)' = IF OrderOn(w, q, c) THEN <<"TRANSFER">>
                        ELSE IF SaidDone(q) THEN <<"DONE">> ELSE <<>>
      <4>1. /\ Mail(q, c)' = Tail(Mail(q, c))
            /\ Mail(q, c) = IF OrderOn(w, q, c) THEN <<"STARTED", "TRANSFER">>
                            ELSE IF SaidDone(q) THEN <<"STARTED", "DONE">> ELSE <<"STARTED">>
        BY <1>1, <1>2, <1>6, <2>4
      <4> QED
        BY ONLY <4>1, WordFacts DEF BankType
    <3>2. ~HeardDone(c, q)
      BY <2>4 DEF HeardDone
    <3> QED
      BY <1>2, <1>9, <1>10, <1>11, <2>1, <2>2, <2>4, <3>1, <3>2 DEF ChildMail
  <2>5. CASE q = f /\ type = "DONE"
    <3>1. Mail(q, c)' = <<>>
      <4>1. Mail(q, c)' = Tail(Mail(q, c)) /\ Mail(q, c) = <<"DONE">>
        BY <1>1, <1>2, <1>6, <2>5
      <4> QED
        BY ONLY <4>1, WordFacts DEF BankType
    <3>2. HeardStarted(c, q) /\ SaidStarted(q)
      BY <1>2, <2>1, <2>5 DEF HeardStarted, SaidDone, SaidStarted
    <3> QED
      BY <1>2, <1>9, <1>10, <1>11, <2>1, <2>2, <2>5, <3>1, <3>2 DEF ChildMail
  <2> QED
    BY <2>2, <2>3, <2>4, <2>5
<1>14. Pairs(w)'
  BY <1>1, <1>2, <1>5, <1>6, <1>11, <1>12, <1>13, ChildPairs
<1>15. StateTypes'
  BY <1>1, <1>3, <1>5, <1>6 DEF StateTypes
<1> QED
  BY <1>1, <1>6, <1>8, <1>14, <1>15 DEF ProtocolInv

\* A child goes on without reading or sending anything.
LEMMA ChildMoves ==
  ASSUME NEW w \in Where, ProtocolInv(w), NEW c \in Children,
         UNCHANGED <<pipes, outbox, polled, balance, history, all_history, ordered>>,
         pc' \in [Procs -> Label], from' \in [Procs -> 1..(N + 1)],
         \A a \in Procs \ {c} : SameState(a),
         SaidStarted(c), SaidStarted(c)',
         SaidDone(c)' <=> SaidDone(c), SentHistory(c)' <=> SentHistory(c),
         \A q \in Children \ {c} : /\ HeardStarted(c, q)' <=> HeardStarted(c, q)
                                   /\ HeardDone(c, q)' => HeardDone(c, q),
         pc[c] # "exited", pc'[c] \in ChildLabel, from'[c] # c,
         Idle(c)' => from'[c] = NextFrom(c, PARENT_ID), Sending(c)' => pc'[c] # "exited"
  PROVE  ProtocolInv(w)'
<1> USE ProcsFacts
<1>1. /\ StateTypes /\ Progress(w) /\ OrdersCurrent /\ Pairs(w) /\ c \in Procs
      /\ \A a, b : Mail(a, b)' = Mail(a, b) /\ Link(a, b)' = Link(a, b)
  BY DEF ProtocolInv, Mail, TypesOf, Link
<1>2. Progress(w)'
  <2>1. SaidDone(c)' => SaidStop
    BY <1>1 DEF Progress
  <2>2. pc[PARENT_ID] # "exited"
    BY <1>1 DEF Progress
  <2>3. \A a \in Procs \ {c} : SameState(a) /\ outbox'[a] = outbox[a]
    OBVIOUS
  <2> QED
    BY <1>1, <2>1, <2>2, <2>3, ChildProgress
<1>3. /\ \A a, b : OrderOn(w, a, b)' <=> OrderOn(w, a, b)
      /\ \A a : AckOn(w, a)' <=> AckOn(w, a)
  BY OrderSame
<1>4. ParentMail(w, c)' /\ MailToParent(w, c)'
  <2>1. ParentMail(w, c) /\ MailToParent(w, c) /\ SameState(PARENT_ID)
    BY <1>1 DEF Pairs
  <2>2. /\ SaidStop' <=> SaidStop
        /\ HeardStarted(PARENT_ID, c)' <=> HeardStarted(PARENT_ID, c)
        /\ HeardDone(PARENT_ID, c)' <=> HeardDone(PARENT_ID, c)
        /\ HeardHistory(c)' <=> HeardHistory(c)
    BY <2>1 DEF SameState, SaidStop, HeardStarted, HeardDone, HeardHistory
  <2> QED
    BY <1>1, <1>3, <2>1, <2>2, ParentMailKept, MailToParentKept
<1>5. ASSUME NEW q \in Children \ {c} PROVE ChildMail(w, c, q)' /\ ChildMail(w, q, c)'
  <2>1. ChildMail(w, c, q) /\ ChildMail(w, q, c) /\ SameState(q)
    BY <1>1 DEF Pairs
  <2>2. /\ HeardStarted(q, c)' <=> HeardStarted(q, c)
        /\ HeardDone(q, c)' <=> HeardDone(q, c)
        /\ SaidStarted(q)' <=> SaidStarted(q)
        /\ SaidDone(q)' <=> SaidDone(q)
    BY <2>1 DEF SameState, HeardStarted, HeardDone, SaidStarted, SaidDone
  <2>3. ChildMail(w, c, q)'
    BY <1>1, <1>3, <2>1, <2>2, ChildMailKept
  <2>4. ChildMail(w, q, c)'
    BY <1>1, <1>3, <2>1, <2>2 DEF ChildMail
  <2> QED
    BY <2>3, <2>4
<1>6. Pairs(w)'
  BY <1>1, <1>3, <1>4, <1>5, ChildPairs
<1>7. OrdersCurrent'
  BY <1>1 DEF OrdersCurrent
<1>8. StateTypes'
  BY <1>1 DEF StateTypes, MailTypes
<1> QED
  BY <1>2, <1>6, <1>7, <1>8 DEF ProtocolInv

\* A child has heard STARTED from all.
LEMMA ChildBegins ==
  ASSUME NEW w \in Where, ProtocolInv(w), NEW c \in Children, At(c, "await_started"),
         ReceiveEnd(c), Goto(c, "loop"), outbox' = outbox
  PROVE  ProtocolInv(w)'
<1> USE ProcsFacts
<1>1. /\ StateTypes /\ Progress(w) /\ c \in Procs
      /\ pc[c] = "await_started" /\ ~Sending(c) /\ from[c] > N
      /\ pc' \in [Procs -> Label] /\ pc'[c] = "loop"
      /\ UNCHANGED <<pipes, outbox, polled, balance, history, all_history, ordered>>
  BY DEF ProtocolInv, At, Goto, ReceiveEnd, StateTypes, Label
<1>2. /\ from' \in [Procs -> 1..(N + 1)] /\ from'[c] = NextFrom(c, PARENT_ID) /\ from'[c] # c
      /\ \A a \in Procs \ {c} : SameState(a)
  BY <1>1, CursorStart DEF ReceiveEnd, Goto, StateTypes, SameState
<1>3. \A q \in Children : q < from[c]
  <2>1. from[c] \in Nat /\ N \in Nat
    BY <1>1, NAssumption DEF StateTypes
  <2> QED
    BY <1>1, <2>1 DEF Children
<1>4. /\ SaidStarted(c) /\ SaidStarted(c)' /\ (SaidDone(c)' <=> SaidDone(c))
      /\ SentHistory(c)' <=> SentHistory(c)
  BY <1>1 DEF SaidStarted, SaidDone, SentHistory
<1>5. \A q \in Children \ {c} : /\ HeardStarted(c, q)' <=> HeardStarted(c, q)
                                /\ HeardDone(c, q)' => HeardDone(c, q)
  BY <1>1, <1>3 DEF HeardStarted, HeardDone
<1> QED
  BY <1>1, <1>2, <1>4, <1>5, ChildMoves DEF ChildLabel

\* It is at the end of file of a pipe.
LEMMA ChildSpins ==
  ASSUME NEW w \in Where, ProtocolInv(w), NEW c \in Children, At(c, "await_done"), SpinOnEof(c)
  PROVE  ProtocolInv(w)'
<1> USE ProcsFacts
<1>1. /\ StateTypes /\ Progress(w) /\ c \in Procs
      /\ pc[c] = "await_done" /\ ~Sending(c)
      /\ pc' \in [Procs -> Label] /\ pc'[c] = "spin"
      /\ UNCHANGED <<pipes, outbox, from, polled, balance, history, all_history, ordered>>
  BY DEF ProtocolInv, At, Goto, SpinOnEof, StateTypes, Label
<1>2. /\ from' \in [Procs -> 1..(N + 1)] /\ from'[c] # c /\ ~Idle(c)'
      /\ \A a \in Procs \ {c} : SameState(a)
  BY <1>1 DEF SpinOnEof, Goto, StateTypes, SameState, Progress, Idle
<1>3. /\ SaidStarted(c) /\ SaidStarted(c)' /\ (SaidDone(c)' <=> SaidDone(c))
      /\ SentHistory(c)' <=> SentHistory(c)
  BY <1>1 DEF SaidStarted, SaidDone, SentHistory
<1>4. \A q \in Children \ {c} : /\ HeardStarted(c, q)' <=> HeardStarted(c, q)
                                /\ HeardDone(c, q)' => HeardDone(c, q)
  BY <1>1 DEF HeardStarted, HeardDone
<1> QED
  BY <1>1, <1>2, <1>3, <1>4, ChildMoves DEF ChildLabel

\* It returns from main.
LEMMA ChildReturns ==
  ASSUME NEW w \in Where, ProtocolInv(w), NEW c \in Children, ChildExit(c)
  PROVE  ProtocolInv(w)'
<1> USE ProcsFacts
<1>1. /\ StateTypes /\ Progress(w) /\ c \in Procs
      /\ pc[c] = "send_history" /\ ~Sending(c)
      /\ pc' \in [Procs -> Label] /\ pc'[c] = "exited"
      /\ UNCHANGED <<pipes, outbox, from, polled, balance, history, all_history, ordered>>
  BY DEF ProtocolInv, At, Goto, ChildExit, StateTypes, Label
<1>2. /\ from' \in [Procs -> 1..(N + 1)] /\ from'[c] # c /\ from'[c] = NextFrom(c, PARENT_ID)
      /\ ~Sending(c)'
      /\ \A a \in Procs \ {c} : SameState(a)
  BY <1>1 DEF ChildExit, Goto, StateTypes, SameState, Progress, Idle, Sending
<1>3. /\ SaidStarted(c) /\ SaidStarted(c)' /\ (SaidDone(c)' <=> SaidDone(c))
      /\ SentHistory(c)' <=> SentHistory(c)
  BY <1>1 DEF SaidStarted, SaidDone, SentHistory
<1>4. \A q \in Children \ {c} : /\ HeardStarted(c, q)' <=> HeardStarted(c, q)
                                /\ HeardDone(c, q)' => HeardDone(c, q)
  BY <1>1 DEF HeardStarted, HeardDone
<1> QED
  BY <1>1, <1>2, <1>3, <1>4, ChildMoves DEF ChildLabel

\* It has heard DONE from all and sends its history.
LEMMA ChildSendsHistory ==
  ASSUME NEW w \in Where, ProtocolInv(w), NEW c \in Children, At(c, "await_done"),
         ReceiveEnd(c), NEW m \in BankMessage, m.type = "BALANCE_HISTORY",
         send(c, PARENT_ID, m), Goto(c, "send_history")
  PROVE  ProtocolInv(w)'
<1> USE ProcsFacts
<1>1. /\ StateTypes /\ Progress(w) /\ OrdersCurrent /\ Pairs(w) /\ MailTypes /\ c \in Procs
      /\ pc[c] = "await_done" /\ ~Sending(c) /\ from[c] > N
      /\ pc' \in [Procs -> Label] /\ pc'[c] = "send_history"
      /\ UNCHANGED <<pipes, polled, balance, history, all_history, ordered>>
  BY DEF ProtocolInv, At, Goto, ReceiveEnd, StateTypes, Label
<1>2. /\ from' \in [Procs -> 1..(N + 1)] /\ from'[c] = NextFrom(c, PARENT_ID) /\ from'[c] # c
      /\ \A a \in Procs \ {c} : SameState(a)
  BY <1>1, CursorStart DEF ReceiveEnd, Goto, StateTypes, SameState
<1>3. /\ MailTypes' /\ OrdersCurrent'
      /\ \A a \in Procs \ {c} : outbox'[a] = outbox[a]
      /\ \A a, b \in Procs :
           Mail(a, b)' = IF a = c /\ b = PARENT_ID THEN Append(Mail(a, b), "BALANCE_HISTORY") ELSE Mail(a, b)
  <2> DEFINE D == {PARENT_ID}
  <2>1. Post(c, D, m) /\ \A b : b \in D <=> b = PARENT_ID
    BY DEF send
  <2> HIDE DEF D
  <2>2. /\ MailTypes' /\ OrdersCurrent'
        /\ \A a \in Procs \ {c} : outbox'[a] = outbox[a]
        /\ \A a, b \in Procs :
             Mail(a, b)' = IF a = c /\ b \in D THEN Append(Mail(a, b), m.type) ELSE Mail(a, b)
    BY <1>1, <2>1, MailPosts
  <2> QED
    BY <2>1, <2>2
<1>4. \A q \in Children : q < from[c]
  <2>1. from[c] \in Nat /\ N \in Nat /\ from[c] > N
    BY <1>1, NAssumption DEF StateTypes
  <2>2. \A q \in Children : q \in Nat /\ q <= N
    BY <2>1 DEF Children
  <2> QED
    BY ONLY <2>1, <2>2
<1>5. /\ SaidStarted(c) /\ SaidStarted(c)' /\ SaidDone(c)' /\ SaidDone(c)
      /\ ~SentHistory(c) /\ SentHistory(c)'
      /\ SaidStop
  BY <1>1 DEF SaidStarted, SaidDone, SentHistory, Progress
<1>6. \A q \in Children \ {c} : /\ HeardStarted(c, q)' <=> HeardStarted(c, q)
                                /\ HeardDone(c, q)' <=> HeardDone(c, q)
  BY <1>1, <1>4 DEF HeardStarted, HeardDone
<1>7. /\ \A a, b : OrderOn(w, a, b)' <=> OrderOn(w, a, b)
      /\ \A a : AckOn(w, a)' <=> AckOn(w, a)
  BY <1>1, OrderSame
<1>8. Progress(w)'
  <2>1. pc[PARENT_ID] # "exited" /\ pc'[c] \in ChildLabel
    BY <1>1 DEF Progress, ChildLabel
  <2>2. \A a \in Procs \ {c} : SameState(a) /\ outbox'[a] = outbox[a]
    BY <1>2, <1>3
  <2> QED
    BY <1>1, <1>2, <1>5, <2>1, <2>2, ChildProgress
<1>9. SameState(PARENT_ID) /\ (SaidStop' <=> SaidStop)
  BY <1>2 DEF SameState, SaidStop
<1>10. ParentMail(w, c)'
  <2>1. ParentMail(w, c) /\ Mail(PARENT_ID, c)' = Mail(PARENT_ID, c)
    BY <1>1, <1>3 DEF Pairs
  <2> QED
    BY <1>5, <1>7, <1>9, <2>1, ParentMailKept
<1>11. MailToParent(w, c)'
  <2>1. MailToParent(w, c) /\ Mail(c, PARENT_ID)' = Append(Mail(c, PARENT_ID), "BALANCE_HISTORY")
    BY <1>1, <1>3 DEF Pairs
  <2>2. /\ HeardStarted(PARENT_ID, c)' <=> HeardStarted(PARENT_ID, c)
        /\ HeardDone(PARENT_ID, c)' <=> HeardDone(PARENT_ID, c)
        /\ HeardHistory(c)' <=> HeardHistory(c)
    BY <1>9 DEF SameState, HeardStarted, HeardDone, HeardHistory
  <2>3. HeardStarted(PARENT_ID, c) /\ ~AckOn(w, c) /\ ~HeardHistory(c)
    BY <1>1, <1>5, <2>1, AfterStop DEF MailToParent
  <2>4. Mail(c, PARENT_ID) = IF HeardDone(PARENT_ID, c) THEN <<>> ELSE <<"DONE">>
    BY <1>5, <2>1, <2>3 DEF MailToParent
  <2>5. Mail(c, PARENT_ID)' = IF HeardDone(PARENT_ID, c) THEN <<"BALANCE_HISTORY">>
                              ELSE <<"DONE", "BALANCE_HISTORY">>
    BY ONLY <2>1, <2>4, WordFacts DEF BankType
  <2> QED
    BY <1>5, <1>7, <2>2, <2>3, <2>5 DEF MailToParent
<1>12. ASSUME NEW q \in Children \ {c} PROVE ChildMail(w, c, q)' /\ ChildMail(w, q, c)'
  <2>1. /\ ChildMail(w, c, q) /\ Mail(c, q)' = Mail(c, q)
        /\ ChildMail(w, q, c) /\ Mail(q, c)' = Mail(q, c) /\ SameState(q)
    BY <1>1, <1>2, <1>3 DEF Pairs
  <2>2. /\ HeardStarted(q, c)' <=> HeardStarted(q, c)
        /\ HeardDone(q, c)' <=> HeardDone(q, c)
        /\ SaidStarted(q)' <=> SaidStarted(q)
        /\ SaidDone(q)' <=> SaidDone(q)
    BY <2>1 DEF SameState, HeardStarted, HeardDone, SaidStarted, SaidDone
  <2> QED
    BY <1>5, <1>6, <1>7, <2>1, <2>2, ChildMailKept
<1>13. Pairs(w)'
  <2>1. \A a, b \in Procs \ {c} : Mail(a, b)' = Mail(a, b)
    BY <1>3
  <2>2. Mail(c, c)' = Mail(c, c)
    BY <1>1, <1>3
  <2> QED
    BY <1>1, <1>2, <1>7, <1>10, <1>11, <1>12, <2>1, <2>2, ChildPairs
<1>14. StateTypes'
  BY <1>1, <1>2, <1>3 DEF StateTypes
<1> QED
  BY <1>3, <1>8, <1>13, <1>14 DEF ProtocolInv

-----------------------------------------------------------------------------
(* The messages that the loop of a child takes *)

\* What a child can find in the pipe it polls: the order on its way to it, STOP, or the
\* DONE of another one.
LEMMA FoundInLoop ==
  ASSUME NEW w \in Where, ProtocolInv(w), NEW c \in Children, pc[c] = "loop",
         NEW f \in Procs, receive(c, f)
  PROVE  /\ f # c
         /\ \/ /\ Oldest(c, f).type = "TRANSFER" /\ Mail(f, c) = <<"TRANSFER">> /\ OrderOn(w, f, c)
               /\ Oldest(c, f).order = Orders[ordered]
            \/ /\ Oldest(c, f).type = "STOP" /\ Mail(f, c) = <<"STOP">> /\ f = PARENT_ID
               /\ SaidStop
            \/ /\ Oldest(c, f).type = "DONE" /\ Mail(f, c) = <<"DONE">> /\ f \in Children
               /\ ~OrderOn(w, f, c)
<1> USE ProcsFacts
<1>1. /\ StateTypes /\ Progress(w) /\ OrdersCurrent /\ Pairs(w) /\ MailTypes /\ c \in Procs
      /\ Mail(f, c) # <<>> /\ Oldest(c, f).type = Head(Mail(f, c))
  <2>1. MailTypes /\ c \in Procs
    BY DEF ProtocolInv, StateTypes
  <2> QED
    BY <2>1, LinkFirst DEF ProtocolInv
<1>2. f # c
  BY <1>1 DEF Pairs
<1>3. Oldest(c, f).type = "TRANSFER" => Oldest(c, f).order = Orders[ordered]
  BY <1>1, OrderRead
<1>4. CASE f = PARENT_ID
  <2>1. ParentMail(w, c)
    BY <1>1 DEF Pairs
  <2>2. \/ Mail(f, c) = <<"TRANSFER">> /\ OrderOn(w, f, c)
        \/ Mail(f, c) = <<"STOP">> /\ SaidStop
    BY <1>1, <1>4, <2>1 DEF ParentMail
  <2> QED
    BY <1>1, <1>2, <1>3, <1>4, <2>2, WordFacts DEF BankType
<1>5. CASE f # PARENT_ID
  <2>1. f \in Children \ {c}
    BY <1>2, <1>5, NAssumption DEF Procs, Children, PARENT_ID
  <2>2. ChildMail(w, f, c)
    BY <1>1, <2>1 DEF Pairs
  <2>3. HeardStarted(c, f)
    BY DEF HeardStarted
  <2>4. \/ Mail(f, c) = <<"TRANSFER">> /\ OrderOn(w, f, c)
        \/ Mail(f, c) = <<"DONE">> /\ ~OrderOn(w, f, c)
    BY <1>1, <2>2, <2>3 DEF ChildMail
  <2> QED
    BY <1>1, <1>2, <1>3, <2>1, <2>4, WordFacts DEF BankType
<1> QED
  BY <1>4, <1>5

\* Taking a message does not move a child on from the loop: it remains to look at the
\* pipes to and from it that change.
LEMMA ChildTakes ==
  ASSUME NEW w \in Where, NEW v \in Where, ProtocolInv(w), NEW c \in Children, pc[c] = "loop",
         v # "none" <=> w # "none",
         UNCHANGED <<pc, from, all_history, ordered>>, StateTypes', OrdersCurrent',
         \A a \in Procs \ {c} : outbox'[a] = outbox[a],
         \A a, b \in Procs \ {c} : /\ Mail(a, b)' = Mail(a, b)
                                   /\ OrderOn(v, a, b) <=> OrderOn(w, a, b),
         Mail(c, c)' = Mail(c, c),
         \A a \in Children \ {c} : AckOn(v, a) <=> AckOn(w, a),
         \/ ParentMail(v, c)'
         \/ /\ Mail(PARENT_ID, c)' = Mail(PARENT_ID, c)
            /\ OrderOn(v, PARENT_ID, c) <=> OrderOn(w, PARENT_ID, c),
         \/ MailToParent(v, c)'
         \/ Mail(c, PARENT_ID)' = Mail(c, PARENT_ID) /\ (AckOn(v, c) <=> AckOn(w, c)),
         \A q \in Children \ {c} :
           \/ ChildMail(v, c, q)'
           \/ Mail(c, q)' = Mail(c, q) /\ (OrderOn(v, c, q) <=> OrderOn(w, c, q)),
         \A q \in Children \ {c} :
           \/ ChildMail(v, q, c)'
           \/ Mail(q, c)' = Mail(q, c) /\ (OrderOn(v, q, c) <=> OrderOn(w, q, c))
  PROVE  ProtocolInv(v)'
<1> USE ProcsFacts
<1>1. StateTypes /\ Progress(w) /\ OrdersCurrent /\ Pairs(w)
  BY DEF ProtocolInv
<1>2. /\ \A a, b : OrderOn(v, a, b)' <=> OrderOn(v, a, b)
      /\ \A a : AckOn(v, a)' <=> AckOn(v, a)
  BY OrderSame
<1>3. /\ \A a : /\ SameState(a)
                /\ SaidStarted(a)' <=> SaidStarted(a)
                /\ SaidDone(a)' <=> SaidDone(a)
                /\ SentHistory(a)' <=> SentHistory(a)
                /\ HeardHistory(a)' <=> HeardHistory(a)
      /\ \A a, b : /\ HeardStarted(a, b)' <=> HeardStarted(a, b)
                   /\ HeardDone(a, b)' <=> HeardDone(a, b)
      /\ SaidStop' <=> SaidStop
  BY DEF SameState, SaidStarted, SaidDone, SentHistory, HeardHistory,
         HeardStarted, HeardDone, SaidStop
<1>4. Progress(v)'
  <2>1. /\ pc'[c] = "loop" /\ ~SaidDone(c)' /\ pc[PARENT_ID] # "exited"
        /\ from'[c] # c /\ from'[c] = NextFrom(c, PARENT_ID)
    BY <1>1 DEF Progress, Idle, SaidDone
  <2>2. \A a \in Procs \ {c} : SameState(a) /\ outbox'[a] = outbox[a]
    BY <1>3
  <2> QED
    BY <1>1, <2>1, <2>2, ChildProgress DEF ChildLabel
<1>5. ParentMail(v, c)' /\ MailToParent(v, c)'
  <2>1. ParentMail(w, c) /\ MailToParent(w, c)
    BY <1>1 DEF Pairs
  <2>2. ParentMail(v, c)'
    BY <1>2, <1>3, <2>1, ParentMailKept
  <2>3. MailToParent(v, c)'
    BY <1>2, <1>3, <2>1, MailToParentKept
  <2> QED
    BY <2>2, <2>3
<1>6. ASSUME NEW q \in Children \ {c} PROVE ChildMail(v, c, q)' /\ ChildMail(v, q, c)'
  <2>1. ChildMail(w, c, q) /\ ChildMail(w, q, c)
    BY <1>1 DEF Pairs
  <2>2. ChildMail(v, c, q)'
    BY <1>2, <1>3, <2>1, ChildMailKept
  <2>3. ChildMail(v, q, c)'
    BY <1>2, <1>3, <2>1, ChildMailKept
  <2> QED
    BY <2>2, <2>3
<1>7. Pairs(v)'
  BY <1>1, <1>2, <1>3, <1>5, <1>6, ChildPairs
<1> QED
  BY <1>4, <1>7 DEF ProtocolInv

\* The types of what a child keeps, when it reads from f and posts m to D in the loop.
LEMMA LoopReads ==
  ASSUME NEW w \in Where, ProtocolInv(w), NEW c \in Children, At(c, "loop"), PollMessage(c),
         NEW D, NEW m \in BankMessage, Post(c, D, m),
         m.type = "TRANSFER" => m.order = Orders[ordered],
         balance' \in [Children -> Int], history' \in [Children -> History],
         pc' \in [Procs -> Label]
  PROVE  /\ StateTypes' /\ OrdersCurrent'
         /\ polled[c] \in Procs \ {c} /\ receive(c, polled[c])
         /\ UNCHANGED <<from, all_history, ordered>>
         /\ \A a \in Procs \ {c} : outbox'[a] = outbox[a]
         /\ \A a, b \in Procs :
              Mail(a, b)' = IF a = polled[c] /\ b = c THEN Tail(Mail(a, b))
                            ELSE IF a = c /\ b \in D THEN Append(Mail(a, b), m.type)
                            ELSE Mail(a, b)
<1> USE ProcsFacts
<1>1. /\ StateTypes /\ MailTypes /\ OrdersCurrent /\ c \in Procs
      /\ pc[c] = "loop" /\ ~Sending(c) /\ receive(c, polled[c]) /\ polled[c] \in Procs
      /\ UNCHANGED <<from, all_history, ordered>>
      /\ polled' \in [Children -> Procs]
  BY DEF ProtocolInv, At, PollMessage, StateTypes
<1>2. polled[c] # c
  BY <1>1, FoundInLoop
<1>3. /\ MailTypes' /\ OrdersCurrent'
      /\ \A a \in Procs \ {c} : outbox'[a] = outbox[a]
      /\ \A a, b \in Procs :
           Mail(a, b)' = IF a = polled[c] /\ b = c THEN Tail(Mail(a, b))
                         ELSE IF a = c /\ b \in D THEN Append(Mail(a, b), m.type)
                         ELSE Mail(a, b)
  BY <1>1, <1>2, MailHandler
<1>4. StateTypes'
  BY <1>1, <1>3 DEF StateTypes
<1> QED
  BY <1>1, <1>2, <1>3, <1>4

\* The order reaches its source, which sends it on.
LEMMA TakesOrder ==
  ASSUME NEW w \in Where, ProtocolInv(w), NEW c \in Children, At(c, "loop"), PollMessage(c),
         IsSource(c, Polled(c)),
         NEW m \in BankMessage, m.type = "TRANSFER", m.order = Polled(c).order,
         send(c, Polled(c).order.dst, m), pc' = pc,
         balance' \in [Children -> Int], history' \in [Children -> History]
  PROVE  w = "out" /\ c = Src /\ Polled(c).order = Orders[ordered] /\ ProtocolInv("over")'
<1> USE ProcsFacts
<1> DEFINE f == polled[c]
<1>1. /\ StateTypes /\ Progress(w) /\ Pairs(w) /\ pc[c] = "loop" /\ c \in Procs
      /\ f \in Procs /\ receive(c, f) /\ Polled(c) = Oldest(c, f)
      /\ Polled(c).type = "TRANSFER" /\ Polled(c).order.src = c
  BY DEF ProtocolInv, At, PollMessage, StateTypes, Polled, IsSource
<1>2. Mail(f, c) = <<"TRANSFER">> /\ OrderOn(w, f, c) /\ Polled(c).order = Orders[ordered] /\ f # c
  BY <1>1, FoundInLoop
<1>3. w # "none"
  BY <1>2 DEF OrderOn
<1>4. /\ c = Src /\ Dst \in Children /\ Src # Dst /\ ~SaidStop /\ ~SaidDone(c)
      /\ Polled(c).order.dst = Dst
  BY <1>1, <1>2, <1>3, CurrentOrder DEF Src, Dst
<1>5. w = "out" /\ f = PARENT_ID
  BY <1>2, <1>4 DEF OrderOn
<1>6. /\ StateTypes' /\ OrdersCurrent'
      /\ UNCHANGED <<from, all_history, ordered>>
      /\ \A a \in Procs \ {c} : outbox'[a] = outbox[a]
      /\ \A a, b \in Procs :
           Mail(a, b)' = IF a = f /\ b = c THEN Tail(Mail(a, b))
                         ELSE IF a = c /\ b = Dst THEN Append(Mail(a, b), "TRANSFER")
                         ELSE Mail(a, b)
  <2> DEFINE D == {Polled(c).order.dst}
  <2>1. Post(c, D, m) /\ \A b : b \in D <=> b = Dst
    BY <1>4 DEF send
  <2>2. pc' \in [Procs -> Label]
    BY <1>1 DEF StateTypes
  <2>3. m.type = "TRANSFER" => m.order = Orders[ordered]
    BY <1>2
  <2> HIDE DEF D
  <2>4. /\ StateTypes' /\ OrdersCurrent'
        /\ UNCHANGED <<from, all_history, ordered>>
        /\ \A a \in Procs \ {c} : outbox'[a] = outbox[a]
        /\ \A a, b \in Procs :
             Mail(a, b)' = IF a = polled[c] /\ b = c THEN Tail(Mail(a, b))
                           ELSE IF a = c /\ b \in D THEN Append(Mail(a, b), m.type)
                           ELSE Mail(a, b)
    BY <2>1, <2>2, <2>3, LoopReads
  <2> QED
    BY <2>1, <2>4
<1>7. /\ Mail(PARENT_ID, c)' = <<>>
      /\ \A a, b \in Procs \ {c} : Mail(a, b)' = Mail(a, b)
      /\ Mail(c, c)' = Mail(c, c)
      /\ Mail(c, PARENT_ID)' = Mail(c, PARENT_ID)
      /\ \A q \in Children \ {c} : /\ Mail(q, c)' = Mail(q, c)
                                   /\ q # Dst => Mail(c, q)' = Mail(c, q)
      /\ Mail(c, Dst)' = Append(Mail(c, Dst), "TRANSFER")
  <2>1. Mail(PARENT_ID, c)' = Tail(Mail(PARENT_ID, c)) /\ Mail(PARENT_ID, c) = <<"TRANSFER">>
    BY <1>1, <1>2, <1>5, <1>6
  <2>2. Mail(PARENT_ID, c)' = <<>>
    BY ONLY <2>1, WordFacts DEF BankType
  <2>3. PARENT_ID # Dst /\ c # Dst /\ Dst \in Procs /\ \A q \in Children : q \in Procs /\ q # f
    BY <1>4, <1>5
  <2>4. \A a, b \in Procs :
           Mail(a, b)' = IF a = PARENT_ID /\ b = c THEN Tail(Mail(a, b))
                         ELSE IF a = c /\ b = Dst THEN Append(Mail(a, b), "TRANSFER")
                         ELSE Mail(a, b)
    BY <1>5, <1>6
  <2>5. c \in Procs /\ c # PARENT_ID /\ PARENT_ID \in Procs
    OBVIOUS
  <2>6. \A q \in Children \ {c} : /\ Mail(q, c)' = Mail(q, c)
                                  /\ q # Dst => Mail(c, q)' = Mail(c, q)
    BY ONLY <2>3, <2>4, <2>5, ProcsFacts
  <2>7. \A a, b \in Procs \ {c} : Mail(a, b)' = Mail(a, b)
    BY ONLY <2>4
  <2>8. Mail(c, c)' = Mail(c, c) /\ Mail(c, PARENT_ID)' = Mail(c, PARENT_ID)
    BY ONLY <2>3, <2>4, <2>5
  <2>9. Dst' = Dst
    BY <1>6, OrderSame
  <2>10. Mail(c, Dst)' = Append(Mail(c, Dst), "TRANSFER")
    BY ONLY <2>3, <2>4, <2>5, <2>9
  <2> QED
    BY ONLY <2>2, <2>6, <2>7, <2>8, <2>10
<1>8. /\ \A a, b \in Procs \ {c} : OrderOn("over", a, b) <=> OrderOn(w, a, b)
      /\ \A a : AckOn("over", a) <=> AckOn(w, a)
      /\ \A q \in Children \ {c} : /\ OrderOn("over", q, c) <=> OrderOn(w, q, c)
                                   /\ q # Dst => (OrderOn("over", c, q) <=> OrderOn(w, c, q))
      /\ OrderOn("over", c, Dst) /\ ~OrderOn(w, c, Dst) /\ ~OrderOn("over", PARENT_ID, c)
  BY <1>4, <1>5 DEF OrderOn, AckOn
<1>9. ParentMail("over", c)'
  <2>1. ~SaidStop' /\ ~OrderOn("over", PARENT_ID, c)'
    BY <1>4, <1>6, <1>8, OrderSame DEF SaidStop
  <2> QED
    BY <1>7, <2>1 DEF ParentMail
<1>10. ChildMail("over", c, Dst)'
  <2>1. ChildMail(w, c, Dst)
    BY <1>1, <1>4 DEF Pairs
  <2>2. SaidStarted(c) /\ SaidStarted(c)' /\ ~SaidDone(c)' /\ OrderOn("over", c, Dst)'
    BY <1>1, <1>4, <1>6, <1>8, OrderSame DEF SaidStarted, SaidDone
  <2>3. Mail(c, Dst)' = IF HeardStarted(Dst, c) THEN <<"TRANSFER">> ELSE <<"STARTED", "TRANSFER">>
    <3>1. Mail(c, Dst) = IF HeardStarted(Dst, c) THEN <<>> ELSE <<"STARTED">>
      BY <1>4, <1>8, <2>1, <2>2 DEF ChildMail
    <3> QED
      BY ONLY <1>7, <3>1, WordFacts DEF BankType
  <2>4. /\ HeardStarted(Dst, c)' <=> HeardStarted(Dst, c)
        /\ ~HeardDone(Dst, c)'
    <3>1. Dst' = Dst
      BY <1>6, OrderSame
    <3>2. ~HeardDone(Dst, c)
      BY <1>4, <2>1 DEF ChildMail
    <3> QED
      BY <1>6, <3>1, <3>2 DEF HeardStarted, HeardDone
  <2>5. Dst' = Dst
    BY <1>6, OrderSame
  <2> QED
    BY <2>2, <2>3, <2>4, <2>5 DEF ChildMail
<1>11. ProtocolInv("over")'
  <2> DEFINE v == "over"
  <2>1. v \in Where /\ (v # "none" <=> w # "none")
    BY <1>3 DEF Where
  <2>2. Dst' = Dst
    BY <1>6, OrderSame
  <2>3. \A q \in Children \ {c} :
           \/ ChildMail(v, c, q)'
           \/ Mail(c, q)' = Mail(c, q) /\ (OrderOn(v, c, q) <=> OrderOn(w, c, q))
    BY <1>7, <1>8, <1>10, <2>2
  <2>4. \A a, b \in Procs \ {c} : /\ Mail(a, b)' = Mail(a, b)
                                  /\ OrderOn(v, a, b) <=> OrderOn(w, a, b)
    BY <1>7, <1>8
  <2>5. ParentMail(v, c)'
    BY <1>9
  <2>6. \A q \in Children \ {c} : Mail(q, c)' = Mail(q, c) /\ (OrderOn(v, q, c) <=> OrderOn(w, q, c))
    BY <1>7, <1>8
  <2>7. Mail(c, PARENT_ID)' = Mail(c, PARENT_ID) /\ \A a : AckOn(v, a) <=> AckOn(w, a)
    BY <1>7, <1>8
  <2> HIDE DEF v, f
  <2>8. ProtocolInv(v)'
    BY <1>1, <1>6, <1>7, <2>1, <2>3, <2>4, <2>5, <2>6, <2>7, ChildTakes
  <2> QED
    BY <2>8 DEF v
<1> QED
  BY <1>2, <1>4, <1>5, <1>11

\* The money reaches its destination, which sends the ACK.
LEMMA TakesMoney ==
  ASSUME NEW w \in Where, ProtocolInv(w), NEW c \in Children, At(c, "loop"), PollMessage(c),
         IsDestination(c, Polled(c)),
         NEW m \in BankMessage, m.type = "ACK", send(c, PARENT_ID, m), pc' = pc,
         balance' \in [Children -> Int], history' \in [Children -> History]
  PROVE  w = "over" /\ c = Dst /\ Polled(c).order = Orders[ordered] /\ ProtocolInv("back")'
<1> USE ProcsFacts
<1> DEFINE f == polled[c]
<1>1. /\ StateTypes /\ Progress(w) /\ Pairs(w) /\ pc[c] = "loop" /\ c \in Procs
      /\ f \in Procs /\ receive(c, f) /\ Polled(c) = Oldest(c, f)
      /\ Polled(c).type = "TRANSFER" /\ Polled(c).order.src # c /\ Polled(c).order.dst = c
  BY DEF ProtocolInv, At, PollMessage, StateTypes, Polled, IsDestination
<1>2. Mail(f, c) = <<"TRANSFER">> /\ OrderOn(w, f, c) /\ Polled(c).order = Orders[ordered] /\ f # c
  BY <1>1, FoundInLoop
<1>3. w # "none"
  BY <1>2 DEF OrderOn
<1>4. /\ c = Dst /\ Src \in Children \ {c} /\ ~SaidStop /\ ~SaidDone(c) /\ ~SentHistory(c)
      /\ HeardStarted(PARENT_ID, c)
  BY <1>1, <1>2, <1>3, CurrentOrder DEF Src, Dst
<1>5. w = "over" /\ f = Src
  BY <1>1, <1>2, <1>4 DEF OrderOn, Src
<1>6. /\ StateTypes' /\ OrdersCurrent'
      /\ UNCHANGED <<from, all_history, ordered>>
      /\ \A a \in Procs \ {c} : outbox'[a] = outbox[a]
      /\ \A a, b \in Procs :
           Mail(a, b)' = IF a = f /\ b = c THEN Tail(Mail(a, b))
                         ELSE IF a = c /\ b = PARENT_ID THEN Append(Mail(a, b), "ACK")
                         ELSE Mail(a, b)
  <2> DEFINE D == {PARENT_ID}
  <2>1. Post(c, D, m) /\ \A b : b \in D <=> b = PARENT_ID
    BY DEF send
  <2>2. pc' \in [Procs -> Label]
    BY <1>1 DEF StateTypes
  <2> HIDE DEF D
  <2>3. /\ StateTypes' /\ OrdersCurrent'
        /\ UNCHANGED <<from, all_history, ordered>>
        /\ \A a \in Procs \ {c} : outbox'[a] = outbox[a]
        /\ \A a, b \in Procs :
             Mail(a, b)' = IF a = polled[c] /\ b = c THEN Tail(Mail(a, b))
                           ELSE IF a = c /\ b \in D THEN Append(Mail(a, b), m.type)
                           ELSE Mail(a, b)
    BY <2>1, <2>2, LoopReads
  <2> QED
    BY <2>1, <2>3
<1>7. /\ \A a, b \in Procs \ {c} : Mail(a, b)' = Mail(a, b)
      /\ Mail(c, c)' = Mail(c, c)
      /\ Mail(PARENT_ID, c)' = Mail(PARENT_ID, c)
      /\ Mail(c, PARENT_ID)' = Append(Mail(c, PARENT_ID), "ACK")
      /\ \A q \in Children \ {c} : /\ Mail(c, q)' = Mail(c, q)
                                   /\ q # Src => Mail(q, c)' = Mail(q, c)
                                   /\ q = Src => Mail(q, c)' = <<>>
  <2> DEFINE s == Src
  <2>1. \A a, b \in Procs :
           Mail(a, b)' = IF a = s /\ b = c THEN Tail(Mail(a, b))
                         ELSE IF a = c /\ b = PARENT_ID THEN Append(Mail(a, b), "ACK")
                         ELSE Mail(a, b)
    BY <1>5, <1>6
  <2>2. s \in Children \ {c} /\ Mail(s, c) = <<"TRANSFER">>
    BY <1>2, <1>4, <1>5
  <2>3. Tail(Mail(s, c)) = <<>>
    BY ONLY <2>2, WordFacts DEF BankType
  <2> HIDE DEF s
  <2>4. /\ \A a, b \in Procs \ {c} : Mail(a, b)' = Mail(a, b)
        /\ Mail(c, c)' = Mail(c, c)
        /\ Mail(PARENT_ID, c)' = Mail(PARENT_ID, c)
        /\ Mail(c, PARENT_ID)' = Append(Mail(c, PARENT_ID), "ACK")
    BY ONLY <2>1, <2>2, ProcsFacts, c \in Children
  <2>5. ASSUME NEW q \in Children \ {c}
        PROVE  /\ Mail(c, q)' = Mail(c, q)
               /\ q # s => Mail(q, c)' = Mail(q, c)
               /\ q = s => Mail(q, c)' = <<>>
    BY <2>1, <2>2, <2>3
  <2> QED
    BY <2>4, <2>5 DEF s
<1>8. /\ \A a, b \in Procs \ {c} : OrderOn("back", a, b) <=> OrderOn(w, a, b)
      /\ \A a \in Children \ {c} : AckOn("back", a) <=> AckOn(w, a)
      /\ \A q \in Children \ {c} : /\ OrderOn("back", c, q) <=> OrderOn(w, c, q)
                                   /\ q # Src => (OrderOn("back", q, c) <=> OrderOn(w, q, c))
      /\ OrderOn("back", PARENT_ID, c) <=> OrderOn(w, PARENT_ID, c)
      /\ AckOn("back", c) /\ ~AckOn(w, c)
      /\ \A a, b : ~OrderOn("back", a, b)
  BY <1>4, <1>5 DEF OrderOn, AckOn
<1>9. MailToParent("back", c)'
  <2>1. MailToParent(w, c)
    BY <1>1 DEF Pairs
  <2>2. Mail(c, PARENT_ID) = <<>> /\ SaidStarted(c)
    BY <1>4, <1>8, <2>1 DEF MailToParent
  <2>3. Mail(c, PARENT_ID)' = <<"ACK">>
    BY ONLY <1>7, <2>2, WordFacts DEF BankType
  <2>4. AckOn("back", c)'
    BY <1>6, <1>8, OrderSame
  <2>5. /\ SaidStarted(c)' /\ HeardStarted(PARENT_ID, c)'
        /\ HeardDone(PARENT_ID, c)' <=> HeardDone(PARENT_ID, c)
        /\ HeardHistory(c)' <=> HeardHistory(c)
        /\ SaidDone(c)' <=> SaidDone(c)
        /\ SentHistory(c)' <=> SentHistory(c)
    BY <1>4, <1>6, <2>2 DEF SaidStarted, HeardStarted, HeardDone, HeardHistory, SaidDone, SentHistory
  <2> QED
    BY <2>1, <2>3, <2>4, <2>5 DEF MailToParent
<1>10. ASSUME NEW q \in Children \ {c}, q = Src
       PROVE  ChildMail("back", q, c)'
  <2>1. ChildMail(w, q, c) /\ Mail(q, c)' = <<>>
    BY <1>1, <1>7, <1>10 DEF Pairs
  <2>2. /\ HeardStarted(c, q) /\ HeardStarted(c, q)'
        /\ HeardDone(c, q)' <=> HeardDone(c, q)
        /\ SaidStarted(q)' <=> SaidStarted(q)
        /\ SaidDone(q)' <=> SaidDone(q)
    BY <1>1, <1>6 DEF HeardStarted, HeardDone, SaidStarted, SaidDone
  <2>3. ~OrderOn("back", q, c)'
    BY <1>6, <1>8, OrderSame
  <2> QED
    BY <2>1, <2>2, <2>3 DEF ChildMail
<1>11. ProtocolInv("back")'
  <2> DEFINE v == "back"
  <2>1. v \in Where /\ (v # "none" <=> w # "none")
    BY <1>3 DEF Where
  <2>2. \A q \in Children \ {c} :
           \/ ChildMail(v, q, c)'
           \/ Mail(q, c)' = Mail(q, c) /\ (OrderOn(v, q, c) <=> OrderOn(w, q, c))
    BY <1>7, <1>8, <1>10
  <2>3. \A a, b \in Procs \ {c} : /\ Mail(a, b)' = Mail(a, b)
                                  /\ OrderOn(v, a, b) <=> OrderOn(w, a, b)
    BY <1>7, <1>8
  <2>4. MailToParent(v, c)'
    BY <1>9
  <2>5. \A q \in Children \ {c} : Mail(c, q)' = Mail(c, q) /\ (OrderOn(v, c, q) <=> OrderOn(w, c, q))
    BY <1>7, <1>8
  <2>6. /\ Mail(PARENT_ID, c)' = Mail(PARENT_ID, c)
        /\ OrderOn(v, PARENT_ID, c) <=> OrderOn(w, PARENT_ID, c)
        /\ \A a \in Children \ {c} : AckOn(v, a) <=> AckOn(w, a)
    BY <1>7, <1>8
  <2> HIDE DEF v, f
  <2>7. ProtocolInv(v)'
    BY <1>1, <1>6, <1>7, <2>1, <2>2, <2>3, <2>4, <2>5, <2>6, ChildTakes
  <2> QED
    BY <2>7 DEF v
<1> QED
  BY <1>2, <1>4, <1>5, <1>11

\* A message of no interest is the DONE of another child.
LEMMA DropsDone ==
  ASSUME NEW w \in Where, ProtocolInv(w), NEW c \in Children, At(c, "loop"), PollMessage(c),
         IsIgnored(c, Polled(c)), UNCHANGED <<outbox, pc>>,
         balance' \in [Children -> Int], history' \in [Children -> History]
  PROVE  Polled(c).type = "DONE" /\ ProtocolInv(w)'
<1> USE ProcsFacts
<1> DEFINE f == polled[c]
<1>1. /\ StateTypes /\ Progress(w) /\ Pairs(w) /\ pc[c] = "loop" /\ c \in Procs
      /\ f \in Procs /\ receive(c, f) /\ Polled(c) = Oldest(c, f)
      /\ OrdersCurrent /\ MailTypes /\ UNCHANGED <<from, all_history, ordered>>
      /\ polled' \in [Children -> Procs]
  BY DEF ProtocolInv, At, PollMessage, StateTypes, Polled
<1>2. /\ f # c
      /\ \/ /\ Oldest(c, f).type = "TRANSFER" /\ OrderOn(w, f, c)
            /\ Oldest(c, f).order = Orders[ordered]
         \/ Oldest(c, f).type = "STOP"
         \/ /\ Oldest(c, f).type = "DONE" /\ Mail(f, c) = <<"DONE">> /\ f \in Children
            /\ ~OrderOn(w, f, c)
  BY <1>1, FoundInLoop
<1>3. Polled(c).type = "DONE" /\ Mail(f, c) = <<"DONE">> /\ f \in Children /\ ~OrderOn(w, f, c)
  <2>1. ASSUME Polled(c).type = "TRANSFER", OrderOn(w, f, c), Polled(c).order = Orders[ordered]
        PROVE  IsSource(c, Polled(c)) \/ IsDestination(c, Polled(c))
    <3>1. Src # Dst
      BY <1>1, <2>1, CurrentOrder DEF OrderOn
    <3> QED
      BY <2>1, <3>1 DEF OrderOn, Src, Dst, IsSource, IsDestination
  <2> QED
    BY <1>1, <1>2, <2>1 DEF IsIgnored
<1>4. /\ MailTypes' /\ OrdersCurrent'
      /\ \A a, b \in Procs : Mail(a, b)' = IF a = f /\ b = c THEN Tail(Mail(a, b)) ELSE Mail(a, b)
  <2> HIDE DEF f
  <2> QED
    BY <1>1, MailReads
<1>5. StateTypes'
  BY <1>1, <1>4 DEF StateTypes
<1>6. /\ \A a, b \in Procs \ {c} : Mail(a, b)' = Mail(a, b)
      /\ Mail(c, c)' = Mail(c, c)
      /\ Mail(PARENT_ID, c)' = Mail(PARENT_ID, c)
      /\ Mail(c, PARENT_ID)' = Mail(c, PARENT_ID)
      /\ \A q \in Children \ {c} : /\ Mail(c, q)' = Mail(c, q)
                                   /\ q # f => Mail(q, c)' = Mail(q, c)
                                   /\ q = f => Mail(q, c)' = <<>>
  <2>1. Tail(Mail(f, c)) = <<>>
    BY <1>3, WordFacts DEF BankType
  <2> HIDE DEF f
  <2> QED
    BY <1>2, <1>3, <1>4, <2>1
<1>7. ASSUME NEW q \in Children \ {c}, q = f
      PROVE  ChildMail(w, q, c)'
  <2>1. ChildMail(w, q, c) /\ Mail(q, c)' = <<>> /\ ~OrderOn(w, q, c)
    BY <1>1, <1>3, <1>6, <1>7 DEF Pairs
  <2>2. /\ HeardStarted(c, q) /\ HeardStarted(c, q)'
        /\ HeardDone(c, q)' <=> HeardDone(c, q)
        /\ SaidStarted(q)' <=> SaidStarted(q)
        /\ SaidDone(q)' <=> SaidDone(q)
    BY <1>1 DEF HeardStarted, HeardDone, SaidStarted, SaidDone
  <2>3. ~OrderOn(w, q, c)'
    BY <1>1, <2>1, OrderSame
  <2> QED
    BY <2>1, <2>2, <2>3 DEF ChildMail
<1>8. \A q \in Children \ {c} : ChildMail(w, q, c)' \/ Mail(q, c)' = Mail(q, c)
  BY <1>6, <1>7
<1>9. ProtocolInv(w)'
  <2> HIDE DEF f
  <2> QED
    BY <1>1, <1>4, <1>5, <1>6, <1>8, ChildTakes
<1> QED
  BY <1>3, <1>9

\* STOP reaches a child, which says DONE.
LEMMA TakesStop ==
  ASSUME NEW w \in Where, ProtocolInv(w), NEW c \in Children, At(c, "loop"), PollMessage(c),
         Polled(c).type = "STOP",
         NEW m \in BankMessage, m.type = "DONE", send_multicast(c, m), Goto(c, "await_done"),
         balance' \in [Children -> Int], history' \in [Children -> History]
  PROVE  ProtocolInv(w)'
<1> USE ProcsFacts
<1> DEFINE f == polled[c]
<1>1. /\ StateTypes /\ Progress(w) /\ Pairs(w) /\ pc[c] = "loop" /\ c \in Procs
      /\ f \in Procs /\ receive(c, f) /\ Polled(c) = Oldest(c, f)
      /\ pc' \in [Procs -> Label] /\ pc'[c] = "await_done"
  BY DEF ProtocolInv, At, PollMessage, StateTypes, Polled, Goto, Label
<1>2. f = PARENT_ID /\ Mail(f, c) = <<"STOP">> /\ SaidStop
  BY <1>1, FoundInLoop
<1>3. /\ StateTypes' /\ OrdersCurrent'
      /\ UNCHANGED <<from, all_history, ordered>>
      /\ \A a \in Procs \ {c} : outbox'[a] = outbox[a]
      /\ \A a, b \in Procs :
           Mail(a, b)' = IF a = PARENT_ID /\ b = c THEN Tail(Mail(a, b))
                         ELSE IF a = c /\ b # c THEN Append(Mail(a, b), "DONE")
                         ELSE Mail(a, b)
  <2> DEFINE D == Procs \ {c}
  <2>1. Post(c, D, m) /\ \A b \in Procs : b \in D <=> b # c
    BY DEF send_multicast
  <2> HIDE DEF D
  <2>2. /\ StateTypes' /\ OrdersCurrent'
        /\ UNCHANGED <<from, all_history, ordered>>
        /\ \A a \in Procs \ {c} : outbox'[a] = outbox[a]
        /\ \A a, b \in Procs :
             Mail(a, b)' = IF a = polled[c] /\ b = c THEN Tail(Mail(a, b))
                           ELSE IF a = c /\ b \in D THEN Append(Mail(a, b), m.type)
                           ELSE Mail(a, b)
    BY <1>1, <2>1, LoopReads
  <2> QED
    BY <1>2, <2>1, <2>2
<1>4. /\ \A a, b \in Procs \ {c} : Mail(a, b)' = Mail(a, b)
      /\ Mail(c, c)' = Mail(c, c)
      /\ Mail(PARENT_ID, c)' = <<>>
      /\ Mail(c, PARENT_ID)' = Append(Mail(c, PARENT_ID), "DONE")
      /\ \A q \in Children \ {c} : /\ Mail(c, q)' = Append(Mail(c, q), "DONE")
                                   /\ Mail(q, c)' = Mail(q, c)
  <2>1. Tail(Mail(PARENT_ID, c)) = <<>>
    BY <1>2, WordFacts DEF BankType
  <2>2. /\ \A a, b \in Procs : a # c /\ ~(a = PARENT_ID /\ b = c) => Mail(a, b)' = Mail(a, b)
        /\ \A b \in Procs : b # c => Mail(c, b)' = Append(Mail(c, b), "DONE")
        /\ Mail(c, c)' = Mail(c, c)
        /\ Mail(PARENT_ID, c)' = Tail(Mail(PARENT_ID, c))
    BY <1>1, <1>3
  <2> QED
    BY ONLY <2>1, <2>2, ProcsFacts, c \in Children
<1>5. /\ \A a \in Procs \ {c} : SameState(a)
      /\ from'[c] = from[c] /\ from[c] # c /\ from[c] = NextFrom(c, PARENT_ID)
  BY <1>1, <1>3 DEF Goto, StateTypes, SameState, Progress, Idle
<1>6. \A q \in Children \ {c} : ~(q < from'[c])
  BY <1>5, CursorStart
<1>7. /\ SaidStarted(c) /\ SaidStarted(c)' /\ ~SaidDone(c) /\ SaidDone(c)'
      /\ ~SentHistory(c) /\ ~SentHistory(c)'
      /\ \A q \in Children \ {c} : /\ HeardStarted(c, q) /\ HeardStarted(c, q)'
                                   /\ ~HeardDone(c, q) /\ ~HeardDone(c, q)'
  BY <1>1, <1>6 DEF SaidStarted, SaidDone, SentHistory, HeardStarted, HeardDone
<1>8. /\ \A a, b : OrderOn(w, a, b)' <=> OrderOn(w, a, b)
      /\ \A a : AckOn(w, a)' <=> AckOn(w, a)
      /\ \A a, b : ~OrderOn(w, a, b) /\ ~AckOn(w, b)
      /\ HeardStarted(PARENT_ID, c)
  BY <1>1, <1>2, <1>3, OrderSame, AfterStop
<1>9. SameState(PARENT_ID) /\ (SaidStop' <=> SaidStop)
  BY <1>5 DEF SameState, SaidStop
<1>10. Progress(w)'
  <2>1. pc[PARENT_ID] # "exited" /\ ~Idle(c)' /\ pc'[c] \in ChildLabel
    BY <1>1 DEF Progress, Idle, ChildLabel
  <2>2. \A a \in Procs \ {c} : SameState(a) /\ outbox'[a] = outbox[a]
    BY <1>3, <1>5
  <2> QED
    BY <1>1, <1>2, <1>3, <1>5, <2>1, <2>2, ChildProgress
<1>11. ParentMail(w, c)'
  BY <1>4, <1>7, <1>8 DEF ParentMail
<1>12. MailToParent(w, c)'
  <2>1. MailToParent(w, c)
    BY <1>1 DEF Pairs
  <2>2. /\ HeardStarted(PARENT_ID, c)' <=> HeardStarted(PARENT_ID, c)
        /\ HeardDone(PARENT_ID, c)' <=> HeardDone(PARENT_ID, c)
        /\ HeardHistory(c)' <=> HeardHistory(c)
    BY <1>9 DEF SameState, HeardStarted, HeardDone, HeardHistory
  <2>3. Mail(c, PARENT_ID) = <<>> /\ ~HeardDone(PARENT_ID, c) /\ ~HeardHistory(c)
    BY <1>7, <1>8, <2>1 DEF MailToParent
  <2>4. Mail(c, PARENT_ID)' = <<"DONE">>
    BY ONLY <1>4, <2>3, WordFacts DEF BankType
  <2> QED
    BY <1>7, <1>8, <2>2, <2>3, <2>4 DEF MailToParent
<1>13. ASSUME NEW q \in Children \ {c} PROVE ChildMail(w, c, q)' /\ ChildMail(w, q, c)'
  <2>1. /\ ChildMail(w, c, q) /\ Mail(c, q)' = Append(Mail(c, q), "DONE")
        /\ ChildMail(w, q, c) /\ Mail(q, c)' = Mail(q, c) /\ SameState(q)
    BY <1>1, <1>4, <1>5 DEF Pairs
  <2>2. /\ HeardStarted(q, c)' <=> HeardStarted(q, c)
        /\ HeardDone(q, c)' <=> HeardDone(q, c)
        /\ SaidStarted(q)' <=> SaidStarted(q)
        /\ SaidDone(q)' <=> SaidDone(q)
    BY <2>1 DEF SameState, HeardStarted, HeardDone, SaidStarted, SaidDone
  <2>3. Mail(c, q) = IF HeardStarted(q, c) THEN <<>> ELSE <<"STARTED">>
    BY <1>7, <1>8, <2>1 DEF ChildMail
  <2>4. Mail(c, q)' = IF HeardStarted(q, c) THEN <<"DONE">> ELSE <<"STARTED", "DONE">>
    BY ONLY <2>1, <2>3, WordFacts DEF BankType
  <2>5. ~HeardDone(q, c)
    BY <1>7, <2>1 DEF ChildMail
  <2>6. ChildMail(w, c, q)'
    BY <1>7, <1>8, <2>2, <2>4, <2>5 DEF ChildMail
  <2>7. ChildMail(w, q, c)'
    BY <1>7, <1>8, <2>1, <2>2, ChildMailKept
  <2> QED
    BY <2>6, <2>7
<1>14. Pairs(w)'
  BY <1>1, <1>4, <1>5, <1>8, <1>11, <1>12, <1>13, ChildPairs
<1> QED
  BY <1>3, <1>10, <1>14 DEF ProtocolInv

\* The pipe polled is empty.
LEMMA PollsNothing ==
  ASSUME NEW w \in Where, ProtocolInv(w), NEW c \in Children, PollEmpty(c)
  PROVE  ProtocolInv(w)'
<1>1. StateTypes /\ UNCHANGED <<pipes, outbox, pc, from, balance, history, all_history, ordered>>
  BY DEF ProtocolInv, PollEmpty
<1>2. polled' \in [Children -> Procs]
  <2>1. NextPolled(c, polled[c]) \in Procs
    <3>1. polled[c] \in 0..N /\ c \in 1..N
      BY <1>1 DEF StateTypes, Children, Procs, PARENT_ID
    <3>2. \A f \in 0..N : NextPolled(c, f) \in 0..N
      BY <3>1, NAssumption DEF NextPolled, PARENT_ID
    <3> QED
      BY <3>1, <3>2 DEF Procs, PARENT_ID
  <2> QED
    BY <1>1, <2>1 DEF PollEmpty, StateTypes
<1>3. StateTypes'
  BY <1>1, <1>2 DEF StateTypes, MailTypes
<1> QED
  BY <1>1, <1>3, NothingMoves

-----------------------------------------------------------------------------
(* A write() of anybody *)

\* What is still to be written is under way.
LEMMA StillToWrite ==
  ASSUME MailTypes, NEW a \in Procs, NEW b \in Procs, outbox[a][b] # NoMessage
  PROVE  Mail(a, b) # <<>>
<1>1. Link(a, b) \in Seq(BankMessage) /\ Link(a, b) # <<>>
  <2>1. pipes[b][a] \in Seq(BankMessage) /\ outbox[a][b] \in BankMessage
    BY DEF MailTypes
  <2>2. Append(pipes[b][a], outbox[a][b]) # <<>>
    <3>1. /\ Len(Append(pipes[b][a], outbox[a][b])) = Len(pipes[b][a]) + 1
          /\ Len(pipes[b][a]) \in Nat
      BY <2>1
    <3>2. Len(<<>>) = 0
      OBVIOUS
    <3> QED
      BY <3>1, <3>2
  <2>3. Link(a, b) = Append(pipes[b][a], outbox[a][b])
    BY DEF Link
  <2> QED
    BY <2>2, <2>3, LinkMessages
<1> QED
  BY <1>1, TypesOfTail DEF Mail

\* Nobody is gone while something is under way to it.
LEMMA NobodyGone ==
  ASSUME NEW w \in Where, ProtocolInv(w), NEW p \in Procs, NEW d \in Procs,
         outbox[p][d] # NoMessage
  PROVE  ~Gone(d)
<1> USE ProcsFacts
<1>1. StateTypes /\ Progress(w) /\ Pairs(w) /\ Sending(p) /\ Mail(p, d) # <<>>
  <2>1. MailTypes
    BY DEF ProtocolInv, StateTypes
  <2> QED
    BY <2>1, StillToWrite DEF ProtocolInv, Sending
<1>2. d # p
  BY <1>1 DEF Pairs
<1>3. CASE d = PARENT_ID
  <2>1. p \in Children
    BY <1>2, <1>3, NAssumption DEF Procs, Children, PARENT_ID
  <2> QED
    BY <1>1, <1>3, <2>1 DEF Progress, ParentLabel, Gone
<1>4. CASE d \in Children
  <2> SUFFICES ASSUME Gone(d) PROVE FALSE
    OBVIOUS
  <2>1. pc[d] = "exited" /\ SaidDone(d) /\ SaidStop
    BY <1>1, <1>4 DEF Progress, ChildLabel, Gone, SaidDone
  <2>2. \A a, b : ~OrderOn(w, a, b)
    BY <1>1, <2>1, AfterStop
  <2>3. CASE p = PARENT_ID
    BY <1>1, <1>4, <2>1, <2>2, <2>3 DEF Pairs, ParentMail
  <2>4. CASE p # PARENT_ID
    <3>1. p \in Children \ {d}
      BY <1>2, <2>4, NAssumption DEF Procs, Children, PARENT_ID
    <3>2. ChildMail(w, p, d)
      BY <1>1, <1>4, <3>1 DEF Pairs
    <3>3. HeardStarted(d, p) /\ HeardDone(d, p)
      BY <2>1 DEF HeardStarted, HeardDone
    <3> QED
      BY <1>1, <2>2, <3>2, <3>3 DEF ChildMail
  <2> QED
    BY <2>3, <2>4
<1> QED
  BY <1>3, <1>4, NAssumption DEF Procs, Children, PARENT_ID

\* A write() never meets a process that is gone.
LEMMA Writes ==
  ASSUME NEW w \in Where, ProtocolInv(w), NEW p \in Procs, Write(p)
  PROVE  ProtocolInv(w)' /\ UNCHANGED <<pc, balance, ordered>>
<1>1. PICK d \in Procs :
        /\ NextDst(p, d)
        /\ IF HungUp(d)
             THEN /\ outbox' = [outbox EXCEPT ![p] = [e \in Procs |-> NoMessage]]
                  /\ Goto(p, "killed")
                  /\ UNCHANGED pipes
             ELSE /\ pipes' = [pipes EXCEPT ![d][p] = Append(@, outbox[p][d])]
                  /\ outbox' = [outbox EXCEPT ![p][d] = NoMessage]
                  /\ UNCHANGED pc
  BY DEF Write
<1>2. StateTypes /\ MailTypes /\ Progress(w) /\ OrdersCurrent /\ Pairs(w) /\ outbox[p][d] # NoMessage
      /\ UNCHANGED <<from, polled, balance, history, all_history, ordered>>
  BY <1>1 DEF ProtocolInv, StateTypes, NextDst, Write
<1>3. ~HungUp(d)
  BY <1>2, NobodyGone DEF HungUp
<1>4. /\ pipes' = [pipes EXCEPT ![d][p] = Append(@, outbox[p][d])]
      /\ outbox' = [outbox EXCEPT ![p][d] = NoMessage]
      /\ UNCHANGED pc
  BY <1>1, <1>3
<1>5. MailTypes' /\ \A a, b \in Procs : Link(a, b)' = Link(a, b)
  BY <1>2, <1>4, LinkWrites
<1>6. \A a, b \in Procs : Mail(a, b)' = Mail(a, b)
  BY <1>5 DEF Mail
<1>7. \A a \in Procs : Sending(a)' => Sending(a)
  <2>1. \A a, b \in Procs : outbox'[a][b] = outbox[a][b] \/ outbox'[a][b] = NoMessage
    BY <1>2, <1>4 DEF MailTypes
  <2> QED
    BY <2>1 DEF Sending
<1>8. /\ \A a : /\ SameState(a)
                /\ SaidStarted(a)' <=> SaidStarted(a)
                /\ SaidDone(a)' <=> SaidDone(a)
                /\ SentHistory(a)' <=> SentHistory(a)
                /\ HeardHistory(a)' <=> HeardHistory(a)
                /\ Idle(a)' <=> Idle(a)
      /\ \A a, b : /\ HeardStarted(a, b)' <=> HeardStarted(a, b)
                   /\ HeardDone(a, b)' <=> HeardDone(a, b)
      /\ SaidStop' <=> SaidStop
  BY <1>2, <1>4 DEF SameState, SaidStarted, SaidDone, SentHistory, HeardHistory, Idle,
                    HeardStarted, HeardDone, SaidStop
<1>9. /\ \A a, b : OrderOn(w, a, b)' <=> OrderOn(w, a, b)
      /\ \A a : AckOn(w, a)' <=> AckOn(w, a)
  BY <1>2, OrderSame
<1>10. Progress(w)'
  BY <1>2, <1>7, <1>8 DEF Progress, SameState
<1>11. OrdersCurrent'
  BY <1>2, <1>5 DEF OrdersCurrent
<1>12. Pairs(w)'
  <2>1. \A c \in Children : ParentMail(w, c)' /\ MailToParent(w, c)'
    BY <1>2, <1>6, <1>8, <1>9, ProcsFacts, ParentMailKept, MailToParentKept DEF Pairs
  <2>2. \A q \in Children : \A c \in Children \ {q} : ChildMail(w, q, c)'
    BY <1>2, <1>6, <1>8, <1>9, ProcsFacts, ChildMailKept DEF Pairs
  <2>3. \A a \in Procs : Mail(a, a)' = <<>>
    BY <1>2, <1>6 DEF Pairs
  <2> QED
    BY <2>1, <2>2, <2>3 DEF Pairs
<1>13. StateTypes'
  BY <1>2, <1>4, <1>5 DEF StateTypes
<1> QED
  BY <1>2, <1>4, <1>10, <1>11, <1>12, <1>13 DEF ProtocolInv

-----------------------------------------------------------------------------
(* Where the orders are *)

\* An order is under way only where the protocol has it.
LEMMA NoOrders ==
  ASSUME NEW w \in Where, ProtocolInv(w), NEW a \in Procs, NEW b \in Procs,
         ~OrderOn(w, a, b), NEW k \in 1..Len(Link(a, b))
  PROVE  Link(a, b)[k].type # "TRANSFER"
<1> USE ProcsFacts
<1>1. StateTypes /\ MailTypes /\ Pairs(w)
  BY DEF ProtocolInv, StateTypes
<1>2. /\ Link(a, b) \in Seq(BankMessage) /\ Len(Mail(a, b)) = Len(Link(a, b))
      /\ Link(a, b)[k].type = Mail(a, b)[k]
  BY <1>1, LinkMessages, TypesOfType DEF Mail
<1>3. \/ Mail(a, b) = <<>>
      \/ \E x \in BankType \ {"TRANSFER"} : Mail(a, b) = <<x>>
      \/ \E x, y \in BankType \ {"TRANSFER"} : Mail(a, b) = <<x, y>>
  <2>1. {"STARTED", "ACK", "STOP", "DONE", "BALANCE_HISTORY"} = BankType \ {"TRANSFER"}
    BY DEF BankType
  <2>2. CASE a = b
    BY <1>1, <2>2 DEF Pairs
  <2>3. CASE a = PARENT_ID /\ b \in Children
    <3>1. ParentMail(w, b)
      BY <1>1, <2>3 DEF Pairs
    <3> QED
      BY <1>1, <2>1, <2>3, <3>1 DEF ParentMail
  <2>4. CASE a \in Children /\ b = PARENT_ID
    <3>1. MailToParent(w, a)
      BY <1>1, <2>4 DEF Pairs
    <3> QED
      BY <1>1, <2>1, <2>4, <3>1 DEF MailToParent
  <2>5. CASE a \in Children /\ b \in Children /\ a # b
    <3>1. ChildMail(w, a, b)
      BY <1>1, <2>5 DEF Pairs
    <3> QED
      BY <1>1, <2>1, <2>5, <3>1 DEF ChildMail
  <2> QED
    BY <2>2, <2>3, <2>4, <2>5, NAssumption DEF Procs, Children, PARENT_ID
<1>4. CASE Mail(a, b) = <<>>
  BY <1>2, <1>4
<1>5. ASSUME NEW x \in BankType \ {"TRANSFER"}, Mail(a, b) = <<x>>
      PROVE  Mail(a, b)[k] # "TRANSFER"
  <2>1. Len(<<x>>) = 1 /\ <<x>>[1] = x
    OBVIOUS
  <2>2. k \in 1..Len(Mail(a, b))
    BY <1>2
  <2>3. k = 1
    BY <1>5, <2>1, <2>2
  <2> QED
    BY <1>5, <2>1, <2>3
<1>6. ASSUME NEW x \in BankType \ {"TRANSFER"}, NEW y \in BankType \ {"TRANSFER"},
             Mail(a, b) = <<x, y>>
      PROVE  Mail(a, b)[k] # "TRANSFER"
  <2>1. Len(<<x, y>>) = 2 /\ <<x, y>>[1] = x /\ <<x, y>>[2] = y
    OBVIOUS
  <2>2. k \in 1..Len(Mail(a, b))
    BY <1>2
  <2>3. k \in {1, 2}
    BY <1>6, <2>1, <2>2
  <2> QED
    BY <1>6, <2>1, <2>3
<1> QED
  BY <1>2, <1>3, <1>4, <1>5, <1>6

\* And it is under way there.
LEMMA OrderUnderWayThere ==
  ASSUME NEW w \in Where, ProtocolInv(w), NEW a \in Procs, NEW b \in Procs
  PROVE  Carries(a, b, "TRANSFER") <=> OrderOn(w, a, b)
<1> USE ProcsFacts
<1>1. StateTypes /\ MailTypes /\ Progress(w) /\ Pairs(w)
  BY DEF ProtocolInv, StateTypes
<1>2. ~OrderOn(w, a, b) => ~Carries(a, b, "TRANSFER")
  BY NoOrders DEF Carries, Contains
<1>3. ASSUME OrderOn(w, a, b) PROVE Carries(a, b, "TRANSFER")
  <2>1. Src \in Children /\ Dst \in Children /\ Src # Dst
    BY <1>1, <1>3, CurrentOrder DEF OrderOn
  <2>2. Mail(a, b) \in {<<"TRANSFER">>, <<"STARTED", "TRANSFER">>}
    <3>1. CASE a = PARENT_ID /\ b = Src
      <4>1. ParentMail(w, b)
        BY <1>1, <2>1, <3>1 DEF Pairs
      <4> QED
        BY <1>3, <3>1, <4>1 DEF ParentMail
    <3>2. CASE a = Src /\ b = Dst
      <4>1. ChildMail(w, a, b)
        BY <1>1, <2>1, <3>2 DEF Pairs
      <4> QED
        BY <1>3, <4>1 DEF ChildMail
    <3> QED
      BY <1>3, <3>1, <3>2 DEF OrderOn
  <2>3. /\ Len(Mail(a, b)) = Len(Link(a, b))
        /\ \A k \in 1..Len(Link(a, b)) : Link(a, b)[k].type = Mail(a, b)[k]
    BY <1>1, LinkMessages, TypesOfType DEF Mail
  <2>4. \E k \in 1..Len(Mail(a, b)) : Mail(a, b)[k] = "TRANSFER"
    <3>1. CASE Mail(a, b) = <<"TRANSFER">>
      <4>1. Len(<<"TRANSFER">>) = 1 /\ <<"TRANSFER">>[1] = "TRANSFER" /\ 1 \in 1..1
        OBVIOUS
      <4> QED
        BY <3>1, <4>1
    <3>2. CASE Mail(a, b) = <<"STARTED", "TRANSFER">>
      <4>1. Len(<<"STARTED", "TRANSFER">>) = 2 /\ <<"STARTED", "TRANSFER">>[2] = "TRANSFER"
            /\ 2 \in 1..2
        OBVIOUS
      <4> QED
        BY <3>2, <4>1
    <3> QED
      BY <2>2, <3>1, <3>2
  <2> QED
    BY <2>3, <2>4 DEF Carries, Contains
<1> QED
  BY <1>2, <1>3

-----------------------------------------------------------------------------
(* The steps of the parent *)

\* The parent goes on without reading or sending anything.
LEMMA ParentMoves ==
  ASSUME NEW w \in Where, ProtocolInv(w),
         UNCHANGED <<pipes, outbox, polled, balance, history, all_history, ordered>>,
         pc' \in [Procs -> Label], from' \in [Procs -> 1..(N + 1)],
         \A c \in Children : SameState(c),
         SaidStop' <=> SaidStop,
         \A c \in Children : /\ HeardStarted(PARENT_ID, c)' <=> HeardStarted(PARENT_ID, c)
                             /\ HeardDone(PARENT_ID, c)' <=> HeardDone(PARENT_ID, c)
                             /\ HeardHistory(c)' <=> HeardHistory(c),
         pc[PARENT_ID] # "await_ack", pc'[PARENT_ID] \in ParentLabel \ {"await_ack"},
         pc'[PARENT_ID] = "exited" => ~Sending(PARENT_ID) /\ \A c \in Children : pc[c] = "exited",
         from'[PARENT_ID] = NextFrom(PARENT_ID, PARENT_ID),
         Len(all_history) = IF pc'[PARENT_ID] \in {"wait", "exited"} THEN N ELSE 0
  PROVE  ProtocolInv(w)'
<1> USE ProcsFacts
<1>1. /\ StateTypes /\ Progress(w) /\ OrdersCurrent /\ Pairs(w)
      /\ \A a, b : Mail(a, b)' = Mail(a, b) /\ Link(a, b)' = Link(a, b)
  BY DEF ProtocolInv, Mail, TypesOf, Link
<1>2. Progress(w)'
  <2>1. w = "none"
    BY <1>1 DEF Progress
  <2>2. from'[PARENT_ID] = 1 /\ from'[PARENT_ID] # PARENT_ID
    BY CursorStart
  <2>3. Sending(PARENT_ID)' => Sending(PARENT_ID)
    BY DEF Sending
  <2>4. Len(all_history') = IF pc'[PARENT_ID] = "await_histories" THEN from'[PARENT_ID] - 1
                            ELSE IF pc'[PARENT_ID] \in {"wait", "exited"} THEN N ELSE 0
    BY <2>2
  <2>5. \A c \in Children : SameState(c) /\ outbox'[c] = outbox[c]
    OBVIOUS
  <2> QED
    BY <1>1, <2>1, <2>2, <2>3, <2>4, <2>5, ParentProgress
<1>3. /\ \A a, b : OrderOn(w, a, b)' <=> OrderOn(w, a, b)
      /\ \A a : AckOn(w, a)' <=> AckOn(w, a)
  BY OrderSame
<1>4. ASSUME NEW c \in Children PROVE ParentMail(w, c)' /\ MailToParent(w, c)'
  <2>1. ParentMail(w, c) /\ MailToParent(w, c) /\ SameState(c)
    BY <1>1 DEF Pairs
  <2>2. /\ SaidStarted(c)' <=> SaidStarted(c)
        /\ SaidDone(c)' <=> SaidDone(c)
        /\ SentHistory(c)' <=> SentHistory(c)
    BY <2>1 DEF SameState, SaidStarted, SaidDone, SentHistory
  <2> QED
    BY <1>1, <1>3, <2>1, <2>2, ParentMailKept, MailToParentKept
<1>5. Pairs(w)'
  BY <1>1, <1>3, <1>4, ParentPairs
<1>6. OrdersCurrent'
  BY <1>1 DEF OrdersCurrent
<1>7. StateTypes'
  BY <1>1 DEF StateTypes, MailTypes
<1> QED
  BY <1>2, <1>5, <1>6, <1>7 DEF ProtocolInv

\* All children are started.
LEMMA SetsUp ==
  ASSUME NEW w \in Where, ProtocolInv(w), ParentSetUp
  PROVE  ProtocolInv(w)'
<1> USE ProcsFacts
<1>1. /\ StateTypes /\ Progress(w) /\ pc[PARENT_ID] = "spawn"
      /\ UNCHANGED <<pipes, outbox, from, polled, balance, history, all_history, ordered>>
      /\ pc' \in [Procs -> Label] /\ pc'[PARENT_ID] = "await_started"
      /\ \A c \in Children : SameState(c)
      /\ from[PARENT_ID] = NextFrom(PARENT_ID, PARENT_ID)
  BY DEF ProtocolInv, ParentSetUp, Goto, StateTypes, Label, SameState, Progress, Idle
<1>2. \A c \in Children : ~(c < from'[PARENT_ID])
  BY <1>1, CursorStart
<1>3. \A c \in Children : /\ HeardStarted(PARENT_ID, c)' <=> HeardStarted(PARENT_ID, c)
                          /\ HeardDone(PARENT_ID, c)' <=> HeardDone(PARENT_ID, c)
                          /\ HeardHistory(c)' <=> HeardHistory(c)
  BY <1>1, <1>2 DEF HeardStarted, HeardDone, HeardHistory
<1>4. (SaidStop' <=> SaidStop) /\ Len(all_history) = 0 /\ from' \in [Procs -> 1..(N + 1)]
  BY <1>1 DEF SaidStop, Progress, StateTypes
<1> QED
  BY <1>1, <1>3, <1>4, ParentMoves DEF ParentLabel

\* A receive loop of the parent is over.
LEMMA GoesOn ==
  ASSUME NEW w \in Where, ProtocolInv(w), NEW label, NEW next, ParentGoesOn(label, next),
         <<label, next>> \in {<<"await_started", "robbery">>, <<"await_done", "await_histories">>,
                              <<"await_histories", "wait">>}
  PROVE  ProtocolInv(w)'
<1> USE ProcsFacts
<1>1. \/ label = "await_started" /\ next = "robbery"
      \/ label = "await_done" /\ next = "await_histories"
      \/ label = "await_histories" /\ next = "wait"
  OBVIOUS
<1>2. /\ StateTypes /\ Progress(w) /\ pc[PARENT_ID] = label /\ from[PARENT_ID] > N
      /\ UNCHANGED <<pipes, outbox, polled, balance, history, all_history, ordered>>
      /\ pc' = [pc EXCEPT ![PARENT_ID] = next]
      /\ from' = [from EXCEPT ![PARENT_ID] = NextFrom(PARENT_ID, PARENT_ID)]
  BY DEF ProtocolInv, ParentGoesOn, At, ReceiveEnd, Goto
<1>3. /\ pc' \in [Procs -> Label] /\ pc'[PARENT_ID] = next
      /\ from' \in [Procs -> 1..(N + 1)] /\ from'[PARENT_ID] = NextFrom(PARENT_ID, PARENT_ID)
      /\ \A c \in Children : SameState(c)
  BY <1>1, <1>2, CursorStart DEF StateTypes, Label, SameState
<1>4. \A c \in Children : c < from[PARENT_ID] /\ ~(c < from'[PARENT_ID])
  <2>1. \A c \in Children : c < from[PARENT_ID]
    BY <1>2, NAssumption DEF StateTypes, Children
  <2>2. \A c \in Children : ~(c < from'[PARENT_ID])
    BY <1>3, CursorStart
  <2> QED
    BY <2>1, <2>2
<1>5. \A c \in Children : /\ HeardStarted(PARENT_ID, c)' <=> HeardStarted(PARENT_ID, c)
                          /\ HeardDone(PARENT_ID, c)' <=> HeardDone(PARENT_ID, c)
                          /\ HeardHistory(c)' <=> HeardHistory(c)
  BY <1>1, <1>2, <1>3, <1>4 DEF HeardStarted, HeardDone, HeardHistory
<1>6. SaidStop' <=> SaidStop
  BY <1>1, <1>2, <1>3 DEF SaidStop
<1>7. Len(all_history) = IF next \in {"wait", "exited"} THEN N ELSE 0
  <2>1. from[PARENT_ID] = N + 1
    BY <1>2, NAssumption DEF StateTypes
  <2> QED
    BY <1>1, <1>2, <2>1, NAssumption DEF Progress
<1> QED
  BY <1>1, <1>2, <1>3, <1>5, <1>6, <1>7, ParentMoves DEF ParentLabel

\* All children are gone.
LEMMA ParentReturns ==
  ASSUME NEW w \in Where, ProtocolInv(w), ParentExit
  PROVE  ProtocolInv(w)'
<1> USE ProcsFacts
<1>1. /\ StateTypes /\ Progress(w) /\ pc[PARENT_ID] = "wait"
      /\ UNCHANGED <<pipes, outbox, from, polled, balance, history, all_history, ordered>>
      /\ pc' \in [Procs -> Label] /\ pc'[PARENT_ID] = "exited"
      /\ \A c \in Children : SameState(c) /\ Gone(c)
      /\ from[PARENT_ID] = NextFrom(PARENT_ID, PARENT_ID)
  BY DEF ProtocolInv, ParentExit, Goto, StateTypes, Label, SameState, Progress, Idle
<1>2. \A c \in Children : /\ HeardStarted(PARENT_ID, c)' <=> HeardStarted(PARENT_ID, c)
                          /\ HeardDone(PARENT_ID, c)' <=> HeardDone(PARENT_ID, c)
                          /\ HeardHistory(c)' <=> HeardHistory(c)
  BY <1>1 DEF HeardStarted, HeardDone, HeardHistory
<1>3. (SaidStop' <=> SaidStop) /\ Len(all_history) = N /\ from' \in [Procs -> 1..(N + 1)]
  BY <1>1 DEF SaidStop, Progress, StateTypes
<1>4. \A c \in Children : pc[c] = "exited"
  BY <1>1 DEF Progress, ChildLabel, Gone
<1>5. ~Sending(PARENT_ID)
  <2> SUFFICES ASSUME NEW d \in Procs, outbox[PARENT_ID][d] # NoMessage PROVE FALSE
    BY DEF Sending
  <2>1. ~Gone(d) /\ Pairs(w) /\ Mail(PARENT_ID, d) # <<>>
    BY <1>1, NobodyGone, StillToWrite DEF ProtocolInv, StateTypes
  <2>2. d \notin Children /\ d # PARENT_ID
    BY <1>1, <2>1 DEF Pairs
  <2> QED
    BY <2>2, NAssumption DEF Procs, Children, PARENT_ID
<1> QED
  BY <1>1, <1>2, <1>3, <1>4, <1>5, ParentMoves DEF ParentLabel

\* The parent posts a message to D on its way to another label.
LEMMA ParentSays ==
  ASSUME NEW w \in Where, ProtocolInv(w), ~Sending(PARENT_ID), pipes' = pipes,
         NEW D, NEW m \in BankMessage, Post(PARENT_ID, D, m),
         m.type # "TRANSFER", NEW next \in Label, Goto(PARENT_ID, next),
         UNCHANGED <<from, polled, balance, history, all_history, ordered>>
  PROVE  /\ StateTypes' /\ OrdersCurrent'
         /\ \A c \in Children : SameState(c) /\ outbox'[c] = outbox[c]
         /\ pc'[PARENT_ID] = next
         /\ \A a, b \in Procs :
              Mail(a, b)' = IF a = PARENT_ID /\ b \in D THEN Append(Mail(a, b), m.type) ELSE Mail(a, b)
<1> USE ProcsFacts
<1>1. StateTypes /\ MailTypes /\ OrdersCurrent
  BY DEF ProtocolInv, StateTypes
<1>2. /\ pc' \in [Procs -> Label] /\ pc'[PARENT_ID] = next
      /\ \A c \in Children : SameState(c)
  BY <1>1 DEF Goto, StateTypes, SameState
<1>3. /\ MailTypes' /\ OrdersCurrent'
      /\ \A a \in Procs \ {PARENT_ID} : outbox'[a] = outbox[a]
      /\ \A a, b \in Procs :
           Mail(a, b)' = IF a = PARENT_ID /\ b \in D THEN Append(Mail(a, b), m.type) ELSE Mail(a, b)
  BY <1>1, MailPosts
<1>4. StateTypes'
  BY <1>1, <1>2, <1>3 DEF StateTypes
<1> QED
  BY <1>2, <1>3, <1>4

\* The parent says STOP.
LEMMA SaysStop ==
  ASSUME NEW w \in Where, ProtocolInv(w), NEW t \in Nat, ParentStops(t)
  PROVE  ProtocolInv(w)'
<1> USE ProcsFacts
<1> DEFINE m == [type |-> "STOP", time |-> t]
           D == Procs \ {PARENT_ID}
<1>1. /\ StateTypes /\ Progress(w) /\ Pairs(w) /\ pc[PARENT_ID] = "robbery" /\ ~Sending(PARENT_ID)
      /\ Post(PARENT_ID, D, m) /\ Goto(PARENT_ID, "await_done")
      /\ UNCHANGED <<pipes, from, polled, balance, history, all_history, ordered>>
  BY DEF ProtocolInv, ParentStops, At, Multicast, send_multicast
<1>2. m \in BankMessage /\ m.type = "STOP" /\ "await_done" \in Label
  BY DEF BankMessage, Label
<1>3. \A b \in Procs : b \in D <=> b \in Children
  BY NAssumption DEF Procs, Children, PARENT_ID
<1> HIDE DEF m, D
<1>4. /\ StateTypes' /\ OrdersCurrent'
      /\ \A c \in Children : SameState(c) /\ outbox'[c] = outbox[c]
      /\ pc'[PARENT_ID] = "await_done"
      /\ \A a, b \in Procs :
           Mail(a, b)' = IF a = PARENT_ID /\ b \in D THEN Append(Mail(a, b), m.type) ELSE Mail(a, b)
  BY <1>1, <1>2, ParentSays
<1>5. /\ \A a, b \in Children : Mail(a, b)' = Mail(a, b)
      /\ Mail(PARENT_ID, PARENT_ID)' = Mail(PARENT_ID, PARENT_ID)
      /\ \A c \in Children : /\ Mail(PARENT_ID, c)' = Append(Mail(PARENT_ID, c), "STOP")
                             /\ Mail(c, PARENT_ID)' = Mail(c, PARENT_ID)
  BY <1>2, <1>3, <1>4
<1>6. /\ from'[PARENT_ID] = NextFrom(PARENT_ID, PARENT_ID) /\ from'[PARENT_ID] # PARENT_ID
      /\ \A c \in Children : ~(c < from'[PARENT_ID])
  BY <1>1, CursorStart DEF Progress, Idle
<1>7. /\ ~SaidStop /\ SaidStop' /\ w = "none"
      /\ \A c \in Children : /\ ~SaidDone(c)
                             /\ HeardStarted(PARENT_ID, c)' <=> HeardStarted(PARENT_ID, c)
                             /\ HeardDone(PARENT_ID, c)' <=> HeardDone(PARENT_ID, c)
                             /\ HeardHistory(c)' <=> HeardHistory(c)
  BY <1>1, <1>4, <1>6 DEF SaidStop, Progress, SaidDone, HeardStarted, HeardDone, HeardHistory
<1>8. /\ \A a, b : OrderOn(w, a, b)' <=> OrderOn(w, a, b)
      /\ \A a : AckOn(w, a)' <=> AckOn(w, a)
      /\ \A a, b : ~OrderOn(w, a, b)
  BY <1>1, <1>7, OrderSame DEF OrderOn
<1>9. Progress(w)'
  <2>1. /\ pc'[PARENT_ID] \in ParentLabel /\ ~Idle(PARENT_ID)'
        /\ Len(all_history) = 0
    BY <1>1, <1>4 DEF ParentLabel, Idle, Progress
  <2>2. w # "none" <=> pc'[PARENT_ID] = "await_ack"
    BY <1>4, <1>7
  <2> QED
    BY <1>1, <1>4, <1>6, <1>7, <2>1, <2>2, ParentProgress
<1>10. ASSUME NEW c \in Children PROVE ParentMail(w, c)' /\ MailToParent(w, c)'
  <2>1. /\ ParentMail(w, c) /\ MailToParent(w, c) /\ SameState(c)
        /\ Mail(PARENT_ID, c)' = Append(Mail(PARENT_ID, c), "STOP")
        /\ Mail(c, PARENT_ID)' = Mail(c, PARENT_ID)
    BY <1>1, <1>4, <1>5 DEF Pairs
  <2>2. /\ SaidStarted(c)' <=> SaidStarted(c)
        /\ SaidDone(c)' <=> SaidDone(c)
        /\ SentHistory(c)' <=> SentHistory(c)
    BY <2>1 DEF SameState, SaidStarted, SaidDone, SentHistory
  <2>3. Mail(PARENT_ID, c) = <<>>
    BY <1>7, <1>8, <2>1 DEF ParentMail
  <2>4. Mail(PARENT_ID, c)' = <<"STOP">>
    BY ONLY <2>1, <2>3, WordFacts DEF BankType
  <2>5. ParentMail(w, c)'
    BY <1>7, <1>8, <2>2, <2>4 DEF ParentMail
  <2>6. MailToParent(w, c)'
    BY <1>7, <1>8, <2>1, <2>2, MailToParentKept
  <2> QED
    BY <2>5, <2>6
<1>11. Pairs(w)'
  BY <1>1, <1>4, <1>5, <1>8, <1>10, ParentPairs
<1> QED
  BY <1>4, <1>9, <1>11 DEF ProtocolInv

\* transfer() sends the next order to its source.
LEMMA GivesOrder ==
  ASSUME NEW w \in Where, ProtocolInv(w), NEW t \in Nat, ParentOrders(t)
  PROVE  w = "none" /\ ordered' = ordered + 1 /\ ordered' \in 1..Len(Orders) /\ ProtocolInv("out")'
<1> USE ProcsFacts
<1>1. /\ StateTypes /\ MailTypes /\ Progress(w) /\ Pairs(w)
      /\ pc[PARENT_ID] = "robbery" /\ ~Sending(PARENT_ID)
      /\ send(PARENT_ID, Orders[ordered'].src,
              [type |-> "TRANSFER", time |-> t, order |-> Orders[ordered']])
      /\ Goto(PARENT_ID, "await_ack")
      /\ UNCHANGED <<pipes, from, polled, balance, history, all_history>>
      /\ ordered < Len(Orders) /\ ordered' = ordered + 1
  BY DEF ProtocolInv, StateTypes, ParentOrders, At
<1>2. ordered' \in 1..Len(Orders) /\ ordered' \in 0..Len(Orders) /\ ordered' # 0
  BY <1>1, OrderFacts DEF StateTypes
<1>3. Orders[ordered'] \in Order /\ Orders[ordered'].src \in Children
  BY <1>2, OrderFacts DEF Order
<1>4. PICK s \in Children : s = Orders[ordered'].src
  BY <1>3
<1>5. PICK m : m = [type |-> "TRANSFER", time |-> t, order |-> Orders[ordered']]
  OBVIOUS
<1>6. m \in BankMessage /\ m.type = "TRANSFER" /\ m.order = Orders[ordered']
  BY <1>3, <1>5 DEF BankMessage
<1>7. w = "none" /\ \A a, b : ~OrderOn(w, a, b) /\ ~AckOn(w, b)
  BY <1>1 DEF Progress, OrderOn, AckOn
<1>8. /\ MailTypes'
      /\ \A a \in Procs \ {PARENT_ID} : outbox'[a] = outbox[a]
      /\ \A a, b \in Procs :
           Link(a, b)' = IF a = PARENT_ID /\ b = s THEN Append(Link(a, b), m) ELSE Link(a, b)
  <2> DEFINE D == {s}
  <2>1. Post(PARENT_ID, D, m) /\ \A b : b \in D <=> b = s
    BY <1>1, <1>4, <1>5 DEF send
  <2> HIDE DEF D
  <2>2. /\ MailTypes'
        /\ \A a \in Procs \ {PARENT_ID} : outbox'[a] = outbox[a]
        /\ \A a, b \in Procs :
             Link(a, b)' = IF a = PARENT_ID /\ b \in D THEN Append(Link(a, b), m) ELSE Link(a, b)
    BY <1>1, <1>6, <2>1, LinkPosts
  <2> QED
    BY <2>1, <2>2
<1>9. OrdersCurrent'
  <2> SUFFICES ASSUME NEW a \in Procs, NEW b \in Procs, NEW k \in 1..Len(Link(a, b)'),
                      Link(a, b)'[k].type = "TRANSFER"
               PROVE  Link(a, b)'[k].order = Orders[ordered']
    BY DEF OrdersCurrent
  <2> DEFINE x == Link(a, b)  y == Link(a, b)'
  <2>1. x \in Seq(BankMessage) /\ \A j \in 1..Len(x) : x[j].type # "TRANSFER"
    BY <1>1, <1>7, LinkMessages, NoOrders
  <2>2. k \in 1..Len(y) /\ y[k].type = "TRANSFER" /\ (y = x \/ y = Append(x, m))
    BY <1>8
  <2> HIDE DEF x, y
  <2>3. y # x
    BY <2>1, <2>2
  <2>4. y[k] = m
    BY <1>6, <2>1, <2>2, <2>3
  <2> QED
    BY <1>6, <2>4 DEF y
<1>10. \A a, b \in Procs :
         Mail(a, b)' = IF a = PARENT_ID /\ b = s THEN Append(Mail(a, b), "TRANSFER") ELSE Mail(a, b)
  <2> SUFFICES ASSUME NEW a \in Procs, NEW b \in Procs
               PROVE  Mail(a, b)' = IF a = PARENT_ID /\ b = s THEN Append(Mail(a, b), "TRANSFER")
                                    ELSE Mail(a, b)
    OBVIOUS
  <2>1. TypesOf(Append(Link(a, b), m)) = Append(TypesOf(Link(a, b)), m.type)
    BY <1>1, <1>6, LinkMessages, TypesOfAppend
  <2> QED
    BY <1>6, <1>8, <2>1 DEF Mail
<1>11. /\ pc' \in [Procs -> Label] /\ pc'[PARENT_ID] = "await_ack"
       /\ \A c \in Children : SameState(c) /\ outbox'[c] = outbox[c]
       /\ from'[PARENT_ID] = from[PARENT_ID]
  BY <1>1, <1>8 DEF Goto, StateTypes, SameState, Label
<1>12. /\ \A a, b : OrderOn("out", a, b)' <=> a = PARENT_ID /\ b = s
       /\ \A c : ~AckOn("out", c)'
  BY <1>4 DEF OrderOn, AckOn, Src
<1>13. /\ ~SaidStop /\ ~SaidStop'
       /\ \A c \in Children : /\ HeardStarted(PARENT_ID, c)' <=> HeardStarted(PARENT_ID, c)
                              /\ HeardDone(PARENT_ID, c)' <=> HeardDone(PARENT_ID, c)
                              /\ HeardHistory(c)' <=> HeardHistory(c)
  BY <1>1, <1>11 DEF SaidStop, HeardStarted, HeardDone, HeardHistory
<1>14. "out" \in Where /\ Progress("out")'
  <2> DEFINE v == "out"
  <2>1. /\ v \in Where /\ v # "none" /\ pc'[PARENT_ID] \in ParentLabel
        /\ pc'[PARENT_ID] # "exited" /\ Len(all_history) = 0
        /\ from[PARENT_ID] # PARENT_ID /\ from[PARENT_ID] = NextFrom(PARENT_ID, PARENT_ID)
    BY <1>1, <1>11 DEF Where, ParentLabel, Progress, Idle
  <2> HIDE DEF v
  <2>2. Progress(v)'
    BY <1>1, <1>2, <1>11, <1>13, <2>1, ParentProgress
  <2> QED
    BY <2>1, <2>2 DEF v
<1>15. ASSUME NEW c \in Children PROVE ParentMail("out", c)' /\ MailToParent("out", c)'
  <2>1. /\ ParentMail(w, c) /\ MailToParent(w, c) /\ SameState(c)
        /\ Mail(PARENT_ID, c)' = IF c = s THEN Append(Mail(PARENT_ID, c), "TRANSFER")
                                 ELSE Mail(PARENT_ID, c)
        /\ Mail(c, PARENT_ID)' = Mail(c, PARENT_ID)
    BY <1>1, <1>10, <1>11 DEF Pairs
  <2>2. /\ SaidStarted(c)' <=> SaidStarted(c)
        /\ SaidDone(c)' <=> SaidDone(c)
        /\ SentHistory(c)' <=> SentHistory(c)
    BY <2>1 DEF SameState, SaidStarted, SaidDone, SentHistory
  <2>3. Mail(PARENT_ID, c) = <<>>
    BY <1>7, <1>13, <2>1 DEF ParentMail
  <2>4. Mail(PARENT_ID, c)' = IF c = s THEN <<"TRANSFER">> ELSE <<>>
    BY ONLY <2>1, <2>3, WordFacts DEF BankType
  <2>5. ParentMail("out", c)'
    BY <1>12, <1>13, <2>4 DEF ParentMail
  <2>6. MailToParent("out", c)'
    BY <1>7, <1>12, <1>13, <2>1, <2>2, MailToParentKept
  <2> QED
    BY <2>5, <2>6
<1>16. Pairs("out")'
  <2> DEFINE v == "out"
  <2>1. \A c \in Children : ParentMail(v, c)' /\ MailToParent(v, c)'
    BY <1>15
  <2>2. /\ \A a, b \in Children : /\ Mail(a, b)' = Mail(a, b)
                                  /\ OrderOn(v, a, b)' <=> OrderOn(w, a, b)
        /\ Mail(PARENT_ID, PARENT_ID)' = Mail(PARENT_ID, PARENT_ID)
    BY <1>7, <1>10, <1>12
  <2> HIDE DEF v
  <2>3. Pairs(v)'
    BY <1>1, <1>11, <2>1, <2>2, ParentPairs
  <2> QED
    BY <2>3 DEF v
<1>17. StateTypes'
  BY <1>1, <1>2, <1>8, <1>11 DEF StateTypes
<1> QED
  BY <1>1, <1>2, <1>7, <1>9, <1>14, <1>16, <1>17 DEF ProtocolInv

\* It gets the ACK.
LEMMA GetsAck ==
  ASSUME NEW w \in Where, ProtocolInv(w), ParentAwaitsAck
  PROVE  w = "back" /\ ProtocolInv("none")' /\ UNCHANGED <<balance, ordered>>
<1> USE ProcsFacts
<1> DEFINE d == Dst
<1>1. /\ StateTypes /\ MailTypes /\ Progress(w) /\ OrdersCurrent /\ Pairs(w)
      /\ pc[PARENT_ID] = "await_ack" /\ ~Sending(PARENT_ID)
      /\ receive(PARENT_ID, d)
      /\ Goto(PARENT_ID, IF Oldest(PARENT_ID, d).type = "ACK" THEN "robbery" ELSE "failed")
      /\ UNCHANGED <<outbox, from, polled, balance, history, all_history, ordered>>
  BY DEF ProtocolInv, StateTypes, ParentAwaitsAck, At, Dst
<1>2. w # "none"
  BY <1>1 DEF Progress
<1>3. /\ d \in Children /\ ~SaidStop
      /\ \A c \in Children : ~SaidDone(c) /\ ~SentHistory(c) /\ HeardStarted(PARENT_ID, c)
      /\ \A c \in Children : ~HeardDone(PARENT_ID, c) /\ ~HeardHistory(c)
  BY <1>1, <1>2, CurrentOrder
<1>4. /\ Mail(d, PARENT_ID) # <<>> /\ Oldest(PARENT_ID, d).type = Head(Mail(d, PARENT_ID))
      /\ MailToParent(w, d)
  BY <1>1, <1>3, LinkFirst DEF Pairs
<1>5. w = "back" /\ Mail(d, PARENT_ID) = <<"ACK">>
  BY <1>3, <1>4 DEF MailToParent, AckOn
<1>6. Oldest(PARENT_ID, d).type = "ACK"
  BY <1>4, <1>5, WordFacts DEF BankType
<1>7. /\ pc' \in [Procs -> Label] /\ pc'[PARENT_ID] = "robbery"
      /\ \A c \in Children : SameState(c) /\ outbox'[c] = outbox[c]
      /\ from'[PARENT_ID] = from[PARENT_ID]
  BY <1>1, <1>6 DEF Goto, StateTypes, SameState, Label
<1>8. /\ MailTypes' /\ OrdersCurrent'
      /\ \A a, b \in Procs : Mail(a, b)' = IF a = d /\ b = PARENT_ID THEN Tail(Mail(a, b)) ELSE Mail(a, b)
  <2> HIDE DEF d
  <2> QED
    BY <1>1, <1>3, MailReads
<1>9. \A a, b \in Procs : Mail(a, b)' = IF a = d /\ b = PARENT_ID THEN <<>> ELSE Mail(a, b)
  <2>1. Tail(Mail(d, PARENT_ID)) = <<>>
    BY <1>5, WordFacts DEF BankType
  <2> HIDE DEF d
  <2> QED
    BY <1>8, <2>1
<1>10. /\ \A a, b : ~OrderOn("none", a, b)' /\ ~OrderOn(w, a, b) /\ ~AckOn("none", b)'
       /\ \A c : AckOn(w, c) <=> c = d
  BY <1>5 DEF OrderOn, AckOn
<1>11. /\ ~SaidStop'
       /\ \A c \in Children : /\ HeardStarted(PARENT_ID, c)'
                              /\ ~HeardDone(PARENT_ID, c)'
                              /\ ~HeardHistory(c)'
  BY <1>7 DEF SaidStop, HeardStarted, HeardDone, HeardHistory
<1> HIDE DEF d
<1>12. "none" \in Where /\ Progress("none")'
  <2> DEFINE v == "none"
  <2>1. /\ v \in Where /\ ~(v # "none") /\ pc'[PARENT_ID] \in ParentLabel
        /\ pc'[PARENT_ID] # "exited" /\ pc'[PARENT_ID] # "await_ack" /\ Len(all_history) = 0
        /\ from[PARENT_ID] # PARENT_ID /\ from[PARENT_ID] = NextFrom(PARENT_ID, PARENT_ID)
    BY <1>1, <1>7 DEF Where, ParentLabel, Progress, Idle
  <2> HIDE DEF v
  <2>2. Progress(v)'
    BY <1>1, <1>3, <1>7, <2>1, ParentProgress
  <2> QED
    BY <2>1, <2>2 DEF v
<1>13. ASSUME NEW c \in Children PROVE ParentMail("none", c)' /\ MailToParent("none", c)'
  <2>1. /\ ParentMail(w, c) /\ MailToParent(w, c) /\ SameState(c)
        /\ Mail(PARENT_ID, c)' = Mail(PARENT_ID, c)
        /\ Mail(c, PARENT_ID)' = IF c = d THEN <<>> ELSE Mail(c, PARENT_ID)
    BY <1>1, <1>7, <1>9 DEF Pairs
  <2>2. /\ SaidStarted(c)' <=> SaidStarted(c)
        /\ ~SaidDone(c)'
        /\ ~SentHistory(c)'
    BY <1>3, <2>1 DEF SameState, SaidStarted, SaidDone, SentHistory
  <2>3. ParentMail("none", c)'
    BY <1>3, <1>10, <1>11, <2>1, <2>2 DEF ParentMail
  <2>4. Mail(c, PARENT_ID)' = <<>> /\ SaidStarted(c)
    BY <1>3, <1>10, <2>1 DEF MailToParent
  <2>5. MailToParent("none", c)'
    BY <1>10, <1>11, <2>2, <2>4 DEF MailToParent
  <2> QED
    BY <2>3, <2>5
<1>14. Pairs("none")'
  <2> DEFINE v == "none"
  <2>1. \A c \in Children : ParentMail(v, c)' /\ MailToParent(v, c)'
    BY <1>13
  <2>2. /\ \A a, b \in Children : /\ Mail(a, b)' = Mail(a, b)
                                  /\ OrderOn(v, a, b)' <=> OrderOn(w, a, b)
        /\ Mail(PARENT_ID, PARENT_ID)' = Mail(PARENT_ID, PARENT_ID)
    BY <1>3, <1>9, <1>10
  <2> HIDE DEF v
  <2>3. Pairs(v)'
    BY <1>1, <1>7, <2>1, <2>2, ParentPairs
  <2> QED
    BY <2>3 DEF v
<1>15. StateTypes'
  BY <1>1, <1>7, <1>8 DEF StateTypes
<1> QED
  BY <1>1, <1>5, <1>8, <1>12, <1>14, <1>15 DEF ProtocolInv

\* What the parent finds at the cursor of its loops is what it waits for, and what is left
\* of it then.
LEMMA ParentHeadsType ==
  ASSUME NEW w \in Where, ProtocolInv(w), NEW type,
         \/ type = "STARTED" /\ pc[PARENT_ID] = "await_started"
         \/ type = "DONE" /\ pc[PARENT_ID] = "await_done"
         \/ type = "BALANCE_HISTORY" /\ pc[PARENT_ID] = "await_histories",
         from[PARENT_ID] <= N, receive(PARENT_ID, from[PARENT_ID])
  PROVE  /\ from[PARENT_ID] \in Children
         /\ Oldest(PARENT_ID, from[PARENT_ID]) \in BankMessage
         /\ Oldest(PARENT_ID, from[PARENT_ID]).type = type
         /\ w = "none"
         /\ type = "STARTED" => /\ SaidStarted(from[PARENT_ID]) /\ ~SaidDone(from[PARENT_ID])
                                /\ ~SentHistory(from[PARENT_ID])
                                /\ Mail(from[PARENT_ID], PARENT_ID) = <<"STARTED">>
         /\ type = "DONE" => /\ SaidDone(from[PARENT_ID])
                             /\ Mail(from[PARENT_ID], PARENT_ID) =
                                  IF SentHistory(from[PARENT_ID]) THEN <<"DONE", "BALANCE_HISTORY">>
                                  ELSE <<"DONE">>
         /\ type = "BALANCE_HISTORY" => /\ SentHistory(from[PARENT_ID])
                                        /\ Mail(from[PARENT_ID], PARENT_ID) = <<"BALANCE_HISTORY">>
<1> USE ProcsFacts
<1> DEFINE f == from[PARENT_ID]
<1>1. StateTypes /\ Progress(w) /\ Pairs(w) /\ MailTypes
  BY DEF ProtocolInv, StateTypes
<1>2. f \in Children
  BY <1>1, NAssumption DEF StateTypes, Progress, Children, PARENT_ID
<1>3. /\ MailToParent(w, f) /\ Mail(f, PARENT_ID) # <<>> /\ Oldest(PARENT_ID, f) \in BankMessage
      /\ Oldest(PARENT_ID, f).type = Head(Mail(f, PARENT_ID))
  BY <1>1, <1>2, LinkFirst DEF Pairs
<1>4. w = "none" /\ \A a : ~AckOn(w, a)
  BY <1>1 DEF Progress, AckOn
<1>5. SentHistory(f) => SaidDone(f)
  BY DEF SentHistory, SaidDone
<1>6. CASE type = "STARTED" /\ pc[PARENT_ID] = "await_started"
  <2>1. ~HeardStarted(PARENT_ID, f)
    BY <1>2, <1>6 DEF HeardStarted, Children
  <2>2. ~SaidDone(f)
    BY <1>1, <1>2, <1>6 DEF Progress, SaidStop
  <2>3. SaidStarted(f) /\ Mail(f, PARENT_ID) = <<"STARTED">>
    BY <1>3, <2>1 DEF MailToParent
  <2> QED
    BY <1>2, <1>3, <1>4, <1>5, <1>6, <2>2, <2>3, WordFacts DEF BankType
<1>7. CASE type = "DONE" /\ pc[PARENT_ID] = "await_done"
  <2>1. HeardStarted(PARENT_ID, f) /\ ~HeardDone(PARENT_ID, f) /\ ~HeardHistory(f)
    BY <1>2, <1>7 DEF HeardStarted, HeardDone, HeardHistory, Children
  <2>2. /\ SaidDone(f)
        /\ Mail(f, PARENT_ID) = IF SentHistory(f) THEN <<"DONE", "BALANCE_HISTORY">> ELSE <<"DONE">>
    BY <1>3, <1>4, <1>5, <2>1 DEF MailToParent
  <2>3. Head(Mail(f, PARENT_ID)) = "DONE"
    BY <2>2, WordFacts DEF BankType
  <2> QED
    BY <1>2, <1>3, <1>4, <1>7, <2>2, <2>3
<1>8. CASE type = "BALANCE_HISTORY" /\ pc[PARENT_ID] = "await_histories"
  <2>1. HeardStarted(PARENT_ID, f) /\ HeardDone(PARENT_ID, f) /\ ~HeardHistory(f)
    BY <1>2, <1>8 DEF HeardStarted, HeardDone, HeardHistory, Children
  <2>2. SentHistory(f) /\ Mail(f, PARENT_ID) = <<"BALANCE_HISTORY">>
    BY <1>3, <1>4, <2>1 DEF MailToParent
  <2> QED
    BY <1>2, <1>3, <1>4, <1>8, <2>2, WordFacts DEF BankType
<1> QED
  BY <1>6, <1>7, <1>8

\* The parent hears from the next child.
LEMMA ParentHears ==
  ASSUME NEW w \in Where, ProtocolInv(w), NEW type,
         \/ type = "STARTED" /\ pc[PARENT_ID] = "await_started"
         \/ type = "DONE" /\ pc[PARENT_ID] = "await_done"
         \/ type = "BALANCE_HISTORY" /\ pc[PARENT_ID] = "await_histories",
         ReceiveNext(PARENT_ID, type)
  PROVE  ProtocolInv(w)' /\ UNCHANGED <<balance, ordered>>
<1> USE ProcsFacts
<1> DEFINE f == from[PARENT_ID]
<1>1. /\ StateTypes /\ Progress(w) /\ OrdersCurrent /\ Pairs(w) /\ MailTypes
      /\ f <= N /\ receive(PARENT_ID, f)
      /\ UNCHANGED <<outbox, polled, balance, history, ordered>>
  BY DEF ProtocolInv, StateTypes, ReceiveNext
<1>2. /\ f \in Children /\ Oldest(PARENT_ID, f) \in BankMessage /\ Oldest(PARENT_ID, f).type = type
      /\ w = "none"
      /\ type = "STARTED" => /\ SaidStarted(f) /\ ~SaidDone(f) /\ ~SentHistory(f)
                             /\ Mail(f, PARENT_ID) = <<"STARTED">>
      /\ type = "DONE" => /\ SaidDone(f)
                          /\ Mail(f, PARENT_ID) =
                               IF SentHistory(f) THEN <<"DONE", "BALANCE_HISTORY">> ELSE <<"DONE">>
      /\ type = "BALANCE_HISTORY" => SentHistory(f) /\ Mail(f, PARENT_ID) = <<"BALANCE_HISTORY">>
  BY <1>1, ParentHeadsType
<1>3. from' = [from EXCEPT ![PARENT_ID] = NextFrom(PARENT_ID, @)]
  BY <1>2 DEF ReceiveNext
<1>4. /\ NextFrom(PARENT_ID, f) \in 1..(N + 1) /\ NextFrom(PARENT_ID, f) = f + 1
      /\ \A q \in Children : q < NextFrom(PARENT_ID, f) <=> q < f \/ q = f
  BY <1>2, CursorNext
<1>5. /\ UNCHANGED pc
      /\ all_history' \in Seq(History)
      /\ Len(all_history') = IF type = "BALANCE_HISTORY" THEN f ELSE 0
  <2>1. CASE type = "BALANCE_HISTORY"
    <3>1. FillCallback(f, Oldest(PARENT_ID, f).history)
      BY <1>2, <2>1 DEF ReceiveNext
    <3>2. Len(all_history) = f - 1 /\ f \in Nat
      BY <1>1, <1>2, <2>1, NAssumption DEF Progress, Children
    <3>3. all_history' = Append(all_history, Oldest(PARENT_ID, f).history) /\ UNCHANGED pc
      BY <3>1, <3>2 DEF FillCallback
    <3>4. Oldest(PARENT_ID, f).history \in History
      BY <1>2, <2>1, MessageFacts
    <3>5. all_history \in Seq(History)
      BY <1>1 DEF StateTypes
    <3> QED
      BY <2>1, <3>2, <3>3, <3>4, <3>5
  <2>2. CASE type # "BALANCE_HISTORY"
    <3>1. UNCHANGED <<pc, all_history>>
      BY <1>2, <2>2 DEF ReceiveNext
    <3> QED
      BY <1>1, <2>2, <3>1 DEF StateTypes, Progress
  <2> QED
    BY <2>1, <2>2
<1>6. /\ from' \in [Procs -> 1..(N + 1)] /\ from'[PARENT_ID] = f + 1
      /\ \A c \in Children : SameState(c) /\ outbox'[c] = outbox[c]
  BY <1>1, <1>3, <1>4, <1>5 DEF StateTypes, SameState
<1>7. /\ MailTypes' /\ OrdersCurrent'
      /\ \A a, b \in Procs : Mail(a, b)' = IF a = f /\ b = PARENT_ID THEN Tail(Mail(a, b)) ELSE Mail(a, b)
  <2> HIDE DEF f
  <2> QED
    BY <1>1, <1>2, MailReads
<1>8. Progress(w)'
  <2>1. /\ pc'[PARENT_ID] \in ParentLabel /\ pc'[PARENT_ID] # "exited" /\ ~Idle(PARENT_ID)'
        /\ w # "none" <=> pc'[PARENT_ID] = "await_ack"
        /\ SaidStop => SaidStop'
    BY <1>1, <1>2, <1>5 DEF Progress, Idle, SaidStop
  <2>2. from'[PARENT_ID] # PARENT_ID /\ f + 1 - 1 = f
    BY <1>2, <1>6 DEF Children, PARENT_ID
  <2>3. Len(all_history') = IF pc'[PARENT_ID] = "await_histories" THEN from'[PARENT_ID] - 1
                            ELSE IF pc'[PARENT_ID] \in {"wait", "exited"} THEN N ELSE 0
    BY <1>5, <1>6, <2>2
  <2> QED
    BY <1>1, <1>2, <1>6, <2>1, <2>2, <2>3, ParentProgress
<1>9. /\ \A a : /\ SaidStarted(a)' <=> SaidStarted(a)
                /\ SaidDone(a)' <=> SaidDone(a)
                /\ SentHistory(a)' <=> SentHistory(a)
      /\ SaidStop' <=> SaidStop
  BY <1>5 DEF SaidStarted, SaidDone, SentHistory, SaidStop
<1>10. \A c \in Children :
          /\ HeardStarted(PARENT_ID, c)' <=> HeardStarted(PARENT_ID, c) \/ (c = f /\ type = "STARTED")
          /\ HeardDone(PARENT_ID, c)' <=> HeardDone(PARENT_ID, c) \/ (c = f /\ type = "DONE")
          /\ HeardHistory(c)' <=> HeardHistory(c) \/ (c = f /\ type = "BALANCE_HISTORY")
  BY <1>4, <1>5, <1>6 DEF HeardStarted, HeardDone, HeardHistory
<1>11. /\ \A a, b : OrderOn(w, a, b)' <=> OrderOn(w, a, b)
       /\ \A a : AckOn(w, a)' <=> AckOn(w, a)
       /\ \A a : ~AckOn(w, a)
  BY <1>1, <1>2, OrderSame DEF AckOn
<1>12. ASSUME NEW c \in Children PROVE ParentMail(w, c)' /\ MailToParent(w, c)'
  <2>1. /\ ParentMail(w, c) /\ MailToParent(w, c)
        /\ Mail(PARENT_ID, c)' = Mail(PARENT_ID, c)
    BY <1>1, <1>2, <1>7 DEF Pairs
  <2>2. ParentMail(w, c)'
    BY <1>9, <1>11, <2>1, ParentMailKept
  <2>3. /\ SaidStarted(c)' <=> SaidStarted(c)
        /\ SaidDone(c)' <=> SaidDone(c)
        /\ SentHistory(c)' <=> SentHistory(c)
        /\ HeardStarted(PARENT_ID, c)' <=> HeardStarted(PARENT_ID, c) \/ (c = f /\ type = "STARTED")
        /\ HeardDone(PARENT_ID, c)' <=> HeardDone(PARENT_ID, c) \/ (c = f /\ type = "DONE")
        /\ HeardHistory(c)' <=> HeardHistory(c) \/ (c = f /\ type = "BALANCE_HISTORY")
        /\ ~AckOn(w, c)'
    BY <1>9, <1>10, <1>11
  <2>4. /\ Tail(<<"STARTED">>) = <<>> /\ Tail(<<"DONE">>) = <<>> /\ Tail(<<"BALANCE_HISTORY">>) = <<>>
        /\ Tail(<<"DONE", "BALANCE_HISTORY">>) = <<"BALANCE_HISTORY">>
    BY WordFacts DEF BankType
  <2>5. CASE c # f
    <3>1. Mail(c, PARENT_ID)' = Mail(c, PARENT_ID)
      BY <1>7, <2>5
    <3> QED
      BY <1>9, <1>10, <1>11, <2>1, <2>2, <2>5, <3>1, MailToParentKept
  <2>6. CASE c = f
    <3>1. Mail(c, PARENT_ID)' = Tail(Mail(c, PARENT_ID))
      BY <1>7, <2>6
    <3>2. CASE type = "STARTED"
      <4>1. Mail(c, PARENT_ID) = <<"STARTED">>
        BY <1>2, <2>6, <3>2
      <4>2. Mail(c, PARENT_ID)' = <<>>
        BY <2>4, <3>1, <4>1
      <4>3. ~HeardDone(PARENT_ID, c) /\ ~HeardHistory(c)
        BY <1>2, <2>1, <2>6, <3>2 DEF MailToParent
      <4>4. SaidStarted(c)' /\ ~SaidDone(c)' /\ ~SentHistory(c)'
            /\ HeardStarted(PARENT_ID, c)' /\ ~HeardDone(PARENT_ID, c)' /\ ~HeardHistory(c)'
        BY <1>2, <2>3, <2>6, <3>2, <4>3
      <4>5. MailToParent(w, c)'
        BY <2>3, <4>2, <4>4 DEF MailToParent
      <4> QED
        BY <2>2, <4>5
    <3>3. CASE type = "DONE"
      <4>1. Mail(c, PARENT_ID)' = IF SentHistory(c) THEN <<"BALANCE_HISTORY">> ELSE <<>>
        <5>1. Mail(c, PARENT_ID) = IF SentHistory(c) THEN <<"DONE", "BALANCE_HISTORY">> ELSE <<"DONE">>
          BY <1>2, <2>6, <3>3
        <5> QED
          BY <2>4, <3>1, <5>1
      <4>2. HeardStarted(PARENT_ID, c) /\ ~HeardHistory(c)
        BY <3>3 DEF HeardStarted, HeardHistory
      <4>3. SaidStarted(c)' /\ SaidDone(c)' /\ (SentHistory(c)' <=> SentHistory(c))
            /\ HeardStarted(PARENT_ID, c)' /\ HeardDone(PARENT_ID, c)' /\ ~HeardHistory(c)'
        BY <1>2, <2>3, <2>6, <3>3, <4>2 DEF SaidStarted, SaidDone
      <4>4. MailToParent(w, c)'
        BY <2>3, <4>1, <4>3 DEF MailToParent
      <4> QED
        BY <2>2, <4>4
    <3>4. CASE type = "BALANCE_HISTORY"
      <4>1. Mail(c, PARENT_ID) = <<"BALANCE_HISTORY">>
        BY <1>2, <2>6, <3>4
      <4>2. Mail(c, PARENT_ID)' = <<>>
        BY <2>4, <3>1, <4>1
      <4>3. HeardStarted(PARENT_ID, c) /\ HeardDone(PARENT_ID, c)
        BY <3>4 DEF HeardStarted, HeardDone
      <4>4. SaidStarted(c)' /\ SaidDone(c)' /\ SentHistory(c)'
            /\ HeardStarted(PARENT_ID, c)' /\ HeardDone(PARENT_ID, c)' /\ HeardHistory(c)'
        BY <1>2, <2>3, <2>6, <3>4, <4>3 DEF SaidStarted, SaidDone, SentHistory
      <4>5. MailToParent(w, c)'
        BY <2>3, <4>2, <4>4 DEF MailToParent
      <4> QED
        BY <2>2, <4>5
    <3> QED
      BY <2>2, <3>2, <3>3, <3>4
  <2> QED
    BY <2>5, <2>6
<1>13. Pairs(w)'
  <2>1. /\ \A a, b \in Children : Mail(a, b)' = Mail(a, b)
        /\ Mail(PARENT_ID, PARENT_ID)' = Mail(PARENT_ID, PARENT_ID)
    BY <1>2, <1>7
  <2> QED
    BY <1>1, <1>6, <1>11, <1>12, <2>1, ParentPairs
<1>14. StateTypes'
  BY <1>1, <1>5, <1>6, <1>7 DEF StateTypes
<1> QED
  BY <1>1, <1>7, <1>8, <1>13, <1>14 DEF ProtocolInv

-----------------------------------------------------------------------------
(* Histories and the messages that handlers make *)

\* Writing entries keeps a history one.
LEMMA AssignedType ==
  ASSUME NEW h \in History, NEW T \in SUBSET Nat, NEW state \in BalanceState, NEW len \in Nat
  PROVE  [s_history |-> Assigned(h.s_history, T, state), s_history_len |-> len] \in History
<1>1. PICK D \in SUBSET Nat : h.s_history \in [D -> BalanceState]
  BY DEF History
<1>2. Assigned(h.s_history, T, state) \in [T \cup D -> BalanceState]
  BY <1>1 DEF Assigned
<1>3. T \cup D \in SUBSET Nat
  OBVIOUS
<1> QED
  BY <1>2, <1>3 DEF History

\* record_history() makes a history of a history.
LEMMA RecordType ==
  ASSUME NEW h \in History, NEW t \in Nat, NEW state \in BalanceState
  PROVE  record_history(h, t, state) \in History
<1>1. {t} \in SUBSET Nat /\ h.s_history_len + 1 \in Nat
  BY DEF History
<1> QED
  BY <1>1, AssignedType DEF record_history

\* And so does filling it up to a time.
LEMMA FillType ==
  ASSUME NEW h \in History, NEW t \in Nat, NEW state \in BalanceState
  PROVE  FillHistory(h, t, state) \in History
<1> DEFINE T == h.s_history_len..(t - 1)
           len == IF t > h.s_history_len THEN t ELSE h.s_history_len
<1>1. T \in SUBSET Nat /\ len \in Nat
  BY DEF History
<1>2. FillHistory(h, t, state) = [s_history |-> Assigned(h.s_history, T, state), s_history_len |-> len]
  BY DEF FillHistory
<1> HIDE DEF T, len
<1> QED
  BY <1>1, <1>2, AssignedType

\* A history is one for the model checker too.
LEMMA HistoryShape ==
  ASSUME NEW h \in History
  PROVE  IsBalanceHistory(h)
BY DEF History, IsBalanceHistory

\* The message that is polled.
LEMMA PolledMessage ==
  ASSUME NEW w \in Where, ProtocolInv(w), NEW c \in Children, PollMessage(c)
  PROVE  /\ Polled(c) \in BankMessage /\ Polled(c).time \in Nat
         /\ Polled(c).type = "TRANSFER" => Polled(c).order \in Order /\ Polled(c).order.amount \in Int
<1>1. MailTypes /\ c \in Procs /\ polled[c] \in Procs /\ receive(c, polled[c])
  BY ProcsFacts DEF ProtocolInv, StateTypes, PollMessage
<1>2. Polled(c) \in BankMessage
  BY <1>1, LinkFirst DEF Polled
<1> QED
  BY <1>2, MessageFacts DEF Order

\* A message that is about its type only.
LEMMA PlainMessage ==
  ASSUME NEW t \in Nat, NEW type \in {"STARTED", "ACK", "STOP", "DONE"}
  PROVE  [type |-> type, time |-> t] \in BankMessage
BY DEF BankMessage

\* A history on its way to the parent.
LEMMA HistoryMessage ==
  ASSUME NEW t \in Nat, NEW h \in History
  PROVE  [type |-> "BALANCE_HISTORY", time |-> t, history |-> h] \in BankMessage
BY DEF BankMessage

\* A transfer with another time.
LEMMA ForwardedMessage ==
  ASSUME NEW t \in Nat, NEW m \in BankMessage, m.type = "TRANSFER"
  PROVE  /\ [m EXCEPT !.time = t] \in BankMessage
         /\ [m EXCEPT !.time = t].type = "TRANSFER"
         /\ [m EXCEPT !.time = t].order = m.order
<1>1. m \in [type : {"TRANSFER"}, time : Nat, order : Order]
  BY DEF BankMessage
<1>2. [m EXCEPT !.time = t] \in [type : {"TRANSFER"}, time : Nat, order : Order]
  BY <1>1
<1> QED
  BY <1>1, <1>2 DEF BankMessage

-----------------------------------------------------------------------------
(* The ledger *)

\* What a step does to the orders and the accounts.
Debits == balance' = [balance EXCEPT ![Orders[ordered].src] = @ - Orders[ordered].amount]
Credits == balance' = [balance EXCEPT ![Orders[ordered].dst] = @ + Orders[ordered].amount]

Transacts(w, v) ==
  \/ v = w /\ ordered' = ordered /\ balance' = balance
  \/ w = "none" /\ v = "out" /\ ordered' = ordered + 1 /\ ordered' \in 1..Len(Orders) /\ balance' = balance
  \/ w = "out" /\ v = "over" /\ ordered' = ordered /\ Debits
  \/ w = "over" /\ v = "back" /\ ordered' = ordered /\ Credits
  \/ w = "back" /\ v = "none" /\ ordered' = ordered /\ balance' = balance

\* A step of the protocol.
BankStep(w) == \E v \in Where : ProtocolInv(v)' /\ Transacts(w, v)

\* How many orders have left their source, and have reached their destination.
LEMMA LedgerCounts ==
  ASSUME NEW w \in Where, ProtocolInv(w)
  PROVE  /\ OrderUnderWay({PARENT_ID}) <=> w = "out"
         /\ OrderUnderWay(Procs) <=> w \in {"out", "over"}
<1> USE ProcsFacts
<1>1. StateTypes /\ Progress(w)
  BY DEF ProtocolInv
<1>2. \A a, b \in Procs : Carries(a, b, "TRANSFER") <=> OrderOn(w, a, b)
  BY OrderUnderWayThere
<1>3. w # "none" => Src \in Children /\ Dst \in Children
  BY <1>1, CurrentOrder
<1>4. OrderUnderWay({PARENT_ID}) <=> w = "out"
  BY <1>2, <1>3 DEF OrderUnderWay, OrderOn
<1>5. OrderUnderWay(Procs) <=> w \in {"out", "over"}
  BY <1>2, <1>3 DEF OrderUnderWay, OrderOn
<1> QED
  BY <1>4, <1>5

Debited(w) == IF w = "out" THEN ordered - 1 ELSE ordered
Credited(w) == IF w \in {"out", "over"} THEN ordered - 1 ELSE ordered

\* The same after a step.
LEMMA LedgerCountsNext ==
  ASSUME NEW w \in Where
  PROVE  ProtocolInv(w)' => /\ OrderUnderWay({PARENT_ID})' <=> w = "out"
                            /\ OrderUnderWay(Procs)' <=> w \in {"out", "over"}
<1>1. ProtocolInv(w) => /\ OrderUnderWay({PARENT_ID}) <=> w = "out"
                        /\ OrderUnderWay(Procs) <=> w \in {"out", "over"}
  BY LedgerCounts
<1>2. (ProtocolInv(w) => /\ OrderUnderWay({PARENT_ID}) <=> w = "out"
                         /\ OrderUnderWay(Procs) <=> w \in {"out", "over"})'
  BY <1>1, PTL
<1> QED
  BY <1>2

\* A step of the protocol is one of the ledger or leaves it as it is.
LEMMA LedgerNext ==
  ASSUME NEW w \in Where, ProtocolInv(w), BankStep(w)
  PROVE  [AsLedger!Next]_(AsLedger!vars)
<1>1. PICK v \in Where : ProtocolInv(v)' /\ Transacts(w, v)
  BY DEF BankStep
<1> DEFINE d == IF OrderUnderWay({PARENT_ID}) THEN ordered - 1 ELSE ordered
           c == IF OrderUnderWay(Procs) THEN ordered - 1 ELSE ordered
<1>2. d = Debited(w) /\ c = Credited(w)
  BY LedgerCounts DEF Debited, Credited
<1>3. (OrderUnderWay({PARENT_ID})' <=> v = "out") /\ (OrderUnderWay(Procs)' <=> v \in {"out", "over"})
  BY <1>1, LedgerCountsNext
<1>4. d' = Debited(v)' /\ c' = Credited(v)'
  BY <1>3 DEF Debited, Credited
<1>5. ordered \in Nat /\ (w # "none" => ordered \in 1..Len(Orders)) /\ Len(Orders) \in Nat
  BY OrderFacts DEF ProtocolInv, StateTypes, Progress
<1>6. ASSUME balance' = balance, d' = d, c' = c
      PROVE  UNCHANGED AsLedger!vars
  BY <1>6 DEF AsLedger!vars
<1>7. CASE v = w /\ ordered' = ordered /\ balance' = balance
  BY <1>2, <1>4, <1>6, <1>7 DEF Debited, Credited
<1>8. CASE /\ w = "none" /\ v = "out" /\ ordered' = ordered + 1
           /\ balance' = balance
  BY <1>2, <1>4, <1>5, <1>6, <1>8 DEF Debited, Credited
<1>9. CASE w = "back" /\ v = "none" /\ ordered' = ordered /\ balance' = balance
  BY <1>2, <1>4, <1>6, <1>9 DEF Debited, Credited
<1>10. CASE w = "out" /\ v = "over" /\ ordered' = ordered /\ Debits
  <2>1. d = ordered - 1 /\ c = ordered - 1 /\ d' = ordered /\ c' = ordered - 1
    BY <1>2, <1>4, <1>10 DEF Debited, Credited
  <2>2. d = c /\ d < Len(Orders) /\ d' = d + 1 /\ c' = c
    BY <1>5, <1>10, <2>1
  <2>3. balance' = [balance EXCEPT ![Orders[d'].src] = @ - Orders[d'].amount]
    BY <1>10, <2>1 DEF Debits
  <2>4. AsLedger!Debit
    BY <2>2, <2>3 DEF AsLedger!Debit
  <2> QED
    BY <2>4 DEF AsLedger!Next
<1>11. CASE w = "over" /\ v = "back" /\ ordered' = ordered /\ Credits
  <2>1. d = ordered /\ c = ordered - 1 /\ d' = ordered /\ c' = ordered
    BY <1>2, <1>4, <1>11 DEF Debited, Credited
  <2>2. c < d /\ c' = c + 1 /\ d' = d
    BY <1>5, <1>11, <2>1
  <2>3. balance' = [balance EXCEPT ![Orders[c'].dst] = @ + Orders[c'].amount]
    BY <1>11, <2>1 DEF Credits
  <2>4. AsLedger!Credit
    BY <2>2, <2>3 DEF AsLedger!Credit
  <2> QED
    BY <2>4 DEF AsLedger!Next
<1> QED
  BY <1>1, <1>7, <1>8, <1>9, <1>10, <1>11 DEF Transacts

-----------------------------------------------------------------------------
(* The beginning *)

\* The program begins with empty pipes, everybody before the first send.
LEMMA BankBegins ==
  ASSUME BankInit
  PROVE  ProtocolInv("none")
<1> USE ProcsFacts
<1>1. MailTypes /\ \A p, q \in Procs : Link(p, q) = <<>> /\ outbox[p][q] = NoMessage
  BY DEF BankInit, IpcInit, MailTypes, Link
<1>2. \A p, q \in Procs : Mail(p, q) = <<>>
  BY <1>1 DEF Mail, TypesOf
<1>3. pc[PARENT_ID] = "spawn" /\ \A c \in Children : pc[c] = "start"
  BY DEF BankInit
<1>4. \A p \in Procs : from[p] = NextFrom(p, PARENT_ID)
  BY DEF BankInit
<1>5. history \in [Children -> History]
  <2>1. ASSUME NEW b \in Int
        PROVE  [s_history |-> [t \in {0} |-> State(b, 0)], s_history_len |-> 1] \in History
    <3>1. [t \in {0} |-> State(b, 0)] \in [{0} -> BalanceState] /\ {0} \in SUBSET Nat
      BY DEF State, BalanceState
    <3> QED
      BY <3>1 DEF History
  <2> QED
    BY <2>1, BankAssumption DEF BankInit
<1>6. StateTypes
  <2>1. pc \in [Procs -> Label]
    BY DEF BankInit, Label
  <2>2. from \in [Procs -> 1..(N + 1)]
    BY CursorStart DEF BankInit
  <2>3. polled \in [Children -> Procs] /\ balance \in [Children -> Int]
    BY BankAssumption DEF BankInit
  <2>4. all_history \in Seq(History) /\ ordered \in 0..Len(Orders)
    BY OrderFacts DEF BankInit
  <2> QED
    BY <1>1, <1>5, <2>1, <2>2, <2>3, <2>4 DEF StateTypes
<1>7. Progress("none")
  <2>1. \A c \in Children : pc[c] \in ChildLabel /\ ~SaidDone(c)
    BY <1>3 DEF ChildLabel, SaidDone
  <2>2. pc[PARENT_ID] \in ParentLabel
    BY <1>3 DEF ParentLabel
  <2>3. \A p \in Procs : from[p] # p /\ ~Sending(p)
    BY <1>1, <1>4, CursorStart DEF Sending
  <2>4. Len(all_history) = 0
    BY DEF BankInit
  <2> QED
    BY <1>3, <1>4, <2>1, <2>2, <2>3, <2>4 DEF Progress, Where
<1>8. OrdersCurrent
  BY <1>1 DEF OrdersCurrent
<1>9. Pairs("none")
  <2>1. ASSUME NEW c \in Children PROVE ParentMail("none", c) /\ MailToParent("none", c)
    BY <1>2, <1>3 DEF ParentMail, MailToParent, OrderOn, SaidStop, SaidStarted, HeardStarted,
                      HeardDone, HeardHistory
  <2>2. ASSUME NEW q \in Children, NEW c \in Children \ {q} PROVE ChildMail("none", q, c)
    BY <1>2, <1>3 DEF ChildMail, OrderOn, SaidStarted, HeardStarted, HeardDone
  <2> QED
    BY <1>2, <2>1, <2>2 DEF Pairs
<1> QED
  BY <1>6, <1>7, <1>8, <1>9 DEF ProtocolInv

\* No order has been given and every account is as it was opened.
LEMMA LedgerBegins ==
  ASSUME BankInit
  PROVE  AsLedger!Init
<1>1. ProtocolInv("none") /\ "none" \in Where
  BY BankBegins DEF Where
<1>2. ~OrderUnderWay({PARENT_ID}) /\ ~OrderUnderWay(Procs)
  BY <1>1, LedgerCounts
<1> QED
  BY <1>2 DEF AsLedger!Init, BankInit

-----------------------------------------------------------------------------
(* What the invariant is for *)

\* A state of the protocol has the types that the model checker tests.
LEMMA ProtocolTypes ==
  ASSUME NEW w \in Where, ProtocolInv(w)
  PROVE  BankTypeOK
<1>1. StateTypes /\ Progress(w)
  BY DEF ProtocolInv
<1>2. \A c \in Children : IsBalanceHistory(history[c])
  BY <1>1, HistoryShape DEF StateTypes
<1>3. Len(all_history) <= N
  <2>1. from[PARENT_ID] \in 1..(N + 1)
    BY <1>1, ProcsFacts DEF StateTypes
  <2> QED
    BY <1>1, <2>1, NAssumption DEF Progress
<1>4. \A k \in DOMAIN all_history : IsBalanceHistory(all_history[k])
  BY <1>1, HistoryShape DEF StateTypes
<1> QED
  BY <1>1, <1>2, <1>3, <1>4 DEF BankTypeOK, StateTypes

\* In no state of the protocol anybody has failed or been killed.
LEMMA ProtocolSucceeds ==
  ASSUME NEW w \in Where, ProtocolInv(w)
  PROVE  NoFailure
<1>1. \A c \in Children : pc[c] \in ChildLabel
  BY DEF ProtocolInv, Progress
<1>2. pc[PARENT_ID] \in ParentLabel
  BY DEF ProtocolInv, Progress
<1>3. \A p \in Procs : p = PARENT_ID \/ p \in Children
  BY NAssumption DEF Procs, Children, PARENT_ID
<1> QED
  BY <1>1, <1>2, <1>3 DEF NoFailure, ChildLabel, ParentLabel

\* The same of the next state.
LEMMA ProtocolStays ==
  ASSUME NEW w \in Where, NEW v \in Where, ProtocolInv(v)', Transacts(w, v)
  PROVE  BankStep(w)
BY DEF BankStep

\* A step that leaves the order under way where it is and no account touched.
LEMMA StaysThere ==
  ASSUME NEW w \in Where, ProtocolInv(w)', UNCHANGED <<balance, ordered>>
  PROVE  BankStep(w)
BY DEF BankStep, Transacts

\* Nothing happens at all.
LEMMA BankStutters ==
  ASSUME NEW w \in Where, ProtocolInv(w), UNCHANGED bankVars
  PROVE  BankStep(w)
<1>1. UNCHANGED <<pipes, outbox, pc, from, polled, balance, history, all_history, ordered>>
  BY DEF bankVars
<1>2. MailTypes'
  <2>1. MailTypes
    BY DEF ProtocolInv, StateTypes
  <2> QED
    BY <1>1, <2>1 DEF MailTypes
<1>3. StateTypes'
  BY <1>1, <1>2 DEF ProtocolInv, StateTypes
<1>4. ProtocolInv(w)'
  BY <1>1, <1>3, NothingMoves
<1> QED
  BY <1>1, <1>4, StaysThere

-----------------------------------------------------------------------------
(* Sums over the children.  MapThenSumSet takes one element after the other  *)
(* out of a set; IsSum says so of a function on the sets of children.        *)

Pick(s) == CHOOSE c \in s : TRUE

IsSum(f, sum) ==
  sum = [s \in SUBSET Children |-> IF s = {} THEN 0 ELSE f[Pick(s)] + sum[s \ {Pick(s)}]]

\* The sets of children are finite, and taking out an element makes them smaller.
LEMMA ChildrenSets ==
  /\ IsFiniteSet(Children) /\ Cardinality(Children) = N /\ N \in Nat
  /\ \A s \in SUBSET Children :
       /\ Cardinality(s) \in 0..N
       /\ Cardinality(s) = 0 <=> s = {}
       /\ s # {} => /\ Pick(s) \in s /\ s \ {Pick(s)} \in SUBSET Children
                    /\ Cardinality(s \ {Pick(s)}) = Cardinality(s) - 1
<1>1. /\ IsFiniteSet(Children) /\ Cardinality(Children) = N /\ N \in Nat
  BY NAssumption, FS_Interval DEF Children
<1>2. ASSUME NEW s \in SUBSET Children
      PROVE  /\ Cardinality(s) \in 0..N
             /\ Cardinality(s) = 0 <=> s = {}
             /\ s # {} => /\ Pick(s) \in s /\ s \ {Pick(s)} \in SUBSET Children
                          /\ Cardinality(s \ {Pick(s)}) = Cardinality(s) - 1
  <2>1. IsFiniteSet(s) /\ Cardinality(s) <= N
    BY <1>1, FS_Subset
  <2>2. Cardinality(s) \in Nat /\ (Cardinality(s) = 0 <=> s = {})
    BY <2>1, FS_CardinalityType, FS_EmptySet
  <2>3. ASSUME s # {} PROVE Pick(s) \in s /\ Cardinality(s \ {Pick(s)}) = Cardinality(s) - 1
    <3>1. Pick(s) \in s
      BY <2>3 DEF Pick
    <3> QED
      BY <2>1, <3>1, FS_RemoveElement
  <2> QED
    BY <1>1, <2>1, <2>2, <2>3
<1> QED
  BY <1>1, <1>2

\* There is such a function.
LEMMA SumExists ==
  ASSUME NEW f \in [Children -> Int]
  PROVE  \E sum : IsSum(f, sum)
<1> DEFINE Small(n) == {s \in SUBSET Children : Cardinality(s) <= n}
           Value(sum, s) == IF s = {} THEN 0 ELSE f[Pick(s)] + sum[s \ {Pick(s)}]
           Sums == {n \in 0..N : \E sum \in [Small(n) -> Int] :
                                   \A s \in Small(n) : sum[s] = Value(sum, s)}
<1>1. 0 \in Sums
  <2> DEFINE sum == [s \in Small(0) |-> 0]
  <2>1. ASSUME NEW s \in Small(0) PROVE s = {}
    <3>1. s \in SUBSET Children /\ Cardinality(s) <= 0
      OBVIOUS
    <3>2. Cardinality(s) \in 0..N /\ (Cardinality(s) = 0 <=> s = {})
      BY <3>1, ChildrenSets
    <3> QED
      BY <3>1, <3>2
  <2>2. sum \in [Small(0) -> Int] /\ \A s \in Small(0) : sum[s] = Value(sum, s)
    BY <2>1
  <2>3. 0 \in 0..N
    BY ChildrenSets
  <2> HIDE DEF Value, sum, Small
  <2> QED
    BY <2>2, <2>3
<1>2. ASSUME NEW k \in 0..N, k < N, k \in Sums PROVE k + 1 \in Sums
  <2>1. PICK sum \in [Small(k) -> Int] : \A s \in Small(k) : sum[s] = Value(sum, s)
    BY <1>2
  <2> DEFINE next == [s \in Small(k + 1) |-> IF s \in Small(k) THEN sum[s] ELSE Value(sum, s)]
  <2>2. ASSUME NEW s \in Small(k + 1), s # {}
        PROVE  f[Pick(s)] \in Int /\ s \ {Pick(s)} \in Small(k)
    BY <2>2, ChildrenSets
  <2>3. \A s \in Small(k + 1) : s # {} => next[s \ {Pick(s)}] = sum[s \ {Pick(s)}]
    <3>1. ASSUME NEW s \in Small(k) PROVE s \in Small(k + 1)
      <4>1. s \in SUBSET Children /\ Cardinality(s) <= k /\ Cardinality(s) \in 0..N
        BY ChildrenSets
      <4>2. Cardinality(s) <= k + 1
        BY <4>1
      <4> QED
        BY <4>1, <4>2
    <3> QED
      BY <2>2, <3>1
  <2>4. ASSUME NEW s \in Small(k + 1) PROVE next[s] \in Int /\ next[s] = Value(next, s)
    <3>1. next[s] = Value(sum, s)
      BY <2>1
    <3>2. Value(sum, s) = Value(next, s)
      BY <2>3
    <3>3. Value(sum, s) \in Int
      BY <2>2
    <3> QED
      BY <3>1, <3>2, <3>3
  <2>5. next \in [Small(k + 1) -> Int] /\ \A s \in Small(k + 1) : next[s] = Value(next, s)
    BY <2>4
  <2>6. k + 1 \in 0..N
    BY <1>2, ChildrenSets
  <2> HIDE DEF Value, Small, next
  <2> QED
    BY <2>5, <2>6
<1>3. N \in Sums
  <2> HIDE DEF Sums
  <2>1. \A k \in 0..N : k \in Sums
    BY <1>1, <1>2, ChildrenSets, UpTo
  <2> QED
    BY <2>1, ChildrenSets
<1>4. PICK sum \in [Small(N) -> Int] : \A s \in Small(N) : sum[s] = Value(sum, s)
  BY <1>3
<1>5. Small(N) = SUBSET Children
  <2>1. ASSUME NEW s \in SUBSET Children PROVE Cardinality(s) <= N
    <3>1. Cardinality(s) \in 0..N /\ N \in Nat
      BY ChildrenSets
    <3> QED
      BY <3>1
  <2> QED
    BY <2>1
<1>6. sum = [s \in SUBSET Children |-> Value(sum, s)]
  BY <1>4, <1>5
<1> QED
  BY <1>6 DEF IsSum

\* g is f with the amount a moved from src to dst.
IsMove(f, g, src, dst, a) ==
  \A c \in Children : g[c] = f[c] - (IF c = src THEN a ELSE 0) + (IF c = dst THEN a ELSE 0)

\* Moving an amount from one child to another one does not change the sum.
LEMMA SumMoved ==
  ASSUME NEW f \in [Children -> Int], NEW g \in [Children -> Int],
         NEW src \in Children, NEW dst \in Children, NEW a \in Int, IsMove(f, g, src, dst, a),
         NEW sf, IsSum(f, sf), NEW sg, IsSum(g, sg)
  PROVE  sg[Children] = sf[Children]
<1> DEFINE Moved(s) == sf[s] - (IF src \in s THEN a ELSE 0) + (IF dst \in s THEN a ELSE 0)
           Same == {n \in 0..N : \A s \in SUBSET Children :
                                   Cardinality(s) = n => sf[s] \in Int /\ sg[s] = Moved(s)}
<1>1. ASSUME NEW s \in SUBSET Children
      PROVE  /\ sf[s] = IF s = {} THEN 0 ELSE f[Pick(s)] + sf[s \ {Pick(s)}]
             /\ sg[s] = IF s = {} THEN 0 ELSE g[Pick(s)] + sg[s \ {Pick(s)}]
  BY DEF IsSum
<1>2. 0 \in Same
  <2>1. ASSUME NEW s \in SUBSET Children, Cardinality(s) = 0 PROVE sf[s] \in Int /\ sg[s] = Moved(s)
    <3>1. s = {} /\ sf[s] = 0 /\ sg[s] = 0
      BY <1>1, <2>1, ChildrenSets
    <3> QED
      BY <3>1
  <2>2. 0 \in 0..N
    BY ChildrenSets
  <2> HIDE DEF Moved
  <2> QED
    BY <2>1, <2>2
<1>3. ASSUME NEW k \in 0..N, k < N, k \in Same PROVE k + 1 \in Same
  <2>1. ASSUME NEW s \in SUBSET Children, Cardinality(s) = k + 1 PROVE sf[s] \in Int /\ sg[s] = Moved(s)
    <3> DEFINE c == Pick(s)  r == s \ {Pick(s)}
    <3>1. s # {} /\ c \in s /\ c \in Children /\ r \in SUBSET Children /\ Cardinality(r) = k
      <4>1. k + 1 # 0 /\ (k + 1) - 1 = k
        OBVIOUS
      <4>2. s # {}
        <5>1. Cardinality(s) = 0 <=> s = {}
          BY ChildrenSets
        <5> QED
          BY <2>1, <4>1, <5>1
      <4>3. Pick(s) \in s /\ r \in SUBSET Children /\ Cardinality(r) = Cardinality(s) - 1
        BY <4>2, ChildrenSets
      <4> QED
        BY <2>1, <4>1, <4>2, <4>3
    <3>2. sf[r] \in Int /\ sg[r] = Moved(r)
      BY <1>3, <3>1
    <3>3. sf[s] = f[c] + sf[r] /\ sg[s] = g[c] + sg[r]
      BY <1>1, <3>1
    <3>4. /\ f[c] \in Int
          /\ g[c] = f[c] - (IF c = src THEN a ELSE 0) + (IF c = dst THEN a ELSE 0)
      BY <3>1 DEF IsMove
    <3>5. /\ src \in s <=> src \in r \/ src = c
          /\ dst \in s <=> dst \in r \/ dst = c
          /\ c \notin r
      BY <3>1
    <3> HIDE DEF c, r
    <3> QED
      BY <3>2, <3>3, <3>4, <3>5
  <2>2. k + 1 \in 0..N
    BY <1>3, ChildrenSets
  <2> HIDE DEF Moved
  <2> QED
    BY <2>1, <2>2
<1>4. N \in Same
  <2> HIDE DEF Same
  <2>1. \A k \in 0..N : k \in Same
    BY <1>2, <1>3, ChildrenSets, UpTo
  <2> QED
    BY <2>1, ChildrenSets
<1>5. Cardinality(Children) = N /\ Children \in SUBSET Children
  BY ChildrenSets
<1>6. sf[Children] \in Int /\ sg[Children] = Moved(Children)
  BY <1>4, <1>5
<1> QED
  BY <1>6

-----------------------------------------------------------------------------
(* The accounts after each order *)

\* An order carried out, and its first half.
Carried(b, order) ==
  [c \in Children |-> b[c] - (IF c = order.src THEN order.amount ELSE 0)
                           + (IF c = order.dst THEN order.amount ELSE 0)]

Taken(b, order) == [c \in Children |-> b[c] - (IF c = order.src THEN order.amount ELSE 0)]

IsRecord(after) ==
  /\ after \in [0..Len(Orders) -> [Children -> Int]]
  /\ after[0] = StartBalances
  /\ \A k \in 1..Len(Orders) : after[k] = Carried(after[k - 1], Orders[k])

After == CHOOSE after : IsRecord(after)

\* An order makes balances of balances.
LEMMA CarriedType ==
  ASSUME NEW b \in [Children -> Int], NEW k \in 1..Len(Orders)
  PROVE  Carried(b, Orders[k]) \in [Children -> Int] /\ Taken(b, Orders[k]) \in [Children -> Int]
<1>1. Orders[k].amount \in Int
  BY OrderFacts
<1> QED
  BY <1>1 DEF Carried, Taken

\* There is a record of the balances, one order after the other.
LEMMA AfterFacts == IsRecord(After)
<1> DEFINE n == Len(Orders)
           Records(k, f) == f[0] = StartBalances /\ \A l \in 1..k : f[l] = Carried(f[l - 1], Orders[l])
           Recordable == {k \in 0..n : \E f \in [0..k -> [Children -> Int]] : Records(k, f)}
<1>0. n \in Nat
  BY OrderFacts
<1>1. 0 \in Recordable
  <2> DEFINE f == [k \in 0..0 |-> StartBalances]
  <2>1. f \in [0..0 -> [Children -> Int]] /\ f[0] = StartBalances
    BY BankAssumption
  <2>2. Records(0, f) /\ 0 \in 0..n
    BY <1>0, <2>1
  <2> HIDE DEF f, Records, n
  <2> QED
    BY <2>1, <2>2
<1>2. ASSUME NEW k \in 0..n, k < n, k \in Recordable PROVE k + 1 \in Recordable
  <2>1. PICK f \in [0..k -> [Children -> Int]] : Records(k, f)
    BY <1>2
  <2> DEFINE g == [l \in 0..(k + 1) |-> IF l = k + 1 THEN Carried(f[k], Orders[k + 1]) ELSE f[l]]
  <2>2. k + 1 \in 1..n /\ k \in 0..k /\ k \in Nat
    BY <1>0, <1>2
  <2>3. Carried(f[k], Orders[k + 1]) \in [Children -> Int]
    BY <2>2, CarriedType
  <2>4. g \in [0..(k + 1) -> [Children -> Int]]
    <3>1. ASSUME NEW l \in 0..(k + 1), l # k + 1 PROVE f[l] \in [Children -> Int]
      BY <2>2, <3>1
    <3> QED
      BY <2>3, <3>1
  <2>5. ASSUME NEW l \in 1..(k + 1) PROVE g[l] = Carried(g[l - 1], Orders[l])
    <3>1. CASE l = k + 1
      <4>1. g[l] = Carried(f[k], Orders[k + 1]) /\ g[l - 1] = f[k]
        BY <2>2, <3>1
      <4> QED
        BY <3>1, <4>1
    <3>2. CASE l # k + 1
      <4>1. l \in 1..k /\ g[l] = f[l] /\ g[l - 1] = f[l - 1]
        BY <2>2, <3>2
      <4> QED
        BY <2>1, <4>1
    <3> QED
      BY <3>1, <3>2
  <2>6. g[0] = StartBalances
    BY <2>1, <2>2
  <2>7. Records(k + 1, g) /\ k + 1 \in 0..n
    <3> HIDE DEF g
    <3>1. k + 1 \in 0..n
      BY <2>2
    <3> QED
      BY <2>5, <2>6, <3>1
  <2> HIDE DEF g, Records, n
  <2> QED
    BY <2>4, <2>7
<1>3. n \in Recordable
  <2> HIDE DEF Recordable, n
  <2>1. \A k \in 0..n : k \in Recordable
    BY <1>0, <1>1, <1>2, UpTo
  <2> QED
    BY <1>0, <2>1
<1>4. \E f : IsRecord(f)
  BY <1>3 DEF IsRecord
<1> QED
  BY <1>4 DEF After

\* The entries of the record.
LEMMA AfterType ==
  /\ Len(Orders) \in Nat
  /\ After[0] = StartBalances
  /\ \A k \in 0..Len(Orders) : After[k] \in [Children -> Int]
  /\ \A k \in 1..Len(Orders) :
       /\ k - 1 \in 0..Len(Orders)
       /\ After[k] = Carried(After[k - 1], Orders[k])
BY AfterFacts, OrderFacts DEF IsRecord

\* No order changes the sum of the balances.
LEMMA AfterSum ==
  ASSUME NEW k \in 0..Len(Orders), NEW first, IsSum(StartBalances, first),
         NEW sum, IsSum(After[k], sum)
  PROVE  sum[Children] = first[Children]
<1> DEFINE n == Len(Orders)
           Equal == {l \in 0..n : \A s : IsSum(After[l], s) => s[Children] = first[Children]}
<1>0. n \in Nat
  BY OrderFacts
<1>1. ASSUME NEW f \in [Children -> Int], NEW g \in [Children -> Int], NEW l \in 1..n,
             g = Carried(f, Orders[l]), NEW s, IsSum(f, s), NEW t, IsSum(g, t)
      PROVE  t[Children] = s[Children]
  <2> DEFINE a == Orders[l].amount  src == Orders[l].src  dst == Orders[l].dst
  <2>1. a \in Int /\ src \in Children /\ dst \in Children
    BY OrderFacts DEF Order
  <2>2. IsMove(f, g, src, dst, a)
    BY <1>1 DEF Carried, IsMove
  <2>3. IsSum(f, s) /\ IsSum(g, t)
    BY <1>1
  <2> HIDE DEF a, src, dst
  <2> QED
    BY <2>1, <2>2, <2>3, SumMoved
<1>2. ASSUME NEW f \in [Children -> Int], NEW s, IsSum(f, s), NEW t, IsSum(f, t)
      PROVE  t[Children] = s[Children]
  <2>1. 1 \in Children /\ 0 \in Int /\ IsMove(f, f, 1, 1, 0)
    BY NAssumption DEF Children, IsMove
  <2> QED
    BY <1>2, <2>1, SumMoved
<1>3. 0 \in Equal
  <2>1. 0 \in 0..n
    BY <1>0
  <2>2. After[0] = StartBalances /\ StartBalances \in [Children -> Int]
    BY AfterType, BankAssumption
  <2>3. ASSUME NEW s, IsSum(StartBalances, s) PROVE s[Children] = first[Children]
    BY <1>2, <2>2, <2>3
  <2> QED
    BY <2>1, <2>2, <2>3
<1>4. ASSUME NEW l \in 0..n, l < n, l \in Equal PROVE l + 1 \in Equal
  <2>1. l + 1 \in 1..n /\ l + 1 \in 0..n /\ (l + 1) - 1 = l
    BY <1>0, <1>4
  <2>2. After[l] \in [Children -> Int] /\ After[l + 1] \in [Children -> Int]
        /\ After[l + 1] = Carried(After[l], Orders[l + 1])
    <3>1. After[l] \in [Children -> Int] /\ After[l + 1] \in [Children -> Int]
      BY <2>1, AfterType
    <3>2. After[l + 1] = Carried(After[(l + 1) - 1], Orders[l + 1])
      BY <2>1, AfterType
    <3> QED
      BY <2>1, <3>1, <3>2
  <2>3. PICK s : IsSum(After[l], s)
    BY <2>2, SumExists
  <2>4. s[Children] = first[Children]
    BY <1>4, <2>3
  <2>5. ASSUME NEW t, IsSum(After[l + 1], t) PROVE t[Children] = first[Children]
    <3> DEFINE f == After[l]  g == After[l + 1]  k1 == l + 1
    <3>1. /\ f \in [Children -> Int] /\ g \in [Children -> Int] /\ k1 \in 1..n
          /\ g = Carried(f, Orders[k1]) /\ IsSum(f, s) /\ IsSum(g, t)
      BY <2>1, <2>2, <2>3, <2>5
    <3> HIDE DEF f, g, k1
    <3>2. t[Children] = s[Children]
      BY ONLY <1>1, <3>1
    <3> QED
      BY <2>4, <3>2
  <2> QED
    BY <2>1, <2>5
<1>5. k \in Equal
  <2>1. \A l \in 0..n : l \in Equal
    <3> HIDE DEF Equal, n
    <3> QED
      BY <1>0, <1>3, <1>4, UpTo
  <2> QED
    BY <2>1
<1> QED
  BY <1>5

\* The sum that the parent prints for time t is that of the entries.
LEMMA ShownIsSum ==
  ASSUME NEW t, NEW f \in [Children -> Int],
         \A c \in Children : f[c] = all_history[c].s_history[t].s_balance
                                      + all_history[c].s_history[t].s_balance_pending_in
  PROVE  \E sum : IsSum(f, sum) /\ ShownAt(t) = sum[Children]
<1> DEFINE Entry(c) == all_history[c].s_history[t].s_balance
                         + all_history[c].s_history[t].s_balance_pending_in
           Sums(sum) == sum = [s \in SUBSET Children |->
                                 IF s = {} THEN 0 ELSE Entry(Pick(s)) + sum[s \ {Pick(s)}]]
<1>1. ShownAt(t) = (CHOOSE sum : Sums(sum))[Children]
  BY SMT DEF ShownAt, MapThenSumSet, MapThenFoldSet, Pick
<1>2. ASSUME NEW sum PROVE Sums(sum) <=> IsSum(f, sum)
  <2> DEFINE u == [s \in SUBSET Children |-> IF s = {} THEN 0 ELSE Entry(Pick(s)) + sum[s \ {Pick(s)}]]
             v == [s \in SUBSET Children |-> IF s = {} THEN 0 ELSE f[Pick(s)] + sum[s \ {Pick(s)}]]
  <2>1. \A s \in SUBSET Children : s # {} => Pick(s) \in Children
    BY ChildrenSets
  <2>2. \A s \in SUBSET Children : u[s] = v[s]
    BY <2>1
  <2>3. u = v
    BY <2>2
  <2> QED
    BY <2>3 DEF IsSum
<1>3. \E sum : Sums(sum)
  BY <1>2, SumExists
<1> HIDE DEF Sums
<1>4. Sums(CHOOSE sum : Sums(sum))
  BY <1>3
<1> QED
  BY <1>1, <1>2, <1>4

\* The entries of time t that are the balances after k orders show all the money.
LEMMA ShownIsTotal ==
  ASSUME NEW t, NEW k \in 0..Len(Orders),
         \A c \in Children : After[k][c] = all_history[c].s_history[t].s_balance
                                           + all_history[c].s_history[t].s_balance_pending_in
  PROVE  ShownAt(t) = Total
<1> DEFINE first == CHOOSE sum : IsSum(StartBalances, sum)
<1>1. After[k] \in [Children -> Int]
  BY AfterType
<1>2. PICK shown : IsSum(After[k], shown) /\ ShownAt(t) = shown[Children]
  BY <1>1, ShownIsSum
<1>3. IsSum(StartBalances, first)
  BY BankAssumption, SumExists
<1>4. Total = first[Children]
  BY DEF Total, MapThenSumSet, MapThenFoldSet, IsSum, Pick
<1> HIDE DEF first
<1> QED
  BY <1>2, <1>3, <1>4, AfterSum

-----------------------------------------------------------------------------
(* The accounts while an order is carried out *)

Accounts(w) ==
  balance = IF w = "over" THEN Taken(After[ordered - 1], Orders[ordered]) ELSE After[Credited(w)]

\* The two halves of an order, as the handlers carry them out.
LEMMA Halves ==
  ASSUME NEW b \in [Children -> Int], NEW k \in 1..Len(Orders)
  PROVE  /\ [b EXCEPT ![Orders[k].src] = @ - Orders[k].amount] = Taken(b, Orders[k])
         /\ [Taken(b, Orders[k]) EXCEPT ![Orders[k].dst] = @ + Orders[k].amount] = Carried(b, Orders[k])
<1> DEFINE order == Orders[k]  t == Taken(b, order)
           l == [b EXCEPT ![order.src] = @ - order.amount]
           r == [t EXCEPT ![order.dst] = @ + order.amount]
<1>1. order.src \in Children /\ order.dst \in Children /\ order.src # order.dst /\ order.amount \in Int
  BY OrderFacts DEF Order
<1> HIDE DEF order
<1>2. \A c \in Children : l[c] = t[c]
  BY <1>1 DEF Taken
<1>3. l = t
  BY <1>2 DEF Taken
<1>4. t \in [Children -> Int]
  BY <1>1 DEF Taken
<1>5. \A c \in Children : r[c] = Carried(b, order)[c]
  BY <1>1 DEF Taken, Carried
<1>6. r = Carried(b, order)
  <2>1. DOMAIN r = Children
    BY <1>4
  <2> HIDE DEF t
  <2> QED
    BY <1>4, <1>5, <2>1 DEF Carried
<1> QED
  BY <1>3, <1>6 DEF order

\* Every step of the protocol keeps the accounts at the record.
LEMMA AccountsNext ==
  ASSUME NEW w \in Where, NEW v \in Where, ProtocolInv(w), Transacts(w, v), Accounts(w)
  PROVE  Accounts(v)'
<1>1. StateTypes /\ Progress(w) /\ ordered \in 0..Len(Orders) /\ Len(Orders) \in Nat
  BY OrderFacts DEF ProtocolInv, StateTypes
<1>2. ASSUME w # "none"
      PROVE  /\ ordered \in 1..Len(Orders) /\ ordered - 1 \in 0..Len(Orders)
             /\ Orders[ordered].src \in Children /\ Orders[ordered].dst \in Children
             /\ Orders[ordered].src # Orders[ordered].dst /\ Orders[ordered].amount \in Int
             /\ After[ordered - 1] \in [Children -> Int]
             /\ After[ordered] = Carried(After[ordered - 1], Orders[ordered])
  <2>1. /\ ordered \in 1..Len(Orders) /\ ordered - 1 \in 0..Len(Orders)
        /\ Orders[ordered].src \in Children /\ Orders[ordered].dst \in Children
        /\ Orders[ordered].src # Orders[ordered].dst
    BY <1>1, <1>2, CurrentOrder DEF Src, Dst
  <2> QED
    BY <2>1, AfterType, OrderFacts
<1>3. CASE v = w /\ ordered' = ordered /\ balance' = balance
  BY <1>3 DEF Accounts, Credited
<1>4. CASE w = "none" /\ v = "out" /\ ordered' = ordered + 1 /\ balance' = balance
  <2>1. ordered' - 1 = ordered
    BY <1>1, <1>4
  <2>2. balance = After[ordered]
    BY <1>4 DEF Accounts, Credited
  <2> QED
    BY <1>4, <2>1, <2>2 DEF Accounts, Credited
<1>5. CASE w = "out" /\ v = "over" /\ ordered' = ordered /\ Debits
  <2>1. balance = After[ordered - 1]
    BY <1>5 DEF Accounts, Credited
  <2>2. balance' = Taken(After[ordered - 1], Orders[ordered])
    BY <1>2, <1>5, <2>1, Halves DEF Debits
  <2> QED
    BY <1>5, <2>2 DEF Accounts
<1>6. CASE w = "over" /\ v = "back" /\ ordered' = ordered /\ Credits
  <2>1. balance = Taken(After[ordered - 1], Orders[ordered])
    BY <1>6 DEF Accounts
  <2>2. balance' = Carried(After[ordered - 1], Orders[ordered])
    BY <1>2, <1>6, <2>1, Halves DEF Credits
  <2> QED
    BY <1>2, <1>6, <2>2 DEF Accounts, Credited
<1>7. CASE w = "back" /\ v = "none" /\ ordered' = ordered /\ balance' = balance
  BY <1>7 DEF Accounts, Credited
<1> QED
  BY <1>3, <1>4, <1>5, <1>6, <1>7 DEF Transacts

=============================================================================
