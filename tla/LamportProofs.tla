---------------------------- MODULE LamportProofs ----------------------------
(***************************************************************************)
(* Proofs about MutexLamport, for every number of children and iterations: *)
(* its types, exclusion, the scan of its queue, the times of its messages, *)
(* the service of Mutex, the order of the grants, what its pipes hold, and *)
(* its assertions.                                                         *)
(***************************************************************************)
EXTENDS MutexLamport, ChildProofs, FiniteSetTheorems

-----------------------------------------------------------------------------
(* Type correctness.                                                         *)

TypeInv == TypeOK /\ ChildInv

\* The state after the forks of main.c has its type.
LEMMA TypeInit == Init => TypeInv
<1> SUFFICES ASSUME Init PROVE TypeInv
  OBVIOUS
<1>1. ChildInv
  BY ChildInitType DEF Init
<1>2. /\ queue \in [Children -> [Children -> Nat]]
      /\ last_request_reply_count \in [Children -> Nat]
  BY DEF Init, EMPTY_REQUEST_TIME
<1> QED
  BY <1>1, <1>2 DEF TypeInv, TypeOK, ChildInv

\* The steps outside mutex.c keep the types.
LEMMA SkeletonType ==
  ASSUME TypeInv, ChildInv', UNCHANGED mutexVars
  PROVE  TypeInv'
BY DEF TypeInv, TypeOK, ChildInv, mutexVars

\* Enqueuing and answering a CS_REQUEST keeps the types.
LEMMA AcceptRequestType ==
  ASSUME TypeInv, NEW p \in Children, NEW f \in Procs, NEW label, NEW types,
         Take(p, f, label, types), AcceptRequest(p, f, Oldest(p, f).time)
  PROVE  IpcTypeOK' /\ lamport_time' \in [Procs -> Nat] /\ queue' \in [Children -> [Children -> Nat]]
<1> USE ProcsFacts
<1>1. IpcTypeOK'
  BY TakeType, PostType DEF AcceptRequest, send, TypeInv, TypeOK, ChildInv, ChildTypeOK, IpcTypeOK
<1>2. lamport_time' \in [Procs -> Nat]
  BY TakeType DEF AcceptRequest, TypeInv, TypeOK, ChildInv, ChildTypeOK
<1>3. queue' \in [Children -> [Children -> Nat]]
  BY TakeType DEF AcceptRequest, TypeInv, TypeOK, ChildInv
<1> QED
  BY <1>1, <1>2, <1>3

\* Removing the entry of a CS_RELEASE keeps the types.
LEMMA AcceptReleaseType ==
  ASSUME TypeInv, NEW p \in Children, NEW f \in Procs, NEW label, NEW types,
         Take(p, f, label, types), AcceptRelease(p, f, Oldest(p, f).time)
  PROVE  IpcTypeOK' /\ lamport_time' \in [Procs -> Nat] /\ queue' \in [Children -> [Children -> Nat]]
<1> USE ProcsFacts
<1>1. IpcTypeOK'
  BY TakeType DEF AcceptRelease, TypeInv, TypeOK, ChildInv, ChildTypeOK, IpcTypeOK
<1>2. lamport_time' \in [Procs -> Nat]
  BY TakeType DEF AcceptRelease, TypeInv, TypeOK, ChildInv, ChildTypeOK
<1>3. queue' \in [Children -> [Children -> Nat]]
  BY TakeType DEF AcceptRelease, TypeInv, TypeOK, ChildInv, EMPTY_REQUEST_TIME
<1> QED
  BY <1>1, <1>2, <1>3

\* The test at the end of the loop of request_cs() keeps the types.
LEMMA ReturnIfFirstType ==
  ASSUME TypeInv, NEW p \in Children, pc[p] = "request", NEW q, NEW n \in Nat, ReturnIfFirst(p, q, n)
  PROVE  /\ pc' \in [Procs -> Label]
         /\ \A c \in Children : pc'[c] \in {"ask", "request", "cs"} => pc[c] \in {"ask", "request", "cs"}
         /\ last_request_reply_count' \in [Children -> Nat]
BY ProcsFacts DEF ReturnIfFirst, Goto, Label, TypeInv, TypeOK, ChildInv, ChildTypeOK

\* A failed assert() keeps the types.
LEMMA AbortType ==
  ASSUME TypeInv, NEW p \in Children, NEW f \in Procs, NEW label, NEW types,
         Take(p, f, label, types), Abort(p), UNCHANGED awaiting_children
  PROVE  TypeInv'
<1> USE ProcsFacts
<1>1. IpcTypeOK'
  BY TakeType DEF Abort, TypeInv, TypeOK, ChildInv, ChildTypeOK, IpcTypeOK
<1>2. /\ pc' \in [Procs -> Label]
      /\ \A c \in Children : pc'[c] \in {"ask", "request", "cs"} => pc[c] \in {"ask", "request", "cs"}
  BY DEF Abort, Goto, Label, TypeInv, TypeOK, ChildInv, ChildTypeOK
<1> QED
  BY <1>1, <1>2, TakeType DEF Abort, TypeInv, TypeOK, ChildInv, ChildTypeOK

\* The steps of pa4/mutex.c keep the types.
LEMMA MutexStepType ==
  ASSUME TypeInv, NEW p \in Children, MutexStep(p)
  PROVE  TypeInv'
<1> USE NAssumption, ChildAssumption, ProcsFacts
<1>a. /\ lamport_time[p] \in Nat
      /\ lamport_time[p] + 1 \in Nat
      /\ [type |-> "CS_REQUEST", time |-> lamport_time[p] + 1] \in Message
      /\ [type |-> "CS_RELEASE", time |-> lamport_time[p] + 1] \in Message
  BY DEF TypeInv, TypeOK, ChildInv, ChildTypeOK, Message, MessageType
<1>1. CASE BeginRequest(p)
  <2>1. IpcTypeOK'
    BY <1>1, <1>a, PostType DEF BeginRequest, ipc_multicast_to_children, TypeInv, TypeOK, ChildInv, ChildTypeOK, IpcTypeOK
  <2>2. lamport_time' \in [Procs -> Nat]
    BY <1>1, <1>a DEF BeginRequest, TypeInv, TypeOK, ChildInv, ChildTypeOK
  <2>3. queue' \in [Children -> [Children -> Nat]]
    <3>1. queue' = queue \/ queue' = [queue EXCEPT ![p][p] = lamport_time[p] + 1]
      BY <1>1 DEF BeginRequest
    <3> QED
      BY <3>1, <1>a DEF TypeInv, TypeOK, ChildInv
  <2>4. /\ pc' \in [Procs -> Label]
        /\ \A c \in Children : pc'[c] \in {"ask", "request", "cs"} => c = p \/ pc[c] \in {"ask", "request", "cs"}
    BY <1>1 DEF BeginRequest, Goto, Label, TypeInv, TypeOK, ChildInv, ChildTypeOK
  <2> QED
    BY <1>1, <2>1, <2>2, <2>3, <2>4 DEF BeginRequest, HasIteration, TypeInv, TypeOK, ChildInv, ChildTypeOK
<1>2. CASE Release(p)
  <2>1. IpcTypeOK'
    BY <1>2, <1>a, PostType DEF Release, Abort, ipc_multicast_to_children, TypeInv, TypeOK, ChildInv, ChildTypeOK, IpcTypeOK
  <2>2. lamport_time' \in [Procs -> Nat]
    <3>1. \/ lamport_time' = lamport_time
          \/ lamport_time' = [lamport_time EXCEPT ![p] = lamport_time[p] + 1]
      BY <1>2 DEF Release, Abort
    <3> QED
      BY <3>1, <1>a DEF TypeInv, TypeOK, ChildInv, ChildTypeOK
  <2>3. queue' \in [Children -> [Children -> Nat]]
    <3>1. queue' = queue \/ queue' = [queue EXCEPT ![p][p] = EMPTY_REQUEST_TIME]
      BY <1>2 DEF Release, Abort
    <3> QED
      BY <3>1 DEF TypeInv, TypeOK, ChildInv, EMPTY_REQUEST_TIME
  <2>4. /\ pc' \in [Procs -> Label]
        /\ \A c \in Children : pc'[c] \in {"ask", "request", "cs"} => c # p /\ pc[c] \in {"ask", "request", "cs"}
    BY <1>2 DEF Release, Abort, Goto, Label, TypeInv, TypeOK, ChildInv, ChildTypeOK
  <2>5. i[p] <= Iterations[p]
    BY <1>2 DEF Release, InCS, TypeInv, ChildInv
  <2>6. /\ i' \in [Children -> Nat]
        /\ \A c \in Children : i'[c] \in 1..(Iterations[c] + 1) /\ (c # p => i'[c] = i[c])
    BY <1>2, <2>5 DEF Release, TypeInv, TypeOK, ChildInv, ChildTypeOK
  <2>7. last_request_reply_count' = last_request_reply_count
    BY <1>2 DEF Release, Abort
  <2> QED
    BY <1>2, <2>1, <2>2, <2>3, <2>4, <2>6, <2>7 DEF Release, TypeInv, TypeOK, ChildInv, ChildTypeOK
<1>3. ASSUME NEW f \in Procs \ {p}, RequestTakesReply(p, f)
      PROVE  TypeInv'
  <2>0. pc[p] = "request" /\ last_request_reply_count[p] + 1 \in Nat
    BY <1>3 DEF RequestTakesReply, Take, TypeInv, TypeOK, ChildInv
  <2>1. IpcTypeOK' /\ lamport_time' \in [Procs -> Nat]
    BY <1>3, TakeType DEF RequestTakesReply, TypeInv, TypeOK, ChildInv, ChildTypeOK, IpcTypeOK
  <2> QED
    BY <1>3, <2>0, <2>1, ReturnIfFirstType, TakeType DEF RequestTakesReply, TypeInv, TypeOK, ChildInv, ChildTypeOK
<1>4. ASSUME NEW f \in Procs \ {p}, RequestTakesRequest(p, f)
      PROVE  TypeInv'
  <2>0. pc[p] = "request" /\ last_request_reply_count[p] \in Nat
    BY <1>4 DEF RequestTakesRequest, Take, TypeInv, TypeOK, ChildInv
  <2>1. CASE queue_contains(queue[p], f)
    BY <1>4, <2>1, AbortType DEF RequestTakesRequest
  <2>2. CASE ~queue_contains(queue[p], f)
    BY <1>4, <2>0, <2>2, AcceptRequestType, ReturnIfFirstType, TakeType DEF RequestTakesRequest, TypeInv, TypeOK, ChildInv, ChildTypeOK
  <2> QED
    BY <2>1, <2>2
<1>5. ASSUME NEW f \in Procs \ {p}, RequestTakesRelease(p, f)
      PROVE  TypeInv'
  <2>0. pc[p] = "request" /\ last_request_reply_count[p] \in Nat
    BY <1>5 DEF RequestTakesRelease, Take, TypeInv, TypeOK, ChildInv
  <2>1. CASE ~queue_contains(queue[p], f)
    BY <1>5, <2>1, AbortType DEF RequestTakesRelease
  <2>2. CASE queue_contains(queue[p], f)
    BY <1>5, <2>0, <2>2, AcceptReleaseType, ReturnIfFirstType, TakeType DEF RequestTakesRelease, TypeInv, TypeOK, ChildInv, ChildTypeOK
  <2> QED
    BY <2>1, <2>2
<1>6. ASSUME NEW f \in Procs \ {p}, RequestTakesOther(p, f)
      PROVE  TypeInv'
  <2>0. pc[p] = "request" /\ "request" \in Label
    BY <1>6 DEF RequestTakesOther, Take, Label
  <2>1. IpcTypeOK'
    BY <1>6, TakeType DEF RequestTakesOther, TypeInv, TypeOK, ChildInv, ChildTypeOK, IpcTypeOK
  <2>2. lamport_time' \in [Procs -> Nat]
    BY <1>6, TakeType DEF RequestTakesOther, TypeInv, TypeOK, ChildInv, ChildTypeOK
  <2> QED
    BY <1>6, <2>0, <2>1, <2>2, CountDoneType, TakeType DEF RequestTakesOther, TypeInv, TypeOK, ChildInv, ChildTypeOK
<1>7. ASSUME NEW f \in Procs \ {p}, DrainTakesRequest(p, f)
      PROVE  TypeInv'
  <2>1. CASE queue_contains(queue[p], f)
    BY <1>7, <2>1, AbortType DEF DrainTakesRequest
  <2>2. CASE ~queue_contains(queue[p], f)
    BY <1>7, <2>2, AcceptRequestType, TakeType DEF DrainTakesRequest, TypeInv, TypeOK, ChildInv, ChildTypeOK
  <2> QED
    BY <2>1, <2>2
<1>8. ASSUME NEW f \in Procs \ {p}, DrainTakesRelease(p, f)
      PROVE  TypeInv'
  <2>1. CASE ~queue_contains(queue[p], f)
    BY <1>8, <2>1, AbortType DEF DrainTakesRelease
  <2>2. CASE queue_contains(queue[p], f)
    BY <1>8, <2>2, AcceptReleaseType, TakeType DEF DrainTakesRelease, TypeInv, TypeOK, ChildInv, ChildTypeOK
  <2> QED
    BY <2>1, <2>2
<1>9. ASSUME NEW f \in Procs \ {p}, NEW types, DrainTakesOther(p, f, types), UNCHANGED mutexVars
      PROVE  TypeInv'
  BY <1>9, DrainTakesOtherType, SkeletonType DEF TypeInv
<1> QED
  BY <1>1, <1>2, <1>3, <1>4, <1>5, <1>6, <1>7, <1>8, <1>9 DEF MutexStep

\* The typing is inductive.
LEMMA TypeNext == TypeInv /\ [Next]_vars => TypeInv'
<1> SUFFICES ASSUME TypeInv, [Next]_vars PROVE TypeInv'
  OBVIOUS
<1>1. ASSUME NEW p \in Children, ChildNext(p) PROVE TypeInv'
  BY <1>1, ChildStepType, MutexStepType, SkeletonType DEF ChildNext, TypeInv
<1>2. CASE ParentNext
  BY <1>2, ParentStepType, SkeletonType DEF ParentNext, TypeInv
<1>3. CASE UNCHANGED vars
  BY <1>3 DEF vars, childVars, mutexVars, TypeInv, ChildInv, TypeOK, ChildTypeOK, IpcTypeOK
<1> QED
  BY <1>1, <1>2, <1>3 DEF Next

\* The state of the program stays in its type: in particular no child runs more
\* iterations than iterations_count and the cursor of the receive_all loops of
\* pa1/ipcio.c never leaves the range of the children.
THEOREM TypeCorrect == Spec => []TypeOK
<1>1. TypeInv => TypeOK
  BY DEF TypeInv
<1> QED
  BY <1>1, TypeInit, TypeNext, PTL DEF Spec

-----------------------------------------------------------------------------
(* What the tests on a sequence of messages say after a receive and a send *)

\* A receive() preserves the order of what is under way.
LEMMA OrderTail ==
  ASSUME NEW s \in Seq(Message), s # <<>>
  PROVE  /\ RequestLast(s) => RequestLast(Tail(s))
         /\ AtMostOneReply(s) => AtMostOneReply(Tail(s))
         /\ \A z : RequestsCarry(s, z) => RequestsCarry(Tail(s), z)
         /\ RequestLast(s) /\ Head(s).type = "CS_REQUEST"
              => ~Contains(Tail(s), "CS_REQUEST") /\ ~Contains(Tail(s), "CS_RELEASE")
         /\ AtMostOneReply(s) /\ Head(s).type = "CS_REPLY" => ~Contains(Tail(s), "CS_REPLY")
         /\ \A z : RequestsCarry(s, z) /\ Head(s).type = "CS_REQUEST" => Head(s).time = z
<1> DEFINE t == Tail(s)
<1>1. /\ Len(s) \in Nat \ {0} /\ Len(t) = Len(s) - 1
      /\ Head(s) = s[1]
      /\ \A k \in 1..Len(t) : k + 1 \in 1..Len(s) /\ t[k] = s[k + 1]
      /\ 1 \in 1..Len(s)
  OBVIOUS
<1>2. RequestLast(s) => RequestLast(t)
  BY <1>1 DEF RequestLast
<1>3. AtMostOneReply(s) => AtMostOneReply(t)
  BY <1>1 DEF AtMostOneReply
<1>4. ASSUME NEW z, RequestsCarry(s, z) PROVE RequestsCarry(t, z)
  BY <1>1, <1>4 DEF RequestsCarry
<1>5. ASSUME RequestLast(s), Head(s).type = "CS_REQUEST",
             NEW k \in 1..Len(t), t[k].type \in {"CS_REQUEST", "CS_RELEASE"}
      PROVE  FALSE
  BY <1>1, <1>5 DEF RequestLast
<1>6. ASSUME AtMostOneReply(s), Head(s).type = "CS_REPLY", NEW k \in 1..Len(t), t[k].type = "CS_REPLY"
      PROVE  FALSE
  BY <1>1, <1>6 DEF AtMostOneReply
<1>7. ASSUME NEW z, RequestsCarry(s, z), Head(s).type = "CS_REQUEST" PROVE Head(s).time = z
  BY <1>1, <1>7 DEF RequestsCarry
<1> QED
  BY <1>2, <1>3, <1>4, <1>5, <1>6, <1>7 DEF Contains

\* A send preserves it under these conditions.
LEMMA OrderAppend ==
  ASSUME NEW s \in Seq(Message), NEW m \in Message
  PROVE  /\ RequestLast(s) /\ m.type \notin {"CS_REQUEST", "CS_RELEASE"} => RequestLast(Append(s, m))
         /\ ~Contains(s, "CS_REQUEST") => RequestLast(Append(s, m))
         /\ AtMostOneReply(s) /\ (m.type # "CS_REPLY" \/ ~Contains(s, "CS_REPLY"))
              => AtMostOneReply(Append(s, m))
         /\ \A z : RequestsCarry(s, z) /\ (m.type = "CS_REQUEST" => m.time = z)
              => RequestsCarry(Append(s, m), z)
<1> DEFINE t == Append(s, m)
<1>1. /\ Len(s) \in Nat /\ Len(t) = Len(s) + 1
      /\ \A k \in 1..Len(t) : (k \in 1..Len(s) /\ t[k] = s[k]) \/ (k = Len(s) + 1 /\ t[k] = m)
  OBVIOUS
<1> HIDE DEF t
<1>2. ASSUME RequestLast(s), m.type \notin {"CS_REQUEST", "CS_RELEASE"} PROVE RequestLast(t)
  BY <1>1, <1>2 DEF RequestLast
<1>3. ASSUME ~Contains(s, "CS_REQUEST") PROVE RequestLast(t)
  BY <1>1, <1>3 DEF RequestLast, Contains
<1>4. ASSUME AtMostOneReply(s), m.type # "CS_REPLY" \/ ~Contains(s, "CS_REPLY") PROVE AtMostOneReply(t)
  BY <1>1, <1>4 DEF AtMostOneReply, Contains
<1>5. ASSUME NEW z, RequestsCarry(s, z), m.type = "CS_REQUEST" => m.time = z PROVE RequestsCarry(t, z)
  BY <1>1, <1>5 DEF RequestsCarry
<1> QED
  BY <1>2, <1>3, <1>4, <1>5 DEF t

\* A sequence without a CS_REQUEST passes the tests on them.
LEMMA OrderNone ==
  ASSUME NEW s, ~Contains(s, "CS_REQUEST")
  PROVE  RequestLast(s) /\ \A z : RequestsCarry(s, z)
BY DEF Contains, RequestLast, RequestsCarry

-----------------------------------------------------------------------------
(* Steps that leave the mutual exclusion alone *)

\* t says the same about critical sections as s.
SameMail(s, t) ==
  /\ \A x \in {"CS_REQUEST", "CS_RELEASE", "CS_REPLY"} : Contains(t, x) <=> Contains(s, x)
  /\ RequestLast(s) => RequestLast(t)
  /\ AtMostOneReply(s) => AtMostOneReply(t)
  /\ \A z : RequestsCarry(s, z) => RequestsCarry(t, z)

\* t has lost the newest message of s.
Cut(s, t) ==
  /\ \A x \in {"CS_REQUEST", "CS_RELEASE", "CS_REPLY"} : Contains(t, x) => Contains(s, x)
  /\ AtMostOneReply(s) => AtMostOneReply(t)

\* t has lost the oldest message of s.
Shrunk(s, t) ==
  /\ \A x \in {"CS_REQUEST", "CS_RELEASE", "CS_REPLY"} : Contains(t, x) => Contains(s, x)
  /\ RequestLast(s) => RequestLast(t)
  /\ RequestLast(s) /\ Contains(t, "CS_RELEASE") /\ ~Contains(t, "CS_REQUEST")
       => ~Contains(s, "CS_REQUEST")
  /\ AtMostOneReply(s) => AtMostOneReply(t)
  /\ \A z : RequestsCarry(s, z) => RequestsCarry(t, z)

\* The sets of children that count replies are finite.
LEMMA OutstandingFinite ==
  ASSUME NEW p \in Children
  PROVE  IsFiniteSet(Outstanding(p)) /\ Cardinality(Outstanding(p)) \in Nat
<1>1. IsFiniteSet(Children)
  BY FS_Interval, NAssumption DEF Children
<1>2. Outstanding(p) \subseteq Children
  BY DEF Outstanding
<1> QED
  BY <1>1, <1>2, FS_Subset, FS_CardinalityType

\* A step that changes neither the queues nor what is under way about critical
\* sections.
LEMMA NeutralStep ==
  ASSUME TypeInv, MutexInv,
         \A a, b \in Children : SameMail(Link(a, b), Link(a, b)'),
         ParentSilent',
         UNCHANGED mutexVars,
         \A c \in Children :
           Live(c)' => /\ Live(c)
                       /\ pc'[c] = "request" <=> pc[c] = "request"
                       /\ pc'[c] = "cs" <=> pc[c] = "cs"
  PROVE  MutexInv'
<1> USE DEF mutexVars
<1>1. OwnRequest'
  BY DEF MutexInv, OwnRequest, queue_contains
<1>2. \A p \in Children : Outstanding(p)' = Outstanding(p)
  BY DEF Outstanding, Carries, SameMail
<1>3. ReplyAccounting'
  BY <1>2 DEF MutexInv, ReplyAccounting
<1>4. LinksInOrder'
  <2> SUFFICES ASSUME NEW p \in Children, NEW q \in Children, p # q, Live(p)'
               PROVE  LinkOrder(p, q)'
    BY DEF LinksInOrder
  <2>1. LinkOrder(p, q)
    BY DEF MutexInv, LinksInOrder
  <2> QED
    BY <2>1 DEF LinkOrder, Carries, SameMail, queue_contains
<1>5. QueueAgreement'
  BY DEF MutexInv, QueueAgreement, Carries, SameMail
<1>6. FirstInside'
  BY DEF MutexInv, FirstInside, Live, IsTop, queue_contains
<1> QED
  BY <1>1, <1>3, <1>4, <1>5, <1>6 DEF MutexInv

\* A process ends, and something of what was under way to it or from it with it.
LEMMA DeathStep ==
  ASSUME TypeInv, MutexInv, NEW p \in Children, ~Live(p)',
         \A c \in Children \ {p} : pc'[c] = pc[c],
         \A a, b \in Children :
           /\ IF a = p THEN Cut(Link(a, b), Link(a, b)') ELSE Shrunk(Link(a, b), Link(a, b)')
           /\ a # p /\ b # p => Link(a, b)' = Link(a, b),
         ParentSilent',
         UNCHANGED mutexVars
  PROVE  MutexInv'
<1> USE DEF mutexVars
<1>0. \A c \in Children : Live(c)' => c # p /\ Live(c) /\ pc'[c] = pc[c]
  BY DEF Live
<1>1. OwnRequest'
  BY <1>0 DEF MutexInv, OwnRequest, queue_contains
<1>2. \A c \in Children : Outstanding(c)' \subseteq Outstanding(c)
  BY DEF Outstanding, Carries, Shrunk, Cut
<1>3. ReplyAccounting'
  <2> SUFFICES ASSUME NEW c \in Children, Live(c)'
               PROVE  (IF pc[c] = "request"
                         THEN last_request_reply_count[c] + Cardinality(Outstanding(c)) <= N - 1
                         ELSE Outstanding(c) = {} /\ last_request_reply_count[c] = 0)'
    BY DEF ReplyAccounting
  <2>1. Cardinality(Outstanding(c)') <= Cardinality(Outstanding(c))
    BY <1>2, OutstandingFinite, FS_Subset
  <2>2. /\ Cardinality(Outstanding(c)) \in Nat
        /\ Cardinality(Outstanding(c)') \in Nat
    BY <1>2, OutstandingFinite, FS_Subset, FS_CardinalityType
  <2>3. last_request_reply_count[c] \in Nat
    BY DEF TypeInv, TypeOK
  <2>4. IF pc[c] = "request"
          THEN last_request_reply_count[c] + Cardinality(Outstanding(c)) <= N - 1
          ELSE Outstanding(c) = {} /\ last_request_reply_count[c] = 0
    BY <1>0 DEF MutexInv, ReplyAccounting
  <2>5. CASE pc[c] = "request"
    BY <1>0, <2>1, <2>2, <2>3, <2>4, <2>5, NAssumption
  <2>6. CASE pc[c] # "request"
    BY <1>0, <1>2, <2>4, <2>6
  <2> QED
    BY <2>5, <2>6
<1>4. LinksInOrder'
  <2> SUFFICES ASSUME NEW a \in Children, NEW b \in Children, a # b, Live(a)'
               PROVE  LinkOrder(a, b)'
    BY DEF LinksInOrder
  <2>1. LinkOrder(a, b)
    BY <1>0 DEF MutexInv, LinksInOrder
  <2> QED
    BY <1>0, <2>1 DEF LinkOrder, Carries, Shrunk, Cut, queue_contains
<1>5. QueueAgreement'
  BY <1>0 DEF MutexInv, QueueAgreement, Carries
<1>6. FirstInside'
  BY <1>0 DEF MutexInv, FirstInside, Live, IsTop, queue_contains
<1> QED
  BY <1>1, <1>3, <1>4, <1>5, <1>6 DEF MutexInv

\* STARTED and DONE say nothing about critical sections.
LEMMA OtherMail ==
  ASSUME NEW s \in Seq(Message)
  PROVE  /\ SameMail(s, s)
         /\ s # <<>> /\ Head(s).type \in {"STARTED", "DONE"} => SameMail(s, Tail(s))
         /\ \A m \in Message : m.type \in {"STARTED", "DONE"} => SameMail(s, Append(s, m))
<1>1. SameMail(s, s)
  BY DEF SameMail
<1>2. ASSUME s # <<>>, Head(s).type \in {"STARTED", "DONE"} PROVE SameMail(s, Tail(s))
  BY <1>2, OrderTail, ContainsTail DEF SameMail
<1>3. ASSUME NEW m \in Message, m.type \in {"STARTED", "DONE"} PROVE SameMail(s, Append(s, m))
  BY <1>3, OrderAppend, ContainsAppend DEF SameMail
<1> QED
  BY <1>1, <1>2, <1>3

\* What is lost with a process is the oldest message to it or the newest from it.
LEMMA LostMail ==
  ASSUME NEW s \in Seq(Message)
  PROVE  /\ Shrunk(s, s) /\ Cut(s, s)
         /\ s # <<>> => Shrunk(s, Tail(s)) /\ Cut(s, Tail(s))
         /\ \A m \in Message : Cut(Append(s, m), s)
<1>1. Shrunk(s, s) /\ Cut(s, s)
  BY DEF Shrunk, Cut
<1>2. ASSUME s # <<>> PROVE Shrunk(s, Tail(s)) /\ Cut(s, Tail(s))
  BY <1>2, OrderTail, ContainsTail DEF Shrunk, Cut
<1>3. ASSUME NEW m \in Message PROVE Cut(Append(s, m), s)
  <2> DEFINE t == Append(s, m)
  <2>1. /\ Len(s) \in Nat /\ Len(t) = Len(s) + 1
        /\ \A k \in 1..Len(s) : k \in 1..Len(t) /\ t[k] = s[k]
    OBVIOUS
  <2>3. \A x : Contains(s, x) => Contains(t, x)
    BY ContainsAppend
  <2> HIDE DEF t
  <2>2. AtMostOneReply(t) => AtMostOneReply(s)
    BY <2>1 DEF AtMostOneReply
  <2> QED
    BY <2>2, <2>3 DEF Cut, t
<1> QED
  BY <1>1, <1>2, <1>3

\* A write() keeps what is under way or, on a broken pipe, ends the writer.
LEMMA WriteMutex ==
  ASSUME TypeInv, MutexInv, NEW p \in Children, Write(p), UNCHANGED mutexVars
  PROVE  MutexInv'
<1> USE ProcsFacts
<1>0. IpcTypeOK
  BY DEF TypeInv, TypeOK, ChildTypeOK
<1>1. PICK d \in Procs : NextDst(p, d)
                         /\ IF HungUp(d)
                              THEN /\ outbox' = [outbox EXCEPT ![p] = [e \in Procs |-> NoMessage]]
                                   /\ Goto(p, "killed")
                                   /\ UNCHANGED pipes
                              ELSE /\ pipes' = [pipes EXCEPT ![d][p] = Append(@, outbox[p][d])]
                                   /\ outbox' = [outbox EXCEPT ![p][d] = NoMessage]
                                   /\ UNCHANGED pc
  BY DEF Write
<1>2. CASE HungUp(d)
  <2>1. /\ outbox' = [outbox EXCEPT ![p] = [e \in Procs |-> NoMessage]]
        /\ Goto(p, "killed")
        /\ pipes' = pipes
    BY <1>1, <1>2
  <2>2. \A a, b \in Procs : Link(a, b)' = IF a = p THEN pipes[b][a] ELSE Link(a, b)
    BY <1>0, <2>1 DEF Link, IpcTypeOK
  <2>3. \A b \in Procs : Cut(Link(p, b), Link(p, b)')
    <3> SUFFICES ASSUME NEW b \in Procs PROVE Cut(Link(p, b), pipes[b][p])
      BY <2>2
    <3>1. pipes[b][p] \in Seq(Message) /\ outbox[p][b] \in Message \cup {NoMessage}
      BY <1>0 DEF IpcTypeOK
    <3> QED
      BY <3>1, LostMail DEF Link
  <2>4. ~Live(p)' /\ \A c \in Children \ {p} : pc'[c] = pc[c]
    BY <2>1 DEF Goto, Live, TypeInv, TypeOK, ChildTypeOK
  <2>5. ParentSilent'
    BY <2>2 DEF MutexInv, ParentSilent
  <2>6. \A a, b \in Children : Shrunk(Link(a, b), Link(a, b))
    BY <1>0, LinkType, LostMail
  <2>7. \A a, b \in Children :
          /\ IF a = p THEN Cut(Link(a, b), Link(a, b)') ELSE Shrunk(Link(a, b), Link(a, b)')
          /\ a # p /\ b # p => Link(a, b)' = Link(a, b)
    BY <2>2, <2>3, <2>6
  <2> QED
    BY <2>4, <2>5, <2>7, DeathStep
<1>3. CASE ~HungUp(d)
  <2>1. /\ pipes' = [pipes EXCEPT ![d][p] = Append(@, outbox[p][d])]
        /\ outbox' = [outbox EXCEPT ![p][d] = NoMessage]
        /\ pc' = pc
    BY <1>1, <1>3
  <2>2. \A a, b \in Procs : Link(a, b)' = Link(a, b)
    BY <1>0, <1>1, <2>1, LinkWrite DEF NextDst
  <2>3. \A a, b \in Children : SameMail(Link(a, b), Link(a, b)')
    BY <1>0, <2>2, LinkType, OtherMail
  <2>4. ParentSilent'
    BY <2>2 DEF MutexInv, ParentSilent
  <2> QED
    BY <2>1, <2>3, <2>4, NeutralStep DEF Live
<1> QED
  BY <1>2, <1>3

\* A child takes a STARTED or a DONE, or takes any message and ends.
LEMMA ReceiveMutex ==
  ASSUME TypeInv, MutexInv, NEW p \in Children, NEW f \in Procs, receive(p, f), outbox' = outbox,
         UNCHANGED mutexVars,
         \A c \in Children \ {p} : pc'[c] = pc[c],
         \/ ~Live(p)'
         \/ /\ Oldest(p, f).type \in {"STARTED", "DONE"}
            /\ Live(p)
            /\ pc'[p] = "request" <=> pc[p] = "request"
            /\ pc'[p] = "cs" <=> pc[p] = "cs"
  PROVE  MutexInv'
<1> USE ProcsFacts
<1>0. IpcTypeOK
  BY DEF TypeInv, TypeOK, ChildTypeOK
<1>1. \A a, b \in Procs : Link(a, b) \in Seq(Message)
  BY <1>0, LinkType
<1>2. Link(f, p) # <<>> /\ Oldest(p, f) = Head(Link(f, p))
  BY <1>0, LinkOldest
<1>3. \A a, b \in Procs : Link(a, b)' = IF a = f /\ b = p THEN Tail(Link(a, b)) ELSE Link(a, b)
  BY <1>0, LinkReceive
<1>4. f # PARENT_ID
  BY <1>2 DEF MutexInv, ParentSilent
<1>5. ParentSilent'
  BY <1>3, <1>4 DEF MutexInv, ParentSilent
<1>6. CASE ~Live(p)'
  <2>1. \A a, b \in Children :
          /\ Cut(Link(a, b), Link(a, b)) /\ Shrunk(Link(a, b), Link(a, b))
          /\ Link(a, b) # <<>> => /\ Shrunk(Link(a, b), Tail(Link(a, b)))
                                  /\ Cut(Link(a, b), Tail(Link(a, b)))
    BY <1>1, LostMail
  <2>2. \A a, b \in Children :
          /\ IF a = p THEN Cut(Link(a, b), Link(a, b)') ELSE Shrunk(Link(a, b), Link(a, b)')
          /\ a # p /\ b # p => Link(a, b)' = Link(a, b)
    BY <1>2, <1>3, <2>1
  <2> QED
    BY <1>5, <1>6, <2>2, DeathStep
<1>7. CASE Live(p)'
  <2>1. \A a, b \in Children : SameMail(Link(a, b), Link(a, b)')
    BY <1>1, <1>2, <1>3, <1>7, OtherMail
  <2>2. \A c \in Children :
          Live(c)' => /\ Live(c)
                      /\ pc'[c] = "request" <=> pc[c] = "request"
                      /\ pc'[c] = "cs" <=> pc[c] = "cs"
    BY <1>7 DEF Live
  <2> QED
    BY <1>5, <2>1, <2>2, NeutralStep
<1> QED
  BY <1>6, <1>7

\* A step of the main program that sends STARTED or DONE to everybody.
LEMMA AnnounceMutex ==
  ASSUME TypeInv, MutexInv, NEW p \in Children, ~Sending(p), pipes' = pipes,
         NEW m \in Message, m.type \in {"STARTED", "DONE"}, send_multicast(p, m),
         UNCHANGED mutexVars,
         Live(p), pc[p] \notin {"request", "cs"},
         NEW l \in Label \ {"request", "cs"}, Goto(p, l)
  PROVE  MutexInv'
<1> USE ProcsFacts
<1>0. IpcTypeOK
  BY DEF TypeInv, TypeOK, ChildTypeOK
<1>1. \A a, b \in Procs :
        Link(a, b)' = IF a = p /\ b \in Procs \ {p} THEN Append(Link(a, b), m) ELSE Link(a, b)
  BY <1>0, LinkPost DEF send_multicast
<1>2. \A a, b \in Children : SameMail(Link(a, b), Link(a, b)')
  <2> SUFFICES ASSUME NEW a \in Children, NEW b \in Children PROVE SameMail(Link(a, b), Link(a, b)')
    OBVIOUS
  <2>1. Link(a, b) \in Seq(Message)
    BY <1>0, LinkType
  <2>2. SameMail(Link(a, b), Link(a, b)) /\ SameMail(Link(a, b), Append(Link(a, b), m))
    BY <2>1, OtherMail
  <2> QED
    BY <1>1, <2>2
<1>3. ParentSilent'
  BY <1>1 DEF MutexInv, ParentSilent
<1>4. \A c \in Children :
        Live(c)' => /\ Live(c)
                    /\ pc'[c] = "request" <=> pc[c] = "request"
                    /\ pc'[c] = "cs" <=> pc[c] = "cs"
  BY DEF Goto, Live, TypeInv, TypeOK, ChildTypeOK
<1> QED
  BY <1>2, <1>3, <1>4, NeutralStep

\* A step that sends and receives nothing and neither enters nor leaves request_cs().
LEMMA SilentMutex ==
  ASSUME TypeInv, MutexInv, pipes' = pipes, outbox' = outbox, UNCHANGED mutexVars,
         \A c \in Children :
           Live(c)' => /\ Live(c)
                       /\ pc'[c] = "request" <=> pc[c] = "request"
                       /\ pc'[c] = "cs" <=> pc[c] = "cs"
  PROVE  MutexInv'
<1>0. IpcTypeOK
  BY DEF TypeInv, TypeOK, ChildTypeOK
<1>1. \A a, b : Link(a, b)' = Link(a, b)
  BY DEF Link
<1>2. \A a, b \in Children : SameMail(Link(a, b), Link(a, b)')
  BY <1>0, <1>1, LinkType, OtherMail, ProcsFacts
<1>3. ParentSilent'
  BY <1>1 DEF MutexInv, ParentSilent
<1> QED
  BY <1>2, <1>3, NeutralStep

\* The steps of child.c outside mutex.c (a write() of the send loop, STARTED, DONE,
\* the end of the process) keep the invariant.
LEMMA ChildStepMutex ==
  ASSUME TypeInv, MutexInv, NEW p \in Children, ChildStep(p), UNCHANGED mutexVars
  PROVE  MutexInv'
<1> USE ProcsFacts, NAssumption
<1>0. /\ p \in Procs
      /\ lamport_time \in [Procs -> Nat]
      /\ [type |-> "STARTED", time |-> lamport_time[p] + 1] \in Message
      /\ [type |-> "DONE", time |-> lamport_time[p] + 1] \in Message
      /\ pc \in [Procs -> Label]
  BY DEF TypeInv, TypeOK, ChildTypeOK, Message, MessageType
<1>1. CASE Write(p)
  BY <1>1, WriteMutex
<1>2. CASE Start(p)
  <2>1. send_multicast(p, [type |-> "STARTED", time |-> lamport_time[p] + 1])
    BY <1>0, <1>2 DEF Start
  <2>2. PICK l \in {"loop", "await_started"} : Goto(p, l)
    BY <1>2 DEF Start
  <2>3. l \in Label \ {"request", "cs"} /\ Live(p) /\ pc[p] \notin {"request", "cs"}
    BY <1>2 DEF Start, Live, Label
  <2> QED
    BY <1>0, <1>2, <2>1, <2>2, <2>3, AnnounceMutex DEF Start
<1>3. CASE AwaitStarted(p)
  <2>1. from[p] \in Procs /\ receive(p, from[p]) /\ outbox' = outbox
    BY <1>3 DEF AwaitStarted, ReceiveAll, TypeInv, TypeOK, ChildTypeOK, Procs, PARENT_ID
  <2>2. \A c \in Children \ {p} : pc'[c] = pc[c]
    BY <1>0, <1>3 DEF AwaitStarted, ReceiveAll, Goto
  <2>3. CASE Oldest(p, from[p]).type # "STARTED"
    <3>1. ~Live(p)'
      BY <1>0, <1>3, <2>3 DEF AwaitStarted, ReceiveAll, Goto, Live
    <3> QED
      BY <2>1, <2>2, <3>1, ReceiveMutex
  <2>4. CASE Oldest(p, from[p]).type = "STARTED"
    <3>1. Live(p) /\ pc[p] \notin {"request", "cs"} /\ pc'[p] \notin {"request", "cs"}
      BY <1>0, <1>3, <2>4 DEF AwaitStarted, ReceiveAll, Goto, Live
    <3> QED
      BY <2>1, <2>2, <2>4, <3>1, ReceiveMutex
  <2> QED
    BY <2>3, <2>4
<1>4. CASE PlainIteration(p)
  BY <1>4, SilentMutex DEF PlainIteration, Live
<1>5. CASE SendDone(p)
  <2>1. send_multicast(p, [type |-> "DONE", time |-> lamport_time[p] + 1])
    BY <1>0, <1>5 DEF SendDone
  <2>2. PICK l \in {"drain", "sleep"} : Goto(p, l)
    BY <1>5 DEF SendDone
  <2>3. l \in Label \ {"request", "cs"} /\ Live(p) /\ pc[p] \notin {"request", "cs"}
    BY <1>5 DEF SendDone, Live, Label
  <2> QED
    BY <1>0, <1>5, <2>1, <2>2, <2>3, AnnounceMutex DEF SendDone
<1>6. CASE Exit(p)
  BY <1>0, <1>6, SilentMutex DEF Exit, Goto, Live
<1>7. CASE SpinOnEof(p)
  BY <1>0, <1>7, SilentMutex DEF SpinOnEof, Goto, Live
<1> QED
  BY <1>1, <1>2, <1>3, <1>4, <1>5, <1>6, <1>7 DEF ChildStep

\* The parent only takes messages addressed to it, and sends none.
LEMMA ParentStepMutex ==
  ASSUME TypeInv, MutexInv, ParentStep, UNCHANGED mutexVars
  PROVE  MutexInv'
<1> USE ProcsFacts, NAssumption
<1>0. IpcTypeOK /\ pc \in [Procs -> Label]
  BY DEF TypeInv, TypeOK, ChildTypeOK
<1>1. ASSUME NEW type, NEW next, ReceiveAll(PARENT_ID, type, next)
      PROVE  MutexInv'
  <2>1. /\ from[PARENT_ID] \in Procs \ {PARENT_ID}
        /\ receive(PARENT_ID, from[PARENT_ID])
        /\ outbox' = outbox
    BY <1>1 DEF ReceiveAll, TypeInv, TypeOK, ChildTypeOK, Procs, PARENT_ID
  <2>2. \A a, b \in Procs : b # PARENT_ID => Link(a, b)' = Link(a, b)
    BY <1>0, <2>1, LinkReceive
  <2>3. Link(PARENT_ID, PARENT_ID)' = Link(PARENT_ID, PARENT_ID)
    BY <1>0, <2>1, LinkReceive
  <2>4. \A a, b \in Children : SameMail(Link(a, b), Link(a, b)')
    BY <1>0, <2>2, LinkType, OtherMail
  <2>5. ParentSilent'
    BY <2>2, <2>3 DEF MutexInv, ParentSilent
  <2>6. \A c \in Children : pc'[c] = pc[c]
    BY <1>0, <1>1 DEF ReceiveAll, Goto
  <2> QED
    BY <2>4, <2>5, <2>6, NeutralStep DEF Live
<1>2. CASE ParentExit
  BY <1>0, <1>2, SilentMutex DEF ParentExit, Goto, Live
<1>3. CASE ParentSetUp
  BY <1>0, <1>3, SilentMutex DEF ParentSetUp, Goto, Live
<1> QED
  BY <1>1, <1>2, <1>3 DEF ParentStep, ParentAwaitStarted, ParentAwaitDone

-----------------------------------------------------------------------------
(* The calls and handlers of mutex.c *)

\* The next message of a child comes from a child and is the oldest under way.
LEMMA TakeFacts ==
  ASSUME TypeInv, MutexInv, NEW p \in Children, NEW f \in Procs \ {p}, NEW label, NEW types,
         Take(p, f, label, types)
  PROVE  /\ f \in Children
         /\ pc[p] = label /\ ~Sending(p) /\ receive(p, f)
         /\ Link(f, p) # <<>>
         /\ Oldest(p, f) = Head(Link(f, p))
         /\ Oldest(p, f).type \in types
         /\ \A a, b \in Children : Link(a, b) \in Seq(Message)
         /\ outbox' = outbox =>
              \A a, b \in Procs : Link(a, b)' = IF a = f /\ b = p THEN Tail(Link(a, b)) ELSE Link(a, b)
<1> USE ProcsFacts
<1>0. IpcTypeOK
  BY DEF TypeInv, TypeOK, ChildTypeOK
<1>1. Link(f, p) # <<>> /\ Oldest(p, f) = Head(Link(f, p))
  BY <1>0, LinkOldest DEF Take
<1>2. f # PARENT_ID
  BY <1>1 DEF MutexInv, ParentSilent
<1>3. f \in Children
  BY <1>2 DEF Children, Procs, PARENT_ID
<1>4. outbox' = outbox =>
        \A a, b \in Procs : Link(a, b)' = IF a = f /\ b = p THEN Tail(Link(a, b)) ELSE Link(a, b)
  BY <1>0, LinkReceive DEF Take
<1> QED
  BY <1>0, <1>1, <1>3, <1>4, LinkType DEF Take

\* Enqueueing and answering a request moves its sender's wait from the request to
\* the reply and brings the queues into agreement.
LEMMA AcceptRequestMutex ==
  ASSUME TypeInv, MutexInv, NEW p \in Children, NEW f \in Procs \ {p}, NEW label,
         Take(p, f, label, {"CS_REQUEST"}), Live(p),
         AcceptRequest(p, f, Oldest(p, f).time),
         \A c \in Children : Live(c)' <=> Live(c)
  PROVE  /\ f \in Children
         /\ ParentSilent' /\ LinksInOrder' /\ QueueAgreement'
         /\ \A c \in Children : Outstanding(c)' = Outstanding(c)
<1> USE ProcsFacts
<1> DEFINE t == Oldest(p, f).time
           m == [type |-> "CS_REPLY", time |-> Synchronized(lamport_time[p], t) + 1]
           s == Link(f, p)
           r == Link(p, f)
<1>0. IpcTypeOK
  BY DEF TypeInv, TypeOK, ChildTypeOK
<1>1. /\ f \in Children /\ f # p
      /\ s \in Seq(Message) /\ s # <<>> /\ Head(s).type = "CS_REQUEST" /\ Head(s).time = t
      /\ r \in Seq(Message)
      /\ \A a, b \in Children : Link(a, b) \in Seq(Message)
  BY TakeFacts
<1>2. m \in Message /\ m.type = "CS_REPLY"
  BY TakeType DEF TypeInv, TypeOK
<1>3. \A a, b \in Procs :
        Link(a, b)' = IF a = f /\ b = p THEN Tail(Link(a, b))
                      ELSE IF a = p /\ b = f THEN Append(Link(a, b), m)
                      ELSE Link(a, b)
  BY <1>0, <1>1, <1>2, LinkReceiveSend DEF Take, AcceptRequest
<1>4. \A a, b \in Children : queue'[a][b] = IF a = p /\ b = f THEN t ELSE queue[a][b]
  <2>1. queue' = [queue EXCEPT ![p][f] = t]
    BY DEF AcceptRequest
  <2> HIDE DEF t
  <2> QED
    BY <1>1, <2>1 DEF TypeInv, TypeOK
<1> HIDE DEF m, t
<1>5. /\ Contains(s, "CS_REQUEST")
      /\ Contains(Tail(s), "CS_REPLY") <=> Contains(s, "CS_REPLY")
      /\ Contains(Append(r, m), "CS_REQUEST") <=> Contains(r, "CS_REQUEST")
      /\ Contains(Append(r, m), "CS_RELEASE") <=> Contains(r, "CS_RELEASE")
      /\ Contains(Append(r, m), "CS_REPLY")
  BY <1>1, <1>2, ContainsTail, ContainsAppend
<1>6. Link(f, p)' = Tail(s) /\ Link(p, f)' = Append(r, m)
  BY <1>1, <1>3
<1> HIDE DEF s, r
<1>7. ParentSilent'
  BY <1>1, <1>3 DEF MutexInv, ParentSilent
<1>8. \A c \in Children : Outstanding(c)' = Outstanding(c)
  <2> SUFFICES ASSUME NEW c \in Children, NEW q \in Children \ {c}
               PROVE  (Carries(c, q, "CS_REQUEST") \/ Carries(q, c, "CS_REPLY"))'
                        <=> (Carries(c, q, "CS_REQUEST") \/ Carries(q, c, "CS_REPLY"))
    BY DEF Outstanding
  <2>1. CASE c = p /\ q = f
    BY <1>5, <1>6, <2>1 DEF Carries, s, r
  <2>2. CASE c = f /\ q = p
    BY <1>5, <1>6, <2>2 DEF Carries, s, r
  <2>3. CASE ~(c = p /\ q = f) /\ ~(c = f /\ q = p)
    BY <1>3, <2>3 DEF Carries
  <2> QED
    BY <2>1, <2>2, <2>3
<1>9. Live(f) => /\ ~Contains(Tail(s), "CS_REQUEST") /\ ~Contains(Tail(s), "CS_RELEASE")
                 /\ t = queue[f][f]
                 /\ ~Contains(r, "CS_REPLY")
                 /\ AtMostOneReply(Append(r, m))
  <2> SUFFICES ASSUME Live(f)
               PROVE  /\ ~Contains(Tail(s), "CS_REQUEST") /\ ~Contains(Tail(s), "CS_RELEASE")
                      /\ t = queue[f][f]
                      /\ ~Contains(r, "CS_REPLY")
                      /\ AtMostOneReply(Append(r, m))
    OBVIOUS
  <2>1. LinkOrder(f, p)
    BY <1>1 DEF MutexInv, LinksInOrder
  <2>2. RequestLast(s) /\ RequestsCarry(s, queue[f][f]) /\ AtMostOneReply(r) /\ ~Contains(r, "CS_REPLY")
    BY <1>5, <2>1 DEF LinkOrder, Carries, s, r
  <2> QED
    BY <1>1, <1>2, <2>2, OrderTail, OrderAppend
<1>10. LinksInOrder'
  <2> SUFFICES ASSUME NEW a \in Children, NEW b \in Children, a # b, Live(a)
               PROVE  LinkOrder(a, b)'
    BY DEF LinksInOrder
  <2>1. LinkOrder(a, b)
    BY DEF MutexInv, LinksInOrder
  <2>2. CASE a = f /\ b = p
    <3>1. RequestLast(Tail(s)) /\ RequestsCarry(Tail(s), queue'[f][f])
      BY <1>9, <2>2, OrderNone
    <3> QED
      BY <1>6, <1>9, <2>2, <3>1 DEF LinkOrder, Carries
  <2>3. CASE a = p /\ b = f
    <3>1. RequestLast(r) /\ RequestsCarry(r, queue[p][p]) /\ AtMostOneReply(s)
      BY <2>1, <2>3 DEF LinkOrder, s, r
    <3>2. RequestLast(Append(r, m)) /\ RequestsCarry(Append(r, m), queue[p][p]) /\ AtMostOneReply(Tail(s))
      BY <1>1, <1>2, <3>1, OrderAppend, OrderTail
    <3>3. queue'[p][p] = queue[p][p]
      BY <1>1, <1>4
    <3> QED
      BY <1>5, <1>6, <2>1, <2>3, <3>2, <3>3 DEF LinkOrder, Carries, queue_contains, s, r
  <2>4. CASE ~(a = f /\ b = p) /\ ~(a = p /\ b = f)
    <3>1. Link(a, b)' = Link(a, b) /\ Link(b, a)' = Link(b, a) /\ queue'[a][a] = queue[a][a]
      BY <1>1, <1>3, <1>4, <2>4
    <3> QED
      BY <2>1, <3>1 DEF LinkOrder, Carries, queue_contains
  <2> QED
    BY <2>2, <2>3, <2>4
<1>11. QueueAgreement'
  <2> SUFFICES ASSUME NEW a \in Children, NEW b \in Children, a # b, Live(a), Live(b),
                      ~Carries(a, b, "CS_REQUEST")', ~Carries(a, b, "CS_RELEASE")'
               PROVE  queue'[b][a] = queue'[a][a]
    BY DEF QueueAgreement
  <2>1. CASE a = f /\ b = p
    BY <1>1, <1>4, <1>9, <2>1
  <2>2. CASE a = p /\ b = f
    <3>1. ~Carries(p, f, "CS_REQUEST") /\ ~Carries(p, f, "CS_RELEASE")
      BY <1>5, <1>6, <2>2 DEF Carries, r
    <3> QED
      BY <1>1, <1>4, <2>2, <3>1 DEF MutexInv, QueueAgreement
  <2>3. CASE ~(a = f /\ b = p) /\ ~(a = p /\ b = f)
    <3>1. ~Carries(a, b, "CS_REQUEST") /\ ~Carries(a, b, "CS_RELEASE")
      BY <1>3, <2>3 DEF Carries
    <3> QED
      BY <1>1, <1>4, <2>3, <3>1 DEF MutexInv, QueueAgreement
  <2> QED
    BY <2>1, <2>2, <2>3
<1> QED
  BY <1>1, <1>7, <1>8, <1>10, <1>11

\* Removing a released request brings the queues into agreement.
LEMMA AcceptReleaseMutex ==
  ASSUME TypeInv, MutexInv, NEW p \in Children, NEW f \in Procs \ {p}, NEW label,
         Take(p, f, label, {"CS_RELEASE"}), Live(p),
         AcceptRelease(p, f, Oldest(p, f).time),
         \A c \in Children : Live(c)' <=> Live(c)
  PROVE  /\ f \in Children
         /\ ParentSilent' /\ LinksInOrder' /\ QueueAgreement'
         /\ \A c \in Children : Outstanding(c)' = Outstanding(c)
<1> USE ProcsFacts
<1> DEFINE s == Link(f, p)
<1>1. /\ f \in Children /\ f # p
      /\ s \in Seq(Message) /\ s # <<>> /\ Head(s).type = "CS_RELEASE"
      /\ \A a, b \in Procs : Link(a, b)' = IF a = f /\ b = p THEN Tail(Link(a, b)) ELSE Link(a, b)
  BY TakeFacts DEF AcceptRelease
<1>2. \A a, b \in Children : queue'[a][b] = IF a = p /\ b = f THEN EMPTY_REQUEST_TIME ELSE queue[a][b]
  <2>1. queue' = [queue EXCEPT ![p][f] = EMPTY_REQUEST_TIME]
    BY DEF AcceptRelease
  <2> QED
    BY <1>1, <2>1 DEF TypeInv, TypeOK
<1>3. /\ Contains(s, "CS_RELEASE")
      /\ Contains(Tail(s), "CS_REQUEST") <=> Contains(s, "CS_REQUEST")
      /\ Contains(Tail(s), "CS_REPLY") <=> Contains(s, "CS_REPLY")
  BY <1>1, ContainsTail
<1>4. Link(f, p)' = Tail(s)
  BY <1>1
<1> HIDE DEF s
<1>5. ParentSilent'
  BY <1>1 DEF MutexInv, ParentSilent
<1>6. \A c \in Children : Outstanding(c)' = Outstanding(c)
  <2>1. ASSUME NEW a \in Children, NEW b \in Children
        PROVE  /\ Carries(a, b, "CS_REQUEST")' <=> Carries(a, b, "CS_REQUEST")
               /\ Carries(a, b, "CS_REPLY")' <=> Carries(a, b, "CS_REPLY")
    BY <1>1, <1>3, <1>4 DEF Carries, s
  <2> QED
    BY <2>1 DEF Outstanding
<1>7. LinksInOrder'
  <2> SUFFICES ASSUME NEW a \in Children, NEW b \in Children, a # b, Live(a)
               PROVE  LinkOrder(a, b)'
    BY DEF LinksInOrder
  <2>1. LinkOrder(a, b) /\ queue'[a][a] = queue[a][a]
    BY <1>1, <1>2 DEF MutexInv, LinksInOrder
  <2>2. CASE a = f /\ b = p
    <3>1. RequestLast(s) /\ RequestsCarry(s, queue[f][f])
      BY <2>1, <2>2 DEF LinkOrder, s
    <3>2. RequestLast(Tail(s)) /\ RequestsCarry(Tail(s), queue[f][f])
      BY <1>1, <3>1, OrderTail
    <3>3. Link(p, f)' = Link(p, f)
      BY <1>1
    <3> QED
      BY <1>3, <1>4, <2>1, <2>2, <3>2, <3>3 DEF LinkOrder, Carries, queue_contains, s
  <2>3. CASE a = p /\ b = f
    <3>1. AtMostOneReply(Tail(s))
      BY <1>1, <2>1, <2>3, OrderTail DEF LinkOrder, s
    <3>2. Link(p, f)' = Link(p, f)
      BY <1>1
    <3> QED
      BY <1>3, <1>4, <2>1, <2>3, <3>1, <3>2 DEF LinkOrder, Carries, queue_contains, s
  <2>4. CASE ~(a = f /\ b = p) /\ ~(a = p /\ b = f)
    <3>1. Link(a, b)' = Link(a, b) /\ Link(b, a)' = Link(b, a)
      BY <1>1, <2>4
    <3> QED
      BY <2>1, <3>1 DEF LinkOrder, Carries, queue_contains
  <2> QED
    BY <2>2, <2>3, <2>4
<1>8. QueueAgreement'
  <2> SUFFICES ASSUME NEW a \in Children, NEW b \in Children, a # b, Live(a), Live(b),
                      ~Carries(a, b, "CS_REQUEST")', ~Carries(a, b, "CS_RELEASE")'
               PROVE  queue'[b][a] = queue'[a][a]
    BY DEF QueueAgreement
  <2>1. CASE a = f /\ b = p
    <3>1. LinkOrder(f, p)
      BY <1>1, <2>1 DEF MutexInv, LinksInOrder
    <3>2. ~queue_contains(queue[f], f)
      BY <1>3, <1>4, <2>1, <3>1 DEF LinkOrder, Carries, s
    <3> QED
      BY <1>1, <1>2, <2>1, <3>2 DEF queue_contains
  <2>2. CASE ~(a = f /\ b = p)
    <3>1. ~Carries(a, b, "CS_REQUEST") /\ ~Carries(a, b, "CS_RELEASE")
      BY <1>1, <2>2 DEF Carries
    <3> QED
      BY <1>1, <1>2, <2>2, <3>1 DEF MutexInv, QueueAgreement
  <2> QED
    BY <2>1, <2>2
<1> QED
  BY <1>1, <1>5, <1>6, <1>7, <1>8

\* Counting a reply: its sender is no longer outstanding.
LEMMA AcceptReplyMutex ==
  ASSUME TypeInv, MutexInv, NEW p \in Children, NEW f \in Procs \ {p},
         Take(p, f, "request", {"CS_REPLY"}), outbox' = outbox, queue' = queue,
         \A c \in Children : Live(c)' <=> Live(c)
  PROVE  /\ ParentSilent' /\ LinksInOrder' /\ QueueAgreement'
         /\ f \in Outstanding(p) /\ Outstanding(p)' = Outstanding(p) \ {f}
         /\ \A c \in Children \ {p} : Outstanding(c)' = Outstanding(c)
<1> USE ProcsFacts
<1> DEFINE s == Link(f, p)
<1>1. /\ f \in Children /\ f # p
      /\ s \in Seq(Message) /\ s # <<>> /\ Head(s).type = "CS_REPLY"
      /\ \A a, b \in Procs : Link(a, b)' = IF a = f /\ b = p THEN Tail(Link(a, b)) ELSE Link(a, b)
      /\ Live(p)
  BY TakeFacts DEF Live
<1>2. LinkOrder(p, f)
  BY <1>1 DEF MutexInv, LinksInOrder
<1>3. /\ Contains(s, "CS_REPLY") /\ ~Contains(Tail(s), "CS_REPLY")
      /\ Contains(Tail(s), "CS_REQUEST") <=> Contains(s, "CS_REQUEST")
      /\ Contains(Tail(s), "CS_RELEASE") <=> Contains(s, "CS_RELEASE")
      /\ ~Carries(p, f, "CS_REQUEST")
  BY <1>1, <1>2, ContainsTail, OrderTail DEF LinkOrder, Carries
<1>4. Link(f, p)' = Tail(s) /\ Link(p, f)' = Link(p, f)
  BY <1>1
<1> HIDE DEF s
<1>5. ParentSilent'
  BY <1>1 DEF MutexInv, ParentSilent
<1>6. ASSUME NEW a \in Children, NEW b \in Children
      PROVE  /\ Carries(a, b, "CS_REQUEST")' <=> Carries(a, b, "CS_REQUEST")
             /\ Carries(a, b, "CS_RELEASE")' <=> Carries(a, b, "CS_RELEASE")
             /\ Carries(a, b, "CS_REPLY")' <=> Carries(a, b, "CS_REPLY") /\ ~(a = f /\ b = p)
  BY <1>1, <1>3, <1>4 DEF Carries, s
<1>7. \A c \in Children \ {p} : Outstanding(c)' = Outstanding(c)
  BY <1>6 DEF Outstanding
<1>8. f \in Outstanding(p) /\ Outstanding(p)' = Outstanding(p) \ {f}
  BY <1>1, <1>3, <1>6 DEF Outstanding, Carries, s
<1>9. LinksInOrder'
  <2> SUFFICES ASSUME NEW a \in Children, NEW b \in Children, a # b, Live(a)
               PROVE  LinkOrder(a, b)'
    BY DEF LinksInOrder
  <2>1. LinkOrder(a, b)
    BY DEF MutexInv, LinksInOrder
  <2>2. RequestLast(Link(a, b)') /\ RequestsCarry(Link(a, b)', queue[a][a]) /\ AtMostOneReply(Link(b, a)')
    <3>1. RequestLast(Link(a, b)) /\ RequestsCarry(Link(a, b), queue[a][a]) /\ AtMostOneReply(Link(b, a))
      BY <2>1 DEF LinkOrder
    <3>2. Link(a, b)' = Link(a, b) \/ (a = f /\ b = p /\ Link(a, b)' = Tail(s))
      BY <1>1, <1>4
    <3>3. Link(b, a)' = Link(b, a) \/ (b = f /\ a = p /\ Link(b, a)' = Tail(s))
      BY <1>1, <1>4
    <3> QED
      BY <1>1, <3>1, <3>2, <3>3, OrderTail DEF s
  <2> QED
    BY <1>6, <2>1, <2>2 DEF LinkOrder, queue_contains
<1>10. QueueAgreement'
  BY <1>6 DEF MutexInv, QueueAgreement
<1> QED
  BY <1>5, <1>7, <1>8, <1>9, <1>10

\* The test at the end of the receive loop lets p in only when nobody is left to
\* answer and p is first in its queue.
LEMMA GrantStep ==
  ASSUME TypeInv, MutexInv, NEW p \in Children, pc[p] = "request", NEW n \in Nat,
         NEW q, q = queue'[p], ReturnIfFirst(p, q, n),
         n + Cardinality(Outstanding(p)') <= N - 1,
         \A c \in Children \ {p} : Outstanding(c)' = Outstanding(c) /\ queue'[c] = queue[c],
         queue'[p][p] = queue[p][p],
         ParentSilent', LinksInOrder', QueueAgreement'
  PROVE  MutexInv'
<1> USE ProcsFacts, NAssumption
<1>0. pc \in [Procs -> Label] /\ last_request_reply_count \in [Children -> Nat]
  BY DEF TypeInv, TypeOK, ChildTypeOK
<1>1. IsFiniteSet(Outstanding(p)') /\ Cardinality(Outstanding(p)') \in Nat
  <2>1. Outstanding(p)' \subseteq Children
    BY DEF Outstanding
  <2>2. IsFiniteSet(Children)
    BY FS_Interval DEF Children
  <2> QED
    BY <2>1, <2>2, FS_Subset, FS_CardinalityType
<1>2. \A c \in Children \ {p} : /\ pc'[c] = pc[c]
                                /\ last_request_reply_count'[c] = last_request_reply_count[c]
                                /\ Live(c)' <=> Live(c)
  BY <1>0 DEF ReturnIfFirst, Goto, Live
<1>3. \/ /\ n = N - 1 /\ IsTop(queue'[p], p)
         /\ pc'[p] = "cs" /\ last_request_reply_count'[p] = 0
      \/ pc'[p] = "request" /\ last_request_reply_count'[p] = n
  BY <1>0 DEF ReturnIfFirst, Goto
<1>4. OwnRequest'
  <2>1. queue_contains(queue[p], p)
    BY DEF MutexInv, OwnRequest, Live
  <2>2. queue_contains(queue'[p], p)
    BY <2>1 DEF queue_contains
  <2> QED
    BY <1>2, <1>3, <2>2 DEF MutexInv, OwnRequest
<1>5. ReplyAccounting'
  <2> SUFFICES ASSUME NEW c \in Children, Live(c)'
               PROVE  (IF pc[c] = "request"
                         THEN last_request_reply_count[c] + Cardinality(Outstanding(c)) <= N - 1
                         ELSE Outstanding(c) = {} /\ last_request_reply_count[c] = 0)'
    BY DEF ReplyAccounting
  <2>1. CASE c # p
    BY <1>2, <2>1 DEF MutexInv, ReplyAccounting
  <2>2. CASE c = p
    <3>1. n = N - 1 => Outstanding(p)' = {}
      BY <1>1, FS_EmptySet
    <3> QED
      BY <1>3, <2>2, <3>1
  <2> QED
    BY <2>1, <2>2
<1>6. FirstInside'
  BY <1>2, <1>3 DEF MutexInv, FirstInside
<1> QED
  BY <1>4, <1>5, <1>6 DEF MutexInv

\* handle_cs_requests() answers without a request of its own.
LEMMA DrainStep ==
  ASSUME TypeInv, MutexInv, NEW p \in Children, pc[p] = "drain",
         pc' = pc, last_request_reply_count' = last_request_reply_count,
         \A c \in Children : Outstanding(c)' = Outstanding(c) /\ queue'[c][c] = queue[c][c],
         \A c \in Children \ {p} : queue'[c] = queue[c],
         ParentSilent', LinksInOrder', QueueAgreement'
  PROVE  MutexInv'
<1>1. \A c \in Children : Live(c)' <=> Live(c)
  BY DEF Live
<1>2. OwnRequest'
  BY <1>1 DEF MutexInv, OwnRequest, queue_contains
<1>3. ReplyAccounting'
  BY <1>1 DEF MutexInv, ReplyAccounting
<1>4. FirstInside'
  BY DEF MutexInv, FirstInside
<1> QED
  BY <1>2, <1>3, <1>4 DEF MutexInv

\* request_cs() and release_cs() multicast while nothing about p's requests but an
\* older release is under way.
LEMMA MulticastMutex ==
  ASSUME TypeInv, MutexInv, NEW p \in Children, ~Sending(p), pipes' = pipes,
         Live(p), pc[p] # "request",
         NEW m \in Message, ipc_multicast_to_children(p, m),
         NEW t,
         \A a, b \in Children : queue'[a][b] = IF a = p /\ b = p THEN t ELSE queue[a][b],
         \A c \in Children \ {p} : queue'[c] = queue[c],
         \/ m.type = "CS_REQUEST" /\ m.time = t
         \/ m.type = "CS_RELEASE" /\ t = EMPTY_REQUEST_TIME,
         \A c \in Children \ {p} : pc'[c] = pc[c]
  PROVE  /\ ParentSilent' /\ LinksInOrder' /\ QueueAgreement'
         /\ Outstanding(p)' = IF m.type = "CS_REQUEST" THEN Children \ {p} ELSE {}
         /\ \A c \in Children \ {p} : Outstanding(c)' = Outstanding(c) /\ queue'[c] = queue[c]
         /\ queue'[p][p] = t
<1> USE ProcsFacts
<1>0. IpcTypeOK
  BY DEF TypeInv, TypeOK, ChildTypeOK
<1>1. /\ \A a, b \in Children : Link(a, b) \in Seq(Message)
      /\ \A a, b \in Procs :
           Link(a, b)' = IF a = p /\ b \in Children \ {p} THEN Append(Link(a, b), m) ELSE Link(a, b)
  <2>1. \A a, b \in Children : Link(a, b) \in Seq(Message)
    BY <1>0, LinkType
  <2>2. Post(p, Children \ {p}, m)
    BY DEF ipc_multicast_to_children
  <2> QED
    BY <1>0, <2>1, <2>2, LinkPost
<1>3. \A c \in Children \ {p} : ~Carries(p, c, "CS_REQUEST") /\ ~Carries(c, p, "CS_REPLY")
  BY DEF MutexInv, ReplyAccounting, Outstanding
<1>4. ASSUME NEW a \in Children, NEW b \in Children, a # b
      PROVE  /\ Carries(a, b, "CS_REQUEST")' <=> Carries(a, b, "CS_REQUEST") \/ (a = p /\ m.type = "CS_REQUEST")
             /\ Carries(a, b, "CS_RELEASE")' <=> Carries(a, b, "CS_RELEASE") \/ (a = p /\ m.type = "CS_RELEASE")
             /\ Carries(a, b, "CS_REPLY")' <=> Carries(a, b, "CS_REPLY")
  <2>1. CASE a = p
    <3>1. Link(a, b) \in Seq(Message) /\ Link(a, b)' = Append(Link(a, b), m)
      BY <1>1, <1>4, <2>1
    <3>2. \A x : Contains(Link(a, b)', x) <=> Contains(Link(a, b), x) \/ m.type = x
      BY <3>1, ContainsAppend
    <3> QED
      BY <2>1, <3>2 DEF Carries
  <2>2. CASE a # p
    BY <1>1, <2>2 DEF Carries
  <2> QED
    BY <2>1, <2>2
<1>5. ParentSilent'
  BY <1>1 DEF MutexInv, ParentSilent
<1>6. \A c \in Children \ {p} : Outstanding(c)' = Outstanding(c)
  BY <1>4 DEF Outstanding
<1>7. Outstanding(p)' = IF m.type = "CS_REQUEST" THEN Children \ {p} ELSE {}
  BY <1>3, <1>4 DEF Outstanding
<1>8. LinksInOrder'
  <2> SUFFICES ASSUME NEW a \in Children, NEW b \in Children, a # b, Live(a)'
               PROVE  LinkOrder(a, b)'
    BY DEF LinksInOrder
  <2>1. CASE a = p
    <3>1. LinkOrder(p, b) /\ ~Contains(Link(p, b), "CS_REQUEST") /\ ~Carries(b, p, "CS_REPLY")
      BY <1>3, <2>1 DEF MutexInv, LinksInOrder, Carries
    <3>2. /\ Link(p, b)' = Append(Link(p, b), m) /\ Link(p, b) \in Seq(Message)
          /\ Link(b, p)' = Link(b, p)
      BY <1>1, <2>1
    <3>3. RequestsCarry(Link(p, b), t)
      BY <3>1, OrderNone
    <3>4. RequestLast(Link(p, b)') /\ RequestsCarry(Link(p, b)', t)
      BY <3>1, <3>2, <3>3, OrderAppend
    <3>5. AtMostOneReply(Link(b, p)')
      BY <3>1, <3>2 DEF LinkOrder
    <3>6. /\ ~Carries(b, p, "CS_REPLY")'
          /\ Carries(p, b, "CS_REQUEST")' \/ t = EMPTY_REQUEST_TIME
      BY <1>4, <2>1, <3>1
    <3> QED
      BY <2>1, <3>4, <3>5, <3>6 DEF LinkOrder, queue_contains
  <2>2. CASE a # p
    <3>1. LinkOrder(a, b) /\ queue'[a][a] = queue[a][a]
      BY <2>2 DEF MutexInv, LinksInOrder, Live
    <3>2. AtMostOneReply(Link(b, a)')
      <4>1. AtMostOneReply(Link(b, a))
        BY <3>1 DEF LinkOrder
      <4>2. Link(b, a)' = Link(b, a) \/ Link(b, a)' = Append(Link(b, a), m)
        BY <1>1
      <4>3. AtMostOneReply(Append(Link(b, a), m))
        BY <1>1, <4>1, OrderAppend
      <4> QED
        BY <4>1, <4>2, <4>3
    <3>3. Link(a, b)' = Link(a, b)
      BY <1>1, <2>2
    <3> QED
      BY <1>4, <2>2, <3>1, <3>2, <3>3 DEF LinkOrder, queue_contains
  <2> QED
    BY <2>1, <2>2
<1>9. QueueAgreement'
  <2> SUFFICES ASSUME NEW a \in Children, NEW b \in Children, a # b, Live(a)', Live(b)',
                      ~Carries(a, b, "CS_REQUEST")', ~Carries(a, b, "CS_RELEASE")'
               PROVE  queue'[b][a] = queue'[a][a]
    BY DEF QueueAgreement
  <2>1. a # p
    BY <1>4
  <2>2. Live(a) /\ Live(b) /\ ~Carries(a, b, "CS_REQUEST") /\ ~Carries(a, b, "CS_RELEASE")
    BY <1>4, <2>1 DEF Live
  <2> QED
    BY <2>1, <2>2 DEF MutexInv, QueueAgreement
<1> QED
  BY <1>5, <1>6, <1>7, <1>8, <1>9

\* A new request keeps the invariant: nothing about an older one is under way.
LEMMA BeginRequestMutex ==
  ASSUME TypeInv, MutexInv, NEW p \in Children, BeginRequest(p)
  PROVE  MutexInv'
<1> USE ProcsFacts, NAssumption
<1> DEFINE t == lamport_time[p] + 1
           m == [type |-> "CS_REQUEST", time |-> t]
<1>0. pc \in [Procs -> Label] /\ t \in Nat \ {0} /\ m \in Message
  BY DEF TypeInv, TypeOK, ChildTypeOK, Message, MessageType
<1>1. Live(p) /\ pc[p] = "loop"
  BY DEF BeginRequest, Live
<1>2. ~queue_contains(queue[p], p)
  BY <1>1 DEF MutexInv, OwnRequest
<1>3. /\ queue' = [queue EXCEPT ![p][p] = t]
      /\ ipc_multicast_to_children(p, m)
      /\ ~Sending(p) /\ pipes' = pipes
      /\ last_request_reply_count' = last_request_reply_count
  BY <1>2 DEF BeginRequest
<1>4. pc'[p] = "request" /\ \A c \in Children \ {p} : pc'[c] = pc[c]
  BY <1>0 DEF BeginRequest, Goto
<1>5. m.type = "CS_REQUEST" /\ m.time = t
  OBVIOUS
<1> HIDE DEF m, t
<1>6. /\ ParentSilent' /\ LinksInOrder' /\ QueueAgreement'
      /\ Outstanding(p)' = Children \ {p}
      /\ \A c \in Children \ {p} : Outstanding(c)' = Outstanding(c) /\ queue'[c] = queue[c]
      /\ queue'[p][p] = t
  <2>1. /\ \A a, b \in Children : queue'[a][b] = IF a = p /\ b = p THEN t ELSE queue[a][b]
        /\ \A c \in Children \ {p} : queue'[c] = queue[c]
    BY <1>3 DEF TypeInv, TypeOK
  <2> QED
    BY <1>0, <1>1, <1>3, <1>4, <1>5, <2>1, MulticastMutex
<1>7. OwnRequest'
  BY <1>0, <1>4, <1>6 DEF MutexInv, OwnRequest, queue_contains, EMPTY_REQUEST_TIME, Live
<1>8. Cardinality(Outstanding(p)') = N - 1
  <2>1. IsFiniteSet(Children) /\ Cardinality(Children) = N
    BY FS_Interval DEF Children
  <2> QED
    BY <1>6, <2>1, FS_RemoveElement
<1>9. ReplyAccounting'
  <2>1. last_request_reply_count[p] = 0
    BY <1>1 DEF MutexInv, ReplyAccounting
  <2> QED
    <3> SUFFICES ASSUME NEW c \in Children, Live(c)'
                 PROVE  (IF pc[c] = "request"
                           THEN last_request_reply_count[c] + Cardinality(Outstanding(c)) <= N - 1
                           ELSE Outstanding(c) = {} /\ last_request_reply_count[c] = 0)'
      BY DEF ReplyAccounting
    <3>1. CASE c = p
      BY <1>3, <1>4, <1>8, <2>1, <3>1
    <3>2. CASE c # p
      BY <1>3, <1>4, <1>6, <3>2 DEF MutexInv, ReplyAccounting, Live
    <3> QED
      BY <3>1, <3>2
<1>10. FirstInside'
  BY <1>4, <1>6 DEF MutexInv, FirstInside
<1> QED
  BY <1>6, <1>7, <1>9, <1>10 DEF MutexInv

\* release_cs() keeps the invariant: the CS_RELEASE is the last word on the request.
LEMMA ReleaseMutex ==
  ASSUME TypeInv, MutexInv, NEW p \in Children, Release(p)
  PROVE  MutexInv'
<1> USE ProcsFacts, NAssumption
<1> DEFINE t == EMPTY_REQUEST_TIME
           m == [type |-> "CS_RELEASE", time |-> lamport_time[p] + 1]
<1>0. pc \in [Procs -> Label] /\ m \in Message
  BY DEF TypeInv, TypeOK, ChildTypeOK, Message, MessageType
<1>1. Live(p) /\ pc[p] = "cs"
  BY DEF Release, InCS, Live
<1>2. queue_contains(queue[p], p)
  BY <1>1 DEF MutexInv, OwnRequest
<1>3. /\ queue' = [queue EXCEPT ![p][p] = t]
      /\ ipc_multicast_to_children(p, m)
      /\ ~Sending(p) /\ pipes' = pipes
      /\ last_request_reply_count' = last_request_reply_count
  BY <1>2 DEF Release, InCS
<1>4. pc'[p] = "loop" /\ \A c \in Children \ {p} : pc'[c] = pc[c]
  BY <1>0, <1>2 DEF Release, Goto
<1>5. m.type = "CS_RELEASE" /\ t = EMPTY_REQUEST_TIME
  OBVIOUS
<1> HIDE DEF m, t
<1>6. /\ ParentSilent' /\ LinksInOrder' /\ QueueAgreement'
      /\ Outstanding(p)' = {}
      /\ \A c \in Children \ {p} : Outstanding(c)' = Outstanding(c) /\ queue'[c] = queue[c]
      /\ queue'[p][p] = t
  <2>1. /\ \A a, b \in Children : queue'[a][b] = IF a = p /\ b = p THEN t ELSE queue[a][b]
        /\ \A c \in Children \ {p} : queue'[c] = queue[c]
    BY <1>3 DEF TypeInv, TypeOK
  <2> QED
    BY <1>0, <1>1, <1>3, <1>4, <1>5, <2>1, MulticastMutex
<1>7. OwnRequest'
  BY <1>4, <1>5, <1>6 DEF MutexInv, OwnRequest, queue_contains, Live
<1>8. ReplyAccounting'
  <2>1. last_request_reply_count[p] = 0
    BY <1>1 DEF MutexInv, ReplyAccounting
  <2> QED
    BY <1>3, <1>4, <1>6, <2>1 DEF MutexInv, ReplyAccounting, Live
<1>9. FirstInside'
  BY <1>4, <1>6 DEF MutexInv, FirstInside
<1> QED
  BY <1>6, <1>7, <1>8, <1>9 DEF MutexInv

\* An assert() of mutex.c fails.
LEMMA AbortMutex ==
  ASSUME TypeInv, MutexInv, NEW p \in Children, NEW f \in Procs \ {p}, NEW label, NEW types,
         Take(p, f, label, types), Abort(p)
  PROVE  MutexInv'
<1>1. ~Live(p)' /\ \A c \in Children \ {p} : pc'[c] = pc[c]
  BY ProcsFacts DEF Abort, Goto, Live, TypeInv, TypeOK, ChildTypeOK
<1> QED
  BY <1>1, ReceiveMutex DEF Take, Abort, mutexVars

\* The steps of pa4/mutex.c keep the invariant.
LEMMA MutexStepMutex ==
  ASSUME TypeInv, MutexInv, NEW p \in Children, MutexStep(p)
  PROVE  MutexInv'
<1> USE ProcsFacts, NAssumption
<1>0. /\ pc \in [Procs -> Label]
      /\ last_request_reply_count \in [Children -> Nat]
      /\ queue \in [Children -> [Children -> Nat]]
  BY DEF TypeInv, TypeOK, ChildTypeOK
<1>a. pc[p] = "request" => /\ last_request_reply_count[p] + Cardinality(Outstanding(p)) <= N - 1
                           /\ Live(p)
  BY DEF MutexInv, ReplyAccounting, Live
<1>b. ASSUME NEW q, NEW n, ReturnIfFirst(p, q, n), pc[p] = "request"
      PROVE  \A c \in Children : Live(c)' <=> Live(c)
  BY <1>0, <1>b DEF ReturnIfFirst, Goto, Live
<1>1. CASE BeginRequest(p)
  BY <1>1, BeginRequestMutex
<1>2. CASE Release(p)
  BY <1>2, ReleaseMutex
<1>3. ASSUME NEW f \in Procs \ {p}, RequestTakesReply(p, f)
      PROVE  MutexInv'
  <2> DEFINE n == last_request_reply_count[p] + 1
  <2>1. /\ Take(p, f, "request", {"CS_REPLY"}) /\ outbox' = outbox /\ queue' = queue
        /\ ReturnIfFirst(p, queue[p], n) /\ pc[p] = "request"
    BY <1>3 DEF RequestTakesReply, Take
  <2>2. /\ ParentSilent' /\ LinksInOrder' /\ QueueAgreement'
        /\ f \in Outstanding(p) /\ Outstanding(p)' = Outstanding(p) \ {f}
        /\ \A c \in Children \ {p} : Outstanding(c)' = Outstanding(c)
    BY <1>b, <2>1, AcceptReplyMutex
  <2>3. /\ Cardinality(Outstanding(p)') = Cardinality(Outstanding(p)) - 1
        /\ Cardinality(Outstanding(p)) \in Nat
    <3>1. IsFiniteSet(Outstanding(p))
      BY OutstandingFinite
    <3>2. /\ Cardinality(Outstanding(p) \ {f}) = Cardinality(Outstanding(p)) - 1
          /\ Cardinality(Outstanding(p)) \in Nat
      BY ONLY <2>2, <3>1, FS_RemoveElement, FS_CardinalityType
    <3> QED
      BY ONLY <2>2, <3>2
  <2>4. n \in Nat /\ n + Cardinality(Outstanding(p)') <= N - 1
    BY <1>0, <1>a, <2>1, <2>3
  <2> HIDE DEF n
  <2> QED
    BY <2>1, <2>2, <2>4, GrantStep
<1>4. ASSUME NEW f \in Procs \ {p}, RequestTakesRequest(p, f)
      PROVE  MutexInv'
  <2> DEFINE n == last_request_reply_count[p]
             t == Oldest(p, f).time
  <2>1. Take(p, f, "request", {"CS_REQUEST"}) /\ pc[p] = "request" /\ n \in Nat
    BY <1>0, <1>4 DEF RequestTakesRequest, Take
  <2>2. CASE queue_contains(queue[p], f)
    BY <1>4, <2>1, <2>2, AbortMutex DEF RequestTakesRequest
  <2>3. CASE ~queue_contains(queue[p], f)
    <3>1. /\ AcceptRequest(p, f, t)
          /\ ReturnIfFirst(p, [queue[p] EXCEPT ![f] = t], n)
      BY <1>4, <2>3 DEF RequestTakesRequest
    <3>2. /\ f \in Children
          /\ ParentSilent' /\ LinksInOrder' /\ QueueAgreement'
          /\ \A c \in Children : Outstanding(c)' = Outstanding(c)
      BY <1>a, <1>b, <2>1, <3>1, AcceptRequestMutex
    <3>3. /\ queue'[p] = [queue[p] EXCEPT ![f] = t]
          /\ queue'[p][p] = queue[p][p]
          /\ \A c \in Children \ {p} : queue'[c] = queue[c]
      BY <1>0, <3>1, <3>2 DEF AcceptRequest
    <3> HIDE DEF n, t
    <3>4. n + Cardinality(Outstanding(p)') <= N - 1
      BY <1>a, <2>1, <3>2 DEF n
    <3> QED
      BY <2>1, <3>1, <3>2, <3>3, <3>4, GrantStep
  <2> QED
    BY <2>2, <2>3
<1>5. ASSUME NEW f \in Procs \ {p}, RequestTakesRelease(p, f)
      PROVE  MutexInv'
  <2> DEFINE n == last_request_reply_count[p]
  <2>1. Take(p, f, "request", {"CS_RELEASE"}) /\ pc[p] = "request" /\ n \in Nat
    BY <1>0, <1>5 DEF RequestTakesRelease, Take
  <2>2. CASE ~queue_contains(queue[p], f)
    BY <1>5, <2>1, <2>2, AbortMutex DEF RequestTakesRelease
  <2>3. CASE queue_contains(queue[p], f)
    <3>1. /\ AcceptRelease(p, f, Oldest(p, f).time)
          /\ ReturnIfFirst(p, [queue[p] EXCEPT ![f] = EMPTY_REQUEST_TIME], n)
      BY <1>5, <2>3 DEF RequestTakesRelease
    <3>2. /\ f \in Children
          /\ ParentSilent' /\ LinksInOrder' /\ QueueAgreement'
          /\ \A c \in Children : Outstanding(c)' = Outstanding(c)
      BY <1>a, <1>b, <2>1, <3>1, AcceptReleaseMutex
    <3>3. /\ queue'[p] = [queue[p] EXCEPT ![f] = EMPTY_REQUEST_TIME]
          /\ queue'[p][p] = queue[p][p]
          /\ \A c \in Children \ {p} : queue'[c] = queue[c]
      BY <1>0, <3>1, <3>2 DEF AcceptRelease
    <3> HIDE DEF n
    <3>4. n + Cardinality(Outstanding(p)') <= N - 1
      BY <1>a, <2>1, <3>2 DEF n
    <3> QED
      BY <2>1, <3>1, <3>2, <3>3, <3>4, GrantStep
  <2> QED
    BY <2>2, <2>3
<1>6. ASSUME NEW f \in Procs \ {p}, RequestTakesOther(p, f)
      PROVE  MutexInv'
  <2>1. /\ receive(p, f) /\ outbox' = outbox /\ UNCHANGED mutexVars
        /\ pc[p] = "request" /\ Live(p)
        /\ CountDone(p, Oldest(p, f), "request")
    BY <1>6 DEF RequestTakesOther, Take, mutexVars, Live
  <2>2. /\ \A c \in Children \ {p} : pc'[c] = pc[c]
        /\ ~Live(p)' \/ (Oldest(p, f).type = "DONE" /\ pc'[p] = "request")
    BY <1>0, <2>1 DEF CountDone, Goto, Live
  <2> QED
    BY <2>1, <2>2, ReceiveMutex
<1>7. ASSUME NEW f \in Procs \ {p}, DrainTakesRequest(p, f)
      PROVE  MutexInv'
  <2>1. Take(p, f, "drain", {"CS_REQUEST"}) /\ pc[p] = "drain" /\ Live(p)
    BY <1>7 DEF DrainTakesRequest, Take, Live
  <2>2. CASE queue_contains(queue[p], f)
    BY <1>7, <2>1, <2>2, AbortMutex DEF DrainTakesRequest
  <2>3. CASE ~queue_contains(queue[p], f)
    <3>1. /\ AcceptRequest(p, f, Oldest(p, f).time)
          /\ pc' = pc /\ last_request_reply_count' = last_request_reply_count
      BY <1>7, <2>3 DEF DrainTakesRequest
    <3>2. /\ f \in Children
          /\ ParentSilent' /\ LinksInOrder' /\ QueueAgreement'
          /\ \A c \in Children : Outstanding(c)' = Outstanding(c)
      BY <2>1, <3>1, AcceptRequestMutex DEF Live
    <3>3. /\ \A c \in Children : queue'[c][c] = queue[c][c]
          /\ \A c \in Children \ {p} : queue'[c] = queue[c]
      BY <1>0, <3>1, <3>2 DEF AcceptRequest
    <3> QED
      BY <2>1, <3>1, <3>2, <3>3, DrainStep
  <2> QED
    BY <2>2, <2>3
<1>8. ASSUME NEW f \in Procs \ {p}, DrainTakesRelease(p, f)
      PROVE  MutexInv'
  <2>1. Take(p, f, "drain", {"CS_RELEASE"}) /\ pc[p] = "drain" /\ Live(p)
    BY <1>8 DEF DrainTakesRelease, Take, Live
  <2>2. CASE ~queue_contains(queue[p], f)
    BY <1>8, <2>1, <2>2, AbortMutex DEF DrainTakesRelease
  <2>3. CASE queue_contains(queue[p], f)
    <3>1. /\ AcceptRelease(p, f, Oldest(p, f).time)
          /\ pc' = pc /\ last_request_reply_count' = last_request_reply_count
      BY <1>8, <2>3 DEF DrainTakesRelease
    <3>2. /\ f \in Children
          /\ ParentSilent' /\ LinksInOrder' /\ QueueAgreement'
          /\ \A c \in Children : Outstanding(c)' = Outstanding(c)
      BY <2>1, <3>1, AcceptReleaseMutex DEF Live
    <3>3. /\ \A c \in Children : queue'[c][c] = queue[c][c]
          /\ \A c \in Children \ {p} : queue'[c] = queue[c]
      BY <1>0, <3>1, <3>2 DEF AcceptRelease
    <3> QED
      BY <2>1, <3>1, <3>2, <3>3, DrainStep
  <2> QED
    BY <2>2, <2>3
<1>9. ASSUME NEW f \in Procs \ {p}, NEW types, DrainTakesOther(p, f, types), UNCHANGED mutexVars
      PROVE  MutexInv'
  <2>1. /\ receive(p, f) /\ outbox' = outbox
        /\ pc[p] = "drain" /\ Live(p)
        /\ CountDone(p, Oldest(p, f), IF awaiting_children[p] > 1 THEN "drain" ELSE "sleep")
    BY <1>9 DEF DrainTakesOther, Take, Live
  <2>2. /\ \A c \in Children \ {p} : pc'[c] = pc[c]
        /\ ~Live(p)' \/ (Oldest(p, f).type = "DONE" /\ pc'[p] \in {"drain", "sleep"})
    BY <1>0, <2>1 DEF CountDone, Goto, Live
  <2> QED
    BY <1>9, <2>1, <2>2, ReceiveMutex
<1> QED
  BY <1>1, <1>2, <1>3, <1>4, <1>5, <1>6, <1>7, <1>8, <1>9 DEF MutexStep

-----------------------------------------------------------------------------
\* The invariant holds before any message is sent.
LEMMA MutexInit == Init => MutexInv
<1> SUFFICES ASSUME Init PROVE MutexInv
  OBVIOUS
<1>1. \A a, b \in Procs : Link(a, b) = <<>>
  BY DEF Init, ChildInit, IpcInit, Link
<1>2. \A a, b \in Children, x \in MessageType : ~Carries(a, b, x)
  BY <1>1, ProcsFacts DEF Carries, Contains
<1>3. \A p \in Children : pc[p] = "start"
  BY ProcsFacts DEF Init, ChildInit
<1>4. ParentSilent
  BY <1>1, ProcsFacts DEF ParentSilent
<1>5. OwnRequest
  BY <1>3 DEF Init, OwnRequest, queue_contains
<1>6. ReplyAccounting
  BY <1>2, <1>3 DEF Init, ReplyAccounting, Outstanding, MessageType
<1>7. LinksInOrder
  BY <1>1, <1>2, ProcsFacts DEF LinksInOrder, LinkOrder, RequestLast, RequestsCarry, AtMostOneReply, MessageType
<1>8. QueueAgreement
  BY DEF Init, QueueAgreement
<1>9. FirstInside
  BY <1>3 DEF FirstInside
<1> QED
  BY <1>4, <1>5, <1>6, <1>7, <1>8, <1>9 DEF MutexInv

\* The invariant is inductive.
LEMMA MutexNext == TypeInv /\ MutexInv /\ [Next]_vars => MutexInv'
<1> SUFFICES ASSUME TypeInv, MutexInv, [Next]_vars PROVE MutexInv'
  OBVIOUS
<1>1. ASSUME NEW p \in Children, ChildNext(p) PROVE MutexInv'
  BY <1>1, ChildStepMutex, MutexStepMutex DEF ChildNext
<1>2. CASE ParentNext
  BY <1>2, ParentStepMutex DEF ParentNext
<1>3. CASE UNCHANGED vars
  BY <1>3, SilentMutex DEF vars, childVars, Live
<1> QED
  BY <1>1, <1>2, <1>3 DEF Next

\* The accounting of replies, the order of the messages of each link and the
\* agreement of the queues hold in every state of pa4's algorithm.
THEOREM LamportInvariant == Spec => []MutexInv
<1> QED
  BY TypeInit, TypeNext, MutexInit, MutexNext, PTL DEF Spec

\* Two children that request_cs() let in would each be first in the other's queue.
LEMMA InvExcludes ==
  ASSUME TypeInv, MutexInv, NEW p \in Children, NEW q \in Children, pc[p] = "cs", pc[q] = "cs"
  PROVE  p = q
<1> SUFFICES ASSUME p # q PROVE FALSE
  OBVIOUS
<1>1. Live(p) /\ Live(q) /\ queue_contains(queue[p], p) /\ queue_contains(queue[q], q)
  BY DEF MutexInv, OwnRequest, Live
<1>2. ~Carries(p, q, "CS_REQUEST") /\ ~Carries(q, p, "CS_REQUEST")
  BY <1>1 DEF MutexInv, ReplyAccounting, Outstanding
<1>3. LinkOrder(p, q) /\ LinkOrder(q, p)
  BY <1>1 DEF MutexInv, LinksInOrder
<1>4. ~Carries(p, q, "CS_RELEASE") /\ ~Carries(q, p, "CS_RELEASE")
  BY <1>1, <1>2, <1>3 DEF LinkOrder
<1>5. queue[q][p] = queue[p][p] /\ queue[p][q] = queue[q][q]
  BY <1>1, <1>2, <1>4 DEF MutexInv, QueueAgreement
<1>6. IsTop(queue[p], p) /\ IsTop(queue[q], q)
  BY DEF MutexInv, FirstInside
<1>7. Before(queue[p][p], p, queue[q][q], q) /\ Before(queue[q][q], q, queue[p][p], p)
  <2>1. /\ \A d \in Children \ {p} : queue_contains(queue[p], d) => Before(queue[p][p], p, queue[p][d], d)
        /\ \A d \in Children \ {q} : queue_contains(queue[q], d) => Before(queue[q][q], q, queue[q][d], d)
    BY <1>1, <1>6 DEF IsTop
  <2>2. queue_contains(queue[p], q) /\ queue_contains(queue[q], p)
    BY <1>1, <1>5 DEF queue_contains
  <2>3. Before(queue[p][p], p, queue[p][q], q) /\ Before(queue[q][q], q, queue[q][p], p)
    BY <2>1, <2>2
  <2> QED
    BY <2>3, <1>5
<1>8. queue[p][p] \in Nat /\ queue[q][q] \in Nat
  BY DEF TypeInv, TypeOK
<1>9. p \in Nat /\ q \in Nat
  BY NAssumption DEF Children
<1> QED
  BY <1>7, <1>8, <1>9 DEF Before

\* For any number of children, any number of iterations and any length of the final
\* sleep, no two children of pa4 are between request_cs() and release_cs() at once.
THEOREM LamportMutualExclusion == Spec => []MutualExclusion
<1>1. TypeInv /\ MutexInv => MutualExclusion
  BY InvExcludes DEF MutualExclusion, InCS
<1> QED
  BY <1>1, TypeInit, TypeNext, MutexInit, MutexNext, PTL DEF Spec

-----------------------------------------------------------------------------
(* The scan of the queue *)

Queue == [Children -> Nat]

\* One round of the loop of top_enqueued_request().
ScanStep(q, k, r) ==
  IF queue_contains(q, k) /\ Earlier(q[k], r.ts) THEN [child |-> k, ts |-> q[k]] ELSE r

\* What the loop keeps after k entries: of those and of entry 1, the earliest one.
Scanned(q, k) == {1} \cup (1..k)

Keeps(q, k, r) ==
  /\ r \in [child : Scanned(q, k), ts : Nat]
  /\ r.ts = q[r.child]
  /\ \/ /\ queue_contains(q, r.child)
        /\ \A d \in Scanned(q, k) \ {r.child} :
             queue_contains(q, d) => Before(q[r.child], r.child, q[d], d)
     \/ /\ r.child = 1
        /\ \A d \in Scanned(q, k) : ~queue_contains(q, d)

\* The scan begins with the entry of child 1, whether it waits or not.
LEMMA KeepsFirst ==
  ASSUME NEW q \in Queue
  PROVE  Keeps(q, 0, [child |-> 1, ts |-> q[1]])
<1>1. 1 \in Children /\ q[1] \in Nat /\ Scanned(q, 0) = {1}
  BY NAssumption DEF Queue, Children, Scanned
<1> QED
  BY <1>1 DEF Keeps

\* One step of the loop keeps the least entry of those that were looked at.
LEMMA KeepsNext ==
  ASSUME NEW q \in Queue, NEW k \in 1..N, NEW r, Keeps(q, k - 1, r)
  PROVE  Keeps(q, k, ScanStep(q, k, r))
<1>1. /\ Scanned(q, k) = Scanned(q, k - 1) \cup {k} /\ Scanned(q, k) \subseteq Children
      /\ k \in Children /\ \A d \in Scanned(q, k - 1) : d <= k /\ d \in Nat
      /\ Scanned(q, k - 1) \subseteq Children
  BY NAssumption DEF Scanned, Children
<1>2. \A d \in Children : q[d] \in Nat /\ d \in Nat
  BY DEF Queue, Children
<1>3. r.child \in Scanned(q, k - 1) /\ r.ts = q[r.child] /\ r.ts \in Nat
      /\ r \in [child : Scanned(q, k), ts : Nat]
  BY <1>1 DEF Keeps
<1>4. CASE queue_contains(q, k) /\ Earlier(q[k], r.ts)
  <2>1. ScanStep(q, k, r) = [child |-> k, ts |-> q[k]]
    BY <1>4 DEF ScanStep
  <2>2. ASSUME NEW d \in Scanned(q, k) \ {k}, queue_contains(q, d)
        PROVE  Before(q[k], k, q[d], d)
    <3>1. d \in Scanned(q, k - 1) /\ d \in Children
      BY <1>1, <2>2
    <3>2. queue_contains(q, r.child) /\ q[k] < q[r.child]
      BY <1>1, <1>2, <1>3, <1>4, <2>2, <3>1 DEF Keeps, Earlier, queue_contains, EMPTY_REQUEST_TIME
    <3>3. d = r.child \/ Before(q[r.child], r.child, q[d], d)
      BY <2>2, <3>1, <3>2 DEF Keeps
    <3> QED
      BY <1>1, <1>2, <1>3, <3>1, <3>2, <3>3 DEF Before
  <2> QED
    BY <1>1, <1>2, <1>4, <2>1, <2>2 DEF Keeps
<1>5. CASE ~(queue_contains(q, k) /\ Earlier(q[k], r.ts))
  <2>1. ScanStep(q, k, r) = r
    BY <1>5 DEF ScanStep
  <2>2. CASE ~queue_contains(q, k)
    BY <1>1, <1>3, <2>1, <2>2 DEF Keeps
  <2>3. CASE queue_contains(q, k)
    <3>1. r.ts # 0 /\ r.ts <= q[k]
      BY <1>1, <1>2, <1>3, <1>5, <2>3 DEF Earlier, EMPTY_REQUEST_TIME
    <3>2. queue_contains(q, r.child)
      BY <1>3, <3>1 DEF queue_contains, EMPTY_REQUEST_TIME
    <3>3. \A d \in Scanned(q, k - 1) \ {r.child} :
            queue_contains(q, d) => Before(q[r.child], r.child, q[d], d)
      BY <1>3, <3>2 DEF Keeps
    <3>4. k # r.child => Before(q[r.child], r.child, q[k], k)
      BY <1>1, <1>2, <1>3, <3>1 DEF Before
    <3>5. \A d \in Scanned(q, k) \ {r.child} :
            queue_contains(q, d) => Before(q[r.child], r.child, q[d], d)
      BY <1>1, <3>3, <3>4
    <3> QED
      BY <1>3, <2>1, <3>2, <3>5 DEF Keeps
  <2> QED
    BY <2>2, <2>3
<1> QED
  BY <1>4, <1>5

\* Of two results that are as they should be one is the other.
LEMMA KeepsOne ==
  ASSUME NEW q \in Queue, NEW k \in 0..N, NEW r, NEW s, Keeps(q, k, r), Keeps(q, k, s)
  PROVE  r = s
<1>1. Scanned(q, k) \subseteq Children /\ \A d \in Children : q[d] \in Nat /\ d \in Nat
  BY NAssumption DEF Scanned, Queue, Children
<1>2. r.child \in Scanned(q, k) /\ s.child \in Scanned(q, k) /\ r.ts = q[r.child] /\ s.ts = q[s.child]
      /\ r = [child |-> r.child, ts |-> r.ts] /\ s = [child |-> s.child, ts |-> s.ts]
  BY DEF Keeps
<1>3. r.child = s.child
  <2>1. CASE queue_contains(q, r.child) /\ queue_contains(q, s.child)
    BY <1>1, <1>2, <2>1 DEF Keeps, Before
  <2>2. CASE ~queue_contains(q, r.child) \/ ~queue_contains(q, s.child)
    BY <1>2, <2>2 DEF Keeps
  <2> QED
    BY <2>1, <2>2
<1> QED
  BY <1>2, <1>3

\* The loop is well defined: there is a function of the number of rounds that begins
\* with entry 1 and goes on round by round.
IsScan(q, scan) ==
  scan = [k \in 0..N |-> IF k = 0 THEN [child |-> 1, ts |-> q[1]]
                         ELSE ScanStep(q, k, scan[k - 1])]

\* The loop has a result for every queue.
LEMMA ScanThere ==
  ASSUME NEW q \in Queue
  PROVE  \E scan : IsScan(q, scan)
<1> DEFINE S == {k \in 0..N : \E r : Keeps(q, k, r)}
           scan == [k \in 0..N |-> CHOOSE r : Keeps(q, k, r)]
<1>1. N \in Nat
  BY NAssumption
<1>2. 0 \in S
  <2>1. Keeps(q, 0, [child |-> 1, ts |-> q[1]])
    BY KeepsFirst
  <2> QED
    BY <1>1, <2>1
<1>3. ASSUME NEW k \in 0..N, k < N, k \in S PROVE k + 1 \in S
  <2>1. k + 1 \in 1..N /\ (k + 1) - 1 = k
    BY <1>1, <1>3
  <2>2. PICK r : Keeps(q, k, r)
    BY <1>3
  <2>3. Keeps(q, k + 1, ScanStep(q, k + 1, r))
    BY <2>1, <2>2, KeepsNext
  <2> QED
    BY <2>1, <2>3
<1>4. \A k \in 0..N : k \in S
  <2> HIDE DEF S
  <2> QED
    BY <1>1, <1>2, <1>3, UpTo
<1>5. \A k \in 0..N : Keeps(q, k, scan[k])
  <2> SUFFICES ASSUME NEW k \in 0..N PROVE Keeps(q, k, scan[k])
    OBVIOUS
  <2>1. \E r : Keeps(q, k, r)
    BY <1>4
  <2>2. Keeps(q, k, CHOOSE r : Keeps(q, k, r))
    BY <2>1
  <2> QED
    BY <2>2
<1> HIDE DEF S
<1>6. scan[0] = [child |-> 1, ts |-> q[1]]
  BY <1>1, <1>5, KeepsFirst, KeepsOne
<1>7. ASSUME NEW k \in 0..N, k # 0
      PROVE  scan[k] = ScanStep(q, k, scan[k - 1])
  <2>1. k \in 1..N /\ k - 1 \in 0..N
    BY <1>1, <1>7
  <2>2. Keeps(q, k - 1, scan[k - 1]) /\ Keeps(q, k, scan[k])
    BY <1>5, <2>1
  <2> HIDE DEF scan
  <2>3. Keeps(q, k, ScanStep(q, k, scan[k - 1]))
    BY <2>1, <2>2, KeepsNext
  <2> QED
    BY <2>2, <2>3, KeepsOne
<1>8. scan = [k \in 0..N |-> scan[k]]
  OBVIOUS
<1> HIDE DEF scan
<1>9. scan = [k \in 0..N |-> IF k = 0 THEN [child |-> 1, ts |-> q[1]]
                             ELSE ScanStep(q, k, scan[k - 1])]
  BY <1>6, <1>7, <1>8
<1> QED
  BY <1>9 DEF IsScan

\* What the loop keeps at the end is the first entry of the queue.
LEMMA ScanKeeps ==
  ASSUME NEW q \in Queue, NEW scan, IsScan(q, scan)
  PROVE  Keeps(q, N, scan[N])
<1> DEFINE S == {k \in 0..N : Keeps(q, k, scan[k])}
<1>1. N \in Nat
  BY NAssumption
<1>2. scan[0] = [child |-> 1, ts |-> q[1]]
      /\ \A k \in 1..N : scan[k] = ScanStep(q, k, scan[k - 1])
  <2> DEFINE kept(k) == IF k = 0 THEN [child |-> 1, ts |-> q[1]] ELSE ScanStep(q, k, scan[k - 1])
  <2>1. scan = [k \in 0..N |-> kept(k)]
    BY DEF IsScan
  <2> HIDE DEF kept
  <2>2. \A k \in 0..N : scan[k] = kept(k)
    BY <2>1
  <2> QED
    BY <1>1, <2>2 DEF kept
<1>3. 0 \in S
  BY <1>1, <1>2, KeepsFirst
<1>4. ASSUME NEW k \in 0..N, k < N, k \in S PROVE k + 1 \in S
  <2>1. k + 1 \in 1..N /\ (k + 1) - 1 = k /\ k + 1 \in 0..N
    BY <1>1, <1>4
  <2>2. Keeps(q, k + 1, ScanStep(q, k + 1, scan[k]))
    BY <1>4, <2>1, KeepsNext
  <2>3. scan[k + 1] = ScanStep(q, k + 1, scan[k])
    BY <1>2, <2>1
  <2> QED
    BY <2>1, <2>2, <2>3
<1>5. N \in S
  <2> HIDE DEF S
  <2>1. \A k \in 0..N : k \in S
    BY <1>1, <1>3, <1>4, UpTo
  <2> QED
    BY <1>1, <2>1
<1> QED
  BY <1>5

\* top_enqueued_request() is the child whose request is first.
LEMMA TopScanTop ==
  ASSUME NEW q \in Queue
  PROVE  TopScan(q) \in Children /\ IsTop(q, TopScan(q))
<1> DEFINE scan == CHOOSE scan : IsScan(q, scan)
<1>1. TopScan(q) = scan[N].child
  BY DEF TopScan, IsScan, ScanStep
<1>2. IsScan(q, scan)
  BY ScanThere
<1> HIDE DEF scan
<1>3. Keeps(q, N, scan[N])
  BY <1>2, ScanKeeps
<1>4. Scanned(q, N) = Children
  BY NAssumption DEF Scanned, Children
<1> QED
  BY <1>1, <1>3, <1>4 DEF Keeps, IsTop

\* Only one child is first.
LEMMA OneTop ==
  ASSUME NEW q \in Queue, NEW c \in Children, NEW d \in Children, IsTop(q, c), IsTop(q, d)
  PROVE  c = d
<1>1. \A e \in Children : q[e] \in Nat /\ e \in Nat
  BY DEF Queue, Children
<1>2. CASE queue_contains(q, c) /\ queue_contains(q, d)
  BY <1>1, <1>2 DEF IsTop, Before
<1>3. CASE ~queue_contains(q, c) \/ ~queue_contains(q, d)
  BY <1>3 DEF IsTop
<1> QED
  BY <1>2, <1>3

\* The scan of pa4's queue, entry by entry, finds the child whose request is first, in
\* every queue that the algorithm builds and however many children there are.
THEOREM LamportScanFindsTop == Spec => []ScanFindsTop
<1>1. TypeOK => ScanFindsTop
  <2> SUFFICES ASSUME TypeOK, NEW p \in Children, NEW c \in Children
               PROVE  TopScan(queue[p]) = c <=> IsTop(queue[p], c)
    BY DEF ScanFindsTop
  <2>1. queue[p] \in Queue
    BY DEF TypeOK, Queue
  <2> QED
    BY <2>1, TopScanTop, OneTop
<1> QED
  BY <1>1, TypeCorrect, PTL

-----------------------------------------------------------------------------
(* Clocks *)

\* The steps of pa4/mutex.c keep the times increasing.
LEMMA MutexStepClocks ==
  ASSUME TypeInv, TypeInv', ClocksIncrease, NEW p \in Children, MutexStep(p)
  PROVE  ClocksIncrease'
<1> USE ProcsFacts
<1>0. /\ ChildTypeOK /\ ChildTypeOK' /\ ChildInv /\ ChildInv'
      /\ lamport_time \in [Procs -> Nat]
      /\ [type |-> "CS_REQUEST", time |-> lamport_time[p] + 1] \in Message
      /\ [type |-> "CS_RELEASE", time |-> lamport_time[p] + 1] \in Message
  BY DEF TypeInv, ChildInv, ChildTypeOK, Message, MessageType
<1>a. lamport_time' = lamport_time => \A a \in Procs : lamport_time[a] <= lamport_time'[a]
  BY <1>0
<1>1. CASE BeginRequest(p)
  <2>1. CASE queue_contains(queue[p], p)
    <3>1. /\ pipes' = pipes /\ outbox' = outbox
          /\ lamport_time' = [lamport_time EXCEPT ![p] = @ + 1]
      BY <1>1, <2>1 DEF BeginRequest
    <3>2. \A a \in Procs : lamport_time[a] <= lamport_time'[a]
      BY <1>0, <3>1
    <3> QED
      BY <1>0, <3>1, <3>2, ClocksStutter DEF Link
  <2>2. CASE ~queue_contains(queue[p], p)
    BY <1>0, <1>1, <2>2, ClocksPost DEF BeginRequest, ipc_multicast_to_children
  <2> QED
    BY <2>1, <2>2
<1>2. CASE Release(p)
  <2>1. CASE ~queue_contains(queue[p], p)
    <3>1. pipes' = pipes /\ outbox' = outbox /\ lamport_time' = lamport_time
      BY <1>2, <2>1 DEF Release, Abort
    <3> QED
      BY <1>0, <1>a, <3>1, ClocksStutter DEF Link
  <2>2. CASE queue_contains(queue[p], p)
    BY <1>0, <1>2, <2>2, ClocksPost DEF Release, InCS, ipc_multicast_to_children
  <2> QED
    BY <2>1, <2>2
<1>3. ASSUME NEW f \in Procs \ {p}, NEW label, NEW types, NEW t,
             Take(p, f, label, types), AcceptRequest(p, f, Oldest(p, f).time)
      PROVE  ClocksIncrease'
  BY <1>0, <1>3, AnswerClocks DEF AcceptRequest
<1>4. ASSUME NEW f \in Procs \ {p}, NEW label, NEW types,
             Take(p, f, label, types), outbox' = outbox,
             \/ lamport_time' = lamport_time
             \/ lamport_time' = [lamport_time EXCEPT ![p] = Synchronized(@, Oldest(p, f).time)]
             \/ lamport_time' = [lamport_time EXCEPT ![p] = Synchronized(@, Oldest(p, f).time) + 1]
      PROVE  ClocksIncrease'
  BY <1>0, <1>4, TakeClocks
<1>5. ASSUME NEW f \in Procs \ {p},
             \/ RequestTakesReply(p, f) \/ RequestTakesOther(p, f)
             \/ \E types \in SUBSET MessageType : DrainTakesOther(p, f, types)
      PROVE  ClocksIncrease'
  BY <1>4, <1>5 DEF RequestTakesReply, RequestTakesOther, DrainTakesOther
<1>6. ASSUME NEW f \in Procs \ {p}, RequestTakesRequest(p, f) \/ DrainTakesRequest(p, f)
      PROVE  ClocksIncrease'
  BY <1>3, <1>4, <1>6 DEF RequestTakesRequest, DrainTakesRequest, Abort
<1>7. ASSUME NEW f \in Procs \ {p}, RequestTakesRelease(p, f) \/ DrainTakesRelease(p, f)
      PROVE  ClocksIncrease'
  BY <1>4, <1>7 DEF RequestTakesRelease, DrainTakesRelease, Abort, AcceptRelease
<1> QED
  BY <1>1, <1>2, <1>5, <1>6, <1>7 DEF MutexStep

\* The times of the messages under way increase, from one state to the next.
LEMMA ClocksNext == TypeInv /\ TypeInv' /\ ClocksIncrease /\ [Next]_vars => ClocksIncrease'
<1> SUFFICES ASSUME TypeInv, TypeInv', ClocksIncrease, [Next]_vars PROVE ClocksIncrease'
  OBVIOUS
<1>0. ChildInv /\ ChildInv' /\ ChildTypeOK /\ ChildTypeOK'
  BY DEF TypeInv, ChildInv
<1>1. ASSUME NEW p \in Children, ChildNext(p) PROVE ClocksIncrease'
  BY <1>0, <1>1, ChildStepClocks, MutexStepClocks DEF ChildNext
<1>2. CASE ParentNext
  BY <1>0, <1>2, ParentStepClocks DEF ParentNext
<1>3. CASE UNCHANGED vars
  <2>1. \A a, b \in Procs : Link(a, b)' = Link(a, b) /\ lamport_time'[a] = lamport_time[a]
    BY <1>3 DEF vars, childVars, Link
  <2> QED
    BY <1>0, <2>1, ClocksStutter DEF ChildTypeOK
<1> QED
  BY <1>1, <1>2, <1>3 DEF Next

\* A child of pa4 reads the messages of another child in the order of their times,
\* and none is later than the sender's clock.
THEOREM LamportClocks == Spec => []ClocksIncrease
<1>1. Init => ClocksIncrease
  BY ClocksInit DEF Init
<1> QED
  BY <1>1, TypeInit, TypeNext, ClocksNext, PTL DEF Spec

-----------------------------------------------------------------------------
(* Refinement *)

\* The steps of pa4/mutex.c touch no other child.
LEMMA MutexStepFrame ==
  ASSUME TypeInv, NEW p \in Children, MutexStep(p)
  PROVE  \A c \in Children \ {p} : ClientStatus'[c] = ClientStatus[c]
<1> USE ProcsFacts
<1>0. pc \in [Procs -> Label] /\ outbox \in [Procs -> [Procs -> Message \cup {NoMessage}]]
  BY DEF TypeInv, TypeOK, ChildTypeOK, IpcTypeOK
<1>1. \A l : Goto(p, l) => \A c \in Children \ {p} : pc'[c] = pc[c]
  BY <1>0 DEF Goto
<1>2. \A D, m : Post(p, D, m) => \A c \in Children \ {p} : outbox'[c] = outbox[c]
  BY <1>0 DEF Post
<1>3. \A q, n : ReturnIfFirst(p, q, n) => \A c \in Children \ {p} : pc'[c] = pc[c]
  BY <1>1 DEF ReturnIfFirst
<1>4. \A c \in Children \ {p} : pc'[c] = pc[c]
  BY <1>1, <1>3 DEF MutexStep, BeginRequest, Release, Abort, RequestTakesReply, RequestTakesRequest,
         RequestTakesRelease, RequestTakesOther, DrainTakesRequest, DrainTakesRelease,
         DrainTakesOther, CountDone
<1>5. \A c \in Children \ {p} : outbox'[c] = outbox[c]
  BY <1>2 DEF MutexStep, BeginRequest, Release, Abort, RequestTakesReply, RequestTakesRequest,
         RequestTakesRelease, RequestTakesOther, DrainTakesRequest, DrainTakesRelease,
         DrainTakesOther, AcceptRequest, AcceptRelease, ipc_multicast_to_children, send
<1> QED
  BY <1>4, <1>5, StatusFrame

\* What they do is what a client of Mutex may do: request_cs() starts and returns,
\* release_cs() starts, or an assert() of request_cs() or handle_cs_requests() fails;
\* the one of release_cs() cannot.
LEMMA MutexStepService ==
  ASSUME TypeInv, MutexInv, MutualExclusion', NEW p \in Children, MutexStep(p)
  PROVE  [Service!Next]_ClientStatus
<1> USE ProcsFacts
<1> DEFINE s == ClientStatus  t == ClientStatus'
           Status(l, sending) == IF l \in {"exited", "killed", "failed", "spin"} THEN "dead"
                                 ELSE IF l = "cs" /\ ~sending THEN "in"
                                 ELSE IF l \in {"ask", "request", "cs"} THEN "waiting"
                                 ELSE "out"
<1>0. pc \in [Procs -> Label]
  BY DEF TypeInv, TypeOK, ChildTypeOK
<1>1. s[p] = Status(pc[p], Sending(p)) /\ t[p] = Status(pc'[p], Sending(p)')
  BY DEF ClientStatus, Live, InCS
<1>2. \A c \in Children \ {p} : t[c] = s[c]
  BY MutexStepFrame
<1>3. CASE BeginRequest(p)
  <2>1. pc[p] = "loop" /\ pc'[p] = "request"
    BY <1>0, <1>3 DEF BeginRequest, Goto
  <2> QED
    BY <1>1, <1>2, <2>1, ServiceStep
<1>4. CASE Release(p)
  <2>1. queue_contains(queue[p], p)
    BY <1>4 DEF Release, InCS, MutexInv, OwnRequest, Live
  <2>2. pc[p] = "cs" /\ ~Sending(p) /\ pc'[p] = "loop"
    BY <1>0, <1>4, <2>1 DEF Release, InCS, Goto
  <2> QED
    BY <1>1, <1>2, <2>2, ServiceStep
<1>5. ASSUME pc[p] = "request", pc'[p] \in {"request", "cs", "failed"}
      PROVE  [Service!Next]_ClientStatus
  BY <1>1, <1>2, <1>5, ServiceStep
<1>6. ASSUME pc[p] = "drain", pc'[p] \in {"drain", "sleep", "failed"}
      PROVE  [Service!Next]_ClientStatus
  BY <1>1, <1>2, <1>6, ServiceStep
<1>7. ASSUME NEW f \in Procs \ {p},
             \/ RequestTakesReply(p, f) \/ RequestTakesRequest(p, f)
             \/ RequestTakesRelease(p, f) \/ RequestTakesOther(p, f)
      PROVE  [Service!Next]_ClientStatus
  <2>1. pc[p] = "request"
    BY <1>7 DEF RequestTakesReply, RequestTakesRequest, RequestTakesRelease, RequestTakesOther, Take
  <2>2. pc'[p] \in {"request", "cs", "failed"}
    BY <1>0, <1>7, <2>1 DEF RequestTakesReply, RequestTakesRequest, RequestTakesRelease,
         RequestTakesOther, ReturnIfFirst, Abort, CountDone, Goto
  <2> QED
    BY <1>5, <2>1, <2>2
<1>8. ASSUME NEW f \in Procs \ {p},
             \/ DrainTakesRequest(p, f) \/ DrainTakesRelease(p, f)
             \/ \E types \in SUBSET MessageType : DrainTakesOther(p, f, types)
      PROVE  [Service!Next]_ClientStatus
  <2>1. pc[p] = "drain"
    BY <1>8 DEF DrainTakesRequest, DrainTakesRelease, DrainTakesOther, Take
  <2>2. pc'[p] \in {"drain", "sleep", "failed"}
    BY <1>0, <1>8, <2>1 DEF DrainTakesRequest, DrainTakesRelease, DrainTakesOther, Abort, CountDone, Goto
  <2> QED
    BY <1>6, <2>1, <2>2
<1> QED
  BY <1>3, <1>4, <1>7, <1>8 DEF MutexStep

\* Every step of pa4 is a step of Mutex or changes nothing that its clients see.
LEMMA ServiceNext ==
  TypeInv /\ MutexInv /\ MutualExclusion' /\ [Next]_vars => [Service!Next]_ClientStatus
<1> SUFFICES ASSUME TypeInv, MutexInv, MutualExclusion', [Next]_vars
             PROVE  [Service!Next]_ClientStatus
  OBVIOUS
<1>0. ChildTypeOK
  BY DEF TypeInv, TypeOK
<1>1. ASSUME NEW p \in Children, ChildNext(p) PROVE [Service!Next]_ClientStatus
  BY <1>0, <1>1, ChildStepService, MutexStepService DEF ChildNext
<1>2. CASE ParentNext
  BY <1>0, <1>2, ParentStepService DEF ParentNext
<1>3. CASE UNCHANGED vars
  BY <1>3 DEF vars, childVars, ClientStatus, Live, InCS, Sending
<1> QED
  BY <1>1, <1>2, <1>3 DEF Next

\* request_cs() and release_cs() of pa4 implement the mutual-exclusion service: a child
\* is let in only while nobody is inside, it leaves only by release_cs(), and no child
\* dies inside.
THEOREM LamportService == Spec => ServiceSpec
<1>1. Init => Service!Init
  BY ServiceInit DEF Init
<1>2. TypeInv /\ MutexInv => MutualExclusion
  BY InvExcludes DEF MutualExclusion, InCS
<1> QED
  BY <1>1, <1>2, TypeInit, TypeNext, MutexInit, MutexNext, ServiceNext, PTL
  DEF Spec, ServiceSpec, Service!Spec

-----------------------------------------------------------------------------
(* The order of the grants.  GrantInOrder speaks of requests that the child  *)
(* inside may not have heard of: what makes them later ones is that their    *)
(* senders had answered before.  The requests of a child that has died count *)
(* as well, so nothing below asks its sender to be alive.                    *)

\* A CS_REQUEST of s is followed by a CS_REPLY.
RequestBeforeReply(s) ==
  \E k, l \in 1..Len(s) : k < l /\ s[k].type = "CS_REQUEST" /\ s[l].type = "CS_REPLY"

AtMostOneRelease(s) ==
  \A k, l \in 1..Len(s) : s[k].type = "CS_RELEASE" /\ s[l].type = "CS_RELEASE" => k = l

\* The requests and releases that p sends, alive or dead by now, reach q in turn: what
\* comes next is a release exactly if q has an entry for p, so no assert() of q fails.
InTurn(p, q) ==
  /\ RequestLast(Link(p, q))
  /\ AtMostOneRelease(Link(p, q))
  /\ queue_contains(queue[p], p) => RequestsCarry(Link(p, q), queue[p][p])
  /\ Live(q) => /\ Carries(p, q, "CS_RELEASE") => queue_contains(queue[q], p)
                /\ Carries(p, q, "CS_REQUEST") /\ ~Carries(p, q, "CS_RELEASE")
                     => ~queue_contains(queue[q], p)

\* p knows the pending request of q.
Known(p, q) ==
  /\ queue[p][q] = queue[q][q]
  /\ ~Carries(q, p, "CS_REQUEST") /\ ~Carries(q, p, "CS_RELEASE")

\* Once q has received the request of p its clock is past it, and a pending request of q
\* is known to p, or p will know it before it gets the reply, or it is the later one.
Answered(p, q) ==
  Live(p) /\ pc[p] \in {"request", "cs"} /\ ~Carries(p, q, "CS_REQUEST") =>
    /\ Live(q) => queue[p][p] < lamport_time[q]
    /\ queue_contains(queue[q], q) =>
         \/ Known(p, q)
         \/ Before(queue[p][p], p, queue[q][q], q)
         \/ RequestBeforeReply(Link(q, p))

\* A reply is sent by itself, so only the death of its receiver can lose it.
ReplyAlone ==
  \A p, d, e \in Procs :
    outbox[p][d].type = "CS_REPLY" /\ e # d => outbox[p][e] = NoMessage

PairsInOrder == \A p, q \in Children : p # q => InTurn(p, q) /\ Answered(p, q)

OrderInv == ReplyAlone /\ PairsInOrder

\* What a receive leaves of these facts.
LEMMA TurnTail ==
  ASSUME NEW s \in Seq(Message), s # <<>>
  PROVE  /\ AtMostOneRelease(s) => AtMostOneRelease(Tail(s))
         /\ AtMostOneRelease(s) /\ Head(s).type = "CS_RELEASE" => ~Contains(Tail(s), "CS_RELEASE")
         /\ RequestBeforeReply(s) /\ Head(s).type # "CS_REQUEST" => RequestBeforeReply(Tail(s))
         /\ AtMostOneReply(s) /\ Head(s).type = "CS_REPLY" => ~RequestBeforeReply(s)
<1> DEFINE t == Tail(s)
<1>1. /\ Len(s) \in Nat \ {0} /\ Len(t) = Len(s) - 1
      /\ Head(s) = s[1] /\ 1 \in 1..Len(s)
      /\ \A k \in 1..Len(t) : k + 1 \in 1..Len(s) /\ t[k] = s[k + 1]
      /\ \A k \in 1..Len(s) : k # 1 => k - 1 \in 1..Len(t) /\ t[k - 1] = s[k]
  OBVIOUS
<1> HIDE DEF t
<1>2. AtMostOneRelease(s) => AtMostOneRelease(t)
  BY <1>1 DEF AtMostOneRelease
<1>3. AtMostOneRelease(s) /\ Head(s).type = "CS_RELEASE" => ~Contains(t, "CS_RELEASE")
  BY <1>1 DEF AtMostOneRelease, Contains
<1>4. ASSUME RequestBeforeReply(s), Head(s).type # "CS_REQUEST"
      PROVE  RequestBeforeReply(t)
  <2>1. PICK k, l \in 1..Len(s) : k < l /\ s[k].type = "CS_REQUEST" /\ s[l].type = "CS_REPLY"
    BY <1>4 DEF RequestBeforeReply
  <2>2. k # 1 /\ l # 1
    BY <1>1, <1>4, <2>1
  <2>3. /\ k - 1 \in 1..Len(t) /\ l - 1 \in 1..Len(t) /\ k - 1 < l - 1
        /\ t[k - 1].type = "CS_REQUEST" /\ t[l - 1].type = "CS_REPLY"
    BY <1>1, <2>1, <2>2
  <2> QED
    BY <2>3 DEF RequestBeforeReply
<1>5. AtMostOneReply(s) /\ Head(s).type = "CS_REPLY" => ~RequestBeforeReply(s)
  BY <1>1 DEF AtMostOneReply, RequestBeforeReply
<1> QED
  BY <1>2, <1>3, <1>4, <1>5 DEF t

\* What a send makes of them, and what is left if it is lost.
LEMMA TurnAppend ==
  ASSUME NEW s \in Seq(Message), NEW m \in Message
  PROVE  /\ AtMostOneRelease(s) /\ (m.type # "CS_RELEASE" \/ ~Contains(s, "CS_RELEASE"))
              => AtMostOneRelease(Append(s, m))
         /\ RequestBeforeReply(s) => RequestBeforeReply(Append(s, m))
         /\ Contains(s, "CS_REQUEST") /\ m.type = "CS_REPLY" => RequestBeforeReply(Append(s, m))
         /\ RequestBeforeReply(Append(s, m)) /\ m.type # "CS_REPLY" => RequestBeforeReply(s)
         /\ AtMostOneRelease(Append(s, m)) => AtMostOneRelease(s)
         /\ RequestLast(Append(s, m)) => RequestLast(s)
         /\ \A z : RequestsCarry(Append(s, m), z) => RequestsCarry(s, z)
         /\ RequestLast(Append(s, m)) /\ m.type = "CS_RELEASE" => ~Contains(s, "CS_REQUEST")
<1> DEFINE t == Append(s, m)  n == Len(s) + 1
<1>1. /\ Len(s) \in Nat /\ Len(t) = n /\ t[n] = m
      /\ \A k \in 1..Len(s) : k \in 1..n /\ k < n /\ t[k] = s[k]
      /\ \A k \in 1..Len(t) : k \in 1..Len(s) \/ k = n
      /\ n \in 1..n
  OBVIOUS
<1> HIDE DEF t, n
<1>2. ASSUME AtMostOneRelease(s), m.type # "CS_RELEASE" \/ ~Contains(s, "CS_RELEASE")
      PROVE  AtMostOneRelease(t)
  BY <1>1, <1>2 DEF AtMostOneRelease, Contains
<1>3. RequestBeforeReply(s) => RequestBeforeReply(t)
  BY <1>1 DEF RequestBeforeReply
<1>4. Contains(s, "CS_REQUEST") /\ m.type = "CS_REPLY" => RequestBeforeReply(t)
  BY <1>1 DEF RequestBeforeReply, Contains
<1>5. ASSUME RequestBeforeReply(t), m.type # "CS_REPLY" PROVE RequestBeforeReply(s)
  <2>1. PICK k, l \in 1..n : k < l /\ t[k].type = "CS_REQUEST" /\ t[l].type = "CS_REPLY"
    BY <1>1, <1>5 DEF RequestBeforeReply
  <2>2. l \in 1..Len(s) /\ k \in 1..Len(s)
    BY <1>1, <1>5, <2>1 DEF n
  <2> QED
    BY <1>1, <2>1, <2>2 DEF RequestBeforeReply
<1>6. AtMostOneRelease(t) => AtMostOneRelease(s)
  BY <1>1 DEF AtMostOneRelease
<1>7. RequestLast(t) => RequestLast(s)
  BY <1>1 DEF RequestLast
<1>8. \A z : RequestsCarry(t, z) => RequestsCarry(s, z)
  BY <1>1 DEF RequestsCarry
<1>9. ASSUME RequestLast(t), m.type = "CS_RELEASE", Contains(s, "CS_REQUEST") PROVE FALSE
  <2>1. PICK k \in 1..Len(s) : s[k].type = "CS_REQUEST"
    BY <1>9 DEF Contains
  <2>2. k \in 1..Len(t) /\ n \in 1..Len(t) /\ t[k].type = "CS_REQUEST" /\ t[n].type = "CS_RELEASE"
    BY <1>1, <1>9, <2>1
  <2>3. n <= k
    BY <1>9, <2>2 DEF RequestLast
  <2> QED
    BY <1>1, <2>1, <2>3 DEF n
<1> QED
  BY <1>2, <1>3, <1>4, <1>5, <1>6, <1>7, <1>8, <1>9 DEF t

\* t has lost messages of s, or got some that are not about critical sections.
Shed(s, t) ==
  /\ RequestLast(s) => RequestLast(t)
  /\ AtMostOneRelease(s) => AtMostOneRelease(t)
  /\ \A z : RequestsCarry(s, z) => RequestsCarry(t, z)
  /\ Contains(t, "CS_REQUEST") => Contains(s, "CS_REQUEST")
  /\ Contains(t, "CS_RELEASE") => Contains(s, "CS_RELEASE")

\* No release that comes before a request is lost, and no reply after one.
Kept(s, t) ==
  /\ RequestLast(s) /\ Contains(t, "CS_REQUEST") /\ ~Contains(t, "CS_RELEASE")
       => ~Contains(s, "CS_RELEASE")
  /\ RequestBeforeReply(s) => RequestBeforeReply(t)

\* A receive, the send of a STARTED or DONE and the loss of a send.
LEMMA ShedSteps ==
  ASSUME NEW s \in Seq(Message)
  PROVE  /\ Shed(s, s) /\ Kept(s, s)
         /\ s # <<>> => /\ Shed(s, Tail(s))
                        /\ Head(s).type \in {"STARTED", "DONE"}
                             => /\ Kept(s, Tail(s))
                                /\ Contains(Tail(s), "CS_REQUEST") <=> Contains(s, "CS_REQUEST")
         /\ \A m \in Message :
              m.type \in {"STARTED", "DONE"} =>
                /\ Shed(s, Append(s, m)) /\ Kept(s, Append(s, m))
                /\ Contains(Append(s, m), "CS_REQUEST") <=> Contains(s, "CS_REQUEST")
         /\ \A m \in Message :
              /\ Shed(Append(s, m), s)
              /\ m.type # "CS_REPLY" => Kept(Append(s, m), s)
<1>1. Shed(s, s) /\ Kept(s, s)
  BY DEF Shed, Kept
<1>2. ASSUME s # <<>> PROVE Shed(s, Tail(s))
  BY <1>2, TurnTail, OrderTail, ContainsTail DEF Shed
<1>3. ASSUME s # <<>>, Head(s).type \in {"STARTED", "DONE"}
      PROVE  Kept(s, Tail(s)) /\ (Contains(Tail(s), "CS_REQUEST") <=> Contains(s, "CS_REQUEST"))
  BY <1>3, TurnTail, ContainsTail DEF Kept
<1>4. ASSUME NEW m \in Message, m.type \in {"STARTED", "DONE"}
      PROVE  /\ Shed(s, Append(s, m)) /\ Kept(s, Append(s, m))
             /\ Contains(Append(s, m), "CS_REQUEST") <=> Contains(s, "CS_REQUEST")
  BY <1>4, TurnAppend, OrderAppend, ContainsAppend DEF Shed, Kept
<1>5. ASSUME NEW m \in Message
      PROVE  Shed(Append(s, m), s) /\ (m.type # "CS_REPLY" => Kept(Append(s, m), s))
  BY TurnAppend, ContainsAppend DEF Shed, Kept
<1> QED
  BY <1>1, <1>2, <1>3, <1>4, <1>5

-----------------------------------------------------------------------------
(* Steps that only lose messages, or send STARTED and DONE *)

\* Such a step keeps what is said of a pair, unless a child takes a request and dies.
LEMMA QuietPair ==
  ASSUME TypeInv, TypeInv', NEW a \in Children, NEW b \in Children, InTurn(a, b), Answered(a, b),
         UNCHANGED mutexVars,
         \A c \in {a, b} :
           /\ lamport_time[c] <= lamport_time'[c]
           /\ Live(c)' => Live(c) /\ (pc'[c] \in {"request", "cs"} => pc[c] \in {"request", "cs"}),
         Shed(Link(a, b), Link(a, b)'), Shed(Link(b, a), Link(b, a)'),
         Live(a)' => \/ Carries(a, b, "CS_REQUEST") => Carries(a, b, "CS_REQUEST")'
                     \/ ~Live(b)' /\ ~queue_contains(queue[b], b),
         Live(b)' => Kept(Link(a, b), Link(a, b)'),
         Live(a)' => Kept(Link(b, a), Link(b, a)')
  PROVE  InTurn(a, b)' /\ Answered(a, b)'
<1> USE ProcsFacts DEF mutexVars
<1>1. InTurn(a, b)'
  <2>1. Live(b)' => Live(b)
    OBVIOUS
  <2> QED
    BY <2>1 DEF InTurn, Shed, Kept, Carries, queue_contains
<1>2. Answered(a, b)'
  <2> SUFFICES ASSUME Live(a)', pc'[a] \in {"request", "cs"}, ~Carries(a, b, "CS_REQUEST")'
               PROVE  /\ Live(b)' => queue[a][a] < lamport_time'[b]
                      /\ queue_contains(queue[b], b) =>
                           \/ Known(a, b)'
                           \/ Before(queue[a][a], a, queue[b][b], b)
                           \/ RequestBeforeReply(Link(b, a))'
    BY DEF Answered, queue_contains, Before
  <2>1. CASE ~Live(b)' /\ ~queue_contains(queue[b], b)
    BY <2>1
  <2>2. CASE Carries(a, b, "CS_REQUEST") => Carries(a, b, "CS_REQUEST")'
    <3>1. /\ Live(b) => queue[a][a] < lamport_time[b]
          /\ queue_contains(queue[b], b) =>
               \/ Known(a, b)
               \/ Before(queue[a][a], a, queue[b][b], b)
               \/ RequestBeforeReply(Link(b, a))
      BY <2>2 DEF Answered
    <3>2. Known(a, b) => Known(a, b)'
      BY DEF Known, Shed, Carries
    <3>3. RequestBeforeReply(Link(b, a)) => RequestBeforeReply(Link(b, a))'
      BY DEF Kept
    <3>4. /\ queue[a][a] \in Nat /\ lamport_time[b] \in Nat /\ lamport_time'[b] \in Nat
          /\ lamport_time[b] <= lamport_time'[b]
          /\ Live(b)' => Live(b)
      BY DEF TypeInv, TypeOK, ChildTypeOK
    <3> QED
      BY <3>1, <3>2, <3>3, <3>4
  <2> QED
    BY <2>1, <2>2
<1> QED
  BY <1>1, <1>2

\* A step of the skeleton, or a failed check of a message's type.
LEMMA QuietPairs ==
  ASSUME TypeInv, TypeInv', PairsInOrder, UNCHANGED mutexVars,
         \A c \in Children :
           /\ lamport_time[c] <= lamport_time'[c]
           /\ Live(c)' => Live(c) /\ (pc'[c] \in {"request", "cs"} => pc[c] \in {"request", "cs"}),
         \A a, b \in Children :
           a # b =>
             /\ Shed(Link(a, b), Link(a, b)')
             /\ Live(a)' => \/ Carries(a, b, "CS_REQUEST") => Carries(a, b, "CS_REQUEST")'
                            \/ ~Live(b)' /\ ~queue_contains(queue[b], b)
             /\ Live(b)' => Kept(Link(a, b), Link(a, b)')
  PROVE  PairsInOrder'
<1> SUFFICES ASSUME NEW a \in Children, NEW b \in Children, a # b
             PROVE  InTurn(a, b)' /\ Answered(a, b)'
  BY DEF PairsInOrder
<1>1. InTurn(a, b) /\ Answered(a, b)
  BY DEF PairsInOrder
<1> QED
  BY <1>1, QuietPair

\* A write() loses nothing but the sends of a child that it kills, and no reply to a child
\* that lives.
LEMMA WriteOrder ==
  ASSUME TypeInv, TypeInv', OrderInv, NEW p \in Children, Write(p), UNCHANGED mutexVars
  PROVE  PairsInOrder'
<1> USE ProcsFacts
<1>0. IpcTypeOK /\ pc \in [Procs -> Label]
  BY DEF TypeInv, TypeOK, ChildTypeOK
<1>1. PICK d \in Procs : NextDst(p, d)
                         /\ IF HungUp(d)
                              THEN /\ outbox' = [outbox EXCEPT ![p] = [e \in Procs |-> NoMessage]]
                                   /\ Goto(p, "killed")
                                   /\ UNCHANGED pipes
                              ELSE /\ pipes' = [pipes EXCEPT ![d][p] = Append(@, outbox[p][d])]
                                   /\ outbox' = [outbox EXCEPT ![p][d] = NoMessage]
                                   /\ UNCHANGED pc
  BY DEF Write
<1>2. /\ PairsInOrder
      /\ \A c \in Procs : lamport_time[c] <= lamport_time'[c]
      /\ \A a, b \in Procs : Link(a, b) \in Seq(Message)
  <2>1. \A a, b \in Procs : Link(a, b) \in Seq(Message)
    BY <1>0, LinkType
  <2>2. \A c \in Procs : lamport_time[c] <= lamport_time'[c]
    BY DEF Write, TypeInv, TypeOK, ChildTypeOK
  <2> QED
    BY <2>1, <2>2 DEF OrderInv
<1>3. CASE HungUp(d)
  <2>1. /\ pipes' = pipes
        /\ \A a, b \in Procs : outbox'[a][b] = IF a = p THEN NoMessage ELSE outbox[a][b]
    <3>1. pipes' = pipes /\ outbox' = [outbox EXCEPT ![p] = [e \in Procs |-> NoMessage]]
      BY <1>1, <1>3
    <3> QED
      BY <1>0, <3>1 DEF IpcTypeOK
  <2>2. /\ \A c \in Children \ {p} : pc'[c] = pc[c]
        /\ ~Live(p)' /\ ~Live(d)'
    BY <1>0, <1>1, <1>3 DEF Goto, Live, HungUp, Gone
  <2>3. ASSUME NEW a \in Children, NEW b \in Children, a # b
        PROVE  /\ Shed(Link(a, b), Link(a, b)')
               /\ Live(a)' => Link(a, b)' = Link(a, b)
               /\ Live(b)' => Kept(Link(a, b), Link(a, b)')
    <3>1. CASE Link(a, b)' = Link(a, b)
      BY <1>2, <3>1, ShedSteps
    <3>2. CASE Link(a, b)' # Link(a, b)
      <4>1. /\ a = p /\ outbox[a][b] \in Message /\ pipes[b][a] \in Seq(Message)
            /\ Link(a, b) = Append(pipes[b][a], outbox[a][b]) /\ Link(a, b)' = pipes[b][a]
        <5>1. a \in Procs /\ b \in Procs
          OBVIOUS
        <5>2. outbox[a][b] \in Message \cup {NoMessage} /\ pipes[b][a] \in Seq(Message)
          BY <1>0, <5>1 DEF IpcTypeOK
        <5>3. pipes'[b][a] = pipes[b][a] /\ outbox'[a][b] = IF a = p THEN NoMessage ELSE outbox[a][b]
          BY <2>1, <5>1
        <5> QED
          BY <3>2, <5>2, <5>3 DEF Link
      <4>2. outbox[a][b].type = "CS_REPLY" => b = d
        BY <1>1, <4>1 DEF OrderInv, ReplyAlone, NextDst
      <4>3. ~Live(a)'
        BY <2>2, <4>1
      <4>4. Live(b)' => outbox[a][b].type # "CS_REPLY"
        BY <2>2, <4>2
      <4> QED
        BY <4>1, <4>3, <4>4, ShedSteps
    <3> QED
      BY <3>1, <3>2
  <2> QED
    BY <1>2, <2>2, <2>3, QuietPairs DEF Live, Carries
<1>4. CASE ~HungUp(d)
  <2>1. pc' = pc /\ \A a, b \in Procs : Link(a, b)' = Link(a, b)
    BY <1>0, <1>1, <1>4, LinkWrite DEF NextDst
  <2>2. \A a, b \in Children : Shed(Link(a, b), Link(a, b)') /\ Kept(Link(a, b), Link(a, b)')
    BY <1>2, <2>1, ShedSteps
  <2> QED
    BY <1>2, <2>1, <2>2, QuietPairs DEF Live, Carries
<1> QED
  BY <1>3, <1>4

\* A receive that says nothing about critical sections, or by a child that dies of it
\* without a request of its own.
LEMMA ReceiveOrder ==
  ASSUME TypeInv, TypeInv', PairsInOrder, NEW p \in Procs, NEW f \in Procs, receive(p, f),
         outbox' = outbox, UNCHANGED mutexVars,
         \A c \in Children : lamport_time[c] <= lamport_time'[c],
         \A c \in Children \ {p} : pc'[c] = pc[c],
         p \in Children =>
           \/ Oldest(p, f).type \in {"STARTED", "DONE"} /\ ~Live(p)'
           \/ ~Live(p)' /\ ~queue_contains(queue[p], p)
           \/ /\ Oldest(p, f).type \in {"STARTED", "DONE"} /\ Live(p)
              /\ pc'[p] \in {"request", "cs"} => pc[p] \in {"request", "cs"}
  PROVE  PairsInOrder'
<1> USE ProcsFacts
<1>0. IpcTypeOK
  BY DEF TypeInv, TypeOK, ChildTypeOK
<1>1. /\ \A a, b \in Procs : Link(a, b)' = IF a = f /\ b = p THEN Tail(Link(a, b)) ELSE Link(a, b)
      /\ Link(f, p) # <<>> /\ Oldest(p, f) = Head(Link(f, p))
      /\ \A a, b \in Procs : Link(a, b) \in Seq(Message)
  <2>1. \A a, b \in Procs : Link(a, b)' = IF a = f /\ b = p THEN Tail(Link(a, b)) ELSE Link(a, b)
    BY <1>0, LinkReceive
  <2>2. Link(f, p) # <<>> /\ Oldest(p, f) = Head(Link(f, p))
    BY <1>0, LinkOldest
  <2>3. \A a, b \in Procs : Link(a, b) \in Seq(Message)
    BY <1>0, LinkType
  <2> QED
    BY <2>1, <2>2, <2>3
<1>2. ASSUME NEW a \in Children, NEW b \in Children, a # b
      PROVE  /\ Shed(Link(a, b), Link(a, b)')
             /\ Live(a)' => \/ Carries(a, b, "CS_REQUEST") => Carries(a, b, "CS_REQUEST")'
                            \/ ~Live(b)' /\ ~queue_contains(queue[b], b)
             /\ Live(b)' => Kept(Link(a, b), Link(a, b)')
  <2>1. CASE ~(a = f /\ b = p)
    <3>1. Link(a, b)' = Link(a, b)
      BY <1>1, <2>1
    <3> QED
      BY <1>1, <3>1, ShedSteps DEF Carries
  <2>2. CASE a = f /\ b = p
    <3> DEFINE s == Link(a, b)
    <3>1. s \in Seq(Message) /\ s # <<>> /\ Link(a, b)' = Tail(s) /\ Oldest(p, f) = Head(s)
      BY <1>1, <2>2
    <3>2. /\ Shed(s, Tail(s))
          /\ Head(s).type \in {"STARTED", "DONE"}
               => /\ Kept(s, Tail(s))
                  /\ Contains(Tail(s), "CS_REQUEST") <=> Contains(s, "CS_REQUEST")
      BY <3>1, ShedSteps
    <3> HIDE DEF s
    <3> QED
      BY <2>2, <3>1, <3>2 DEF Carries, s
  <2> QED
    BY <2>1, <2>2
<1> QED
  BY <1>2, QuietPairs DEF Live

\* The multicast of STARTED or DONE.
LEMMA AnnounceOrder ==
  ASSUME TypeInv, TypeInv', PairsInOrder, NEW p \in Children, ~Sending(p), pipes' = pipes,
         NEW m \in Message, m.type \in {"STARTED", "DONE"}, send_multicast(p, m),
         UNCHANGED mutexVars, Live(p),
         \A c \in Children : lamport_time[c] <= lamport_time'[c],
         NEW l \in Label \ {"request", "cs"}, Goto(p, l)
  PROVE  PairsInOrder'
<1> USE ProcsFacts
<1>0. IpcTypeOK /\ pc \in [Procs -> Label]
  BY DEF TypeInv, TypeOK, ChildTypeOK
<1>1. /\ \A a, b \in Procs :
           Link(a, b)' = IF a = p /\ b \in Procs \ {p} THEN Append(Link(a, b), m) ELSE Link(a, b)
      /\ \A a, b \in Procs : Link(a, b) \in Seq(Message)
  <2>1. \A a, b \in Procs : Link(a, b) \in Seq(Message)
    BY <1>0, LinkType
  <2>2. p \in Procs /\ Post(p, Procs \ {p}, m)
    BY DEF send_multicast
  <2>3. IpcTypeOK /\ ~Sending(p) /\ pipes' = pipes /\ m \in Message
    BY <1>0
  <2>4. \A a, b \in Procs :
           Link(a, b)' = IF a = p /\ b \in Procs \ {p} THEN Append(Link(a, b), m) ELSE Link(a, b)
    BY <2>2, <2>3, LinkPost
  <2> QED
    BY <2>1, <2>4
<1>2. ASSUME NEW a \in Children, NEW b \in Children, a # b
      PROVE  /\ Shed(Link(a, b), Link(a, b)')
             /\ Carries(a, b, "CS_REQUEST") => Carries(a, b, "CS_REQUEST")'
             /\ Kept(Link(a, b), Link(a, b)')
  <2>1. /\ Link(a, b) \in Seq(Message)
        /\ Link(a, b)' = Link(a, b) \/ Link(a, b)' = Append(Link(a, b), m)
    BY <1>1
  <2> QED
    BY <2>1, ShedSteps DEF Carries
<1>3. \A c \in Children :
        Live(c)' => Live(c) /\ (pc'[c] \in {"request", "cs"} => pc[c] \in {"request", "cs"})
  BY <1>0 DEF Goto, Live
<1> QED
  BY <1>2, <1>3, QuietPairs

\* Nothing is sent or received.
LEMMA SilentOrder ==
  ASSUME TypeInv, TypeInv', PairsInOrder, UNCHANGED <<pipes, outbox, mutexVars>>,
         \A c \in Children :
           /\ lamport_time[c] <= lamport_time'[c]
           /\ Live(c)' => Live(c) /\ (pc'[c] \in {"request", "cs"} => pc[c] \in {"request", "cs"})
  PROVE  PairsInOrder'
<1> USE ProcsFacts
<1>1. \A a, b \in Children : Link(a, b)' = Link(a, b) /\ Link(a, b) \in Seq(Message)
  BY LinkType DEF Link, TypeInv, TypeOK, ChildTypeOK
<1>2. \A a, b \in Children : /\ Shed(Link(a, b), Link(a, b)')
                             /\ Carries(a, b, "CS_REQUEST") => Carries(a, b, "CS_REQUEST")'
                             /\ Kept(Link(a, b), Link(a, b)')
  BY <1>1, ShedSteps DEF Carries
<1> QED
  BY <1>2, QuietPairs

\* The steps of child.c outside mutex.c.
LEMMA ChildStepOrder ==
  ASSUME TypeInv, TypeInv', MutexInv, OrderInv, NEW p \in Children, ChildStep(p),
         UNCHANGED mutexVars
  PROVE  PairsInOrder'
<1> USE ProcsFacts
<1>0. /\ lamport_time \in [Procs -> Nat] /\ pc \in [Procs -> Label] /\ IpcTypeOK
      /\ [type |-> "STARTED", time |-> lamport_time[p] + 1] \in Message
      /\ [type |-> "DONE", time |-> lamport_time[p] + 1] \in Message
      /\ PairsInOrder
  BY DEF TypeInv, TypeOK, ChildTypeOK, Message, MessageType, OrderInv, PairsInOrder
<1>a. lamport_time' = lamport_time => \A c \in Children : lamport_time[c] <= lamport_time'[c]
  BY <1>0
<1>1. CASE Write(p)
  BY <1>1, WriteOrder
<1>2. CASE Start(p)
  <2>1. /\ lamport_time'[p] = lamport_time[p] + 1
        /\ \A c \in Children : lamport_time[c] <= lamport_time'[c]
    BY <1>0, <1>2 DEF Start
  <2>2. "loop" \in Label /\ "await_started" \in Label /\ pc[p] = "start"
    BY <1>2 DEF Label, Start
  <2> QED
    BY <1>0, <1>2, <2>1, <2>2, AnnounceOrder DEF Start, Live
<1>3. CASE AwaitStarted(p)
  <2> DEFINE f == from[p]
  <2>1. f \in Procs /\ receive(p, f) /\ outbox' = outbox /\ pc[p] = "await_started"
    <3>1. f \in 1..(N + 1) /\ f <= N
      BY <1>3 DEF AwaitStarted, ReceiveAll, TypeInv, TypeOK, ChildTypeOK
    <3>2. f \in Procs
      BY <3>1, NAssumption DEF Procs, PARENT_ID
    <3> QED
      BY <1>3, <3>2 DEF AwaitStarted, ReceiveAll
  <2>2. /\ Oldest(p, f).time \in Nat
        /\ Synchronized(lamport_time[p], Oldest(p, f).time) \in Nat
        /\ Synchronized(lamport_time[p], Oldest(p, f).time) > lamport_time[p]
    BY <1>0, <2>1, ReceiveType, SynchronizedType
  <2>3. \A c \in Children : lamport_time[c] <= lamport_time'[c]
    BY <1>0, <1>3, <2>2 DEF AwaitStarted, ReceiveAll
  <2>4. ~queue_contains(queue[p], p) /\ Live(p)
    BY <2>1 DEF MutexInv, OwnRequest, Live
  <2>5. /\ \A c \in Children \ {p} : pc'[c] = pc[c]
        /\ \/ ~Live(p)'
           \/ Oldest(p, f).type = "STARTED" /\ pc'[p] \in {"await_started", "loop"}
    BY <1>0, <1>3, <2>1 DEF AwaitStarted, ReceiveAll, Goto, Live
  <2> HIDE DEF f
  <2> QED
    BY <1>0, <2>1, <2>3, <2>4, <2>5, ReceiveOrder
<1>4. CASE PlainIteration(p)
  BY <1>0, <1>a, <1>4, SilentOrder DEF PlainIteration, Live
<1>5. CASE SendDone(p)
  <2>1. /\ lamport_time'[p] = lamport_time[p] + 1
        /\ \A c \in Children : lamport_time[c] <= lamport_time'[c]
    BY <1>0, <1>5 DEF SendDone
  <2>2. "drain" \in Label /\ "sleep" \in Label /\ pc[p] = "loop"
    BY <1>5 DEF Label, SendDone
  <2> QED
    BY <1>0, <1>5, <2>1, <2>2, AnnounceOrder DEF SendDone, Live
<1>6. CASE Exit(p) \/ SpinOnEof(p)
  <2>1. /\ UNCHANGED <<pipes, outbox>> /\ lamport_time' = lamport_time
        /\ ~Live(p)' /\ \A c \in Children \ {p} : pc'[c] = pc[c]
    BY <1>0, <1>6 DEF Exit, SpinOnEof, Goto, Live
  <2> QED
    BY <1>0, <1>a, <2>1, SilentOrder DEF Live
<1> QED
  BY <1>1, <1>2, <1>3, <1>4, <1>5, <1>6 DEF ChildStep

\* The steps of the parent.
LEMMA ParentStepOrder ==
  ASSUME TypeInv, TypeInv', PairsInOrder, ParentStep, UNCHANGED mutexVars
  PROVE  PairsInOrder'
<1> USE ProcsFacts
<1>0. IpcTypeOK /\ pc \in [Procs -> Label] /\ lamport_time \in [Procs -> Nat]
  BY DEF TypeInv, TypeOK, ChildTypeOK
<1>1. ASSUME NEW type, NEW next, ReceiveAll(PARENT_ID, type, next)
      PROVE  PairsInOrder'
  <2> DEFINE f == from[PARENT_ID]
  <2>1. f \in Procs /\ receive(PARENT_ID, f) /\ outbox' = outbox
    BY <1>1, NAssumption DEF ReceiveAll, TypeInv, TypeOK, ChildTypeOK, Procs, PARENT_ID
  <2>2. /\ \A c \in Children : lamport_time[c] <= lamport_time'[c]
        /\ \A c \in Children : pc'[c] = pc[c]
    BY <1>0, <1>1 DEF ReceiveAll, Goto
  <2> HIDE DEF f
  <2> QED
    BY <2>1, <2>2, ReceiveOrder
<1>2. CASE UNCHANGED <<pipes, outbox, lamport_time>> /\ \E l : Goto(PARENT_ID, l)
  BY <1>0, <1>2, SilentOrder DEF Goto, Live
<1> QED
  BY <1>1, <1>2 DEF ParentStep, ParentSetUp, ParentAwaitStarted, ParentAwaitDone, ParentExit

-----------------------------------------------------------------------------
(* Steps of the algorithm *)

\* What a step leaves alone, but for clocks that advance, stays true of a pair.
LEMMA PairFrame ==
  ASSUME TypeInv, TypeInv', PairsInOrder, NEW a \in Children, NEW b \in Children, a # b,
         Link(a, b)' = Link(a, b), Link(b, a)' = Link(b, a),
         queue'[a][a] = queue[a][a], queue'[b][b] = queue[b][b],
         queue'[a][b] = queue[a][b], queue'[b][a] = queue[b][a],
         lamport_time[b] <= lamport_time'[b],
         Live(a)' => Live(a) /\ (pc'[a] \in {"request", "cs"} => pc[a] \in {"request", "cs"}),
         Live(b)' => Live(b)
  PROVE  InTurn(a, b)' /\ Answered(a, b)'
<1>0. InTurn(a, b) /\ Answered(a, b)
  BY DEF PairsInOrder
<1>1. InTurn(a, b)'
  BY <1>0 DEF InTurn, Carries, queue_contains
<1>2. /\ queue[a][a] \in Nat /\ lamport_time[b] \in Nat /\ lamport_time'[b] \in Nat
  BY ProcsFacts DEF TypeInv, TypeOK, ChildTypeOK
<1>3. Answered(a, b)'
  BY <1>0, <1>2 DEF Answered, Known, Carries, queue_contains, Before
<1> QED
  BY <1>1, <1>3

\* What is known when p takes a message of f from its pipe.
LEMMA TakeOrder ==
  ASSUME TypeInv, TypeInv', MutexInv, PairsInOrder, NEW p \in Children, NEW f \in Procs \ {p},
         NEW label, NEW types, Take(p, f, label, types), Live(p)
  PROVE  /\ f \in Children /\ f # p /\ p \in Procs /\ f \in Procs
         /\ Link(f, p) \in Seq(Message) /\ Link(f, p) # <<>> /\ Link(p, f) \in Seq(Message)
         /\ Oldest(p, f) = Head(Link(f, p)) /\ Oldest(p, f).type \in types
         /\ InTurn(f, p) /\ InTurn(p, f) /\ Answered(f, p) /\ Answered(p, f) /\ LinkOrder(p, f)
         /\ Oldest(p, f).type = "CS_REQUEST" => ~queue_contains(queue[p], f)
         /\ Oldest(p, f).type = "CS_RELEASE" => queue_contains(queue[p], f)
<1> USE ProcsFacts
<1>1. /\ f \in Children /\ Link(f, p) # <<>> /\ Oldest(p, f) = Head(Link(f, p))
      /\ Oldest(p, f).type \in types /\ receive(p, f)
  BY TakeFacts DEF Take
<1>2. Link(f, p) \in Seq(Message) /\ Link(p, f) \in Seq(Message)
  BY <1>1, LinkType DEF TypeInv, TypeOK, ChildTypeOK
<1>3. InTurn(f, p) /\ InTurn(p, f) /\ Answered(f, p) /\ Answered(p, f) /\ LinkOrder(p, f)
  BY <1>1 DEF PairsInOrder, MutexInv, LinksInOrder
<1>4. /\ Oldest(p, f).type = "CS_REQUEST"
           => Carries(f, p, "CS_REQUEST") /\ ~Carries(f, p, "CS_RELEASE")
      /\ Oldest(p, f).type = "CS_RELEASE" => Carries(f, p, "CS_RELEASE")
  BY <1>1, <1>2, <1>3, OrderTail, ContainsTail DEF Carries, InTurn
<1> QED
  BY <1>1, <1>2, <1>3, <1>4 DEF InTurn

\* A request is enqueued and answered: the reply follows whatever p asked of f.
LEMMA AcceptRequestOrder ==
  ASSUME TypeInv, TypeInv', MutexInv, PairsInOrder, NEW p \in Children, NEW f \in Procs \ {p},
         NEW label, Take(p, f, label, {"CS_REQUEST"}), Live(p),
         AcceptRequest(p, f, Oldest(p, f).time),
         \A c \in Children \ {p} : pc'[c] = pc[c],
         Live(p)', pc'[p] \in {"request", "cs"} => pc[p] \in {"request", "cs"}
  PROVE  PairsInOrder'
<1> USE ProcsFacts
<1> DEFINE t == Oldest(p, f).time
           u == Synchronized(lamport_time[p], t) + 1
           m == [type |-> "CS_REPLY", time |-> u]
           s == Link(f, p)
           r == Link(p, f)
<1>0. /\ IpcTypeOK /\ lamport_time \in [Procs -> Nat]
      /\ queue \in [Children -> [Children -> Nat]]
  BY DEF TypeInv, TypeOK, ChildTypeOK
<1>1. /\ f \in Children /\ f # p /\ p \in Procs /\ f \in Procs
      /\ s \in Seq(Message) /\ s # <<>> /\ r \in Seq(Message)
      /\ Head(s).type = "CS_REQUEST" /\ Head(s).time = t
      /\ InTurn(f, p) /\ InTurn(p, f) /\ Answered(f, p) /\ Answered(p, f) /\ LinkOrder(p, f)
  BY TakeOrder
<1>2. /\ m \in Message /\ m.type = "CS_REPLY"
      /\ t \in Nat /\ u \in Nat /\ t < u /\ lamport_time[p] < u
  <2> DEFINE w == Synchronized(lamport_time[p], t)
  <2>1. t \in Nat /\ m \in Message /\ lamport_time[p] \in Nat
    BY TakeType DEF TypeInv, TypeOK
  <2>2. w \in Nat /\ w > lamport_time[p] /\ w > t
    BY <2>1, SynchronizedType
  <2>3. m.type = "CS_REPLY" /\ u = w + 1
    OBVIOUS
  <2> HIDE DEF w, u
  <2> QED
    BY <2>1, <2>2, <2>3
<1>3. \A a, b \in Procs :
        Link(a, b)' = IF a = f /\ b = p THEN Tail(Link(a, b))
                      ELSE IF a = p /\ b = f THEN Append(Link(a, b), m)
                      ELSE Link(a, b)
  BY <1>0, <1>1, <1>2, LinkReceiveSend, SMTT(30) DEF AcceptRequest, Take
<1>4. /\ \A a, b \in Children : queue'[a][b] = IF a = p /\ b = f THEN t ELSE queue[a][b]
      /\ lamport_time'[p] = u /\ \A c \in Procs : lamport_time[c] <= lamport_time'[c]
      /\ \A c \in Procs \ {p} : lamport_time'[c] = lamport_time[c]
  BY <1>0, <1>1, <1>2 DEF AcceptRequest
<1> HIDE DEF t, u, m, s, r
<1>5. s' = Tail(s) /\ r' = Append(r, m)
  BY <1>1, <1>3 DEF s, r
<1>6. /\ RequestLast(s) /\ AtMostOneRelease(s)
      /\ queue_contains(queue[f], f) => queue[f][f] = t /\ RequestsCarry(s, queue[f][f])
      /\ ~Contains(s', "CS_REQUEST") /\ ~Contains(s', "CS_RELEASE")
  BY <1>1, <1>5, OrderTail DEF InTurn, s
<1>7. InTurn(f, p)'
  BY <1>1, <1>4, <1>5, <1>6, OrderTail, TurnTail DEF InTurn, Carries, queue_contains, s
<1>8. InTurn(p, f)'
  <2>1. RequestLast(r') /\ AtMostOneRelease(r')
    BY <1>1, <1>2, <1>5, OrderAppend, TurnAppend DEF InTurn, r
  <2>2. queue_contains(queue[p], p) => RequestsCarry(r', queue[p][p])
    BY <1>1, <1>2, <1>5, OrderAppend DEF InTurn, r
  <2>3. \A x \in {"CS_REQUEST", "CS_RELEASE"} : Contains(r', x) <=> Contains(r, x)
    BY <1>1, <1>2, <1>5, ContainsAppend
  <2>4. Live(f)' <=> Live(f)
    BY <1>1 DEF Live
  <2> QED
    BY <1>1, <1>4, <2>1, <2>2, <2>3, <2>4 DEF InTurn, Carries, queue_contains, r
<1>9. Answered(f, p)'
  <2> SUFFICES ASSUME Live(f)', pc'[f] \in {"request", "cs"}
               PROVE  /\ queue'[f][f] < lamport_time'[p]
                      /\ queue_contains(queue'[p], p) => Known(f, p)' \/ RequestBeforeReply(r')
    BY DEF Answered, r
  <2>1. Live(f) /\ queue_contains(queue[f], f) /\ queue[f][f] = t
    BY <1>1, <1>6 DEF Live, MutexInv, OwnRequest
  <2>2. queue'[f][f] < lamport_time'[p]
    BY <1>1, <1>2, <1>4, <2>1
  <2>3. CASE Contains(r, "CS_REQUEST")
    BY <1>1, <1>2, <1>5, <2>2, <2>3, TurnAppend
  <2>4. CASE ~Contains(r, "CS_REQUEST")
    <3> SUFFICES ASSUME queue_contains(queue'[p], p) PROVE Known(f, p)'
      BY <2>2
    <3>1. queue_contains(queue[p], p)
      BY <1>1, <1>4 DEF queue_contains
    <3>2. ~Contains(r, "CS_RELEASE")
      BY <1>1, <2>4, <3>1 DEF LinkOrder, Carries, r
    <3>3. queue[f][p] = queue[p][p]
      BY <1>1, <2>1, <2>4, <3>2 DEF MutexInv, QueueAgreement, Carries, r
    <3>4. ~Contains(r', "CS_REQUEST") /\ ~Contains(r', "CS_RELEASE")
      BY <1>1, <1>2, <1>5, <2>4, <3>2, ContainsAppend
    <3> QED
      BY <1>1, <1>4, <3>3, <3>4 DEF Known, Carries, r
  <2> QED
    BY <2>3, <2>4
<1>10. Answered(p, f)'
  <2> SUFFICES ASSUME Live(p)', pc'[p] \in {"request", "cs"}, ~Contains(r', "CS_REQUEST")
               PROVE  /\ Live(f)' => queue'[p][p] < lamport_time'[f]
                      /\ queue_contains(queue'[f], f) => Known(p, f)'
    BY DEF Answered, Carries, r
  <2>1. ~Contains(r, "CS_REQUEST")
    BY <1>1, <1>2, <1>5, ContainsAppend
  <2>2. Live(f)' => queue[p][p] < lamport_time[f]
    BY <1>1, <2>1 DEF Answered, Carries, Live, r
  <2>3. Live(f)' => queue'[p][p] < lamport_time'[f]
    BY <1>1, <1>4, <2>2
  <2>4. queue_contains(queue'[f], f) => Known(p, f)'
    BY <1>1, <1>4, <1>6 DEF Known, Carries, queue_contains, s
  <2> QED
    BY <2>3, <2>4
<1> SUFFICES ASSUME NEW a \in Children, NEW b \in Children, a # b,
                    ~(a = p /\ b = f), ~(a = f /\ b = p)
             PROVE  InTurn(a, b)' /\ Answered(a, b)'
  BY <1>7, <1>8, <1>9, <1>10 DEF PairsInOrder
<1>11. Link(a, b)' = Link(a, b) /\ Link(b, a)' = Link(b, a)
  BY <1>3
<1>12. /\ queue'[a][a] = queue[a][a] /\ queue'[b][b] = queue[b][b]
       /\ queue'[a][b] = queue[a][b] /\ queue'[b][a] = queue[b][a]
       /\ lamport_time[b] <= lamport_time'[b]
  BY <1>1, <1>4
<1>13. /\ Live(a)' => Live(a) /\ (pc'[a] \in {"request", "cs"} => pc[a] \in {"request", "cs"})
       /\ Live(b)' => Live(b)
  BY DEF Live
<1> QED
  BY <1>11, <1>12, <1>13, PairFrame

\* A release: the entry that goes was not of a pending request.
LEMMA AcceptReleaseOrder ==
  ASSUME TypeInv, TypeInv', MutexInv, PairsInOrder, NEW p \in Children, NEW f \in Procs \ {p},
         NEW label, Take(p, f, label, {"CS_RELEASE"}), Live(p),
         AcceptRelease(p, f, Oldest(p, f).time),
         \A c \in Children \ {p} : pc'[c] = pc[c],
         Live(p)', pc'[p] \in {"request", "cs"} => pc[p] \in {"request", "cs"}
  PROVE  PairsInOrder'
<1> USE ProcsFacts
<1> DEFINE s == Link(f, p)  r == Link(p, f)
<1>0. /\ IpcTypeOK /\ lamport_time \in [Procs -> Nat]
      /\ queue \in [Children -> [Children -> Nat]]
  BY DEF TypeInv, TypeOK, ChildTypeOK
<1>1. /\ f \in Children /\ f # p /\ p \in Procs /\ f \in Procs
      /\ s \in Seq(Message) /\ s # <<>> /\ r \in Seq(Message)
      /\ Head(s).type = "CS_RELEASE"
      /\ InTurn(f, p) /\ InTurn(p, f) /\ Answered(f, p) /\ Answered(p, f) /\ LinkOrder(p, f)
  BY TakeOrder
<1>2. \A c \in Procs : lamport_time[c] <= lamport_time'[c]
  <2>1. /\ lamport_time[p] \in Nat /\ Oldest(p, f).time \in Nat
        /\ Synchronized(lamport_time[p], Oldest(p, f).time) \in Nat
    BY TakeType DEF TypeInv, TypeOK
  <2>2. Synchronized(lamport_time[p], Oldest(p, f).time) > lamport_time[p]
    BY <2>1, SynchronizedType
  <2> QED
    BY <1>0, <2>1, <2>2 DEF AcceptRelease
<1>3. \A a, b \in Procs : Link(a, b)' = IF a = f /\ b = p THEN Tail(Link(a, b)) ELSE Link(a, b)
  BY <1>0, <1>1, LinkReceive DEF AcceptRelease, Take
<1>4. \A a, b \in Children :
        queue'[a][b] = IF a = p /\ b = f THEN EMPTY_REQUEST_TIME ELSE queue[a][b]
  BY <1>0, <1>1 DEF AcceptRelease
<1> HIDE DEF s, r
<1>5. s' = Tail(s) /\ r' = r
  BY <1>1, <1>3 DEF s, r
<1>6. /\ Contains(s, "CS_RELEASE") /\ ~Contains(s', "CS_RELEASE")
      /\ Contains(s', "CS_REQUEST") <=> Contains(s, "CS_REQUEST")
      /\ RequestLast(s') /\ AtMostOneRelease(s')
      /\ queue_contains(queue[f], f) => RequestsCarry(s', queue[f][f])
      /\ RequestBeforeReply(s) => RequestBeforeReply(s')
  BY <1>1, <1>5, OrderTail, TurnTail, ContainsTail DEF InTurn, s
<1>7. InTurn(f, p)'
  BY <1>1, <1>4, <1>6 DEF InTurn, Carries, queue_contains, s
<1>8. /\ Live(f)' <=> Live(f)
      /\ pc'[f] = pc[f]
  BY <1>1 DEF Live
<1>9. InTurn(p, f)'
  BY <1>1, <1>4, <1>5, <1>8 DEF InTurn, Carries, queue_contains, r
<1>10. Answered(f, p)'
  <2>1. lamport_time[p] \in Nat /\ lamport_time'[p] \in Nat /\ lamport_time[p] <= lamport_time'[p]
        /\ queue[f][f] \in Nat
    BY <1>0, <1>1, <1>2 DEF TypeInv, TypeOK, ChildTypeOK
  <2> SUFFICES ASSUME Live(f)', pc'[f] \in {"request", "cs"}, ~Contains(s', "CS_REQUEST")
               PROVE  /\ queue'[f][f] < lamport_time'[p]
                      /\ queue_contains(queue'[p], p) =>
                           \/ Known(f, p)'
                           \/ Before(queue'[f][f], f, queue'[p][p], p)
                           \/ RequestBeforeReply(r')
    BY DEF Answered, Carries, r, s
  <2>2. /\ queue[f][f] < lamport_time[p]
        /\ queue_contains(queue[p], p) =>
             \/ Known(f, p)
             \/ Before(queue[f][f], f, queue[p][p], p)
             \/ RequestBeforeReply(r)
    BY <1>1, <1>6, <1>8 DEF Answered, Carries, r, s
  <2>3. Known(f, p) => Known(f, p)'
    BY <1>1, <1>4, <1>5 DEF Known, Carries, r
  <2> QED
    BY <1>1, <1>4, <1>5, <2>1, <2>2, <2>3 DEF queue_contains
<1>11. Answered(p, f)'
  <2> SUFFICES ASSUME Live(p)', pc'[p] \in {"request", "cs"}, ~Contains(r', "CS_REQUEST")
               PROVE  /\ Live(f)' => queue'[p][p] < lamport_time'[f]
                      /\ queue_contains(queue'[f], f) =>
                           \/ Before(queue'[p][p], p, queue'[f][f], f)
                           \/ RequestBeforeReply(s')
    BY DEF Answered, Carries, r, s
  <2>1. lamport_time'[f] = lamport_time[f]
    BY <1>0, <1>1 DEF AcceptRelease
  <2>2. /\ Live(f) => queue[p][p] < lamport_time[f]
        /\ queue_contains(queue[f], f) =>
             \/ Known(p, f)
             \/ Before(queue[p][p], p, queue[f][f], f)
             \/ RequestBeforeReply(s)
    BY <1>1, <1>5 DEF Answered, Carries, r, s
  <2>3. ~Known(p, f)
    BY <1>6 DEF Known, Carries, s
  <2> QED
    BY <1>1, <1>4, <1>6, <1>8, <2>1, <2>2, <2>3 DEF queue_contains
<1> SUFFICES ASSUME NEW a \in Children, NEW b \in Children, a # b,
                    ~(a = p /\ b = f), ~(a = f /\ b = p)
             PROVE  InTurn(a, b)' /\ Answered(a, b)'
  BY <1>7, <1>9, <1>10, <1>11 DEF PairsInOrder
<1>12. Link(a, b)' = Link(a, b) /\ Link(b, a)' = Link(b, a)
  BY <1>3
<1>13. /\ queue'[a][a] = queue[a][a] /\ queue'[b][b] = queue[b][b]
       /\ queue'[a][b] = queue[a][b] /\ queue'[b][a] = queue[b][a]
       /\ lamport_time[b] <= lamport_time'[b]
  BY <1>1, <1>2, <1>4
<1>14. /\ Live(a)' => Live(a) /\ (pc'[a] \in {"request", "cs"} => pc[a] \in {"request", "cs"})
       /\ Live(b)' => Live(b)
  BY DEF Live
<1> QED
  BY <1>12, <1>13, <1>14, PairFrame

\* The reply that p awaits from f: with it on its way, p had no other of f's to come.
LEMMA AcceptReplyOrder ==
  ASSUME TypeInv, TypeInv', MutexInv, PairsInOrder, NEW p \in Children, NEW f \in Procs \ {p},
         Take(p, f, "request", {"CS_REPLY"}), outbox' = outbox, queue' = queue,
         \A c \in Procs : lamport_time[c] <= lamport_time'[c],
         \A c \in Procs \ {p} : lamport_time'[c] = lamport_time[c],
         \A c \in Children \ {p} : pc'[c] = pc[c],
         pc'[p] \in {"request", "cs"}
  PROVE  PairsInOrder'
<1> USE ProcsFacts
<1> DEFINE s == Link(f, p)  r == Link(p, f)
<1>0. IpcTypeOK /\ pc[p] = "request" /\ Live(p)
  BY DEF TypeInv, TypeOK, ChildTypeOK, Take, Live
<1>1. /\ f \in Children /\ f # p /\ p \in Procs /\ f \in Procs
      /\ s \in Seq(Message) /\ s # <<>> /\ r \in Seq(Message)
      /\ Head(s).type = "CS_REPLY"
      /\ InTurn(f, p) /\ InTurn(p, f) /\ Answered(f, p) /\ Answered(p, f) /\ LinkOrder(p, f)
  BY <1>0, TakeOrder
<1>2. \A a, b \in Procs : Link(a, b)' = IF a = f /\ b = p THEN Tail(Link(a, b)) ELSE Link(a, b)
  BY <1>0, <1>1, LinkReceive DEF Take
<1> HIDE DEF s, r
<1>3. s' = Tail(s) /\ r' = r
  BY <1>1, <1>2 DEF s, r
<1>4. /\ \A x \in {"CS_REQUEST", "CS_RELEASE"} : Contains(s', x) <=> Contains(s, x)
      /\ RequestLast(s') /\ AtMostOneRelease(s')
      /\ queue_contains(queue[f], f) => RequestsCarry(s', queue[f][f])
      /\ ~RequestBeforeReply(s)
  BY <1>1, <1>3, OrderTail, TurnTail, ContainsTail DEF InTurn, LinkOrder, s
<1>5. Live(f)' <=> Live(f)
  BY <1>1 DEF Live
<1>6. InTurn(f, p)'
  BY <1>0, <1>1, <1>4 DEF InTurn, Carries, s
<1>7. InTurn(p, f)'
  BY <1>1, <1>3, <1>5 DEF InTurn, Carries, r
<1>8. Answered(f, p)'
  <2>1. /\ lamport_time[p] \in Nat /\ lamport_time'[p] \in Nat /\ lamport_time[p] <= lamport_time'[p]
        /\ queue[f][f] \in Nat /\ pc'[f] = pc[f]
    BY <1>1 DEF TypeInv, TypeOK, ChildTypeOK
  <2>2. Known(f, p) => Known(f, p)'
    BY <1>3 DEF Known, Carries, r
  <2> QED
    BY <1>0, <1>1, <1>3, <1>4, <1>5, <2>1, <2>2 DEF Answered, Carries, r, s
<1>9. Answered(p, f)'
  <2>1. lamport_time'[f] = lamport_time[f]
    BY <1>1
  <2>2. Known(p, f) => Known(p, f)'
    BY <1>4 DEF Known, Carries, s
  <2> QED
    BY <1>0, <1>1, <1>3, <1>4, <1>5, <2>1, <2>2 DEF Answered, Carries, r, s
<1> SUFFICES ASSUME NEW a \in Children, NEW b \in Children, a # b,
                    ~(a = p /\ b = f), ~(a = f /\ b = p)
             PROVE  InTurn(a, b)' /\ Answered(a, b)'
  BY <1>6, <1>7, <1>8, <1>9 DEF PairsInOrder
<1>10. Link(a, b)' = Link(a, b) /\ Link(b, a)' = Link(b, a)
  BY <1>2
<1>11. /\ lamport_time[b] <= lamport_time'[b]
       /\ Live(a)' => Live(a) /\ (pc'[a] \in {"request", "cs"} => pc[a] \in {"request", "cs"})
       /\ Live(b)' => Live(b)
  BY <1>0 DEF Live
<1> QED
  BY <1>10, <1>11, PairFrame

\* A new request: every child that p has already heard of and answered made its own
\* at an earlier time, because the clock of p was past it.
LEMMA BeginRequestOrder ==
  ASSUME TypeInv, TypeInv', MutexInv, PairsInOrder, NEW p \in Children, BeginRequest(p)
  PROVE  PairsInOrder'
<1> USE ProcsFacts
<1> DEFINE t == lamport_time[p] + 1
           m == [type |-> "CS_REQUEST", time |-> t]
<1>0. /\ IpcTypeOK /\ pc \in [Procs -> Label] /\ m \in Message
      /\ lamport_time \in [Procs -> Nat] /\ t \in Nat \ {0} /\ lamport_time[p] < t
      /\ queue \in [Children -> [Children -> Nat]]
  BY DEF TypeInv, TypeOK, ChildTypeOK, Message, MessageType
<1>1. Live(p) /\ pc[p] = "loop" /\ ~Sending(p) /\ pipes' = pipes
  BY DEF BeginRequest, Live
<1>2. ~queue_contains(queue[p], p) /\ Outstanding(p) = {}
  BY <1>1 DEF MutexInv, OwnRequest, ReplyAccounting
<1>3. /\ queue' = [queue EXCEPT ![p][p] = t] /\ Post(p, Children \ {p}, m)
      /\ lamport_time' = [lamport_time EXCEPT ![p] = t]
  BY <1>2 DEF BeginRequest, ipc_multicast_to_children
<1>4. pc'[p] = "request" /\ \A c \in Children \ {p} : pc'[c] = pc[c]
  BY <1>0 DEF BeginRequest, Goto
<1>5. m.type = "CS_REQUEST" /\ m.time = t
  OBVIOUS
<1> HIDE DEF m, t
<1>6. \A a, b \in Procs :
        Link(a, b)' = IF a = p /\ b \in Children \ {p} THEN Append(Link(a, b), m) ELSE Link(a, b)
  BY <1>0, <1>1, <1>3, LinkPost
<1>7. \A a, b \in Children : queue'[a][b] = IF a = p /\ b = p THEN t ELSE queue[a][b]
  BY <1>0, <1>3
<1>8. \A c \in Procs : lamport_time'[c] = IF c = p THEN t ELSE lamport_time[c]
  BY <1>0, <1>3
<1>9. ASSUME NEW c \in Children \ {p}
      PROVE  InTurn(p, c)' /\ Answered(p, c)' /\ InTurn(c, p)' /\ Answered(c, p)'
  <2> DEFINE r == Link(p, c)
  <2>1. /\ c \in Children /\ r \in Seq(Message) /\ ~Contains(r, "CS_REQUEST")
        /\ InTurn(p, c) /\ InTurn(c, p) /\ Answered(c, p)
    BY <1>0, <1>2, LinkType DEF Outstanding, Carries, PairsInOrder
  <2>2. r' = Append(r, m) /\ Link(c, p)' = Link(c, p)
    BY <1>6
  <2>3. (Live(c)' <=> Live(c)) /\ pc'[c] = pc[c] /\ Live(p)'
    BY <1>4 DEF Live
  <2> HIDE DEF r
  <2>4. /\ RequestLast(r') /\ AtMostOneRelease(r') /\ RequestsCarry(r', t)
        /\ Contains(r', "CS_REQUEST")
        /\ Contains(r', "CS_RELEASE") <=> Contains(r, "CS_RELEASE")
    BY <1>0, <1>5, <2>1, <2>2, OrderAppend, OrderNone, TurnAppend, ContainsAppend DEF InTurn, r
  <2>5. Live(c) /\ ~Contains(r, "CS_RELEASE") => ~queue_contains(queue[c], p)
    BY <1>1, <1>2, <2>1 DEF MutexInv, QueueAgreement, queue_contains, Carries, r
  <2>6. InTurn(p, c)'
    BY <1>7, <2>1, <2>3, <2>4, <2>5 DEF InTurn, Carries, queue_contains, r
  <2>7. Answered(p, c)'
    BY <2>4 DEF Answered, Carries, r
  <2>8. InTurn(c, p)'
    BY <1>1, <1>7, <2>1, <2>2, <2>3 DEF InTurn, Carries, queue_contains
  <2>9. Answered(c, p)'
    <3> SUFFICES ASSUME Live(c)', pc'[c] \in {"request", "cs"}, ~Carries(c, p, "CS_REQUEST")'
                 PROVE  /\ queue'[c][c] < lamport_time'[p]
                        /\ Before(queue'[c][c], c, queue'[p][p], p)
      BY DEF Answered
    <3>1. queue[c][c] < lamport_time[p] /\ queue[c][c] \in Nat /\ lamport_time[p] \in Nat
      BY <1>0, <1>1, <2>1, <2>2, <2>3 DEF Answered, Carries
    <3>2. queue[c][c] < t
      BY <1>0, <3>1
    <3> QED
      BY <1>7, <1>8, <3>2 DEF Before
  <2> QED
    BY <2>6, <2>7, <2>8, <2>9
<1> SUFFICES ASSUME NEW a \in Children \ {p}, NEW b \in Children \ {p}, a # b
             PROVE  InTurn(a, b)' /\ Answered(a, b)'
  BY <1>9 DEF PairsInOrder
<1>10. Link(a, b)' = Link(a, b) /\ Link(b, a)' = Link(b, a)
  BY <1>6
<1>11. /\ queue'[a][a] = queue[a][a] /\ queue'[b][b] = queue[b][b]
       /\ queue'[a][b] = queue[a][b] /\ queue'[b][a] = queue[b][a]
       /\ lamport_time[b] <= lamport_time'[b]
  BY <1>0, <1>7, <1>8
<1>12. /\ Live(a)' => Live(a) /\ (pc'[a] \in {"request", "cs"} => pc[a] \in {"request", "cs"})
       /\ Live(b)' => Live(b)
  BY <1>4 DEF Live
<1> QED
  BY <1>10, <1>11, <1>12, PairFrame

\* A release: nothing about the request is under way any more, so the others have it in
\* their queues.
LEMMA ReleaseOrder ==
  ASSUME TypeInv, TypeInv', MutexInv, PairsInOrder, NEW p \in Children, Release(p)
  PROVE  PairsInOrder'
<1> USE ProcsFacts
<1> DEFINE m == [type |-> "CS_RELEASE", time |-> lamport_time[p] + 1]
<1>0. /\ IpcTypeOK /\ pc \in [Procs -> Label] /\ m \in Message
      /\ lamport_time \in [Procs -> Nat]
      /\ queue \in [Children -> [Children -> Nat]]
  BY DEF TypeInv, TypeOK, ChildTypeOK, Message, MessageType
<1>1. Live(p) /\ pc[p] = "cs" /\ ~Sending(p) /\ pipes' = pipes
  BY DEF Release, InCS, Live
<1>2. queue_contains(queue[p], p) /\ Outstanding(p) = {}
  BY <1>1 DEF MutexInv, OwnRequest, ReplyAccounting
<1>3. /\ queue' = [queue EXCEPT ![p][p] = EMPTY_REQUEST_TIME] /\ Post(p, Children \ {p}, m)
      /\ lamport_time' = [lamport_time EXCEPT ![p] = @ + 1]
  BY <1>2 DEF Release, ipc_multicast_to_children
<1>4. pc'[p] = "loop" /\ \A c \in Children \ {p} : pc'[c] = pc[c]
  BY <1>0, <1>2 DEF Release, Goto
<1>5. m.type = "CS_RELEASE"
  OBVIOUS
<1> HIDE DEF m
<1>6. \A a, b \in Procs :
        Link(a, b)' = IF a = p /\ b \in Children \ {p} THEN Append(Link(a, b), m) ELSE Link(a, b)
  BY <1>0, <1>1, <1>3, LinkPost
<1>7. \A a, b \in Children :
        queue'[a][b] = IF a = p /\ b = p THEN EMPTY_REQUEST_TIME ELSE queue[a][b]
  BY <1>0, <1>3
<1>8. \A c \in Procs : lamport_time[c] <= lamport_time'[c]
  BY <1>0, <1>3
<1>9. ASSUME NEW c \in Children \ {p}
      PROVE  InTurn(p, c)' /\ Answered(p, c)' /\ InTurn(c, p)' /\ Answered(c, p)'
  <2> DEFINE r == Link(p, c)
  <2>1. /\ c \in Children /\ r \in Seq(Message) /\ ~Contains(r, "CS_REQUEST")
        /\ InTurn(p, c) /\ InTurn(c, p) /\ Answered(c, p) /\ LinkOrder(p, c)
    BY <1>0, <1>1, <1>2, LinkType DEF Outstanding, Carries, PairsInOrder, MutexInv, LinksInOrder
  <2>2. r' = Append(r, m) /\ Link(c, p)' = Link(c, p)
    BY <1>6
  <2>3. (Live(c)' <=> Live(c)) /\ pc'[c] = pc[c]
    BY <1>4 DEF Live
  <2> HIDE DEF r
  <2>4. ~Contains(r, "CS_RELEASE")
    BY <1>2, <2>1 DEF LinkOrder, Carries, r
  <2>5. /\ RequestLast(r') /\ AtMostOneRelease(r') /\ Contains(r', "CS_RELEASE")
    BY <1>0, <1>5, <2>1, <2>2, <2>4, OrderAppend, TurnAppend, ContainsAppend DEF InTurn, r
  <2>6. Live(c) => queue_contains(queue[c], p)
    BY <1>1, <1>2, <2>1, <2>4 DEF MutexInv, QueueAgreement, queue_contains, Carries, r
  <2>7. InTurn(p, c)'
    BY <1>7, <2>1, <2>3, <2>5, <2>6 DEF InTurn, Carries, queue_contains, r
  <2>8. Answered(p, c)'
    BY <1>4 DEF Answered
  <2>9. InTurn(c, p)'
    BY <1>1, <1>7, <2>1, <2>2, <2>3 DEF InTurn, Carries, queue_contains
  <2>10. Answered(c, p)'
    <3> SUFFICES ASSUME Live(c)', pc'[c] \in {"request", "cs"}, ~Carries(c, p, "CS_REQUEST")'
                 PROVE  queue'[c][c] < lamport_time'[p]
      BY <1>7 DEF Answered, queue_contains
    <3>1. queue[c][c] < lamport_time[p]
      BY <1>0, <1>1, <2>1, <2>2, <2>3 DEF Answered, Carries
    <3>2. queue[c][c] \in Nat /\ lamport_time[p] \in Nat /\ lamport_time'[p] = lamport_time[p] + 1
      BY <1>0, <1>3
    <3> QED
      BY <1>7, <3>1, <3>2
  <2> QED
    BY <2>7, <2>8, <2>9, <2>10
<1> SUFFICES ASSUME NEW a \in Children \ {p}, NEW b \in Children \ {p}, a # b
             PROVE  InTurn(a, b)' /\ Answered(a, b)'
  BY <1>9 DEF PairsInOrder
<1>10. Link(a, b)' = Link(a, b) /\ Link(b, a)' = Link(b, a)
  BY <1>6
<1>11. /\ queue'[a][a] = queue[a][a] /\ queue'[b][b] = queue[b][b]
       /\ queue'[a][b] = queue[a][b] /\ queue'[b][a] = queue[b][a]
       /\ lamport_time[b] <= lamport_time'[b]
  BY <1>7, <1>8
<1>12. /\ Live(a)' => Live(a) /\ (pc'[a] \in {"request", "cs"} => pc[a] \in {"request", "cs"})
       /\ Live(b)' => Live(b)
  BY <1>4 DEF Live
<1> QED
  BY <1>10, <1>11, <1>12, PairFrame

\* The steps of pa4/mutex.c.
LEMMA MutexStepOrder ==
  ASSUME TypeInv, TypeInv', MutexInv, PairsInOrder, NEW p \in Children, MutexStep(p)
  PROVE  PairsInOrder'
<1> USE ProcsFacts
<1>0. /\ pc \in [Procs -> Label] /\ lamport_time \in [Procs -> Nat]
      /\ pc[p] = "request" => Live(p)
      /\ pc[p] = "drain" => Live(p) /\ ~queue_contains(queue[p], p)
  BY DEF TypeInv, TypeOK, ChildTypeOK, MutexInv, OwnRequest, Live
<1>a. ASSUME NEW f \in Procs \ {p}, NEW label, NEW types, Take(p, f, label, types),
             \/ lamport_time' = [lamport_time EXCEPT ![p] = Synchronized(@, Oldest(p, f).time)]
             \/ lamport_time' = [lamport_time EXCEPT ![p] = Synchronized(@, Oldest(p, f).time) + 1]
      PROVE  /\ \A c \in Procs : lamport_time[c] <= lamport_time'[c]
             /\ \A c \in Procs \ {p} : lamport_time'[c] = lamport_time[c]
  <2> DEFINE w == Synchronized(lamport_time[p], Oldest(p, f).time)
  <2>1. lamport_time[p] \in Nat /\ w \in Nat /\ w > lamport_time[p]
    BY <1>a, TakeType, SynchronizedType DEF TypeInv, TypeOK
  <2>2. lamport_time' = [lamport_time EXCEPT ![p] = w] \/ lamport_time' = [lamport_time EXCEPT ![p] = w + 1]
    BY <1>a
  <2> HIDE DEF w
  <2> QED
    BY <1>0, <2>1, <2>2
<1>b. ASSUME NEW q, NEW n, ReturnIfFirst(p, q, n), pc[p] = "request"
      PROVE  pc'[p] \in {"request", "cs"} /\ \A c \in Children \ {p} : pc'[c] = pc[c]
  BY <1>0, <1>b DEF ReturnIfFirst, Goto
<1>1. CASE BeginRequest(p)
  BY <1>1, BeginRequestOrder
<1>2. CASE Release(p)
  BY <1>2, ReleaseOrder
<1>3. ASSUME NEW f \in Procs \ {p}, RequestTakesReply(p, f)
      PROVE  PairsInOrder'
  <2>1. /\ Take(p, f, "request", {"CS_REPLY"}) /\ outbox' = outbox /\ queue' = queue
        /\ pc[p] = "request"
        /\ \A c \in Procs : lamport_time[c] <= lamport_time'[c]
        /\ \A c \in Procs \ {p} : lamport_time'[c] = lamport_time[c]
    BY <1>a, <1>3 DEF RequestTakesReply, Take
  <2>2. pc'[p] \in {"request", "cs"} /\ \A c \in Children \ {p} : pc'[c] = pc[c]
    BY <1>b, <1>3, <2>1 DEF RequestTakesReply
  <2> QED
    BY <2>1, <2>2, AcceptReplyOrder
<1>4. ASSUME NEW f \in Procs \ {p}, RequestTakesRequest(p, f)
      PROVE  PairsInOrder'
  <2>1. Take(p, f, "request", {"CS_REQUEST"}) /\ Live(p) /\ pc[p] = "request"
    BY <1>0, <1>4 DEF RequestTakesRequest, Take
  <2>2. ~queue_contains(queue[p], f)
    BY <2>1, TakeOrder
  <2>3. AcceptRequest(p, f, Oldest(p, f).time)
    BY <1>4, <2>2 DEF RequestTakesRequest
  <2>4. pc'[p] \in {"request", "cs"} /\ \A c \in Children \ {p} : pc'[c] = pc[c]
    BY <1>b, <1>4, <2>1, <2>2 DEF RequestTakesRequest
  <2>5. Live(p)' /\ (pc'[p] \in {"request", "cs"} => pc[p] \in {"request", "cs"})
    BY <2>1, <2>4 DEF Live
  <2> QED
    BY <2>1, <2>3, <2>4, <2>5, AcceptRequestOrder
<1>5. ASSUME NEW f \in Procs \ {p}, RequestTakesRelease(p, f)
      PROVE  PairsInOrder'
  <2>1. Take(p, f, "request", {"CS_RELEASE"}) /\ Live(p) /\ pc[p] = "request"
    BY <1>0, <1>5 DEF RequestTakesRelease, Take
  <2>2. queue_contains(queue[p], f)
    BY <2>1, TakeOrder
  <2>3. AcceptRelease(p, f, Oldest(p, f).time)
    BY <1>5, <2>2 DEF RequestTakesRelease
  <2>4. pc'[p] \in {"request", "cs"} /\ \A c \in Children \ {p} : pc'[c] = pc[c]
    BY <1>b, <1>5, <2>1, <2>2 DEF RequestTakesRelease
  <2>5. Live(p)' /\ (pc'[p] \in {"request", "cs"} => pc[p] \in {"request", "cs"})
    BY <2>1, <2>4 DEF Live
  <2> QED
    BY <2>1, <2>3, <2>4, <2>5, AcceptReleaseOrder
<1>6. ASSUME NEW f \in Procs \ {p}, RequestTakesOther(p, f)
      PROVE  PairsInOrder'
  <2>1. /\ receive(p, f) /\ outbox' = outbox /\ UNCHANGED mutexVars
        /\ pc[p] = "request" /\ Live(p)
        /\ Oldest(p, f).type \in {"STARTED", "DONE"}
    BY <1>0, <1>6 DEF RequestTakesOther, Take, MessageType, mutexVars
  <2>2. \A c \in Children : lamport_time[c] <= lamport_time'[c]
    BY <1>a, <1>6 DEF RequestTakesOther
  <2>3. /\ \A c \in Children \ {p} : pc'[c] = pc[c]
        /\ pc'[p] = "request" \/ ~Live(p)'
    BY <1>0, <1>6, <2>1 DEF RequestTakesOther, CountDone, Goto, Live
  <2> QED
    BY <2>1, <2>2, <2>3, ReceiveOrder
<1>7. ASSUME NEW f \in Procs \ {p}, DrainTakesRequest(p, f)
      PROVE  PairsInOrder'
  <2>1. Take(p, f, "drain", {"CS_REQUEST"}) /\ Live(p) /\ pc[p] = "drain"
    BY <1>0, <1>7 DEF DrainTakesRequest, Take
  <2>2. ~queue_contains(queue[p], f)
    BY <2>1, TakeOrder
  <2>3. AcceptRequest(p, f, Oldest(p, f).time) /\ pc' = pc
    BY <1>7, <2>2 DEF DrainTakesRequest
  <2> QED
    BY <2>1, <2>3, AcceptRequestOrder DEF Live
<1>8. ASSUME NEW f \in Procs \ {p}, DrainTakesRelease(p, f)
      PROVE  PairsInOrder'
  <2>1. Take(p, f, "drain", {"CS_RELEASE"}) /\ Live(p) /\ pc[p] = "drain"
    BY <1>0, <1>8 DEF DrainTakesRelease, Take
  <2>2. queue_contains(queue[p], f)
    BY <2>1, TakeOrder
  <2>3. AcceptRelease(p, f, Oldest(p, f).time) /\ pc' = pc
    BY <1>8, <2>2 DEF DrainTakesRelease
  <2> QED
    BY <2>1, <2>3, AcceptReleaseOrder DEF Live
<1>9. ASSUME NEW f \in Procs \ {p}, UNCHANGED mutexVars,
             DrainTakesOther(p, f, MessageType \ {"CS_REQUEST", "CS_RELEASE"})
      PROVE  PairsInOrder'
  <2>1. /\ receive(p, f) /\ outbox' = outbox
        /\ pc[p] = "drain" /\ Live(p) /\ ~queue_contains(queue[p], p)
        /\ Oldest(p, f).type \in {"STARTED", "DONE", "CS_REPLY"}
    BY <1>0, <1>9 DEF DrainTakesOther, Take, MessageType
  <2>2. \A c \in Children : lamport_time[c] <= lamport_time'[c]
    BY <1>a, <1>9 DEF DrainTakesOther
  <2>3. /\ \A c \in Children \ {p} : pc'[c] = pc[c]
        /\ \/ Oldest(p, f).type = "DONE" /\ pc'[p] \in {"drain", "sleep"}
           \/ ~Live(p)'
    BY <1>0, <1>9, <2>1 DEF DrainTakesOther, CountDone, Goto, Live
  <2> QED
    BY <1>9, <2>1, <2>2, <2>3, ReceiveOrder
<1> QED
  BY <1>1, <1>2, <1>3, <1>4, <1>5, <1>6, <1>7, <1>8, <1>9 DEF MutexStep

\* Multicasts are not replies, and a reply has one receiver.
LEMMA AlonePost ==
  ASSUME IpcTypeOK, ReplyAlone, NEW p \in Procs, NEW D, NEW m, Post(p, D, m),
         m.type # "CS_REPLY" \/ \E f : D = {f}
  PROVE  ReplyAlone'
<1>1. \A a, d \in Procs :
        outbox'[a][d] = IF a = p THEN IF d \in D THEN m ELSE NoMessage ELSE outbox[a][d]
  BY DEF Post, IpcTypeOK
<1> QED
  BY <1>1 DEF ReplyAlone, NoMessage

\* No step sends a reply together with anything else.
LEMMA AloneNext == TypeInv /\ ReplyAlone /\ [Next]_vars => ReplyAlone'
<1> SUFFICES ASSUME TypeInv, ReplyAlone, [Next]_vars PROVE ReplyAlone'
  OBVIOUS
<1> USE ProcsFacts
<1>0. IpcTypeOK
  BY DEF TypeInv, TypeOK, ChildTypeOK
<1>1. CASE outbox' = outbox
  BY <1>1 DEF ReplyAlone
<1>2. ASSUME NEW p \in Children, Write(p) PROVE ReplyAlone'
  <2>1. PICK d \in Procs : \/ outbox' = [outbox EXCEPT ![p] = [e \in Procs |-> NoMessage]]
                           \/ outbox' = [outbox EXCEPT ![p][d] = NoMessage]
    BY <1>2 DEF Write
  <2>2. \A a, e \in Procs : outbox'[a][e] = outbox[a][e] \/ outbox'[a][e] = NoMessage
    <3>1. CASE outbox' = [outbox EXCEPT ![p] = [e \in Procs |-> NoMessage]]
      BY <1>0, <3>1 DEF IpcTypeOK
    <3>2. CASE outbox' = [outbox EXCEPT ![p][d] = NoMessage]
      BY <1>0, <3>2 DEF IpcTypeOK
    <3> QED
      BY <2>1, <3>1, <3>2
  <2> QED
    BY <2>2 DEF ReplyAlone, NoMessage
<1>3. ASSUME NEW p \in Children, NEW D, NEW m, Post(p, D, m),
             m.type # "CS_REPLY" \/ \E f : D = {f}
      PROVE  ReplyAlone'
  BY <1>0, <1>3, AlonePost
<1>4. ASSUME NEW p \in Children, ChildStep(p) PROVE ReplyAlone'
  BY <1>1, <1>2, <1>3, <1>4
  DEF ChildStep, Start, AwaitStarted, ReceiveAll, PlainIteration, SendDone, Exit, SpinOnEof,
      send_multicast
<1>5. ASSUME NEW p \in Children, MutexStep(p) PROVE ReplyAlone'
  <2>1. ASSUME NEW f \in Procs \ {p}, AcceptRequest(p, f, Oldest(p, f).time) PROVE ReplyAlone'
    BY <1>3, <2>1 DEF AcceptRequest, send
  <2>2. CASE BeginRequest(p) \/ Release(p)
    BY <1>1, <1>3, <2>2 DEF BeginRequest, Release, Abort, ipc_multicast_to_children
  <2>3. ASSUME NEW f \in Procs \ {p}, RequestTakesRequest(p, f) \/ DrainTakesRequest(p, f)
        PROVE  ReplyAlone'
    BY <1>1, <2>1, <2>3 DEF RequestTakesRequest, DrainTakesRequest, Abort
  <2>4. ASSUME NEW f \in Procs \ {p},
               \/ RequestTakesReply(p, f) \/ RequestTakesRelease(p, f) \/ RequestTakesOther(p, f)
               \/ DrainTakesRelease(p, f)
               \/ \E types \in SUBSET MessageType : DrainTakesOther(p, f, types)
        PROVE  ReplyAlone'
    BY <1>1, <2>4 DEF RequestTakesReply, RequestTakesRelease, RequestTakesOther, DrainTakesRelease,
       DrainTakesOther, AcceptRelease, Abort
  <2> QED
    BY <1>5, <2>2, <2>3, <2>4 DEF MutexStep
<1>6. CASE ParentNext
  BY <1>1, <1>6 DEF ParentNext, ParentStep, ParentSetUp, ParentAwaitStarted, ParentAwaitDone,
     ParentExit, ReceiveAll
<1>7. CASE UNCHANGED vars
  BY <1>1, <1>7 DEF vars, childVars
<1> QED
  BY <1>4, <1>5, <1>6, <1>7 DEF Next, ChildNext

\* After the forks nothing has been asked or sent.
LEMMA OrderInit == Init => OrderInv
<1> SUFFICES ASSUME Init PROVE OrderInv
  OBVIOUS
<1> USE ProcsFacts
<1>1. /\ \A a, b \in Procs : Link(a, b) = <<>> /\ outbox[a][b] = NoMessage
      /\ \A a, b \in Children : queue[a][b] = EMPTY_REQUEST_TIME
      /\ \A p \in Children : pc[p] = "start"
  BY DEF Init, ChildInit, IpcInit, Link
<1>2. ReplyAlone
  BY <1>1 DEF ReplyAlone, NoMessage
<1>3. PairsInOrder
  BY <1>1 DEF PairsInOrder, InTurn, Answered, RequestLast, AtMostOneRelease, Carries, Contains,
     queue_contains
<1> QED
  BY <1>2, <1>3 DEF OrderInv

\* What is known of every pair of children stays known in every step.
LEMMA OrderNext ==
  TypeInv /\ TypeInv' /\ MutexInv /\ OrderInv /\ [Next]_vars => OrderInv'
<1> SUFFICES ASSUME TypeInv, TypeInv', MutexInv, OrderInv, [Next]_vars PROVE OrderInv'
  OBVIOUS
<1>0. PairsInOrder /\ ReplyAlone
  BY DEF OrderInv
<1>1. ASSUME NEW p \in Children, ChildNext(p) PROVE PairsInOrder'
  BY <1>0, <1>1, ChildStepOrder, MutexStepOrder DEF ChildNext
<1>2. ASSUME ParentNext PROVE PairsInOrder'
  BY <1>0, <1>2, ParentStepOrder DEF ParentNext
<1>3. ASSUME UNCHANGED vars PROVE PairsInOrder'
  <2>1. /\ UNCHANGED <<pipes, outbox, mutexVars>>
        /\ \A c \in Children : lamport_time[c] <= lamport_time'[c] /\ pc'[c] = pc[c]
    BY <1>3, ProcsFacts DEF vars, childVars, mutexVars, TypeInv, TypeOK, ChildTypeOK
  <2> QED
    BY <1>0, <2>1, SilentOrder DEF Live
<1>4. PairsInOrder'
  BY <1>1, <1>2, <1>3 DEF Next
<1> QED
  BY <1>0, <1>4, AloneNext DEF OrderInv

\* A child inside got every reply: each pending request of the others is in its queue,
\* where its own is first, or it is a later one.
LEMMA OrderGrants == TypeInv /\ MutexInv /\ OrderInv => GrantInOrder
<1> SUFFICES ASSUME TypeInv, MutexInv, OrderInv, NEW p \in Children, NEW q \in Children,
                    InCS(p), p # q, queue_contains(queue[q], q)
             PROVE  Before(queue[p][p], p, queue[q][q], q)
  BY DEF GrantInOrder
<1>1. Live(p) /\ pc[p] = "cs" /\ Answered(p, q)
  BY DEF InCS, Live, OrderInv, PairsInOrder
<1>2. ~Carries(p, q, "CS_REQUEST") /\ ~Carries(q, p, "CS_REPLY")
  BY <1>1 DEF MutexInv, ReplyAccounting, Outstanding
<1>3. ~RequestBeforeReply(Link(q, p))
  BY <1>2 DEF RequestBeforeReply, Carries, Contains
<1>4. CASE Known(p, q)
  <2>1. queue_contains(queue[p], q) /\ queue_contains(queue[p], p)
    BY <1>1, <1>4 DEF Known, queue_contains, MutexInv, OwnRequest
  <2>2. IsTop(queue[p], p)
    BY <1>1 DEF MutexInv, FirstInside
  <2> QED
    BY <1>4, <2>1, <2>2 DEF IsTop, Known
<1> QED
  BY <1>1, <1>2, <1>3, <1>4 DEF Answered

\* pa4 grants the critical section in the order of the requests: the child inside holds
\* the earliest request that was made and not released, even if others that it has not
\* heard of are under way or their senders have died.
THEOREM LamportGrantInOrder == Spec => []GrantInOrder
<1> QED
  BY TypeInit, TypeNext, MutexInit, MutexNext, OrderInit, OrderNext, OrderGrants, PTL DEF Spec

-----------------------------------------------------------------------------
(* STARTED and DONE, and how much is under way.  A STARTED never shares a pipe *)
(* with a reply or a release, because the request that leads to them is read  *)
(* after it.                                                                   *)

\* Nothing is under way about the request of a child that does not wait, even if it has
\* left.
NothingOwed == \A p \in Children : pc[p] # "request" => Outstanding(p) = {}

\* As long as a child has not got all STARTED, nobody gets past its request, which the child
\* has not read.
Unheard ==
  \A p \in Children : pc[p] \in {"start", "await_started"} =>
    \A q \in Children \ {p} :
      /\ pc[q] # "cs" /\ ~Carries(q, p, "CS_RELEASE")
      /\ pc[q] = "request" => Carries(q, p, "CS_REQUEST")

LamportInv == IF mutexl THEN SkeletonInv /\ NothingOwed /\ Unheard ELSE Plain

\* Of the messages about critical sections a step of p sends a request as it begins to wait,
\* a release as it leaves, or the reply to a request; it receives none before the others'
\* STARTED.
TalkMoves(p) ==
  /\ \A a, b \in Children : \A x \in Talk : a # b =>
       /\ Carries(a, b, x)' /\ ~Carries(a, b, x) =>
            /\ a = p
            /\ \/ x = "CS_REQUEST" /\ pc'[p] = "request"
               \/ x = "CS_RELEASE" /\ pc[p] = "cs"
               \/ x = "CS_REPLY" /\ Carries(b, p, "CS_REQUEST")
       /\ Carries(a, b, x) /\ ~Carries(a, b, x)' => b = p /\ pc[p] \notin {"start", "await_started"}
  /\ \A c \in Children \ {p} : pc'[c] = pc[c]
  /\ pc'[p] \in {"start", "await_started"} => pc[p] \in {"start", "await_started"}
  /\ pc'[p] = "request" => pc[p] = "request" \/ \A b \in Children \ {p} : Carries(p, b, "CS_REQUEST")'
  /\ pc'[p] = "cs" => pc[p] \in {"cs", "request"}
  /\ ~Live(p)' => pc[p] # "request"

\* Such a step keeps both: one that enters has the replies of all, so all have read its
\* request.
LEMMA MovesKeep ==
  ASSUME MutexInv', NothingOwed, Unheard, NEW p \in Children, TalkMoves(p)
  PROVE  NothingOwed' /\ Unheard'
<1>0. {"CS_REQUEST", "CS_REPLY", "CS_RELEASE"} \subseteq Talk
  BY DEF Talk
<1>1. ASSUME NEW c \in Children, pc'[c] # "request"
      PROVE  Outstanding(c)' = {}
  <2>1. CASE Live(c)'
    BY <1>1, <2>1 DEF MutexInv, ReplyAccounting
  <2>2. CASE ~Live(c)'
    <3>1. pc[c] # "request" /\ (c # p => pc[c] = pc'[c])
      BY <1>1, <2>2 DEF TalkMoves
    <3>2. Outstanding(c) = {}
      BY <3>1 DEF NothingOwed
    <3>3. ASSUME NEW q \in Children \ {c} PROVE ~Carries(c, q, "CS_REQUEST")' /\ ~Carries(q, c, "CS_REPLY")'
      <4>1. ~Carries(c, q, "CS_REQUEST") /\ ~Carries(q, c, "CS_REPLY")
        BY <3>2 DEF Outstanding
      <4> QED
        BY <1>0, <1>1, <4>1 DEF TalkMoves
    <3> QED
      BY <3>3 DEF Outstanding
  <2> QED
    BY <2>1, <2>2
<1>2. ASSUME NEW c \in Children, pc'[c] \in {"start", "await_started"}, NEW q \in Children \ {c}
      PROVE  /\ pc'[q] # "cs" /\ ~Carries(q, c, "CS_RELEASE")'
             /\ pc'[q] = "request" => Carries(q, c, "CS_REQUEST")'
  <2>1. pc[c] \in {"start", "await_started"}
    BY <1>2 DEF TalkMoves
  <2>2. /\ pc[q] # "cs" /\ ~Carries(q, c, "CS_RELEASE")
        /\ pc[q] = "request" => Carries(q, c, "CS_REQUEST")
    BY <2>1 DEF Unheard
  <2>3. Carries(q, c, "CS_REQUEST") => Carries(q, c, "CS_REQUEST")'
    BY <1>0, <2>1 DEF TalkMoves
  <2>4. pc'[q] # "cs"
    <3> SUFFICES ASSUME pc'[q] = "cs" PROVE FALSE
      OBVIOUS
    <3>1. pc[q] = "request"
      BY <2>2 DEF TalkMoves
    <3>2. c \in Outstanding(q)'
      BY <2>2, <2>3, <3>1 DEF Outstanding
    <3> QED
      BY <3>2, <1>1
  <2>5. ~Carries(q, c, "CS_RELEASE")'
    BY <1>0, <2>2 DEF TalkMoves
  <2>6. pc'[q] = "request" => Carries(q, c, "CS_REQUEST")'
    BY <2>2, <2>3 DEF TalkMoves
  <2> QED
    BY <2>4, <2>5, <2>6
<1>3. NothingOwed'
  BY <1>1 DEF NothingOwed
<1>4. Unheard'
  BY <1>2 DEF Unheard
<1> QED
  BY <1>3, <1>4

\* A message about critical sections is received and not answered.
LEMMA TakeMoves ==
  ASSUME TypeInv, SkeletonInv, NEW p \in Children, NEW f \in Procs \ {p},
         NEW label, NEW types, types \subseteq Talk, Take(p, f, label, types),
         pc[p] \in {"request", "drain"},
         outbox' = outbox, awaiting_children' = awaiting_children,
         \A c \in Procs \ {p} : pc'[c] = pc[c],
         pc'[p] = pc[p] \/ (pc[p] = "request" /\ pc'[p] = "cs")
  PROVE  SkeletonInv' /\ TalkMoves(p)
<1> USE ProcsFacts
<1>0. ChildInv /\ IpcTypeOK /\ p \in Procs
  BY DEF TypeInv, TypeOK, ChildTypeOK
<1>1. /\ f \in Children /\ Link(f, p) \in Seq(Message) /\ Link(f, p) # <<>>
      /\ Head(Link(f, p)).type \in Talk
      /\ \A a, b \in Procs : Link(a, b)' = IF a = f /\ b = p THEN Tail(Link(a, b)) ELSE Link(a, b)
  BY <1>0, TakeFrom
<1>2. ~Sending(p) /\ from' = from /\ i' = i
  BY DEF Take
<1>3. \A a, b \in Procs : Link(a, b) \in Seq(Message)
  BY <1>0, LinkType
<1>4. SkeletonInv'
  <2>1. ASSUME NEW a \in Children, NEW b \in Children, a # b
        PROVE  /\ SamePhase(Link(a, b), Link(a, b)')
               /\ pc[a] = "start" /\ Link(a, b) = <<>> => Link(a, b)' = <<>>
    <3>1. CASE a = f /\ b = p
      BY <1>1, <3>1, TalkPhase
    <3>2. CASE ~(a = f /\ b = p)
      <4>1. a \in Procs /\ b \in Procs
        OBVIOUS
      <4>2. Link(a, b)' = Link(a, b) /\ Link(a, b) \in Seq(Message)
        BY <1>1, <1>3, <3>2, <4>1
      <4>3. SamePhase(Link(a, b), Link(a, b))
        BY <4>2, TalkPhase
      <4> QED
        BY <4>2, <4>3
    <3> QED
      BY <3>1, <3>2
  <2>2. \A a \in Procs : Link(PARENT_ID, a)' = Link(PARENT_ID, a) /\ Link(a, PARENT_ID)' = Link(a, PARENT_ID)
    BY <1>1
  <2>3. \A d \in Procs : outbox'[p][d] = NoMessage
    BY <1>2 DEF Sending
  <2> QED
    BY <1>0, <1>2, <2>1, <2>2, <2>3, TalkStep
<1>5. ASSUME NEW a \in Children, NEW b \in Children, NEW x \in Talk, a # b
      PROVE  /\ Carries(a, b, x)' => Carries(a, b, x)
             /\ Carries(a, b, x) /\ ~Carries(a, b, x)' => b = p /\ pc[p] \notin {"start", "await_started"}
  <2>1. CASE a = f /\ b = p
    BY <1>1, <1>2, <2>1, ContainsTail DEF Carries
  <2>2. CASE ~(a = f /\ b = p)
    BY <1>1, <2>2 DEF Carries
  <2> QED
    BY <2>1, <2>2
<1>6. TalkMoves(p)
  BY <1>2, <1>5 DEF TalkMoves, Live
<1> QED
  BY <1>4, <1>6

\* A request is received and answered.
LEMMA AnswerMoves ==
  ASSUME TypeInv, SkeletonInv, NEW p \in Children, NEW f \in Procs \ {p},
         NEW label, Take(p, f, label, {"CS_REQUEST"}), pc[p] \in {"request", "drain"},
         AcceptRequest(p, f, Oldest(p, f).time), awaiting_children' = awaiting_children,
         \A c \in Procs \ {p} : pc'[c] = pc[c],
         pc'[p] = pc[p] \/ (pc[p] = "request" /\ pc'[p] = "cs")
  PROVE  SkeletonInv' /\ TalkMoves(p)
<1> USE ProcsFacts
<1> DEFINE m == [type |-> "CS_REPLY", time |-> Synchronized(lamport_time[p], Oldest(p, f).time) + 1]
<1>0. ChildInv /\ IpcTypeOK /\ p \in Procs /\ f \in Procs /\ p # f
  BY DEF TypeInv, TypeOK, ChildTypeOK
<1>1. /\ f \in Children /\ Link(f, p) \in Seq(Message) /\ Link(f, p) # <<>>
      /\ Head(Link(f, p)).type = "CS_REQUEST"
  BY <1>0, TakeFrom
<1>2. ~Sending(p) /\ from' = from /\ i' = i /\ receive(p, f)
  BY DEF Take
<1>3. m \in Message /\ m.type = "CS_REPLY" /\ send(p, f, m)
  BY TakeType DEF AcceptRequest, TypeInv, TypeOK
<1> HIDE DEF m
<1>4. /\ \A a, b \in Procs :
           Link(a, b)' = IF a = f /\ b = p THEN Tail(Link(a, b))
                         ELSE IF a = p /\ b = f THEN Append(Link(a, b), m)
                         ELSE Link(a, b)
  BY <1>0, <1>2, <1>3, LinkReceiveSend
<1>5. \A a, b \in Procs : Link(a, b) \in Seq(Message)
  BY <1>0, LinkType
<1>6. SkeletonInv'
  <2>1. ASSUME NEW a \in Children, NEW b \in Children, a # b
        PROVE  /\ SamePhase(Link(a, b), Link(a, b)')
               /\ pc[a] = "start" /\ Link(a, b) = <<>> => Link(a, b)' = <<>>
    <3>1. CASE a = f /\ b = p
      BY <1>1, <1>4, <3>1, TalkPhase DEF Talk
    <3>2. CASE a = p /\ b = f
      <4>1. m.type \in Talk /\ Link(a, b) \in Seq(Message) /\ Link(a, b)' = Append(Link(a, b), m)
        BY <1>3, <1>4, <1>5, <3>2 DEF Talk
      <4> QED
        BY <1>2, <1>3, <3>2, <4>1, TalkPhase
    <3>3. CASE ~(a = f /\ b = p) /\ ~(a = p /\ b = f)
      BY <1>4, <1>5, <3>3, TalkPhase
    <3> QED
      BY <3>1, <3>2, <3>3
  <2>2. \A a \in Procs : Link(PARENT_ID, a)' = Link(PARENT_ID, a) /\ Link(a, PARENT_ID)' = Link(a, PARENT_ID)
    BY <1>0, <1>1, <1>4
  <2>3. /\ \A c \in Procs \ {p} : outbox'[c] = outbox[c]
        /\ \A d \in Procs : outbox'[p][d] = NoMessage \/ outbox'[p][d].type = "CS_REPLY"
    BY <1>0, <1>3 DEF send, Post, IpcTypeOK
  <2> QED
    BY <1>0, <1>2, <2>1, <2>2, <2>3, TalkStep
<1>7. ASSUME NEW a \in Children, NEW b \in Children, NEW x \in Talk, a # b
      PROVE  /\ Carries(a, b, x)' /\ ~Carries(a, b, x) => a = p /\ x = "CS_REPLY" /\ Carries(b, p, "CS_REQUEST")
             /\ Carries(a, b, x) /\ ~Carries(a, b, x)' => b = p /\ pc[p] \notin {"start", "await_started"}
  <2>1. CASE a = f /\ b = p
    BY <1>1, <1>2, <1>4, <2>1, ContainsTail DEF Carries
  <2>2. CASE a = p /\ b = f
    <3>0. Link(a, b)' = Append(Link(a, b), m) /\ Link(a, b) \in Seq(Message)
      BY <1>0, <1>4, <1>5, <2>2
    <3>1. Contains(Append(Link(a, b), m), x) <=> Contains(Link(a, b), x) \/ x = "CS_REPLY"
      BY <1>3, <3>0, ContainsAppend
    <3>2. Carries(f, p, "CS_REQUEST")
      BY <1>1, ContainsTail DEF Carries
    <3> QED
      BY <2>2, <3>0, <3>1, <3>2 DEF Carries
  <2>3. CASE ~(a = f /\ b = p) /\ ~(a = p /\ b = f)
    BY <1>4, <2>3 DEF Carries
  <2> QED
    BY <2>1, <2>2, <2>3
<1>8. TalkMoves(p)
  BY <1>2, <1>7 DEF TalkMoves, Live
<1> QED
  BY <1>6, <1>8

\* A request or a release is multicast.
LEMMA PostMoves ==
  ASSUME TypeInv, SkeletonInv, NEW p \in Children, ~Sending(p), NEW m \in Message,
         Post(p, Children \ {p}, m), pipes' = pipes, from' = from,
         awaiting_children' = awaiting_children,
         \A c \in Children \ {p} : i'[c] = i[c],
         \A c \in Procs \ {p} : pc'[c] = pc[c],
         \/ pc[p] = "loop" /\ pc'[p] = "request" /\ m.type = "CS_REQUEST"
         \/ pc[p] = "cs" /\ pc'[p] = "loop" /\ m.type = "CS_RELEASE"
  PROVE  SkeletonInv' /\ TalkMoves(p)
<1> USE ProcsFacts
<1>0. ChildInv /\ IpcTypeOK /\ p \in Procs
  BY DEF TypeInv, TypeOK, ChildTypeOK
<1>1. \A a, b \in Procs :
        Link(a, b)' = IF a = p /\ b \in Children \ {p} THEN Append(Link(a, b), m) ELSE Link(a, b)
  BY <1>0, LinkPost
<1>2. \A a, b \in Procs : Link(a, b) \in Seq(Message)
  BY <1>0, LinkType
<1>3. SkeletonInv'
  <2>1. ASSUME NEW a \in Children, NEW b \in Children, a # b
        PROVE  /\ SamePhase(Link(a, b), Link(a, b)')
               /\ pc[a] = "start" /\ Link(a, b) = <<>> => Link(a, b)' = <<>>
    <3>1. CASE a = p
      <4>1. m.type \in Talk /\ Link(a, b) \in Seq(Message) /\ Link(a, b)' = Append(Link(a, b), m)
        BY <1>1, <1>2, <2>1, <3>1 DEF Talk
      <4> QED
        BY <3>1, <4>1, TalkPhase
    <3>2. CASE a # p
      BY <1>1, <1>2, <3>2, TalkPhase
    <3> QED
      BY <3>1, <3>2
  <2>2. \A a \in Procs : Link(PARENT_ID, a)' = Link(PARENT_ID, a) /\ Link(a, PARENT_ID)' = Link(a, PARENT_ID)
    BY <1>0, <1>1
  <2>3. \A c \in Procs \ {p} : outbox'[c] = outbox[c]
    BY <1>0 DEF Post, IpcTypeOK
  <2> QED
    BY <1>0, <2>1, <2>2, <2>3, TalkStep
<1>4. ASSUME NEW a \in Children, NEW b \in Children, NEW x \in Talk, a # b
      PROVE  /\ Carries(a, b, x)' <=> Carries(a, b, x) \/ (a = p /\ x = m.type)
  <2>1. CASE a = p
    <3>1. Link(a, b)' = Append(Link(a, b), m) /\ Link(a, b) \in Seq(Message)
      BY <1>1, <1>2, <1>4, <2>1
    <3>2. Contains(Append(Link(a, b), m), x) <=> Contains(Link(a, b), x) \/ m.type = x
      BY <3>1, ContainsAppend
    <3> QED
      BY <2>1, <3>1, <3>2 DEF Carries
  <2>2. CASE a # p
    BY <1>1, <2>2 DEF Carries
  <2> QED
    BY <2>1, <2>2
<1>5. m.type = "CS_REQUEST" => \A b \in Children \ {p} : Carries(p, b, "CS_REQUEST")'
  BY <1>4 DEF Talk
<1>6. TalkMoves(p)
  BY <1>4, <1>5 DEF TalkMoves, Live
<1> QED
  BY <1>3, <1>6

\* What arrives otherwise is a DONE: a reply comes only to a child that waits.
LEMMA DoneMoves ==
  ASSUME TypeInv, MutexInv, SkeletonInv, NEW p \in Children, NEW f \in Procs \ {p},
         \/ RequestTakesOther(p, f)
         \/ DrainTakesOther(p, f, MessageType \ {"CS_REQUEST", "CS_RELEASE"})
  PROVE  SkeletonInv' /\ TalkMoves(p)
<1> USE ProcsFacts
<1> DEFINE l == IF pc[p] = "request" THEN "request" ELSE IF awaiting_children[p] > 1 THEN "drain" ELSE "sleep"
<1>0. ChildInv /\ IpcTypeOK /\ pc \in [Procs -> Label] /\ p \in Procs /\ f \in Procs
  BY DEF TypeInv, TypeOK, ChildTypeOK
<1>1. PICK types \in {MessageType \ {"CS_REPLY", "CS_REQUEST", "CS_RELEASE"}, MessageType \ {"CS_REQUEST", "CS_RELEASE"}} :
        /\ Take(p, f, pc[p], types) /\ pc[p] \in {"request", "drain"}
        /\ pc[p] = "request" => "CS_REPLY" \notin types
  BY DEF RequestTakesOther, DrainTakesOther, Take
<1>2. CountDone(p, Oldest(p, f), l) /\ outbox' = outbox
  BY DEF RequestTakesOther, DrainTakesOther, Take
<1>3. /\ f \in Children /\ Link(f, p) \in Seq(Message) /\ Link(f, p) # <<>>
      /\ Oldest(p, f) = Head(Link(f, p)) /\ Oldest(p, f).type \in types
  BY <1>0, <1>1, TakeFrom
<1>4. Oldest(p, f).type \notin Talk
  <2>1. Oldest(p, f).type = "CS_REPLY" => f \in Outstanding(p)
    BY <1>3, ContainsTail DEF Carries, Outstanding
  <2>2. pc[p] = "drain" => Outstanding(p) = {}
    BY DEF MutexInv, ReplyAccounting, Live
  <2> QED
    BY <1>1, <1>3, <2>1, <2>2 DEF Talk
<1>5. Oldest(p, f).type = "DONE"
  BY <1>0, <1>1, <1>4, TakeDone
<1>6. awaiting_children' = [awaiting_children EXCEPT ![p] = @ - 1] /\ Goto(p, l)
  BY <1>2, <1>5 DEF CountDone
<1>7. ~Sending(p) /\ receive(p, f) /\ from' = from /\ i' = i
  BY <1>1 DEF Take
<1>8. SkeletonInv'
  BY <1>0, <1>1, <1>2, <1>5, <1>6, <1>7, DoneStep
<1>9. \A a, b \in Procs : QuietStep(Link(a, b), Link(a, b)') /\ Link(a, b) \in Seq(Message)
  BY <1>0, <1>2, <1>4, <1>7, ReceiveQuiet, LinkType
<1>10. \A a, b \in Children : \A x \in Talk : Carries(a, b, x)' <=> Carries(a, b, x)
  BY <1>9, QuietContains DEF Carries
<1>11. pc'[p] = l /\ \A c \in Procs \ {p} : pc'[c] = pc[c]
  BY <1>0, <1>6 DEF Goto
<1>12. TalkMoves(p)
  BY <1>1, <1>10, <1>11 DEF TalkMoves, Live
<1> QED
  BY <1>8, <1>12

\* No step of pa4/mutex.c fails, and each talks as TalkMoves says.
LEMMA MutexStepMoves ==
  ASSUME TypeInv, TypeInv', MutexInv, OrderInv, SkeletonInv, NEW p \in Children, MutexStep(p)
  PROVE  SkeletonInv' /\ TalkMoves(p)
<1> USE ProcsFacts
<1>0. /\ pc \in [Procs -> Label] /\ lamport_time \in [Procs -> Nat] /\ i \in [Children -> Nat]
      /\ p \in Procs /\ PairsInOrder
      /\ pc[p] \in {"request", "drain"} => Live(p)
  BY DEF TypeInv, TypeOK, ChildTypeOK, OrderInv, Live
<1>a. /\ [type |-> "CS_REQUEST", time |-> lamport_time[p] + 1] \in Message
      /\ [type |-> "CS_RELEASE", time |-> lamport_time[p] + 1] \in Message
  BY <1>0 DEF Message, MessageType
<1>b. ASSUME NEW q, NEW n, ReturnIfFirst(p, q, n), pc[p] = "request"
      PROVE  pc'[p] \in {"request", "cs"} /\ \A c \in Procs \ {p} : pc'[c] = pc[c]
  BY <1>0, <1>b DEF ReturnIfFirst, Goto
<1>c. {"CS_REQUEST"} \subseteq Talk /\ {"CS_REPLY"} \subseteq Talk /\ {"CS_RELEASE"} \subseteq Talk
  BY DEF Talk
<1>1. CASE BeginRequest(p)
  <2>1. pc[p] = "loop" /\ ~Sending(p) /\ Goto(p, "request") /\ UNCHANGED <<pipes, from, i, awaiting_children>>
    BY <1>1 DEF BeginRequest
  <2>2. ~queue_contains(queue[p], p)
    BY <2>1 DEF MutexInv, OwnRequest, Live
  <2>3. Post(p, Children \ {p}, [type |-> "CS_REQUEST", time |-> lamport_time[p] + 1])
    BY <1>1, <2>2 DEF BeginRequest, ipc_multicast_to_children
  <2>4. pc'[p] = "request" /\ \A c \in Procs \ {p} : pc'[c] = pc[c]
    BY <1>0, <2>1 DEF Goto
  <2> QED
    BY <1>a, <2>1, <2>3, <2>4, PostMoves
<1>2. CASE Release(p)
  <2>1. pc[p] = "cs" /\ ~Sending(p) /\ UNCHANGED <<pipes, from, awaiting_children>>
    BY <1>2 DEF Release, InCS
  <2>2. queue_contains(queue[p], p)
    BY <2>1 DEF MutexInv, OwnRequest, Live
  <2>3. /\ Post(p, Children \ {p}, [type |-> "CS_RELEASE", time |-> lamport_time[p] + 1])
        /\ Goto(p, "loop") /\ i' = [i EXCEPT ![p] = @ + 1]
    BY <1>2, <2>2 DEF Release, ipc_multicast_to_children
  <2>4. /\ pc'[p] = "loop" /\ \A c \in Procs \ {p} : pc'[c] = pc[c]
        /\ \A c \in Children \ {p} : i'[c] = i[c]
    BY <1>0, <2>3 DEF Goto
  <2> QED
    BY <1>a, <2>1, <2>3, <2>4, PostMoves
<1>3. ASSUME NEW f \in Procs \ {p}, RequestTakesReply(p, f) PROVE SkeletonInv' /\ TalkMoves(p)
  <2>1. /\ Take(p, f, "request", {"CS_REPLY"}) /\ outbox' = outbox /\ pc[p] = "request"
        /\ awaiting_children' = awaiting_children
    BY <1>3 DEF RequestTakesReply, Take
  <2>2. pc'[p] \in {"request", "cs"} /\ \A c \in Procs \ {p} : pc'[c] = pc[c]
    BY <1>b, <1>3, <2>1 DEF RequestTakesReply
  <2> QED
    BY <1>c, <2>1, <2>2, TakeMoves
<1>4. ASSUME NEW f \in Procs \ {p}, RequestTakesRequest(p, f) PROVE SkeletonInv' /\ TalkMoves(p)
  <2>1. /\ Take(p, f, "request", {"CS_REQUEST"}) /\ Live(p) /\ pc[p] = "request"
        /\ awaiting_children' = awaiting_children
    BY <1>0, <1>4 DEF RequestTakesRequest, Take
  <2>2. ~queue_contains(queue[p], f)
    BY <1>0, <2>1, TakeOrder
  <2>3. AcceptRequest(p, f, Oldest(p, f).time)
    BY <1>4, <2>2 DEF RequestTakesRequest
  <2>4. pc'[p] \in {"request", "cs"} /\ \A c \in Procs \ {p} : pc'[c] = pc[c]
    BY <1>b, <1>4, <2>1, <2>2 DEF RequestTakesRequest
  <2> QED
    BY <2>1, <2>3, <2>4, AnswerMoves
<1>5. ASSUME NEW f \in Procs \ {p}, RequestTakesRelease(p, f) PROVE SkeletonInv' /\ TalkMoves(p)
  <2>1. /\ Take(p, f, "request", {"CS_RELEASE"}) /\ Live(p) /\ pc[p] = "request"
        /\ awaiting_children' = awaiting_children
    BY <1>0, <1>5 DEF RequestTakesRelease, Take
  <2>2. queue_contains(queue[p], f)
    BY <1>0, <2>1, TakeOrder
  <2>3. outbox' = outbox
    BY <1>5, <2>2 DEF RequestTakesRelease, AcceptRelease
  <2>4. pc'[p] \in {"request", "cs"} /\ \A c \in Procs \ {p} : pc'[c] = pc[c]
    BY <1>b, <1>5, <2>1, <2>2 DEF RequestTakesRelease
  <2> QED
    BY <1>c, <2>1, <2>3, <2>4, TakeMoves
<1>6. ASSUME NEW f \in Procs \ {p}, DrainTakesRequest(p, f) PROVE SkeletonInv' /\ TalkMoves(p)
  <2>1. /\ Take(p, f, "drain", {"CS_REQUEST"}) /\ Live(p) /\ pc[p] = "drain"
        /\ awaiting_children' = awaiting_children
    BY <1>0, <1>6 DEF DrainTakesRequest, Take
  <2>2. ~queue_contains(queue[p], f)
    BY <1>0, <2>1, TakeOrder
  <2>3. AcceptRequest(p, f, Oldest(p, f).time) /\ pc' = pc
    BY <1>6, <2>2 DEF DrainTakesRequest
  <2> QED
    BY <2>1, <2>3, AnswerMoves
<1>7. ASSUME NEW f \in Procs \ {p}, DrainTakesRelease(p, f) PROVE SkeletonInv' /\ TalkMoves(p)
  <2>1. /\ Take(p, f, "drain", {"CS_RELEASE"}) /\ Live(p) /\ pc[p] = "drain"
        /\ awaiting_children' = awaiting_children
    BY <1>0, <1>7 DEF DrainTakesRelease, Take
  <2>2. queue_contains(queue[p], f)
    BY <1>0, <2>1, TakeOrder
  <2>3. outbox' = outbox /\ pc' = pc
    BY <1>7, <2>2 DEF DrainTakesRelease, AcceptRelease
  <2> QED
    BY <1>c, <2>1, <2>3, TakeMoves
<1>8. ASSUME NEW f \in Procs \ {p},
             \/ RequestTakesOther(p, f)
             \/ DrainTakesOther(p, f, MessageType \ {"CS_REQUEST", "CS_RELEASE"})
      PROVE  SkeletonInv' /\ TalkMoves(p)
  BY <1>8, DoneMoves
<1> QED
  BY <1>1, <1>2, <1>3, <1>4, <1>5, <1>6, <1>7, <1>8 DEF MutexStep

\* The steps of child.c outside mutex.c.
LEMMA ChildStepMoves ==
  ASSUME TypeInv, TypeInv', SkeletonInv, NothingOwed, mutexl, NEW p \in Children, ChildStep(p)
  PROVE  SkeletonInv' /\ TalkMoves(p)
<1> USE ProcsFacts
<1>0. ChildInv /\ ChildInv' /\ IpcTypeOK /\ pc \in [Procs -> Label] /\ pc' \in [Procs -> Label]
  BY DEF TypeInv, TypeOK, ChildTypeOK
<1>1. RepliesAwaited
  <2>1. \A a, b \in Children : a # b /\ Carries(a, b, "CS_REPLY") => pc[b] = "request"
    BY DEF NothingOwed, Outstanding
  <2>2. \A a, b \in Procs : a # b /\ Carries(a, b, "CS_REPLY") => a \in Children /\ b \in Children
    BY DEF SkeletonInv, ParentMail, Procs, Children, PARENT_ID, Carries, Contains
  <2> QED
    BY <2>1, <2>2 DEF RepliesAwaited
<1>2. /\ SkeletonInv'
      /\ \A a, b \in Procs : QuietStep(Link(a, b), Link(a, b)')
      /\ \A c \in Children \ {p} : pc'[c] = pc[c]
      /\ pc'[p] \in {"ask", "request", "cs"} \/ pc[p] \in {"ask", "request", "cs"} => pc'[p] = pc[p]
  BY <1>0, <1>1, ChildStepStays
<1>3. \A a, b \in Children : \A x \in Talk : Carries(a, b, x)' <=> Carries(a, b, x)
  <2>1. \A a, b \in Procs : Link(a, b) \in Seq(Message)
    BY <1>0, LinkType
  <2> QED
    BY <1>2, <2>1, QuietContains DEF Carries
<1>4. pc'[p] \in {"start", "await_started"} => pc[p] \in {"start", "await_started"}
  <2>1. CASE Write(p)
    BY <1>0, <2>1 DEF Write, Goto
  <2>2. CASE Start(p) \/ AwaitStarted(p)
    BY <2>2 DEF Start, AwaitStarted
  <2>3. CASE PlainIteration(p) \/ SendDone(p) \/ Exit(p) \/ SpinOnEof(p)
    BY <1>0, <2>3 DEF PlainIteration, SendDone, Exit, SpinOnEof, Goto
  <2> QED
    BY <2>1, <2>2, <2>3 DEF ChildStep
<1>5. TalkMoves(p)
  BY <1>2, <1>3, <1>4 DEF TalkMoves, Live
<1> QED
  BY <1>2, <1>5

\* Without --mutexl no child is where mutex.c has a step.
LEMMA PlainNoMutex ==
  ASSUME ~mutexl, Plain, NEW p \in Children
  PROVE  ~MutexStep(p)
BY DEF Plain, MutexStep, BeginRequest, Release, InCS, RequestTakesReply, RequestTakesRequest,
       RequestTakesRelease, RequestTakesOther, DrainTakesRequest, DrainTakesRelease, DrainTakesOther, Take

\* After the forks nobody has asked or sent anything.
LEMMA LamportInit == Init => LamportInv
<1> SUFFICES ASSUME Init PROVE LamportInv
  OBVIOUS
<1> USE ProcsFacts
<1>1. SkeletonInv /\ Plain
  BY SkeletonInit, PlainInit DEF Init
<1>2. \A p \in Children : pc[p] = "start"
  BY DEF Init, ChildInit
<1>3. NothingOwed /\ Unheard
  BY <1>1, <1>2 DEF NothingOwed, Unheard, Outstanding, Plain, Talk
<1> QED
  BY <1>1, <1>3 DEF LamportInv

\* Every step keeps the invariant.
LEMMA LamportNext ==
  TypeInv /\ TypeInv' /\ MutexInv /\ MutexInv' /\ OrderInv /\ LamportInv /\ [Next]_vars => LamportInv'
<1> SUFFICES ASSUME TypeInv, TypeInv', MutexInv, MutexInv', OrderInv, LamportInv, [Next]_vars
             PROVE  LamportInv'
  OBVIOUS
<1> USE ProcsFacts
<1>0. ChildInv /\ ChildInv'
  BY DEF TypeInv
<1>1. CASE UNCHANGED vars
  <2>1. Plain => Plain'
    BY <1>1 DEF vars, childVars, Plain, Carries, Link
  <2>2. SkeletonInv => SkeletonInv'
    BY <1>1 DEF vars, childVars, SkeletonInv, GoodLabels, ParentMail, LinkPhases, DoneAccounting, LastSends,
       LastToLeave, Phases, Greeted, Finished, Awaited, DoneComing, Carries, Link, Sending
  <2>3. NothingOwed /\ Unheard => NothingOwed' /\ Unheard'
    BY <1>1 DEF vars, childVars, NothingOwed, Unheard, Outstanding, Carries, Link
  <2> QED
    BY <2>1, <2>2, <2>3 DEF LamportInv
<1>2. CASE mutexl
  <2>0. SkeletonInv /\ NothingOwed /\ Unheard
    BY <1>2 DEF LamportInv
  <2>1. ASSUME NEW p \in Children, SkeletonInv' /\ TalkMoves(p) PROVE LamportInv'
    BY <1>2, <2>0, <2>1, MovesKeep DEF LamportInv
  <2>2. ASSUME NEW p \in Children, ChildStep(p) PROVE LamportInv'
    BY <1>2, <2>0, <2>1, <2>2, ChildStepMoves
  <2>3. ASSUME NEW p \in Children, MutexStep(p) PROVE LamportInv'
    BY <2>0, <2>1, <2>3, MutexStepMoves
  <2>4. ASSUME ParentStep PROVE LamportInv'
    <3>1. /\ \A a, b \in Children : Link(a, b)' = Link(a, b)
          /\ \A c \in Children : pc'[c] = pc[c]
      BY <1>0, <2>4, ParentStepStays
    <3>2. NothingOwed' /\ Unheard'
      BY <2>0, <3>1 DEF NothingOwed, Unheard, Outstanding, Carries
    <3>3. SkeletonInv'
      BY <1>0, <2>0, <2>4, ParentStepSkeleton
    <3> QED
      BY <1>2, <3>2, <3>3 DEF LamportInv
  <2> QED
    BY <1>1, <2>2, <2>3, <2>4 DEF Next, ChildNext, ParentNext
<1>3. CASE ~mutexl
  <2>0. Plain
    BY <1>3 DEF LamportInv
  <2>1. ASSUME (\E p \in Children : ChildStep(p)) \/ ParentStep PROVE LamportInv'
    BY <1>0, <1>3, <2>0, <2>1, PlainStep DEF LamportInv
  <2> QED
    BY <1>1, <1>3, <2>0, <2>1, PlainNoMutex DEF Next, ChildNext, ParentNext
<1> QED
  BY <1>2, <1>3

\* No step of mutex.c writes to its own process.
LEMMA MutexStepSelf ==
  ASSUME TypeInv, NoSelfMail, NEW p \in Children, MutexStep(p)
  PROVE  NoSelfMail'
<1> USE ProcsFacts
<1>0. IpcTypeOK /\ p \in Procs
  BY DEF TypeInv, TypeOK, ChildTypeOK
<1>1. CASE BeginRequest(p) \/ Release(p)
  <2>1. pipes' = pipes /\ (outbox' = outbox \/ \E m : Post(p, Children \ {p}, m))
    BY <1>1 DEF BeginRequest, Release, Abort, ipc_multicast_to_children
  <2>2. \A c \in Procs : outbox'[c][c] = outbox[c][c] \/ outbox'[c][c] = NoMessage
    BY <1>0, <2>1, SelfPost
  <2> QED
    BY <1>0, <2>1, <2>2, SelfKept
<1>2. ASSUME NEW f \in Procs \ {p},
             \/ RequestTakesReply(p, f) \/ RequestTakesRelease(p, f) \/ RequestTakesOther(p, f)
             \/ DrainTakesRelease(p, f) \/ DrainTakesOther(p, f, MessageType \ {"CS_REQUEST", "CS_RELEASE"})
      PROVE  NoSelfMail'
  <2>1. outbox' = outbox /\ \E label, types : Take(p, f, label, types)
    BY <1>2 DEF RequestTakesReply, RequestTakesRelease, RequestTakesOther, DrainTakesRelease,
       DrainTakesOther, AcceptRelease, Abort
  <2> QED
    BY <1>0, <2>1, SelfTake
<1>3. ASSUME NEW f \in Procs \ {p}, RequestTakesRequest(p, f) \/ DrainTakesRequest(p, f)
      PROVE  NoSelfMail'
  <2>1. \E label, types : Take(p, f, label, types)
    BY <1>3 DEF RequestTakesRequest, DrainTakesRequest
  <2>2. outbox' = outbox \/ \E m : Post(p, {f}, m)
    BY <1>3 DEF RequestTakesRequest, DrainTakesRequest, AcceptRequest, Abort, send
  <2>3. \A c \in Procs : outbox'[c][c] = outbox[c][c] \/ outbox'[c][c] = NoMessage
    BY <1>0, <2>2, SelfPost
  <2> QED
    BY <1>0, <2>1, <2>3, SelfTake
<1> QED
  BY <1>1, <1>2, <1>3 DEF MutexStep

\* Every step keeps what is needed besides LamportInv.
LEMMA MailNext == TypeInv /\ TypeInv' /\ LamportInv /\ MailInv /\ [Next]_vars => MailInv'
<1> SUFFICES ASSUME TypeInv, TypeInv', LamportInv, MailInv, [Next]_vars PROVE MailInv'
  OBVIOUS
<1>0. ChildInv /\ ChildInv'
  BY DEF TypeInv
<1>1. CASE UNCHANGED vars
  BY <1>1 DEF vars, childVars, MailInv, NoSelfMail, Few, Sent, Link
<1>2. CASE (\E p \in Children : ChildStep(p)) \/ ParentStep
  BY <1>0, <1>2, MailStep
<1>3. ASSUME NEW p \in Children, MutexStep(p) PROVE MailInv'
  <2>1. mutexl
    BY <1>3, PlainNoMutex DEF LamportInv
  <2> QED
    BY <1>3, <2>1, MutexStepSelf DEF MailInv
<1> QED
  BY <1>1, <1>2, <1>3 DEF Next, ChildNext, ParentNext

\* There is at most one message of each type from q to p, and what excludes what: a STARTED
\* replies and releases, a DONE requests.
LEMMA LamportKinds ==
  ASSUME TypeInv, MutexInv, OrderInv, SkeletonInv, NothingOwed, Unheard,
         NEW p \in Children, NEW q \in Children \ {p}
  PROVE  /\ Link(q, p) \in Seq(Message)
         /\ \A x \in MessageType : AtMostOne(Link(q, p), x)
         /\ Carries(q, p, "STARTED") => ~Carries(q, p, "CS_REPLY") /\ ~Carries(q, p, "CS_RELEASE")
         /\ Carries(q, p, "DONE") => ~Carries(q, p, "CS_REQUEST")
<1> USE ProcsFacts
<1> DEFINE s == Link(q, p)
<1>1. /\ s \in Seq(Message) /\ AtMostOne(s, "STARTED") /\ AtMostOne(s, "DONE")
      /\ Greeted(p, q) => ~Carries(q, p, "STARTED")
      /\ Carries(q, p, "DONE") => Finished(q)
  BY PhaseKinds DEF TypeInv
<1>2. AtMostOne(s, "CS_REQUEST") /\ AtMostOne(s, "CS_RELEASE")
  <2>1. RequestLast(s) /\ AtMostOneRelease(s)
    BY DEF OrderInv, PairsInOrder, InTurn
  <2> HIDE DEF s
  <2>2. AtMostOne(s, "CS_RELEASE")
    BY <2>1 DEF AtMostOneRelease, AtMostOne
  <2>3. AtMostOne(s, "CS_REQUEST")
    BY <2>1 DEF RequestLast, AtMostOne
  <2> QED
    BY <2>2, <2>3
<1>3. AtMostOne(s, "CS_REPLY")
  <2>1. CASE Live(p)
    BY <2>1 DEF MutexInv, LinksInOrder, LinkOrder, AtMostOneReply, AtMostOne
  <2>2. CASE ~Live(p)
    <3>1. ~Contains(s, "CS_REPLY")
      BY <2>2 DEF NothingOwed, Outstanding, Live, Carries
    <3> QED
      BY <3>1 DEF AtMostOne, Contains
  <2> QED
    BY <2>1, <2>2
<1>4. Carries(q, p, "STARTED") => ~Carries(q, p, "CS_REPLY") /\ ~Carries(q, p, "CS_RELEASE")
  <2> SUFFICES ASSUME Carries(q, p, "STARTED") PROVE ~Carries(q, p, "CS_REPLY") /\ ~Carries(q, p, "CS_RELEASE")
    OBVIOUS
  <2>1. pc[p] \in {"start", "await_started"}
    BY <1>1 DEF Greeted, SkeletonInv, GoodLabels
  <2>2. ~Carries(q, p, "CS_RELEASE")
    BY <2>1 DEF Unheard
  <2>3. Outstanding(p) = {}
    BY <2>1 DEF NothingOwed
  <2> QED
    BY <2>2, <2>3 DEF Outstanding
<1>5. Carries(q, p, "DONE") => ~Carries(q, p, "CS_REQUEST")
  <2> SUFFICES ASSUME Carries(q, p, "DONE") PROVE ~Carries(q, p, "CS_REQUEST")
    OBVIOUS
  <2>1. pc[q] # "request"
    BY <1>1 DEF Finished
  <2>2. Outstanding(q) = {}
    BY <2>1 DEF NothingOwed
  <2> QED
    BY <2>2 DEF Outstanding
<1> QED
  BY <1>1, <1>2, <1>3, <1>4, <1>5 DEF MessageType

\* So there are at most three.
LEMMA LamportPipes == TypeInv /\ MutexInv /\ OrderInv /\ LamportInv /\ MailInv => PipeBound
<1> SUFFICES ASSUME TypeInv, MutexInv, OrderInv, LamportInv, MailInv, NEW p \in Procs, NEW q \in Procs
             PROVE  Len(pipes[p][q]) <= 3
  BY DEF PipeBound
<1>0. ChildInv /\ IpcTypeOK
  BY DEF TypeInv, TypeOK, ChildTypeOK
<1>1. Len(pipes[p][q]) \in Nat /\ Len(Link(q, p)) \in Nat /\ Len(pipes[p][q]) <= Len(Link(q, p))
  BY <1>0, PipeInLink
<1>2. CASE ~mutexl
  <2>1. Len(pipes[p][q]) <= 2
    BY <1>0, <1>2, FewPipes DEF MailInv
  <2> QED
    BY <1>1, <2>1
<1>3. CASE mutexl /\ (p = q \/ p = PARENT_ID \/ q = PARENT_ID)
  <2>1. Len(pipes[p][q]) <= 2
    BY <1>0, <1>3, OuterPipes DEF LamportInv, MailInv
  <2> QED
    BY <1>1, <2>1
<1>4. CASE mutexl /\ p \in Children /\ q \in Children \ {p}
  <2> DEFINE s == Link(q, p)
  <2>1. /\ s \in Seq(Message)
        /\ \A x \in MessageType : AtMostOne(s, x)
        /\ Contains(s, "STARTED") => ~Contains(s, "CS_REPLY") /\ ~Contains(s, "CS_RELEASE")
        /\ Contains(s, "DONE") => ~Contains(s, "CS_REQUEST")
    BY <1>4, LamportKinds DEF LamportInv, Carries
  <2> HIDE DEF s
  <2>2. \A k \in 1..Len(s) : s[k].type \in MessageType
    BY <2>1, SequenceTypes
  <2>3. \A k \in 1..Len(s) : \A x : s[k].type = x => Contains(s, x)
    BY DEF Contains
  <2>4. PICK y \in {"DONE", "CS_REQUEST"} : \A z \in {"DONE", "CS_REQUEST"} : Contains(s, z) => z = y
    BY <2>1
  <2>5. ASSUME Contains(s, "STARTED") PROVE Len(s) <= 3
    <3>1. \A k \in 1..Len(s) : s[k].type \in {"STARTED", "STARTED", y}
      BY <2>1, <2>2, <2>3, <2>4, <2>5 DEF MessageType
    <3>2. "STARTED" \in MessageType /\ y \in MessageType
      BY DEF MessageType
    <3> QED
      BY <2>1, <3>1, <3>2, ThreeKinds
  <2>6. ASSUME ~Contains(s, "STARTED") PROVE Len(s) <= 3
    <3>1. \A k \in 1..Len(s) : s[k].type \in {"CS_REPLY", "CS_RELEASE", y}
      BY <2>2, <2>3, <2>4, <2>6 DEF MessageType
    <3>2. "CS_REPLY" \in MessageType /\ "CS_RELEASE" \in MessageType /\ y \in MessageType
      BY DEF MessageType
    <3> QED
      BY <2>1, <3>1, <3>2, ThreeKinds
  <2>7. Len(s) <= 3
    BY <2>5, <2>6
  <2> QED
    BY <1>1, <2>7 DEF s
<1> QED
  BY <1>2, <1>3, <1>4 DEF Procs, Children, PARENT_ID

\* No pipe of pa4 ever holds more than three messages, for any number of children: a reply,
\* a release and the next request or the DONE.  So the write() of a CS_REPLY, whose result
\* mutex.c does not look at, never meets a full pipe.
THEOREM LamportPipeBound == Spec => []PipeBound
<1>1. Init => MailInv
  BY MailInit DEF Init
<1> QED
  BY <1>1, TypeInit, TypeNext, MutexInit, MutexNext, OrderInit, OrderNext, LamportInit, LamportNext,
     MailNext, LamportPipes, PTL DEF Spec

\* With --mutexl and however short the sleep of child_entry is, no child of pa4 is killed by
\* SIGPIPE or fails, in particular by the assert()s on its queue in mutex.c or by the checks
\* of the types of its messages; one that spins on a closed pipe does so after everybody's
\* last iteration.
THEOREM LamportShortSleep == ASSUME mutexl PROVE Spec => []ShortSleepHarmless
<1>1. LamportInv => ShortSleepHarmless
  BY SkeletonHarmless DEF LamportInv
<1> QED
  BY <1>1, TypeInit, TypeNext, MutexInit, MutexNext, OrderInit, OrderNext, LamportInit, LamportNext,
     PTL DEF Spec

=============================================================================
