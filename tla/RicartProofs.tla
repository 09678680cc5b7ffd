---------------------------- MODULE RicartProofs ----------------------------
(***************************************************************************)
(* Proofs about MutexRicart, for every number of children and iterations.  *)
(***************************************************************************)
EXTENDS MutexRicart, ChildProofs

-----------------------------------------------------------------------------
(* Type correctness *)

TypeInv == TypeOK /\ ChildInv

\* The state after the forks of main.c has its type.
LEMMA TypeInit == Init => TypeInv
<1> SUFFICES ASSUME Init PROVE TypeInv
  OBVIOUS
<1>1. ChildInv
  BY ChildInitType DEF Init
<1>2. /\ queue \in [Children -> [Children -> Nat]]
      /\ last_request_reply_count \in [Children -> Nat]
  BY DEF Init, EMPTY_REQUEST_TIME
<1> QED
  BY <1>1, <1>2 DEF TypeInv, TypeOK, ChildInv

\* The steps outside mutex.c keep the types.
LEMMA SkeletonType ==
  ASSUME TypeInv, ChildInv', UNCHANGED mutexVars
  PROVE  TypeInv'
BY DEF TypeInv, TypeOK, ChildInv, mutexVars

\* Answering a CS_REQUEST, or keeping it, keeps the types.
LEMMA AnswerType ==
  ASSUME TypeInv, NEW p \in Children, NEW f \in Procs, NEW label, NEW types,
         Take(p, f, label, types),
         Reply(p, f, Oldest(p, f).time) \/ Defer(p, f, Oldest(p, f).time)
  PROVE  IpcTypeOK' /\ lamport_time' \in [Procs -> Nat] /\ queue' \in [Children -> [Children -> Nat]]
<1> USE ProcsFacts
<1>1. CASE Reply(p, f, Oldest(p, f).time)
  <2>1. IpcTypeOK'
    BY <1>1, TakeType, PostType DEF Reply, send, TypeInv, TypeOK, ChildInv, ChildTypeOK, IpcTypeOK
  <2>2. lamport_time' \in [Procs -> Nat] /\ queue' \in [Children -> [Children -> Nat]]
    BY <1>1, TakeType DEF Reply, TypeInv, TypeOK, ChildInv, ChildTypeOK
  <2> QED
    BY <2>1, <2>2
<1>2. CASE Defer(p, f, Oldest(p, f).time)
  <2>1. IpcTypeOK'
    BY <1>2, TakeType DEF Defer, TypeInv, TypeOK, ChildInv, ChildTypeOK, IpcTypeOK
  <2>2. lamport_time' \in [Procs -> Nat]
    BY <1>2, TakeType DEF Defer, TypeInv, TypeOK, ChildInv, ChildTypeOK
  <2>3. queue' \in [Children -> [Children -> Nat]]
    BY <1>2, TakeType DEF Defer, TypeInv, TypeOK, ChildInv
  <2> QED
    BY <2>1, <2>2, <2>3
<1> QED
  BY <1>1, <1>2

\* The test at the end of the loop of request_cs() keeps the types.
LEMMA ReturnType ==
  ASSUME TypeInv, NEW p \in Children, pc[p] = "request", NEW n \in Nat, ReturnIfReplied(p, n)
  PROVE  /\ pc' \in [Procs -> Label]
         /\ \A c \in Children : pc'[c] \in {"ask", "request", "cs"} => pc[c] \in {"ask", "request", "cs"}
         /\ last_request_reply_count' \in [Children -> Nat]
BY ProcsFacts DEF ReturnIfReplied, Goto, Label, TypeInv, TypeOK, ChildInv, ChildTypeOK

\* The replies of release_cs() have their types.
LEMMA ReleaseType ==
  ASSUME TypeInv, NEW p \in Children, Release(p), queue_contains(queue[p], p)
  PROVE  /\ IpcTypeOK' /\ lamport_time' \in [Procs -> Nat] /\ queue' \in [Children -> [Children -> Nat]]
         /\ \A d \in Deferred(p) :
              [type |-> "CS_REPLY",
               time |-> lamport_time[p] + Cardinality({c \in Deferred(p) : c <= d})] \in Message
         /\ lamport_time'[p] >= lamport_time[p]
<1> USE ProcsFacts
<1>1. \A S \in SUBSET Deferred(p) : Cardinality(S) \in Nat
  BY ChildrenFinite DEF Deferred
<1>2. lamport_time \in [Procs -> Nat] /\ lamport_time[p] \in Nat /\ IpcTypeOK
  BY DEF TypeInv, ChildInv, ChildTypeOK
<1>3. ASSUME NEW d \in Deferred(p)
      PROVE  [type |-> "CS_REPLY",
              time |-> lamport_time[p] + Cardinality({c \in Deferred(p) : c <= d})] \in Message
  <2>1. Cardinality({c \in Deferred(p) : c <= d}) \in Nat
    BY <1>1
  <2> QED
    BY <1>2, <2>1 DEF Message, MessageType
<1>4. outbox' \in [Procs -> [Procs -> Message \cup {NoMessage}]]
  <2> DEFINE m == [d \in Deferred(p) |->
                     [type |-> "CS_REPLY",
                      time |-> lamport_time[p] + Cardinality({c \in Deferred(p) : c <= d})]]
  <2>1. \A d \in Deferred(p) : m[d] \in Message
    BY <1>3
  <2>2. PostEach(p, Deferred(p), m) /\ ~Sending(p) /\ pipes' = pipes /\ p \in Procs
    BY DEF Release, InCS
  <2> HIDE DEF m
  <2> QED
    BY <1>2, <2>1, <2>2, LinkPostEach
<1>5. /\ lamport_time' = [lamport_time EXCEPT ![p] = @ + Cardinality(Deferred(p))]
      /\ Cardinality(Deferred(p)) \in Nat
  BY <1>1 DEF Release
<1>6. queue' \in [Children -> [Children -> Nat]]
  <2>1. [c \in Children |-> EMPTY_REQUEST_TIME] \in [Children -> Nat]
    BY DEF EMPTY_REQUEST_TIME
  <2> QED
    BY <2>1 DEF Release, TypeInv, TypeOK
<1> QED
  BY <1>2, <1>3, <1>4, <1>5, <1>6, SMTT(30) DEF Release, IpcTypeOK

\* The steps of pa5/mutex.c keep the types.
LEMMA MutexStepType ==
  ASSUME TypeInv, NEW p \in Children, MutexStep(p)
  PROVE  TypeInv'
<1> USE NAssumption, ChildAssumption, ProcsFacts
<1>a. /\ lamport_time[p] \in Nat
      /\ lamport_time[p] + 1 \in Nat
      /\ [type |-> "CS_REQUEST", time |-> lamport_time[p] + 1] \in Message
  BY DEF TypeInv, TypeOK, ChildInv, ChildTypeOK, Message, MessageType
<1>1. CASE BeginRequest(p)
  <2>1. IpcTypeOK' /\ lamport_time' \in [Procs -> Nat] /\ queue' \in [Children -> [Children -> Nat]]
    <3>1. CASE queue_contains(queue[p], p)
      <4>1. UNCHANGED <<lamport_time, queue, outbox, pipes>>
        BY <1>1, <3>1 DEF BeginRequest
      <4> QED
        BY <4>1 DEF TypeInv, TypeOK, ChildTypeOK, IpcTypeOK
    <3>2. CASE ~queue_contains(queue[p], p)
      <4>1. IpcTypeOK'
        BY <1>1, <1>a, <3>2, PostType DEF BeginRequest, ipc_multicast_to_children, TypeInv, TypeOK, ChildTypeOK, IpcTypeOK
      <4>2. lamport_time' \in [Procs -> Nat] /\ queue' \in [Children -> [Children -> Nat]]
        BY <1>1, <1>a, <3>2, SMTT(30) DEF BeginRequest, TypeInv, TypeOK, ChildTypeOK
      <4> QED
        BY <4>1, <4>2
    <3> QED
      BY <3>1, <3>2
  <2>2. /\ pc' \in [Procs -> Label]
        /\ \A c \in Children : pc'[c] \in {"ask", "request", "cs"} => c = p \/ pc[c] \in {"ask", "request", "cs"}
    BY <1>1 DEF BeginRequest, Goto, Label, TypeInv, TypeOK, ChildInv, ChildTypeOK
  <2> QED
    BY <1>1, <2>1, <2>2 DEF BeginRequest, HasIteration, TypeInv, TypeOK, ChildInv, ChildTypeOK
<1>2. CASE Release(p)
  <2>1. IpcTypeOK' /\ lamport_time' \in [Procs -> Nat] /\ queue' \in [Children -> [Children -> Nat]]
    <3>1. CASE ~queue_contains(queue[p], p)
      <4>1. UNCHANGED <<lamport_time, queue, outbox, pipes>>
        BY <1>2, <3>1 DEF Release, Abort
      <4> QED
        BY <4>1 DEF TypeInv, TypeOK, ChildTypeOK, IpcTypeOK
    <3> QED
      BY <1>2, <3>1, ReleaseType
  <2>2. /\ pc' \in [Procs -> Label]
        /\ \A c \in Children : pc'[c] \in {"ask", "request", "cs"} => c # p /\ pc[c] \in {"ask", "request", "cs"}
    BY <1>2 DEF Release, Abort, Goto, Label, TypeInv, TypeOK, ChildInv, ChildTypeOK
  <2>3. i[p] <= Iterations[p]
    BY <1>2 DEF Release, InCS, TypeInv, ChildInv
  <2>4. /\ i' \in [Children -> Nat]
        /\ \A c \in Children : i'[c] \in 1..(Iterations[c] + 1) /\ (c # p => i'[c] = i[c])
    BY <1>2, <2>3 DEF Release, TypeInv, TypeOK, ChildInv, ChildTypeOK
  <2>5. last_request_reply_count' = last_request_reply_count
    BY <1>2 DEF Release, Abort
  <2> QED
    BY <1>2, <2>1, <2>2, <2>4, <2>5 DEF Release, TypeInv, TypeOK, ChildInv, ChildTypeOK
<1>3. ASSUME NEW f \in Procs \ {p}, RequestTakesReply(p, f)
      PROVE  TypeInv'
  <2>0. pc[p] = "request" /\ last_request_reply_count[p] + 1 \in Nat
    BY <1>3 DEF RequestTakesReply, Take, TypeInv, TypeOK, ChildInv
  <2>1. IpcTypeOK' /\ lamport_time' \in [Procs -> Nat]
    BY <1>3, TakeType DEF RequestTakesReply, TypeInv, TypeOK, ChildInv, ChildTypeOK, IpcTypeOK
  <2> QED
    BY <1>3, <2>0, <2>1, ReturnType, TakeType DEF RequestTakesReply, TypeInv, TypeOK, ChildInv, ChildTypeOK
<1>4. ASSUME NEW f \in Procs \ {p}, RequestTakesRequest(p, f)
      PROVE  TypeInv'
  <2> DEFINE t == Oldest(p, f).time
             first == Before(queue[p][p], p, t, f)
  <2>0. pc[p] = "request" /\ last_request_reply_count[p] \in Nat
    BY <1>4 DEF RequestTakesRequest, Take, TypeInv, TypeOK, ChildInv
  <2>1. CASE first /\ queue_contains(queue[p], f)
    <3>1. IpcTypeOK'
      BY <1>4, <2>1, TakeType DEF RequestTakesRequest, Abort, TypeInv, TypeOK, ChildInv, ChildTypeOK, IpcTypeOK
    <3>2. /\ pc' \in [Procs -> Label]
          /\ \A c \in Children : pc'[c] \in {"ask", "request", "cs"} => pc[c] \in {"ask", "request", "cs"}
      BY <1>4, <2>1 DEF RequestTakesRequest, Abort, Goto, Label, TypeInv, TypeOK, ChildInv, ChildTypeOK
    <3> QED
      BY <1>4, <2>1, <3>1, <3>2, TakeType DEF RequestTakesRequest, Abort, TypeInv, TypeOK, ChildInv, ChildTypeOK
  <2>2. CASE ~(first /\ queue_contains(queue[p], f))
    <3>1. /\ Take(p, f, "request", {"CS_REQUEST"}) /\ (Reply(p, f, t) \/ Defer(p, f, t))
          /\ ReturnIfReplied(p, last_request_reply_count[p]) /\ UNCHANGED awaiting_children
      BY <1>4, <2>2 DEF RequestTakesRequest
    <3> QED
      BY <2>0, <3>1, AnswerType, ReturnType, TakeType DEF TypeInv, TypeOK, ChildInv, ChildTypeOK
  <2> QED
    BY <2>1, <2>2
<1>5. ASSUME NEW f \in Procs \ {p}, RequestTakesOther(p, f)
      PROVE  TypeInv'
  <2>0. pc[p] = "request" /\ "request" \in Label
    BY <1>5 DEF RequestTakesOther, Take, Label
  <2>1. IpcTypeOK'
    BY <1>5, TakeType DEF RequestTakesOther, TypeInv, TypeOK, ChildInv, ChildTypeOK, IpcTypeOK
  <2>2. lamport_time' \in [Procs -> Nat]
    BY <1>5, TakeType DEF RequestTakesOther, TypeInv, TypeOK, ChildInv, ChildTypeOK
  <2> QED
    BY <1>5, <2>0, <2>1, <2>2, CountDoneType, TakeType DEF RequestTakesOther, TypeInv, TypeOK, ChildInv, ChildTypeOK
<1>6. ASSUME NEW f \in Procs \ {p}, DrainTakesRequest(p, f)
      PROVE  TypeInv'
  BY <1>6, AnswerType, TakeType DEF DrainTakesRequest, TypeInv, TypeOK, ChildInv, ChildTypeOK
<1>7. ASSUME NEW f \in Procs \ {p}, NEW types, DrainTakesOther(p, f, types), UNCHANGED mutexVars
      PROVE  TypeInv'
  BY <1>7, DrainTakesOtherType, SkeletonType DEF TypeInv
<1> QED
  BY <1>1, <1>2, <1>3, <1>4, <1>5, <1>6, <1>7 DEF MutexStep

\* The typing is inductive.
LEMMA TypeNext == TypeInv /\ [Next]_vars => TypeInv'
<1> SUFFICES ASSUME TypeInv, [Next]_vars PROVE TypeInv'
  OBVIOUS
<1>1. ASSUME NEW p \in Children, ChildNext(p) PROVE TypeInv'
  BY <1>1, ChildStepType, MutexStepType, SkeletonType DEF ChildNext, TypeInv
<1>2. CASE ParentNext
  BY <1>2, ParentStepType, SkeletonType DEF ParentNext, TypeInv
<1>3. CASE UNCHANGED vars
  BY <1>3 DEF vars, childVars, mutexVars, TypeInv, ChildInv, TypeOK, ChildTypeOK, IpcTypeOK
<1> QED
  BY <1>1, <1>2, <1>3 DEF Next

\* The state of pa5 stays in its type: no child runs more iterations than
\* iterations_count, and the clocks, the entries of its queue and its count of replies
\* are natural numbers.
THEOREM RicartTypes == Spec => []TypeOK
<1>1. TypeInv => TypeOK
  BY DEF TypeInv
<1> QED
  BY <1>1, TypeInit, TypeNext, PTL DEF Spec

-----------------------------------------------------------------------------
(* The requests.  What GrantInOrder and ReplyAccounting say is not inductive: *)
(* a child that enters must be able to tell from its replies that every other *)
(* request is a later one, made or not, so the invariant follows each request *)
(* from its sender to the reply.                                              *)

\* p asks for the critical section or is in it.
Requesting(p) == pc[p] \in {"request", "cs"}

\* p holds back the request of q; with q = p, it has one of its own.
Holds(p, q) == queue_contains(queue[p], q)

RequestsCarry(s, t) == \A k \in 1..Len(s) : s[k].type = "CS_REQUEST" => s[k].time = t

\* What becomes of the request of q to p: it is under way, held back, or answered; q waits
\* as long as it is one of them.  p holds it back only because of an earlier one of its
\* own, and a request that p makes after it received q's is a later one.
Dialogue(p, q) ==
  /\ AtMostOne(Link(q, p), "CS_REQUEST") /\ AtMostOne(Link(p, q), "CS_REPLY")
  /\ RequestsCarry(Link(q, p), queue[q][q])
  /\ ~Carries(q, p, "CS_RELEASE")
  /\ Carries(q, p, "CS_REQUEST") => ~Holds(p, q) /\ ~Carries(p, q, "CS_REPLY")
  /\ Holds(p, q) => ~Carries(p, q, "CS_REPLY")
  /\ Owes(p, q) => pc[q] = "request"
  /\ Holds(p, q) => /\ Requesting(p) /\ queue[p][q] = queue[q][q]
                    /\ Before(queue[p][p], p, queue[q][q], q)
  /\ Requesting(q) /\ ~Carries(q, p, "CS_REQUEST") =>
       /\ queue[q][q] <= lamport_time[p]
       /\ Requesting(p) /\ ~Holds(p, q) => Before(queue[q][q], q, queue[p][p], p)

\* What p knows of its own request.
OwnRequest(p) ==
  /\ pc[p] # "ask"
  /\ Holds(p, p) <=> Requesting(p)
  /\ queue[p][p] <= lamport_time[p]
  /\ pc[p] # "request" => last_request_reply_count[p] = 0

Debtors(q) == {p \in Children \ {q} : Owes(p, q)}

\* While q waits it has counted the replies of all that owe it none.
Counted(q) == pc[q] = "request" => last_request_reply_count[q] + Cardinality(Debtors(q)) = N - 1

RequestInv ==
  /\ \A p \in Children : \A q \in Children \ {p} : Dialogue(p, q)
  /\ \A p \in Children : OwnRequest(p) /\ Counted(p)

\* As far as the messages of type x go, t says the same as s.
SameOf(s, t, x) ==
  /\ Contains(t, x) <=> Contains(s, x)
  /\ AtMostOne(s, x) => AtMostOne(t, x)
  /\ x = "CS_REQUEST" => \A z : RequestsCarry(s, z) => RequestsCarry(t, z)

\* A receive and a send of another type.
LEMMA SameOfOther ==
  ASSUME NEW s \in Seq(Message), NEW x
  PROVE  /\ SameOf(s, s, x)
         /\ s # <<>> /\ Head(s).type # x => SameOf(s, Tail(s), x)
         /\ \A m \in Message : m.type # x => SameOf(s, Append(s, m), x)
<1>1. SameOf(s, s, x)
  BY DEF SameOf
<1>2. ASSUME s # <<>>, Head(s).type # x PROVE SameOf(s, Tail(s), x)
  <2> DEFINE t == Tail(s)
  <2>1. /\ Len(s) \in Nat \ {0} /\ Len(t) = Len(s) - 1
        /\ \A k \in 1..Len(t) : k + 1 \in 1..Len(s) /\ t[k] = s[k + 1]
    BY <1>2
  <2>2. Contains(t, x) <=> Contains(s, x)
    BY <1>2, ContainsTail
  <2> HIDE DEF t
  <2> QED
    BY <2>1, <2>2 DEF SameOf, AtMostOne, RequestsCarry, t
<1>3. ASSUME NEW m \in Message, m.type # x PROVE SameOf(s, Append(s, m), x)
  <2> DEFINE t == Append(s, m)
  <2>1. /\ Len(s) \in Nat /\ Len(t) = Len(s) + 1
        /\ \A k \in 1..Len(t) : (k \in 1..Len(s) /\ t[k] = s[k]) \/ (k = Len(s) + 1 /\ t[k] = m)
    OBVIOUS
  <2>2. Contains(t, x) <=> Contains(s, x)
    BY <1>3, ContainsAppend
  <2> HIDE DEF t
  <2>3. AtMostOne(s, x) => AtMostOne(t, x)
    BY <1>3, <2>1 DEF AtMostOne
  <2>4. x = "CS_REQUEST" => \A z : RequestsCarry(s, z) => RequestsCarry(t, z)
    BY <1>3, <2>1 DEF RequestsCarry
  <2> QED
    BY <2>2, <2>3, <2>4 DEF SameOf, t
<1> QED
  BY <1>1, <1>2, <1>3

\* A step that is not about critical sections.
LEMMA SameOfQuiet ==
  ASSUME NEW s \in Seq(Message), NEW t, QuietStep(s, t), NEW x \in Talk
  PROVE  SameOf(s, t, x)
<1>1. CASE s # <<>> /\ Head(s).type \notin Talk /\ t = Tail(s)
  <2>1. Head(s).type # x
    BY <1>1
  <2> QED
    BY <1>1, <2>1, SameOfOther
<1>2. ASSUME NEW m \in Message, m.type \notin Talk, t = Append(s, m)
      PROVE  SameOf(s, t, x)
  <2>1. m.type # x
    BY <1>2
  <2> QED
    BY <1>2, <2>1, SameOfOther
<1>3. CASE t = s
  BY <1>3, SameOfOther
<1> QED
  BY <1>1, <1>2, <1>3 DEF QuietStep

\* The receive of the only message of type x, and the send of the first.
LEMMA OnlyOne ==
  ASSUME NEW s \in Seq(Message), NEW x
  PROVE  /\ s # <<>> /\ Head(s).type = x /\ AtMostOne(s, x)
              => ~Contains(Tail(s), x) /\ AtMostOne(Tail(s), x)
         /\ \A m \in Message : ~Contains(s, x) /\ m.type = x
              => AtMostOne(Append(s, m), x) /\ (x = "CS_REQUEST" => RequestsCarry(Append(s, m), m.time))
         /\ s # <<>> /\ Head(s).type = "CS_REQUEST"
              => \A z : RequestsCarry(s, z) => Head(s).time = z
         /\ ~Contains(s, "CS_REQUEST") => \A z : RequestsCarry(s, z)
<1>1. ASSUME s # <<>>, Head(s).type = x, AtMostOne(s, x)
      PROVE  ~Contains(Tail(s), x) /\ AtMostOne(Tail(s), x)
  <2> DEFINE t == Tail(s)
  <2>1. /\ Len(s) \in Nat \ {0} /\ Len(t) = Len(s) - 1
        /\ Head(s) = s[1] /\ 1 \in 1..Len(s)
        /\ \A k \in 1..Len(t) : k + 1 \in 1..Len(s) /\ t[k] = s[k + 1]
    BY <1>1
  <2> HIDE DEF t
  <2> QED
    BY <1>1, <2>1 DEF AtMostOne, Contains, t
<1>2. ASSUME NEW m \in Message, ~Contains(s, x), m.type = x
      PROVE  AtMostOne(Append(s, m), x) /\ (x = "CS_REQUEST" => RequestsCarry(Append(s, m), m.time))
  <2> DEFINE t == Append(s, m)
  <2>1. /\ Len(s) \in Nat /\ Len(t) = Len(s) + 1
        /\ \A k \in 1..Len(t) : (k \in 1..Len(s) /\ t[k] = s[k]) \/ (k = Len(s) + 1 /\ t[k] = m)
    OBVIOUS
  <2> HIDE DEF t
  <2> QED
    BY <1>2, <2>1 DEF AtMostOne, RequestsCarry, Contains, t
<1>3. ASSUME s # <<>>, Head(s).type = "CS_REQUEST", NEW z, RequestsCarry(s, z)
      PROVE  Head(s).time = z
  <2>1. Head(s) = s[1] /\ 1 \in 1..Len(s)
    BY <1>3
  <2> QED
    BY <1>3, <2>1 DEF RequestsCarry
<1>4. ~Contains(s, "CS_REQUEST") => \A z : RequestsCarry(s, z)
  BY DEF Contains, RequestsCarry
<1> QED
  BY <1>1, <1>2, <1>3, <1>4

\* A step that leaves the requests of q and their answers alone.
LEMMA DialogueKept ==
  ASSUME TypeInv, NEW p \in Children, NEW q \in Children, Dialogue(p, q),
         SameOf(Link(q, p), Link(q, p)', "CS_REQUEST"), SameOf(Link(p, q), Link(p, q)', "CS_REPLY"),
         Contains(Link(q, p)', "CS_RELEASE") => Contains(Link(q, p), "CS_RELEASE"),
         queue'[p] = queue[p], queue'[q] = queue[q],
         Requesting(p)' <=> Requesting(p), Requesting(q)' <=> Requesting(q),
         Owes(p, q) /\ pc[q] = "request" => pc'[q] = "request",
         lamport_time[p] <= lamport_time'[p], lamport_time'[p] \in Nat
  PROVE  Dialogue(p, q)' /\ (Owes(p, q)' <=> Owes(p, q))
<1>1. lamport_time[p] \in Nat /\ queue[q][q] \in Nat
  BY ProcsFacts DEF TypeInv, TypeOK, ChildTypeOK
<1>2. Owes(p, q)' <=> Owes(p, q)
  BY DEF Owes, Carries, SameOf
<1>3. queue[q][q] <= lamport_time[p] => queue'[q][q] <= lamport_time'[p]
  BY <1>1
<1> QED
  BY <1>2, <1>3 DEF Dialogue, SameOf, Carries, Holds, Requesting

\* A step of p has to be looked at from p only.
LEMMA StepOf ==
  ASSUME TypeInv, TypeInv', RequestInv, NEW p \in Children,
         \A a, b \in Children \ {p} : Link(a, b)' = Link(a, b),
         \A c \in Children \ {p} : /\ queue'[c] = queue[c] /\ pc'[c] = pc[c]
                                   /\ last_request_reply_count'[c] = last_request_reply_count[c],
         \A c \in Children : lamport_time[c] <= lamport_time'[c],
         \A c \in Children \ {p} : Dialogue(p, c)' /\ Dialogue(c, p)' /\ (Owes(p, c)' <=> Owes(p, c)),
         OwnRequest(p)', Counted(p)'
  PROVE  RequestInv'
<1> USE ProcsFacts
<1>0. /\ \A c \in Children : lamport_time[c] \in Nat /\ lamport_time'[c] \in Nat /\ queue[c][c] \in Nat
      /\ \A a, b \in Children : Link(a, b) \in Seq(Message)
  <2>1. \A c \in Children : lamport_time[c] \in Nat /\ lamport_time'[c] \in Nat /\ queue[c][c] \in Nat
    BY DEF TypeInv, TypeOK, ChildTypeOK
  <2>2. \A a, b \in Children : Link(a, b) \in Seq(Message)
    BY LinkType DEF TypeInv, TypeOK, ChildTypeOK
  <2> QED
    BY <2>1, <2>2
<1>1. ASSUME NEW a \in Children \ {p}, NEW b \in Children \ {a, p}
      PROVE  Dialogue(a, b)' /\ (Owes(a, b)' <=> Owes(a, b))
  <2>1. Dialogue(a, b)
    BY DEF RequestInv
  <2>2. Link(a, b)' = Link(a, b) /\ Link(b, a)' = Link(b, a)
    BY <1>1
  <2>3. SameOf(Link(b, a), Link(b, a)', "CS_REQUEST") /\ SameOf(Link(a, b), Link(a, b)', "CS_REPLY")
    BY <1>0, <2>2, SameOfOther
  <2> QED
    BY <1>0, <2>1, <2>2, <2>3, DialogueKept DEF Requesting
<1>2. \A a \in Children : \A b \in Children \ {a} : Dialogue(a, b)'
  BY <1>1
<1>3. ASSUME NEW c \in Children \ {p} PROVE OwnRequest(c)' /\ Counted(c)'
  <2>1. OwnRequest(c) /\ Counted(c)
    BY DEF RequestInv
  <2>2. Debtors(c)' = Debtors(c)
    BY <1>1 DEF Debtors
  <2> QED
    BY <1>0, <2>1, <2>2 DEF OwnRequest, Counted, Holds, Requesting
<1> QED
  BY <1>2, <1>3 DEF RequestInv

\* A reply is sent only to a child that waits for it.
LEMMA RequestAwaited == RequestInv => RepliesAwaited
<1> SUFFICES ASSUME RequestInv, NEW p \in Children, NEW q \in Children, Carries(p, q, "CS_REPLY"),
                    p # q
             PROVE  pc[q] # "exited"
  BY DEF RepliesAwaited
<1> QED
  BY DEF RequestInv, Dialogue, Owes

-----------------------------------------------------------------------------
(* The steps and the requests *)

\* A step that concerns no request.
LEMMA QuietRequests ==
  ASSUME TypeInv, TypeInv', RequestInv, UNCHANGED mutexVars,
         \A a, b \in Children : QuietStep(Link(a, b), Link(a, b)'),
         \A c \in Children : /\ lamport_time[c] <= lamport_time'[c]
                             /\ pc[c] \in {"ask", "request", "cs"} \/ pc'[c] \in {"ask", "request", "cs"}
                                  => pc'[c] = pc[c]
  PROVE  RequestInv'
<1> USE ProcsFacts
<1>0. /\ \A c \in Children : lamport_time[c] \in Nat /\ lamport_time'[c] \in Nat /\ queue[c][c] \in Nat
      /\ queue' = queue /\ last_request_reply_count' = last_request_reply_count
  BY DEF TypeInv, TypeOK, ChildTypeOK, mutexVars
<1>1. \A a, b \in Children : \A x \in Talk : SameOf(Link(a, b), Link(a, b)', x)
  <2>1. \A a, b \in Children : Link(a, b) \in Seq(Message)
    BY LinkType DEF TypeInv, TypeOK, ChildTypeOK
  <2> QED
    BY <2>1, SameOfQuiet
<1>2. ASSUME NEW a \in Children, NEW b \in Children \ {a}
      PROVE  Dialogue(a, b)' /\ (Owes(a, b)' <=> Owes(a, b))
  <2>1. Dialogue(a, b)
    BY DEF RequestInv
  <2>2. /\ SameOf(Link(b, a), Link(b, a)', "CS_REQUEST") /\ SameOf(Link(a, b), Link(a, b)', "CS_REPLY")
        /\ Contains(Link(b, a)', "CS_RELEASE") => Contains(Link(b, a), "CS_RELEASE")
    BY <1>1 DEF Talk, SameOf
  <2> QED
    BY <1>0, <2>1, <2>2, DialogueKept DEF Requesting
<1>3. ASSUME NEW c \in Children PROVE OwnRequest(c)' /\ Counted(c)'
  <2>1. OwnRequest(c) /\ Counted(c)
    BY DEF RequestInv
  <2>2. Debtors(c)' = Debtors(c)
    BY <1>2 DEF Debtors
  <2> QED
    BY <1>0, <2>1, <2>2 DEF OwnRequest, Counted, Holds, Requesting
<1> QED
  BY <1>2, <1>3 DEF RequestInv

\* Before decides between two requests of different children.
LEMMA BeforeTotal ==
  ASSUME NEW s \in Nat, NEW t \in Nat, NEW a \in Children, NEW b \in Children, a # b
  PROVE  Before(s, a, t, b) \/ Before(t, b, s, a)
BY NAssumption DEF Before, Children

\* A new request is later than those its sender has received.
LEMMA BeginRequests ==
  ASSUME TypeInv, TypeInv', SkeletonInv, RequestInv, NEW p \in Children, BeginRequest(p)
  PROVE  SkeletonInv' /\ RequestInv'
<1> USE ProcsFacts
<1> DEFINE m == [type |-> "CS_REQUEST", time |-> lamport_time[p] + 1]
<1>0. /\ IpcTypeOK /\ pc \in [Procs -> Label] /\ lamport_time \in [Procs -> Nat]
      /\ queue \in [Children -> [Children -> Nat]] /\ p \in Procs
  BY DEF TypeInv, TypeOK, ChildTypeOK
<1>1. pc[p] = "loop" /\ ~Sending(p) /\ ~Holds(p, p)
  BY DEF BeginRequest, RequestInv, OwnRequest, Requesting
<1>2. /\ lamport_time' = [lamport_time EXCEPT ![p] = @ + 1]
      /\ queue' = [queue EXCEPT ![p][p] = lamport_time[p] + 1]
      /\ Post(p, Children \ {p}, m) /\ pipes' = pipes
      /\ UNCHANGED <<from, i, awaiting_children, last_request_reply_count>>
      /\ Goto(p, "request")
  BY <1>1 DEF BeginRequest, Holds, ipc_multicast_to_children
<1>3. /\ lamport_time'[p] = lamport_time[p] + 1 /\ queue'[p][p] = lamport_time[p] + 1
      /\ \A c \in Children \ {p} : lamport_time'[c] = lamport_time[c] /\ queue'[c] = queue[c] /\ queue'[p][c] = queue[p][c]
      /\ pc'[p] = "request" /\ \A c \in Procs \ {p} : pc'[c] = pc[c] /\ outbox'[c] = outbox[c]
      /\ m \in Message /\ m.type = "CS_REQUEST" /\ m.time = lamport_time[p] + 1
  BY <1>0, <1>2 DEF Goto, Post, IpcTypeOK, Message, MessageType
<1> HIDE DEF m
<1>4. \A a, b \in Procs : Link(a, b)' = IF a = p /\ b \in Children \ {p} THEN Append(Link(a, b), m) ELSE Link(a, b)
  BY <1>0, <1>1, <1>2, <1>3, LinkPost
<1>5. \A a, b \in Procs : Link(a, b) \in Seq(Message)
  BY <1>0, LinkType
<1>6. SkeletonInv'
  <2>1. \A a, b \in Children : a # b => /\ SamePhase(Link(a, b), Link(a, b)')
                                        /\ pc[a] = "start" /\ Link(a, b) = <<>> => Link(a, b)' = <<>>
    <3>1. m.type \in Talk /\ m \in Message
      BY <1>3 DEF Talk
    <3>2. ASSUME NEW s \in Seq(Message) PROVE SamePhase(s, s) /\ SamePhase(s, Append(s, m))
      BY <3>1, TalkPhase
    <3>3. \A a, b \in Children : a # b =>
            /\ Link(a, b)' = Link(a, b) \/ Link(a, b)' = Append(Link(a, b), m)
            /\ pc[a] = "start" => Link(a, b)' = Link(a, b)
      BY <1>1, <1>4
    <3>4. \A a, b \in Children : a # b => SamePhase(Link(a, b), Link(a, b)')
      BY <1>5, <3>2, <3>3
    <3> QED
      BY <3>3, <3>4
  <2>2. \A a \in Procs : Link(PARENT_ID, a)' = Link(PARENT_ID, a) /\ Link(a, PARENT_ID)' = Link(a, PARENT_ID)
    BY <1>4
  <2> QED
    BY <1>1, <1>2, <1>3, <2>1, <2>2, TalkStep DEF TypeInv
<1>7. ASSUME NEW c \in Children \ {p}
      PROVE  /\ Dialogue(c, p)' /\ Owes(c, p)' /\ Dialogue(p, c)' /\ (Owes(p, c)' <=> Owes(p, c))
  <2>1. /\ Dialogue(c, p) /\ Dialogue(p, c) /\ OwnRequest(p) /\ OwnRequest(c)
        /\ lamport_time[p] \in Nat /\ queue[p][p] \in Nat /\ queue[c][c] \in Nat
    BY <1>0 DEF RequestInv
  <2>2. /\ Link(p, c)' = Append(Link(p, c), m) /\ Link(c, p)' = Link(c, p)
        /\ Link(p, c) \in Seq(Message)
    BY <1>4, <1>5
  <2>3. ~Carries(p, c, "CS_REQUEST") /\ ~Holds(c, p) /\ ~Carries(c, p, "CS_REPLY") /\ ~Holds(p, c)
    BY <1>1, <2>1 DEF Dialogue, Owes, Holds, Requesting
  <2>4. /\ AtMostOne(Link(p, c)', "CS_REQUEST") /\ RequestsCarry(Link(p, c)', lamport_time[p] + 1)
        /\ Contains(Link(p, c)', "CS_REQUEST")
        /\ Contains(Link(p, c)', "CS_RELEASE") <=> Contains(Link(p, c), "CS_RELEASE")
        /\ SameOf(Link(p, c), Link(p, c)', "CS_REPLY")
    <3> DEFINE s == Link(p, c)
    <3>1. s \in Seq(Message) /\ m \in Message /\ ~Contains(s, "CS_REQUEST") /\ m.type = "CS_REQUEST"
      BY <1>3, <2>2, <2>3 DEF Carries
    <3> HIDE DEF s
    <3>2. AtMostOne(Append(s, m), "CS_REQUEST") /\ RequestsCarry(Append(s, m), m.time)
      BY <3>1, OnlyOne
    <3>3. /\ Contains(Append(s, m), "CS_REQUEST")
          /\ Contains(Append(s, m), "CS_RELEASE") <=> Contains(s, "CS_RELEASE")
      BY <3>1, ContainsAppend
    <3>4. SameOf(s, Append(s, m), "CS_REPLY")
      BY <3>1, SameOfOther
    <3> QED
      BY <1>3, <2>2, <3>2, <3>3, <3>4 DEF s
  <2>5. Dialogue(c, p)' /\ Owes(c, p)'
    BY <1>3, <2>1, <2>2, <2>3, <2>4 DEF Dialogue, Owes, Carries, Holds
  <2>6. Requesting(c) /\ ~Carries(c, p, "CS_REQUEST") => Before(queue[c][c], c, lamport_time[p] + 1, p)
    BY <2>1 DEF Dialogue, Before
  <2>7. queue[c][c] <= lamport_time[p] => queue[c][c] <= lamport_time[p] + 1
    BY <2>1
  <2>8. (Owes(p, c)' <=> Owes(p, c)) /\ ~Holds(p, c)' /\ (Requesting(c)' <=> Requesting(c))
    <3>1. Carries(c, p, "CS_REQUEST")' <=> Carries(c, p, "CS_REQUEST")
      BY <2>2 DEF Carries
    <3>2. Carries(p, c, "CS_REPLY")' <=> Carries(p, c, "CS_REPLY")
      BY <2>4 DEF Carries, SameOf
    <3>3. (Holds(p, c)' <=> Holds(p, c)) /\ pc'[c] = pc[c]
      BY <1>3 DEF Holds, queue_contains
    <3> QED
      BY <2>3, <3>1, <3>2, <3>3 DEF Owes, Holds, Requesting
  <2>9. Dialogue(p, c)'
    BY <1>3, <2>1, <2>2, <2>3, <2>4, <2>6, <2>7, <2>8 DEF Dialogue, Carries, SameOf
  <2> QED
    BY <2>5, <2>8, <2>9
<1>8. OwnRequest(p)'
  BY <1>0, <1>3 DEF OwnRequest, Holds, Requesting, queue_contains, EMPTY_REQUEST_TIME
<1>9. Counted(p)'
  <2>1. Debtors(p)' = Children \ {p}
    BY <1>7 DEF Debtors
  <2>2. Cardinality(Children \ {p}) = N - 1
    BY ChildrenFinite, FS_RemoveElement
  <2>3. last_request_reply_count'[p] = 0
    BY <1>1, <1>2 DEF RequestInv, OwnRequest
  <2> QED
    BY <2>1, <2>2, <2>3, NAssumption DEF Counted
<1>10. RequestInv'
  <2>1. \A a, b \in Children \ {p} : Link(a, b)' = Link(a, b)
    BY <1>4
  <2>2. \A c \in Children : lamport_time[c] <= lamport_time'[c]
    BY <1>0, <1>2
  <2> QED
    BY <1>2, <1>3, <1>7, <1>8, <1>9, <2>1, <2>2, StepOf
<1> QED
  BY <1>6, <1>10

\* The step of a child that takes a CS_REQUEST and answers it at once: the request of the
\* other child is the earlier one.
LEMMA AnswerRequests ==
  ASSUME TypeInv, TypeInv', SkeletonInv, RequestInv, NEW p \in Children, NEW f \in Procs \ {p},
         NEW label \in {"request", "drain"}, Take(p, f, label, {"CS_REQUEST"}),
         NEW t, t = Oldest(p, f).time, Reply(p, f, t),
         Requesting(p) => Before(t, f, queue[p][p], p),
         \A c \in Procs \ {p} : pc'[c] = pc[c], awaiting_children' = awaiting_children,
         \A c \in Children \ {p} : last_request_reply_count'[c] = last_request_reply_count[c],
         \/ pc[p] = "drain" /\ pc'[p] = "drain" /\ last_request_reply_count'[p] = last_request_reply_count[p]
         \/ ReturnIfReplied(p, last_request_reply_count[p])
  PROVE  SkeletonInv' /\ RequestInv'
<1> USE ProcsFacts
<1> DEFINE m == [type |-> "CS_REPLY", time |-> Synchronized(lamport_time[p], t) + 1]
<1>0. /\ IpcTypeOK /\ pc \in [Procs -> Label] /\ lamport_time \in [Procs -> Nat] /\ p \in Procs
      /\ queue \in [Children -> [Children -> Nat]] /\ last_request_reply_count \in [Children -> Nat]
      /\ \A c \in Children : lamport_time'[c] \in Nat
  BY DEF TypeInv, TypeOK, ChildTypeOK
<1>1. /\ f \in Children /\ Link(f, p) \in Seq(Message) /\ Link(f, p) # <<>>
      /\ Oldest(p, f) = Head(Link(f, p)) /\ Oldest(p, f) \in Message
      /\ Head(Link(f, p)).type = "CS_REQUEST"
  BY TakeFrom DEF TypeInv
<1>2. /\ pc[p] = label /\ ~Sending(p) /\ receive(p, f) /\ send(p, f, m) /\ queue' = queue
      /\ from' = from /\ i' = i
  BY DEF Take, Reply
<1>3. /\ t \in Nat /\ m \in Message /\ m.type = "CS_REPLY"
      /\ lamport_time'[p] > t /\ lamport_time'[p] > lamport_time[p] /\ lamport_time'[p] \in Nat
      /\ \A c \in Procs \ {p} : lamport_time'[c] = lamport_time[c]
  <2>1. t \in Nat
    BY <1>1 DEF Message
  <2>2. /\ Synchronized(lamport_time[p], t) \in Nat
        /\ Synchronized(lamport_time[p], t) > t /\ Synchronized(lamport_time[p], t) > lamport_time[p]
    BY <1>0, <2>1, SynchronizedType
  <2> QED
    BY <1>0, <2>1, <2>2 DEF Reply, Message, MessageType
<1> HIDE DEF m
<1>4. \A a, b \in Procs :
        Link(a, b)' = IF a = f /\ b = p THEN Tail(Link(a, b))
                      ELSE IF a = p /\ b = f THEN Append(Link(a, b), m)
                      ELSE Link(a, b)
  BY <1>0, <1>2, <1>3, LinkReceiveSend
<1>5. \A a, b \in Procs : Link(a, b) \in Seq(Message)
  BY <1>0, LinkType
<1>6. /\ outbox'[p][f] = m /\ \A c \in Procs \ {p} : outbox'[c] = outbox[c]
      /\ \A d \in Procs : outbox'[p][d] = NoMessage \/ outbox'[p][d].type = "CS_REPLY"
  BY <1>0, <1>1, <1>2, <1>3 DEF send, Post, IpcTypeOK
<1>7. /\ pc'[p] \in {"request", "cs", "drain"}
      /\ pc[p] = "drain" <=> pc'[p] = "drain"
      /\ Requesting(p)' <=> Requesting(p)
      /\ pc[p] = "request" => ReturnIfReplied(p, last_request_reply_count[p])
  <2>1. CASE pc[p] = "drain" /\ pc'[p] = "drain"
    BY <2>1 DEF Requesting
  <2>2. CASE ReturnIfReplied(p, last_request_reply_count[p]) /\ ~(pc[p] = "drain" /\ pc'[p] = "drain")
    <3>1. pc'[p] = pc[p] \/ pc'[p] = "cs"
      BY <1>0, <2>2 DEF ReturnIfReplied, Goto
    <3>2. pc[p] = "drain" => FALSE
      <4>1. pc[p] = "drain" => last_request_reply_count[p] = 0
        BY DEF RequestInv, OwnRequest
      <4>2. p \in 1..N /\ f \in 1..N /\ p # f
        BY <1>1 DEF Children
      <4>3. N - 1 # 0
        BY <4>2, NAssumption
      <4> QED
        BY <1>0, <2>2, <4>1, <4>3 DEF ReturnIfReplied
    <3> QED
      BY <1>2, <2>2, <3>1, <3>2 DEF Requesting
  <2> QED
    BY <2>1, <2>2
<1>8. /\ pc[p] = "request" /\ Debtors(p) # {} => pc'[p] = "request" /\ last_request_reply_count'[p] = last_request_reply_count[p]
      /\ pc'[p] = "request" => pc[p] = "request" /\ last_request_reply_count'[p] = last_request_reply_count[p]
      /\ pc'[p] # "request" => last_request_reply_count'[p] = 0
  <2>1. CASE pc[p] = "request"
    <3>1. last_request_reply_count[p] + Cardinality(Debtors(p)) = N - 1
      BY <2>1 DEF RequestInv, Counted
    <3>2. Debtors(p) # {} => Cardinality(Debtors(p)) # 0
      BY ChildrenFinite, FS_EmptySet DEF Debtors
    <3>3. Cardinality(Debtors(p)) \in Nat
      BY ChildrenFinite DEF Debtors
    <3> DEFINE k == Cardinality(Debtors(p))  n == last_request_reply_count[p]
    <3>4. Debtors(p) # {} => n # N - 1
      <4>1. k \in Nat /\ n \in Nat /\ n + k = N - 1 /\ (Debtors(p) # {} => k # 0)
        BY <1>0, <3>1, <3>2, <3>3
      <4> HIDE DEF k, n
      <4> QED
        BY <4>1, NAssumption
    <3> QED
      BY <1>0, <1>7, <2>1, <3>4 DEF ReturnIfReplied, Goto
  <2>2. CASE pc[p] = "drain"
    <3>1. last_request_reply_count[p] = 0 /\ pc'[p] = "drain"
      BY <1>7, <2>2 DEF RequestInv, OwnRequest
    <3>2. ReturnIfReplied(p, last_request_reply_count[p]) => last_request_reply_count'[p] \in {0, last_request_reply_count[p]}
      BY <1>0 DEF ReturnIfReplied
    <3> QED
      BY <2>2, <3>1, <3>2
  <2> QED
    BY <1>2, <2>1, <2>2
<1>9. SkeletonInv'
  <2>1. m.type \in Talk
    BY <1>3 DEF Talk
  <2>2. \A a, b \in Children : a # b =>
          \/ Link(a, b)' = Link(a, b)
          \/ Link(a, b) # <<>> /\ Head(Link(a, b)).type \in Talk /\ Link(a, b)' = Tail(Link(a, b))
          \/ a = p /\ Link(a, b)' = Append(Link(a, b), m)
    BY <1>1, <1>4 DEF Talk
  <2>3. \A a, b \in Children : a # b => SamePhase(Link(a, b), Link(a, b)')
    <3>1. ASSUME NEW s \in Seq(Message)
          PROVE  /\ SamePhase(s, s) /\ SamePhase(s, Append(s, m))
                 /\ s # <<>> /\ Head(s).type \in Talk => SamePhase(s, Tail(s))
      BY <1>3, <2>1, TalkPhase
    <3>2. ASSUME NEW a \in Children, NEW b \in Children, a # b PROVE SamePhase(Link(a, b), Link(a, b)')
      <4>1. Link(a, b) \in Seq(Message)
        BY <1>5
      <4> QED
        BY <2>2, <3>1, <3>2, <4>1
    <3> QED
      BY <3>2
  <2>4. \A a, b \in Children : a # b /\ pc[a] = "start" /\ Link(a, b) = <<>> => Link(a, b)' = <<>>
    BY <1>2, <2>2
  <2>5. \A a \in Procs : Link(PARENT_ID, a)' = Link(PARENT_ID, a) /\ Link(a, PARENT_ID)' = Link(a, PARENT_ID)
    BY <1>1, <1>4
  <2> QED
    BY <1>0, <1>2, <1>6, <1>7, <2>3, <2>4, <2>5, TalkStep DEF TypeInv
<1>10. ASSUME NEW c \in Children \ {p, f}
       PROVE  /\ Dialogue(c, p)' /\ (Owes(c, p)' <=> Owes(c, p))
              /\ Dialogue(p, c)' /\ (Owes(p, c)' <=> Owes(p, c))
  <2>1. Dialogue(c, p) /\ Dialogue(p, c)
    BY DEF RequestInv
  <2>2. Link(c, p)' = Link(c, p) /\ Link(p, c)' = Link(p, c)
    BY <1>4
  <2>3. \A x : SameOf(Link(c, p), Link(c, p)', x) /\ SameOf(Link(p, c), Link(p, c)', x)
    BY <2>2 DEF SameOf
  <2>4. /\ Owes(c, p) /\ pc[p] = "request" => pc'[p] = "request"
        /\ pc'[c] = pc[c] /\ queue'[c] = queue[c] /\ queue'[p] = queue[p]
        /\ lamport_time[c] <= lamport_time'[c] /\ lamport_time[p] <= lamport_time'[p]
    BY <1>0, <1>2, <1>3, <1>8 DEF Debtors
  <2>5. Dialogue(c, p)' /\ (Owes(c, p)' <=> Owes(c, p))
    BY <1>0, <1>7, <2>1, <2>2, <2>3, <2>4, DialogueKept DEF Requesting
  <2>6. Dialogue(p, c)' /\ (Owes(p, c)' <=> Owes(p, c))
    BY <1>0, <1>7, <2>1, <2>2, <2>3, <2>4, DialogueKept DEF Requesting
  <2> QED
    BY <2>5, <2>6
<1>11. Dialogue(f, p)' /\ (Owes(f, p)' <=> Owes(f, p))
  <2>1. Dialogue(f, p)
    BY <1>1 DEF RequestInv
  <2>2. Link(f, p)' = Tail(Link(f, p)) /\ Link(p, f)' = Append(Link(p, f), m) /\ Link(p, f) \in Seq(Message)
    BY <1>1, <1>4, <1>5
  <2>3. SameOf(Link(p, f), Link(p, f)', "CS_REQUEST") /\ SameOf(Link(f, p), Link(f, p)', "CS_REPLY")
    BY <1>1, <1>3, <2>2, SameOfOther
  <2>4. Contains(Link(p, f)', "CS_RELEASE") => Contains(Link(p, f), "CS_RELEASE")
    BY <1>3, <2>2, ContainsAppend
  <2>5. /\ Owes(f, p) /\ pc[p] = "request" => pc'[p] = "request"
        /\ pc'[f] = pc[f] /\ queue'[f] = queue[f] /\ queue'[p] = queue[p]
        /\ lamport_time[f] <= lamport_time'[f]
    BY <1>0, <1>1, <1>2, <1>3, <1>8 DEF Debtors
  <2> QED
    BY <1>0, <1>1, <1>7, <2>1, <2>3, <2>4, <2>5, DialogueKept DEF Requesting
<1>12. Dialogue(p, f)' /\ Owes(p, f)' /\ Owes(p, f)
  <2> DEFINE s == Link(f, p)  r == Link(p, f)
  <2>1. /\ Dialogue(p, f) /\ Contains(s, "CS_REQUEST") /\ t = queue[f][f]
    <3>1. Dialogue(p, f)
      BY <1>1 DEF RequestInv
    <3>2. Contains(s, "CS_REQUEST")
      BY <1>1, ContainsTail
    <3>3. Head(s).time = queue[f][f]
      BY <1>1, <3>1, OnlyOne DEF Dialogue
    <3> QED
      BY <1>1, <3>1, <3>2, <3>3
  <2>2. Link(f, p)' = Tail(s) /\ Link(p, f)' = Append(r, m) /\ r \in Seq(Message) /\ s \in Seq(Message) /\ s # <<>>
    BY <1>1, <1>4, <1>5
  <2>3. ~Holds(p, f) /\ ~Contains(r, "CS_REPLY") /\ Owes(p, f) /\ pc[f] = "request"
    BY <2>1 DEF Dialogue, Owes, Carries
  <2>4. /\ ~Contains(Tail(s), "CS_REQUEST") /\ AtMostOne(Tail(s), "CS_REQUEST")
        /\ RequestsCarry(Tail(s), queue[f][f])
        /\ Contains(Tail(s), "CS_RELEASE") => Contains(s, "CS_RELEASE")
    <3>1. Tail(s) \in Seq(Message)
      BY <2>2
    <3> QED
      BY <1>1, <2>1, <2>2, <3>1, OnlyOne, ContainsTail DEF Dialogue
  <2>5. Contains(Append(r, m), "CS_REPLY") /\ AtMostOne(Append(r, m), "CS_REPLY")
    BY <1>3, <2>2, <2>3, OnlyOne, ContainsAppend
  <2>6. /\ queue'[p] = queue[p] /\ queue'[f] = queue[f] /\ pc'[f] = "request"
        /\ queue[f][f] <= lamport_time'[p]
    BY <1>0, <1>1, <1>2, <1>3, <2>1, <2>3
  <2>7. Owes(p, f)' /\ ~Holds(p, f)'
    BY <2>2, <2>3, <2>5, <2>6 DEF Owes, Carries, Holds
  <2> HIDE DEF s, r
  <2>8. ~Contains(s, "CS_RELEASE")
    BY <2>1 DEF Dialogue, Carries, s
  <2> QED
    BY <1>7, <2>1, <2>2, <2>3, <2>4, <2>5, <2>6, <2>7, <2>8 DEF Dialogue, Carries
<1>13. OwnRequest(p)'
  <2>1. OwnRequest(p) /\ queue[p][p] \in Nat /\ lamport_time[p] \in Nat
    BY <1>0 DEF RequestInv
  <2> QED
    BY <1>2, <1>3, <1>7, <1>8, <2>1 DEF OwnRequest, Holds
<1>14. Counted(p)'
  <2>1. Debtors(p)' = Debtors(p)
    BY <1>10, <1>11 DEF Debtors
  <2> QED
    BY <1>8, <2>1 DEF RequestInv, Counted
<1>15. RequestInv'
  <2>1. \A a, b \in Children \ {p} : Link(a, b)' = Link(a, b)
    BY <1>4
  <2>2. \A c \in Children : lamport_time[c] <= lamport_time'[c]
    BY <1>0, <1>3
  <2>3. \A c \in Children \ {p} : Dialogue(p, c)' /\ Dialogue(c, p)' /\ (Owes(p, c)' <=> Owes(p, c))
    BY <1>10, <1>11, <1>12
  <2> QED
    BY <1>2, <1>13, <1>14, <2>1, <2>2, <2>3, StepOf
<1> QED
  BY <1>9, <1>15

\* The loop of request_cs() ends when the children of S that still owe a reply are none.
LEMMA ReturnRequests ==
  ASSUME TypeInv, NEW p \in Children, pc[p] = "request",
         NEW S \in SUBSET Children, NEW n \in Nat, n + Cardinality(S) = N - 1, ReturnIfReplied(p, n)
  PROVE  /\ pc'[p] \in {"request", "cs"} /\ (S # {} => pc'[p] = "request")
         /\ pc'[p] = "request" => last_request_reply_count'[p] = n
         /\ pc'[p] # "request" => last_request_reply_count'[p] = 0
         /\ \A c \in Procs \ {p} : pc'[c] = pc[c]
         /\ \A c \in Children \ {p} : last_request_reply_count'[c] = last_request_reply_count[c]
<1>1. pc \in [Procs -> Label] /\ last_request_reply_count \in [Children -> Nat] /\ p \in Procs
  BY ProcsFacts DEF TypeInv, TypeOK, ChildTypeOK
<1>2. S # {} => n # N - 1
  <2> DEFINE k == Cardinality(S)
  <2>1. k \in Nat /\ (S # {} => k # 0) /\ n + k = N - 1
    BY ChildrenFinite, FS_EmptySet
  <2> HIDE DEF k
  <2> QED
    BY <2>1, NAssumption
<1> QED
  BY <1>1, <1>2 DEF ReturnIfReplied, Goto

\* The step of a child that keeps a CS_REQUEST: its own request is the earlier one.
LEMMA DeferRequests ==
  ASSUME TypeInv, TypeInv', SkeletonInv, RequestInv, NEW p \in Children, NEW f \in Procs \ {p},
         Take(p, f, "request", {"CS_REQUEST"}),
         NEW t, t = Oldest(p, f).time, Defer(p, f, t),
         Before(queue[p][p], p, t, f), awaiting_children' = awaiting_children,
         ReturnIfReplied(p, last_request_reply_count[p])
  PROVE  SkeletonInv' /\ RequestInv'
<1> USE ProcsFacts
<1>0. /\ IpcTypeOK /\ pc \in [Procs -> Label] /\ lamport_time \in [Procs -> Nat] /\ p \in Procs
      /\ queue \in [Children -> [Children -> Nat]] /\ last_request_reply_count \in [Children -> Nat]
      /\ \A c \in Children : lamport_time'[c] \in Nat
  BY DEF TypeInv, TypeOK, ChildTypeOK
<1>1. /\ f \in Children /\ Link(f, p) \in Seq(Message) /\ Link(f, p) # <<>>
      /\ Oldest(p, f) = Head(Link(f, p)) /\ Oldest(p, f) \in Message
      /\ Head(Link(f, p)).type = "CS_REQUEST"
  BY TakeFrom DEF TypeInv
<1>2. /\ pc[p] = "request" /\ ~Sending(p) /\ receive(p, f) /\ outbox' = outbox
      /\ from' = from /\ i' = i
  BY DEF Take, Defer
<1>3. /\ t \in Nat /\ lamport_time'[p] > t /\ lamport_time'[p] > lamport_time[p] /\ lamport_time'[p] \in Nat
      /\ \A c \in Procs \ {p} : lamport_time'[c] = lamport_time[c]
  <2>1. t \in Nat
    BY <1>1 DEF Message
  <2>2. /\ Synchronized(lamport_time[p], t) \in Nat
        /\ Synchronized(lamport_time[p], t) > t /\ Synchronized(lamport_time[p], t) > lamport_time[p]
    BY <1>0, <2>1, SynchronizedType
  <2> QED
    BY <1>0, <2>1, <2>2 DEF Defer
<1>4. \A a, b \in Procs : Link(a, b)' = IF a = f /\ b = p THEN Tail(Link(a, b)) ELSE Link(a, b)
  BY <1>2, TakeFrom DEF TypeInv
<1>5. \A a, b \in Procs : Link(a, b) \in Seq(Message)
  BY <1>0, LinkType
<1>6. /\ queue'[p][f] = t /\ \A c \in Children \ {f} : queue'[p][c] = queue[p][c]
      /\ \A c \in Children \ {p} : queue'[c] = queue[c]
  BY <1>0, <1>1 DEF Defer
<1>8. /\ queue'[p][p] = queue[p][p] /\ queue[p][p] \in Nat /\ lamport_time[p] \in Nat
      /\ \A c \in Children : lamport_time[c] \in Nat /\ lamport_time[c] <= lamport_time'[c] /\ queue[c][c] \in Nat
      /\ \A c \in Children \ {p} : pc'[c] = pc[c]
  <2>1. p \in Children \ {f} /\ Children \subseteq Procs
    BY <1>1
  <2>2. \A c \in Children : lamport_time[c] \in Nat /\ queue[c][c] \in Nat
    BY <1>0
  <2>3. \A c \in Children : lamport_time[c] <= lamport_time'[c]
    BY <1>0, <1>3, <2>2
  <2>4. ReturnIfReplied(p, last_request_reply_count[p])
    OBVIOUS
  <2>5. \A c \in Children \ {p} : pc'[c] = pc[c]
    BY <1>0, <2>4 DEF ReturnIfReplied, Goto
  <2> QED
    BY <1>6, <2>1, <2>2, <2>3, <2>5
<1>7. /\ pc'[p] \in {"request", "cs"} /\ (Debtors(p) # {} => pc'[p] = "request")
      /\ pc'[p] = "request" => last_request_reply_count'[p] = last_request_reply_count[p]
      /\ pc'[p] # "request" => last_request_reply_count'[p] = 0
      /\ \A c \in Procs \ {p} : pc'[c] = pc[c]
      /\ \A c \in Children \ {p} : last_request_reply_count'[c] = last_request_reply_count[c]
      /\ Requesting(p)' <=> Requesting(p)
  <2>1. last_request_reply_count[p] + Cardinality(Debtors(p)) = N - 1 /\ last_request_reply_count[p] \in Nat
    BY <1>0, <1>2 DEF RequestInv, Counted
  <2>2. Debtors(p) \in SUBSET Children
    BY DEF Debtors
  <2>3. /\ pc'[p] \in {"request", "cs"} /\ (Debtors(p) # {} => pc'[p] = "request")
        /\ pc'[p] = "request" => last_request_reply_count'[p] = last_request_reply_count[p]
        /\ pc'[p] # "request" => last_request_reply_count'[p] = 0
        /\ \A c \in Procs \ {p} : pc'[c] = pc[c]
        /\ \A c \in Children \ {p} : last_request_reply_count'[c] = last_request_reply_count[c]
    BY <1>2, <2>1, <2>2, ReturnRequests
  <2> QED
    BY <1>2, <2>3 DEF Requesting
<1>9. SkeletonInv'
  <2>2. \A a, b \in Children : a # b =>
          \/ Link(a, b)' = Link(a, b)
          \/ Link(a, b) # <<>> /\ Head(Link(a, b)).type \in Talk /\ Link(a, b)' = Tail(Link(a, b))
    BY <1>1, <1>4 DEF Talk
  <2>3. ASSUME NEW a \in Children, NEW b \in Children, a # b PROVE SamePhase(Link(a, b), Link(a, b)')
    <3>1. Link(a, b) \in Seq(Message)
      BY <1>5
    <3> QED
      BY <2>2, <2>3, <3>1, TalkPhase
  <2>4. \A a, b \in Children : a # b /\ pc[a] = "start" /\ Link(a, b) = <<>> => Link(a, b)' = <<>>
    BY <1>2, <2>2
  <2>5. \A a \in Procs : Link(PARENT_ID, a)' = Link(PARENT_ID, a) /\ Link(a, PARENT_ID)' = Link(a, PARENT_ID)
    BY <1>1, <1>4
  <2> QED
    BY <1>0, <1>2, <1>7, <2>3, <2>4, <2>5, TalkStep DEF TypeInv
<1>10. ASSUME NEW c \in Children \ {p}
       PROVE  Dialogue(c, p)' /\ (Owes(c, p)' <=> Owes(c, p))
  <2>1. Dialogue(c, p)
    BY DEF RequestInv
  <2>2. SameOf(Link(p, c), Link(p, c)', "CS_REQUEST") /\ (Contains(Link(p, c)', "CS_RELEASE") => Contains(Link(p, c), "CS_RELEASE"))
    <3>1. Link(p, c)' = Link(p, c)
      BY <1>4
    <3> QED
      BY <3>1 DEF SameOf
  <2>3. SameOf(Link(c, p), Link(c, p)', "CS_REPLY")
    BY <1>1, <1>4, <1>5, SameOfOther
  <2>4. /\ Owes(c, p) /\ pc[p] = "request" => pc'[p] = "request"
        /\ pc'[c] = pc[c] /\ queue'[c] = queue[c] /\ queue'[p][p] = queue[p][p]
        /\ lamport_time[c] <= lamport_time'[c]
    BY <1>6, <1>7, <1>8 DEF Debtors
  <2>5. Owes(c, p)' <=> Owes(c, p)
    BY <2>2, <2>3, <2>4 DEF Owes, Carries, SameOf
  <2>6. queue[p][p] <= lamport_time[c] => queue[p][p] <= lamport_time'[c]
    BY <1>0, <2>4
  <2> QED
    BY <1>7, <2>1, <2>2, <2>3, <2>4, <2>5, <2>6 DEF Dialogue, SameOf, Carries, Holds, Requesting
<1>11. ASSUME NEW c \in Children \ {p, f} PROVE Dialogue(p, c)' /\ (Owes(p, c)' <=> Owes(p, c))
  <2>1. Dialogue(p, c)
    BY DEF RequestInv
  <2>2. Link(c, p)' = Link(c, p) /\ Link(p, c)' = Link(p, c)
    BY <1>4
  <2>5. queue[c][c] \in Nat /\ lamport_time[p] <= lamport_time'[p] /\ lamport_time'[p] \in Nat
    BY <1>3, <1>8
  <2>6. queue[c][c] <= lamport_time[p] => queue[c][c] <= lamport_time'[p]
    BY <1>8, <2>5
  <2>3. /\ pc'[c] = pc[c] /\ queue'[c] = queue[c] /\ queue'[p][p] = queue[p][p] /\ queue'[p][c] = queue[p][c]
        /\ queue[c][c] <= lamport_time[p] => queue[c][c] <= lamport_time'[p]
    BY <1>6, <1>8, <2>6
  <2>4. Owes(p, c)' <=> Owes(p, c)
    BY <2>2, <2>3 DEF Owes, Carries, queue_contains
  <2> QED
    BY <1>7, <2>1, <2>2, <2>3, <2>4 DEF Dialogue, Carries, Holds, queue_contains, Requesting
<1>12. Dialogue(p, f)' /\ Owes(p, f)' /\ Owes(p, f)
  <2> DEFINE s == Link(f, p)  r == Link(p, f)
  <2>1. /\ Dialogue(p, f) /\ Contains(s, "CS_REQUEST") /\ t = queue[f][f]
    <3>1. Dialogue(p, f)
      BY <1>1 DEF RequestInv
    <3>2. Contains(s, "CS_REQUEST")
      BY <1>1, ContainsTail
    <3>3. Head(s).time = queue[f][f]
      BY <1>1, <3>1, OnlyOne DEF Dialogue
    <3> QED
      BY <1>1, <3>1, <3>2, <3>3
  <2>2. Link(f, p)' = Tail(s) /\ Link(p, f)' = r /\ s \in Seq(Message) /\ s # <<>>
    BY <1>1, <1>4, <1>5
  <2>3. ~Contains(r, "CS_REPLY") /\ Owes(p, f) /\ pc[f] = "request"
    BY <2>1 DEF Dialogue, Owes, Carries
  <2>4. /\ ~Contains(Tail(s), "CS_REQUEST") /\ AtMostOne(Tail(s), "CS_REQUEST")
        /\ RequestsCarry(Tail(s), queue[f][f])
        /\ Contains(Tail(s), "CS_RELEASE") => Contains(s, "CS_RELEASE")
    <3>1. Tail(s) \in Seq(Message)
      BY <2>2
    <3> QED
      BY <1>1, <2>1, <2>2, <3>1, OnlyOne, ContainsTail DEF Dialogue
  <2>6. /\ queue'[p][p] = queue[p][p] /\ queue'[p][f] = t /\ queue'[f] = queue[f] /\ pc'[f] = "request"
        /\ queue[f][f] <= lamport_time'[p]
    BY <1>0, <1>1, <1>3, <1>6, <1>7, <2>1, <2>3
  <2>7. queue_contains(queue[f], f)
    BY <1>1, <2>3 DEF RequestInv, OwnRequest, Holds, Requesting
  <2>8. Holds(p, f)' /\ Owes(p, f)' /\ Requesting(p)'
    BY <1>7, <2>1, <2>6, <2>7 DEF Owes, Holds, queue_contains, Requesting
  <2> HIDE DEF s, r
  <2>9. ~Contains(s, "CS_RELEASE") /\ AtMostOne(r, "CS_REPLY")
    BY <2>1 DEF Dialogue, Carries, s, r
  <2> QED
    BY <2>1, <2>2, <2>3, <2>4, <2>6, <2>8, <2>9 DEF Dialogue, Carries
<1>13. OwnRequest(p)'
  <2>1. OwnRequest(p)
    BY DEF RequestInv
  <2>2. queue[p][p] <= lamport_time[p] => queue'[p][p] <= lamport_time'[p]
    BY <1>3, <1>8
  <2> QED
    BY <1>2, <1>7, <1>8, <2>1, <2>2 DEF OwnRequest, Holds, queue_contains
<1>14. Counted(p)'
  <2>1. Debtors(p)' = Debtors(p)
    BY <1>10 DEF Debtors
  <2> QED
    BY <1>2, <1>7, <2>1 DEF RequestInv, Counted
<1>15. RequestInv'
  <2>1. \A a, b \in Children \ {p} : Link(a, b)' = Link(a, b)
    BY <1>4
  <2>2. \A c \in Children : lamport_time[c] <= lamport_time'[c]
    BY <1>0, <1>3
  <2>3. \A c \in Children \ {p} : Dialogue(p, c)' /\ Dialogue(c, p)' /\ (Owes(p, c)' <=> Owes(p, c))
    BY <1>10, <1>11, <1>12
  <2> QED
    BY <1>6, <1>7, <1>13, <1>14, <2>1, <2>2, <2>3, StepOf
<1> QED
  BY <1>9, <1>15

\* The step of a child that counts a CS_REPLY.
LEMMA ReplyRequests ==
  ASSUME TypeInv, TypeInv', SkeletonInv, RequestInv, NEW p \in Children, NEW f \in Procs \ {p},
         RequestTakesReply(p, f)
  PROVE  SkeletonInv' /\ RequestInv'
<1> USE ProcsFacts
<1> DEFINE t == Oldest(p, f).time
<1>0. /\ IpcTypeOK /\ pc \in [Procs -> Label] /\ lamport_time \in [Procs -> Nat] /\ p \in Procs
      /\ queue \in [Children -> [Children -> Nat]] /\ last_request_reply_count \in [Children -> Nat]
      /\ \A c \in Children : lamport_time'[c] \in Nat
  BY DEF TypeInv, TypeOK, ChildTypeOK
<1>1. /\ Take(p, f, "request", {"CS_REPLY"}) /\ ReturnIfReplied(p, last_request_reply_count[p] + 1)
      /\ lamport_time' = [lamport_time EXCEPT ![p] = Synchronized(@, t)]
      /\ UNCHANGED <<outbox, queue, awaiting_children>>
  BY DEF RequestTakesReply
<1>2. /\ pc[p] = "request" /\ ~Sending(p) /\ receive(p, f) /\ from' = from /\ i' = i
  BY <1>1 DEF Take
<1>3. /\ f \in Children /\ Link(f, p) \in Seq(Message) /\ Link(f, p) # <<>>
      /\ Oldest(p, f) = Head(Link(f, p)) /\ Oldest(p, f) \in Message
      /\ Head(Link(f, p)).type = "CS_REPLY"
  BY <1>1, TakeFrom DEF TypeInv
<1>4. \A a, b \in Procs : Link(a, b)' = IF a = f /\ b = p THEN Tail(Link(a, b)) ELSE Link(a, b)
  BY <1>1, TakeFrom DEF TypeInv
<1>5. \A a, b \in Procs : Link(a, b) \in Seq(Message)
  BY <1>0, LinkType
<1>6. \A c \in Children : lamport_time[c] \in Nat /\ lamport_time[c] <= lamport_time'[c] /\ queue[c][c] \in Nat
  <2>1. t \in Nat
    BY <1>3 DEF Message
  <2>2. Synchronized(lamport_time[p], t) \in Nat /\ Synchronized(lamport_time[p], t) > lamport_time[p]
    BY <1>0, <2>1, SynchronizedType
  <2> HIDE DEF t
  <2>3. \A c \in Children : lamport_time[c] \in Nat /\ queue[c][c] \in Nat
    BY <1>0
  <2> QED
    BY <1>0, <1>1, <2>2, <2>3
<1> HIDE DEF t
<1>7. /\ Carries(f, p, "CS_REPLY") /\ ~Carries(p, f, "CS_REQUEST") /\ ~Holds(f, p) /\ f \in Debtors(p)
      /\ Dialogue(f, p) /\ Dialogue(p, f)
  <2>1. Dialogue(f, p) /\ Dialogue(p, f)
    BY <1>3 DEF RequestInv
  <2>2. Carries(f, p, "CS_REPLY")
    BY <1>3, ContainsTail DEF Carries
  <2> QED
    BY <1>3, <2>1, <2>2 DEF Dialogue, Owes, Debtors
<1>8. /\ Debtors(p) \ {f} \in SUBSET Children
      /\ last_request_reply_count[p] + 1 \in Nat
      /\ last_request_reply_count[p] + 1 + Cardinality(Debtors(p) \ {f}) = N - 1
  <2>1. last_request_reply_count[p] + Cardinality(Debtors(p)) = N - 1
    BY <1>2 DEF RequestInv, Counted
  <2>2. Debtors(p) \in SUBSET Children
    BY DEF Debtors
  <2>3. Cardinality(Debtors(p) \ {f}) = Cardinality(Debtors(p)) - 1
    BY <1>7, <2>2, ChildrenFinite, FS_RemoveElement
  <2> DEFINE n == last_request_reply_count[p]  k == Cardinality(Debtors(p))
  <2>4. n \in Nat /\ k \in Nat /\ n + k = N - 1
    BY <1>0, <2>1, <2>2, ChildrenFinite
  <2>5. n + 1 \in Nat /\ n + 1 + (k - 1) = N - 1
    <3> HIDE DEF n, k
    <3> QED
      BY <2>4, NAssumption
  <2> QED
    BY <2>2, <2>3, <2>5
<1>9. /\ pc'[p] \in {"request", "cs"} /\ (Debtors(p) \ {f} # {} => pc'[p] = "request")
      /\ pc'[p] = "request" => last_request_reply_count'[p] = last_request_reply_count[p] + 1
      /\ pc'[p] # "request" => last_request_reply_count'[p] = 0
      /\ \A c \in Procs \ {p} : pc'[c] = pc[c]
      /\ \A c \in Children \ {p} : last_request_reply_count'[c] = last_request_reply_count[c]
      /\ Requesting(p)' <=> Requesting(p)
  <2> DEFINE S == Debtors(p) \ {f}  n == last_request_reply_count[p] + 1
  <2>1. S \in SUBSET Children /\ n \in Nat /\ n + Cardinality(S) = N - 1 /\ ReturnIfReplied(p, n)
    BY <1>1, <1>8
  <2> HIDE DEF S, n
  <2>2. /\ pc'[p] \in {"request", "cs"} /\ (S # {} => pc'[p] = "request")
        /\ pc'[p] = "request" => last_request_reply_count'[p] = n
        /\ pc'[p] # "request" => last_request_reply_count'[p] = 0
        /\ \A c \in Procs \ {p} : pc'[c] = pc[c]
        /\ \A c \in Children \ {p} : last_request_reply_count'[c] = last_request_reply_count[c]
    BY <1>2, <2>1, ReturnRequests
  <2> QED
    BY <1>2, <2>2 DEF Requesting, S, n
<1>10. SkeletonInv'
  <2>2. \A a, b \in Children : a # b =>
          \/ Link(a, b)' = Link(a, b)
          \/ Link(a, b) # <<>> /\ Head(Link(a, b)).type \in Talk /\ Link(a, b)' = Tail(Link(a, b))
    BY <1>3, <1>4 DEF Talk
  <2>3. ASSUME NEW a \in Children, NEW b \in Children, a # b PROVE SamePhase(Link(a, b), Link(a, b)')
    <3>1. Link(a, b) \in Seq(Message)
      BY <1>5
    <3> QED
      BY <2>2, <2>3, <3>1, TalkPhase
  <2>4. \A a, b \in Children : a # b /\ pc[a] = "start" /\ Link(a, b) = <<>> => Link(a, b)' = <<>>
    BY <1>2, <2>2
  <2>5. \A a \in Procs : Link(PARENT_ID, a)' = Link(PARENT_ID, a) /\ Link(a, PARENT_ID)' = Link(a, PARENT_ID)
    BY <1>3, <1>4
  <2> QED
    BY <1>0, <1>1, <1>2, <1>9, <2>3, <2>4, <2>5, TalkStep DEF TypeInv
<1>11. ASSUME NEW c \in Children \ {p} PROVE Dialogue(p, c)' /\ (Owes(p, c)' <=> Owes(p, c))
  <2>1. Dialogue(p, c)
    BY DEF RequestInv
  <2>2. Link(p, c)' = Link(p, c) /\ (c # f => Link(c, p)' = Link(c, p)) /\ (c = f => Link(c, p)' = Tail(Link(c, p)))
    BY <1>3, <1>4
  <2>3. /\ SameOf(Link(c, p), Link(c, p)', "CS_REQUEST") /\ SameOf(Link(p, c), Link(p, c)', "CS_REPLY")
        /\ Contains(Link(c, p)', "CS_RELEASE") => Contains(Link(c, p), "CS_RELEASE")
    <3>1. SameOf(Link(p, c), Link(p, c)', "CS_REPLY")
      BY <1>5, <2>2, SameOfOther
    <3>2. CASE c = f
      <4>1. SameOf(Link(c, p), Link(c, p)', "CS_REQUEST") /\ SameOf(Link(c, p), Link(c, p)', "CS_RELEASE")
        BY <1>3, <2>2, <3>2, SameOfOther
      <4> QED
        BY <3>1, <4>1 DEF SameOf
    <3>3. CASE c # f
      BY <1>5, <2>2, <3>1, <3>3, SameOfOther
    <3> QED
      BY <3>2, <3>3
  <2>4. /\ pc'[c] = pc[c] /\ queue'[c] = queue[c] /\ queue'[p] = queue[p]
        /\ lamport_time[p] <= lamport_time'[p] /\ lamport_time'[p] \in Nat
    BY <1>0, <1>1, <1>6, <1>9
  <2> QED
    BY <1>9, <2>1, <2>3, <2>4, DialogueKept DEF Requesting
<1>12. ASSUME NEW c \in Children \ {p, f} PROVE Dialogue(c, p)' /\ (Owes(c, p)' <=> Owes(c, p))
  <2>1. Dialogue(c, p)
    BY DEF RequestInv
  <2>2. Link(p, c)' = Link(p, c) /\ Link(c, p)' = Link(c, p)
    BY <1>4
  <2>3. /\ SameOf(Link(p, c), Link(p, c)', "CS_REQUEST") /\ SameOf(Link(c, p), Link(c, p)', "CS_REPLY")
    BY <1>5, <2>2, SameOfOther
  <2>4. /\ pc'[c] = pc[c] /\ queue'[c] = queue[c] /\ queue'[p] = queue[p]
        /\ lamport_time[c] <= lamport_time'[c] /\ lamport_time'[c] \in Nat
        /\ Owes(c, p) /\ pc[p] = "request" => pc'[p] = "request"
    BY <1>0, <1>1, <1>6, <1>9 DEF Debtors
  <2> QED
    BY <1>9, <2>1, <2>2, <2>3, <2>4, DialogueKept DEF Requesting
<1>13. Dialogue(f, p)' /\ ~Owes(f, p)'
  <2> DEFINE s == Link(f, p)  r == Link(p, f)
  <2>1. Link(f, p)' = Tail(s) /\ Link(p, f)' = r
    BY <1>3, <1>4
  <2>2. ~Contains(Tail(s), "CS_REPLY") /\ AtMostOne(Tail(s), "CS_REPLY")
    BY <1>3, <1>7, OnlyOne DEF Dialogue
  <2>3. /\ queue'[f] = queue[f] /\ queue'[p] = queue[p] /\ pc'[f] = pc[f]
        /\ queue[p][p] <= lamport_time[f] => queue[p][p] <= lamport_time'[f]
    <3>1. /\ queue[p][p] \in Nat /\ lamport_time[f] \in Nat /\ lamport_time'[f] \in Nat
          /\ lamport_time[f] <= lamport_time'[f]
      BY <1>0, <1>3, <1>6
    <3>2. queue[p][p] <= lamport_time[f] => queue[p][p] <= lamport_time'[f]
      BY <3>1
    <3> QED
      BY <1>1, <1>3, <1>9, <3>2
  <2>4. ~Owes(f, p)'
    BY <1>7, <2>1, <2>2, <2>3 DEF Owes, Carries, Holds
  <2> HIDE DEF s
  <2> QED
    BY <1>7, <1>9, <2>1, <2>2, <2>3, <2>4 DEF Dialogue, Carries, Holds, Requesting
<1>14. OwnRequest(p)'
  <2>1. OwnRequest(p)
    BY DEF RequestInv
  <2>2. queue[p][p] <= lamport_time[p] => queue'[p][p] <= lamport_time'[p]
    <3>1. /\ queue[p][p] \in Nat /\ lamport_time[p] \in Nat /\ lamport_time'[p] \in Nat
          /\ lamport_time[p] <= lamport_time'[p]
      BY <1>0, <1>6
    <3> QED
      BY <1>1, <3>1
  <2> QED
    BY <1>1, <1>2, <1>9, <2>1, <2>2 DEF OwnRequest, Holds
<1>15. Counted(p)'
  <2>1. Debtors(p)' = Debtors(p) \ {f}
    BY <1>12, <1>13 DEF Debtors
  <2> QED
    BY <1>8, <1>9, <2>1 DEF Counted
<1>16. \A a, b \in Children \ {p} : Link(a, b)' = Link(a, b)
  BY <1>4
<1>17. RequestInv'
  <2>1. \A c \in Children \ {p} : Dialogue(p, c)' /\ Dialogue(c, p)' /\ (Owes(p, c)' <=> Owes(p, c))
    BY <1>11, <1>12, <1>13
  <2>2. \A c \in Children : lamport_time[c] <= lamport_time'[c]
    BY <1>6
  <2> QED
    BY <1>1, <1>9, <1>14, <1>15, <1>16, <2>1, <2>2, StepOf
<1> QED
  BY <1>10, <1>17

\* release_cs(): the requests held back are answered, the own one is forgotten.
LEMMA ReleaseRequests ==
  ASSUME TypeInv, TypeInv', SkeletonInv, RequestInv, NEW p \in Children, Release(p)
  PROVE  SkeletonInv' /\ RequestInv'
<1> USE ProcsFacts
<1> DEFINE D == Deferred(p)
           m == [d \in D |-> [type |-> "CS_REPLY",
                              time |-> lamport_time[p] + Cardinality({c \in D : c <= d})]]
<1>0. /\ IpcTypeOK /\ pc \in [Procs -> Label] /\ lamport_time \in [Procs -> Nat] /\ p \in Procs
      /\ queue \in [Children -> [Children -> Nat]] /\ i \in [Children -> Nat]
      /\ \A c \in Children : lamport_time'[c] \in Nat /\ queue[c][c] \in Nat /\ lamport_time[c] \in Nat
  BY DEF TypeInv, TypeOK, ChildTypeOK
<1>1. pc[p] = "cs" /\ ~Sending(p) /\ Holds(p, p)
  BY DEF Release, InCS, RequestInv, OwnRequest, Requesting
<1>2. /\ queue' = [queue EXCEPT ![p] = [c \in Children |-> EMPTY_REQUEST_TIME]]
      /\ lamport_time' = [lamport_time EXCEPT ![p] = @ + Cardinality(D)]
      /\ PostEach(p, D, m) /\ Goto(p, "loop") /\ i' = [i EXCEPT ![p] = @ + 1]
      /\ UNCHANGED <<pipes, from, awaiting_children, last_request_reply_count>>
  BY <1>1 DEF Release, Holds
<1>3. /\ \A d \in D : m[d] \in Message /\ m[d].type = "CS_REPLY"
      /\ lamport_time'[p] >= lamport_time[p] /\ D \subseteq Children \ {p}
  BY <1>1, ReleaseType DEF Deferred, Holds
<1>d. \A c \in Children \ {p} : c \in D <=> Holds(p, c)
  BY DEF Deferred, Holds
<1> HIDE DEF m, D
<1>4. /\ \A a, b \in Procs : Link(a, b)' = IF a = p /\ b \in D THEN Append(Link(a, b), m[b]) ELSE Link(a, b)
      /\ \A c \in Procs \ {p} : outbox'[c] = outbox[c]
  <2>1. (\A d \in D : m[d] \in Message) /\ PostEach(p, D, m) /\ ~Sending(p) /\ pipes' = pipes
    BY <1>1, <1>2, <1>3
  <2>2. IpcTypeOK /\ p \in Procs
    BY <1>0
  <2> QED
    BY ONLY <2>1, <2>2, LinkPostEach
<1>5. \A a, b \in Procs : Link(a, b) \in Seq(Message)
  BY <1>0, LinkType
<1>6. /\ pc'[p] = "loop" /\ \A c \in Procs \ {p} : pc'[c] = pc[c]
      /\ \A c \in Children : queue'[p][c] = 0
      /\ \A c \in Children \ {p} : queue'[c] = queue[c] /\ i'[c] = i[c] /\ lamport_time'[c] = lamport_time[c]
  BY <1>0, <1>2 DEF Goto, EMPTY_REQUEST_TIME
<1>7. \A c \in Children : lamport_time[c] <= lamport_time'[c]
  BY <1>0, <1>3, <1>6
<1>8. SkeletonInv'
  <2>1. ASSUME NEW a \in Children, NEW b \in Children, a # b
        PROVE  /\ SamePhase(Link(a, b), Link(a, b)')
               /\ pc[a] = "start" /\ Link(a, b) = <<>> => Link(a, b)' = <<>>
    <3>1. Link(a, b) \in Seq(Message)
      BY <1>5
    <3>2. CASE a = p /\ b \in D
      <4>1. m[b] \in Message /\ m[b].type \in Talk /\ Link(a, b)' = Append(Link(a, b), m[b])
        BY <1>3, <1>4, <3>2 DEF Talk
      <4> QED
        BY <1>1, <3>1, <3>2, <4>1, TalkPhase
    <3>3. CASE ~(a = p /\ b \in D)
      BY <1>4, <3>1, <3>3, TalkPhase
    <3> QED
      BY <3>2, <3>3
  <2>2. PARENT_ID \notin D /\ PARENT_ID # p
    BY <1>3
  <2>3. \A a \in Procs : Link(PARENT_ID, a)' = Link(PARENT_ID, a) /\ Link(a, PARENT_ID)' = Link(a, PARENT_ID)
    BY <1>4, <2>2
  <2> QED
    BY <1>1, <1>2, <1>4, <1>6, <2>1, <2>3, TalkStep DEF TypeInv
<1>9. ASSUME NEW c \in Children \ {p} PROVE Dialogue(c, p)'
  <2>1. Dialogue(c, p) /\ ~Owes(c, p)
    BY <1>1 DEF RequestInv, Dialogue
  <2>2. /\ Link(c, p)' = Link(c, p)
        /\ \/ Link(p, c)' = Link(p, c)
           \/ c \in D /\ Link(p, c)' = Append(Link(p, c), m[c])
    BY <1>4
  <2>3. ~Contains(Link(p, c)', "CS_REQUEST") /\ ~Contains(Link(p, c)', "CS_RELEASE") /\ Link(p, c)' \in Seq(Message)
    <3>1. ~Contains(Link(p, c), "CS_REQUEST") /\ ~Contains(Link(p, c), "CS_RELEASE") /\ Link(p, c) \in Seq(Message)
      BY <1>5, <2>1 DEF Dialogue, Owes, Carries
    <3>2. CASE Link(p, c)' = Link(p, c)
      BY <3>1, <3>2
    <3>3. CASE c \in D /\ Link(p, c)' = Append(Link(p, c), m[c])
      <4>1. m[c] \in Message /\ m[c].type = "CS_REPLY"
        BY <1>3, <3>3
      <4> QED
        BY <3>1, <3>3, <4>1, ContainsAppend
    <3> QED
      BY <2>2, <3>2, <3>3
  <2>4. AtMostOne(Link(p, c)', "CS_REQUEST") /\ RequestsCarry(Link(p, c)', queue'[p][p])
    BY <2>3 DEF AtMostOne, RequestsCarry, Contains
  <2>5. ~Requesting(p)' /\ ~Holds(c, p)' /\ ~Owes(c, p)'
    BY <1>6, <2>1, <2>2, <2>3 DEF Owes, Carries, Holds, Requesting
  <2> QED
    BY <2>1, <2>2, <2>3, <2>4, <2>5 DEF Dialogue, Carries
<1>10. ASSUME NEW c \in Children \ {p} PROVE Dialogue(p, c)' /\ (Owes(p, c)' <=> Owes(p, c))
  <2>1. Dialogue(p, c)
    BY DEF RequestInv
  <2>2. /\ Link(c, p)' = Link(c, p) /\ pc'[c] = pc[c] /\ queue'[c] = queue[c] /\ Link(p, c) \in Seq(Message)
        /\ ~Requesting(p)' /\ ~Holds(p, c)'
    BY <1>4, <1>5, <1>6 DEF Requesting, Holds, queue_contains, EMPTY_REQUEST_TIME
  <2>3. queue[c][c] <= lamport_time[p] => queue'[c][c] <= lamport_time'[p]
    <3>1. /\ queue[c][c] \in Nat /\ lamport_time[p] \in Nat /\ lamport_time'[p] \in Nat
          /\ lamport_time[p] <= lamport_time'[p]
      BY <1>0, <1>7
    <3> QED
      BY <2>2, <3>1
  <2>4. CASE Holds(p, c)
    <3>1. ~Carries(c, p, "CS_REQUEST") /\ ~Carries(p, c, "CS_REPLY") /\ Owes(p, c) /\ pc[c] = "request"
      BY <2>1, <2>4 DEF Dialogue, Owes, Holds
    <3>2. m[c] \in Message /\ m[c].type = "CS_REPLY" /\ Link(p, c)' = Append(Link(p, c), m[c])
      BY <1>3, <1>4, <1>d, <2>4
    <3>3. AtMostOne(Link(p, c)', "CS_REPLY") /\ Contains(Link(p, c)', "CS_REPLY")
      BY <2>2, <3>1, <3>2, OnlyOne, ContainsAppend DEF Carries
    <3> QED
      BY <2>1, <2>2, <2>3, <3>1, <3>3 DEF Dialogue, Owes, Carries, Requesting
  <2>5. CASE ~Holds(p, c)
    <3>1. Link(p, c)' = Link(p, c)
      BY <1>4, <1>d, <2>5
    <3>2. Owes(p, c)' <=> Owes(p, c)
      BY <2>2, <2>5, <3>1 DEF Owes, Carries, Holds
    <3> QED
      BY <2>1, <2>2, <2>3, <2>5, <3>1, <3>2 DEF Dialogue, Carries, Requesting
  <2> QED
    BY <2>4, <2>5
<1>11. OwnRequest(p)'
  <2>1. last_request_reply_count'[p] = 0
    BY <1>1, <1>2 DEF RequestInv, OwnRequest
  <2>2. queue'[p][p] <= lamport_time'[p]
    BY <1>0, <1>6
  <2> QED
    BY <1>6, <2>1, <2>2 DEF OwnRequest, Holds, queue_contains, Requesting, EMPTY_REQUEST_TIME
<1>12. Counted(p)'
  BY <1>6 DEF Counted
<1>13. RequestInv'
  <2>1. \A a, b \in Children \ {p} : Link(a, b)' = Link(a, b)
    BY <1>4
  <2>2. \A c \in Children \ {p} : last_request_reply_count'[c] = last_request_reply_count[c]
    BY <1>2
  <2> QED
    BY <1>6, <1>7, <1>9, <1>10, <1>11, <1>12, <2>1, <2>2, StepOf
<1> QED
  BY <1>8, <1>13

\* The receive of a CS_REQUEST in request_cs(): it is never one of a child whose request is
\* held back already, so the assert() holds.
LEMMA TakeRequests ==
  ASSUME TypeInv, TypeInv', SkeletonInv, RequestInv, NEW p \in Children, NEW f \in Procs \ {p},
         RequestTakesRequest(p, f)
  PROVE  SkeletonInv' /\ RequestInv'
<1> USE ProcsFacts
<1> DEFINE t == Oldest(p, f).time  first == Before(queue[p][p], p, t, f)
<1>1. Take(p, f, "request", {"CS_REQUEST"}) /\ awaiting_children' = awaiting_children
  BY DEF RequestTakesRequest
<1>2. /\ f \in Children /\ Link(f, p) \in Seq(Message) /\ Link(f, p) # <<>>
      /\ Oldest(p, f) = Head(Link(f, p)) /\ Oldest(p, f) \in Message
      /\ Head(Link(f, p)).type = "CS_REQUEST"
  BY <1>1, TakeFrom DEF TypeInv
<1>3. ~queue_contains(queue[p], f)
  <2>1. Dialogue(p, f)
    BY <1>2 DEF RequestInv
  <2>2. Carries(f, p, "CS_REQUEST")
    BY <1>2, ContainsTail DEF Carries
  <2> QED
    BY <2>1, <2>2 DEF Dialogue, Holds
<1>4. /\ IF first THEN Defer(p, f, t) ELSE Reply(p, f, t)
      /\ ReturnIfReplied(p, last_request_reply_count[p])
  BY <1>3 DEF RequestTakesRequest
<1>5. CASE first
  <2>1. Defer(p, f, t) /\ Before(queue[p][p], p, t, f)
    BY <1>4, <1>5
  <2> HIDE DEF first
  <2> QED
    BY <1>1, <1>4, <2>1, DeferRequests
<1>6. CASE ~first
  <2>1. queue[p][p] \in Nat /\ t \in Nat
    BY <1>2 DEF TypeInv, TypeOK, Message
  <2> HIDE DEF t
  <2>2. Before(t, f, queue[p][p], p)
    BY <1>2, <1>6, <2>1, BeforeTotal
  <2>3. Reply(p, f, t)
    BY <1>4, <1>6
  <2>4. /\ \A c \in Procs \ {p} : pc'[c] = pc[c]
        /\ \A c \in Children \ {p} : last_request_reply_count'[c] = last_request_reply_count[c]
    BY <1>4 DEF ReturnIfReplied, Goto, TypeInv, TypeOK, ChildTypeOK
  <2>5. t = Oldest(p, f).time
    BY DEF t
  <2> HIDE DEF first
  <2> QED
    BY <1>1, <1>4, <2>2, <2>3, <2>4, <2>5, AnswerRequests
<1> QED
  BY <1>5, <1>6

\* The receive of a CS_REQUEST after the last iteration.
LEMMA DrainRequests ==
  ASSUME TypeInv, TypeInv', SkeletonInv, RequestInv, NEW p \in Children, NEW f \in Procs \ {p},
         DrainTakesRequest(p, f)
  PROVE  SkeletonInv' /\ RequestInv'
<1> DEFINE t == Oldest(p, f).time
<1>1. /\ Take(p, f, "drain", {"CS_REQUEST"}) /\ Reply(p, f, t)
      /\ UNCHANGED <<pc, awaiting_children, last_request_reply_count>> /\ pc[p] = "drain"
  BY DEF DrainTakesRequest, Take
<1>2. ~Requesting(p)
  BY <1>1 DEF Requesting
<1>3. t = Oldest(p, f).time
  OBVIOUS
<1> HIDE DEF t
<1> QED
  BY <1>1, <1>2, <1>3, AnswerRequests

\* What arrives otherwise is a DONE: there is no CS_RELEASE, and no reply to a child that
\* has no request.
LEMMA DoneRequests ==
  ASSUME TypeInv, TypeInv', SkeletonInv, RequestInv, NEW p \in Children, NEW f \in Procs \ {p},
         RequestTakesOther(p, f) \/ (DrainTakesOther(p, f, MessageType \ {"CS_REQUEST"}) /\ UNCHANGED mutexVars)
  PROVE  SkeletonInv' /\ RequestInv'
<1> USE ProcsFacts
<1> DEFINE t == Oldest(p, f).time
           l == IF pc[p] = "request" THEN "request" ELSE IF awaiting_children[p] > 1 THEN "drain" ELSE "sleep"
<1>1. PICK types \in {MessageType \ {"CS_REPLY", "CS_REQUEST"}, MessageType \ {"CS_REQUEST"}} :
        /\ Take(p, f, pc[p], types) /\ pc[p] \in {"request", "drain"}
        /\ pc[p] = "request" => "CS_REPLY" \notin types
  BY DEF RequestTakesOther, DrainTakesOther, Take
<1>2. /\ lamport_time' = [lamport_time EXCEPT ![p] = Synchronized(@, t)]
      /\ CountDone(p, Oldest(p, f), l)
      /\ UNCHANGED <<outbox, queue, last_request_reply_count>>
  BY DEF RequestTakesOther, DrainTakesOther, Take, mutexVars
<1>3. /\ f \in Children /\ Link(f, p) \in Seq(Message) /\ Link(f, p) # <<>>
      /\ Oldest(p, f) = Head(Link(f, p)) /\ Oldest(p, f) \in Message
      /\ Head(Link(f, p)).type \in types
  BY <1>1, TakeFrom DEF TypeInv
<1>4. Oldest(p, f).type \notin Talk
  <2>1. Dialogue(f, p) /\ Dialogue(p, f)
    BY <1>3 DEF RequestInv
  <2>2. \A x : Oldest(p, f).type = x => Carries(f, p, x)
    BY <1>3, ContainsTail DEF Carries
  <2>3. Oldest(p, f).type # "CS_REPLY"
    BY <1>1, <1>3, <2>1, <2>2 DEF Dialogue, Owes
  <2>4. Oldest(p, f).type # "CS_RELEASE" /\ Oldest(p, f).type # "CS_REQUEST"
    BY <1>1, <1>3, <2>1, <2>2 DEF Dialogue
  <2> QED
    BY <2>3, <2>4 DEF Talk
<1>5. Oldest(p, f).type = "DONE"
  BY <1>1, <1>4, TakeDone DEF TypeInv
<1>6. /\ awaiting_children' = [awaiting_children EXCEPT ![p] = @ - 1] /\ Goto(p, l)
  BY <1>2, <1>5 DEF CountDone
<1>7. SkeletonInv'
  BY <1>1, <1>2, <1>5, <1>6, DoneStep DEF Take, TypeInv
<1>8. \A a, b \in Children : QuietStep(Link(a, b), Link(a, b)')
  BY <1>1, <1>2, <1>4, ReceiveQuiet DEF Take, TypeInv, TypeOK, ChildTypeOK
<1>9. \A c \in Children : lamport_time[c] <= lamport_time'[c]
  <2>1. t \in Nat /\ lamport_time \in [Procs -> Nat]
    BY <1>3 DEF Message, TypeInv, TypeOK, ChildTypeOK
  <2>2. Synchronized(lamport_time[p], t) \in Nat /\ Synchronized(lamport_time[p], t) > lamport_time[p]
    BY <2>1, SynchronizedType
  <2> HIDE DEF t
  <2> QED
    BY <1>2, <2>1, <2>2
<1>10. \A c \in Children : pc[c] \in {"ask", "request", "cs"} \/ pc'[c] \in {"ask", "request", "cs"} => pc'[c] = pc[c]
  BY <1>1, <1>6 DEF Goto, TypeInv, TypeOK, ChildTypeOK
<1>11. UNCHANGED mutexVars
  BY <1>2 DEF mutexVars
<1> QED
  BY <1>7, <1>8, <1>9, <1>10, <1>11, QuietRequests

-----------------------------------------------------------------------------
(* The inductive invariant *)

\* Nobody has a request or holds one back.
NoRequests ==
  /\ \A p, q \in Children : ~Holds(p, q)
  /\ \A p \in Children : last_request_reply_count[p] = 0

RicartInv == IF mutexl THEN SkeletonInv /\ RequestInv ELSE Plain /\ NoRequests

\* At first nobody has asked for anything.
LEMMA RicartInit == Init => RicartInv
<1> SUFFICES ASSUME Init PROVE RicartInv
  OBVIOUS
<1> USE ProcsFacts
<1>1. SkeletonInv /\ Plain
  BY SkeletonInit, PlainInit DEF Init
<1>2. NoRequests
  BY DEF Init, NoRequests, Holds, queue_contains
<1>3. \A a, b \in Procs : Link(a, b) = <<>>
  BY DEF Init, ChildInit, IpcInit, Link
<1>4. \A p \in Children : pc[p] = "start" /\ lamport_time[p] = 0 /\ queue[p][p] = 0
  BY DEF Init, ChildInit, EMPTY_REQUEST_TIME
<1>5. RequestInv
  BY <1>2, <1>3, <1>4 DEF RequestInv, Dialogue, OwnRequest, Counted, NoRequests, AtMostOne, RequestsCarry,
     Carries, Contains, Owes, Holds, Requesting
<1> QED
  BY <1>1, <1>2, <1>5 DEF RicartInv

\* Without --mutexl no child is where mutex.c has a step.
LEMMA PlainNoMutex ==
  ASSUME ~mutexl, Plain, NEW p \in Children
  PROVE  ~MutexStep(p)
BY DEF Plain, MutexStep, BeginRequest, Release, InCS, RequestTakesReply, RequestTakesRequest,
       RequestTakesOther, DrainTakesRequest, DrainTakesOther, Take

\* The requests are followed through every step.
LEMMA RicartNext == TypeInv /\ TypeInv' /\ RicartInv /\ [Next]_vars => RicartInv'
<1> SUFFICES ASSUME TypeInv, TypeInv', RicartInv, [Next]_vars PROVE RicartInv'
  OBVIOUS
<1> USE ProcsFacts
<1>0. ChildInv /\ ChildInv'
  BY DEF TypeInv
<1>1. CASE UNCHANGED vars
  <2>1. NoRequests => NoRequests'
    BY <1>1 DEF vars, mutexVars, NoRequests, Holds
  <2>2. Plain => Plain'
    BY <1>1 DEF vars, childVars, Plain, Carries, Link
  <2>3. SkeletonInv => SkeletonInv'
    BY <1>1 DEF vars, childVars, SkeletonInv, GoodLabels, ParentMail, LinkPhases, DoneAccounting, LastSends,
       LastToLeave, Phases, Greeted, Finished, Awaited, DoneComing, Carries, Link, Sending
  <2>4. RequestInv => RequestInv'
    <3>1. UNCHANGED mutexVars /\ lamport_time' = lamport_time /\ pc' = pc
      BY <1>1 DEF vars, childVars
    <3>2. \A a, b \in Children : QuietStep(Link(a, b), Link(a, b)')
      BY <1>1 DEF vars, childVars, Link, QuietStep
    <3>3. \A c \in Children : lamport_time[c] <= lamport_time'[c]
      BY <3>1 DEF TypeInv, TypeOK, ChildTypeOK
    <3> QED
      BY <3>1, <3>2, <3>3, QuietRequests
  <2> QED
    BY <2>1, <2>2, <2>3, <2>4 DEF RicartInv
<1>2. CASE mutexl
  <2>0. SkeletonInv /\ RequestInv /\ RepliesAwaited
    BY <1>2, RequestAwaited DEF RicartInv
  <2>1. ASSUME NEW p \in Children, ChildStep(p), UNCHANGED mutexVars PROVE SkeletonInv' /\ RequestInv'
    <3>1. /\ SkeletonInv'
          /\ \A a, b \in Procs : QuietStep(Link(a, b), Link(a, b)')
          /\ \A c \in Procs : lamport_time[c] <= lamport_time'[c]
          /\ \A c \in Children \ {p} : pc'[c] = pc[c]
          /\ pc'[p] \in {"ask", "request", "cs"} \/ pc[p] \in {"ask", "request", "cs"} => pc'[p] = pc[p]
      BY <1>0, <1>2, <2>0, <2>1, ChildStepStays
    <3> QED
      BY <2>0, <2>1, <3>1, QuietRequests
  <2>2. ASSUME ParentStep, UNCHANGED mutexVars PROVE SkeletonInv' /\ RequestInv'
    <3>1. /\ \A a \in Procs, b \in Children : Link(a, b)' = Link(a, b)
          /\ \A c \in Children : lamport_time'[c] = lamport_time[c] /\ pc'[c] = pc[c]
      BY <1>0, <2>2, ParentStepStays
    <3>2. \A a, b \in Children : QuietStep(Link(a, b), Link(a, b)')
      BY <3>1 DEF QuietStep
    <3>3. \A c \in Children : lamport_time[c] <= lamport_time'[c]
      BY <3>1 DEF TypeInv, TypeOK, ChildTypeOK
    <3> QED
      BY <1>0, <2>0, <2>2, <3>1, <3>2, <3>3, QuietRequests, ParentStepSkeleton
  <2>3. ASSUME NEW p \in Children, MutexStep(p) PROVE SkeletonInv' /\ RequestInv'
    BY <2>0, <2>3, BeginRequests, ReleaseRequests, ReplyRequests, TakeRequests, DoneRequests, DrainRequests
    DEF MutexStep
  <2> QED
    BY <1>1, <1>2, <2>1, <2>2, <2>3 DEF Next, ChildNext, ParentNext, RicartInv
<1>3. CASE ~mutexl
  <2>0. Plain /\ NoRequests
    BY <1>3 DEF RicartInv
  <2>1. ASSUME (\E p \in Children : ChildStep(p)) \/ ParentStep, UNCHANGED mutexVars PROVE RicartInv'
    <3>1. Plain'
      BY <1>0, <1>3, <2>0, <2>1, PlainStep
    <3>2. NoRequests'
      BY <2>0, <2>1 DEF NoRequests, mutexVars, Holds
    <3> QED
      BY <1>3, <3>1, <3>2 DEF RicartInv
  <2> QED
    BY <1>1, <1>3, <2>0, <2>1, PlainNoMutex DEF Next, ChildNext, ParentNext
<1> QED
  BY <1>2, <1>3

-----------------------------------------------------------------------------
(* What follows from it *)

\* A child inside has got every reply, so the other requests are later ones.
LEMMA RicartGrants == RicartInv => GrantInOrder
<1> SUFFICES ASSUME RicartInv, NEW p \in Children, NEW q \in Children,
                    InCS(p), p # q, queue_contains(queue[q], q)
             PROVE  Before(queue[p][p], p, queue[q][q], q)
  BY DEF GrantInOrder
<1>1. mutexl /\ RequestInv
  BY ProcsFacts DEF RicartInv, Plain, InCS
<1>2. Dialogue(q, p) /\ OwnRequest(q)
  BY <1>1 DEF RequestInv
<1>3. pc[p] = "cs" /\ Requesting(p) /\ Requesting(q)
  BY <1>2 DEF InCS, Requesting, OwnRequest, Holds
<1> QED
  BY <1>2, <1>3 DEF Dialogue, Owes, Holds

\* pa5 grants the critical section in the order of the requests: the child inside holds
\* the earliest of those made and not released, the ones it has not heard of included.
THEOREM RicartGrantInOrder == Spec => []GrantInOrder
<1> QED
  BY TypeInit, TypeNext, RicartInit, RicartNext, RicartGrants, PTL DEF Spec

\* Every reply of pa5 is to the current request of its receiver and none is lost: the
\* replies that a child in request_cs() has counted and the children that owe it one are
\* together all the others, so the last reply lets it in, and no child that is not in
\* request_cs() is owed anything.
THEOREM RicartReplyAccounting == Spec => []ReplyAccounting
<1>1. RicartInv => ReplyAccounting
  <2> SUFFICES ASSUME RicartInv, NEW q \in Children
               PROVE  IF pc[q] = "request"
                        THEN last_request_reply_count[q] + Cardinality(Debtors(q)) = N - 1
                        ELSE Debtors(q) = {}
    BY DEF ReplyAccounting, Debtors
  <2>1. CASE mutexl
    BY <2>1 DEF RicartInv, RequestInv, Counted, Dialogue, Debtors
  <2>2. CASE ~mutexl
    <3>1. \A p \in Children : ~Owes(p, q)
      BY <2>2, ProcsFacts DEF RicartInv, Plain, NoRequests, Owes, Holds, Talk
    <3> QED
      BY <2>2, <3>1 DEF RicartInv, Plain, Debtors
  <2> QED
    BY <2>1, <2>2
<1> QED
  BY <1>1, TypeInit, TypeNext, RicartInit, RicartNext, PTL DEF Spec

\* A request that a child of pa5 holds back is the one its sender still waits for, and it
\* waits for an earlier one.
THEOREM RicartDeferredIsCurrent == Spec => []DeferredIsCurrent
<1>1. RicartInv => DeferredIsCurrent
  <2> SUFFICES ASSUME RicartInv, NEW p \in Children, NEW q \in Children, p # q, Holds(p, q)
               PROVE  /\ pc[p] \in {"request", "cs"} /\ pc[q] = "request"
                      /\ queue[p][q] = queue[q][q]
                      /\ Before(queue[p][p], p, queue[q][q], q)
    BY DEF DeferredIsCurrent, Holds
  <2>1. mutexl /\ Dialogue(p, q)
    BY DEF RicartInv, NoRequests, RequestInv
  <2> QED
    BY <2>1 DEF Dialogue, Owes, Holds, Requesting
<1> QED
  BY <1>1, TypeInit, TypeNext, RicartInit, RicartNext, PTL DEF Spec

\* With --mutexl and however short the sleep of child_entry is, no child of pa5 is killed by
\* SIGPIPE or fails, in particular by an assert() of mutex.c or by the checks of the types of
\* its messages; one that spins on a closed pipe does so after everybody's last iteration.
THEOREM RicartShortSleep == ASSUME mutexl PROVE Spec => []ShortSleepHarmless
<1>1. RicartInv => ShortSleepHarmless
  BY SkeletonHarmless DEF RicartInv
<1> QED
  BY <1>1, TypeInit, TypeNext, RicartInit, RicartNext, PTL DEF Spec

-----------------------------------------------------------------------------
(* The service that child.c sees *)

\* Of two requests one is the later one.
LEMMA RicartExcludes == TypeInv /\ RicartInv => MutualExclusion
<1> SUFFICES ASSUME TypeInv, RicartInv, NEW p \in Children, NEW q \in Children, InCS(p), InCS(q), p # q
             PROVE  FALSE
  BY DEF MutualExclusion
<1>1. mutexl /\ OwnRequest(p) /\ OwnRequest(q)
  BY ProcsFacts DEF RicartInv, Plain, InCS, RequestInv
<1>2. Holds(p, p) /\ Holds(q, q)
  BY <1>1 DEF OwnRequest, Requesting, InCS
<1>3. Before(queue[p][p], p, queue[q][q], q) /\ Before(queue[q][q], q, queue[p][p], p)
  BY <1>2, RicartGrants DEF GrantInOrder, Holds
<1>4. queue[p][p] \in Nat /\ queue[q][q] \in Nat
  BY DEF TypeInv, TypeOK
<1> QED
  BY <1>3, <1>4, NAssumption DEF Before, Children

\* The steps of pa5/mutex.c touch no other child.
LEMMA MutexStepFrame ==
  ASSUME TypeInv, NEW p \in Children, MutexStep(p)
  PROVE  \A c \in Children \ {p} : ClientStatus'[c] = ClientStatus[c]
<1> USE ProcsFacts
<1>0. pc \in [Procs -> Label] /\ outbox \in [Procs -> [Procs -> Message \cup {NoMessage}]]
  BY DEF TypeInv, TypeOK, ChildTypeOK, IpcTypeOK
<1>1. \A l : Goto(p, l) => \A c \in Children \ {p} : pc'[c] = pc[c]
  BY <1>0 DEF Goto
<1>2. /\ \A D, m : Post(p, D, m) => \A c \in Children \ {p} : outbox'[c] = outbox[c]
      /\ \A D, m : PostEach(p, D, m) => \A c \in Children \ {p} : outbox'[c] = outbox[c]
  BY <1>0 DEF Post, PostEach
<1>3. \A n : ReturnIfReplied(p, n) => \A c \in Children \ {p} : pc'[c] = pc[c]
  BY <1>1 DEF ReturnIfReplied
<1>4. \A c \in Children \ {p} : pc'[c] = pc[c]
  BY <1>1, <1>3 DEF MutexStep, BeginRequest, Release, Abort, RequestTakesReply, RequestTakesRequest,
         RequestTakesOther, DrainTakesRequest, DrainTakesOther, CountDone
<1>5. \A c \in Children \ {p} : outbox'[c] = outbox[c]
  BY <1>2 DEF MutexStep, BeginRequest, Release, Abort, RequestTakesReply, RequestTakesRequest,
         RequestTakesOther, DrainTakesRequest, DrainTakesOther, Reply, Defer, ipc_multicast_to_children, send
<1> QED
  BY <1>4, <1>5, StatusFrame

\* What they do is what a client of Mutex may do.
LEMMA MutexStepService ==
  ASSUME TypeInv, RicartInv, MutualExclusion', NEW p \in Children, MutexStep(p)
  PROVE  [Service!Next]_ClientStatus
<1> USE ProcsFacts
<1> DEFINE s == ClientStatus  t == ClientStatus'
           Status(l, sending) == IF l \in {"exited", "killed", "failed", "spin"} THEN "dead"
                                 ELSE IF l = "cs" /\ ~sending THEN "in"
                                 ELSE IF l \in {"ask", "request", "cs"} THEN "waiting"
                                 ELSE "out"
<1>0. pc \in [Procs -> Label] /\ RequestInv
  BY PlainNoMutex DEF TypeInv, TypeOK, ChildTypeOK, RicartInv
<1>1. s[p] = Status(pc[p], Sending(p)) /\ t[p] = Status(pc'[p], Sending(p)')
  BY DEF ClientStatus, Live, InCS
<1>2. \A c \in Children \ {p} : t[c] = s[c]
  BY MutexStepFrame
<1>3. CASE BeginRequest(p)
  <2>1. pc[p] = "loop" /\ pc'[p] = "request"
    BY <1>0, <1>3 DEF BeginRequest, Goto
  <2> QED
    BY <1>1, <1>2, <2>1, ServiceStep
<1>4. CASE Release(p)
  <2>1. queue_contains(queue[p], p)
    BY <1>0, <1>4 DEF Release, InCS, RequestInv, OwnRequest, Holds, Requesting
  <2>2. pc[p] = "cs" /\ ~Sending(p) /\ pc'[p] = "loop"
    BY <1>0, <1>4, <2>1 DEF Release, InCS, Goto
  <2> QED
    BY <1>1, <1>2, <2>2, ServiceStep
<1>5. ASSUME pc[p] = "request", pc'[p] \in {"request", "cs", "failed"}
      PROVE  [Service!Next]_ClientStatus
  BY <1>1, <1>2, <1>5, ServiceStep
<1>6. ASSUME pc[p] = "drain", pc'[p] \in {"drain", "sleep", "failed"}
      PROVE  [Service!Next]_ClientStatus
  BY <1>1, <1>2, <1>6, ServiceStep
<1>7. ASSUME NEW f \in Procs \ {p},
             RequestTakesReply(p, f) \/ RequestTakesRequest(p, f) \/ RequestTakesOther(p, f)
      PROVE  [Service!Next]_ClientStatus
  <2>1. pc[p] = "request"
    BY <1>7 DEF RequestTakesReply, RequestTakesRequest, RequestTakesOther, Take
  <2>2. pc'[p] \in {"request", "cs", "failed"}
    BY <1>0, <1>7, <2>1 DEF RequestTakesReply, RequestTakesRequest, RequestTakesOther, ReturnIfReplied,
         Abort, CountDone, Goto
  <2> QED
    BY <1>5, <2>1, <2>2
<1>8. ASSUME NEW f \in Procs \ {p},
             DrainTakesRequest(p, f) \/ \E types \in SUBSET MessageType : DrainTakesOther(p, f, types)
      PROVE  [Service!Next]_ClientStatus
  <2>1. pc[p] = "drain"
    BY <1>8 DEF DrainTakesRequest, DrainTakesOther, Take
  <2>2. pc'[p] \in {"drain", "sleep", "failed"}
    BY <1>0, <1>8, <2>1 DEF DrainTakesRequest, DrainTakesOther, CountDone, Goto
  <2> QED
    BY <1>6, <2>1, <2>2
<1> QED
  BY <1>3, <1>4, <1>7, <1>8 DEF MutexStep

\* Every step of pa5 is a step of Mutex or changes nothing that its clients see.
LEMMA ServiceNext ==
  TypeInv /\ RicartInv /\ MutualExclusion' /\ [Next]_vars => [Service!Next]_ClientStatus
<1> SUFFICES ASSUME TypeInv, RicartInv, MutualExclusion', [Next]_vars
             PROVE  [Service!Next]_ClientStatus
  OBVIOUS
<1>0. ChildTypeOK
  BY DEF TypeInv, TypeOK
<1>1. ASSUME NEW p \in Children, ChildNext(p) PROVE [Service!Next]_ClientStatus
  BY <1>0, <1>1, ChildStepService, MutexStepService DEF ChildNext
<1>2. CASE ParentNext
  BY <1>0, <1>2, ParentStepService DEF ParentNext
<1>3. CASE UNCHANGED vars
  BY <1>3 DEF vars, childVars, ClientStatus, Live, InCS, Sending
<1> QED
  BY <1>1, <1>2, <1>3 DEF Next

\* request_cs() and release_cs() of pa5 implement the mutual-exclusion service: a child is
\* let in only while nobody is inside, it leaves only by release_cs(), and no child dies
\* inside.
THEOREM RicartService == Spec => ServiceSpec
<1>1. Init => Service!Init
  BY ServiceInit DEF Init
<1> QED
  BY <1>1, TypeInit, TypeNext, RicartInit, RicartNext, RicartExcludes, ServiceNext, PTL
  DEF Spec, ServiceSpec, Service!Spec

-----------------------------------------------------------------------------
(* How much is under way *)

\* No step of mutex.c writes to its own process.
LEMMA MutexStepSelf ==
  ASSUME TypeInv, NoSelfMail, NEW p \in Children, MutexStep(p)
  PROVE  NoSelfMail'
<1> USE ProcsFacts
<1>0. IpcTypeOK /\ p \in Procs
  BY DEF TypeInv, TypeOK, ChildTypeOK
<1>1. CASE BeginRequest(p)
  <2>1. pipes' = pipes /\ (outbox' = outbox \/ \E m : Post(p, Children \ {p}, m))
    BY <1>1 DEF BeginRequest, ipc_multicast_to_children
  <2>2. \A c \in Procs : outbox'[c][c] = outbox[c][c] \/ outbox'[c][c] = NoMessage
    BY <1>0, <2>1, SelfPost
  <2> QED
    BY <1>0, <2>1, <2>2, SelfKept
<1>2. CASE Release(p)
  <2>1. pipes' = pipes /\ (outbox' = outbox \/ \E m : PostEach(p, Deferred(p), m))
    BY <1>2 DEF Release, Abort
  <2>2. p \notin Deferred(p)
    BY DEF Deferred
  <2>3. \A c \in Procs : outbox'[c][c] = outbox[c][c] \/ outbox'[c][c] = NoMessage
    BY <1>0, <2>1, <2>2, SelfPost
  <2> QED
    BY <1>0, <2>1, <2>3, SelfKept
<1>3. ASSUME NEW f \in Procs \ {p},
             \/ RequestTakesReply(p, f) \/ RequestTakesOther(p, f)
             \/ DrainTakesOther(p, f, MessageType \ {"CS_REQUEST"})
      PROVE  NoSelfMail'
  <2>1. outbox' = outbox /\ \E label, types : Take(p, f, label, types)
    BY <1>3 DEF RequestTakesReply, RequestTakesOther, DrainTakesOther
  <2> QED
    BY <1>0, <2>1, SelfTake
<1>4. ASSUME NEW f \in Procs \ {p}, RequestTakesRequest(p, f) \/ DrainTakesRequest(p, f)
      PROVE  NoSelfMail'
  <2>1. \E label, types : Take(p, f, label, types)
    BY <1>4 DEF RequestTakesRequest, DrainTakesRequest
  <2>2. outbox' = outbox \/ \E m : Post(p, {f}, m)
    BY <1>4 DEF RequestTakesRequest, DrainTakesRequest, Reply, Defer, Abort, send
  <2>3. \A c \in Procs : outbox'[c][c] = outbox[c][c] \/ outbox'[c][c] = NoMessage
    BY <1>0, <2>2, SelfPost
  <2> QED
    BY <1>0, <2>1, <2>3, SelfTake
<1> QED
  BY <1>1, <1>2, <1>3, <1>4 DEF MutexStep

\* Every step keeps what is needed besides RicartInv.
LEMMA MailNext == TypeInv /\ TypeInv' /\ RicartInv /\ MailInv /\ [Next]_vars => MailInv'
<1> SUFFICES ASSUME TypeInv, TypeInv', RicartInv, MailInv, [Next]_vars PROVE MailInv'
  OBVIOUS
<1>0. ChildInv /\ ChildInv'
  BY DEF TypeInv
<1>1. CASE UNCHANGED vars
  BY <1>1 DEF vars, childVars, MailInv, NoSelfMail, Few, Sent, Link
<1>2. CASE (\E p \in Children : ChildStep(p)) \/ ParentStep
  BY <1>0, <1>2, MailStep
<1>3. ASSUME NEW p \in Children, MutexStep(p) PROVE MailInv'
  <2>1. mutexl
    BY <1>3, PlainNoMutex DEF RicartInv
  <2> QED
    BY <1>3, <2>1, MutexStepSelf DEF MailInv
<1> QED
  BY <1>1, <1>2, <1>3 DEF Next, ChildNext, ParentNext

\* A child is sent a request only by one that waits, and a reply only while it waits.
LEMMA RicartPipes == TypeInv /\ RicartInv /\ MailInv => PipeBound
<1> SUFFICES ASSUME TypeInv, RicartInv, MailInv, NEW p \in Procs, NEW q \in Procs
             PROVE  Len(pipes[p][q]) <= 2
  BY DEF PipeBound
<1>0. ChildInv /\ IpcTypeOK
  BY DEF TypeInv, TypeOK, ChildTypeOK
<1>1. CASE ~mutexl
  BY <1>0, <1>1, FewPipes DEF MailInv
<1>2. CASE mutexl /\ (p = q \/ p = PARENT_ID \/ q = PARENT_ID)
  BY <1>0, <1>2, OuterPipes DEF RicartInv, MailInv
<1>3. CASE mutexl /\ p \in Children /\ q \in Children \ {p}
  <2>1. Dialogue(p, q) /\ Dialogue(q, p) /\ SkeletonInv
    BY <1>3 DEF RicartInv, RequestInv
  <2>2. /\ AtMostOne(Link(q, p), "CS_REQUEST") /\ AtMostOne(Link(q, p), "CS_REPLY")
        /\ ~Carries(q, p, "CS_RELEASE")
        /\ Carries(q, p, "CS_REPLY") => pc[p] \in {"ask", "request"}
        /\ Carries(q, p, "CS_REQUEST") => pc[q] \in {"ask", "request"}
    BY <2>1 DEF Dialogue, Owes
  <2> QED
    BY <1>0, <1>3, <2>1, <2>2, InnerPipes
<1> QED
  BY <1>1, <1>2, <1>3 DEF Procs, Children, PARENT_ID

\* No pipe of pa5 ever holds more than two messages, for any number of children: a message
\* is sent only when the last one of its type has been read, and a pipe does not hold a
\* STARTED with a reply or a request with a DONE.  So no write() meets a full pipe.
THEOREM RicartPipeBound == Spec => []PipeBound
<1>1. Init => MailInv
  BY MailInit DEF Init
<1> QED
  BY <1>1, TypeInit, TypeNext, RicartInit, RicartNext, MailNext, RicartPipes, PTL DEF Spec

=============================================================================
