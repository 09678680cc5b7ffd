---------------------------- MODULE ForksProofs ----------------------------
(***************************************************************************)
(* Proofs about MutexForks, for every number of children and iterations.   *)
(***************************************************************************)
EXTENDS MutexForks, ChildProofs, WellFoundedInduction

-----------------------------------------------------------------------------
(* Sending in turn *)

\* What SendInTurn sends to d.
InTurn(D, type, now) == [d \in D |-> [type |-> type, time |-> now + Cardinality({c \in D : c <= d})]]

\* The messages of a loop have their types, and the clock does not go back.
LEMMA SendInTurnType ==
  ASSUME ChildTypeOK, NEW p \in Children, NEW D \in SUBSET Procs, NEW type \in MessageType,
         NEW now \in Nat, SendInTurn(p, D, type, now)
  PROVE  /\ outbox' \in [Procs -> [Procs -> Message \cup {NoMessage}]]
         /\ lamport_time' \in [Procs -> Nat]
         /\ PostEach(p, D, InTurn(D, type, now))
         /\ \A d \in D : InTurn(D, type, now)[d] \in Message /\ InTurn(D, type, now)[d].type = type
         /\ lamport_time'[p] >= now
         /\ \A c \in Procs \ {p} : lamport_time'[c] = lamport_time[c] /\ outbox'[c] = outbox[c]
         /\ \A d \in Procs : outbox'[p][d] = IF d \in D THEN InTurn(D, type, now)[d] ELSE NoMessage
<1> USE ProcsFacts
<1> DEFINE m == InTurn(D, type, now)
<1>1. \A S \in SUBSET D : Cardinality(S) \in Nat
  <2>1. IsFiniteSet(Procs)
    BY FS_Interval, NAssumption DEF Procs, PARENT_ID
  <2> QED
    BY <2>1, FS_Subset, FS_CardinalityType
<1>2. PostEach(p, D, m)
  BY DEF SendInTurn, InTurn
<1>3. ASSUME NEW d \in D PROVE m[d] \in Message /\ m[d].type = type
  <2>1. Cardinality({c \in D : c <= d}) \in Nat
    BY <1>1
  <2> QED
    BY <2>1 DEF Message, InTurn
<1>4. lamport_time' = [lamport_time EXCEPT ![p] = now + Cardinality(D)] /\ Cardinality(D) \in Nat
  BY <1>1 DEF SendInTurn
<1>5. lamport_time' \in [Procs -> Nat] /\ lamport_time'[p] >= now
  BY <1>4 DEF ChildTypeOK
<1> HIDE DEF m
<1>6. outbox' = [outbox EXCEPT ![p] = [d \in Procs |-> IF d \in D THEN m[d] ELSE NoMessage]]
  BY <1>2 DEF PostEach
<1>7. [d \in Procs |-> IF d \in D THEN m[d] ELSE NoMessage] \in [Procs -> Message \cup {NoMessage}]
  BY <1>3
<1>8. /\ outbox' \in [Procs -> [Procs -> Message \cup {NoMessage}]]
      /\ \A c \in Procs \ {p} : outbox'[c] = outbox[c]
      /\ \A d \in Procs : outbox'[p][d] = IF d \in D THEN m[d] ELSE NoMessage
  BY <1>6, <1>7 DEF ChildTypeOK, IpcTypeOK
<1> QED
  BY <1>2, <1>3, <1>4, <1>5, <1>8 DEF m, ChildTypeOK

\* All of them are under way as soon as the loop starts.
LEMMA SendInTurnLinks ==
  ASSUME ChildTypeOK, NEW p \in Children, ~Sending(p), NEW D \in SUBSET Procs, NEW type \in MessageType,
         NEW now \in Nat, SendInTurn(p, D, type, now), pipes' = pipes
  PROVE  /\ \A d \in D : InTurn(D, type, now)[d] \in Message
         /\ \A a, b \in Procs : Link(a, b)' = IF a = p /\ b \in D THEN Append(Link(a, b), InTurn(D, type, now)[b]) ELSE Link(a, b)
         /\ \A c \in Procs \ {p} : outbox'[c] = outbox[c]
<1> DEFINE m == InTurn(D, type, now)
<1>1. PostEach(p, D, m) /\ \A d \in D : m[d] \in Message
  BY SendInTurnType
<1> HIDE DEF m
<1>2. /\ \A a, b \in Procs : Link(a, b)' = IF a = p /\ b \in D THEN Append(Link(a, b), m[b]) ELSE Link(a, b)
      /\ \A c \in Procs \ {p} : outbox'[c] = outbox[c]
  <2>1. (\A d \in D : m[d] \in Message) /\ PostEach(p, D, m) /\ ~Sending(p) /\ pipes' = pipes
    BY <1>1
  <2>2. IpcTypeOK /\ p \in Procs
    BY ProcsFacts DEF ChildTypeOK
  <2> QED
    BY ONLY <2>1, <2>2, LinkPostEach
<1> QED
  BY <1>1, <1>2 DEF m

\* A loop over one child is a send.
LEMMA SendOne ==
  ASSUME NEW p \in Children, NEW f \in Children, NEW type, NEW now \in Nat, SendInTurn(p, {f}, type, now)
  PROVE  /\ send(p, f, [type |-> type, time |-> now + 1])
         /\ lamport_time' = [lamport_time EXCEPT ![p] = now + 1]
<1>1. Cardinality({f}) = 1 /\ {c \in {f} : c <= f} = {f}
  BY FS_Singleton DEF Children
<1>2. \A d \in Procs : (IF d \in {f} THEN InTurn({f}, type, now)[d] ELSE NoMessage)
                     = (IF d \in {f} THEN [type |-> type, time |-> now + 1] ELSE NoMessage)
  BY <1>1 DEF InTurn
<1> QED
  BY <1>1, <1>2 DEF SendInTurn, PostEach, send, Post, InTurn

\* A loop over no child only sets the clock.
LEMMA SendNone ==
  ASSUME ChildTypeOK, NEW p \in Children, ~Sending(p), NEW type, NEW now \in Nat,
         NEW D, D = {}, SendInTurn(p, D, type, now)
  PROVE  outbox' = outbox /\ lamport_time' = [lamport_time EXCEPT ![p] = now]
<1>1. Cardinality(D) = 0
  BY FS_EmptySet
<1>2. outbox' = [outbox EXCEPT ![p] = [d \in Procs |-> NoMessage]]
  BY DEF SendInTurn, PostEach
<1>3. outbox \in [Procs -> [Procs -> Message \cup {NoMessage}]] /\ p \in Procs
  BY ProcsFacts DEF ChildTypeOK, IpcTypeOK
<1>4. outbox[p] = [d \in Procs |-> NoMessage]
  BY <1>3 DEF Sending
<1>5. outbox' = outbox
  BY <1>2, <1>3, <1>4
<1>6. lamport_time' = [lamport_time EXCEPT ![p] = now + Cardinality(D)]
  BY DEF SendInTurn
<1> QED
  BY <1>1, <1>5, <1>6

\* Every nonempty set of children has one with the smallest id.
LEMMA SmallestChild ==
  ASSUME NEW S \in SUBSET Children, S # {}
  PROVE  \E p \in S : \A q \in S : ~(q < p)
<1>1. S \subseteq Nat
  BY NAssumption DEF Children
<1> DEFINE R == {e \in Nat \X Nat : e[1] < e[2]}
<1>2. IsWellFoundedOn(R, Nat)
  BY NatLessThanWellFounded DEF OpToRel
<1>3. \A p, q \in Nat : <<q, p>> \in R <=> q < p
  OBVIOUS
<1> HIDE DEF R
<1>4. \E p \in S : \A q \in S : ~(<<q, p>> \in R)
  BY <1>1, <1>2, WFMin
<1> QED
  BY <1>1, <1>3, <1>4

-----------------------------------------------------------------------------
(* Type correctness *)

TypeInv == TypeOK /\ ChildInv

\* The state after the forks of main.c has its type.
LEMMA TypeInit == Init => TypeInv
<1> SUFFICES ASSUME Init PROVE TypeInv
  OBVIOUS
<1>1. ChildInv
  BY ChildInitType DEF Init
<1>2. has_fork \in Flags /\ fork_dirty \in Flags /\ has_request \in Flags
  BY DEF Init, Flags
<1> QED
  BY <1>1, <1>2 DEF TypeInv, TypeOK, ChildInv

\* The steps outside mutex.c keep the types.
LEMMA SkeletonType ==
  ASSUME TypeInv, ChildInv', UNCHANGED mutexVars
  PROVE  TypeInv'
BY DEF TypeInv, TypeOK, ChildInv, mutexVars

\* Going on in request_cs() keeps the types.
LEMMA RequestLabelType ==
  ASSUME TypeInv, NEW p \in Children, NEW l \in {"ask", "request", "cs"}, Goto(p, l), i[p] <= Iterations[p],
         i' = i, from' = from, awaiting_children' = awaiting_children,
         IpcTypeOK', lamport_time' \in [Procs -> Nat],
         has_fork' \in Flags, fork_dirty' \in Flags, has_request' \in Flags
  PROVE  TypeInv'
<1>1. pc' \in [Procs -> Label] /\ \A c \in Children \ {p} : pc'[c] = pc[c]
  BY ProcsFacts DEF Goto, Label, TypeInv, ChildInv, ChildTypeOK
<1> QED
  BY <1>1 DEF TypeInv, TypeOK, ChildInv, ChildTypeOK

\* The loop over the forks to ask for keeps the types.
LEMMA RequestForksType ==
  ASSUME TypeInv, NEW p \in Children, i[p] <= Iterations[p], RequestForks(p)
  PROVE  TypeInv'
<1>1. /\ ChildTypeOK /\ lamport_time[p] \in Nat /\ Missing(p) \in SUBSET Procs
      /\ "CS_REQUEST" \in MessageType
  BY ProcsFacts DEF TypeInv, TypeOK, ChildTypeOK, Missing, MessageType
<1>2. SendInTurn(p, Missing(p), "CS_REQUEST", lamport_time[p])
  BY DEF RequestForks
<1>3. /\ outbox' \in [Procs -> [Procs -> Message \cup {NoMessage}]]
      /\ lamport_time' \in [Procs -> Nat]
  BY <1>1, <1>2, SendInTurnType
<1>4. IpcTypeOK'
  BY <1>1, <1>3 DEF RequestForks, ChildTypeOK, IpcTypeOK
<1>5. has_request' \in Flags
  <2>1. [c \in Children |-> has_request[p][c] /\ c \notin Missing(p)] \in [Children -> BOOLEAN]
    OBVIOUS
  <2>2. has_request' = [has_request EXCEPT ![p] = [c \in Children |-> has_request[p][c] /\ c \notin Missing(p)]]
    BY DEF RequestForks, TypeInv, TypeOK, Flags
  <2> QED
    BY <2>1, <2>2 DEF TypeInv, TypeOK, Flags
<1> QED
  BY <1>3, <1>4, <1>5, RequestLabelType DEF RequestForks, TypeInv, TypeOK

\* What the receive of a message keeps.
LEMMA ReceivedType ==
  ASSUME TypeInv, NEW p \in Children, NEW f \in Procs, NEW label, NEW types, Take(p, f, label, types)
  PROVE  /\ pipes' \in [Procs -> [Procs -> Seq(Message)]]
         /\ outbox' = outbox => IpcTypeOK'
         /\ outbox' \in [Procs -> [Procs -> Message \cup {NoMessage}]] => IpcTypeOK'
         /\ lamport_time' = [lamport_time EXCEPT ![p] = Synchronized(@, Oldest(p, f).time)]
              => lamport_time' \in [Procs -> Nat]
         /\ Synchronized(lamport_time[p], Oldest(p, f).time) \in Nat
         /\ from' = from /\ i' = i /\ pc[p] = label /\ ~Sending(p)
<1>1. /\ ChildTypeOK /\ lamport_time \in [Procs -> Nat]
      /\ outbox \in [Procs -> [Procs -> Message \cup {NoMessage}]]
  BY DEF TypeInv, TypeOK, ChildTypeOK, IpcTypeOK
<1>2. /\ pipes' \in [Procs -> [Procs -> Seq(Message)]]
      /\ Synchronized(lamport_time[p], Oldest(p, f).time) \in Nat
      /\ from' = from /\ i' = i
  BY <1>1, TakeType
<1>3. outbox' \in [Procs -> [Procs -> Message \cup {NoMessage}]] => IpcTypeOK'
  BY <1>2 DEF IpcTypeOK
<1>4. pc[p] = label /\ ~Sending(p)
  BY DEF Take
<1> QED
  BY <1>1, <1>2, <1>3, <1>4

\* The receive of a fork keeps the types.
LEMMA TakesReplyType ==
  ASSUME TypeInv, NEW p \in Children, NEW f \in Procs, RequestTakesReply(p, f)
  PROVE  TypeInv'
<1>1. f \in Procs /\ Take(p, f, "request", {"CS_REPLY"}) /\ outbox' = outbox
  BY ProcsFacts DEF RequestTakesReply
<1>2. i[p] <= Iterations[p]
  BY <1>1 DEF Take, TypeInv, ChildInv
<1>3. IpcTypeOK' /\ lamport_time' \in [Procs -> Nat] /\ from' = from /\ i' = i
  BY <1>1, ReceivedType DEF RequestTakesReply
<1>4. has_fork' \in Flags /\ fork_dirty' \in Flags /\ has_request' \in Flags
  BY DEF RequestTakesReply, AcceptFork, TypeInv, TypeOK, Flags
<1>5. \E l \in {"ask", "cs"} : Goto(p, l)
  BY DEF RequestTakesReply, ReturnIfAll
<1> QED
  BY <1>2, <1>3, <1>4, <1>5, RequestLabelType DEF RequestTakesReply

\* The receive of a request for a fork, answered or not, keeps the types.
LEMMA TakesRequestType ==
  ASSUME TypeInv, NEW p \in Children, NEW f \in Procs, RequestTakesRequest(p, f)
  PROVE  TypeInv'
<1> DEFINE now == Synchronized(lamport_time[p], Oldest(p, f).time)
           D == IF has_fork[p][f] /\ fork_dirty[p][f] THEN {f} ELSE {}
<1>1. f \in Procs /\ Take(p, f, "request", {"CS_REQUEST"})
  BY ProcsFacts DEF RequestTakesRequest
<1>2. i[p] <= Iterations[p]
  BY <1>1 DEF Take, TypeInv, ChildInv
<1>3. now \in Nat /\ from' = from /\ i' = i
  BY <1>1, ReceivedType
<1>4. SendInTurn(p, D, "CS_REPLY", now) /\ D \in SUBSET Procs
  BY DEF RequestTakesRequest
<1> HIDE DEF now, D
<1>5. outbox' \in [Procs -> [Procs -> Message \cup {NoMessage}]] /\ lamport_time' \in [Procs -> Nat]
  <2>1. ChildTypeOK /\ "CS_REPLY" \in MessageType
    BY DEF TypeInv, TypeOK, MessageType
  <2> QED
    BY <1>3, <1>4, <2>1, SendInTurnType
<1>6. IpcTypeOK'
  BY <1>1, <1>5, ReceivedType
<1>7. has_fork' \in Flags /\ fork_dirty' \in Flags /\ has_request' \in Flags
  BY DEF RequestTakesRequest, TypeInv, TypeOK, Flags
<1>8. \E l \in {"ask", "cs"} : Goto(p, l)
  BY DEF RequestTakesRequest, ReturnIfAll
<1> QED
  BY <1>2, <1>3, <1>5, <1>6, <1>7, <1>8, RequestLabelType DEF RequestTakesRequest

\* The receive of a request for a fork after the last iteration keeps the types.
LEMMA DrainTakesRequestType ==
  ASSUME TypeInv, NEW p \in Children, NEW f \in Procs, DrainTakesRequest(p, f)
  PROVE  TypeInv'
<1> USE ProcsFacts
<1> DEFINE now == Synchronized(lamport_time[p], Oldest(p, f).time)
           D == IF has_fork[p][f] THEN {f} ELSE {}
<1>1. f \in Procs /\ Take(p, f, "drain", {"CS_REQUEST"})
  BY DEF DrainTakesRequest
<1>2. from' = from /\ i' = i /\ awaiting_children' = awaiting_children /\ now \in Nat
  BY <1>1, ReceivedType DEF DrainTakesRequest
<1>3. SendInTurn(p, D, "CS_REPLY", now) /\ D \in SUBSET Procs
  BY DEF DrainTakesRequest
<1> HIDE DEF now, D
<1>4. outbox' \in [Procs -> [Procs -> Message \cup {NoMessage}]] /\ lamport_time' \in [Procs -> Nat]
  <2>1. ChildTypeOK /\ "CS_REPLY" \in MessageType
    BY DEF TypeInv, TypeOK, MessageType
  <2> QED
    BY <1>2, <1>3, <2>1, SendInTurnType
<1>5. IpcTypeOK'
  BY <1>1, <1>4, ReceivedType
<1>6. has_fork' \in Flags /\ fork_dirty' = fork_dirty /\ has_request' = has_request
  <2>1. has_fork' = [has_fork EXCEPT ![p][f] = FALSE] /\ has_fork \in [Children -> [Children -> BOOLEAN]]
    BY DEF DrainTakesRequest, TypeInv, TypeOK, Flags
  <2>2. [has_fork[p] EXCEPT ![f] = FALSE] \in [Children -> BOOLEAN]
    BY <2>1
  <2>3. has_fork' = [has_fork EXCEPT ![p] = [has_fork[p] EXCEPT ![f] = FALSE]]
    BY <2>1
  <2> QED
    BY <2>1, <2>2, <2>3 DEF DrainTakesRequest, Flags
<1>7. pc' \in [Procs -> Label] /\ \A c \in Children : pc'[c] \in {"ask", "request", "cs"} => pc'[c] = pc[c]
  BY DEF DrainTakesRequest, Goto, Label, TypeInv, ChildInv, ChildTypeOK
<1> QED
  BY <1>2, <1>4, <1>5, <1>6, <1>7 DEF TypeInv, TypeOK, ChildInv, ChildTypeOK

\* release_cs() keeps the types.
LEMMA ReleaseType ==
  ASSUME TypeInv, NEW p \in Children, Release(p)
  PROVE  TypeInv'
<1> USE ProcsFacts, ChildAssumption
<1>1. /\ pc[p] = "cs" /\ i[p] <= Iterations[p] /\ i[p] \in Nat /\ Iterations[p] \in Nat
      /\ lamport_time[p] \in Nat /\ Given(p) \in SUBSET Procs /\ ChildTypeOK
      /\ "CS_REPLY" \in MessageType /\ pipes' = pipes /\ from' = from /\ awaiting_children' = awaiting_children
  BY DEF Release, InCS, TypeInv, TypeOK, ChildInv, ChildTypeOK, Given, Wanted, MessageType
<1>2. outbox' \in [Procs -> [Procs -> Message \cup {NoMessage}]] /\ lamport_time' \in [Procs -> Nat]
  <2>1. SendInTurn(p, Given(p), "CS_REPLY", lamport_time[p])
    BY DEF Release
  <2> QED
    BY <1>1, <2>1, SendInTurnType
<1>3. IpcTypeOK'
  BY <1>1, <1>2 DEF ChildTypeOK, IpcTypeOK
<1>4. has_fork' \in Flags
  <2>1. [c \in Children |-> has_fork[p][c] /\ c \notin Given(p)] \in [Children -> BOOLEAN]
    OBVIOUS
  <2>2. has_fork' = [has_fork EXCEPT ![p] = [c \in Children |-> has_fork[p][c] /\ c \notin Given(p)]]
    BY DEF Release, TypeInv, TypeOK, Flags
  <2> QED
    BY <2>1, <2>2 DEF TypeInv, TypeOK, Flags
<1>5. fork_dirty' \in Flags
  <2>1. [c \in Children |-> fork_dirty[p][c] \/ (c # p /\ Reached(p, c))] \in [Children -> BOOLEAN]
    OBVIOUS
  <2>2. fork_dirty' = [fork_dirty EXCEPT ![p] = [c \in Children |-> fork_dirty[p][c] \/ (c # p /\ Reached(p, c))]]
    BY DEF Release, TypeInv, TypeOK, Flags
  <2> QED
    BY <2>1, <2>2 DEF TypeInv, TypeOK, Flags
<1>6. has_request' = has_request
  BY DEF Release
<1>7. /\ i' \in [Children -> Nat] /\ \A c \in Children : i'[c] \in 1..(Iterations[c] + 1)
      /\ \A c \in Children \ {p} : i'[c] = i[c]
  BY <1>1 DEF Release, TypeInv, TypeOK, ChildInv, ChildTypeOK
<1>8. /\ pc' \in [Procs -> Label] /\ pc'[p] \in {"loop", "failed"}
      /\ \A c \in Children \ {p} : pc'[c] = pc[c]
  BY DEF Release, Goto, Label, TypeInv, ChildInv, ChildTypeOK
<1> QED
  BY <1>1, <1>2, <1>3, <1>4, <1>5, <1>6, <1>7, <1>8 DEF TypeInv, TypeOK, ChildInv, ChildTypeOK

\* The steps of pa6/mutex.c keep the types.
LEMMA MutexStepType ==
  ASSUME TypeInv, NEW p \in Children, MutexStep(p)
  PROVE  TypeInv'
<1>1. CASE BeginRequest(p) \/ AskAgain(p)
  <2>1. RequestForks(p) /\ i[p] <= Iterations[p]
    BY <1>1 DEF BeginRequest, AskAgain, HasIteration, TypeInv, ChildInv
  <2> QED
    BY <2>1, RequestForksType
<1>2. CASE RequestTakesNothing(p)
  <2>1. /\ i[p] <= Iterations[p] /\ Goto(p, "cs")
        /\ UNCHANGED <<pipes, outbox, lamport_time, from, i, awaiting_children, mutexVars>>
    BY <1>2 DEF RequestTakesNothing, TypeInv, ChildInv
  <2>2. /\ IpcTypeOK' /\ lamport_time' \in [Procs -> Nat]
        /\ has_fork' \in Flags /\ fork_dirty' \in Flags /\ has_request' \in Flags
    BY <2>1 DEF mutexVars, TypeInv, TypeOK, ChildTypeOK, IpcTypeOK
  <2> QED
    BY <2>1, <2>2, RequestLabelType
<1>3. ASSUME NEW f \in Procs \ {p}, RequestTakesOther(p, f) PROVE TypeInv'
  <2>1. /\ Take(p, f, "request", MessageType \ {"CS_REPLY", "CS_REQUEST"}) /\ pc[p] = "request"
        /\ outbox' = outbox /\ UNCHANGED mutexVars /\ CountDone(p, Oldest(p, f), "ask") /\ "ask" \in Label
        /\ ChildTypeOK
    BY <1>3 DEF RequestTakesOther, Take, Label, TypeInv, TypeOK
  <2>2. IpcTypeOK' /\ lamport_time' \in [Procs -> Nat] /\ from' = from /\ i' = i
    BY <1>3, <2>1, ReceivedType DEF RequestTakesOther
  <2>3. /\ pc' \in [Procs -> Label]
        /\ \A c \in Children : pc'[c] \in {"ask", "request", "cs"} => pc[c] \in {"ask", "request", "cs"}
        /\ awaiting_children' \in [Children -> Int]
    BY <2>1, CountDoneType
  <2> QED
    BY <2>1, <2>2, <2>3 DEF mutexVars, TypeInv, TypeOK, ChildInv, ChildTypeOK
<1>4. ASSUME NEW f \in Procs \ {p}, NEW types, DrainTakesOther(p, f, types), UNCHANGED mutexVars
      PROVE  TypeInv'
  BY <1>4, DrainTakesOtherType, SkeletonType DEF TypeInv
<1> QED
  BY <1>1, <1>2, <1>3, <1>4, ReleaseType, TakesReplyType, TakesRequestType, DrainTakesRequestType
  DEF MutexStep

\* The typing is inductive.
LEMMA TypeNext == TypeInv /\ [Next]_vars => TypeInv'
<1> SUFFICES ASSUME TypeInv, [Next]_vars PROVE TypeInv'
  OBVIOUS
<1>1. ASSUME NEW p \in Children, ChildNext(p) PROVE TypeInv'
  BY <1>1, ChildStepType, MutexStepType, SkeletonType DEF ChildNext, TypeInv
<1>2. CASE ParentNext
  BY <1>2, ParentStepType, SkeletonType DEF ParentNext, TypeInv
<1>3. CASE UNCHANGED vars
  BY <1>3 DEF vars, childVars, mutexVars, TypeInv, ChildInv, TypeOK, ChildTypeOK, IpcTypeOK
<1> QED
  BY <1>1, <1>2, <1>3 DEF Next

\* The state of pa6 stays in its type: no child runs more iterations than
\* iterations_count, and the clocks are natural numbers.
THEOREM ForksTypes == Spec => []TypeOK
<1>1. TypeInv => TypeOK
  BY DEF TypeInv
<1> QED
  BY <1>1, TypeInit, TypeNext, PTL DEF Spec

-----------------------------------------------------------------------------
(* The forks.  OneFork is not inductive: that nobody gives up a fork which   *)
(* it does not have, or asks for one twice, depends on the tokens and on the *)
(* order of the messages, so the invariant follows both through the pipes.   *)

\* No reply follows a request.
RequestLast(s) ==
  \A k, l \in 1..Len(s) : s[k].type = "CS_REQUEST" /\ s[l].type = "CS_REPLY" => l < k

GoodTalk(s) ==
  /\ AtMostOne(s, "CS_REQUEST") /\ AtMostOne(s, "CS_REPLY")
  /\ RequestLast(s)
  /\ ~Contains(s, "CS_RELEASE")

Waits(p) == pc[p] \in {"ask", "request"}

\* p is to give its fork up to q, or is doing so.
Owes(p, q) ==
  \/ Carries(q, p, "CS_REQUEST")
  \/ has_fork[p][q] /\ has_request[p][q]
  \/ Carries(p, q, "CS_REPLY")

\* The fork of p and q is in one place and the token in one at most; a fork is asked for
\* where it is or will be, and only by a child that waits for it.
Agreement(p, q) ==
  /\ GoodTalk(Link(p, q))
  /\ \/ has_fork[p][q] \/ has_fork[q][p]
     \/ Carries(p, q, "CS_REPLY") \/ Carries(q, p, "CS_REPLY")
  /\ has_fork[p][q] => ~has_fork[q][p] /\ ~Carries(p, q, "CS_REPLY") /\ ~Carries(q, p, "CS_REPLY")
  /\ Carries(p, q, "CS_REPLY") => ~Carries(q, p, "CS_REPLY")
  /\ has_request[p][q] => /\ ~has_request[q][p]
                          /\ ~Carries(p, q, "CS_REQUEST") /\ ~Carries(q, p, "CS_REQUEST")
  /\ Carries(p, q, "CS_REQUEST") => /\ ~Carries(q, p, "CS_REQUEST")
                                    /\ has_fork[q][p] \/ Carries(p, q, "CS_REPLY")
  /\ Carries(q, p, "CS_REPLY") => ~has_request[p][q] /\ ~Carries(p, q, "CS_REQUEST")
  /\ Owes(q, p) => Waits(p)
  /\ pc[p] = "cs" => has_fork[p][q]
  /\ has_fork[p][q] => fork_dirty[p][q] \/ Waits(p) \/ pc[p] = "cs"

Pairs == \A p \in Children : \A q \in Children \ {p} : Agreement(p, q)

ForkInv == Pairs /\ NoCircle

\* What there is once at most in a sequence is once at most in its tail.
LEMMA AtMostOneTail ==
  ASSUME NEW s \in Seq(Message), s # <<>>, NEW x, AtMostOne(s, x)
  PROVE  AtMostOne(Tail(s), x)
<1> DEFINE t == Tail(s)
<1>1. /\ Len(s) \in Nat \ {0} /\ Len(t) = Len(s) - 1
      /\ \A k \in 1..Len(t) : k + 1 \in 1..Len(s) /\ t[k] = s[k + 1]
  OBVIOUS
<1> HIDE DEF t
<1>2. ASSUME NEW k \in 1..Len(t), NEW l \in 1..Len(t), t[k].type = x, t[l].type = x
      PROVE  k = l
  <2>1. k + 1 = l + 1
    BY <1>1, <1>2 DEF AtMostOne
  <2> QED
    BY <1>1, <2>1
<1> QED
  BY <1>2 DEF AtMostOne, t

\* A step that is not about critical sections.
LEMMA TalkQuiet ==
  ASSUME NEW s \in Seq(Message), NEW t, QuietStep(s, t), GoodTalk(s)
  PROVE  GoodTalk(t)
<1>1. CASE s # <<>> /\ Head(s).type \notin Talk /\ t = Tail(s)
  <2>1. /\ Len(s) \in Nat \ {0} /\ Len(t) = Len(s) - 1
        /\ \A k \in 1..Len(t) : k + 1 \in 1..Len(s) /\ t[k] = s[k + 1]
    BY <1>1
  <2>2. ~Contains(t, "CS_RELEASE")
    <3>1. Contains(t, "CS_RELEASE") => Contains(s, "CS_RELEASE")
      BY <1>1, ContainsTail
    <3> QED
      BY <3>1 DEF GoodTalk
  <2>3. AtMostOne(t, "CS_REQUEST") /\ AtMostOne(t, "CS_REPLY")
    BY <1>1, AtMostOneTail DEF GoodTalk
  <2>4. RequestLast(t)
    <3> SUFFICES ASSUME NEW k \in 1..Len(t), NEW l \in 1..Len(t), t[k].type = "CS_REQUEST", t[l].type = "CS_REPLY"
                 PROVE  l < k
      BY DEF RequestLast
    <3>1. l + 1 < k + 1
      BY <2>1 DEF GoodTalk, RequestLast
    <3> QED
      BY <2>1, <3>1
  <2> QED
    BY <2>2, <2>3, <2>4 DEF GoodTalk
<1>2. ASSUME NEW m \in Message, m.type \notin Talk, t = Append(s, m)
      PROVE  GoodTalk(t)
  <2>1. /\ Len(s) \in Nat /\ Len(t) = Len(s) + 1
        /\ \A k \in 1..Len(t) : (k \in 1..Len(s) /\ t[k] = s[k]) \/ (k = Len(s) + 1 /\ t[k] = m)
    BY <1>2
  <2>2. ~Contains(t, "CS_RELEASE")
    BY <1>2, QuietContains DEF GoodTalk, Talk
  <2>3. m.type # "CS_REQUEST" /\ m.type # "CS_REPLY"
    BY <1>2 DEF Talk
  <2>4. AtMostOne(t, "CS_REQUEST") /\ AtMostOne(t, "CS_REPLY")
    BY <2>1, <2>3 DEF GoodTalk, AtMostOne
  <2>5. RequestLast(t)
    BY <2>1, <2>3 DEF GoodTalk, RequestLast
  <2> QED
    BY <2>2, <2>4, <2>5 DEF GoodTalk
<1> QED
  BY <1>1, <1>2 DEF QuietStep

\* The receive of a request or of a reply: a reply that was sent before the request has
\* been received before it.
LEMMA TalkReceived ==
  ASSUME NEW s \in Seq(Message), s # <<>>, GoodTalk(s), Head(s).type \in {"CS_REQUEST", "CS_REPLY"}
  PROVE  /\ GoodTalk(Tail(s)) /\ Contains(s, Head(s).type) /\ ~Contains(Tail(s), Head(s).type)
         /\ Head(s).type = "CS_REQUEST" => ~Contains(s, "CS_REPLY") /\ ~Contains(Tail(s), "CS_REPLY")
         /\ Head(s).type = "CS_REPLY" => (Contains(Tail(s), "CS_REQUEST") <=> Contains(s, "CS_REQUEST"))
<1> DEFINE t == Tail(s)
<1>1. /\ Len(s) \in Nat \ {0} /\ Len(t) = Len(s) - 1
      /\ Head(s) = s[1] /\ 1 \in 1..Len(s)
      /\ \A k \in 1..Len(t) : k + 1 \in 1..Len(s) /\ t[k] = s[k + 1]
  OBVIOUS
<1>2. \A x : Contains(s, x) <=> Head(s).type = x \/ Contains(t, x)
  BY ContainsTail
<1> HIDE DEF t
<1>3. AtMostOne(t, "CS_REQUEST") /\ AtMostOne(t, "CS_REPLY")
  BY AtMostOneTail DEF GoodTalk, t
<1>4. RequestLast(t)
  <2> SUFFICES ASSUME NEW k \in 1..Len(t), NEW l \in 1..Len(t), t[k].type = "CS_REQUEST", t[l].type = "CS_REPLY"
               PROVE  l < k
    BY DEF RequestLast
  <2>1. l + 1 < k + 1
    BY <1>1 DEF GoodTalk, RequestLast
  <2> QED
    BY <1>1, <2>1
<1>5. ~Contains(t, Head(s).type)
  BY <1>1 DEF GoodTalk, AtMostOne, Contains
<1>6. Head(s).type = "CS_REQUEST" => ~Contains(s, "CS_REPLY")
  BY <1>1 DEF GoodTalk, RequestLast, Contains
<1> HIDE DEF t
<1> QED
  BY <1>2, <1>3, <1>4, <1>5, <1>6 DEF GoodTalk, t

\* The send of a request, and of a reply.
LEMMA TalkSent ==
  ASSUME NEW s \in Seq(Message), GoodTalk(s), NEW m \in Message,
         \/ m.type = "CS_REQUEST" /\ ~Contains(s, "CS_REQUEST")
         \/ m.type = "CS_REPLY" /\ ~Contains(s, "CS_REPLY") /\ ~Contains(s, "CS_REQUEST")
  PROVE  /\ GoodTalk(Append(s, m))
         /\ \A x : Contains(Append(s, m), x) <=> Contains(s, x) \/ m.type = x
<1> DEFINE t == Append(s, m)
<1>1. /\ Len(s) \in Nat /\ Len(t) = Len(s) + 1
      /\ \A k \in 1..Len(t) : (k \in 1..Len(s) /\ t[k] = s[k]) \/ (k = Len(s) + 1 /\ t[k] = m)
  OBVIOUS
<1>2. \A x : Contains(t, x) <=> Contains(s, x) \/ m.type = x
  BY ContainsAppend
<1> HIDE DEF t
<1>3. AtMostOne(t, "CS_REQUEST") /\ AtMostOne(t, "CS_REPLY")
  BY <1>1 DEF GoodTalk, AtMostOne, Contains
<1>4. RequestLast(t)
  BY <1>1 DEF GoodTalk, RequestLast, Contains
<1> QED
  BY <1>2, <1>3, <1>4 DEF GoodTalk, t

\* A step of p has to be looked at from p only.
LEMMA PairsOf ==
  ASSUME Pairs, NEW p \in Children,
         \A a, b \in Children \ {p} : Link(a, b)' = Link(a, b),
         \A c \in Children \ {p} : /\ pc'[c] = pc[c] /\ has_fork'[c] = has_fork[c]
                                   /\ fork_dirty'[c] = fork_dirty[c] /\ has_request'[c] = has_request[c],
         \A c \in Children \ {p} : Agreement(p, c)' /\ Agreement(c, p)'
  PROVE  Pairs'
<1>1. ASSUME NEW a \in Children \ {p}, NEW b \in Children \ {a, p} PROVE Agreement(a, b)'
  <2>1. Agreement(a, b) /\ Link(a, b)' = Link(a, b) /\ Link(b, a)' = Link(b, a)
    BY DEF Pairs
  <2> QED
    BY <2>1 DEF Agreement, Owes, Carries, Waits
<1> QED
  BY <1>1 DEF Pairs

\* A pair between which nothing happens, wherever p goes on.
LEMMA PairKept ==
  ASSUME NEW p \in Children, NEW c \in Children, Agreement(p, c), Agreement(c, p),
         GoodTalk(Link(p, c)'), GoodTalk(Link(c, p)'),
         \A x \in Talk : Carries(p, c, x)' <=> Carries(p, c, x),
         \A x \in Talk : Carries(c, p, x)' <=> Carries(c, p, x),
         has_fork'[p][c] <=> has_fork[p][c], has_fork'[c][p] <=> has_fork[c][p],
         fork_dirty'[p][c] <=> fork_dirty[p][c], fork_dirty'[c][p] <=> fork_dirty[c][p],
         has_request'[p][c] <=> has_request[p][c], has_request'[c][p] <=> has_request[c][p],
         Waits(c)' <=> Waits(c), pc'[c] = "cs" <=> pc[c] = "cs",
         Owes(c, p) => Waits(p)',
         pc'[p] = "cs" => has_fork[p][c],
         has_fork[p][c] => fork_dirty[p][c] \/ Waits(p)' \/ pc'[p] = "cs"
  PROVE  Agreement(p, c)' /\ Agreement(c, p)'
<1>1. \A x \in {"CS_REQUEST", "CS_REPLY"} : /\ Carries(p, c, x)' <=> Carries(p, c, x)
                                            /\ Carries(c, p, x)' <=> Carries(c, p, x)
  BY DEF Talk
<1>2. (Owes(c, p)' <=> Owes(c, p)) /\ (Owes(p, c)' <=> Owes(p, c))
  BY <1>1 DEF Owes
<1>3. Agreement(p, c)'
  BY <1>1, <1>2 DEF Agreement
<1>4. Agreement(c, p)'
  BY <1>1, <1>2 DEF Agreement
<1> QED
  BY <1>3, <1>4

\* A child that has a fork is not given it.
LEMMA HolderIsOwedNothing ==
  ASSUME NEW p \in Children, NEW c \in Children, Agreement(p, c), Agreement(c, p), has_fork[p][c]
  PROVE  ~Owes(c, p)
BY DEF Agreement, Owes

\* Children that yield less than before do not make a circle.
LEMMA CircleKept ==
  ASSUME NoCircle, \A a, b \in Children : a # b /\ Yields(a, b)' => Yields(a, b)
  PROVE  NoCircle'
<1> SUFFICES ASSUME NEW S \in SUBSET Children, S # {}
             PROVE  \E p \in S : \A q \in S \ {p} : ~Yields(p, q)'
  BY DEF NoCircle
<1>1. PICK p \in S : \A q \in S \ {p} : ~Yields(p, q)
  BY DEF NoCircle
<1>2. \A q \in S \ {p} : ~Yields(p, q)'
  BY <1>1
<1> QED
  BY <1>2

\* Nor does a child to which nobody yields.
LEMMA CircleLeft ==
  ASSUME NoCircle, NEW p \in Children,
         \A a, b \in Children \ {p} : a # b /\ Yields(a, b)' => Yields(a, b),
         \A c \in Children \ {p} : ~Yields(c, p)'
  PROVE  NoCircle'
<1> SUFFICES ASSUME NEW S \in SUBSET Children, S # {}
             PROVE  \E r \in S : \A q \in S \ {r} : ~Yields(r, q)'
  BY DEF NoCircle
<1>1. CASE S \ {p} = {}
  BY <1>1
<1>2. CASE S \ {p} # {}
  <2>1. S \ {p} \in SUBSET Children
    OBVIOUS
  <2>2. PICK r \in S \ {p} : \A q \in (S \ {p}) \ {r} : ~Yields(r, q)
    BY <1>2, <2>1 DEF NoCircle
  <2>3. \A q \in S \ {r} : ~Yields(r, q)'
    BY <2>1, <2>2
  <2> QED
    BY <2>2, <2>3
<1> QED
  BY <1>1, <1>2

\* A step that receives and sends messages about critical sections between children only
\* leaves the skeleton as it is.
LEMMA TalkSkeleton ==
  ASSUME ChildInv, SkeletonInv, NEW p \in Children, from' = from, awaiting_children' = awaiting_children,
         \A c \in Procs \ {p} : pc'[c] = pc[c] /\ outbox'[c] = outbox[c],
         \A c \in Children \ {p} : i'[c] = i[c],
         pc[p] \in {"loop", "ask", "request", "cs", "drain"},
         pc'[p] \in {"loop", "ask", "request", "cs", "drain"},
         pc[p] = "drain" <=> pc'[p] = "drain",
         pc[p] = "drain" => i'[p] = i[p] /\ \A d \in Procs : outbox'[p][d] = NoMessage \/ outbox'[p][d].type = "CS_REPLY",
         \A a, b \in Procs :
           \/ Link(a, b)' = Link(a, b)
           \/ /\ a \in Children /\ b \in Children
              /\ Link(a, b) # <<>> /\ Head(Link(a, b)).type \in Talk /\ Link(a, b)' = Tail(Link(a, b))
           \/ /\ a = p /\ b \in Children
              /\ \E m \in Message : m.type \in Talk /\ Link(a, b)' = Append(Link(a, b), m)
  PROVE  SkeletonInv'
<1> USE ProcsFacts
<1>1. ASSUME NEW a \in Children, NEW b \in Children, a # b
      PROVE  /\ SamePhase(Link(a, b), Link(a, b)')
             /\ pc[a] = "start" /\ Link(a, b) = <<>> => Link(a, b)' = <<>>
  <2>1. Link(a, b) \in Seq(Message)
    BY LinkType DEF ChildInv, ChildTypeOK
  <2>2. \/ Link(a, b)' = Link(a, b)
        \/ Link(a, b) # <<>> /\ Head(Link(a, b)).type \in Talk /\ Link(a, b)' = Tail(Link(a, b))
        \/ a = p /\ \E m \in Message : m.type \in Talk /\ Link(a, b)' = Append(Link(a, b), m)
    OBVIOUS
  <2>3. SamePhase(Link(a, b), Link(a, b)')
    BY <2>1, <2>2, TalkPhase
  <2> QED
    BY <2>2, <2>3
<1>2. \A a \in Procs : Link(PARENT_ID, a)' = Link(PARENT_ID, a) /\ Link(a, PARENT_ID)' = Link(a, PARENT_ID)
  OBVIOUS
<1> QED
  BY <1>1, <1>2, TalkStep

-----------------------------------------------------------------------------
(* The steps and the forks *)

\* A reply is sent only to a child that waits for it.
LEMMA ForkAwaited == Pairs => RepliesAwaited
<1> SUFFICES ASSUME Pairs, NEW p \in Children, NEW q \in Children, Carries(p, q, "CS_REPLY"), p # q
             PROVE  pc[q] # "exited"
  BY DEF RepliesAwaited
<1> QED
  BY DEF Pairs, Agreement, Owes, Waits

\* A step that concerns no fork.
LEMMA QuietForks ==
  ASSUME TypeInv, ForkInv, UNCHANGED mutexVars,
         \A a, b \in Children : QuietStep(Link(a, b), Link(a, b)'),
         \A c \in Children : (Waits(c)' <=> Waits(c)) /\ (pc'[c] = "cs" <=> pc[c] = "cs")
  PROVE  ForkInv'
<1>1. ASSUME NEW a \in Children, NEW b \in Children, a # b
      PROVE  /\ GoodTalk(Link(a, b)')
             /\ \A x \in Talk : Carries(a, b, x)' <=> Carries(a, b, x)
  <2>1. Link(a, b) \in Seq(Message) /\ QuietStep(Link(a, b), Link(a, b)') /\ GoodTalk(Link(a, b))
    BY <1>1, ProcsFacts, LinkType DEF TypeInv, TypeOK, ChildTypeOK, ForkInv, Pairs, Agreement
  <2> QED
    BY <2>1, TalkQuiet, QuietContains DEF Carries
<1>2. Pairs'
  <2> SUFFICES ASSUME NEW a \in Children, NEW b \in Children \ {a} PROVE Agreement(a, b)'
    BY DEF Pairs
  <2>1. /\ Agreement(a, b) /\ Agreement(b, a) /\ a # b
        /\ has_fork' = has_fork /\ fork_dirty' = fork_dirty /\ has_request' = has_request
    BY DEF ForkInv, Pairs, mutexVars
  <2>2. /\ Owes(b, a) => Waits(a)'
        /\ pc'[a] = "cs" => has_fork[a][b]
        /\ has_fork[a][b] => fork_dirty[a][b] \/ Waits(a)' \/ pc'[a] = "cs"
    BY <2>1 DEF Agreement
  <2> QED
    BY <1>1, <2>1, <2>2, PairKept
<1>3. NoCircle'
  <2>1. \A a, b \in Children : a # b /\ Yields(a, b)' => Yields(a, b)
    BY <1>1 DEF Yields, mutexVars, Talk
  <2> QED
    BY <2>1, CircleKept DEF ForkInv
<1> QED
  BY <1>2, <1>3 DEF ForkInv

\* request_fork() for every fork that is missing: the child has the token, so the fork is
\* with the other child or on its way there.
LEMMA AskForks ==
  ASSUME TypeInv, SkeletonInv, ForkInv, NEW p \in Children, BeginRequest(p) \/ AskAgain(p)
  PROVE  SkeletonInv' /\ ForkInv'
<1> USE ProcsFacts
<1> DEFINE D == Missing(p)  m == InTurn(D, "CS_REQUEST", lamport_time[p])
<1>0. /\ IpcTypeOK /\ ChildTypeOK /\ pc \in [Procs -> Label] /\ p \in Procs /\ lamport_time[p] \in Nat
      /\ has_request \in [Children -> [Children -> BOOLEAN]]
  BY DEF TypeInv, TypeOK, ChildTypeOK, Flags
<1>1. /\ pc[p] \in {"loop", "ask"} /\ ~Sending(p) /\ Goto(p, "request") /\ pipes' = pipes
      /\ SendInTurn(p, D, "CS_REQUEST", lamport_time[p])
      /\ has_fork' = has_fork /\ fork_dirty' = fork_dirty
      /\ UNCHANGED <<from, i, awaiting_children>>
  BY DEF BeginRequest, AskAgain, RequestForks
<1>2. /\ D \subseteq Children \ {p} /\ D \in SUBSET Procs /\ "CS_REQUEST" \in MessageType
      /\ \A c \in D : ~has_fork[p][c] /\ has_request[p][c]
  BY DEF Missing, MessageType
<1>3. /\ \A c \in Children \ {p} : has_request'[c] = has_request[c]
      /\ \A c \in Children : has_request'[p][c] <=> has_request[p][c] /\ c \notin D
  <2>1. has_request' = [has_request EXCEPT ![p] = [c \in Children |-> has_request[p][c] /\ c \notin D]]
    BY <1>0 DEF BeginRequest, AskAgain, RequestForks
  <2> HIDE DEF D
  <2>2. has_request'[p] = [c \in Children |-> has_request[p][c] /\ c \notin D]
    BY <1>0, <2>1
  <2> QED
    BY <1>0, <2>1, <2>2
<1> HIDE DEF D
<1>4. /\ \A d \in D : m[d] \in Message
      /\ \A a, b \in Procs : Link(a, b)' = IF a = p /\ b \in D THEN Append(Link(a, b), m[b]) ELSE Link(a, b)
      /\ \A c \in Procs \ {p} : outbox'[c] = outbox[c]
  BY <1>0, <1>1, <1>2, SendInTurnLinks DEF m
<1>5. \A d \in D : m[d] \in Message /\ m[d].type = "CS_REQUEST"
  BY <1>4 DEF m, InTurn
<1> HIDE DEF m
<1>6. pc'[p] = "request" /\ \A c \in Procs \ {p} : pc'[c] = pc[c]
  BY <1>0, <1>1 DEF Goto
<1>7. SkeletonInv'
  <2>1. ASSUME NEW a \in Procs, NEW b \in Procs
        PROVE  \/ Link(a, b)' = Link(a, b)
               \/ /\ a = p /\ b \in Children
                  /\ \E n \in Message : n.type \in Talk /\ Link(a, b)' = Append(Link(a, b), n)
    BY <1>2, <1>4, <1>5 DEF Talk
  <2> QED
    BY <1>1, <1>4, <1>6, <2>1, TalkSkeleton DEF TypeInv
<1>8. ASSUME NEW c \in Children \ {p}
      PROVE  /\ Agreement(p, c)' /\ Agreement(c, p)'
             /\ Carries(p, c, "CS_REPLY")' <=> Carries(p, c, "CS_REPLY")
             /\ Carries(c, p, "CS_REPLY")' <=> Carries(c, p, "CS_REPLY")
  <2>1. /\ Agreement(p, c) /\ Agreement(c, p) /\ Link(p, c) \in Seq(Message) /\ Link(c, p)' = Link(c, p)
        /\ has_fork' = has_fork /\ fork_dirty' = fork_dirty /\ has_request'[c] = has_request[c]
        /\ pc'[p] = "request" /\ pc'[c] = pc[c]
    BY <1>0, <1>1, <1>3, <1>4, <1>6, LinkType DEF ForkInv, Pairs
  <2>2. CASE c \notin D
    <3>1. Link(p, c)' = Link(p, c) /\ (has_request'[p][c] <=> has_request[p][c])
      BY <1>3, <1>4, <2>2
    <3>2. GoodTalk(Link(p, c)') /\ GoodTalk(Link(c, p)')
      BY <2>1, <3>1 DEF Agreement
    <3> QED
      BY <2>1, <3>1, <3>2, PairKept DEF Waits, Carries
  <2>3. CASE c \in D
    <3>1. ~has_fork[p][c] /\ has_request[p][c] /\ ~has_request'[p][c] /\ Link(p, c)' = Append(Link(p, c), m[c])
      BY <1>2, <1>3, <1>4, <2>3
    <3>2. ~Carries(p, c, "CS_REQUEST") /\ ~Carries(c, p, "CS_REQUEST") /\ ~Carries(c, p, "CS_REPLY")
      BY <2>1, <3>1 DEF Agreement
    <3>3. /\ GoodTalk(Link(p, c)')
          /\ \A x : Carries(p, c, x)' <=> Carries(p, c, x) \/ x = "CS_REQUEST"
      <4>1. m[c] \in Message /\ m[c].type = "CS_REQUEST" /\ GoodTalk(Link(p, c)) /\ ~Contains(Link(p, c), "CS_REQUEST")
        BY <1>5, <2>1, <2>3, <3>2 DEF Agreement, Carries
      <4> QED
        BY <2>1, <3>1, <4>1, TalkSent DEF Carries
    <3>4. GoodTalk(Link(c, p)') /\ \A x : Carries(c, p, x)' <=> Carries(c, p, x)
      BY <2>1 DEF Agreement, Carries
    <3>5. Agreement(p, c)'
      BY <2>1, <3>1, <3>2, <3>3, <3>4 DEF Agreement, Owes, Waits
    <3>6. Agreement(c, p)'
      BY <2>1, <3>1, <3>2, <3>3, <3>4 DEF Agreement, Owes, Waits
    <3> QED
      BY <3>3, <3>4, <3>5, <3>6
  <2> QED
    BY <2>2, <2>3
<1>9. Pairs'
  <2>1. \A a, b \in Children \ {p} : Link(a, b)' = Link(a, b)
    BY <1>4
  <2> QED
    BY <1>1, <1>3, <1>6, <1>8, <2>1, PairsOf DEF ForkInv
<1>10. NoCircle'
  <2>1. ASSUME NEW a \in Children, NEW b \in Children, a # b PROVE Carries(a, b, "CS_REPLY")' <=> Carries(a, b, "CS_REPLY")
    <3>1. a # p /\ b # p => Link(a, b)' = Link(a, b)
      BY <1>4
    <3> QED
      BY <1>8, <2>1, <3>1 DEF Carries
  <2>2. \A a, b \in Children : a # b /\ Yields(a, b)' => Yields(a, b)
    BY <1>1, <2>1 DEF Yields
  <2> QED
    BY <2>2, CircleKept DEF ForkInv
<1> QED
  BY <1>7, <1>9, <1>10 DEF ForkInv

\* The step of a child that enters with all of its forks.
LEMMA EnterForks ==
  ASSUME TypeInv, SkeletonInv, ForkInv, NEW p \in Children, RequestTakesNothing(p)
  PROVE  SkeletonInv' /\ ForkInv'
<1> USE ProcsFacts
<1>1. /\ pc \in [Procs -> Label] /\ pc[p] = "request" /\ Goto(p, "cs")
      /\ UNCHANGED <<pipes, outbox, lamport_time, from, i, awaiting_children, mutexVars>>
      /\ \A c \in Children \ {p} : has_fork[p][c]
  BY DEF RequestTakesNothing, CanEnter, TypeInv, TypeOK, ChildTypeOK
<1>2. pc'[p] = "cs" /\ \A c \in Procs \ {p} : pc'[c] = pc[c]
  BY <1>1 DEF Goto
<1>3. \A a, b \in Procs : Link(a, b)' = Link(a, b)
  BY <1>1 DEF Link
<1>4. SkeletonInv'
  BY <1>1, <1>2, <1>3, TalkSkeleton DEF TypeInv
<1>5. ASSUME NEW c \in Children \ {p} PROVE Agreement(p, c)' /\ Agreement(c, p)'
  <2>1. /\ Agreement(p, c) /\ Agreement(c, p) /\ Link(p, c)' = Link(p, c) /\ Link(c, p)' = Link(c, p)
        /\ has_fork' = has_fork /\ fork_dirty' = fork_dirty /\ has_request' = has_request /\ has_fork[p][c]
    BY <1>1, <1>3 DEF ForkInv, Pairs, mutexVars
  <2>2. ~Owes(c, p)
    BY <2>1, HolderIsOwedNothing
  <2>3. GoodTalk(Link(p, c)') /\ GoodTalk(Link(c, p)')
    BY <2>1 DEF Agreement
  <2> QED
    BY <1>2, <2>1, <2>2, <2>3, PairKept DEF Waits, Carries
<1>6. Pairs'
  BY <1>1, <1>2, <1>3, <1>5, PairsOf DEF ForkInv, mutexVars
<1>7. NoCircle'
  <2>1. \A a, b \in Children : a # b /\ Yields(a, b)' => Yields(a, b)
    BY <1>1, <1>3 DEF Yields, Carries, mutexVars
  <2> QED
    BY <2>1, CircleKept DEF ForkInv
<1> QED
  BY <1>4, <1>6, <1>7 DEF ForkInv

\* The step of a child that gets a fork: it is clean, so it does not have to be given back.
LEMMA AcceptForks ==
  ASSUME TypeInv, SkeletonInv, ForkInv, NEW p \in Children, NEW f \in Procs \ {p}, RequestTakesReply(p, f)
  PROVE  SkeletonInv' /\ ForkInv'
<1> USE ProcsFacts
<1>0. /\ IpcTypeOK /\ pc \in [Procs -> Label] /\ p \in Procs
      /\ has_fork \in [Children -> [Children -> BOOLEAN]] /\ fork_dirty \in [Children -> [Children -> BOOLEAN]]
  BY DEF TypeInv, TypeOK, ChildTypeOK, Flags
<1>1. /\ Take(p, f, "request", {"CS_REPLY"}) /\ AcceptFork(p, f)
      /\ ReturnIfAll(p, has_fork'[p], fork_dirty'[p], has_request[p])
      /\ UNCHANGED <<outbox, awaiting_children, has_request>>
  BY DEF RequestTakesReply
<1>2. pc[p] = "request" /\ from' = from /\ i' = i
  BY <1>1 DEF Take
<1>3. /\ f \in Children /\ Link(f, p) \in Seq(Message) /\ Link(f, p) # <<>>
      /\ Head(Link(f, p)).type = "CS_REPLY"
      /\ \A a, b \in Procs : Link(a, b)' = IF a = f /\ b = p THEN Tail(Link(a, b)) ELSE Link(a, b)
  BY <1>1, TakeFrom DEF TypeInv
<1>4. /\ has_fork'[p][f] = TRUE /\ fork_dirty'[p][f] = FALSE
      /\ \A c \in Children \ {f} : has_fork'[p][c] = has_fork[p][c] /\ fork_dirty'[p][c] = fork_dirty[p][c]
      /\ \A c \in Children \ {p} : has_fork'[c] = has_fork[c] /\ fork_dirty'[c] = fork_dirty[c]
  BY <1>0, <1>1, <1>3 DEF AcceptFork
<1>5. /\ pc'[p] \in {"ask", "cs"} /\ \A c \in Procs \ {p} : pc'[c] = pc[c]
      /\ pc'[p] = "cs" => \A c \in Children \ {p} : has_fork'[p][c]
  BY <1>0, <1>1 DEF ReturnIfAll, CanEnter, Goto
<1>6. SkeletonInv'
  <2>1. \A a, b \in Procs :
          \/ Link(a, b)' = Link(a, b)
          \/ /\ a \in Children /\ b \in Children
             /\ Link(a, b) # <<>> /\ Head(Link(a, b)).type \in Talk /\ Link(a, b)' = Tail(Link(a, b))
    BY <1>3 DEF Talk
  <2> QED
    BY <1>1, <1>2, <1>5, <2>1, TalkSkeleton DEF TypeInv
<1>7. /\ Agreement(p, f)' /\ Agreement(f, p)'
      /\ Carries(f, p, "CS_REPLY") /\ ~Carries(p, f, "CS_REPLY")'
      /\ ~has_fork[f][p]
  <2>1. Agreement(p, f) /\ Agreement(f, p) /\ Link(p, f)' = Link(p, f) /\ Link(f, p)' = Tail(Link(f, p))
    BY <1>3 DEF ForkInv, Pairs
  <2>2. /\ GoodTalk(Link(f, p)') /\ Carries(f, p, "CS_REPLY") /\ ~Carries(f, p, "CS_REPLY")'
        /\ Carries(f, p, "CS_REQUEST")' <=> Carries(f, p, "CS_REQUEST")
    BY <1>3, <2>1, TalkReceived DEF Agreement, Carries
  <2>3. /\ GoodTalk(Link(p, f)')
        /\ \A x \in {"CS_REQUEST", "CS_REPLY"} : Carries(p, f, x)' <=> Carries(p, f, x)
    BY <2>1 DEF Agreement, Carries
  <2>4. /\ has_request' = has_request /\ has_fork'[p][f] /\ ~fork_dirty'[p][f]
        /\ has_fork'[f] = has_fork[f] /\ fork_dirty'[f] = fork_dirty[f] /\ pc'[f] = pc[f]
    BY <1>1, <1>3, <1>4, <1>5
  <2>5. ~has_fork[p][f] /\ ~has_fork[f][p] /\ ~Carries(p, f, "CS_REPLY") /\ ~has_request[p][f] /\ ~Carries(p, f, "CS_REQUEST")
    BY <2>1, <2>2 DEF Agreement
  <2>6. Agreement(p, f)'
    BY <1>5, <2>1, <2>2, <2>3, <2>4, <2>5 DEF Agreement, Owes, Waits
  <2>7. Agreement(f, p)'
    BY <1>5, <2>1, <2>2, <2>3, <2>4, <2>5 DEF Agreement, Owes, Waits
  <2> QED
    BY <2>2, <2>3, <2>5, <2>6, <2>7
<1>8. ASSUME NEW c \in Children \ {p, f} PROVE Agreement(p, c)' /\ Agreement(c, p)'
  <2>1. /\ Agreement(p, c) /\ Agreement(c, p) /\ Link(p, c)' = Link(p, c) /\ Link(c, p)' = Link(c, p)
        /\ has_request' = has_request /\ has_fork'[p][c] = has_fork[p][c] /\ fork_dirty'[p][c] = fork_dirty[p][c]
        /\ has_fork'[c] = has_fork[c] /\ fork_dirty'[c] = fork_dirty[c] /\ pc'[c] = pc[c]
    BY <1>1, <1>3, <1>4, <1>5 DEF ForkInv, Pairs
  <2>2. has_fork[p][c] => ~Owes(c, p)
    BY <2>1, HolderIsOwedNothing
  <2>3. GoodTalk(Link(p, c)') /\ GoodTalk(Link(c, p)')
    BY <2>1 DEF Agreement
  <2> QED
    BY <1>5, <2>1, <2>2, <2>3, PairKept DEF Waits, Carries
<1>9. Pairs'
  <2>1. \A a, b \in Children \ {p} : Link(a, b)' = Link(a, b)
    BY <1>3
  <2> QED
    BY <1>1, <1>4, <1>5, <1>7, <1>8, <2>1, PairsOf DEF ForkInv
<1>10. NoCircle'
  <2> SUFFICES ASSUME NEW a \in Children, NEW b \in Children, a # b, Yields(a, b)'
               PROVE  Yields(a, b)
    BY CircleKept DEF ForkInv
  <2>1. CASE {a, b} = {p, f}
    BY <1>3, <1>4, <1>7, <2>1, SMTT(30) DEF Yields
  <2>2. CASE {a, b} # {p, f}
    <3>1. Link(a, b)' = Link(a, b)
      BY <1>3, <2>2
    <3>2. /\ has_fork'[a][b] = has_fork[a][b] /\ has_fork'[b][a] = has_fork[b][a]
          /\ fork_dirty'[a][b] = fork_dirty[a][b] /\ fork_dirty'[b][a] = fork_dirty[b][a]
      BY <1>4, <2>2
    <3> QED
      BY <3>1, <3>2 DEF Yields, Carries
  <2> QED
    BY <2>1, <2>2
<1> QED
  BY <1>6, <1>9, <1>10 DEF ForkInv

\* A request that is received comes to the fork, and only one reply follows it.
LEMMA RequestMeetsFork ==
  ASSUME TypeInv, NEW p \in Children, NEW f \in Children, Agreement(p, f), Agreement(f, p),
         Link(f, p) # <<>>, Head(Link(f, p)).type = "CS_REQUEST"
  PROVE  /\ Carries(f, p, "CS_REQUEST") /\ has_fork[p][f] /\ Waits(f)
         /\ GoodTalk(Tail(Link(f, p)))
         /\ \A x \in {"CS_REQUEST", "CS_REPLY"} : ~Contains(Tail(Link(f, p)), x)
         /\ ~has_request[p][f] /\ ~has_request[f][p] /\ ~has_fork[f][p]
         /\ ~Carries(p, f, "CS_REQUEST") /\ ~Carries(p, f, "CS_REPLY") /\ ~Carries(f, p, "CS_REPLY")
<1>1. Link(f, p) \in Seq(Message)
  BY ProcsFacts, LinkType DEF TypeInv, TypeOK, ChildTypeOK
<1>2. /\ Contains(Link(f, p), "CS_REQUEST") /\ ~Contains(Link(f, p), "CS_REPLY")
      /\ GoodTalk(Tail(Link(f, p)))
      /\ \A x \in {"CS_REQUEST", "CS_REPLY"} : ~Contains(Tail(Link(f, p)), x)
  BY <1>1, TalkReceived DEF Agreement
<1>3. Carries(f, p, "CS_REQUEST") /\ ~Carries(f, p, "CS_REPLY")
  BY <1>2 DEF Carries
<1>4. has_fork[p][f] /\ Waits(f)
  BY <1>3 DEF Agreement, Owes
<1> QED
  BY <1>2, <1>3, <1>4 DEF Agreement

\* A dirty fork that is given up on such a request goes where its owner yields.
LEMMA ForkGiven ==
  ASSUME TypeInv, NEW p \in Children, NEW f \in Children, p # f, Agreement(p, f), Agreement(f, p),
         Link(f, p) # <<>>, Head(Link(f, p)).type = "CS_REQUEST", fork_dirty[p][f],
         NEW m \in Message, m.type = "CS_REPLY",
         Link(f, p)' = Tail(Link(f, p)), Link(p, f)' = Append(Link(p, f), m),
         ~has_fork'[p][f], has_fork'[f] = has_fork[f], has_request'[f] = has_request[f],
         fork_dirty'[f] = fork_dirty[f], pc'[f] = pc[f], pc'[p] # "cs"
  PROVE  /\ Agreement(p, f)' /\ Agreement(f, p)'
         /\ ~Yields(f, p)' /\ Yields(p, f)
<1>1. /\ Carries(f, p, "CS_REQUEST") /\ has_fork[p][f] /\ Waits(f)
      /\ GoodTalk(Tail(Link(f, p)))
      /\ \A x \in {"CS_REQUEST", "CS_REPLY"} : ~Contains(Tail(Link(f, p)), x)
      /\ ~has_request[p][f] /\ ~has_request[f][p] /\ ~has_fork[f][p]
      /\ ~Carries(p, f, "CS_REQUEST") /\ ~Carries(p, f, "CS_REPLY") /\ ~Carries(f, p, "CS_REPLY")
  BY RequestMeetsFork
<1>2. GoodTalk(Link(f, p)') /\ ~Carries(f, p, "CS_REQUEST")' /\ ~Carries(f, p, "CS_REPLY")'
  BY <1>1 DEF Carries
<1>3. GoodTalk(Link(p, f)') /\ Carries(p, f, "CS_REPLY")' /\ ~Carries(p, f, "CS_REQUEST")'
  <2>1. Link(p, f) \in Seq(Message)
    BY ProcsFacts, LinkType DEF TypeInv, TypeOK, ChildTypeOK
  <2>2. GoodTalk(Link(p, f)) /\ ~Contains(Link(p, f), "CS_REPLY") /\ ~Contains(Link(p, f), "CS_REQUEST")
    BY <1>1 DEF Agreement, Carries
  <2>3. /\ GoodTalk(Append(Link(p, f), m))
        /\ \A x : Contains(Append(Link(p, f), m), x) <=> Contains(Link(p, f), x) \/ m.type = x
    BY <2>1, <2>2, TalkSent
  <2> QED
    BY <2>2, <2>3 DEF Carries
<1>4. Waits(f)' /\ ~has_request'[f][p] /\ ~has_fork'[f][p] /\ pc'[f] # "cs"
  BY <1>1 DEF Waits
<1>5. Agreement(p, f)'
  BY <1>2, <1>3, <1>4 DEF Agreement, Owes
<1>6. Agreement(f, p)'
  BY <1>2, <1>3, <1>4 DEF Agreement, Owes
<1> QED
  BY <1>1, <1>2, <1>4, <1>5, <1>6 DEF Yields

\* A clean fork is kept, and the token with it.
LEMMA ForkWithheld ==
  ASSUME TypeInv, NEW p \in Children, NEW f \in Children, p # f, Agreement(p, f), Agreement(f, p),
         Link(f, p) # <<>>, Head(Link(f, p)).type = "CS_REQUEST",
         Link(f, p)' = Tail(Link(f, p)), Link(p, f)' = Link(p, f),
         has_fork'[p][f] <=> has_fork[p][f], has_fork'[f] = has_fork[f], has_request'[f] = has_request[f],
         has_request'[p][f], fork_dirty' = fork_dirty, pc'[f] = pc[f],
         Waits(p)' \/ pc'[p] = "cs"
  PROVE  Agreement(p, f)' /\ Agreement(f, p)'
<1>1. /\ Carries(f, p, "CS_REQUEST") /\ has_fork[p][f] /\ Waits(f)
      /\ GoodTalk(Tail(Link(f, p)))
      /\ \A x \in {"CS_REQUEST", "CS_REPLY"} : ~Contains(Tail(Link(f, p)), x)
      /\ ~has_request[p][f] /\ ~has_request[f][p] /\ ~has_fork[f][p]
      /\ ~Carries(p, f, "CS_REQUEST") /\ ~Carries(p, f, "CS_REPLY") /\ ~Carries(f, p, "CS_REPLY")
  BY RequestMeetsFork
<1>2. GoodTalk(Link(f, p)') /\ ~Carries(f, p, "CS_REQUEST")' /\ ~Carries(f, p, "CS_REPLY")'
  BY <1>1 DEF Carries
<1>3. GoodTalk(Link(p, f)') /\ ~Carries(p, f, "CS_REPLY")' /\ ~Carries(p, f, "CS_REQUEST")'
  BY <1>1 DEF Carries, Agreement
<1>4. Waits(f)' /\ ~has_request'[f][p] /\ ~has_fork'[f][p] /\ pc'[f] # "cs"
  BY <1>1 DEF Waits
<1>5. Agreement(p, f)'
  BY <1>1, <1>2, <1>3, <1>4 DEF Agreement, Owes
<1>6. Agreement(f, p)'
  BY <1>1, <1>2, <1>3, <1>4 DEF Agreement, Owes
<1> QED
  BY <1>5, <1>6

\* What is left to show of a step of p in which it gives its fork to f, once the links and
\* the labels are known.
LEMMA GivingStep ==
  ASSUME TypeInv, ForkInv, NEW p \in Children, NEW f \in Children \ {p},
         Link(f, p) # <<>>, Head(Link(f, p)).type = "CS_REQUEST", fork_dirty[p][f],
         NEW m \in Message, m.type = "CS_REPLY",
         \A a, b \in Procs : Link(a, b)' = IF a = f /\ b = p THEN Tail(Link(a, b))
                                           ELSE IF a = p /\ b = f THEN Append(Link(a, b), m)
                                           ELSE Link(a, b),
         has_fork' = [has_fork EXCEPT ![p][f] = FALSE], fork_dirty' = fork_dirty,
         \A c \in Children \ {f} : has_request'[p][c] = has_request[p][c],
         \A c \in Children \ {p} : has_request'[c] = has_request[c] /\ pc'[c] = pc[c],
         pc'[p] # "cs", pc[p] # "cs", Waits(p)' <=> Waits(p)
  PROVE  ForkInv'
<1> USE ProcsFacts
<1>1. /\ ~has_fork'[p][f] /\ \A c \in Children \ {p} : has_fork'[c] = has_fork[c]
      /\ \A c \in Children \ {f} : has_fork'[p][c] = has_fork[p][c]
  BY DEF TypeInv, TypeOK, Flags
<1>2. Agreement(p, f)' /\ Agreement(f, p)' /\ ~Yields(f, p)' /\ Yields(p, f)
  <2>1. Agreement(p, f) /\ Agreement(f, p) /\ p # f
    BY DEF ForkInv, Pairs
  <2>2. Link(f, p)' = Tail(Link(f, p)) /\ Link(p, f)' = Append(Link(p, f), m)
    OBVIOUS
  <2>3. /\ ~has_fork'[p][f] /\ has_fork'[f] = has_fork[f] /\ has_request'[f] = has_request[f]
        /\ fork_dirty'[f] = fork_dirty[f] /\ pc'[f] = pc[f]
    BY <1>1
  <2> QED
    BY <2>1, <2>2, <2>3, ForkGiven
<1>3. ASSUME NEW c \in Children \ {p, f} PROVE Agreement(p, c)' /\ Agreement(c, p)'
  <2>1. /\ Agreement(p, c) /\ Agreement(c, p) /\ Link(p, c)' = Link(p, c) /\ Link(c, p)' = Link(c, p)
        /\ has_request'[p][c] = has_request[p][c] /\ has_request'[c] = has_request[c]
        /\ has_fork'[p][c] = has_fork[p][c] /\ has_fork'[c] = has_fork[c] /\ pc'[c] = pc[c]
    <3>1. c \in Children \ {p} /\ c \in Children \ {f} /\ c \in Procs /\ p \in Procs /\ c # p /\ c # f
      OBVIOUS
    <3>2. Agreement(p, c) /\ Agreement(c, p)
      BY <3>1 DEF ForkInv, Pairs
    <3>3. Link(p, c)' = Link(p, c) /\ Link(c, p)' = Link(c, p)
      BY <3>1
    <3> QED
      BY <1>1, <3>1, <3>2, <3>3
  <2>2. /\ Owes(c, p) => Waits(p)'
        /\ has_fork[p][c] => fork_dirty[p][c] \/ Waits(p)'
        /\ GoodTalk(Link(p, c)') /\ GoodTalk(Link(c, p)')
    BY <2>1 DEF Agreement
  <2>3. /\ \A x \in Talk : Carries(p, c, x)' <=> Carries(p, c, x)
        /\ \A x \in Talk : Carries(c, p, x)' <=> Carries(c, p, x)
    BY <2>1 DEF Carries
  <2>4. /\ Waits(c)' <=> Waits(c)
        /\ pc'[c] = "cs" <=> pc[c] = "cs"
    BY <2>1 DEF Waits
  <2>5. /\ has_fork'[p][c] <=> has_fork[p][c]
        /\ has_fork'[c][p] <=> has_fork[c][p]
        /\ fork_dirty'[p][c] <=> fork_dirty[p][c]
        /\ fork_dirty'[c][p] <=> fork_dirty[c][p]
        /\ has_request'[p][c] <=> has_request[p][c]
        /\ has_request'[c][p] <=> has_request[c][p]
    BY <2>1
  <2>6. p \in Children /\ c \in Children /\ pc'[p] # "cs"
    OBVIOUS
  <2> QED
    BY ONLY <2>1, <2>2, <2>3, <2>4, <2>5, <2>6, PairKept
<1>4. Pairs'
  <2>1. \A a, b \in Children \ {p} : Link(a, b)' = Link(a, b)
    OBVIOUS
  <2> QED
    BY <1>1, <1>2, <1>3, <2>1, PairsOf DEF ForkInv
<1>5. NoCircle'
  <2> SUFFICES ASSUME NEW a \in Children, NEW b \in Children, a # b, Yields(a, b)'
               PROVE  Yields(a, b)
    BY CircleKept DEF ForkInv
  <2>1. CASE (a = p /\ b = f) \/ (a = f /\ b = p)
    BY <1>2, <2>1
  <2>2. CASE ~(a = p /\ b = f) /\ ~(a = f /\ b = p)
    <3>1. Link(a, b)' = Link(a, b)
      BY <2>2
    <3>2. \A x, y \in Children : ~(x = p /\ y = f) => has_fork'[x][y] = has_fork[x][y]
      BY <1>1
    <3>3. has_fork'[a][b] = has_fork[a][b] /\ has_fork'[b][a] = has_fork[b][a]
      BY <2>2, <3>2
    <3> QED
      BY <3>1, <3>3 DEF Yields, Carries
  <2> QED
    BY <2>1, <2>2
<1> QED
  BY <1>4, <1>5 DEF ForkInv

\* The receive of a request in request_cs(): a dirty fork is given up, a clean one kept.
LEMMA GiveForks ==
  ASSUME TypeInv, SkeletonInv, ForkInv, NEW p \in Children, NEW f \in Procs \ {p}, RequestTakesRequest(p, f)
  PROVE  SkeletonInv' /\ ForkInv'
<1> USE ProcsFacts
<1> DEFINE now == Synchronized(lamport_time[p], Oldest(p, f).time)
           give == has_fork[p][f] /\ fork_dirty[p][f]
           D == IF give THEN {f} ELSE {}
<1>0. /\ IpcTypeOK /\ ChildTypeOK /\ pc \in [Procs -> Label] /\ p \in Procs
      /\ has_fork \in [Children -> [Children -> BOOLEAN]] /\ has_request \in [Children -> [Children -> BOOLEAN]]
  BY DEF TypeInv, TypeOK, ChildTypeOK, Flags
<1>1. /\ Take(p, f, "request", {"CS_REQUEST"}) /\ SendInTurn(p, D, "CS_REPLY", now)
      /\ has_request' = [has_request EXCEPT ![p][f] = TRUE]
      /\ has_fork' = [has_fork EXCEPT ![p][f] = @ /\ ~give]
      /\ ReturnIfAll(p, has_fork'[p], fork_dirty[p], has_request'[p])
      /\ awaiting_children' = awaiting_children /\ fork_dirty' = fork_dirty
  BY DEF RequestTakesRequest
<1>2. pc[p] = "request" /\ from' = from /\ i' = i /\ ~Sending(p) /\ receive(p, f)
  BY <1>1 DEF Take
<1>3. /\ f \in Children /\ Link(f, p) \in Seq(Message) /\ Link(f, p) # <<>>
      /\ Head(Link(f, p)).type = "CS_REQUEST"
      /\ outbox' = outbox => \A a, b \in Procs : Link(a, b)' = IF a = f /\ b = p THEN Tail(Link(a, b)) ELSE Link(a, b)
  BY <1>1, TakeFrom DEF TypeInv
<1>4. now \in Nat
  BY <1>1, ReceivedType
<1>5. /\ has_request'[p][f] = TRUE
      /\ \A c \in Children \ {f} : has_request'[p][c] = has_request[p][c]
      /\ \A c \in Children \ {p} : has_request'[c] = has_request[c]
  BY <1>0, <1>1, <1>3
<1>6. /\ pc'[p] \in {"ask", "cs"} /\ \A c \in Procs \ {p} : pc'[c] = pc[c]
      /\ pc'[p] = "cs" => \A c \in Children \ {p} : has_fork'[p][c]
  BY <1>0, <1>1 DEF ReturnIfAll, CanEnter, Goto
<1>7. Agreement(p, f) /\ Agreement(f, p) /\ p # f /\ has_fork[p][f]
  BY <1>3, RequestMeetsFork DEF ForkInv, Pairs
<1> HIDE DEF now
<1>8. CASE give
  <2>1. D = {f} /\ SendInTurn(p, {f}, "CS_REPLY", now)
    BY <1>1, <1>8
  <2> DEFINE m == [type |-> "CS_REPLY", time |-> now + 1]
  <2>2. send(p, f, m) /\ m \in Message /\ m.type = "CS_REPLY"
    <3>1. m \in Message /\ m.type = "CS_REPLY"
      BY <1>4 DEF Message, MessageType
    <3>2. send(p, f, m)
      BY <1>3, <1>4, <2>1, SendOne
    <3> QED
      BY <3>1, <3>2
  <2> HIDE DEF m
  <2>3. \A a, b \in Procs : Link(a, b)' = IF a = f /\ b = p THEN Tail(Link(a, b))
                                          ELSE IF a = p /\ b = f THEN Append(Link(a, b), m)
                                          ELSE Link(a, b)
    BY <1>0, <1>2, <1>7, <2>2, LinkReceiveSend
  <2>4. has_fork' = [has_fork EXCEPT ![p][f] = FALSE]
    BY <1>1, <1>8
  <2>5. ~has_fork'[p][f]
    BY <1>0, <1>3, <2>4
  <2>6. pc'[p] = "ask"
    BY <1>3, <1>6, <1>7, <2>5
  <2>7. ForkInv'
    <3>1. /\ f \in Children \ {p} /\ fork_dirty[p][f] /\ pc'[p] # "cs" /\ pc[p] # "cs"
          /\ Waits(p)' <=> Waits(p)
      BY <1>2, <1>3, <1>7, <1>8, <2>6 DEF Waits
    <3>2. \A c \in Children \ {p} : has_request'[c] = has_request[c] /\ pc'[c] = pc[c]
      BY <1>5, <1>6
    <3>3. /\ TypeInv /\ ForkInv /\ p \in Children /\ m \in Message
          /\ Link(f, p) # <<>> /\ Head(Link(f, p)).type = "CS_REQUEST" /\ m.type = "CS_REPLY"
          /\ fork_dirty' = fork_dirty /\ \A c \in Children \ {f} : has_request'[p][c] = has_request[p][c]
      BY <1>1, <1>3, <1>5, <2>2
    <3> QED
      BY ONLY <2>3, <2>4, <3>1, <3>2, <3>3, GivingStep
  <2>8. SkeletonInv'
    <3>1. \A c \in Procs \ {p} : outbox'[c] = outbox[c]
      BY <1>0, <2>2 DEF send, Post, IpcTypeOK
    <3>2. ASSUME NEW a \in Procs, NEW b \in Procs
          PROVE  \/ Link(a, b)' = Link(a, b)
                 \/ /\ a \in Children /\ b \in Children
                    /\ Link(a, b) # <<>> /\ Head(Link(a, b)).type \in Talk /\ Link(a, b)' = Tail(Link(a, b))
                 \/ /\ a = p /\ b \in Children
                    /\ \E n \in Message : n.type \in Talk /\ Link(a, b)' = Append(Link(a, b), n)
      BY <1>3, <2>2, <2>3 DEF Talk
    <3> QED
      BY <1>1, <1>2, <1>6, <3>1, <3>2, TalkSkeleton DEF TypeInv
  <2> QED
    BY <2>7, <2>8
<1>9. CASE ~give
  <2>1. D = {} /\ SendInTurn(p, D, "CS_REPLY", now)
    BY <1>1, <1>9
  <2>2. outbox' = outbox
    <3> HIDE DEF D
    <3> QED
      BY <1>0, <1>2, <1>4, <2>1, SendNone
  <2>3. \A a, b \in Procs : Link(a, b)' = IF a = f /\ b = p THEN Tail(Link(a, b)) ELSE Link(a, b)
    BY <1>3, <2>2
  <2>4. has_fork' = has_fork
    <3>1. has_fork[p][f] /\ ~give <=> has_fork[p][f]
      BY <1>9
    <3>2. has_fork[p] = [c \in Children |-> has_fork[p][c]] /\ has_fork[p] \in [Children -> BOOLEAN]
      BY <1>0
    <3>3. (has_fork[p][f] /\ ~give) = has_fork[p][f]
      BY <1>0, <1>3, <3>1, <3>2
    <3> HIDE DEF give
    <3>4. has_fork' = [has_fork EXCEPT ![p] = [has_fork[p] EXCEPT ![f] = has_fork[p][f]]]
      BY <1>1, <3>3
    <3>5. [has_fork[p] EXCEPT ![f] = has_fork[p][f]] = has_fork[p]
      BY <1>3, <3>2
    <3> QED
      BY <1>0, <3>4, <3>5
  <2>5. pc[p] # "cs" /\ (Waits(p)' \/ pc'[p] = "cs") /\ (pc'[p] = "cs" => \A c \in Children \ {p} : has_fork[p][c])
    BY <1>2, <1>6, <2>4 DEF Waits
  <2>6. Agreement(p, f)' /\ Agreement(f, p)'
    <3>1. Link(f, p)' = Tail(Link(f, p)) /\ Link(p, f)' = Link(p, f)
      BY <1>0, <1>3, <1>7, <2>3
    <3>2. /\ has_fork'[f] = has_fork[f] /\ has_request'[f] = has_request[f] /\ has_request'[p][f] /\ pc'[f] = pc[f]
          /\ has_fork'[p][f] <=> has_fork[p][f]
      BY <1>3, <1>5, <1>6, <1>7, <2>4
    <3> HIDE DEF give, D
    <3> QED
      BY <1>1, <1>3, <1>7, <2>5, <3>1, <3>2, ForkWithheld
  <2>7. ASSUME NEW c \in Children \ {p, f} PROVE Agreement(p, c)' /\ Agreement(c, p)'
    <3>1. p \in Children /\ c \in Children /\ c \in Procs /\ f \in Children /\ c # p /\ c # f
      BY <1>3
    <3>2. Agreement(p, c) /\ Agreement(c, p)
      BY <3>1 DEF ForkInv, Pairs
    <3>3. Link(p, c)' = Link(p, c) /\ Link(c, p)' = Link(c, p)
      BY <1>0, <2>3, <3>1
    <3>4. /\ \A x \in Talk : Carries(p, c, x)' <=> Carries(p, c, x)
          /\ \A x \in Talk : Carries(c, p, x)' <=> Carries(c, p, x)
          /\ GoodTalk(Link(p, c)') /\ GoodTalk(Link(c, p)')
      BY <3>2, <3>3 DEF Carries, Agreement
    <3>5. /\ has_fork'[p][c] <=> has_fork[p][c]
          /\ has_fork'[c][p] <=> has_fork[c][p]
          /\ fork_dirty'[p][c] <=> fork_dirty[p][c]
          /\ fork_dirty'[c][p] <=> fork_dirty[c][p]
          /\ has_request'[p][c] <=> has_request[p][c]
          /\ has_request'[c][p] <=> has_request[c][p]
      BY <1>1, <1>5, <2>4, <3>1
    <3>6. /\ Waits(c)' <=> Waits(c)
          /\ pc'[c] = "cs" <=> pc[c] = "cs"
      BY <1>6, <3>1 DEF Waits
    <3>7. /\ Owes(c, p) => Waits(p)'
          /\ pc'[p] = "cs" => has_fork[p][c]
          /\ has_fork[p][c] => fork_dirty[p][c] \/ Waits(p)' \/ pc'[p] = "cs"
      BY <2>5, <3>1, <3>2, HolderIsOwedNothing
    <3> QED
      BY ONLY <3>1, <3>2, <3>4, <3>5, <3>6, <3>7, PairKept
  <2>8. Pairs'
    <3>1. \A a, b \in Children \ {p} : Link(a, b)' = Link(a, b)
      BY <2>3
    <3>2. \A c \in Children \ {p} : /\ pc'[c] = pc[c] /\ has_fork'[c] = has_fork[c]
                                    /\ fork_dirty'[c] = fork_dirty[c] /\ has_request'[c] = has_request[c]
      BY <1>1, <1>5, <1>6, <2>4
    <3>3. \A c \in Children \ {p} : Agreement(p, c)' /\ Agreement(c, p)'
      BY <2>6, <2>7
    <3> QED
      BY <3>1, <3>2, <3>3, PairsOf DEF ForkInv
  <2>9. NoCircle'
    <3> SUFFICES ASSUME NEW a \in Children, NEW b \in Children, a # b, Yields(a, b)'
                 PROVE  Yields(a, b)
      BY CircleKept DEF ForkInv
    <3>1. Carries(a, b, "CS_REPLY")' => Carries(a, b, "CS_REPLY")
      BY <1>3, <2>3, ContainsTail DEF Carries
    <3> QED
      BY <1>1, <2>4, <3>1 DEF Yields
  <2>10. SkeletonInv'
    <3>1. \A a, b \in Procs :
            \/ Link(a, b)' = Link(a, b)
            \/ /\ a \in Children /\ b \in Children
               /\ Link(a, b) # <<>> /\ Head(Link(a, b)).type \in Talk /\ Link(a, b)' = Tail(Link(a, b))
      BY <1>3, <2>3 DEF Talk
    <3> QED
      BY <1>1, <1>2, <1>6, <2>2, <3>1, TalkSkeleton DEF TypeInv
  <2> QED
    BY <2>8, <2>9, <2>10 DEF ForkInv
<1> QED
  BY <1>8, <1>9

\* The receive of a request after the last iteration: the child has the fork, and has
\* used it, so the assert of give_up_fork() holds.
LEMMA DrainForks ==
  ASSUME TypeInv, SkeletonInv, ForkInv, NEW p \in Children, NEW f \in Procs \ {p}, DrainTakesRequest(p, f)
  PROVE  SkeletonInv' /\ ForkInv' /\ pc'[p] = "drain"
<1> USE ProcsFacts
<1> DEFINE now == Synchronized(lamport_time[p], Oldest(p, f).time)
           m == [type |-> "CS_REPLY", time |-> now + 1]
<1>0. /\ IpcTypeOK /\ ChildTypeOK /\ pc \in [Procs -> Label] /\ p \in Procs
      /\ has_fork \in [Children -> [Children -> BOOLEAN]]
  BY DEF TypeInv, TypeOK, ChildTypeOK, Flags
<1>1. /\ Take(p, f, "drain", {"CS_REQUEST"}) /\ awaiting_children' = awaiting_children
      /\ has_fork' = [has_fork EXCEPT ![p][f] = FALSE] /\ UNCHANGED <<fork_dirty, has_request>>
      /\ has_fork[p][f] => SendInTurn(p, {f}, "CS_REPLY", now) /\ UNCHANGED pc
  BY DEF DrainTakesRequest
<1>2. pc[p] = "drain" /\ from' = from /\ i' = i /\ ~Sending(p) /\ receive(p, f)
  BY <1>1 DEF Take
<1>3. /\ f \in Children /\ Link(f, p) \in Seq(Message) /\ Link(f, p) # <<>>
      /\ Head(Link(f, p)).type = "CS_REQUEST"
  BY <1>1, TakeFrom DEF TypeInv
<1>4. now \in Nat
  BY <1>1, ReceivedType
<1>5. Agreement(p, f) /\ Agreement(f, p) /\ p # f /\ has_fork[p][f]
  BY <1>3, RequestMeetsFork DEF ForkInv, Pairs
<1>6. fork_dirty[p][f]
  BY <1>2, <1>5 DEF Agreement, Waits
<1>7. /\ SendInTurn(p, {f}, "CS_REPLY", now) /\ has_fork' = [has_fork EXCEPT ![p][f] = FALSE]
      /\ pc' = pc /\ fork_dirty' = fork_dirty /\ has_request' = has_request
  BY <1>1, <1>5
<1> HIDE DEF now
<1>8. m \in Message /\ m.type = "CS_REPLY"
  BY <1>4 DEF Message, MessageType
<1>9. send(p, f, m)
  BY <1>3, <1>4, <1>7, SendOne
<1> HIDE DEF m
<1>10. \A a, b \in Procs : Link(a, b)' = IF a = f /\ b = p THEN Tail(Link(a, b))
                                         ELSE IF a = p /\ b = f THEN Append(Link(a, b), m)
                                         ELSE Link(a, b)
  BY <1>0, <1>2, <1>5, <1>8, <1>9, LinkReceiveSend
<1>11. ForkInv'
  <2>1. /\ f \in Children \ {p} /\ pc'[p] # "cs" /\ pc[p] # "cs"
        /\ Waits(p)' <=> Waits(p)
    BY <1>2, <1>3, <1>7 DEF Waits
  <2> QED
    BY <1>3, <1>6, <1>7, <1>8, <1>10, <2>1, GivingStep
<1>12. SkeletonInv'
  <2>1. /\ \A c \in Procs \ {p} : outbox'[c] = outbox[c]
        /\ \A d \in Procs : outbox'[p][d] = NoMessage \/ outbox'[p][d].type = "CS_REPLY"
    BY <1>0, <1>8, <1>9 DEF send, Post, IpcTypeOK
  <2>2. ASSUME NEW a \in Procs, NEW b \in Procs
        PROVE  \/ Link(a, b)' = Link(a, b)
               \/ /\ a \in Children /\ b \in Children
                  /\ Link(a, b) # <<>> /\ Head(Link(a, b)).type \in Talk /\ Link(a, b)' = Tail(Link(a, b))
               \/ /\ a = p /\ b \in Children
                  /\ \E n \in Message : n.type \in Talk /\ Link(a, b)' = Append(Link(a, b), n)
    BY <1>3, <1>8, <1>10 DEF Talk
  <2> QED
    BY <1>1, <1>2, <1>7, <2>1, <2>2, TalkSkeleton DEF TypeInv
<1> QED
  BY <1>2, <1>7, <1>11, <1>12

\* release_cs(): the child has all of its forks, so the assert of give_up_fork() holds and
\* nobody yields to it afterwards.
LEMMA ReleaseForks ==
  ASSUME TypeInv, SkeletonInv, ForkInv, NEW p \in Children, Release(p)
  PROVE  SkeletonInv' /\ ForkInv' /\ pc'[p] = "loop"
<1> USE ProcsFacts
<1> DEFINE D == Wanted(p)  m == InTurn(D, "CS_REPLY", lamport_time[p])
<1>0. /\ IpcTypeOK /\ ChildTypeOK /\ pc \in [Procs -> Label] /\ p \in Procs /\ lamport_time[p] \in Nat
      /\ has_fork \in [Children -> [Children -> BOOLEAN]] /\ i \in [Children -> Nat]
      /\ fork_dirty \in [Children -> [Children -> BOOLEAN]]
  BY DEF TypeInv, TypeOK, ChildTypeOK, Flags
<1>1. /\ pc[p] = "cs" /\ ~Sending(p)
      /\ \A c \in Children \ {p} : Agreement(p, c) /\ Agreement(c, p) /\ has_fork[p][c]
  BY DEF Release, InCS, ForkInv, Pairs, Agreement
<1>2. /\ D \subseteq Children \ {p} /\ D \in SUBSET Procs /\ "CS_REPLY" \in MessageType
      /\ \A c \in Children \ {p} : c \in D <=> has_request[p][c]
  BY DEF Wanted, MessageType
<1>3. /\ SendInTurn(p, D, "CS_REPLY", lamport_time[p])
      /\ has_fork' = [has_fork EXCEPT ![p] = [c \in Children |-> has_fork[p][c] /\ c \notin D]]
      /\ fork_dirty' = [fork_dirty EXCEPT ![p] = [c \in Children |-> fork_dirty[p][c] \/ c # p]]
      /\ Goto(p, "loop") /\ i' = [i EXCEPT ![p] = @ + 1] /\ has_request' = has_request
      /\ pipes' = pipes /\ from' = from /\ awaiting_children' = awaiting_children
  <2>1. \A c \in Children : Reached(p, c)
    BY <1>1, <1>2 DEF Reached
  <2>2. Given(p) = Wanted(p)
    BY <1>1, <1>2, <2>1 DEF Given
  <2>3. /\ SendInTurn(p, D, "CS_REPLY", lamport_time[p])
        /\ Goto(p, "loop") /\ i' = [i EXCEPT ![p] = @ + 1] /\ has_request' = has_request
        /\ pipes' = pipes /\ from' = from /\ awaiting_children' = awaiting_children
    BY <2>2 DEF Release
  <2>4. has_fork' = [has_fork EXCEPT ![p] = [c \in Children |-> has_fork[p][c] /\ c \notin D]]
    BY <1>0, <2>2 DEF Release
  <2>5. fork_dirty' = [fork_dirty EXCEPT ![p] = [c \in Children |-> fork_dirty[p][c] \/ c # p]]
    <3>1. fork_dirty' = [fork_dirty EXCEPT ![p] = [c \in Children |-> fork_dirty[p][c] \/ (c # p /\ Reached(p, c))]]
      BY <1>0 DEF Release
    <3>2. [c \in Children |-> fork_dirty[p][c] \/ (c # p /\ Reached(p, c))]
            = [c \in Children |-> fork_dirty[p][c] \/ c # p]
      BY <2>1
    <3> QED
      BY <3>1, <3>2
  <2> QED
    BY <2>3, <2>4, <2>5
<1> HIDE DEF D
<1>4. /\ \A d \in D : m[d] \in Message
      /\ \A a, b \in Procs : Link(a, b)' = IF a = p /\ b \in D THEN Append(Link(a, b), m[b]) ELSE Link(a, b)
      /\ \A c \in Procs \ {p} : outbox'[c] = outbox[c]
  BY <1>0, <1>1, <1>2, <1>3, SendInTurnLinks DEF m
<1>5. \A d \in D : m[d] \in Message /\ m[d].type = "CS_REPLY"
  BY <1>4 DEF m, InTurn
<1> HIDE DEF m
<1>6. pc'[p] = "loop" /\ \A c \in Procs \ {p} : pc'[c] = pc[c]
  BY <1>0, <1>3 DEF Goto
<1>7. /\ \A c \in Children \ {p} : has_fork'[c] = has_fork[c] /\ fork_dirty'[c] = fork_dirty[c] /\ i'[c] = i[c]
      /\ \A c \in Children : has_fork'[p][c] <=> has_fork[p][c] /\ c \notin D
      /\ \A c \in Children \ {p} : fork_dirty'[p][c]
  BY <1>0, <1>3
<1>8. SkeletonInv'
  <2>1. ASSUME NEW a \in Procs, NEW b \in Procs
        PROVE  \/ Link(a, b)' = Link(a, b)
               \/ /\ a = p /\ b \in Children
                  /\ \E n \in Message : n.type \in Talk /\ Link(a, b)' = Append(Link(a, b), n)
    BY <1>2, <1>4, <1>5 DEF Talk
  <2> QED
    BY <1>1, <1>3, <1>4, <1>6, <1>7, <2>1, TalkSkeleton DEF TypeInv
<1>9. ASSUME NEW c \in Children \ {p}
      PROVE  /\ Agreement(p, c)' /\ Agreement(c, p)'
             /\ ~Carries(c, p, "CS_REPLY")' /\ ~has_fork'[c][p]
  <2>1. /\ Agreement(p, c) /\ Agreement(c, p) /\ has_fork[p][c] /\ c \in Children /\ p \in Children
        /\ Link(p, c) \in Seq(Message) /\ Link(c, p)' = Link(c, p)
        /\ has_fork'[c] = has_fork[c] /\ fork_dirty'[c] = fork_dirty[c] /\ has_request' = has_request
        /\ fork_dirty'[p][c] /\ pc'[p] = "loop" /\ pc'[c] = pc[c]
    BY <1>0, <1>1, <1>3, <1>4, <1>6, <1>7, LinkType
  <2>2. /\ ~Owes(c, p) /\ ~has_fork[c][p] /\ ~Carries(p, c, "CS_REPLY") /\ ~Carries(c, p, "CS_REPLY")
        /\ ~Carries(p, c, "CS_REQUEST")
    BY <2>1, HolderIsOwedNothing DEF Agreement, Owes
  <2>3. /\ GoodTalk(Link(c, p)')
        /\ \A x : Carries(c, p, x)' <=> Carries(c, p, x)
    BY <2>1 DEF Agreement, Carries
  <2>4. CASE c \notin D
    <3>1. Link(p, c)' = Link(p, c) /\ has_fork'[p][c] /\ ~has_request[p][c]
      BY <1>2, <1>4, <1>7, <2>1, <2>4
    <3>2. /\ GoodTalk(Link(p, c)')
          /\ \A x : Carries(p, c, x)' <=> Carries(p, c, x)
      BY <2>1, <3>1 DEF Agreement, Carries
    <3>3. Agreement(p, c)'
      BY <2>1, <2>2, <2>3, <3>1, <3>2 DEF Agreement, Owes, Waits
    <3>4. Agreement(c, p)'
      BY <2>1, <2>2, <2>3, <3>1, <3>2 DEF Agreement, Owes, Waits
    <3> QED
      BY <2>1, <2>2, <2>3, <3>3, <3>4
  <2>5. CASE c \in D
    <3>1. Link(p, c)' = Append(Link(p, c), m[c]) /\ ~has_fork'[p][c] /\ has_request[p][c]
      BY <1>2, <1>4, <1>7, <2>1, <2>5
    <3>2. /\ ~has_request[c][p] /\ ~Carries(c, p, "CS_REQUEST") /\ Waits(c)
      BY <2>1, <3>1 DEF Agreement, Owes
    <3>3. /\ GoodTalk(Link(p, c)')
          /\ \A x : Carries(p, c, x)' <=> Carries(p, c, x) \/ x = "CS_REPLY"
      <4>1. /\ m[c] \in Message /\ m[c].type = "CS_REPLY" /\ GoodTalk(Link(p, c))
            /\ ~Contains(Link(p, c), "CS_REQUEST") /\ ~Contains(Link(p, c), "CS_REPLY")
        BY <1>5, <2>1, <2>2, <2>5 DEF Agreement, Carries
      <4> QED
        BY <2>1, <3>1, <4>1, TalkSent DEF Carries
    <3>4. Agreement(p, c)'
      BY <2>1, <2>2, <2>3, <3>1, <3>2, <3>3 DEF Agreement, Owes, Waits
    <3>5. Agreement(c, p)'
      BY <2>1, <2>2, <2>3, <3>1, <3>2, <3>3 DEF Agreement, Owes, Waits
    <3> QED
      BY <2>1, <2>2, <2>3, <3>4, <3>5
  <2> QED
    BY <2>4, <2>5
<1>10. Pairs'
  <2>1. \A a, b \in Children \ {p} : Link(a, b)' = Link(a, b)
    BY <1>4
  <2> QED
    BY <1>3, <1>6, <1>7, <1>9, <2>1, PairsOf DEF ForkInv
<1>11. NoCircle'
  <2>1. \A c \in Children \ {p} : ~Yields(c, p)'
    BY <1>7, <1>9 DEF Yields
  <2>2. \A a, b \in Children \ {p} : a # b /\ Yields(a, b)' => Yields(a, b)
    BY <1>4, <1>7 DEF Yields, Carries
  <2> QED
    BY <2>1, <2>2, CircleLeft DEF ForkInv
<1> QED
  BY <1>6, <1>8, <1>10, <1>11 DEF ForkInv

\* What arrives otherwise is a DONE: there is no CS_RELEASE, and no fork for a child that
\* does not wait.
LEMMA DoneForks ==
  ASSUME TypeInv, SkeletonInv, ForkInv, NEW p \in Children, NEW f \in Procs \ {p},
         RequestTakesOther(p, f) \/ (DrainTakesOther(p, f, MessageType \ {"CS_REQUEST"}) /\ UNCHANGED mutexVars)
  PROVE  SkeletonInv' /\ ForkInv'
<1> USE ProcsFacts
<1> DEFINE l == IF pc[p] = "request" THEN "ask" ELSE IF awaiting_children[p] > 1 THEN "drain" ELSE "sleep"
<1>1. PICK types \in {MessageType \ {"CS_REPLY", "CS_REQUEST"}, MessageType \ {"CS_REQUEST"}} :
        /\ Take(p, f, pc[p], types) /\ pc[p] \in {"request", "drain"}
        /\ pc[p] = "request" => "CS_REPLY" \notin types
  BY DEF RequestTakesOther, DrainTakesOther, Take
<1>2. CountDone(p, Oldest(p, f), l) /\ outbox' = outbox /\ UNCHANGED mutexVars
  BY DEF RequestTakesOther, DrainTakesOther, Take
<1>3. /\ f \in Children /\ Link(f, p) \in Seq(Message) /\ Link(f, p) # <<>>
      /\ Oldest(p, f) = Head(Link(f, p)) /\ Oldest(p, f) \in Message
      /\ Head(Link(f, p)).type \in types
  BY <1>1, TakeFrom DEF TypeInv
<1>4. Oldest(p, f).type \notin Talk
  <2>1. Agreement(f, p) /\ Agreement(p, f)
    BY <1>3 DEF ForkInv, Pairs
  <2>2. \A x : Oldest(p, f).type = x => Carries(f, p, x)
    BY <1>3, ContainsTail DEF Carries
  <2>3. Oldest(p, f).type # "CS_REPLY"
    BY <1>1, <1>3, <2>1, <2>2 DEF Agreement, Owes, Waits
  <2>4. Oldest(p, f).type # "CS_RELEASE" /\ Oldest(p, f).type # "CS_REQUEST"
    BY <1>1, <1>3, <2>1, <2>2 DEF Agreement, GoodTalk, Carries
  <2> QED
    BY <2>3, <2>4 DEF Talk
<1>5. Oldest(p, f).type = "DONE"
  BY <1>1, <1>4, TakeDone DEF TypeInv
<1>6. /\ awaiting_children' = [awaiting_children EXCEPT ![p] = @ - 1] /\ Goto(p, l)
  BY <1>2, <1>5 DEF CountDone
<1>7. SkeletonInv'
  BY <1>1, <1>2, <1>5, <1>6, DoneStep DEF Take, TypeInv
<1>8. \A a, b \in Children : QuietStep(Link(a, b), Link(a, b)')
  BY <1>1, <1>2, <1>4, ReceiveQuiet DEF Take, TypeInv, TypeOK, ChildTypeOK
<1>9. \A c \in Children : (Waits(c)' <=> Waits(c)) /\ (pc'[c] = "cs" <=> pc[c] = "cs")
  BY <1>1, <1>6 DEF Goto, Waits, TypeInv, TypeOK, ChildTypeOK
<1> QED
  BY <1>2, <1>7, <1>8, <1>9, QuietForks

-----------------------------------------------------------------------------
(* The tokens.  Agreement has no token doubled; that none is lost needs more: *)
(* the only child that takes one and forgets it has no iteration left.        *)

\* The token of p and q is with p or on its way to q.
HasToken(p, q) == has_request[p][q] \/ Carries(p, q, "CS_REQUEST")

Tokens ==
  \A p \in Children : \A q \in Children \ {p} :
    HasIteration(p) /\ HasIteration(q) => HasToken(p, q) \/ HasToken(q, p)

\* Iterations are only used up.
LEMMA IterationKept ==
  ASSUME ChildTypeOK, [Next]_vars, NEW c \in Children, HasIteration(c)'
  PROVE  HasIteration(c)
<1> USE ProcsFacts
<1>0. i \in [Children -> Nat] /\ Iterations[c] \in Nat
  BY ChildAssumption DEF ChildTypeOK
<1>1. i' = i \/ \E p \in Children : i' = [i EXCEPT ![p] = @ + 1]
  <2>1. ASSUME NEW p \in Children, ChildStep(p) PROVE i' = i \/ i' = [i EXCEPT ![p] = @ + 1]
    BY <2>1 DEF ChildStep, Write, Start, AwaitStarted, ReceiveAll, PlainIteration, SendDone, Exit, SpinOnEof
  <2>2. ASSUME NEW p \in Children, MutexStep(p) PROVE i' = i \/ i' = [i EXCEPT ![p] = @ + 1]
    BY <2>2 DEF MutexStep, BeginRequest, AskAgain, RequestForks, RequestTakesNothing, Release, RequestTakesReply,
         RequestTakesRequest, RequestTakesOther, DrainTakesRequest, DrainTakesOther, Take
  <2>3. ParentStep => i' = i
    BY DEF ParentStep, ParentSetUp, ParentAwaitStarted, ParentAwaitDone, ParentExit, ReceiveAll
  <2>4. UNCHANGED vars => i' = i
    BY DEF vars, childVars
  <2> QED
    BY <2>1, <2>2, <2>3, <2>4 DEF Next, ChildNext, ParentNext
<1> QED
  BY <1>0, <1>1 DEF HasIteration

\* A step that gives no token away but in a CS_REQUEST, and takes no CS_REQUEST from a
\* pipe without recording it.
LEMMA TokensKept ==
  ASSUME Tokens,
         \A c \in Children : HasIteration(c)' => HasIteration(c),
         \A a \in Children : \A b \in Children \ {a} :
           HasIteration(a) /\ HasIteration(b) /\ HasToken(a, b) => HasToken(a, b)' \/ HasToken(b, a)'
  PROVE  Tokens'
BY DEF Tokens

\* A CS_REQUEST that is under way stays so unless it is received.
LEMMA RequestUnderWay ==
  ASSUME IpcTypeOK, IpcTypeOK', NEW a \in Procs, NEW b \in Procs, Carries(a, b, "CS_REQUEST"),
         \/ pipes'[b][a] = pipes[b][a]
         \/ /\ pipes[b][a] # <<>> /\ pipes'[b][a] = Tail(pipes[b][a])
            /\ Head(pipes[b][a]).type # "CS_REQUEST",
         outbox'[a][b] = outbox[a][b] \/ outbox[a][b] = NoMessage
  PROVE  Carries(a, b, "CS_REQUEST")'
<1> DEFINE s == pipes[b][a]  t == pipes'[b][a]  m == outbox[a][b]  n == outbox'[a][b]
<1>1. /\ s \in Seq(Message) /\ t \in Seq(Message)
      /\ m \in Message \cup {NoMessage} /\ n \in Message \cup {NoMessage}
  BY DEF IpcTypeOK
<1>2. /\ Carries(a, b, "CS_REQUEST") <=> Contains(IF m = NoMessage THEN s ELSE Append(s, m), "CS_REQUEST")
      /\ Carries(a, b, "CS_REQUEST")' <=> Contains(IF n = NoMessage THEN t ELSE Append(t, n), "CS_REQUEST")
  BY DEF Carries, Link
<1>3. Contains(s, "CS_REQUEST") => Contains(t, "CS_REQUEST")
  <2>1. CASE t = s
    BY <2>1
  <2>2. CASE s # <<>> /\ t = Tail(s) /\ Head(s).type # "CS_REQUEST"
    BY <1>1, <2>2, ContainsTail
  <2> QED
    BY <2>1, <2>2
<1> HIDE DEF s, t, m, n
<1>4. CASE m = NoMessage
  <2>1. Contains(t, "CS_REQUEST")
    BY <1>2, <1>3, <1>4
  <2>2. n \in Message => Contains(Append(t, n), "CS_REQUEST")
    BY <1>1, <2>1, ContainsAppend
  <2> QED
    BY <1>1, <1>2, <2>1, <2>2
<1>5. CASE m # NoMessage /\ n = m
  <2>1. Contains(s, "CS_REQUEST") \/ m.type = "CS_REQUEST"
    BY <1>1, <1>2, <1>5, ContainsAppend
  <2>2. Contains(Append(t, n), "CS_REQUEST")
    BY <1>1, <1>3, <1>5, <2>1, ContainsAppend
  <2> QED
    BY <1>2, <1>5, <2>2
<1> QED
  BY <1>4, <1>5 DEF m, n

\* What a step of mutex.c does to the pipes and outboxes.
LEMMA MutexStepMail ==
  ASSUME TypeInv, NEW p \in Children, MutexStep(p)
  PROVE  \A a, b \in Procs :
           /\ outbox'[a][b] = outbox[a][b] \/ outbox[a][b] = NoMessage
           /\ \/ pipes'[b][a] = pipes[b][a]
              \/ /\ b = p /\ pipes[b][a] # <<>> /\ pipes'[b][a] = Tail(pipes[b][a])
                 /\ RequestTakesRequest(p, a) \/ DrainTakesRequest(p, a) \/ Oldest(p, a).type # "CS_REQUEST"
<1> USE ProcsFacts
<1>0. /\ pipes \in [Procs -> [Procs -> Seq(Message)]]
      /\ outbox \in [Procs -> [Procs -> Message \cup {NoMessage}]]
  BY DEF TypeInv, TypeOK, ChildTypeOK, IpcTypeOK
<1>1. ~Sending(p)
  BY DEF MutexStep, BeginRequest, AskAgain, RequestTakesNothing, Release, InCS, RequestTakesReply,
       RequestTakesRequest, RequestTakesOther, DrainTakesRequest, DrainTakesOther, Take
<1>2. \A D, type, now : SendInTurn(p, D, type, now) => \A c \in Procs \ {p} : outbox'[c] = outbox[c]
  BY <1>0 DEF SendInTurn, PostEach
<1>3. \A c \in Procs \ {p} : outbox'[c] = outbox[c]
  BY <1>2 DEF MutexStep, BeginRequest, AskAgain, RequestForks, RequestTakesNothing, Release,
         RequestTakesReply, RequestTakesRequest, RequestTakesOther, DrainTakesRequest, DrainTakesOther
<1>4. \A a, b \in Procs : outbox'[a][b] = outbox[a][b] \/ outbox[a][b] = NoMessage
  BY <1>1, <1>3 DEF Sending
<1>5. CASE pipes' = pipes
  BY <1>4, <1>5
<1>6. ASSUME NEW f \in Procs \ {p}, receive(p, f),
             RequestTakesRequest(p, f) \/ DrainTakesRequest(p, f) \/ Oldest(p, f).type # "CS_REQUEST"
      PROVE  \A a, b \in Procs :
               \/ pipes'[b][a] = pipes[b][a]
               \/ /\ b = p /\ pipes[b][a] # <<>> /\ pipes'[b][a] = Tail(pipes[b][a])
                  /\ RequestTakesRequest(p, a) \/ DrainTakesRequest(p, a) \/ Oldest(p, a).type # "CS_REQUEST"
  <2>1. \A a, b \in Procs : ~(a = f /\ b = p) => pipes'[b][a] = pipes[b][a]
    BY <1>0, <1>6 DEF receive
  <2>2. pipes[p][f] # <<>> /\ pipes'[p][f] = Tail(pipes[p][f])
    BY <1>0, <1>6 DEF receive
  <2> QED
    BY <1>6, <2>1, <2>2
<1>7. \/ pipes' = pipes
      \/ \E f \in Procs \ {p} :
           /\ receive(p, f)
           /\ RequestTakesRequest(p, f) \/ DrainTakesRequest(p, f) \/ Oldest(p, f).type # "CS_REQUEST"
  <2>1. BeginRequest(p) \/ AskAgain(p) \/ RequestTakesNothing(p) \/ Release(p) => pipes' = pipes
    BY DEF BeginRequest, AskAgain, RequestForks, RequestTakesNothing, Release
  <2>2. ASSUME NEW f \in Procs \ {p},
               \/ RequestTakesReply(p, f) \/ RequestTakesOther(p, f)
               \/ DrainTakesOther(p, f, MessageType \ {"CS_REQUEST"})
        PROVE  receive(p, f) /\ Oldest(p, f).type # "CS_REQUEST"
    BY <2>2 DEF RequestTakesReply, RequestTakesOther, DrainTakesOther, Take
  <2>3. \A f \in Procs : RequestTakesRequest(p, f) \/ DrainTakesRequest(p, f) => receive(p, f)
    BY DEF RequestTakesRequest, DrainTakesRequest, Take
  <2> QED
    BY <2>1, <2>2, <2>3 DEF MutexStep
<1> QED
  BY <1>4, <1>5, <1>6, <1>7

\* And to the tokens: one is recorded when its CS_REQUEST is received, unless the receiver
\* has no iteration left, and given away only in a CS_REQUEST.
LEMMA MutexStepTokens ==
  ASSUME TypeInv, TypeInv', SkeletonInv, Tokens, NEW p \in Children, MutexStep(p)
  PROVE  Tokens'
<1> USE ProcsFacts
<1>0. /\ IpcTypeOK /\ IpcTypeOK' /\ ChildTypeOK /\ has_request \in [Children -> [Children -> BOOLEAN]]
      /\ lamport_time[p] \in Nat /\ [Next]_vars
  BY DEF TypeInv, TypeOK, ChildTypeOK, Flags, Next, ChildNext
<1>1. \A c \in Children : HasIteration(c)' => HasIteration(c)
  BY <1>0, IterationKept
<1>2. ASSUME NEW a \in Children, NEW b \in Children \ {a}, HasIteration(b), Carries(a, b, "CS_REQUEST")
      PROVE  Carries(a, b, "CS_REQUEST")' \/ has_request'[b][a]
  <2>1. CASE RequestTakesRequest(b, a)
    BY <1>0, <2>1 DEF RequestTakesRequest
  <2>2. ~DrainTakesRequest(b, a)
    <3>1. pc[b] = "drain" => i[b] > Iterations[b]
      BY DEF SkeletonInv, LastSends, Finished
    <3>2. i[b] \in Nat /\ Iterations[b] \in Nat
      BY ChildAssumption, <1>0 DEF ChildTypeOK
    <3> QED
      BY <1>2, <3>1, <3>2 DEF DrainTakesRequest, Take, HasIteration
  <2>3. CASE ~RequestTakesRequest(b, a)
    <3>1. a \in Procs /\ b \in Procs /\ IpcTypeOK /\ IpcTypeOK' /\ Carries(a, b, "CS_REQUEST")
      BY <1>0, <1>2
    <3>2. /\ outbox'[a][b] = outbox[a][b] \/ outbox[a][b] = NoMessage
          /\ \/ pipes'[b][a] = pipes[b][a]
             \/ /\ pipes[b][a] # <<>> /\ pipes'[b][a] = Tail(pipes[b][a])
                /\ Head(pipes[b][a]).type # "CS_REQUEST"
      BY <2>2, <2>3, <3>1, MutexStepMail DEF Oldest
    <3> QED
      BY <3>1, <3>2, RequestUnderWay
  <2> QED
    BY <2>1, <2>3
<1>3. ASSUME NEW a \in Children, NEW b \in Children \ {a}, has_request[a][b]
      PROVE  has_request'[a][b] \/ Carries(a, b, "CS_REQUEST")'
  <2>1. CASE BeginRequest(p) \/ AskAgain(p)
    <3> DEFINE D == Missing(p)  m == InTurn(D, "CS_REQUEST", lamport_time[p])
    <3>1. /\ ~Sending(p) /\ pipes' = pipes /\ SendInTurn(p, D, "CS_REQUEST", lamport_time[p])
          /\ has_request' = [has_request EXCEPT ![p] = [c \in Children |-> has_request[p][c] /\ c \notin D]]
      BY <1>0, <2>1 DEF BeginRequest, AskAgain, RequestForks
    <3>2. D \in SUBSET Procs /\ "CS_REQUEST" \in MessageType
      BY DEF Missing, MessageType
    <3> HIDE DEF D
    <3>3. CASE a = p /\ b \in D
      <4>1. Link(a, b)' = Append(Link(a, b), m[b]) /\ m[b] \in Message
        <5>1. /\ \A d \in D : m[d] \in Message
              /\ \A x, y \in Procs : Link(x, y)' = IF x = p /\ y \in D THEN Append(Link(x, y), m[y]) ELSE Link(x, y)
              /\ \A c \in Procs \ {p} : outbox'[c] = outbox[c]
          BY <1>0, <3>1, <3>2, SendInTurnLinks
        <5> HIDE DEF m
        <5> QED
          BY <3>3, <5>1
      <4>2. m[b].type = "CS_REQUEST"
        BY <3>3 DEF InTurn
      <4>3. Link(a, b) \in Seq(Message)
        BY <1>0, LinkType
      <4> QED
        BY <4>1, <4>2, <4>3, ContainsAppend DEF Carries
    <3>4. CASE ~(a = p /\ b \in D)
      BY <1>0, <1>3, <3>1, <3>4
    <3> QED
      BY <3>3, <3>4
  <2>2. CASE ~(BeginRequest(p) \/ AskAgain(p))
    <3>1. has_request' = has_request \/ \E f \in Procs : has_request' = [has_request EXCEPT ![p][f] = TRUE]
      BY <2>2 DEF MutexStep, RequestTakesNothing, Release, RequestTakesReply, RequestTakesRequest,
           RequestTakesOther, DrainTakesRequest, mutexVars
    <3> QED
      BY <1>0, <1>3, <3>1
  <2> QED
    BY <2>1, <2>2
<1> QED
  BY <1>1, <1>2, <1>3, TokensKept DEF HasToken

\* The other steps of a child and those of the parent concern no token.
LEMMA QuietTokens ==
  ASSUME ChildTypeOK, [Next]_vars, Tokens, has_request' = has_request,
         \A a, b \in Children : QuietStep(Link(a, b), Link(a, b)')
  PROVE  Tokens'
<1>1. \A c \in Children : HasIteration(c)' => HasIteration(c)
  BY IterationKept
<1>2. ASSUME NEW a \in Children, NEW b \in Children
      PROVE  Carries(a, b, "CS_REQUEST")' <=> Carries(a, b, "CS_REQUEST")
  <2>1. Link(a, b) \in Seq(Message) /\ QuietStep(Link(a, b), Link(a, b)') /\ "CS_REQUEST" \in Talk
    BY ProcsFacts, LinkType DEF ChildTypeOK, Talk
  <2> QED
    BY <2>1, QuietContains DEF Carries
<1> QED
  BY <1>1, <1>2, TokensKept DEF HasToken

-----------------------------------------------------------------------------
(* The inductive invariant *)

\* The forks and the tokens are where mutex_init() put them.
InitialFlags ==
  /\ has_fork = [p \in Children |-> [c \in Children |-> c < p]]
  /\ fork_dirty = [p \in Children |-> [c \in Children |-> c < p]]
  /\ has_request = [p \in Children |-> [c \in Children |-> c > p]]

ForksInv == IF mutexl THEN SkeletonInv /\ ForkInv /\ Tokens ELSE Plain /\ InitialFlags

\* Who has what then.
LEMMA InitialOwners ==
  ASSUME InitialFlags
  PROVE  \A p, q \in Children : /\ has_fork[p][q] <=> q < p
                                /\ fork_dirty[p][q] <=> q < p
                                /\ has_request[p][q] <=> q > p
BY DEF InitialFlags

\* mutex_init() lets every child yield to the lower ids only: there is no circle.
LEMMA InitialForks ==
  ASSUME InitialFlags, \A a, b \in Procs : Link(a, b) = <<>>,
         \A p \in Children : pc[p] \notin {"ask", "request", "cs"}
  PROVE  ForkInv /\ Tokens
<1> USE ProcsFacts
<1>1. \A p, q \in Children : /\ has_fork[p][q] <=> q < p
                             /\ fork_dirty[p][q] <=> q < p
                             /\ has_request[p][q] <=> q > p
  BY InitialOwners
<1>2. \A p, q \in Children : /\ GoodTalk(Link(p, q))
                             /\ \A x : ~Carries(p, q, x)
  BY DEF GoodTalk, AtMostOne, RequestLast, Contains, Carries
<1>3. \A p, q \in Children : p \in Nat /\ q \in Nat /\ (p # q => p < q \/ q < p)
  BY NAssumption DEF Children
<1>4. ASSUME NEW p \in Children, NEW q \in Children \ {p} PROVE Agreement(p, q)
  BY <1>1, <1>2, <1>3 DEF Agreement, Owes
<1>5. NoCircle
  <2> SUFFICES ASSUME NEW S \in SUBSET Children, S # {}
               PROVE  \E p \in S : \A q \in S \ {p} : ~Yields(p, q)
    BY DEF NoCircle
  <2>1. PICK p \in S : \A q \in S : ~(q < p)
    BY SmallestChild
  <2>2. \A q \in S \ {p} : ~Yields(p, q)
    BY <1>1, <1>2, <1>3, <2>1 DEF Yields
  <2> QED
    BY <2>2
<1>6. Tokens
  BY <1>1, <1>3 DEF Tokens, HasToken
<1> QED
  BY <1>4, <1>5, <1>6 DEF ForkInv, Pairs

\* At first nobody has asked for a fork.
LEMMA ForksInit == Init => ForksInv
<1> SUFFICES ASSUME Init PROVE ForksInv
  OBVIOUS
<1>1. SkeletonInv /\ Plain
  BY SkeletonInit, PlainInit DEF Init
<1>2. InitialFlags
  BY DEF Init, InitialFlags
<1>3. \A a, b \in Procs : Link(a, b) = <<>>
  BY DEF Init, ChildInit, IpcInit, Link
<1>4. \A p \in Children : pc[p] \notin {"ask", "request", "cs"}
  BY ProcsFacts DEF Init, ChildInit
<1> QED
  BY <1>1, <1>2, <1>3, <1>4, InitialForks DEF ForksInv

\* Without --mutexl no child is where mutex.c has a step.
LEMMA PlainNoMutex ==
  ASSUME ~mutexl, Plain, NEW p \in Children
  PROVE  ~MutexStep(p)
BY DEF Plain, MutexStep, BeginRequest, AskAgain, RequestTakesNothing, Release, InCS, RequestTakesReply,
       RequestTakesRequest, RequestTakesOther, DrainTakesRequest, DrainTakesOther, Take

\* The forks are followed through every step.
LEMMA ForksNext == TypeInv /\ TypeInv' /\ ForksInv /\ [Next]_vars => ForksInv'
<1> SUFFICES ASSUME TypeInv, TypeInv', ForksInv, [Next]_vars PROVE ForksInv'
  OBVIOUS
<1> USE ProcsFacts
<1>0. ChildInv /\ ChildInv'
  BY DEF TypeInv
<1>1. CASE UNCHANGED vars
  <2>1. InitialFlags => InitialFlags'
    BY <1>1 DEF vars, mutexVars, InitialFlags
  <2>2. Plain => Plain'
    BY <1>1 DEF vars, childVars, Plain, Carries, Link
  <2>3. SkeletonInv => SkeletonInv'
    BY <1>1 DEF vars, childVars, SkeletonInv, GoodLabels, ParentMail, LinkPhases, DoneAccounting, LastSends,
       LastToLeave, Phases, Greeted, Finished, Awaited, DoneComing, Carries, Link, Sending
  <2>4. ForkInv /\ Tokens => ForkInv' /\ Tokens'
    <3>1. UNCHANGED mutexVars /\ pc' = pc /\ has_request' = has_request /\ ChildTypeOK
      BY <1>1 DEF vars, childVars, mutexVars, TypeInv, TypeOK
    <3>2. \A a, b \in Children : QuietStep(Link(a, b), Link(a, b)')
      BY <1>1 DEF vars, childVars, Link, QuietStep
    <3>3. \A c \in Children : (Waits(c)' <=> Waits(c)) /\ (pc'[c] = "cs" <=> pc[c] = "cs")
      BY <3>1 DEF Waits
    <3> QED
      BY <3>1, <3>2, <3>3, QuietForks, QuietTokens
  <2> QED
    BY <2>1, <2>2, <2>3, <2>4 DEF ForksInv
<1>2. CASE mutexl
  <2>0. SkeletonInv /\ ForkInv /\ Tokens /\ RepliesAwaited /\ ChildTypeOK
    BY <1>2, ForkAwaited DEF ForksInv, ForkInv, TypeInv, TypeOK
  <2>1. ASSUME NEW p \in Children, ChildStep(p), UNCHANGED mutexVars PROVE SkeletonInv' /\ ForkInv' /\ Tokens'
    <3>1. /\ SkeletonInv'
          /\ \A a, b \in Procs : QuietStep(Link(a, b), Link(a, b)')
          /\ \A c \in Children \ {p} : pc'[c] = pc[c]
          /\ pc'[p] \in {"ask", "request", "cs"} \/ pc[p] \in {"ask", "request", "cs"} => pc'[p] = pc[p]
      BY <1>0, <1>2, <2>0, <2>1, ChildStepStays
    <3>2. \A c \in Children : (Waits(c)' <=> Waits(c)) /\ (pc'[c] = "cs" <=> pc[c] = "cs")
      BY <3>1 DEF Waits
    <3>3. ForkInv'
      BY <2>0, <2>1, <3>1, <3>2, QuietForks
    <3>4. Tokens'
      <4>1. has_request' = has_request /\ [Next]_vars
        BY <2>1 DEF mutexVars
      <4> QED
        BY <2>0, <3>1, <4>1, QuietTokens
    <3> QED
      BY <3>1, <3>3, <3>4
  <2>2. ASSUME ParentStep, UNCHANGED mutexVars PROVE SkeletonInv' /\ ForkInv' /\ Tokens'
    <3>1. /\ \A a \in Procs, b \in Children : Link(a, b)' = Link(a, b)
          /\ \A c \in Children : lamport_time'[c] = lamport_time[c] /\ pc'[c] = pc[c]
      BY <1>0, <2>2, ParentStepStays
    <3>2. \A a, b \in Children : QuietStep(Link(a, b), Link(a, b)')
      BY <3>1 DEF QuietStep
    <3>3. \A c \in Children : (Waits(c)' <=> Waits(c)) /\ (pc'[c] = "cs" <=> pc[c] = "cs")
      BY <3>1 DEF Waits
    <3>4. SkeletonInv' /\ ForkInv'
      BY <1>0, <2>0, <2>2, <3>2, <3>3, QuietForks, ParentStepSkeleton
    <3>5. Tokens'
      <4>1. has_request' = has_request /\ [Next]_vars
        BY <2>2 DEF mutexVars
      <4> QED
        BY <2>0, <3>2, <4>1, QuietTokens
    <3> QED
      BY <3>4, <3>5
  <2>3. ASSUME NEW p \in Children, MutexStep(p) PROVE SkeletonInv' /\ ForkInv' /\ Tokens'
    BY <2>0, <2>3, AskForks, EnterForks, ReleaseForks, AcceptForks, GiveForks, DoneForks, DrainForks,
       MutexStepTokens
    DEF MutexStep
  <2> QED
    BY <1>1, <1>2, <2>1, <2>2, <2>3 DEF Next, ChildNext, ParentNext, ForksInv
<1>3. CASE ~mutexl
  <2>0. Plain /\ InitialFlags
    BY <1>3 DEF ForksInv
  <2>1. ASSUME (\E p \in Children : ChildStep(p)) \/ ParentStep, UNCHANGED mutexVars PROVE ForksInv'
    <3>1. Plain'
      BY <1>0, <1>3, <2>0, <2>1, PlainStep
    <3>2. InitialFlags'
      BY <2>0, <2>1 DEF InitialFlags, mutexVars
    <3> QED
      BY <1>3, <3>1, <3>2 DEF ForksInv
  <2> QED
    BY <1>1, <1>3, <2>0, <2>1, PlainNoMutex DEF Next, ChildNext, ParentNext
<1> QED
  BY <1>2, <1>3

-----------------------------------------------------------------------------
(* What follows from it *)

\* The forks are as ForkInv has them also where nobody asks for one: no fork has moved.
LEMMA OneOwner ==
  ASSUME ForksInv, NEW p \in Children, NEW q \in Children, p # q
  PROVE  \/ has_fork[p][q] /\ ~has_fork[q][p] /\ ~Carries(p, q, "CS_REPLY") /\ ~Carries(q, p, "CS_REPLY")
         \/ ~has_fork[p][q] /\ has_fork[q][p] /\ ~Carries(p, q, "CS_REPLY") /\ ~Carries(q, p, "CS_REPLY")
         \/ ~has_fork[p][q] /\ ~has_fork[q][p] /\ Carries(p, q, "CS_REPLY") /\ ~Carries(q, p, "CS_REPLY")
         \/ ~has_fork[p][q] /\ ~has_fork[q][p] /\ ~Carries(p, q, "CS_REPLY") /\ Carries(q, p, "CS_REPLY")
<1>1. CASE mutexl
  <2>1. Agreement(p, q) /\ Agreement(q, p)
    BY <1>1 DEF ForksInv, ForkInv, Pairs
  <2> QED
    BY <2>1 DEF Agreement
<1>2. CASE ~mutexl
  <2>1. ~Carries(p, q, "CS_REPLY") /\ ~Carries(q, p, "CS_REPLY")
    BY <1>2, ProcsFacts DEF ForksInv, Plain, Talk
  <2>2. (has_fork[p][q] <=> q < p) /\ (has_fork[q][p] <=> p < q)
    BY <1>2, InitialOwners DEF ForksInv
  <2>3. p < q <=> ~(q < p)
    BY NAssumption DEF Children
  <2> QED
    BY <2>1, <2>2, <2>3
<1> QED
  BY <1>1, <1>2

\* So is the token, until a child forgets it after its last iteration.
LEMMA OneToken ==
  ASSUME ForksInv, NEW p \in Children, NEW q \in Children, p # q
  PROVE  \/ /\ ~has_request[p][q] /\ ~has_request[q][p]
            /\ ~Carries(p, q, "CS_REQUEST") /\ ~Carries(q, p, "CS_REQUEST")
            /\ ~(HasIteration(p) /\ HasIteration(q))
         \/ has_request[p][q] /\ ~has_request[q][p] /\ ~Carries(p, q, "CS_REQUEST") /\ ~Carries(q, p, "CS_REQUEST")
         \/ ~has_request[p][q] /\ has_request[q][p] /\ ~Carries(p, q, "CS_REQUEST") /\ ~Carries(q, p, "CS_REQUEST")
         \/ ~has_request[p][q] /\ ~has_request[q][p] /\ Carries(p, q, "CS_REQUEST") /\ ~Carries(q, p, "CS_REQUEST")
         \/ ~has_request[p][q] /\ ~has_request[q][p] /\ ~Carries(p, q, "CS_REQUEST") /\ Carries(q, p, "CS_REQUEST")
<1>1. CASE mutexl
  <2>1. Agreement(p, q) /\ Agreement(q, p)
    BY <1>1 DEF ForksInv, ForkInv, Pairs
  <2>2. HasIteration(p) /\ HasIteration(q) => HasToken(p, q) \/ HasToken(q, p)
    BY <1>1 DEF ForksInv, Tokens
  <2> QED
    BY <2>1, <2>2 DEF Agreement, HasToken
<1>2. CASE ~mutexl
  <2>1. ~Carries(p, q, "CS_REQUEST") /\ ~Carries(q, p, "CS_REQUEST")
    BY <1>2, ProcsFacts DEF ForksInv, Plain, Talk
  <2>2. (has_request[p][q] <=> q > p) /\ (has_request[q][p] <=> p > q)
    BY <1>2, InitialOwners DEF ForksInv
  <2>3. p > q <=> ~(q > p)
    BY NAssumption DEF Children
  <2> QED
    BY <2>1, <2>2, <2>3
<1> QED
  BY <1>1, <1>2

\* The size of a subset of a pair, by what is in it.
LEMMA PairCount ==
  ASSUME NEW x, NEW y, x # y, NEW F, F \subseteq {x, y}
  PROVE  /\ x \notin F /\ y \notin F => Cardinality(F) = 0
         /\ x \in F /\ y \notin F => Cardinality(F) = 1
         /\ x \notin F /\ y \in F => Cardinality(F) = 1
<1>1. Cardinality({}) = 0 /\ Cardinality({x}) = 1 /\ Cardinality({y}) = 1
  BY FS_EmptySet, FS_Singleton
<1>2. x \notin F /\ y \notin F => F = {}
  OBVIOUS
<1>3. x \in F /\ y \notin F => F = {x}
  OBVIOUS
<1>4. x \notin F /\ y \in F => F = {y}
  OBVIOUS
<1> QED
  BY <1>1, <1>2, <1>3, <1>4

\* In numbers: of the two places where a fork can be and the two messages that can carry
\* it, one has it; of those of a token, one at most.
LEMMA OneOfPair == ForksInv => OneFork
<1> SUFFICES ASSUME ForksInv, NEW p \in Children, NEW q \in Children, p # q
             PROVE  LET pair == {<<p, q>>, <<q, p>>}
                        forks == Cardinality({e \in pair : has_fork[e[1]][e[2]]})
                                   + Cardinality({e \in pair : Carries(e[1], e[2], "CS_REPLY")})
                        tokens == Cardinality({e \in pair : has_request[e[1]][e[2]]})
                                    + Cardinality({e \in pair : Carries(e[1], e[2], "CS_REQUEST")})
                    IN  /\ forks = 1
                        /\ tokens <= 1
                        /\ HasIteration(p) /\ HasIteration(q) => tokens = 1
  BY DEF OneFork
<1> DEFINE pair == {<<p, q>>, <<q, p>>}
           F == {e \in pair : has_fork[e[1]][e[2]]}
           R == {e \in pair : Carries(e[1], e[2], "CS_REPLY")}
           T == {e \in pair : has_request[e[1]][e[2]]}
           Q == {e \in pair : Carries(e[1], e[2], "CS_REQUEST")}
<1>1. <<p, q>> # <<q, p>>
  OBVIOUS
<1>2. /\ <<p, q>> \in F <=> has_fork[p][q]
      /\ <<q, p>> \in F <=> has_fork[q][p]
      /\ <<p, q>> \in R <=> Carries(p, q, "CS_REPLY")
      /\ <<q, p>> \in R <=> Carries(q, p, "CS_REPLY")
      /\ <<p, q>> \in T <=> has_request[p][q]
      /\ <<q, p>> \in T <=> has_request[q][p]
      /\ <<p, q>> \in Q <=> Carries(p, q, "CS_REQUEST")
      /\ <<q, p>> \in Q <=> Carries(q, p, "CS_REQUEST")
  OBVIOUS
<1>3. F \subseteq pair /\ R \subseteq pair /\ T \subseteq pair /\ Q \subseteq pair
  OBVIOUS
<1> HIDE DEF F, R, T, Q
<1>4. ASSUME NEW X, X \in {F, R, T, Q}
      PROVE  /\ <<p, q>> \notin X /\ <<q, p>> \notin X => Cardinality(X) = 0
             /\ <<p, q>> \in X /\ <<q, p>> \notin X => Cardinality(X) = 1
             /\ <<p, q>> \notin X /\ <<q, p>> \in X => Cardinality(X) = 1
  BY <1>1, <1>3, <1>4, PairCount
<1>5. Cardinality(F) + Cardinality(R) = 1
  BY <1>2, <1>4, OneOwner
<1>6. /\ Cardinality(T) + Cardinality(Q) \in {0, 1}
      /\ HasIteration(p) /\ HasIteration(q) => Cardinality(T) + Cardinality(Q) = 1
  BY <1>2, <1>4, OneToken
<1> QED
  BY <1>5, <1>6 DEF F, R, T, Q

\* pa6 neither loses nor doubles a fork: every pair of children has one, held by one of
\* them or on its way in a CS_REPLY, whatever the order of requests and replies.  Nor is
\* there ever a second request token, and the one there is is not lost before a child of the
\* pair has ended its last iteration: then handle_cs_requests() takes it and forgets it.
THEOREM ForksOneFork == Spec => []OneFork
<1> QED
  BY TypeInit, TypeNext, ForksInit, ForksNext, OneOfPair, PTL DEF Spec

\* Nor do the children of pa6 ever wait for each other in a circle: among any of them there
\* is one to which the others yield.
THEOREM ForksNoCircle == Spec => []NoCircle
<1>1. ForksInv => NoCircle
  <2>1. CASE mutexl
    BY <2>1 DEF ForksInv, ForkInv
  <2>2. CASE ~mutexl
    <3> SUFFICES ASSUME ForksInv, NEW S \in SUBSET Children, S # {}
                 PROVE  \E p \in S : \A q \in S \ {p} : ~Yields(p, q)
      BY DEF NoCircle
    <3>1. PICK p \in S : \A q \in S : ~(q < p)
      BY SmallestChild
    <3>2. \A q \in S \ {p} : p < q /\ ~(q < p)
      BY <3>1, NAssumption DEF Children
    <3>3. \A a, b \in Children : /\ has_fork[a][b] <=> b < a
                                 /\ fork_dirty[a][b] <=> b < a
                                 /\ ~Carries(a, b, "CS_REPLY")
      BY <2>2, ProcsFacts, InitialOwners DEF ForksInv, Plain, Talk
    <3>4. \A q \in S \ {p} : ~Yields(p, q)
      BY <3>2, <3>3 DEF Yields
    <3> QED
      BY <3>4
  <2> QED
    BY <2>1, <2>2
<1> QED
  BY <1>1, TypeInit, TypeNext, ForksInit, ForksNext, PTL DEF Spec

\* With --mutexl and however short the sleep of child_entry is, no child of pa6 is killed by
\* SIGPIPE or fails, in particular by an assert() of request_fork() or give_up_fork() or by
\* the checks of the types of its messages; one that spins on a closed pipe does so after
\* everybody's last iteration.
THEOREM ForksShortSleep == ASSUME mutexl PROVE Spec => []ShortSleepHarmless
<1>1. ForksInv => ShortSleepHarmless
  BY SkeletonHarmless DEF ForksInv
<1> QED
  BY <1>1, TypeInit, TypeNext, ForksInit, ForksNext, PTL DEF Spec

-----------------------------------------------------------------------------
(* The service that child.c sees *)

\* Two children have one fork.
LEMMA ForksExclude == ForksInv => MutualExclusion
<1> SUFFICES ASSUME ForksInv, NEW p \in Children, NEW q \in Children, InCS(p), InCS(q), p # q
             PROVE  FALSE
  BY DEF MutualExclusion
<1>1. mutexl /\ Agreement(p, q) /\ Agreement(q, p)
  BY ProcsFacts DEF ForksInv, Plain, InCS, ForkInv, Pairs
<1> QED
  BY <1>1 DEF Agreement, InCS

\* The steps of pa6/mutex.c touch no other child.
LEMMA MutexStepFrame ==
  ASSUME TypeInv, NEW p \in Children, MutexStep(p)
  PROVE  \A c \in Children \ {p} : ClientStatus'[c] = ClientStatus[c]
<1> USE ProcsFacts
<1>0. pc \in [Procs -> Label] /\ outbox \in [Procs -> [Procs -> Message \cup {NoMessage}]]
  BY DEF TypeInv, TypeOK, ChildTypeOK, IpcTypeOK
<1>1. \A l : Goto(p, l) => \A c \in Children \ {p} : pc'[c] = pc[c]
  BY <1>0 DEF Goto
<1>2. \A D, type, now : SendInTurn(p, D, type, now) => \A c \in Children \ {p} : outbox'[c] = outbox[c]
  BY <1>0 DEF SendInTurn, PostEach
<1>3. \A hf, fd, hr : ReturnIfAll(p, hf, fd, hr) => \A c \in Children \ {p} : pc'[c] = pc[c]
  BY <1>1 DEF ReturnIfAll
<1>4. \A c \in Children \ {p} : pc'[c] = pc[c]
  BY <1>1, <1>3 DEF MutexStep, BeginRequest, AskAgain, RequestForks, RequestTakesNothing, Release,
         RequestTakesReply, RequestTakesRequest, RequestTakesOther, DrainTakesRequest, DrainTakesOther, CountDone
<1>5. \A c \in Children \ {p} : outbox'[c] = outbox[c]
  BY <1>2 DEF MutexStep, BeginRequest, AskAgain, RequestForks, RequestTakesNothing, Release,
         RequestTakesReply, RequestTakesRequest, RequestTakesOther, DrainTakesRequest, DrainTakesOther
<1> QED
  BY <1>4, <1>5, StatusFrame

\* What they do is what a client of Mutex may do.
LEMMA MutexStepService ==
  ASSUME TypeInv, ForksInv, MutualExclusion', NEW p \in Children, MutexStep(p)
  PROVE  [Service!Next]_ClientStatus
<1> USE ProcsFacts
<1> DEFINE s == ClientStatus  t == ClientStatus'
           Status(l, sending) == IF l \in {"exited", "killed", "failed", "spin"} THEN "dead"
                                 ELSE IF l = "cs" /\ ~sending THEN "in"
                                 ELSE IF l \in {"ask", "request", "cs"} THEN "waiting"
                                 ELSE "out"
<1>0. pc \in [Procs -> Label] /\ SkeletonInv /\ ForkInv
  BY PlainNoMutex DEF TypeInv, TypeOK, ChildTypeOK, ForksInv
<1>1. s[p] = Status(pc[p], Sending(p)) /\ t[p] = Status(pc'[p], Sending(p)')
  BY DEF ClientStatus, Live, InCS
<1>2. \A c \in Children \ {p} : t[c] = s[c]
  BY MutexStepFrame
<1>3. CASE BeginRequest(p) \/ AskAgain(p)
  <2>1. pc[p] \in {"loop", "ask"} /\ pc'[p] = "request"
    BY <1>0, <1>3 DEF BeginRequest, AskAgain, RequestForks, Goto
  <2> QED
    BY <1>1, <1>2, <2>1, ServiceStep
<1>4. CASE Release(p)
  <2>1. pc[p] = "cs" /\ ~Sending(p) /\ pc'[p] = "loop"
    BY <1>0, <1>4, ReleaseForks DEF Release, InCS
  <2> QED
    BY <1>1, <1>2, <2>1, ServiceStep
<1>5. ASSUME pc[p] = "request", pc'[p] \in {"ask", "cs", "failed"}
      PROVE  [Service!Next]_ClientStatus
  BY <1>1, <1>2, <1>5, ServiceStep
<1>6. ASSUME pc[p] = "drain", pc'[p] \in {"drain", "sleep", "failed"}
      PROVE  [Service!Next]_ClientStatus
  BY <1>1, <1>2, <1>6, ServiceStep
<1>7. CASE RequestTakesNothing(p)
  <2>1. pc[p] = "request" /\ pc'[p] = "cs"
    BY <1>0, <1>7 DEF RequestTakesNothing, Goto
  <2> QED
    BY <1>5, <2>1
<1>8. ASSUME NEW f \in Procs \ {p},
             RequestTakesReply(p, f) \/ RequestTakesRequest(p, f) \/ RequestTakesOther(p, f)
      PROVE  [Service!Next]_ClientStatus
  <2>1. pc[p] = "request"
    BY <1>8 DEF RequestTakesReply, RequestTakesRequest, RequestTakesOther, Take
  <2>2. pc'[p] \in {"ask", "cs", "failed"}
    BY <1>0, <1>8, <2>1 DEF RequestTakesReply, RequestTakesRequest, RequestTakesOther, ReturnIfAll,
         CountDone, Goto
  <2> QED
    BY <1>5, <2>1, <2>2
<1>9. ASSUME NEW f \in Procs \ {p},
             DrainTakesRequest(p, f) \/ \E types \in SUBSET MessageType : DrainTakesOther(p, f, types)
      PROVE  [Service!Next]_ClientStatus
  <2>1. pc[p] = "drain"
    BY <1>9 DEF DrainTakesRequest, DrainTakesOther, Take
  <2>2. pc'[p] \in {"drain", "sleep", "failed"}
    BY <1>0, <1>9, <2>1 DEF DrainTakesRequest, DrainTakesOther, CountDone, Goto
  <2> QED
    BY <1>6, <2>1, <2>2
<1> QED
  BY <1>3, <1>4, <1>7, <1>8, <1>9 DEF MutexStep

\* Every step of pa6 is a step of Mutex or changes nothing that its clients see.
LEMMA ServiceNext ==
  TypeInv /\ ForksInv /\ MutualExclusion' /\ [Next]_vars => [Service!Next]_ClientStatus
<1> SUFFICES ASSUME TypeInv, ForksInv, MutualExclusion', [Next]_vars
             PROVE  [Service!Next]_ClientStatus
  OBVIOUS
<1>0. ChildTypeOK
  BY DEF TypeInv, TypeOK
<1>1. ASSUME NEW p \in Children, ChildNext(p) PROVE [Service!Next]_ClientStatus
  BY <1>0, <1>1, ChildStepService, MutexStepService DEF ChildNext
<1>2. CASE ParentNext
  BY <1>0, <1>2, ParentStepService DEF ParentNext
<1>3. CASE UNCHANGED vars
  BY <1>3 DEF vars, childVars, ClientStatus, Live, InCS, Sending
<1> QED
  BY <1>1, <1>2, <1>3 DEF Next

\* request_cs() and release_cs() of pa6 implement the mutual-exclusion service: a child is
\* let in only while nobody is inside, it leaves only by release_cs(), and no child dies
\* inside.
THEOREM ForksService == Spec => ServiceSpec
<1>1. Init => Service!Init
  BY ServiceInit DEF Init
<1> QED
  BY <1>1, TypeInit, TypeNext, ForksInit, ForksNext, ForksExclude, ServiceNext, PTL
  DEF Spec, ServiceSpec, Service!Spec

-----------------------------------------------------------------------------
(* How much is under way *)

\* No step of mutex.c writes to its own process.
LEMMA MutexStepSelf ==
  ASSUME TypeInv, NoSelfMail, NEW p \in Children, MutexStep(p)
  PROVE  NoSelfMail'
<1> USE ProcsFacts
<1>0. IpcTypeOK /\ p \in Procs
  BY DEF TypeInv, TypeOK, ChildTypeOK
<1>1. CASE BeginRequest(p) \/ AskAgain(p) \/ RequestTakesNothing(p) \/ Release(p)
  <2>1. pipes' = pipes /\ (outbox' = outbox \/ \E D \in SUBSET (Children \ {p}) : \E m : PostEach(p, D, m))
    <3>1. Missing(p) \subseteq Children \ {p} /\ Given(p) \subseteq Children \ {p}
      BY DEF Missing, Wanted, Given
    <3>2. CASE BeginRequest(p) \/ AskAgain(p)
      BY <3>1, <3>2 DEF BeginRequest, AskAgain, RequestForks, SendInTurn
    <3>3. CASE RequestTakesNothing(p)
      BY <3>3 DEF RequestTakesNothing
    <3>4. CASE Release(p)
      BY <3>1, <3>4 DEF Release, SendInTurn
    <3> QED
      BY <1>1, <3>2, <3>3, <3>4
  <2>2. \A c \in Procs : outbox'[c][c] = outbox[c][c] \/ outbox'[c][c] = NoMessage
    BY <1>0, <2>1, SelfPost
  <2> QED
    BY <1>0, <2>1, <2>2, SelfKept
<1>2. ASSUME NEW f \in Procs \ {p},
             \/ RequestTakesReply(p, f) \/ RequestTakesOther(p, f)
             \/ DrainTakesOther(p, f, MessageType \ {"CS_REQUEST"})
      PROVE  NoSelfMail'
  <2>1. outbox' = outbox /\ \E label, types : Take(p, f, label, types)
    BY <1>2 DEF RequestTakesReply, RequestTakesOther, DrainTakesOther
  <2> QED
    BY <1>0, <2>1, SelfTake
<1>3. ASSUME NEW f \in Procs \ {p}, RequestTakesRequest(p, f) \/ DrainTakesRequest(p, f)
      PROVE  NoSelfMail'
  <2>1. \E label, types : Take(p, f, label, types)
    BY <1>3 DEF RequestTakesRequest, DrainTakesRequest
  <2>2. outbox' = outbox \/ \E D \in {{f}, {}} : \E m : PostEach(p, D, m)
    BY <1>3 DEF RequestTakesRequest, DrainTakesRequest, SendInTurn
  <2>3. \A c \in Procs : outbox'[c][c] = outbox[c][c] \/ outbox'[c][c] = NoMessage
    BY <1>0, <2>2, SelfPost
  <2> QED
    BY <1>0, <2>1, <2>3, SelfTake
<1> QED
  BY <1>1, <1>2, <1>3 DEF MutexStep

\* Every step keeps what is needed besides ForksInv.
LEMMA MailNext == TypeInv /\ TypeInv' /\ ForksInv /\ MailInv /\ [Next]_vars => MailInv'
<1> SUFFICES ASSUME TypeInv, TypeInv', ForksInv, MailInv, [Next]_vars PROVE MailInv'
  OBVIOUS
<1>0. ChildInv /\ ChildInv'
  BY DEF TypeInv
<1>1. CASE UNCHANGED vars
  BY <1>1 DEF vars, childVars, MailInv, NoSelfMail, Few, Sent, Link
<1>2. CASE (\E p \in Children : ChildStep(p)) \/ ParentStep
  BY <1>0, <1>2, MailStep
<1>3. ASSUME NEW p \in Children, MutexStep(p) PROVE MailInv'
  <2>1. mutexl
    BY <1>3, PlainNoMutex DEF ForksInv
  <2> QED
    BY <1>3, <2>1, MutexStepSelf DEF MailInv
<1> QED
  BY <1>1, <1>2, <1>3 DEF Next, ChildNext, ParentNext

\* A child is asked for a fork only by one that waits, and is given one only while it waits.
LEMMA ForksPipes == TypeInv /\ ForksInv /\ MailInv => PipeBound
<1> SUFFICES ASSUME TypeInv, ForksInv, MailInv, NEW p \in Procs, NEW q \in Procs
             PROVE  Len(pipes[p][q]) <= 2
  BY DEF PipeBound
<1>0. ChildInv /\ IpcTypeOK
  BY DEF TypeInv, TypeOK, ChildTypeOK
<1>1. CASE ~mutexl
  BY <1>0, <1>1, FewPipes DEF MailInv
<1>2. CASE mutexl /\ (p = q \/ p = PARENT_ID \/ q = PARENT_ID)
  BY <1>0, <1>2, OuterPipes DEF ForksInv, MailInv
<1>3. CASE mutexl /\ p \in Children /\ q \in Children \ {p}
  <2>1. Agreement(p, q) /\ Agreement(q, p) /\ SkeletonInv
    BY <1>3 DEF ForksInv, ForkInv, Pairs
  <2>2. /\ AtMostOne(Link(q, p), "CS_REQUEST") /\ AtMostOne(Link(q, p), "CS_REPLY")
        /\ ~Carries(q, p, "CS_RELEASE")
    BY <2>1 DEF Agreement, GoodTalk, Carries
  <2>3. /\ Carries(q, p, "CS_REPLY") => pc[p] \in {"ask", "request"}
        /\ Carries(q, p, "CS_REQUEST") => pc[q] \in {"ask", "request"}
    BY <2>1 DEF Agreement, Owes, Waits
  <2> QED
    BY <1>0, <1>3, <2>1, <2>2, <2>3, InnerPipes
<1> QED
  BY <1>1, <1>2, <1>3 DEF Procs, Children, PARENT_ID

\* No pipe of pa6 ever holds more than two messages, for any number of children: a message
\* is sent only when the last one of its type has been read, and a pipe does not hold a
\* STARTED with a fork or a request with a DONE.  So no write() meets a full pipe.
THEOREM ForksPipeBound == Spec => []PipeBound
<1>1. Init => MailInv
  BY MailInit DEF Init
<1> QED
  BY <1>1, TypeInit, TypeNext, ForksInit, ForksNext, MailNext, ForksPipes, PTL DEF Spec

=============================================================================
