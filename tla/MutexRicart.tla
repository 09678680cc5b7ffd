---------------------------- MODULE MutexRicart ----------------------------
(***************************************************************************)
(* pa5/mutex.c: the mutual exclusion of Ricart and Agrawala.  A child      *)
(* answers a CS_REQUEST at once unless its own request is the earlier one; *)
(* then the answer waits in its queue until release_cs().  N - 1 replies   *)
(* grant the critical section.                                             *)
(***************************************************************************)
EXTENDS MutexChild, FiniteSets

EMPTY_REQUEST_TIME == 0

VARIABLES
  queue,                      \* queue[p][c]: time of c's request if p holds it back;
                              \* queue[p][p]: time of p's own request
  last_request_reply_count    \* replies to the current request of p

mutexVars == <<queue, last_request_reply_count>>
vars == <<childVars, mutexVars>>

TypeOK ==
  /\ ChildTypeOK
  /\ queue \in [Children -> [Children -> Nat]]
  /\ last_request_reply_count \in [Children -> Nat]

Init ==
  /\ ChildInit
  /\ queue = [p \in Children |-> [c \in Children |-> EMPTY_REQUEST_TIME]]
  /\ last_request_reply_count = [p \in Children |-> 0]

-----------------------------------------------------------------------------
queue_contains(q, c) == q[c] # EMPTY_REQUEST_TIME

\* Mutant of Before: the ids do not decide between equal times.
StrictlyEarlier(s, a, t, b) == s < t

\* The request of a at time s goes before the request of b at time t.
Before(s, a, t, b) == s < t \/ (s = t /\ a < b)

\* A failed assert of enqueue_request() or release_request().
Abort(p) ==
  /\ Goto(p, "failed")
  /\ UNCHANGED <<outbox, lamport_time, queue, last_request_reply_count>>

\* Answer the request that f sent at time t.
Reply(p, f, t) ==
  /\ lamport_time' = [lamport_time EXCEPT ![p] = Synchronized(@, t) + 1]
  /\ send(p, f, [type |-> "CS_REPLY", time |-> Synchronized(lamport_time[p], t) + 1])
  /\ UNCHANGED queue

\* Mutant of Defer: the entry has the time of the receipt.
DeferAtReceipt(p, f, t) ==
  /\ lamport_time' = [lamport_time EXCEPT ![p] = Synchronized(@, t)]
  /\ queue' = [queue EXCEPT ![p][f] = Synchronized(lamport_time[p], t)]
  /\ UNCHANGED outbox

\* Keep the request that f sent at time t until release_cs().
Defer(p, f, t) ==
  /\ lamport_time' = [lamport_time EXCEPT ![p] = Synchronized(@, t)]
  /\ queue' = [queue EXCEPT ![p][f] = t]
  /\ UNCHANGED outbox

-----------------------------------------------------------------------------
(* request_cs *)

\* enqueue_own_request().  The repeated call that follows a DONE finds the request
\* in the queue and changes nothing.
BeginRequest(p) ==
  /\ pc[p] = "loop" /\ ~Sending(p)
  /\ mutexl
  /\ HasIteration(p)
  /\ IF queue_contains(queue[p], p)
       THEN UNCHANGED <<lamport_time, queue, outbox>>
       ELSE /\ lamport_time' = [lamport_time EXCEPT ![p] = @ + 1]
            /\ queue' = [queue EXCEPT ![p][p] = lamport_time[p] + 1]
            /\ ipc_multicast_to_children(p, [type |-> "CS_REQUEST",
                                             time |-> lamport_time[p] + 1])
  /\ Goto(p, "request")
  /\ UNCHANGED <<pipes, from, i, awaiting_children, last_request_reply_count>>

\* Mutants of ReturnIfReplied: one reply too few, or their number is not reset.
ReturnTooSoon(p, n) ==
  IF n >= N - 2
    THEN /\ Goto(p, "cs")
         /\ last_request_reply_count' = [last_request_reply_count EXCEPT ![p] = 0]
    ELSE /\ UNCHANGED pc
         /\ last_request_reply_count' = [last_request_reply_count EXCEPT ![p] = n]

ReturnKeepingCount(p, n) ==
  /\ Goto(p, IF n = N - 1 THEN "cs" ELSE pc[p])
  /\ last_request_reply_count' = [last_request_reply_count EXCEPT ![p] = n]

\* The test at the end of the receive loop, with n replies.
ReturnIfReplied(p, n) ==
  IF n = N - 1
    THEN /\ Goto(p, "cs")
         /\ last_request_reply_count' = [last_request_reply_count EXCEPT ![p] = 0]
    ELSE /\ UNCHANGED pc
         /\ last_request_reply_count' = [last_request_reply_count EXCEPT ![p] = n]

RequestTakesReply(p, f) ==
  /\ Take(p, f, "request", {"CS_REPLY"})
  /\ lamport_time' = [lamport_time EXCEPT ![p] = Synchronized(@, Oldest(p, f).time)]
  /\ ReturnIfReplied(p, last_request_reply_count[p] + 1)
  /\ UNCHANGED <<outbox, queue, awaiting_children>>

RequestTakesRequest(p, f) ==
  /\ Take(p, f, "request", {"CS_REQUEST"})
  /\ LET t == Oldest(p, f).time
         first == Before(queue[p][p], p, t, f)
     IN  IF first /\ queue_contains(queue[p], f)
           THEN Abort(p)
           ELSE /\ IF first THEN Defer(p, f, t) ELSE Reply(p, f, t)
                /\ ReturnIfReplied(p, last_request_reply_count[p])
  /\ UNCHANGED awaiting_children

RequestTakesOther(p, f) ==
  /\ Take(p, f, "request", MessageType \ {"CS_REPLY", "CS_REQUEST"})
  /\ lamport_time' = [lamport_time EXCEPT ![p] = Synchronized(@, Oldest(p, f).time)]
  /\ CountDone(p, Oldest(p, f), "request")
  /\ UNCHANGED <<outbox, queue, last_request_reply_count>>

-----------------------------------------------------------------------------
(* print() is over: release_cs and the end of the iteration *)

\* Mutant of Deferred: the loop ends before the last child.
DeferredButLast(p) == {c \in (1..N - 1) \ {p} : queue_contains(queue[p], c)}

\* The children that wait for the answer of p.
Deferred(p) == {c \in Children \ {p} : queue_contains(queue[p], c)}

\* The clock advances before each reply of the loop.
Release(p) ==
  /\ InCS(p)
  /\ IF ~queue_contains(queue[p], p)
       THEN Abort(p) /\ UNCHANGED i
       ELSE /\ queue' = [queue EXCEPT ![p] = [c \in Children |-> EMPTY_REQUEST_TIME]]
            /\ lamport_time' = [lamport_time EXCEPT ![p] = @ + Cardinality(Deferred(p))]
            /\ PostEach(p, Deferred(p), [d \in Deferred(p) |->
                 [type |-> "CS_REPLY",
                  time |-> lamport_time[p] + Cardinality({c \in Deferred(p) : c <= d})]])
            /\ Goto(p, "loop")
            /\ i' = [i EXCEPT ![p] = @ + 1]
            /\ UNCHANGED last_request_reply_count
  /\ UNCHANGED <<pipes, from, awaiting_children>>

-----------------------------------------------------------------------------
(* handle_cs_requests, called until every other child is DONE *)

DrainTakesRequest(p, f) ==
  /\ Take(p, f, "drain", {"CS_REQUEST"})
  /\ Reply(p, f, Oldest(p, f).time)
  /\ UNCHANGED <<pc, awaiting_children, last_request_reply_count>>

-----------------------------------------------------------------------------
MutexStep(p) ==
  \/ BeginRequest(p)
  \/ Release(p)
  \/ \E f \in Procs \ {p} :
       \/ RequestTakesReply(p, f)
       \/ RequestTakesRequest(p, f)
       \/ RequestTakesOther(p, f)
       \/ DrainTakesRequest(p, f)
       \/ DrainTakesOther(p, f, MessageType \ {"CS_REQUEST"}) /\ UNCHANGED mutexVars

ChildNext(p) == (ChildStep(p) /\ UNCHANGED mutexVars) \/ MutexStep(p)

ParentNext == ParentStep /\ UNCHANGED mutexVars

Next ==
  \/ \E p \in Children : ChildNext(p)
  \/ ParentNext
  \/ Terminated /\ UNCHANGED vars

\* The scheduler runs every process that has something to do.
Fairness == WF_vars(ParentNext) /\ \A p \in Children : WF_vars(ChildNext(p))

Spec == Init /\ [][Next]_vars
FairSpec == Spec /\ Fairness

-----------------------------------------------------------------------------
(* Properties *)

\* The critical section is granted in the order of the requests: a child inside
\* holds the earliest of the requests made and not released, the ones it has not
\* heard of included.
GrantInOrder ==
  \A p, q \in Children :
    InCS(p) /\ p # q /\ queue_contains(queue[q], q)
      => Before(queue[p][p], p, queue[q][q], q)

\* p owes q an answer: q's request is under way or held back, or the answer is.
Owes(p, q) ==
  \/ Carries(q, p, "CS_REQUEST")
  \/ queue_contains(queue[p], q)
  \/ Carries(p, q, "CS_REPLY")

\* Every reply is to the current request, and none is lost: while q waits, the
\* replies it has counted and the children that still owe it one are all the
\* other children; when it does not wait nobody owes it anything.
ReplyAccounting ==
  \A q \in Children :
    LET debtors == {p \in Children \ {q} : Owes(p, q)}
    IN  Live(q) =>
          IF pc[q] = "request"
            THEN last_request_reply_count[q] + Cardinality(debtors) = N - 1
            ELSE debtors = {}

\* A request is held back only by a child with an earlier one, and it is the
\* request its sender is still waiting for.
DeferredIsCurrent ==
  \A p, q \in Children :
    p # q /\ queue_contains(queue[p], q)
      => /\ pc[p] \in {"request", "cs"} /\ pc[q] = "request"
         /\ queue[p][q] = queue[q][q]
         /\ Before(queue[p][p], p, queue[q][q], q)

\* No pipe ever holds more than two messages (a STARTED or a reply and a request or a
\* DONE): a write() cannot meet a full pipe, which send() of a CS_REPLY would not notice.
PipeBound == \A p, q \in Procs : Len(pipes[p][q]) <= 2
=============================================================================
