---------------------------- MODULE MutexLamport ----------------------------
(***************************************************************************)
(* pa4/mutex.c: Lamport's mutual exclusion.  Every child keeps a queue     *)
(* with the timestamp of each child's pending request (0: none), answers   *)
(* every CS_REQUEST at once, and enters when it has N - 1 replies and its  *)
(* own request is first in its queue.                                      *)
(***************************************************************************)
EXTENDS MutexChild, FiniteSets

EMPTY_REQUEST_TIME == 0

VARIABLES
  queue,                      \* queue[p][c]: time of c's request in the queue of p
  last_request_reply_count    \* replies to the current request of p

mutexVars == <<queue, last_request_reply_count>>
vars == <<childVars, mutexVars>>

TypeOK ==
  /\ ChildTypeOK
  /\ queue \in [Children -> [Children -> Nat]]
  /\ last_request_reply_count \in [Children -> Nat]

Init ==
  /\ ChildInit
  /\ queue = [p \in Children |-> [c \in Children |-> EMPTY_REQUEST_TIME]]
  /\ last_request_reply_count = [p \in Children |-> 0]

-----------------------------------------------------------------------------
(* Request queue *)

queue_contains(q, c) == q[c] # EMPTY_REQUEST_TIME

\* Request of a at time s is served before request of b at time t.
Before(s, a, t, b) == s < t \/ (s = t /\ a < b)

\* Mutants of IsTop: of equal timestamps every one is first, or the highest id.
IsTopAmongEqual(q, c) ==
  queue_contains(q, c) /\ \A d \in Children : queue_contains(q, d) => q[c] <= q[d]

IsTopOfHighestId(q, c) ==
  /\ queue_contains(q, c)
  /\ \A d \in Children \ {c} : queue_contains(q, d) => Before(q[c], d, q[d], c)

\* top_enqueued_request(q) = c: the scan keeps the earliest timestamp and, of
\* equal ones, the lowest id; it answers 1 for an empty queue.
IsTop(q, c) ==
  \/ /\ queue_contains(q, c)
     /\ \A d \in Children \ {c} : queue_contains(q, d) => Before(q[c], c, q[d], d)
  \/ /\ c = 1
     /\ \A d \in Children : ~queue_contains(q, d)

\* Mutant of Earlier: a later entry replaces an equal one.
NotLater(t, ts) == ts = EMPTY_REQUEST_TIME \/ t <= ts

\* The scan at ts replaces it by the entry t.
Earlier(t, ts) == ts = EMPTY_REQUEST_TIME \/ t < ts

\* top_enqueued_request(q) step by step: scan[k] is what it keeps after k entries.
TopScan(q) ==
  LET scan[k \in 0..N] ==
        IF k = 0 THEN [child |-> 1, ts |-> q[1]]
        ELSE IF queue_contains(q, k) /\ Earlier(q[k], scan[k - 1].ts)
          THEN [child |-> k, ts |-> q[k]]
          ELSE scan[k - 1]
  IN  scan[N].child

-----------------------------------------------------------------------------
(* Handlers shared by the receive loops of request_cs and                    *)
(* handle_cs_requests.                                                       *)

\* A failed assert of enqueue_request() or release_request().
Abort(p) ==
  /\ Goto(p, "failed")
  /\ UNCHANGED <<outbox, lamport_time, queue, last_request_reply_count>>

\* Enqueue the request that f sent at time t and answer it.
AcceptRequest(p, f, t) ==
  /\ queue' = [queue EXCEPT ![p][f] = t]
  /\ lamport_time' = [lamport_time EXCEPT ![p] = Synchronized(@, t) + 1]
  /\ send(p, f, [type |-> "CS_REPLY", time |-> Synchronized(lamport_time[p], t) + 1])

\* Remove the request that f released at time t.
AcceptRelease(p, f, t) ==
  /\ queue' = [queue EXCEPT ![p][f] = EMPTY_REQUEST_TIME]
  /\ lamport_time' = [lamport_time EXCEPT ![p] = Synchronized(@, t)]
  /\ UNCHANGED outbox

-----------------------------------------------------------------------------
(* request_cs *)

\* The call: timestamp the request, enqueue it and multicast it, unless the
\* queue still holds one.  (The repeated call that follows a DONE is part of
\* RequestTakesOther.)
BeginRequest(p) ==
  /\ pc[p] = "loop" /\ ~Sending(p)
  /\ mutexl
  /\ HasIteration(p)
  /\ lamport_time' = [lamport_time EXCEPT ![p] = @ + 1]
  /\ IF queue_contains(queue[p], p)
       THEN UNCHANGED <<queue, outbox>>
       ELSE /\ queue' = [queue EXCEPT ![p][p] = lamport_time[p] + 1]
            /\ ipc_multicast_to_children(p, [type |-> "CS_REQUEST",
                                             time |-> lamport_time[p] + 1])
  /\ Goto(p, "request")
  /\ UNCHANGED <<pipes, from, i, awaiting_children, last_request_reply_count>>

\* Mutants of ReturnIfFirst: the replies are not waited for, or their number is
\* not reset.
ReturnWithoutReplies(p, q, n) ==
  IF IsTop(q, p)
    THEN /\ Goto(p, "cs")
         /\ last_request_reply_count' = [last_request_reply_count EXCEPT ![p] = 0]
    ELSE /\ UNCHANGED pc
         /\ last_request_reply_count' = [last_request_reply_count EXCEPT ![p] = n]

ReturnKeepingCount(p, q, n) ==
  /\ Goto(p, IF n = N - 1 /\ IsTop(q, p) THEN "cs" ELSE pc[p])
  /\ last_request_reply_count' = [last_request_reply_count EXCEPT ![p] = n]

\* The test at the end of the receive loop, with the queue q and n replies.
ReturnIfFirst(p, q, n) ==
  IF n = N - 1 /\ IsTop(q, p)
    THEN /\ Goto(p, "cs")
         /\ last_request_reply_count' = [last_request_reply_count EXCEPT ![p] = 0]
    ELSE /\ UNCHANGED pc
         /\ last_request_reply_count' = [last_request_reply_count EXCEPT ![p] = n]

RequestTakesReply(p, f) ==
  /\ Take(p, f, "request", {"CS_REPLY"})
  /\ lamport_time' = [lamport_time EXCEPT ![p] = Synchronized(@, Oldest(p, f).time)]
  /\ ReturnIfFirst(p, queue[p], last_request_reply_count[p] + 1)
  /\ UNCHANGED <<outbox, queue, awaiting_children>>

RequestTakesRequest(p, f) ==
  /\ Take(p, f, "request", {"CS_REQUEST"})
  /\ IF queue_contains(queue[p], f)
       THEN Abort(p)
       ELSE /\ AcceptRequest(p, f, Oldest(p, f).time)
            /\ ReturnIfFirst(p, [queue[p] EXCEPT ![f] = Oldest(p, f).time],
                             last_request_reply_count[p])
  /\ UNCHANGED awaiting_children

RequestTakesRelease(p, f) ==
  /\ Take(p, f, "request", {"CS_RELEASE"})
  /\ IF ~queue_contains(queue[p], f)
       THEN Abort(p)
       ELSE /\ AcceptRelease(p, f, Oldest(p, f).time)
            /\ ReturnIfFirst(p, [queue[p] EXCEPT ![f] = EMPTY_REQUEST_TIME],
                             last_request_reply_count[p])
  /\ UNCHANGED awaiting_children

\* Any other message.  The repeated call finds the request in the queue and only
\* advances the clock.
RequestTakesOther(p, f) ==
  /\ Take(p, f, "request", MessageType \ {"CS_REPLY", "CS_REQUEST", "CS_RELEASE"})
  /\ lamport_time' = [lamport_time EXCEPT ![p] = Synchronized(@, Oldest(p, f).time) + 1]
  /\ CountDone(p, Oldest(p, f), "request")
  /\ UNCHANGED <<outbox, queue, last_request_reply_count>>

-----------------------------------------------------------------------------
(* print() is over: release_cs and the end of the iteration *)

Release(p) ==
  /\ InCS(p)
  /\ IF ~queue_contains(queue[p], p)
       THEN Abort(p) /\ UNCHANGED i
       ELSE /\ queue' = [queue EXCEPT ![p][p] = EMPTY_REQUEST_TIME]
            /\ lamport_time' = [lamport_time EXCEPT ![p] = @ + 1]
            /\ ipc_multicast_to_children(p, [type |-> "CS_RELEASE",
                                             time |-> lamport_time[p] + 1])
            /\ Goto(p, "loop")
            /\ i' = [i EXCEPT ![p] = @ + 1]
            /\ UNCHANGED last_request_reply_count
  /\ UNCHANGED <<pipes, from, awaiting_children>>

-----------------------------------------------------------------------------
(* handle_cs_requests, called until every other child is DONE *)

DrainTakesRequest(p, f) ==
  /\ Take(p, f, "drain", {"CS_REQUEST"})
  /\ IF queue_contains(queue[p], f)
       THEN Abort(p)
       ELSE /\ AcceptRequest(p, f, Oldest(p, f).time)
            /\ UNCHANGED <<pc, last_request_reply_count>>
  /\ UNCHANGED awaiting_children

DrainTakesRelease(p, f) ==
  /\ Take(p, f, "drain", {"CS_RELEASE"})
  /\ IF ~queue_contains(queue[p], f)
       THEN Abort(p)
       ELSE /\ AcceptRelease(p, f, Oldest(p, f).time)
            /\ UNCHANGED <<pc, last_request_reply_count>>
  /\ UNCHANGED awaiting_children

-----------------------------------------------------------------------------
MutexStep(p) ==
  \/ BeginRequest(p)
  \/ Release(p)
  \/ \E f \in Procs \ {p} :
       \/ RequestTakesReply(p, f)
       \/ RequestTakesRequest(p, f)
       \/ RequestTakesRelease(p, f)
       \/ RequestTakesOther(p, f)
       \/ DrainTakesRequest(p, f)
       \/ DrainTakesRelease(p, f)
       \/ /\ DrainTakesOther(p, f, MessageType \ {"CS_REQUEST", "CS_RELEASE"})
          /\ UNCHANGED mutexVars

ChildNext(p) == (ChildStep(p) /\ UNCHANGED mutexVars) \/ MutexStep(p)

ParentNext == ParentStep /\ UNCHANGED mutexVars

Next ==
  \/ \E p \in Children : ChildNext(p)
  \/ ParentNext
  \/ Terminated /\ UNCHANGED vars

\* The scheduler runs every process that has something to do.
Fairness == WF_vars(ParentNext) /\ \A p \in Children : WF_vars(ChildNext(p))

Spec == Init /\ [][Next]_vars
FairSpec == Spec /\ Fairness

-----------------------------------------------------------------------------
(* Properties *)

\* The critical section is granted in the order of the requests: a child inside
\* holds the earliest of the requests made and not released, the ones it has not
\* heard of included.
GrantInOrder ==
  \A p, q \in Children :
    InCS(p) /\ p # q /\ queue_contains(queue[q], q)
      => Before(queue[p][p], p, queue[q][q], q)

\* On every queue that the algorithm builds the scan finds the one child whose
\* request is first.
ScanFindsTop ==
  \A p, c \in Children : TopScan(queue[p]) = c <=> IsTop(queue[p], c)

\* No pipe ever holds more than three messages (a reply, a release and the next
\* request or a DONE): a write() cannot meet a full pipe, which send() of a CS_REPLY
\* would not notice.
PipeBound == \A p, q \in Procs : Len(pipes[p][q]) <= 3

-----------------------------------------------------------------------------
(* The inductive invariant behind MutualExclusion.  It speaks of the children *)
(* that are still in their program; what is under way to and from the others  *)
(* may be lost with them.                                                     *)

\* The parent sends nothing.
ParentSilent == \A q \in Procs : Link(PARENT_ID, q) = <<>>

\* A child has an entry for itself while it waits or is inside.
OwnRequest ==
  \A p \in Children :
    Live(p) => (queue_contains(queue[p], p) <=> pc[p] \in {"request", "cs"})

\* The children that p has still to hear from about its request.
Outstanding(p) ==
  {q \in Children \ {p} : Carries(p, q, "CS_REQUEST") \/ Carries(q, p, "CS_REPLY")}

\* last_request_reply_count never runs ahead of the answers: no reply is counted
\* twice or belongs to an earlier request.
ReplyAccounting ==
  \A p \in Children :
    Live(p) =>
      IF pc[p] = "request"
        THEN last_request_reply_count[p] + Cardinality(Outstanding(p)) <= N - 1
        ELSE Outstanding(p) = {} /\ last_request_reply_count[p] = 0

\* There is at most one CS_REQUEST in s, and no CS_RELEASE after it.
RequestLast(s) ==
  \A k, l \in 1..Len(s) :
    s[k].type = "CS_REQUEST" /\ s[l].type \in {"CS_REQUEST", "CS_RELEASE"} => l <= k

AtMostOneReply(s) ==
  \A k, l \in 1..Len(s) : s[k].type = "CS_REPLY" /\ s[l].type = "CS_REPLY" => k = l

RequestsCarry(s, t) == \A k \in 1..Len(s) : s[k].type = "CS_REQUEST" => s[k].time = t

\* What is under way between p and q about p's requests: p's current request, a
\* release of the one before, or the reply.
LinkOrder(p, q) ==
  /\ RequestLast(Link(p, q))
  /\ RequestsCarry(Link(p, q), queue[p][p])
  /\ AtMostOneReply(Link(q, p))
  /\ Carries(q, p, "CS_REPLY") => ~Carries(p, q, "CS_REQUEST")
  /\ Carries(p, q, "CS_RELEASE") /\ ~Carries(p, q, "CS_REQUEST") => ~queue_contains(queue[p], p)

LinksInOrder == \A p, q \in Children : p # q /\ Live(p) => LinkOrder(p, q)

\* With no CS_REQUEST and no CS_RELEASE under way from p to q, the queues of p and
\* q hold the same entry for p.
QueueAgreement ==
  \A p, q \in Children :
    p # q /\ Live(p) /\ Live(q)
    /\ ~Carries(p, q, "CS_REQUEST") /\ ~Carries(p, q, "CS_RELEASE")
      => queue[q][p] = queue[p][p]

\* A child that request_cs() let in is first in its own queue.
FirstInside == \A p \in Children : pc[p] = "cs" => IsTop(queue[p], p)

MutexInv ==
  /\ ParentSilent
  /\ OwnRequest
  /\ ReplyAccounting
  /\ LinksInOrder
  /\ QueueAgreement
  /\ FirstInside
=============================================================================
