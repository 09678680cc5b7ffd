----------------------------- MODULE MutexForks -----------------------------
(***************************************************************************)
(* pa6/mutex.c: mutual exclusion with the forks of Chandy and Misra.  Each *)
(* pair of children shares a fork and a request token.  A child asks for a *)
(* fork by giving the token away (CS_REQUEST), gives a fork up (CS_REPLY)  *)
(* if it is dirty or after the critical section, and enters with all of    *)
(* its forks.                                                              *)
(***************************************************************************)
EXTENDS MutexChild, FiniteSets

VARIABLES
  has_fork,     \* has_fork[p][c]: p holds the fork it shares with c
  fork_dirty,   \* fork_dirty[p][c]: it was used since p received it
  has_request   \* has_request[p][c]: p holds the request token it shares with c

mutexVars == <<has_fork, fork_dirty, has_request>>
vars == <<childVars, mutexVars>>

Flags == [Children -> [Children -> BOOLEAN]]

TypeOK ==
  /\ ChildTypeOK
  /\ has_fork \in Flags
  /\ fork_dirty \in Flags
  /\ has_request \in Flags

\* mutex_init(): the fork of a pair is with the higher id, dirty, its token with
\* the lower.
Init ==
  /\ ChildInit
  /\ has_fork = [p \in Children |-> [c \in Children |-> c < p]]
  /\ fork_dirty = [p \in Children |-> [c \in Children |-> c < p]]
  /\ has_request = [p \in Children |-> [c \in Children |-> c > p]]

-----------------------------------------------------------------------------
\* Mutant of SendInTurn: the first child is left out.
SendInTurnButFirst(p, D, type, now) ==
  /\ lamport_time' = [lamport_time EXCEPT ![p] = now + Cardinality(D)]
  /\ PostEach(p, D \ {1}, [d \in D \ {1} |->
       [type |-> type, time |-> now + Cardinality({c \in D : c <= d})]])

\* A message of the type to every child of D in turn; the clock, at now, advances
\* before each.
SendInTurn(p, D, type, now) ==
  /\ lamport_time' = [lamport_time EXCEPT ![p] = now + Cardinality(D)]
  /\ PostEach(p, D, [d \in D |->
       [type |-> type, time |-> now + Cardinality({c \in D : c <= d})]])

-----------------------------------------------------------------------------
(* request_cs *)

\* Mutant of Missing: a fork is asked for without its token.
MissingAny(p) == {c \in Children \ {p} : ~has_fork[p][c]}

\* The forks that p lacks and can ask for.
Missing(p) == {c \in Children \ {p} : ~has_fork[p][c] /\ has_request[p][c]}

\* The loop at the top: request_fork() for each of them.
RequestForks(p) ==
  /\ SendInTurn(p, Missing(p), "CS_REQUEST", lamport_time[p])
  /\ has_request' = [has_request EXCEPT
       ![p] = [c \in Children |-> @[c] /\ c \notin Missing(p)]]
  /\ Goto(p, "request")
  /\ UNCHANGED <<pipes, from, i, awaiting_children, has_fork, fork_dirty>>

BeginRequest(p) ==
  /\ pc[p] = "loop" /\ ~Sending(p)
  /\ mutexl
  /\ HasIteration(p)
  /\ RequestForks(p)

AskAgain(p) == pc[p] = "ask" /\ ~Sending(p) /\ RequestForks(p)

\* Mutant of CanEnter: the loop ends before the last child.
CanEnterButLast(p, hf, fd, hr) == \A c \in (1..N - 1) \ {p} : hf[c] /\ ~(fd[c] /\ hr[c])

\* can_enter_cs, with the flags hf, fd and hr of p.
CanEnter(p, hf, fd, hr) == \A c \in Children \ {p} : hf[c] /\ ~(fd[c] /\ hr[c])

\* The test at the end of the loop.
ReturnIfAll(p, hf, fd, hr) == Goto(p, IF CanEnter(p, hf, fd, hr) THEN "cs" ELSE "ask")

\* The sweep over the pipes found no message (one may have come to a pipe that it
\* has passed); a child that cannot enter sweeps again.
RequestTakesNothing(p) ==
  /\ pc[p] = "request" /\ ~Sending(p)
  /\ \A f \in Procs \ {p} : ~HungUp(f)
  /\ CanEnter(p, has_fork[p], fork_dirty[p], has_request[p])
  /\ Goto(p, "cs")
  /\ UNCHANGED <<pipes, outbox, lamport_time, from, i, awaiting_children, mutexVars>>

\* Mutant of AcceptFork: it stays dirty.
AcceptDirtyFork(p, f) ==
  /\ has_fork' = [has_fork EXCEPT ![p][f] = TRUE]
  /\ fork_dirty' = [fork_dirty EXCEPT ![p][f] = TRUE]

\* The fork that f gives up arrives clean.
AcceptFork(p, f) ==
  /\ has_fork' = [has_fork EXCEPT ![p][f] = TRUE]
  /\ fork_dirty' = [fork_dirty EXCEPT ![p][f] = FALSE]

RequestTakesReply(p, f) ==
  /\ Take(p, f, "request", {"CS_REPLY"})
  /\ lamport_time' = [lamport_time EXCEPT ![p] = Synchronized(@, Oldest(p, f).time)]
  /\ AcceptFork(p, f)
  /\ ReturnIfAll(p, has_fork'[p], fork_dirty'[p], has_request[p])
  /\ UNCHANGED <<outbox, awaiting_children, has_request>>

RequestTakesRequest(p, f) ==
  /\ Take(p, f, "request", {"CS_REQUEST"})
  /\ has_request' = [has_request EXCEPT ![p][f] = TRUE]
  /\ LET now == Synchronized(lamport_time[p], Oldest(p, f).time)
         give == has_fork[p][f] /\ fork_dirty[p][f]
     IN  /\ has_fork' = [has_fork EXCEPT ![p][f] = @ /\ ~give]
         /\ SendInTurn(p, IF give THEN {f} ELSE {}, "CS_REPLY", now)
  /\ ReturnIfAll(p, has_fork'[p], fork_dirty[p], has_request'[p])
  /\ UNCHANGED <<awaiting_children, fork_dirty>>

RequestTakesOther(p, f) ==
  /\ Take(p, f, "request", MessageType \ {"CS_REPLY", "CS_REQUEST"})
  /\ lamport_time' = [lamport_time EXCEPT ![p] = Synchronized(@, Oldest(p, f).time)]
  /\ CountDone(p, Oldest(p, f), "ask")
  /\ UNCHANGED <<outbox, mutexVars>>

-----------------------------------------------------------------------------
(* print() is over: release_cs and the end of the iteration *)

\* Mutant of Wanted: a fork that was clean in the critical section is not given up.
WantedAndDirty(p) == {c \in Children \ {p} : has_request[p][c] /\ fork_dirty[p][c]}

\* The children that asked for the fork they share with p.
Wanted(p) == {c \in Children \ {p} : has_request[p][c]}

\* The loop has got to c: no assert of give_up_fork() has failed for a lower id.
Reached(p, c) == \A b \in Wanted(p) : b < c => has_fork[p][b]

\* The forks that are given up: all that are asked for, or those before a failed assert.
Given(p) == {c \in Wanted(p) : Reached(p, c) /\ has_fork[p][c]}

\* Every fork becomes dirty, and the ones asked for are given up.
Release(p) ==
  /\ InCS(p)
  /\ SendInTurn(p, Given(p), "CS_REPLY", lamport_time[p])
  /\ has_fork' = [has_fork EXCEPT ![p] = [c \in Children |-> @[c] /\ c \notin Given(p)]]
  /\ fork_dirty' = [fork_dirty EXCEPT
       ![p] = [c \in Children |-> @[c] \/ (c # p /\ Reached(p, c))]]
  /\ IF Given(p) = Wanted(p)
       THEN Goto(p, "loop") /\ i' = [i EXCEPT ![p] = @ + 1]
       ELSE Goto(p, "failed") /\ UNCHANGED i
  /\ UNCHANGED <<pipes, from, awaiting_children, has_request>>

-----------------------------------------------------------------------------
(* handle_cs_requests, called until every other child is DONE *)

\* give_up_fork(), be the fork clean or dirty; the token is not recorded.
DrainTakesRequest(p, f) ==
  /\ Take(p, f, "drain", {"CS_REQUEST"})
  /\ SendInTurn(p, IF has_fork[p][f] THEN {f} ELSE {}, "CS_REPLY",
                Synchronized(lamport_time[p], Oldest(p, f).time))
  /\ has_fork' = [has_fork EXCEPT ![p][f] = FALSE]
  /\ IF has_fork[p][f] THEN UNCHANGED pc ELSE Goto(p, "failed")
  /\ UNCHANGED <<awaiting_children, fork_dirty, has_request>>

-----------------------------------------------------------------------------
MutexStep(p) ==
  \/ BeginRequest(p)
  \/ AskAgain(p)
  \/ RequestTakesNothing(p)
  \/ Release(p)
  \/ \E f \in Procs \ {p} :
       \/ RequestTakesReply(p, f)
       \/ RequestTakesRequest(p, f)
       \/ RequestTakesOther(p, f)
       \/ DrainTakesRequest(p, f)
       \/ DrainTakesOther(p, f, MessageType \ {"CS_REQUEST"}) /\ UNCHANGED mutexVars

ChildNext(p) == (ChildStep(p) /\ UNCHANGED mutexVars) \/ MutexStep(p)

ParentNext == ParentStep /\ UNCHANGED mutexVars

Next ==
  \/ \E p \in Children : ChildNext(p)
  \/ ParentNext
  \/ Terminated /\ UNCHANGED vars

\* The scheduler runs every process that has something to do.
Fairness == WF_vars(ParentNext) /\ \A p \in Children : WF_vars(ChildNext(p))

Spec == Init /\ [][Next]_vars
FairSpec == Spec /\ Fairness

-----------------------------------------------------------------------------
(* Properties *)

\* Every pair of children has exactly one fork and one request token, each with one of
\* them or on its way, except that the token is gone once a child without an iteration
\* left has taken a CS_REQUEST in handle_cs_requests, which does not record it.
OneFork ==
  \A p, q \in Children :
    LET pair == {<<p, q>>, <<q, p>>}
        forks == Cardinality({e \in pair : has_fork[e[1]][e[2]]})
                   + Cardinality({e \in pair : Carries(e[1], e[2], "CS_REPLY")})
        tokens == Cardinality({e \in pair : has_request[e[1]][e[2]]})
                    + Cardinality({e \in pair : Carries(e[1], e[2], "CS_REQUEST")})
    IN  p # q => /\ forks = 1
                 /\ tokens <= 1
                 /\ HasIteration(p) /\ HasIteration(q) => tokens = 1

\* q yields to p over their fork: p has it clean or is about to get it, or q has it
\* dirty.
Yields(q, p) ==
  \/ has_fork[p][q] /\ ~fork_dirty[p][q]
  \/ has_fork[q][p] /\ fork_dirty[q][p]
  \/ Carries(q, p, "CS_REPLY")

\* No children yield to each other in a circle, so one of them can always go on.
NoCircle ==
  \A S \in SUBSET Children :
    S # {} => \E p \in S : \A q \in S \ {p} : ~Yields(p, q)

\* No pipe ever holds more than two messages (a STARTED or a fork and a request or a
\* DONE): a write() cannot meet a full pipe, which send() of a CS_REQUEST or CS_REPLY
\* would not notice.
PipeBound == \A p, q \in Procs : Len(pipes[p][q]) <= 2
=============================================================================
