------------------------------- MODULE Mutex -------------------------------
(***************************************************************************)
(* What the three algorithms promise the loop of pa4/child.c through the   *)
(* two calls of pa2345.h, request_cs() and release_cs(): no two children   *)
(* are between them at a time.  MutexLamport, MutexRicart and MutexForks   *)
(* implement this specification.                                           *)
(***************************************************************************)
CONSTANT Client

VARIABLE status    \* what each client is doing

\* "out":  outside, or in release_cs();   "waiting": in request_cs();
\* "in":   between the two calls;         "dead":    its process is gone.
Status == {"out", "waiting", "in", "dead"}

Init == status = [c \in Client |-> "out"]

Move(c, s, t) == status[c] = s /\ status' = [status EXCEPT ![c] = t]

Request(c) == Move(c, "out", "waiting")

Enter(c) ==
  /\ \A d \in Client : status[d] # "in"
  /\ Move(c, "waiting", "in")

Leave(c) == Move(c, "in", "out")

\* A process may end outside or, on an error, while it waits; never inside.
Die(c) == \E s \in {"out", "waiting"} : Move(c, s, "dead")

Next == \E c \in Client : Request(c) \/ Enter(c) \/ Leave(c) \/ Die(c)

Spec == Init /\ [][Next]_status
=============================================================================
