----------------------------- MODULE TwoBarriers -----------------------------
(***************************************************************************)
(* What the STARTED and DONE messages of the assignments are for: two      *)
(* barriers that no participant passes before all have reached them.       *)
(***************************************************************************)
EXTENDS Naturals

CONSTANT Participant

VARIABLE stage    \* how far each participant has come

\* 0: before the first barrier;  1: at it;  2: past it;  3: at the second;
\* 4: past it.
Stages == 0..4

Init == stage = [c \in Participant |-> 0]

Advance(c) == stage[c] < 4 /\ stage' = [stage EXCEPT ![c] = @ + 1]

Reach(c) == stage[c] \in {0, 2} /\ Advance(c)

Pass(c) ==
  /\ stage[c] \in {1, 3}
  /\ \A d \in Participant : stage[d] >= stage[c]
  /\ Advance(c)

Next == \E c \in Participant : Reach(c) \/ Pass(c)

Spec == Init /\ [][Next]_stage
=============================================================================
