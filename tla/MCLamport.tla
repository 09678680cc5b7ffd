------------------------------ MODULE MCLamport ------------------------------
EXTENDS MutexLamport

\* One iteration each.
MCOnce == [p \in Children |-> 1]

\* Child 1 once, child 2 twice; child 3 only answers.
MCUneven == [p \in Children |-> IF p = 3 THEN 0 ELSE p]

\* iterations_count as the program computes it.
MCProgram == [p \in Children |-> 5 * p]
=============================================================================
