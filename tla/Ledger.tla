------------------------------- MODULE Ledger -------------------------------
(***************************************************************************)
(* What the bank promises its robbers (pa2/banking.h, TransferOrder and    *)
(* transfer()): the orders are carried out one at a time and in the order  *)
(* of the calls, each takes its amount off one account and puts it on      *)
(* another one exactly once, and nothing else ever changes an account.     *)
(* BankPhysical and BankLamport implement this specification.              *)
(***************************************************************************)
EXTENDS Integers, Sequences

CONSTANTS
  Opening,    \* balance of each account at the start
  Orders      \* the transfers to make, a sequence of [src, dst, amount]

VARIABLES
  account,    \* balance of each account
  debited,    \* number of orders whose amount has left the source
  credited    \* number of orders whose amount has reached the destination

vars == <<account, debited, credited>>

Init ==
  /\ account = Opening
  /\ debited = 0
  /\ credited = 0

Debit ==
  /\ debited = credited
  /\ debited < Len(Orders)
  /\ debited' = debited + 1
  /\ LET order == Orders[debited']
     IN  account' = [account EXCEPT ![order.src] = @ - order.amount]
  /\ UNCHANGED credited

Credit ==
  /\ credited < debited
  /\ credited' = credited + 1
  /\ LET order == Orders[credited']
     IN  account' = [account EXCEPT ![order.dst] = @ + order.amount]
  /\ UNCHANGED debited

Next == Debit \/ Credit

Spec == Init /\ [][Next]_vars
=============================================================================
