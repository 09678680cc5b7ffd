--------------------------- MODULE MCBankLamport ---------------------------
\* pa3 for the model checker: N is given a value in the configuration.
EXTENDS BankLamport

\* The balances of "make run".
MCBalances == [c \in Children |-> 10 * c]
=============================================================================
