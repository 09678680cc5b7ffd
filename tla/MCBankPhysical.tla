--------------------------- MODULE MCBankPhysical ---------------------------
\* pa2 for the model checker: N is given a value in the configuration.
EXTENDS BankPhysical

\* The balances of "make run".
MCBalances == [c \in Children |-> 10 * c]
=============================================================================
