------------------------------ MODULE MCBarrier ------------------------------
\* pa1 for the model checker: N is given a value in the configuration.
EXTENDS BarrierProgram
=============================================================================
