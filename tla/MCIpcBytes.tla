----------------------------- MODULE MCIpcBytes -----------------------------
\* A pipe for the model checker.
EXTENDS IpcBytes, TLC

CONSTANTS m0, m1, m2

MCMsg == {m0, m1, m2}

\* A status without payload, and two payloads of different length.
MCPayloadLen == m0 :> 0 @@ m1 :> 1 @@ m2 :> 3
=============================================================================
