---------------------------- MODULE MCBroadcast ----------------------------
EXTENDS Broadcast, TLC

CONSTANTS t1, t2, t3, cosmos, evm

MCTask == {t1, t2, t3}
MCAccount == {cosmos, evm}
MCEvm == {evm}

Call(a, k, h) == [account |-> a, kind |-> k, hasty |-> h]

MCCalls ==
    {Call(cosmos, k, FALSE) : k \in {"write", "priced", "estimate"}}
      \cup {Call(cosmos, "write", TRUE)}
      \cup {Call(evm, k, TRUE) : k \in {"write", "raw"}}
=============================================================================
