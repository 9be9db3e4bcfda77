--------------------------- MODULE SerialAccounts ---------------------------
(***************************************************************************)
(* What the broadcast locker promises (the module comment of               *)
(* crates/core/src/wallet_lock.rs): broadcasts that share one account on   *)
(* one chain do not run concurrently, and each takes the account's next    *)
(* nonce.  Broadcasts of different accounts do not wait for one another.   *)
(***************************************************************************)
EXTENDS Naturals

CONSTANTS
    Task,           \* one broadcast or estimate each
    Account         \* (chain kind, chain id, address)

VARIABLES
    account,        \* the account of each task; never changes
    bypass,         \* the tasks that never ask for the lock; never changes
    inside,         \* the tasks between acquiring and releasing the lock
    taken           \* the number of nonces each account has used

vars == <<account, bypass, inside, taken>>

Init ==
    /\ account \in [Task -> Account] /\ bypass \subseteq Task
    /\ inside = {}
    /\ taken \in [Account -> Nat]

Enter(t) ==
    /\ t \notin bypass
    /\ \A u \in inside : account[u] # account[t]
    /\ inside' = inside \cup {t}
    /\ UNCHANGED taken

Send(t) ==
    /\ t \in inside \cup bypass
    /\ taken' = [taken EXCEPT ![account[t]] = @ + 1]
    /\ UNCHANGED inside

Leave(t) ==
    /\ inside' = inside \ {t}
    /\ UNCHANGED taken

Next == UNCHANGED <<account, bypass>> /\ \E t \in Task : Enter(t) \/ Send(t) \/ Leave(t)

Spec == Init /\ [][Next]_vars
=============================================================================
