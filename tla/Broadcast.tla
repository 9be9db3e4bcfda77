----------------------------- MODULE Broadcast -----------------------------
(***************************************************************************)
(* Live broadcasts: the process-global locker (crates/core/src/            *)
(* wallet_lock.rs) around the write paths of the RPC backends              *)
(* (crates/cosmwasm, solidity: chain.rs, provider/rpc.rs).                 *)
(*                                                                         *)
(* A task is one call of a chain handle, on any thread or runtime of the   *)
(* process.  The node is modelled from how the providers use it: an        *)
(* account has a committed nonce and its pending transactions in nonce     *)
(* order; a transaction enters only with the nonce that comes next.        *)
(***************************************************************************)
EXTENDS Integers, Sequences

CONSTANTS
    Task,
    Account,        \* lock_key's domain: (chain kind, chain id, address)
    Evm,            \* the accounts whose nonce read counts pending txs; those
                    \* of a Cosmos chain read the committed sequence
    Calls,          \* the calls a task may make; a hasty one may fail or be
                    \* dropped while its tx is pending
    NoMutex

(* "write" with an exact gas limit, "priced" with an estimated one, an      *)
(* "estimate", and "raw": sign_transaction, then send_raw_transaction.      *)
Kinds == {"write", "priced", "estimate", "raw"}

ASSUME BroadcastAssumption ==
    /\ Evm \subseteq Account
    /\ Calls \subseteq [account : Account, kind : Kinds, hasty : BOOLEAN]
    /\ NoMutex \notin Task

VARIABLES
    call,           \* the call each task makes
    pc,
    locker,         \* LOCKER: account -> mutex, named by the task that made it
    handle,         \* the mutex a task cloned out of the locker
    queue,          \* the owner and then the waiters of each mutex
    nonce,          \* the account nonce a task read
    committed,      \* the account's nonce in the latest block
    pending,        \* the tasks whose tx is in the mempool, in nonce order
    mined,          \* the tasks whose tx is in a block
    refused         \* the tasks whose tx the node refused for its nonce

vars == <<call, pc, locker, handle, queue, nonce, committed, pending, mined, refused>>
lock == <<locker, handle, queue>>
node == <<committed, pending, mined, refused>>

Init ==
    /\ call \in [Task -> Calls]
    /\ pc = [t \in Task |-> "idle"]
    /\ locker = [a \in Account |-> NoMutex]
    /\ handle = [t \in Task |-> NoMutex]
    /\ queue = [m \in Task |-> <<>>]
    /\ nonce = [t \in Task |-> 0]
    /\ committed = [a \in Account |-> 0]
    /\ pending = [a \in Account |-> <<>>]
    /\ mined = {}
    /\ refused = {}

Mine(t) == call[t].account

Goto(t, from, to) == pc[t] = from /\ pc' = [pc EXCEPT ![t] = to]

NextNonce(a) == committed[a] + Len(pending[a])
-----------------------------------------------------------------------------
(* Seeded defects: every call makes a mutex of its own; one mutex serves    *)
(* every account.                                                           *)
LookupPrivate(t) ==
    /\ call[t].kind # "raw"
    /\ Goto(t, "idle", "lock")
    /\ locker' = [locker EXCEPT ![Mine(t)] = t]
    /\ handle' = [handle EXCEPT ![t] = t]
    /\ UNCHANGED <<call, queue, nonce, node>>

LookupGlobal(t) ==
    /\ call[t].kind # "raw"
    /\ Goto(t, "idle", "lock")
    /\ \E m \in Task :
         /\ m \in {locker[a] : a \in Account}
              \/ (m = t /\ \A a \in Account : locker[a] = NoMutex)
         /\ locker' = [locker EXCEPT ![Mine(t)] = m]
         /\ handle' = [handle EXCEPT ![t] = m]
    /\ UNCHANGED <<call, queue, nonce, node>>

(* lock_broadcast, under the registry's std mutex: the account's mutex is   *)
(* cloned, or made and then cloned.                                         *)
Lookup(t) ==
    /\ call[t].kind # "raw"
    /\ Goto(t, "idle", "lock")
    /\ LET m == IF locker[Mine(t)] = NoMutex THEN t ELSE locker[Mine(t)] IN
         /\ locker' = [locker EXCEPT ![Mine(t)] = m]
         /\ handle' = [handle EXCEPT ![t] = m]
    /\ UNCHANGED <<call, queue, nonce, node>>

(* lock_owned: the async mutex serves its waiters in order. *)
Enqueue(t) ==
    /\ Goto(t, "lock", "wait")
    /\ queue' = [queue EXCEPT ![handle[t]] = Append(@, t)]
    /\ UNCHANGED <<call, locker, handle, nonce, node>>

Body == [write |-> "read", priced |-> "simulate", estimate |-> "simulate"]

(* The front of the queue owns the mutex. *)
Granted(t) ==
    /\ pc[t] = "wait"
    /\ queue[handle[t]] # <<>> /\ Head(queue[handle[t]]) = t
    /\ Goto(t, "wait", Body[call[t].kind])
    /\ UNCHANGED <<call, lock, nonce, node>>

Without(q, t) ==
    IF \E k \in DOMAIN q : q[k] = t
      THEN LET k == CHOOSE j \in DOMAIN q : q[j] = t
           IN  [j \in 1 .. (Len(q) - 1) |-> IF j < k THEN q[j] ELSE q[j + 1]]
      ELSE q

(* Seeded defect: the guard is never dropped. *)
ReleaseNothing(t) ==
    /\ pc' = [pc EXCEPT ![t] = "done"]
    /\ UNCHANGED <<call, lock>>

(* The guard, or the wait for it, is dropped: whoever is next in the queue  *)
(* owns the mutex.                                                          *)
Release(t) ==
    /\ pc' = [pc EXCEPT ![t] = "done"]
    /\ queue' = IF handle[t] = NoMutex THEN queue
                ELSE [queue EXCEPT ![handle[t]] = Without(@, t)]
    /\ UNCHANGED <<call, locker, handle>>

(* The escape hatch takes no lock. *)
Unguarded(t) ==
    /\ call[t].kind = "raw"
    /\ Goto(t, "idle", "read")
    /\ UNCHANGED <<call, lock, nonce, node>>

(* Seeded defect: the guard goes with the estimate. *)
SimulateAndUnlock(t) ==
    /\ pc[t] = "simulate"
    /\ nonce' = [nonce EXCEPT ![t] = committed[Mine(t)]]
    /\ queue' = [queue EXCEPT ![handle[t]] = Without(@, t)]
    /\ Goto(t, "simulate", IF call[t].kind = "estimate" THEN "done" ELSE "read")
    /\ UNCHANGED <<call, locker, handle, node>>

(* simulate: the signer's nonce against the latest committed state.  Within *)
(* a write path it runs on the provider, under the lock the task holds.     *)
Simulate(t) ==
    /\ pc[t] = "simulate"
    /\ nonce' = [nonce EXCEPT ![t] = committed[Mine(t)]]
    /\ IF call[t].kind = "estimate"
         THEN Release(t)
         ELSE Goto(t, "simulate", "read") /\ UNCHANGED <<call, lock>>
    /\ UNCHANGED node

(* account_info, or the nonce filler; then the tx is signed. *)
ReadNonce(t) ==
    /\ Goto(t, "read", "send")
    /\ nonce' = [nonce EXCEPT ![t] =
                   IF Mine(t) \in Evm THEN NextNonce(Mine(t)) ELSE committed[Mine(t)]]
    /\ UNCHANGED <<call, lock, node>>

(* The node takes the tx, and the task waits for its receipt. *)
Send(t) ==
    /\ nonce[t] = NextNonce(Mine(t))
    /\ Goto(t, "send", "confirm")
    /\ pending' = [pending EXCEPT ![Mine(t)] = Append(@, t)]
    /\ UNCHANGED <<call, lock, nonce, committed, mined, refused>>

(* check_tx fails on a nonce that is taken. *)
Refuse(t) ==
    /\ pc[t] = "send"
    /\ nonce[t] # NextNonce(Mine(t))
    /\ refused' = refused \cup {t}
    /\ Release(t)
    /\ UNCHANGED <<nonce, committed, pending, mined>>

(* An error, or a dropped future, before the tx has left. *)
FailEarly(t) ==
    /\ pc[t] \in {"lock", "wait", "simulate", "read", "send"}
    /\ Release(t)
    /\ UNCHANGED <<nonce, node>>

(* Seeded defect: the call returns with the hash, before a receipt. *)
ConfirmUnmined(t) ==
    /\ pc[t] = "confirm"
    /\ Release(t)
    /\ UNCHANGED <<nonce, node>>

(* The receipt: Ok, or Err for a tx that failed on chain. *)
Confirm(t) ==
    /\ pc[t] = "confirm" /\ t \in mined
    /\ Release(t)
    /\ UNCHANGED <<nonce, node>>

(* The wait for the receipt times out, errs or is dropped: the guard goes,  *)
(* the tx stays.                                                            *)
GiveUp(t) ==
    /\ call[t].hasty
    /\ pc[t] = "confirm" /\ t \notin mined
    /\ Release(t)
    /\ UNCHANGED <<nonce, node>>

(* A block takes the account's oldest pending tx. *)
Block(a) ==
    /\ pending[a] # <<>>
    /\ mined' = mined \cup {Head(pending[a])}
    /\ pending' = [pending EXCEPT ![a] = Tail(@)]
    /\ committed' = [committed EXCEPT ![a] = @ + 1]
    /\ UNCHANGED <<call, pc, lock, nonce, refused>>

Step(t) ==
    \/ Lookup(t) \/ Enqueue(t) \/ Granted(t) \/ Unguarded(t) \/ Simulate(t)
    \/ ReadNonce(t) \/ Send(t) \/ Refuse(t) \/ Confirm(t)

Done == (\A t \in Task : pc[t] = "done") /\ UNCHANGED vars

Next ==
    \/ \E t \in Task : Step(t) \/ FailEarly(t) \/ GiveUp(t)
    \/ \E a \in Account : Block(a)
    \/ Done

Spec ==
    /\ Init /\ [][Next]_vars
    /\ \A t \in Task : WF_vars(Step(t))
    /\ \A a \in Account : WF_vars(Block(a))
-----------------------------------------------------------------------------
(* Every variable keeps its type, and only a call that locks is ever found  *)
(* on its way to the lock.                                                  *)
TypeOK ==
    /\ call \in [Task -> Calls]
    /\ pc \in [Task -> {"idle", "lock", "wait", "simulate", "read", "send", "confirm", "done"}]
    /\ \A t \in Task : pc[t] \in {"lock", "wait"} => call[t].kind # "raw"
    /\ locker \in [Account -> Task \cup {NoMutex}]
    /\ handle \in [Task -> Task \cup {NoMutex}]
    /\ queue \in [Task -> Seq(Task)]
    /\ nonce \in [Task -> Nat]
    /\ committed \in [Account -> Nat]
    /\ pending \in [Account -> Seq(Task)]
    /\ mined \subseteq Task
    /\ refused \subseteq Task

Inside == {t \in Task : pc[t] \in {"simulate", "read", "send", "confirm"}}
Holders == {t \in Inside : call[t].kind # "raw"}

(* Two calls that lock the same account never run their bodies at once,     *)
(* whichever thread created its mutex and whoever gave up waiting.          *)
SameAccountSerializes ==
    \A t, u \in Holders : Mine(t) = Mine(u) => t = u

(* The locker can answer for an account if every call of it takes the lock  *)
(* and no pending tx is overlooked: the nonce read counts it (EVM), or no   *)
(* call lets go of the lock before its receipt.                             *)
Covered(a) ==
    \A t \in Task : Mine(t) = a =>
      call[t].kind # "raw" /\ (a \in Evm \/ ~call[t].hasty)

(* No tx of such an account is refused because its nonce was already taken: *)
(* the nonce a write read is still the next one when it is sent.            *)
NoNonceCollision == \A t \in refused : ~Covered(Mine(t))

(* Calls for different accounts do not wait for one another: two tasks meet *)
(* in the queue of a mutex only when they share an account.                 *)
OnlySharersWait ==
    \A m \in Task : \A j, k \in DOMAIN queue[m] : Mine(queue[m][j]) = Mine(queue[m][k])

(* Every call returns: no waiter starves, and no task waits for itself.     *)
EveryCallReturns == \A t \in Task : <>(pc[t] = "done")

Serial == INSTANCE SerialAccounts WITH
    account <- [t \in Task |-> Mine(t)],
    bypass <- {t \in Task : call[t].kind = "raw"},
    inside <- Holders, taken <- [a \in Account |-> NextNonce(a)]

(* The locked calls keep the locker's promise (SerialAccounts): one call of *)
(* an account inside at a time, each send taking the account's next nonce,  *)
(* whatever the calls that bypass it do.                                    *)
Implements == Serial!Spec
=============================================================================
