------------------------- MODULE Broadcast_proofs -------------------------
(***************************************************************************)
(* Broadcast, for every set of tasks and accounts.                         *)
(***************************************************************************)
EXTENDS Broadcast, TLAPS

(* Dropping a task from a queue leaves a queue of tasks. *)
LEMMA WithoutType ==
    ASSUME NEW q \in Seq(Task), NEW t \in Task
    PROVE  Without(q, t) \in Seq(Task)
<1>1. CASE \E k \in DOMAIN q : q[k] = t
  <2> DEFINE k == CHOOSE j \in DOMAIN q : q[j] = t
  <2>1. k \in 1 .. Len(q) /\ Without(q, t)
            = [j \in 1 .. (Len(q) - 1) |-> IF j < k THEN q[j] ELSE q[j + 1]]
    BY <1>1 DEF Without
  <2>2. \A j \in 1 .. (Len(q) - 1) : (IF j < k THEN q[j] ELSE q[j + 1]) \in Task
    BY <2>1
  <2>3. Len(q) - 1 \in Nat
    BY <2>1
  <2> HIDE DEF k
  <2> QED BY <2>1, <2>2, <2>3
<1>2. CASE ~ \E k \in DOMAIN q : q[k] = t
  BY <1>2 DEF Without
<1> QED BY <1>1, <1>2

(* A queue keeps its owner when another task leaves it. *)
LEMMA WithoutKeepsTheHead ==
    ASSUME NEW q \in Seq(Task), NEW t \in Task, q # <<>>, Head(q) # t
    PROVE  Without(q, t) # <<>> /\ Head(Without(q, t)) = Head(q)
<1>1. CASE \E k \in DOMAIN q : q[k] = t
  <2> DEFINE k == CHOOSE j \in DOMAIN q : q[j] = t
  <2>1. k \in 1 .. Len(q) /\ q[k] = t /\ Without(q, t)
            = [j \in 1 .. (Len(q) - 1) |-> IF j < k THEN q[j] ELSE q[j + 1]]
    BY <1>1 DEF Without
  <2>2. k > 1 /\ Len(q) > 1
    BY <2>1
  <2> HIDE DEF k
  <2>3. Without(q, t)[1] = q[1] /\ Len(Without(q, t)) = Len(q) - 1
    BY <2>1, <2>2
  <2> QED BY <2>2, <2>3, WithoutType
<1>2. CASE ~ \E k \in DOMAIN q : q[k] = t
  BY <1>2 DEF Without
<1> QED BY <1>1, <1>2

(* Every variable keeps its type. *)
THEOREM TypeCorrect == Spec => []TypeOK
<1> USE BroadcastAssumption
<1>1. Init => TypeOK
  BY DEF Init, TypeOK
<1>2. TypeOK /\ [Next]_vars => TypeOK'
  <2> SUFFICES ASSUME TypeOK, [Next]_vars PROVE TypeOK'
    OBVIOUS
  <2> USE DEF TypeOK, Goto, Mine, lock, node
  <2>1. ASSUME NEW t \in Task PROVE call[t].account \in Account /\ call[t].kind \in Kinds
    OBVIOUS
  <2>2. ASSUME NEW t \in Task, Release(t)
        PROVE  /\ pc' \in [Task -> {"idle", "lock", "wait", "simulate", "read", "send",
                                    "confirm", "done"}]
               /\ \A u \in Task : pc'[u] \in {"lock", "wait"} => call[u].kind # "raw"
               /\ queue' \in [Task -> Seq(Task)]
               /\ UNCHANGED <<call, locker, handle>>
    BY <2>2, WithoutType DEF Release
  <2>3. ASSUME NEW t \in Task, Lookup(t) PROVE TypeOK'
    BY <2>1, <2>3 DEF Lookup
  <2>4. ASSUME NEW t \in Task, Enqueue(t) PROVE TypeOK'
    <3>1. CASE handle[t] \in Task
      <4>1. Append(queue[handle[t]], t) \in Seq(Task)
        BY <3>1
      <4> QED BY <2>4, <3>1, <4>1 DEF Enqueue
    <3>2. CASE handle[t] \notin Task
      <4>1. queue' = queue
        BY <2>4, <3>2 DEF Enqueue
      <4> QED BY <2>4, <4>1 DEF Enqueue
    <3> QED BY <3>1, <3>2
  <2>5. ASSUME NEW t \in Task, Granted(t) PROVE TypeOK'
    <3>1. call[t].kind \in {"write", "priced", "estimate"}
      BY <2>1, <2>5 DEF Granted, Kinds
    <3>2. Body[call[t].kind] \in {"read", "simulate"}
      BY <3>1 DEF Body
    <3> QED BY <2>5, <3>2 DEF Granted
  <2>6. ASSUME NEW t \in Task, Unguarded(t) PROVE TypeOK'
    BY <2>6 DEF Unguarded
  <2>7. ASSUME NEW t \in Task, Simulate(t) PROVE TypeOK'
    <3>1. CASE call[t].kind = "estimate"
      BY <2>1, <2>2, <2>7, <3>1 DEF Simulate
    <3>2. CASE call[t].kind # "estimate"
      BY <2>1, <2>7, <3>2 DEF Simulate
    <3> QED BY <3>1, <3>2
  <2>8. ASSUME NEW t \in Task, ReadNonce(t) PROVE TypeOK'
    BY <2>1, <2>8 DEF ReadNonce, NextNonce
  <2>9. ASSUME NEW t \in Task, Send(t) PROVE TypeOK'
    BY <2>1, <2>9 DEF Send
  <2>10. ASSUME NEW t \in Task, Refuse(t) PROVE TypeOK'
    BY <2>2, <2>10 DEF Refuse
  <2>11. ASSUME NEW t \in Task, FailEarly(t) \/ Confirm(t) \/ GiveUp(t) PROVE TypeOK'
    BY <2>2, <2>11 DEF FailEarly, Confirm, GiveUp
  <2>12. ASSUME NEW a \in Account, Block(a) PROVE TypeOK'
    BY <2>12 DEF Block
  <2>13. CASE Done \/ UNCHANGED vars
    BY <2>13 DEF Done, vars
  <2> QED BY <2>3, <2>4, <2>5, <2>6, <2>7, <2>8, <2>9, <2>10, <2>11, <2>12, <2>13
          DEF Next, Step
<1> QED BY <1>1, <1>2, PTL DEF Spec
-----------------------------------------------------------------------------
(* Why the lock excludes: every task of an account holds the same mutex,    *)
(* the one the locker names, and a task in its body is at the head of that  *)
(* mutex's queue.                                                           *)
OneMutexPerAccount ==
    \A t \in Task :
      /\ handle[t] # NoMutex => handle[t] = locker[Mine(t)]
      /\ pc[t] \in {"lock", "wait"} \/ t \in Holders => handle[t] # NoMutex

OwnersAreFirst ==
    \A t \in Holders : queue[handle[t]] # <<>> /\ Head(queue[handle[t]]) = t

LockInv == TypeOK /\ OneMutexPerAccount /\ OwnersAreFirst

(* Two owners of one mutex are one task: they head the same queue. *)
LEMMA LockInvExcludes == LockInv => SameAccountSerializes
<1> SUFFICES ASSUME LockInv, NEW t \in Holders, NEW u \in Holders, Mine(t) = Mine(u)
             PROVE  t = u
  BY DEF SameAccountSerializes
<1> QED BY DEF LockInv, OneMutexPerAccount, OwnersAreFirst, Holders, Inside

(* Leaving a queue disturbs no owner but the one that leaves. *)
LEMMA ReleaseKeepsLockInv ==
    ASSUME LockInv, TypeOK', NEW t \in Task, Release(t)
    PROVE  LockInv'
<1> USE DEF LockInv, TypeOK, Mine, Holders, Inside
<1>1. Holders' = Holders \ {t} /\ call' = call /\ locker' = locker /\ handle' = handle
  BY DEF Release
<1>2. OneMutexPerAccount'
  BY <1>1 DEF OneMutexPerAccount, Release
<1>3. ASSUME NEW u \in Holders, u # t
      PROVE  queue'[handle[u]] # <<>> /\ Head(queue'[handle[u]]) = u
  <2>1. /\ handle[u] \in Task /\ queue[handle[u]] \in Seq(Task)
        /\ queue[handle[u]] # <<>> /\ Head(queue[handle[u]]) = u
    BY DEF OneMutexPerAccount, OwnersAreFirst
  <2>2. queue'[handle[u]] \in {queue[handle[u]], Without(queue[handle[u]], t)}
    BY <2>1 DEF Release
  <2> QED BY <2>1, <2>2, <1>3, WithoutKeepsTheHead
<1>4. OwnersAreFirst'
  BY <1>1, <1>3 DEF OwnersAreFirst
<1> QED BY <1>2, <1>4

(* The lock's invariant holds of every behaviour. *)
LEMMA LockInvInvariant == Spec => []LockInv
<1> USE BroadcastAssumption DEF Mine, Holders, Inside
<1>1. Init /\ TypeOK => LockInv
  BY DEF Init, LockInv, OneMutexPerAccount, OwnersAreFirst
<1>2. LockInv /\ TypeOK' /\ [Next]_vars => LockInv'
  <2> SUFFICES ASSUME LockInv, TypeOK', [Next]_vars PROVE LockInv'
    OBVIOUS
  <2> USE DEF Goto, lock, node
  <2>1. TypeOK /\ OneMutexPerAccount /\ OwnersAreFirst
    BY DEF LockInv
  <2>2. ASSUME NEW t \in Task, Release(t) PROVE LockInv'
    BY <2>2, ReleaseKeepsLockInv
  <2>3. ASSUME NEW t \in Task, Lookup(t) PROVE LockInv'
    <3>1. Holders' = Holders /\ call' = call /\ queue' = queue
      BY <2>1, <2>3 DEF Lookup, TypeOK
    <3>2. \A u \in Holders : handle'[u] = handle[u]
      BY <2>1, <2>3 DEF Lookup, TypeOK
    <3>3. OneMutexPerAccount'
      BY <2>1, <2>3 DEF Lookup, TypeOK, OneMutexPerAccount
    <3> QED BY <2>1, <3>1, <3>2, <3>3 DEF LockInv, OwnersAreFirst
  <2>4. ASSUME NEW t \in Task, Enqueue(t) PROVE LockInv'
    <3>1. Holders' = Holders /\ UNCHANGED <<call, locker, handle>>
      BY <2>1, <2>4 DEF Enqueue, TypeOK
    <3>2. OneMutexPerAccount'
      BY <2>1, <2>4 DEF Enqueue, TypeOK, OneMutexPerAccount
    <3>3. ASSUME NEW u \in Holders
          PROVE  queue'[handle[u]] # <<>> /\ Head(queue'[handle[u]]) = u
      <4>1. /\ handle[u] \in Task /\ queue[handle[u]] \in Seq(Task)
            /\ queue[handle[u]] # <<>> /\ Head(queue[handle[u]]) = u
        BY <2>1 DEF TypeOK, OneMutexPerAccount, OwnersAreFirst
      <4>2. queue'[handle[u]] \in {queue[handle[u]], Append(queue[handle[u]], t)}
        BY <2>1, <2>4, <4>1 DEF Enqueue, TypeOK
      <4> QED BY <4>1, <4>2
    <3> QED BY <3>1, <3>2, <3>3 DEF LockInv, OwnersAreFirst
  <2>5. ASSUME NEW t \in Task, Granted(t) PROVE LockInv'
    <3>1. handle[t] # NoMutex /\ handle[t] \in Task
      BY <2>1, <2>5 DEF Granted, TypeOK, OneMutexPerAccount
    <3>2. queue[handle[t]] # <<>> /\ Head(queue[handle[t]]) = t
      BY <2>1, <2>5, <3>1 DEF Granted, TypeOK
    <3> QED BY <2>1, <2>5, <3>1, <3>2
            DEF LockInv, TypeOK, OneMutexPerAccount, OwnersAreFirst, Granted
  <2>6. ASSUME NEW t \in Task, Unguarded(t) PROVE LockInv'
    BY <2>1, <2>6 DEF Unguarded, LockInv, TypeOK, OneMutexPerAccount, OwnersAreFirst
  <2>7. ASSUME NEW t \in Task, Simulate(t) PROVE LockInv'
    <3>1. CASE call[t].kind = "estimate"
      BY <2>2, <2>7, <3>1 DEF Simulate
    <3>2. CASE call[t].kind # "estimate"
      BY <2>1, <2>7, <3>2
         DEF Simulate, LockInv, TypeOK, OneMutexPerAccount, OwnersAreFirst
    <3> QED BY <3>1, <3>2
  <2>8. ASSUME NEW t \in Task, ReadNonce(t) \/ Send(t) PROVE LockInv'
    BY <2>1, <2>8
       DEF ReadNonce, Send, LockInv, TypeOK, OneMutexPerAccount, OwnersAreFirst
  <2>9. ASSUME NEW t \in Task, Refuse(t) \/ FailEarly(t) \/ Confirm(t) \/ GiveUp(t)
        PROVE  LockInv'
    BY <2>2, <2>9 DEF Refuse, FailEarly, Confirm, GiveUp
  <2>10. ASSUME NEW a \in Account, Block(a) PROVE LockInv'
    BY <2>1, <2>10 DEF Block, LockInv, OneMutexPerAccount, OwnersAreFirst
  <2>11. CASE Done \/ UNCHANGED vars
    BY <2>1, <2>11 DEF Done, vars, LockInv, OneMutexPerAccount, OwnersAreFirst
  <2> QED BY <2>3, <2>4, <2>5, <2>6, <2>7, <2>8, <2>9, <2>10, <2>11 DEF Next, Step
<1> QED BY <1>1, <1>2, TypeCorrect, PTL DEF Spec

(* Calls that lock the same account are served one at a time. *)
THEOREM Exclusion == Spec => []SameAccountSerializes
BY LockInvInvariant, LockInvExcludes, PTL
-----------------------------------------------------------------------------
(* The nonces of the covered accounts.  A nonce in hand is the account's    *)
(* next one.                                                                *)
ReadsAreCurrent ==
    \A t \in Task : Covered(Mine(t)) /\ pc[t] = "send" => nonce[t] = NextNonce(Mine(t))

(* Where calls wait for their receipts, the account's one pending tx is     *)
(* that of the call inside.                                                 *)
Patient(a) == \A t \in Task : Mine(t) = a => call[t].kind # "raw" /\ ~call[t].hasty

PendingIsInside ==
    /\ \A a \in Account : Patient(a) /\ pending[a] # <<>> =>
         \E t \in Task :
           pending[a] = <<t>> /\ Mine(t) = a /\ pc[t] = "confirm" /\ t \notin mined
    /\ \A a \in Account : \A k \in DOMAIN pending[a] :
         Mine(pending[a][k]) = a /\ pc[pending[a][k]] \in {"confirm", "done"}
    /\ \A t \in mined : pc[t] \in {"confirm", "done"}

NonceInv == LockInv /\ ReadsAreCurrent /\ PendingIsInside /\ NoNonceCollision

(* The nonces' invariant holds of every behaviour. *)
LEMMA NonceInvInvariant == Spec => []NonceInv
<1> USE BroadcastAssumption DEF Mine, Holders, Inside
<1>1. Init /\ LockInv => NonceInv
  BY DEF Init, NonceInv, ReadsAreCurrent, PendingIsInside, NoNonceCollision
<1>2. NonceInv /\ LockInv' /\ [Next]_vars => NonceInv'
  <2> SUFFICES ASSUME NonceInv, LockInv', [Next]_vars PROVE NonceInv'
    OBVIOUS
  <2> USE DEF Goto, lock, node
  <2>1. /\ TypeOK /\ ReadsAreCurrent /\ PendingIsInside /\ NoNonceCollision
        /\ TypeOK' /\ SameAccountSerializes
    BY LockInvExcludes DEF NonceInv, LockInv
  <2>2. \A t \in Task : call[t] \in Calls /\ call[t].account \in Account
    BY <2>1 DEF TypeOK
  <2>3. \A t, u \in Inside : Mine(t) = Mine(u) /\ (Covered(Mine(t)) \/ Patient(Mine(t))) => t = u
    BY <2>1, <2>2 DEF SameAccountSerializes, Covered, Patient
  <2>0. call' = call => \A a \in Account : Covered(a)' = Covered(a) /\ Patient(a)' = Patient(a)
    BY DEF Covered, Patient
  <2>15. ASSUME UNCHANGED <<call, pending, mined>>,
                \A u \in Task : \/ pc'[u] = pc[u]
                                \/ pc[u] \notin {"confirm", "done"}
                                \/ pc[u] = "confirm" /\ pc'[u] = "done"
                                     /\ (~Patient(Mine(u)) \/ u \in mined)
         PROVE  PendingIsInside'
    <3>1. \A u \in Task : pc[u] \in {"confirm", "done"} => pc'[u] \in {"confirm", "done"}
      BY <2>15
    <3>2. ASSUME NEW a \in Account, Patient(a), pending[a] # <<>>
          PROVE  \E u \in Task :
                   pending[a] = <<u>> /\ Mine(u) = a /\ pc'[u] = "confirm" /\ u \notin mined
      BY <2>1, <2>15, <3>2 DEF PendingIsInside
    <3>3. \A a \in Account : \A k \in DOMAIN pending[a] : pending[a][k] \in Task
      BY <2>1 DEF TypeOK
    <3>4. \A a \in Account : \A k \in DOMAIN pending[a] :
            Mine(pending[a][k]) = a /\ pc'[pending[a][k]] \in {"confirm", "done"}
      BY <2>1, <3>1, <3>3 DEF PendingIsInside
    <3>5. \A u \in mined : pc'[u] \in {"confirm", "done"}
      BY <2>1, <3>1 DEF PendingIsInside, TypeOK
    <3> QED BY <2>0, <2>15, <3>2, <3>4, <3>5 DEF PendingIsInside
  <2>4. ASSUME NEW t \in Task, UNCHANGED <<call, nonce, committed, pending, mined, refused>>,
               \A u \in Task \ {t} : pc'[u] = pc[u],
               pc'[t] # "send", pc[t] # "done",
               pc[t] = "confirm" => pc'[t] = "done" /\ (call[t].hasty \/ t \in mined)
        PROVE  NonceInv'
    <3>1. ReadsAreCurrent'
      BY <2>0, <2>1, <2>2, <2>4 DEF ReadsAreCurrent, NextNonce
    <3>2. PendingIsInside'
      <4>1. pc[t] = "confirm" => ~Patient(Mine(t)) \/ t \in mined
        BY <2>4 DEF Patient
      <4> QED BY <2>4, <2>15, <4>1
    <3> QED BY <2>0, <2>1, <2>2, <2>4, <3>1, <3>2 DEF NonceInv, NoNonceCollision, TypeOK
  <2>5. ASSUME NEW t \in Task, Release(t)
        PROVE  pc'[t] = "done" /\ call' = call /\ \A u \in Task \ {t} : pc'[u] = pc[u]
    BY <2>1, <2>5 DEF Release, TypeOK
  <2>6. ASSUME NEW t \in Task, Lookup(t) \/ Enqueue(t) \/ Unguarded(t) PROVE NonceInv'
    BY <2>1, <2>4, <2>6 DEF Lookup, Enqueue, Unguarded, TypeOK
  <2>7. ASSUME NEW t \in Task, Granted(t) PROVE NonceInv'
    BY <2>1, <2>2, <2>4, <2>7 DEF Granted, TypeOK, Body, Kinds
  <2>8. ASSUME NEW t \in Task, Simulate(t) PROVE NonceInv'
    <3>1. \A u \in Task \ {t} : pc'[u] = pc[u] /\ nonce'[u] = nonce[u]
      BY <2>1, <2>5, <2>8 DEF Simulate, TypeOK
    <3>2. pc'[t] \in {"done", "read"} /\ pc[t] = "simulate" /\ call' = call /\ UNCHANGED node
      BY <2>1, <2>5, <2>8 DEF Simulate, TypeOK
    <3>3. ReadsAreCurrent'
      BY <2>0, <2>1, <2>2, <3>1, <3>2 DEF ReadsAreCurrent, NextNonce
    <3>4. PendingIsInside'
      BY <2>15, <3>1, <3>2
    <3> QED BY <2>0, <2>1, <2>2, <3>2, <3>3, <3>4 DEF TypeOK, NonceInv, NoNonceCollision
  <2>9. ASSUME NEW t \in Task, ReadNonce(t) PROVE NonceInv'
    <3>1. Covered(Mine(t)) /\ Mine(t) \notin Evm => pending[Mine(t)] = <<>>
      <4> SUFFICES ASSUME Covered(Mine(t)), Mine(t) \notin Evm, pending[Mine(t)] # <<>>
                   PROVE  FALSE
        OBVIOUS
      <4>1. Patient(Mine(t))
        BY DEF Covered, Patient
      <4>2. PICK u \in Task : Mine(u) = Mine(t) /\ pc[u] = "confirm"
        BY <2>1, <2>2, <4>1 DEF PendingIsInside
      <4> QED BY <4>1, <4>2, <2>3, <2>9 DEF ReadNonce
    <3>2. Covered(Mine(t)) => nonce'[t] = NextNonce(Mine(t))
      BY <2>1, <2>2, <2>9, <3>1 DEF ReadNonce, NextNonce, TypeOK
    <3>3. \A u \in Task \ {t} : pc'[u] = pc[u] /\ nonce'[u] = nonce[u]
      BY <2>1, <2>9 DEF ReadNonce, TypeOK
    <3>4. call' = call /\ UNCHANGED node /\ pc[t] = "read"
      BY <2>9 DEF ReadNonce
    <3>5. ReadsAreCurrent'
      BY <2>0, <2>1, <2>2, <3>2, <3>3, <3>4 DEF ReadsAreCurrent, NextNonce
    <3>6. PendingIsInside'
      BY <2>15, <3>3, <3>4
    <3> QED BY <2>0, <2>1, <2>2, <3>4, <3>5, <3>6 DEF NonceInv, NoNonceCollision, TypeOK
  <2>10. ASSUME NEW t \in Task, Send(t) PROVE NonceInv'
    <3>1. /\ \A u \in Task \ {t} : pc'[u] = pc[u]
          /\ pc[t] = "send" /\ pc'[t] = "confirm"
          /\ UNCHANGED <<call, nonce, committed, mined, refused>>
          /\ pending' = [pending EXCEPT ![Mine(t)] = Append(@, t)]
      BY <2>1, <2>10 DEF Send, TypeOK
    <3>2. \A a \in Account \ {Mine(t)} : pending'[a] = pending[a]
      BY <2>1, <3>1 DEF TypeOK
    <3>3. \A u \in Task \ {t} : pc[u] = "send" /\ Covered(Mine(u)) => Mine(u) # Mine(t)
      BY <2>3, <3>1
    <3>4. ReadsAreCurrent'
      BY <2>0, <2>1, <2>2, <3>1, <3>2, <3>3 DEF ReadsAreCurrent, NextNonce
    <3>5. Patient(Mine(t)) => pending[Mine(t)] = <<>>
      BY <2>1, <2>2, <2>3, <3>1 DEF PendingIsInside
    <3>6. t \notin mined /\ mined \subseteq Task
      BY <2>1, <3>1 DEF PendingIsInside, TypeOK
    <3>7. pending[Mine(t)] \in Seq(Task) /\ pending'[Mine(t)] = Append(pending[Mine(t)], t)
      BY <2>1, <2>2, <3>1 DEF TypeOK
    <3>8. Patient(Mine(t)) => pending'[Mine(t)] = <<t>>
      <4>1. <<>> \in Seq(Task) /\ <<t>> \in Seq(Task)
        OBVIOUS
      <4>2. Len(Append(<<>>, t)) = 1 /\ Append(<<>>, t)[1] = t /\ Append(<<>>, t) \in Seq(Task)
        BY <4>1
      <4>3. Append(<<>>, t) = <<t>>
        BY <4>1, <4>2
      <4> QED BY <4>3, <3>5, <3>7
    <3>9. ASSUME NEW a \in Account, Patient(a), pending'[a] # <<>>
          PROVE  \E u \in Task :
                   pending'[a] = <<u>> /\ Mine(u) = a /\ pc'[u] = "confirm" /\ u \notin mined
      <4>1. CASE a = Mine(t)
        BY <3>1, <3>6, <3>8, <3>9, <4>1
      <4>2. CASE a # Mine(t)
        BY <2>1, <3>1, <3>2, <3>9, <4>2 DEF PendingIsInside
      <4> QED BY <4>1, <4>2
    <3>10. ASSUME NEW a \in Account, NEW k \in DOMAIN pending'[a]
           PROVE  Mine(pending'[a][k]) = a /\ pc'[pending'[a][k]] \in {"confirm", "done"}
      <4>1. CASE a = Mine(t)
        <5>1. pending'[a][k] = t
                \/ (k \in DOMAIN pending[a] /\ pending'[a][k] = pending[a][k] /\ pending[a][k] \in Task)
          <6> DEFINE s == pending[Mine(t)]
          <6>1. s \in Seq(Task) /\ pending'[a] = Append(s, t) /\ k \in DOMAIN Append(s, t)
            BY <3>7, <3>10, <4>1
          <6> HIDE DEF s
          <6>2. k \in 1 .. Len(s) + 1 /\ Len(s) \in Nat /\ DOMAIN s = 1 .. Len(s)
            BY <6>1
          <6>3. CASE k = Len(s) + 1
            BY <6>1, <6>2, <6>3
          <6>4. CASE k # Len(s) + 1
            <7>1. k \in DOMAIN s
              BY <6>2, <6>4
            <7>2. Append(s, t)[k] = s[k] /\ s[k] \in Task
              BY <6>1, <6>2, <7>1
            <7> QED BY <4>1, <6>1, <7>1, <7>2 DEF s
          <6> QED BY <6>3, <6>4
        <5> QED BY <2>1, <3>1, <5>1 DEF PendingIsInside
      <4>2. CASE a # Mine(t)
        <5>1. pending'[a] = pending[a] /\ pending[a] \in Seq(Task)
          BY <2>1, <3>2, <4>2 DEF TypeOK
        <5>2. k \in DOMAIN pending[a] /\ pending'[a][k] = pending[a][k] /\ pending[a][k] \in Task
          BY <3>10, <5>1
        <5> QED BY <2>1, <3>1, <5>2 DEF PendingIsInside
      <4> QED BY <4>1, <4>2
    <3>11. \A u \in mined : pc'[u] \in {"confirm", "done"}
      BY <2>1, <3>1, <3>6 DEF PendingIsInside
    <3>12. PendingIsInside'
      BY <2>0, <3>1, <3>9, <3>10, <3>11 DEF PendingIsInside
    <3> QED BY <2>0, <2>1, <2>2, <3>1, <3>4, <3>12 DEF NonceInv, NoNonceCollision, TypeOK
  <2>11. ASSUME NEW t \in Task, Refuse(t) PROVE NonceInv'
    <3>1. /\ Release(t) /\ UNCHANGED <<nonce, committed, pending, mined>>
          /\ pc[t] = "send" /\ nonce[t] # NextNonce(Mine(t)) /\ refused' = refused \cup {t}
      BY <2>11 DEF Refuse
    <3>2. pc'[t] = "done" /\ call' = call /\ \A u \in Task \ {t} : pc'[u] = pc[u]
      BY <2>5, <3>1
    <3>3. ~Covered(Mine(t))
      BY <2>1, <3>1 DEF ReadsAreCurrent
    <3>4. NoNonceCollision'
      BY <2>0, <2>1, <2>2, <3>1, <3>2, <3>3 DEF NoNonceCollision, TypeOK
    <3>5. ReadsAreCurrent'
      BY <2>0, <2>1, <2>2, <3>1, <3>2 DEF ReadsAreCurrent, NextNonce
    <3>6. PendingIsInside'
      BY <2>15, <3>1, <3>2
    <3> QED BY <3>4, <3>5, <3>6 DEF NonceInv
  <2>12. ASSUME NEW t \in Task, FailEarly(t) \/ Confirm(t) \/ GiveUp(t) PROVE NonceInv'
    <3>1. /\ Release(t) /\ UNCHANGED <<nonce, committed, pending, mined, refused>>
          /\ pc[t] # "done" /\ (pc[t] = "confirm" => call[t].hasty \/ t \in mined)
      BY <2>12 DEF FailEarly, Confirm, GiveUp
    <3> QED BY <2>4, <2>5, <3>1
  <2>13. ASSUME NEW a \in Account, Block(a) PROVE NonceInv'
    <3>1. /\ pending[a] # <<>> /\ pending[a] \in Seq(Task)
          /\ pending' = [pending EXCEPT ![a] = Tail(pending[a])]
          /\ committed' = [committed EXCEPT ![a] = committed[a] + 1]
          /\ mined' = mined \cup {pending[a][1]}
          /\ UNCHANGED <<call, pc, nonce, refused>>
      BY <2>1, <2>13 DEF Block, TypeOK
    <3>2. /\ committed'[a] = committed[a] + 1 /\ pending'[a] = Tail(pending[a])
          /\ \A b \in Account \ {a} : committed'[b] = committed[b] /\ pending'[b] = pending[b]
      BY <2>1, <3>1 DEF TypeOK
    <3>3. \A b \in Account :
            committed'[b] + Len(pending'[b]) = committed[b] + Len(pending[b])
      <4>1. Len(Tail(pending[a])) = Len(pending[a]) - 1 /\ Len(pending[a]) \in Nat
        BY <3>1
      <4>2. committed[a] \in Nat
        BY <2>1 DEF TypeOK
      <4>3. committed'[a] + Len(pending'[a]) = committed[a] + Len(pending[a])
        BY <3>2, <4>1, <4>2
      <4> QED BY <3>2, <4>3
    <3>4. ReadsAreCurrent'
      BY <2>0, <2>1, <2>2, <3>1, <3>3 DEF ReadsAreCurrent, NextNonce
    <3>5. pending[a][1] \in Task /\ 1 \in DOMAIN pending[a]
      BY <3>1
    <3>6. \A u \in mined' : pc'[u] \in {"confirm", "done"}
      BY <2>1, <3>1, <3>5 DEF PendingIsInside
    <3>7. ASSUME NEW b \in Account, NEW k \in DOMAIN pending'[b]
          PROVE  Mine(pending'[b][k]) = b /\ pc'[pending'[b][k]] \in {"confirm", "done"}
      <4>1. CASE b = a
        <5>1. pending'[b] = Tail(pending[a]) /\ k \in DOMAIN Tail(pending[a])
          BY <3>2, <3>7, <4>1
        <5>2. k + 1 \in DOMAIN pending[a] /\ Tail(pending[a])[k] = pending[a][k + 1]
          BY <3>1, <5>1
        <5> QED BY <2>1, <3>1, <4>1, <5>1, <5>2 DEF PendingIsInside
      <4>2. CASE b # a
        BY <2>1, <3>1, <3>2, <3>7, <4>2 DEF PendingIsInside
      <4> QED BY <4>1, <4>2
    <3>8. ASSUME NEW b \in Account, Patient(b), pending'[b] # <<>>
          PROVE  \E u \in Task :
                   pending'[b] = <<u>> /\ Mine(u) = b /\ pc'[u] = "confirm" /\ u \notin mined'
      <4>1. b # a
        <5> SUFFICES ASSUME b = a PROVE FALSE
          OBVIOUS
        <5>1. PICK u \in Task : pending[a] = <<u>>
          BY <2>1, <3>1, <3>8 DEF PendingIsInside
        <5> QED BY <3>2, <3>8, <5>1
      <4>2. PICK u \in Task :
              pending[b] = <<u>> /\ Mine(u) = b /\ pc[u] = "confirm" /\ u \notin mined
        BY <2>1, <3>2, <3>8, <4>1 DEF PendingIsInside
      <4>3. pending[a][1] # u
        BY <2>1, <3>5, <4>1, <4>2 DEF PendingIsInside
      <4> QED BY <3>1, <3>2, <4>1, <4>2, <4>3
    <3>9. PendingIsInside'
      BY <2>0, <3>1, <3>6, <3>7, <3>8 DEF PendingIsInside
    <3> QED BY <2>0, <2>1, <2>2, <3>1, <3>4, <3>9 DEF NonceInv, NoNonceCollision, TypeOK
  <2>14. CASE Done \/ UNCHANGED vars
    BY <2>1, <2>14 DEF Done, vars, NonceInv, ReadsAreCurrent, PendingIsInside,
                       NoNonceCollision, NextNonce, Covered, Patient
  <2> QED BY <2>6, <2>7, <2>8, <2>9, <2>10, <2>11, <2>12, <2>13, <2>14 DEF Next, Step
<1> QED BY <1>1, <1>2, LockInvInvariant, PTL DEF Spec

(* No broadcast of a covered account is refused for its nonce. *)
THEOREM NoncesNeverCollide == Spec => []NoNonceCollision
<1>1. NonceInv => NoNonceCollision
  BY DEF NonceInv
<1> QED BY <1>1, NonceInvInvariant, PTL
-----------------------------------------------------------------------------
(* Why accounts wait apart: a mutex serves the account of the task that     *)
(* made it.  So says the locker, every clone, and every queue.              *)
MutexesServeTheirMaker ==
    /\ \A a \in Account : locker[a] # NoMutex => Mine(locker[a]) = a
    /\ \A t \in Task : handle[t] # NoMutex => Mine(handle[t]) = Mine(t)
    /\ \A m \in Task : \A k \in DOMAIN queue[m] : Mine(queue[m][k]) = Mine(m)

(* Whoever is left in a queue was in it. *)
LEMMA WithoutKeepsMembers ==
    ASSUME NEW q \in Seq(Task), NEW t \in Task, NEW k \in DOMAIN Without(q, t)
    PROVE  \E j \in DOMAIN q : Without(q, t)[k] = q[j]
<1>1. CASE \E j \in DOMAIN q : q[j] = t
  <2> DEFINE n == CHOOSE j \in DOMAIN q : q[j] = t
  <2>1. n \in 1 .. Len(q) /\ Without(q, t)
            = [j \in 1 .. (Len(q) - 1) |-> IF j < n THEN q[j] ELSE q[j + 1]]
    BY <1>1 DEF Without
  <2> HIDE DEF n
  <2> QED BY <2>1
<1>2. CASE ~ \E j \in DOMAIN q : q[j] = t
  BY <1>2 DEF Without
<1> QED BY <1>1, <1>2

(* Leaving a queue brings no stranger into one. *)
LEMMA ReleaseKeepsApart ==
    ASSUME TypeOK, MutexesServeTheirMaker, NEW t \in Task, Release(t)
    PROVE  MutexesServeTheirMaker'
<1> USE DEF TypeOK, Mine
<1>1. UNCHANGED <<call, locker, handle>>
  BY DEF Release
<1>2. ASSUME NEW m \in Task, NEW k \in DOMAIN queue'[m]
      PROVE  Mine(queue'[m][k]) = Mine(m)
  <2>1. queue[m] \in Seq(Task) /\ queue'[m] \in {queue[m], Without(queue[m], t)}
    BY DEF Release
  <2>2. PICK j \in DOMAIN queue[m] : queue'[m][k] = queue[m][j]
    BY <1>2, <2>1, WithoutKeepsMembers
  <2> QED BY <2>2 DEF MutexesServeTheirMaker
<1> QED BY <1>1, <1>2 DEF MutexesServeTheirMaker

(* Tasks meet in a queue only when they share an account. *)
THEOREM OthersNeverWait == Spec => []OnlySharersWait
<1> USE BroadcastAssumption DEF Mine
<1>1. Init => MutexesServeTheirMaker
  BY DEF Init, MutexesServeTheirMaker
<1>2. LockInv /\ MutexesServeTheirMaker /\ [Next]_vars => MutexesServeTheirMaker'
  <2> SUFFICES ASSUME LockInv, MutexesServeTheirMaker, [Next]_vars
               PROVE  MutexesServeTheirMaker'
    OBVIOUS
  <2> USE DEF Goto, lock, node
  <2>1. TypeOK /\ OneMutexPerAccount
    BY DEF LockInv
  <2>2. ASSUME NEW t \in Task, Lookup(t) PROVE MutexesServeTheirMaker'
    BY <2>1, <2>2 DEF Lookup, TypeOK, MutexesServeTheirMaker
  <2>3. ASSUME NEW t \in Task, Enqueue(t) PROVE MutexesServeTheirMaker'
    <3>1. handle[t] \in Task /\ Mine(handle[t]) = Mine(t)
      BY <2>1, <2>3 DEF Enqueue, TypeOK, OneMutexPerAccount, MutexesServeTheirMaker
    <3>2. UNCHANGED <<call, locker, handle>>
      BY <2>3 DEF Enqueue
    <3>3. ASSUME NEW m \in Task, NEW k \in DOMAIN queue'[m]
          PROVE  Mine(queue'[m][k]) = Mine(m)
      <4> DEFINE s == queue[m]
      <4>1. s \in Seq(Task) /\ \A j \in DOMAIN s : Mine(s[j]) = Mine(m)
        BY <2>1 DEF TypeOK, MutexesServeTheirMaker
      <4>2. CASE m = handle[t]
        <5>1. queue'[m] = Append(s, t)
          BY <2>1, <2>3, <4>2 DEF Enqueue, TypeOK
        <5> HIDE DEF s
        <5>2. k \in 1 .. Len(s) + 1 /\ Len(s) \in Nat /\ DOMAIN s = 1 .. Len(s)
          BY <3>3, <4>1, <5>1
        <5>3. CASE k = Len(s) + 1
          BY <3>1, <4>1, <4>2, <5>1, <5>3
        <5>4. CASE k # Len(s) + 1
          BY <4>1, <5>1, <5>2, <5>4
        <5> QED BY <5>3, <5>4
      <4>3. CASE m # handle[t]
        BY <2>1, <2>3, <3>3, <4>1, <4>3 DEF Enqueue, TypeOK
      <4> QED BY <4>2, <4>3
    <3> QED BY <3>2, <3>3 DEF MutexesServeTheirMaker
  <2>4. ASSUME NEW t \in Task, Release(t) PROVE MutexesServeTheirMaker'
    BY <2>1, <2>4, ReleaseKeepsApart
  <2>5. ASSUME NEW t \in Task, Simulate(t) PROVE MutexesServeTheirMaker'
    <3>1. CASE call[t].kind = "estimate"
      BY <2>4, <2>5, <3>1 DEF Simulate
    <3>2. CASE call[t].kind # "estimate"
      BY <2>5, <3>2 DEF Simulate, MutexesServeTheirMaker
    <3> QED BY <3>1, <3>2
  <2>6. ASSUME NEW t \in Task, Refuse(t) \/ FailEarly(t) \/ Confirm(t) \/ GiveUp(t)
        PROVE  MutexesServeTheirMaker'
    BY <2>4, <2>6 DEF Refuse, FailEarly, Confirm, GiveUp
  <2>7. ASSUME UNCHANGED <<call, lock>> PROVE MutexesServeTheirMaker'
    BY <2>7 DEF MutexesServeTheirMaker
  <2>8. ASSUME NEW t \in Task, Granted(t) \/ Unguarded(t) \/ ReadNonce(t) \/ Send(t)
        PROVE  MutexesServeTheirMaker'
    BY <2>7, <2>8 DEF Granted, Unguarded, ReadNonce, Send
  <2>9. ASSUME NEW a \in Account, Block(a) PROVE MutexesServeTheirMaker'
    BY <2>7, <2>9 DEF Block
  <2>10. CASE Done \/ UNCHANGED vars
    BY <2>7, <2>10 DEF Done, vars
  <2> QED BY <2>2, <2>3, <2>5, <2>6, <2>8, <2>9, <2>10 DEF Next, Step
<1>3. MutexesServeTheirMaker => OnlySharersWait
  BY DEF MutexesServeTheirMaker, OnlySharersWait
<1> QED BY <1>1, <1>2, <1>3, LockInvInvariant, PTL DEF Spec
-----------------------------------------------------------------------------
(* The refinement.  What the locker's steps are, told as SerialAccounts     *)
(* tells them: being granted the mutex is entering, dropping the guard is   *)
(* leaving, and a block uses up no nonce.                                   *)
LEMMA NonceCount ==
    ASSUME TypeOK
    PROVE  [a \in Account |-> NextNonce(a)] \in [Account -> Nat]
BY DEF TypeOK, NextNonce

(* A task that lets go of the mutex, or of its place in the queue, leaves. *)
LEMMA ReleaseLeaves ==
    ASSUME TypeOK, NEW t \in Task, Release(t), UNCHANGED <<committed, pending>>
    PROVE  /\ UNCHANGED call
           /\ Holders' = Holders \ {t}
           /\ \A a \in Account : NextNonce(a)' = NextNonce(a)
BY DEF TypeOK, Release, Holders, Inside, NextNonce

(* A step of the locker is one of the promise, or none. *)
LEMMA StepKeepsPromise == LockInv /\ [Next]_vars => [Serial!Next]_Serial!vars
<1> USE BroadcastAssumption
<1> SUFFICES ASSUME LockInv, [Next]_vars PROVE [Serial!Next]_Serial!vars
  OBVIOUS
<1> USE DEF Goto, lock, node
<1>1. TypeOK /\ OneMutexPerAccount /\ OwnersAreFirst /\ \A t \in Task : Mine(t) \in Account
  BY DEF LockInv, TypeOK, Mine
<1>2. UNCHANGED call =>
        /\ [t \in Task |-> Mine(t)]' = [t \in Task |-> Mine(t)]
        /\ {t \in Task : call[t].kind = "raw"}' = {t \in Task : call[t].kind = "raw"}
  BY DEF Mine
<1>3. ASSUME UNCHANGED call, Holders' = Holders,
             \A a \in Account : NextNonce(a)' = NextNonce(a)
      PROVE  UNCHANGED Serial!vars
  BY <1>2, <1>3 DEF Serial!vars
<1>4. ASSUME NEW t \in Task, UNCHANGED call, Holders' = Holders \ {t},
             \A a \in Account : NextNonce(a)' = NextNonce(a)
      PROVE  Serial!Next
  <2>1. Serial!Leave(t)
    BY <1>4 DEF Serial!Leave
  <2> QED BY <1>2, <1>4, <2>1 DEF Serial!Next
<1>5. ASSUME NEW t \in Task, Release(t), UNCHANGED <<committed, pending>> PROVE Serial!Next
  BY <1>1, <1>4, <1>5, ReleaseLeaves
<1>6. ASSUME NEW t \in Task, Granted(t) PROVE Serial!Next
  <2>1. /\ pc[t] = "wait" /\ call[t].kind # "raw" /\ UNCHANGED <<call, lock, committed, pending>>
        /\ queue[handle[t]] # <<>> /\ Head(queue[handle[t]]) = t
        /\ pc' = [pc EXCEPT ![t] = Body[call[t].kind]]
    BY <1>1, <1>6 DEF Granted, TypeOK
  <2>2. Body[call[t].kind] \in {"simulate", "read"}
    <3>1. call[t].kind \in {"write", "priced", "estimate"}
      BY <1>1, <2>1 DEF TypeOK, Kinds
    <3> QED BY <3>1 DEF Body
  <2>3. Holders' = Holders \cup {t}
    BY <1>1, <2>1, <2>2 DEF TypeOK, Holders, Inside
  <2>4. ASSUME NEW u \in Holders PROVE Mine(u) # Mine(t)
    <3>1. handle[u] = locker[Mine(u)] /\ handle[t] = locker[Mine(t)] /\ u # t
      BY <1>1, <2>1 DEF OneMutexPerAccount, Holders, Inside
    <3>2. Head(queue[handle[u]]) = u
      BY <1>1 DEF OwnersAreFirst
    <3> QED BY <2>1, <3>1, <3>2
  <2>5. \A a \in Account : NextNonce(a)' = NextNonce(a)
    BY <2>1 DEF NextNonce
  <2>6. Serial!Enter(t)
    BY <2>1, <2>3, <2>4, <2>5 DEF Serial!Enter, Holders, Inside
  <2> QED BY <1>2, <2>1, <2>6 DEF Serial!Next
<1>7. ASSUME NEW t \in Task, Send(t) PROVE Serial!Next
  <2>1. /\ pc[t] = "send" /\ pc' = [pc EXCEPT ![t] = "confirm"]
        /\ UNCHANGED <<call, committed>>
        /\ pending' = [pending EXCEPT ![Mine(t)] = Append(pending[Mine(t)], t)]
    BY <1>7 DEF Send
  <2>2. Holders' = Holders
    BY <1>1, <2>1 DEF TypeOK, Holders, Inside
  <2>3. \A a \in Account : committed'[a] + Len(pending'[a])
                          = IF a = Mine(t) THEN NextNonce(a) + 1 ELSE NextNonce(a)
    <3> TAKE a \in Account
    <3>1. Len(Append(pending[a], t)) = Len(pending[a]) + 1
          /\ Len(pending[a]) \in Nat /\ committed[a] \in Nat
      BY <1>1 DEF TypeOK
    <3>2. /\ pending'[a] = IF a = Mine(t) THEN Append(pending[a], t) ELSE pending[a]
          /\ committed'[a] = committed[a]
      BY <1>1, <2>1 DEF TypeOK
    <3> QED BY <3>1, <3>2 DEF NextNonce
  <2>5. [a \in Account |-> NextNonce(a)]'
          = [[a \in Account |-> NextNonce(a)] EXCEPT ![Mine(t)] = NextNonce(Mine(t)) + 1]
    <3> DEFINE n == [a \in Account |-> NextNonce(a)]
    <3>1. n' = [a \in Account |-> committed'[a] + Len(pending'[a])]
      BY DEF NextNonce
    <3>2. n' = [a \in Account |-> IF a = Mine(t) THEN NextNonce(a) + 1 ELSE NextNonce(a)]
      BY <2>3, <3>1
    <3> QED BY <1>1, <3>2
  <2>6. Serial!Send(t)
    BY <1>1, <2>1, <2>2, <2>5 DEF Serial!Send, Holders, Inside
  <2> QED BY <1>2, <2>1, <2>6 DEF Serial!Next
<1>8. ASSUME NEW t \in Task, Simulate(t) PROVE [Serial!Next]_Serial!vars
  <2>1. CASE call[t].kind = "estimate"
    BY <1>5, <1>8, <2>1 DEF Simulate
  <2>2. CASE call[t].kind # "estimate"
    <3>1. Holders' = Holders
      BY <1>1, <1>8, <2>2 DEF Simulate, TypeOK, Holders, Inside
    <3> QED BY <1>3, <1>8, <2>2, <3>1 DEF Simulate, NextNonce
  <2> QED BY <2>1, <2>2
<1>9. ASSUME NEW t \in Task, Lookup(t) \/ Enqueue(t) \/ Unguarded(t) \/ ReadNonce(t)
      PROVE  UNCHANGED Serial!vars
  <2>1. UNCHANGED <<call, committed, pending>>
    BY <1>9 DEF Lookup, Enqueue, Unguarded, ReadNonce
  <2>2. Holders' = Holders
    BY <1>1, <1>9 DEF Lookup, Enqueue, Unguarded, ReadNonce, TypeOK, Holders, Inside
  <2> QED BY <1>3, <2>1, <2>2 DEF NextNonce
<1>10. ASSUME NEW t \in Task, Refuse(t) \/ FailEarly(t) \/ Confirm(t) \/ GiveUp(t)
       PROVE  Serial!Next
  BY <1>5, <1>10 DEF Refuse, FailEarly, Confirm, GiveUp
<1>11. ASSUME NEW a \in Account, Block(a) PROVE UNCHANGED Serial!vars
  <2>1. /\ pending[a] # <<>> /\ pending[a] \in Seq(Task) /\ committed[a] \in Nat
        /\ pending' = [pending EXCEPT ![a] = Tail(pending[a])]
        /\ committed' = [committed EXCEPT ![a] = committed[a] + 1]
        /\ UNCHANGED <<call, pc>>
    BY <1>1, <1>11 DEF Block, TypeOK
  <2>2. /\ Len(Tail(pending[a])) = Len(pending[a]) - 1
        /\ Len(pending[a]) \in Nat /\ committed[a] \in Nat
    BY <2>1
  <2>3. committed'[a] = committed[a] + 1 /\ pending'[a] = Tail(pending[a])
    BY <1>1, <2>1 DEF TypeOK
  <2>4. \A b \in Account \ {a} : committed'[b] = committed[b] /\ pending'[b] = pending[b]
    BY <1>1, <2>1 DEF TypeOK
  <2>5. \A b \in Account : NextNonce(b)' = NextNonce(b)
    <3>1. committed'[a] + Len(pending'[a]) = committed[a] + Len(pending[a])
      BY <2>2, <2>3
    <3> QED BY <2>4, <3>1 DEF NextNonce
  <2> QED BY <1>3, <2>1, <2>5 DEF Holders, Inside
<1>12. CASE Done \/ UNCHANGED vars
  BY <1>3, <1>12 DEF Done, vars, NextNonce, Holders, Inside
<1> QED BY <1>6, <1>7, <1>8, <1>9, <1>10, <1>11, <1>12 DEF Next, Step

(* The locker implements its promise: one call of an account at a time      *)
(* between acquiring and releasing, each send taking the next nonce.        *)
THEOREM Refinement == Spec => Implements
<1>1. Init /\ TypeOK => Serial!Init
  <2> SUFFICES ASSUME Init, TypeOK PROVE Serial!Init
    OBVIOUS
  <2>1. [t \in Task |-> Mine(t)] \in [Task -> Account]
    BY BroadcastAssumption DEF TypeOK, Mine
  <2>2. Holders = {}
    BY DEF Init, Holders, Inside
  <2> QED BY <2>1, <2>2, NonceCount DEF Serial!Init
<1> QED BY <1>1, StepKeepsPromise, TypeCorrect, LockInvInvariant, PTL
        DEF Spec, Implements, Serial!Spec
=============================================================================
