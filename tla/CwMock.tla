------------------------------- MODULE CwMock -------------------------------
(***************************************************************************)
(* One mock CosmWasm chain and one batch under construction: the provider  *)
(* of crates/cosmwasm/src/provider/mock.rs over cw-multi-test, execute_batch *)
(* of crates/cosmwasm/src/chain.rs and the builder of                      *)
(* crates/cosmwasm/src/batch.rs.                                           *)
(*                                                                         *)
(* cw-multi-test is modelled from how the provider uses it: a message runs *)
(* if the contract accepts it, the sender holds the funds and, to migrate, *)
(* is the admin; a list of messages runs whole or not at all.  A contract  *)
(* counts its calls; what it holds is not told apart.                      *)
(***************************************************************************)
EXTENDS Integers, Sequences, SequencesExt, BagsExt

CONSTANTS
    Wallet,         \* the senders
    Value,          \* funds a message may carry, and set_balance set
    Given,          \* DEFAULT_FUNDING of new_account
    MaxCodes, MaxContracts, MaxTxs, MaxMembers, MaxHeld  \* bounds: codes,
                    \* contracts, transactions, members of a batch, a balance

VARIABLES
    bal,            \* wallet -> balance
    codes,          \* the codes stored
    contracts,      \* the contracts, [code, admin, count], oldest first
    batch,          \* the members of the batch
    deferred,       \* whether a member could not be encoded
    asked,          \* the members the caller asked for
    seq,            \* tx_seq
    minted,         \* the hashes reported, a bag
    last            \* what the last operation reported, of a batch

chain == <<bal, codes, contracts, seq, minted>>
builder == <<batch, deferred, asked>>

Quiet == [ask |-> [op |-> "none"], ok |-> TRUE]

CwInit ==
    /\ bal = [w \in Wallet |-> 0]
    /\ codes = 0 /\ contracts = <<>>
    /\ batch = <<>> /\ deferred = FALSE /\ asked = <<>>
    /\ seq = 0 /\ minted = <<>>
    /\ last = Quiet

Executes == [op : {"bump", "fail"}, contract : DOMAIN contracts, funds : Value]
Sends == [op : {"send"}, to : Wallet, amount : Value]
Migrates == [op : {"migrate"}, contract : DOMAIN contracts, code : 1 .. codes]
Messages == Executes \cup Sends \cup Migrates

(* What one message leaves of a ledger and the contracts; nothing where it  *)
(* fails.                                                                   *)
Applied(m, sender, s) ==
    CASE m.op = "fail" -> {}
      [] m.op = "bump" ->
           IF s.bal[sender] < m.funds THEN {}
           ELSE {[s EXCEPT !.bal[sender] = @ - m.funds, !.contracts[m.contract].count = @ + 1]}
      [] m.op = "send" ->
           IF s.bal[sender] < m.amount THEN {}
           ELSE {[s EXCEPT !.bal = [[s.bal EXCEPT ![sender] = @ - m.amount]
                                       EXCEPT ![m.to] = @ + m.amount]]}
      [] m.op = "migrate" ->
           IF s.contracts[m.contract].admin # sender THEN {}
           ELSE {[s EXCEPT !.contracts[m.contract].code = m.code]}

State == [bal |-> bal, contracts |-> contracts]

(* execute_multi: every message in turn, on what the ones before it left. *)
AllApplied(ms, sender) ==
    FoldLeft(LAMBDA ss, m : UNION {Applied(m, sender, s) : s \in ss}, {State}, ms)

(* next_tx_hash: a digest of fields of the transaction and the sequence;    *)
(* told by the sequence alone, which can only make hashes more alike.       *)
Mint ==
    /\ minted' = BagAdd(minted, seq)
    /\ seq' = seq + 1

(* A transaction of these messages. *)
Transact(ms, sender) ==
    LET after == AllApplied(ms, sender)
    IN  IF after = {} THEN UNCHANGED chain
        ELSE \E s \in after : /\ bal' = s.bal /\ contracts' = s.contracts
                              /\ Mint /\ UNCHANGED codes

StoreCode ==
    /\ codes < MaxCodes /\ seq < MaxTxs
    /\ codes' = codes + 1
    /\ Mint
    /\ last' = Quiet
    /\ UNCHANGED <<bal, contracts, builder>>

(* instantiate: the sender becomes the admin. *)
Instantiate(code, sender, funds) ==
    /\ Len(contracts) < MaxContracts /\ seq < MaxTxs
    /\ last' = Quiet
    /\ IF bal[sender] < funds THEN UNCHANGED chain
       ELSE /\ bal' = [bal EXCEPT ![sender] = @ - funds]
            /\ contracts' = Append(contracts, [code |-> code, admin |-> sender, count |-> 0])
            /\ Mint
            /\ UNCHANGED codes
    /\ UNCHANGED builder

ExecuteContract(m, sender) ==
    /\ seq < MaxTxs /\ m \in Executes
    /\ Transact(<<m>>, sender) /\ last' = Quiet
    /\ UNCHANGED builder

MigrateContract(m, sender) ==
    /\ seq < MaxTxs /\ m \in Migrates
    /\ Transact(<<m>>, sender) /\ last' = Quiet
    /\ UNCHANGED builder

TransferFunds(m, sender) ==
    /\ seq < MaxTxs /\ m \in Sends /\ m.to # sender /\ bal[m.to] + m.amount <= MaxHeld
    /\ Transact(<<m>>, sender) /\ last' = Quiet
    /\ UNCHANGED builder

Joins(m) ==
    /\ Len(asked) < MaxMembers
    /\ asked' = Append(asked, m)
    /\ last' = Quiet
    /\ UNCHANGED chain

(* CwBatch: execute, send, migrate. *)
Push(m) == Joins(m) /\ batch' = Append(batch, m) /\ UNCHANGED deferred

(* raw, which cosmos_msgs cannot map to a message of the mock. *)
PushRaw ==
    LET m == [op |-> "raw"] IN Joins(m) /\ batch' = Append(batch, m) /\ UNCHANGED deferred

(* defer: a message that cannot be encoded is not a member. *)
Defer == Joins([op |-> "unencodable"]) /\ deferred' = TRUE /\ UNCHANGED batch

Report(sender, ok) == last' = [ask |-> [op |-> "batch", from |-> sender], ok |-> ok]

HasRaw == \E i \in DOMAIN batch : batch[i].op = "raw"

(* Seeded defect: the encoding error is never raised. *)
ExecuteBatchUndeferred(sender) ==
    /\ seq < MaxTxs
    /\ IF batch = <<>> \/ HasRaw
         THEN Report(sender, FALSE) /\ UNCHANGED chain
         ELSE Report(sender, AllApplied(batch, sender) # {}) /\ Transact(batch, sender)
    /\ UNCHANGED builder

(* execute_batch of a handle; the batch stays, and may be executed again. *)
ExecuteBatch(sender) ==
    /\ seq < MaxTxs
    /\ IF deferred \/ batch = <<>> \/ HasRaw
         THEN Report(sender, FALSE) /\ UNCHANGED chain
         ELSE Report(sender, AllApplied(batch, sender) # {}) /\ Transact(batch, sender)
    /\ UNCHANGED builder

NewBatch ==
    /\ batch' = <<>> /\ deferred' = FALSE /\ asked' = <<>>
    /\ last' = Quiet /\ UNCHANGED chain

SetBalance(w, n) ==
    /\ bal' = [bal EXCEPT ![w] = n] /\ last' = Quiet
    /\ UNCHANGED <<codes, contracts, seq, minted, builder>>

CwNext ==
    \/ StoreCode
    \/ \E w \in Wallet : ExecuteBatch(w)
    \/ \E w \in Wallet, c \in 1 .. codes, n \in Value : Instantiate(c, w, n)
    \/ \E w \in Wallet, m \in Messages :
         ExecuteContract(m, w) \/ MigrateContract(m, w) \/ TransferFunds(m, w)
    \/ \E m \in Messages : Push(m)
    \/ PushRaw \/ Defer \/ NewBatch
    \/ \E w \in Wallet, n \in Value \cup {Given} : SetBalance(w, n)
=============================================================================
