------------------------------ MODULE RevmMock ------------------------------
(***************************************************************************)
(* One mock EVM or Tron chain: the providers of crates/solidity and        *)
(* crates/tron (src/provider/mock.rs) over the in-memory revm they share   *)
(* (RevmCore, crates/revm-common), with the bandwidth of Tron's resource   *)
(* tracker (crates/tron/src/tvm/resources.rs).                             *)
(*                                                                         *)
(* revm is modelled from how RevmCore uses it: a transaction runs if its   *)
(* code does not revert, the sender holds the value and the limit covers   *)
(* the gas it burns, which is more for the first write to a slot, and more *)
(* than it is billed when it clears one; a transaction that does not run   *)
(* changes nothing.  A contract counts its calls, until one clears the     *)
(* count; what it holds is not told apart, nor is one error of an          *)
(* operation from another.                                                 *)
(***************************************************************************)
EXTENDS Integers, Sequences, BagsExt

CONSTANTS
    Wallet,         \* the senders
    Value,          \* what a call or transfer may carry, and set_balance set
    Given,          \* DEFAULT_FUNDING of new_account
    Exact,          \* the limits a caller may name
    Allowance,      \* FREE_BANDWIDTH_PER_DAY
    MaxContracts, MaxTxs, MaxHeld   \* bounds: deployments, transactions, a balance

VARIABLES
    tron,           \* whether the chain is Tron; never changes
    percent,        \* its gas_adjustment, in percent; never changes
    bal,            \* wallet -> balance
    count,          \* the calls each deployed contract has counted
    spent,          \* wallet -> bandwidth consumed; never given back
    seq,            \* tx_seq
    minted,         \* the hashes reported, a bag
    last            \* the last operation: what was asked and what it reported

chain == <<tron, percent, bal, count, spent, seq, minted>>

Quiet == [ask |-> [op |-> "none"], how |-> "none", ok |-> TRUE, gas |-> 0, bytes |-> 0]

RevmInit ==
    /\ tron \in BOOLEAN /\ percent \in Nat
    /\ bal = [w \in Wallet |-> 0] /\ count = <<>>
    /\ spent = [w \in Wallet |-> 0]
    /\ seq = 0 /\ minted = <<>>
    /\ last = Quiet

Calls == [op : {"bump", "clear", "fail"}, from : Wallet, to : DOMAIN count, value : Value]
Creates == [op : {"create", "failing create"}, from : Wallet, to : {0}, value : {0}]
Sends == [op : {"transfer"}, from : Wallet, to : Wallet, value : Value]

(* The gas a transaction burns, in thousands. *)
Burned(ask) ==
    CASE ask.op = "transfer"                        -> 21
      [] ask.op \in {"create", "failing create"}    -> 60
      [] ask.op \in {"bump", "fail"}                -> IF count[ask.to] = 0 THEN 44 ELSE 27
      [] ask.op = "clear"                           -> IF count[ask.to] = 0 THEN 23 ELSE 26

(* The gas it is billed: less what EIP-3529 refunds for a slot it clears, a *)
(* fifth of the gas burned at most.                                         *)
Refund(ask) == IF ask.op = "clear" /\ count[ask.to] # 0 THEN 5 ELSE 0
Gas(ask) == Burned(ask) - Refund(ask)

(* The length of the initcode or the calldata, in units of the bound. *)
Bytes(ask) ==
    CASE ask.op = "transfer"                        -> 0
      [] ask.op \in {"create", "failing create"}    -> 2
      [] ask.op \in {"bump", "clear", "fail"}       -> 1

SimulationLimit == 1000

(* revm: transact, the state it hands back. *)
Transact(b, ask, limit) ==
    IF /\ ask.op \notin {"fail", "failing create"}
       /\ b[ask.from] >= ask.value
       /\ limit >= Burned(ask)
      THEN [ok |-> TRUE,
            bal |-> LET paid == [b EXCEPT ![ask.from] = @ - ask.value]
                    IN  IF ask.op = "transfer" THEN [paid EXCEPT ![ask.to] = @ + ask.value] ELSE paid,
            count |-> CASE ask.op = "create"   -> Append(count, 0)
                        [] ask.op = "bump"     -> [count EXCEPT ![ask.to] = @ + 1]
                        [] ask.op = "clear"    -> [count EXCEPT ![ask.to] = 0]
                        [] ask.op = "transfer" -> count]
      ELSE [ok |-> FALSE, bal |-> b, count |-> count]

(* A mock mints the sender the value it lacks. *)
ToppedUp(ask) == IF bal[ask.from] < ask.value THEN [bal EXCEPT ![ask.from] = ask.value] ELSE bal

(* Seeded defect: a forecast is committed. *)
SimulateCommits(ask) == Transact(ToppedUp(ask), ask, SimulationLimit)

(* simulate: what the transaction would do, of which nothing is kept. *)
Simulate(ask) == [Transact(ToppedUp(ask), ask, SimulationLimit) EXCEPT !.bal = bal, !.count = count]

(* with_headroom, adjusted_gas_limit *)
Headroom(gas) == (gas * percent + 99) \div 100

(* The limit a budget comes to, if it comes to one. *)
Resolve(ask, how) ==
    CASE how = "estimated" -> IF Simulate(ask).ok THEN {Headroom(Gas(ask))} ELSE {}
      [] how = "fee"       -> {}
      [] OTHER             -> Exact[how]

Budgets == {"estimated"} \cup DOMAIN Exact \cup (IF tron THEN {"fee"} ELSE {})

(* Free bandwidth left. *)
Bandwidth(w) == IF spent[w] < Allowance THEN Allowance - spent[w] ELSE 0

(* consume_bandwidth: over the allowance nothing is deducted. *)
Charged(ask) == IF ~tron \/ Bytes(ask) > Bandwidth(ask.from) THEN 0 ELSE Bytes(ask)

(* Seeded defect: a forecast takes the last point of the allowance for spent. *)
ForecastBandwidthStrictly(ask) ==
    IF tron /\ Bytes(ask) < Bandwidth(ask.from) THEN Bytes(ask) ELSE 0

ForecastBandwidth(ask) == IF tron /\ Bytes(ask) <= Bandwidth(ask.from) THEN Bytes(ask) ELSE 0

Report(ask, how, ok, bytes) ==
    last' = [ask |-> ask, how |-> how, ok |-> ok,
             gas |-> IF ok THEN Gas(ask) ELSE 0, bytes |-> IF ok THEN bytes ELSE 0]

(* next_tx_hash: a digest of the transaction and the sequence; told by the  *)
(* sequence alone, which can only make hashes more alike.                   *)
Mint ==
    /\ minted' = BagAdd(minted, seq)
    /\ seq' = seq + 1

Refuse(ask, how) == Report(ask, how, FALSE, 0) /\ UNCHANGED chain

(* RevmCore: call, deploy_create.  The top-up is written before the         *)
(* transaction runs, and stays when it fails.                               *)
Run(ask, limit) ==
    LET t == Transact(ToppedUp(ask), ask, limit)
    IN  /\ bal' = t.bal /\ count' = t.count
        /\ IF t.ok THEN Mint ELSE UNCHANGED <<seq, minted>>

(* deploy_create, call_value of a provider: the bandwidth is charged before *)
(* the transaction runs.                                                    *)
Submit(ask, how) ==
    /\ IF Resolve(ask, how) = {} THEN Refuse(ask, how)
       ELSE \E limit \in Resolve(ask, how) :
              /\ Run(ask, limit)
              /\ spent' = [spent EXCEPT ![ask.from] = @ + Charged(ask)]
              /\ Report(ask, how, Transact(ToppedUp(ask), ask, limit).ok, Charged(ask))
    /\ UNCHANGED <<tron, percent>>

CallValue(ask, how) == ask \in Calls /\ seq < MaxTxs /\ Submit(ask, how)

DeployCreate(ask, how) ==
    /\ Len(count) < MaxContracts /\ seq < MaxTxs
    /\ Submit(ask, how)

(* transfer_funds: a shortfall is an error, never a mint.  Tron's takes no  *)
(* limit, measures the one it needs, and is not charged bandwidth.          *)
TransferFunds(ask, how) ==
    /\ seq < MaxTxs /\ ask.from # ask.to /\ bal[ask.to] + ask.value <= MaxHeld
    /\ tron => how = "estimated"
    /\ IF bal[ask.from] < ask.value THEN Refuse(ask, how)
       ELSE IF tron
         THEN Run(ask, Gas(ask)) /\ Report(ask, how, TRUE, 0) /\ UNCHANGED <<tron, percent, spent>>
         ELSE Submit(ask, how)

(* estimate_deploy_create, estimate_call_value *)
Estimate(ask) ==
    LET s == Simulate(ask)
    IN  /\ bal' = s.bal /\ count' = s.count
        /\ Report(ask, "forecast", s.ok, ForecastBandwidth(ask))
        /\ UNCHANGED <<tron, percent, spent, seq, minted>>

(* set_balance, and new_account, which hands out the account of its label   *)
(* whether or not it was handed out before.                                 *)
SetBalance(w, n) ==
    /\ bal' = [bal EXCEPT ![w] = n]
    /\ last' = Quiet
    /\ UNCHANGED <<tron, percent, count, spent, seq, minted>>

RevmNext ==
    \/ \E ask \in Calls, how \in Budgets : CallValue(ask, how)
    \/ \E ask \in Creates, how \in Budgets : DeployCreate(ask, how)
    \/ \E ask \in Sends, how \in Budgets : TransferFunds(ask, how)
    \/ \E ask \in Calls \cup Creates : Estimate(ask)
    \/ \E w \in Wallet, n \in Value \cup {Given} : SetBalance(w, n)
=============================================================================
