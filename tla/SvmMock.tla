------------------------------ MODULE SvmMock ------------------------------
(***************************************************************************)
(* One mock Solana chain: SvmMockProvider over a LiteSVM                   *)
(* (crates/solana/src/provider/mock.rs).                                   *)
(*                                                                         *)
(* LiteSVM is modelled from how the provider uses it: a transaction whose  *)
(* signature it has seen, or whose payer cannot pay the fee, is refused    *)
(* and leaves nothing; any other pays the fee and is recorded, also when   *)
(* its instructions fail and are rolled back.  A cap over the ceiling is   *)
(* signed as it is and clamped when it runs.  One program counts its calls *)
(* in one account it owns.  new_account and add_program draw a fresh key   *)
(* each time.                                                              *)
(***************************************************************************)
EXTENDS Integers, FiniteSets, BagsExt

CONSTANTS
    Wallet,         \* the signers
    Value,          \* what a transfer may carry
    Exact,          \* the budgets a caller may name
    UnitPercent,    \* gas_adjustment, in percent
    Fee,            \* lamports of a signature
    MaxTxs, MaxRecorded, MaxHeld    \* bounds: transactions that succeed, those
                    \* that fail at one blockhash, a balance

VARIABLES
    bal,            \* wallet -> lamports
    program,        \* "absent", "loaded", or "wiped" by set_balance
    data,           \* the calls counted in the account of the program
    recorded,       \* the history: the transactions of the latest blockhash, and
                    \* whether each ran; no older one can be sent again
    blockhash,      \* the latest
    minted,         \* the hashes reported, a bag
    last            \* the last operation: what was asked and what it reported

chain == <<bal, program, data, recorded, blockhash, minted>>

Quiet == [ask |-> [op |-> "none"], how |-> "none", ok |-> TRUE, gas |-> 0, again |-> FALSE]

SvmInit ==
    /\ bal = [w \in Wallet |-> Fee]
    /\ program = "absent" /\ data = 0
    /\ recorded = {} /\ blockhash = 0
    /\ minted = <<>>
    /\ last = Quiet

(* "runaway": a call that burns all there is; "capped": instructions that   *)
(* already set a compute unit limit.                                        *)
Calls == [op : {"bump", "runaway", "capped"}, from : Wallet]
Sends == [op : {"transfer"}, from : Wallet, to : Wallet, value : Value]

(* Compute units in thousands, with those of the cap itself; the first call *)
(* creates the account.                                                     *)
MaxUnits == 1400
Units(ask) ==
    CASE ask.op = "transfer" -> 1
      [] ask.op = "runaway"  -> 1450
      [] OTHER               -> IF data = 0 THEN 1200 ELSE 500

(* adjusted *)
Adjusted(units) ==
    LET scaled == (units * UnitPercent + 99) \div 100
    IN  IF scaled >= MaxUnits THEN MaxUnits ELSE scaled

Signed(ask, units) == [ask |-> ask, units |-> units, blockhash |-> blockhash]

Seen(tx) == \E r \in recorded : r.tx = tx

Included(tx) == ~Seen(tx) /\ bal[tx.ask.from] >= Fee

(* The cap a transaction runs under: the ceiling, where it named more. *)
Cap(tx) == IF tx.units <= MaxUnits THEN tx.units ELSE MaxUnits

Succeeds(tx) ==
    /\ Cap(tx) >= Units(tx.ask)
    /\ IF tx.ask.op = "transfer" THEN bal[tx.ask.from] >= Fee + tx.ask.value
       ELSE program = "loaded"

Simulated(ask) ==
    LET tx == Signed(ask, MaxUnits) IN ask.op # "capped" /\ Included(tx) /\ Succeeds(tx)

(* resolve: the cap a budget comes to, if it comes to one. *)
Resolve(ask, how) ==
    IF how = "estimated"
      THEN IF Simulated(ask) THEN {Adjusted(Units(ask))} ELSE {}
      ELSE Exact[how]

Budgets == {"estimated"} \cup DOMAIN Exact

Report(ask, how, ok, again) ==
    last' = [ask |-> ask, how |-> how, ok |-> ok, gas |-> IF ok THEN Units(ask) ELSE 0,
             again |-> again]

Expire == blockhash' = blockhash + 1 /\ recorded' = {}

(* A signature, or the digest add_program_at mints; told by the blockhash   *)
(* alone, which can only make hashes more alike.                            *)
Mint == minted' = BagAdd(minted, blockhash)

(* add_program_at: no transaction; the hash is minted from the blockhash it *)
(* then expires.                                                            *)
AddProgram ==
    /\ blockhash < MaxTxs
    /\ program' = "loaded"
    /\ Mint
    /\ Expire
    /\ last' = Quiet
    /\ UNCHANGED <<bal, data>>

Effects(ask) ==
    LET paid == [bal EXCEPT ![ask.from] = @ - Fee]
    IN  IF ask.op = "transfer"
          THEN /\ bal' = [[paid EXCEPT ![ask.from] = @ - ask.value] EXCEPT ![ask.to] = @ + ask.value]
               /\ UNCHANGED data
          ELSE bal' = paid /\ data' = data + 1

(* Seeded defect: the blockhash of a transaction that ran stays. *)
RanUnexpired(tx) ==
    /\ Effects(tx.ask)
    /\ recorded' = recorded \cup {[tx |-> tx, ok |-> TRUE]}
    /\ Mint
    /\ UNCHANGED <<program, blockhash>>

Ran(tx) ==
    /\ Effects(tx.ask)
    /\ Mint /\ Expire
    /\ UNCHANGED program

(* A transaction that fails has paid its fee, under a blockhash that stays. *)
Failed(tx) ==
    /\ bal' = [bal EXCEPT ![tx.ask.from] = @ - Fee]
    /\ recorded' = recorded \cup {[tx |-> tx, ok |-> FALSE]}
    /\ UNCHANGED <<program, data, blockhash, minted>>

(* send_transaction *)
Send(ask, how) ==
    \/ /\ ask.op = "capped" \/ Resolve(ask, how) = {}
       /\ Report(ask, how, FALSE, FALSE) /\ UNCHANGED chain
    \/ \E units \in Resolve(ask, how) :
         LET tx == Signed(ask, units)
         IN  /\ ask.op # "capped"
             /\ \/ ~Included(tx) /\ Report(ask, how, FALSE, Seen(tx)) /\ UNCHANGED chain
                \/ Included(tx) /\ Succeeds(tx) /\ Report(ask, how, TRUE, FALSE) /\ Ran(tx)
                \/ Included(tx) /\ ~Succeeds(tx) /\ Report(ask, how, FALSE, FALSE) /\ Failed(tx)

Room == blockhash < MaxTxs /\ Cardinality(recorded) < MaxRecorded

SendTransaction(ask, how) == Room /\ Send(ask, how)

(* transfer_funds, of the native token. *)
TransferFunds(ask, how) ==
    /\ Room /\ ask.from # ask.to
    /\ bal[ask.to] + ask.value <= MaxHeld
    /\ Send(ask, how)

(* estimate_transaction, which the history refuses as it refuses a sent one. *)
Estimate(ask) ==
    /\ Report(ask, "forecast", Simulated(ask), ask.op # "capped" /\ Seen(Signed(ask, MaxUnits)))
    /\ UNCHANGED chain

(* set_balance writes a bare account of the system program: lamports alone  *)
(* to a wallet, but it wipes the code of a program and the data it owns.    *)
SetBalance(w, n) ==
    /\ bal' = [bal EXCEPT ![w] = n] /\ last' = Quiet
    /\ UNCHANGED <<program, data, recorded, blockhash, minted>>

WipeProgram ==
    /\ program = "loaded" /\ program' = "wiped" /\ last' = Quiet
    /\ UNCHANGED <<bal, data, recorded, blockhash, minted>>

WipeData ==
    /\ data > 0 /\ data' = 0 /\ last' = Quiet
    /\ UNCHANGED <<bal, program, recorded, blockhash, minted>>

SvmNext ==
    \/ AddProgram \/ WipeProgram \/ WipeData
    \/ \E ask \in Calls, how \in Budgets : SendTransaction(ask, how)
    \/ \E ask \in Sends, how \in Budgets : TransferFunds(ask, how)
    \/ \E ask \in Calls \cup Sends : Estimate(ask)
    \/ \E w \in Wallet, n \in 0 .. MaxHeld : SetBalance(w, n)
=============================================================================
