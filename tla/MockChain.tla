----------------------------- MODULE MockChain -----------------------------
(***************************************************************************)
(* A mock chain of any VM behind its labels in an environment: AnyChain    *)
(* (crates/framework/src/any_chain.rs), advance_all of MultiChainEnv       *)
(* (crates/framework/src/env/multi_chain_env.rs), and the clocks of the    *)
(* mocks (advance_blocks of each provider, BlockTime of                    *)
(* crates/core/src/time.rs).  The chain is one of RevmMock, SvmMock and    *)
(* CwMock; another chain of the environment is told by its clock alone.    *)
(***************************************************************************)
EXTENDS Integers, FiniteSetsExt, Bags

CONSTANTS
    Wallet, Value, Given, GasLimit, UnitLimit, Allowance, Fee,
    GasPercent,     \* the gas_adjustment of a chain of each VM, in percent
    Label,          \* the labels chains are injected under
    MaxCodes, MaxContracts, MaxTxs, MaxRecorded, MaxMembers, MaxHeld,
    MaxTime         \* bound: seconds the clocks may move

ASSUME MockAssumption ==
    /\ Value \subseteq Nat /\ \A how \in DOMAIN UnitLimit : UnitLimit[how] \subseteq Nat
    /\ \A v \in {"evm", "tron", "svm"} : GasPercent[v] \in Nat /\ GasPercent[v] >= 100
    /\ {Given, Allowance, Fee, MaxCodes, MaxContracts, MaxTxs, MaxRecorded, MaxMembers,
     MaxHeld, MaxTime}
         \subseteq Nat
    /\ {"forecast", "none"} \cap (DOMAIN GasLimit \cup DOMAIN UnitLimit) = {}

VARIABLES
    vm,             \* the VM of the chain; never changes
    bal, seq, minted, last,
    count, spent,                               \* of a RevmMock
    program, data, recorded,                    \* of an SvmMock
    codes, contracts, batch, deferred, asked,   \* of a CwMock
    behind,         \* label -> the chain injected under it; never changes
    time            \* chain -> the seconds its clock has moved

revmVars == <<count, spent>>
svmVars == <<program, data, recorded>>
cwVars == <<codes, contracts, batch, deferred, asked>>
chain == <<bal, seq, minted, revmVars, svmVars, codes, contracts>>
clock == <<behind, time>>
vars == <<vm, bal, seq, minted, last, revmVars, svmVars, cwVars, clock>>

VM == {"evm", "tron", "svm", "cw"}

Revm == INSTANCE RevmMock WITH
    tron <- (vm = "tron"), percent <- GasPercent[vm], Exact <- GasLimit
Svm == INSTANCE SvmMock WITH
    blockhash <- seq, Exact <- UnitLimit, UnitPercent <- GasPercent["svm"]
Cw == INSTANCE CwMock WITH Value <- Value \ {0}

IsRevm == vm \in {"evm", "tron"}

(* The chain, and another one of the environment. *)
Chain == {"here", "there"}

Init ==
    /\ vm \in VM
    /\ IF IsRevm THEN Revm!RevmInit ELSE count = <<>> /\ spent = [w \in Wallet |-> 0]
    /\ IF vm = "svm" THEN Svm!SvmInit ELSE program = "absent" /\ data = 0 /\ recorded = {}
    /\ IF vm = "cw" THEN Cw!CwInit
       ELSE codes = 0 /\ contracts = <<>> /\ batch = <<>> /\ deferred = FALSE /\ asked = <<>>
    /\ behind \in {b \in [Label -> Chain] : \A c \in Chain : \E l \in Label : b[l] = c}
    /\ time = [c \in Chain |-> 0]

(* BlockTime::apply; Custom and Now name a time, here the one given. *)
Apply(t, now) == IF t.how = "Increment" THEN now + t.secs ELSE t.secs

(* advance_blocks of the chain itself. *)
AdvanceBlocks(t) ==
    /\ Apply(t, time["here"]) <= MaxTime
    /\ time' = [time EXCEPT !["here"] = Apply(t, @)]
    /\ UNCHANGED <<vm, chain, last, batch, deferred, asked, behind>>

(* advance_all goes over the labels: a chain with two moves twice.  No      *)
(* advance_blocks of a mock awaits anything, so that nothing runs between.  *)
AdvanceAll(n) ==
    LET step == [how |-> "Increment", secs |-> n]
        advanced == FoldSet(LAMBDA l, t : [t EXCEPT ![behind[l]] = Apply(step, @)], time, Label)
    IN  /\ \A c \in Chain : advanced[c] <= MaxTime
        /\ time' = advanced
        /\ UNCHANGED <<vm, chain, last, batch, deferred, asked, behind>>

Next ==
    \/ IsRevm /\ UNCHANGED <<vm, svmVars, cwVars, clock>> /\ Revm!RevmNext
    \/ vm = "svm" /\ UNCHANGED <<vm, revmVars, cwVars, clock>> /\ Svm!SvmNext
    \/ vm = "cw" /\ UNCHANGED <<vm, revmVars, svmVars, clock>> /\ Cw!CwNext
    \/ \E how \in {"Increment", "Custom"}, n \in 1 .. MaxTime :
         AdvanceBlocks([how |-> how, secs |-> n])
    \/ \E n \in 1 .. MaxTime : AdvanceAll(n)

Spec == Init /\ [][Next]_vars
-----------------------------------------------------------------------------
(* A forecast tells what the same operation then does: what it bills, its   *)
(* bandwidth on Tron, and under an estimated budget whether it runs at all. *)
(* Two reasons may refuse it where the forecast is good: a call that clears *)
(* a slot burns more than it is billed, and the adjustment is under the     *)
(* quarter that covers any refund; and on Solana the very transaction       *)
(* failed at this blockhash.  What a forecast refuses may run only if that  *)
(* is why it did.                                                           *)
ForecastsForetell ==
    [][(/\ vm # "cw" /\ last.how = "forecast" /\ last' # last
        /\ last'.ask = last.ask /\ last'.how # "forecast") =>
         /\ last'.how = "estimated" =>
              \/ last'.ok = last.ok
              \/ IsRevm /\ GasPercent[vm] < 125 /\ Revm!Refund(last.ask) > 0
              \/ vm = "svm" /\ last'.again
         /\ last'.ok =>
              \/ /\ last.ok /\ last'.gas = last.gas
                 /\ IsRevm => last'.bytes = last.bytes
              \/ vm = "svm" /\ last.again]_vars

(* A forecast leaves the chain as it was: no balance, no storage, no        *)
(* bandwidth, no blockhash, and not the hash of the next transaction.       *)
ForecastsLeaveNoTrace ==
    [][(vm # "cw" /\ last' # last /\ last'.how = "forecast") => UNCHANGED chain]_vars

(* Transactions are told apart, however alike they are: no two that         *)
(* reported a hash reported the same one, and on Solana one that ran is     *)
(* never the reason to refuse a later one as already processed.             *)
RepeatsAreNew ==
    /\ \A h \in BagToSet(minted) : minted[h] = 1
    /\ (vm = "svm" /\ last.how # "none" /\ last.again) =>
         \E r \in recorded : r.tx.ask = last.ask /\ r.tx.blockhash = seq /\ ~r.ok

(* A batch that ran has run every member it was asked for, in their order;  *)
(* one that did not, none, one that could not be encoded included.          *)
BatchesAreWhole ==
    [][(vm = "cw" /\ last' # last /\ last'.ask.op = "batch") =>
         IF last'.ok
           THEN /\ \A i \in DOMAIN asked : asked[i] \in Cw!Messages
                /\ [bal |-> bal', contracts |-> contracts'] \in
                     Cw!AllApplied(asked, last'.ask.from)
           ELSE UNCHANGED chain]_vars
=============================================================================
