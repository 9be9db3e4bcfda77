-------------------------------- MODULE Live --------------------------------
(***************************************************************************)
(* One operation of a live chain, from the call of its handle to its       *)
(* answer: the paths of the four RPC providers                             *)
(* (crates/{cosmwasm,solidity,tron,solana}/src/provider/rpc.rs) and what   *)
(* their errors become.  A mock answers at once.  Contract makes the calls *)
(* and judges the answers.                                                 *)
(*                                                                         *)
(* The node is modelled from how the providers use it: a request may fail, *)
(* with or without effect, and a transaction the node took may run at any  *)
(* later time, fail on chain, or be forgotten.  Messages encode and wallets *)
(* sign.  Two operations of one account are Broadcast's subject.           *)
(***************************************************************************)
EXTENDS Integers

CONSTANT Polls      \* TX_POLL_ATTEMPTS

ASSUME LiveAssumption == Polls \in Nat

(* What a handle can be asked: "raw" are the escape hatches that broadcast, *)
(* "read" the queries; "exact" includes operations that take no limit, and  *)
(* "foreign" is a limit in a unit the backend does not meter.               *)
CosmosWrites ==
    [vm : {"cosmos"}, op : {"deploy", "call", "transfer", "raw"}, limit : {"exact", "estimated"}]

CosmosQueries == [vm : {"cosmos"}, op : {"estimate", "read"}, limit : {"exact"}]

EvmAsk ==
    [vm : {"evm"}, op : {"deploy", "call", "transfer"}, limit : {"exact", "estimated"}]
      \cup [vm : {"evm"}, op : {"raw", "estimate", "read"}, limit : {"exact"}]

TronAsk ==
    [vm : {"tron"}, op : {"deploy", "call"}, limit : {"exact", "estimated", "foreign"}]
      \cup [vm : {"tron"}, op : {"transfer", "raw", "estimate", "read"}, limit : {"exact"}]

SvmAsk ==
    [vm : {"svm"}, op : {"deploy", "call", "transfer", "estimate", "raw", "read"}, limit : {"exact"}]

(* A mock has no wire to take bytes off. *)
MockAsk ==
    [vm : {"mock"}, op : {"deploy", "call", "transfer", "estimate", "read"}, limit : {"exact"}]

Ask == CosmosWrites \cup CosmosQueries \cup EvmAsk \cup TronAsk \cup SvmAsk \cup MockAsk

VARIABLES
    ask,            \* what is asked
    stage,          \* "acquire", "forecast", "build", "send", "wait", "read" or "done"
    polls,          \* the polls for a receipt that are left
    tx,             \* "none", "pool", "ok", "failed" or "gone"
    result          \* "Ok" or the variant of CrossVmError

answer == <<stage, polls, tx, result>>

At(vm, s) == ask.vm = vm /\ stage = s

Mined == tx \in {"ok", "failed"}

(* The error of the backend that names the operation. *)
Ran == IF ask.op = "deploy" THEN "Deploy" ELSE "Execute"

(* A provider's Rpc error is a Query of the framework. *)
Rpc == "Query"

Return(r) == stage' = "done" /\ result' = r

Goto(s) == stage' = s /\ UNCHANGED result

Unsent == UNCHANGED <<ask, polls, tx>>

(* The node takes the transaction; or, if the request fails, it may have.   *)
Taken == tx' = "pool" /\ UNCHANGED <<ask, polls>>

Lost == tx' \in {tx, "pool"} /\ UNCHANGED <<ask, polls>>
-----------------------------------------------------------------------------
(* The handle finds the wallet and the lock; the provider then resolves the *)
(* limit, which may take a forecast.  Raw bytes of the EVM, of Tron and of  *)
(* Solana are broadcast without a wallet, Solana loads a program without    *)
(* one, and reads need none.                                                *)
Writes == ask.op \notin {"estimate", "read"}

Walletless ==
    \/ ask.op = "read"
    \/ ask.op = "raw" /\ ask.vm # "cosmos"
    \/ ask.op = "deploy" /\ ask.vm = "svm"

(* The mock of Solana is one of the mocks. *)
MayLoad == ask.op = "deploy" /\ ask.vm = "mock"

Unsupported == ask.vm = "svm" /\ ask.op \notin {"raw", "read"}

Acquire(found) ==
    /\ stage = "acquire"
    /\ ask.vm # "mock"
    /\ IF ~found /\ ~Walletless THEN Return("Wallet")
       ELSE \/ Unsupported /\ Return("Unimplemented")
            \/ ask.limit = "foreign" /\ Return(Rpc)
            \/ ask.op = "read" /\ Goto("read")
            \/ ~Unsupported /\ (ask.op = "estimate" \/ ask.limit = "estimated") /\ Goto("forecast")
            \/ /\ ~Unsupported /\ ask.limit = "exact" /\ ask.op \notin {"read", "estimate"}
               /\ Goto(IF ask.vm = "tron" /\ ask.op # "raw" THEN "build" ELSE "send")
    /\ Unsent

(* A mock runs the transaction before it returns, or rejects it. *)
Mock(found) ==
    /\ At("mock", "acquire")
    /\ UNCHANGED <<ask, polls>>
    /\ \/ ~found /\ ~Walletless /\ Return("Wallet") /\ UNCHANGED tx
       \/ /\ found \/ Walletless \/ MayLoad
          /\ \/ Return("Ok") /\ tx' = IF Writes THEN "ok" ELSE tx
             \/ Return(IF ask.op = "read" THEN "Query" ELSE Ran) /\ UNCHANGED tx

(* After a forecast, an estimate is done and a write goes on. *)
Forecast(next) == IF ask.op = "estimate" THEN Return("Ok") ELSE Goto(next)
-----------------------------------------------------------------------------
(* CosmWasm. *)

(* simulate reads the account, whose absence is an Execute error, and asks  *)
(* the node, whose refusal, like any failed query, is a Query error.        *)
CosmosForecast ==
    /\ At("cosmos", "forecast")
    /\ Return("Query") \/ Return("Execute") \/ Forecast("send")
    /\ Unsent

(* Seeded defect: a failed commit request reads as a failed transaction. *)
CosmosSendLax ==
    /\ At("cosmos", "send")
    /\ \/ Return("Query") /\ Unsent
       \/ Return("Execute") /\ Unsent
       \/ Return("Execute") /\ Lost
       \/ Goto("wait") /\ Taken

(* sign_and_broadcast: the account query fails or finds no account; the     *)
(* commit request fails, is refused by check_tx, or is taken.               *)
CosmosSend ==
    /\ At("cosmos", "send")
    /\ \/ Return("Query") /\ Unsent
       \/ Return("Execute") /\ Unsent
       \/ Return(Rpc) /\ Lost
       \/ Goto("wait") /\ Taken

(* The same request's answer: tx_result, or the node's own timeout.  A node *)
(* that ran a transaction reports its events and a gas figure.              *)
CosmosCommit ==
    /\ At("cosmos", "wait")
    /\ \/ tx = "ok" /\ Return("Ok")
       \/ tx = "failed" /\ Return("Execute")
       \/ Return(Rpc)
    /\ Unsent

CosmosRead == At("cosmos", "read") /\ (Return("Ok") \/ Return("Query")) /\ Unsent
-----------------------------------------------------------------------------
(* EVM. *)

(* eth_estimateGas reverts or fails, which is one error; then the price.    *)
EvmForecast ==
    /\ At("evm", "forecast")
    /\ Return(Ran) \/ Return(Rpc) \/ Forecast("send")
    /\ Unsent

(* alloy fills, signs and sends.  A connection that cannot be made is Rpc.  *)
EvmSend ==
    /\ At("evm", "send")
    /\ \/ Return(Rpc) /\ Unsent
       \/ Return(Ran) /\ Lost
       \/ Goto("wait") /\ Taken

(* get_receipt waits as long as it takes; the status of the receipt is not  *)
(* read.                                                                    *)
EvmReceipt ==
    /\ At("evm", "wait")
    /\ \/ Mined /\ Return("Ok")
       \/ Return(Ran)
    /\ Unsent

EvmRead == At("evm", "read") /\ (Return("Ok") \/ Return("Query")) /\ Unsent
-----------------------------------------------------------------------------
(* Tron. *)

(* The request fails, the constant call reports a failure, or the price of  *)
(* energy cannot be read.                                                   *)
TronForecast ==
    /\ At("tron", "forecast")
    /\ Return(Rpc) \/ Return(Ran) \/ Forecast("build")
    /\ Unsent

(* deploycontract, triggersmartcontract or createtransaction: the node      *)
(* builds the transaction or refuses to.                                    *)
TronBuild ==
    /\ At("tron", "build")
    /\ \/ Return(Rpc)
       \/ ask.op = "deploy" /\ Return("Deploy")
       \/ Goto("send")
    /\ Unsent

(* A typed write renames whatever the broadcast fails with.                 *)
TronSend ==
    /\ At("tron", "send")
    /\ \/ Return(IF ask.op = "raw" THEN Rpc ELSE Ran) /\ Lost
       \/ Goto("wait") /\ Taken

(* Seeded defect: an empty answer is polled for again without being counted. *)
TronPollUncounted ==
    /\ At("tron", "wait")
    /\ \/ ~Mined /\ polls > 0 /\ tx = "pool" /\ polls' = polls - 1 /\ Goto("wait")
       \/ ~Mined /\ polls > 0 /\ tx # "pool" /\ UNCHANGED polls /\ Goto("wait")
       \/ polls = 0 /\ Return("Execute") /\ UNCHANGED polls
    /\ UNCHANGED <<ask, tx>>

(* await_tx_info: a poll finds nothing; after the last one the call errs,   *)
(* wherever the transaction is.                                             *)
TronPoll ==
    /\ At("tron", "wait")
    /\ \/ ~Mined /\ polls > 0 /\ polls' = polls - 1 /\ Goto("wait")
       \/ polls = 0 /\ Return("Execute") /\ UNCHANGED polls
    /\ UNCHANGED <<ask, tx>>

(* Seeded defect: the contract result of a receipt is not read. *)
TronReceiptUnread == At("tron", "wait") /\ polls > 0 /\ Mined /\ Return("Ok") /\ Unsent

(* tx_failure reads the receipt of a deploy and of a call; a transfer and a *)
(* raw broadcast return it unread.                                          *)
TronReceipt ==
    /\ At("tron", "wait") /\ polls > 0 /\ Mined
    /\ Return(IF tx = "failed" /\ ask.op \in {"deploy", "call"} THEN Ran ELSE "Ok")
    /\ Unsent

(* A constant call that reverts is an Execute error here.                   *)
TronRead ==
    /\ At("tron", "read")
    /\ Return("Ok") \/ Return("Execute") \/ Return("Query")
    /\ Unsent
-----------------------------------------------------------------------------
(* Solana. *)

SvmSend ==
    /\ At("svm", "send")
    /\ \/ Return(Rpc) /\ Lost
       \/ Goto("wait") /\ Taken

(* await_confirmation: a status below "confirmed" is no answer. *)
SvmPoll ==
    /\ At("svm", "wait")
    /\ \/ ~Mined /\ polls > 0 /\ polls' = polls - 1 /\ Goto("wait")
       \/ polls = 0 /\ Return("Execute") /\ UNCHANGED polls
    /\ UNCHANGED <<ask, tx>>

SvmConfirm ==
    /\ At("svm", "wait") /\ polls > 0 /\ Mined
    /\ Return(IF tx = "ok" THEN "Ok" ELSE "Execute")
    /\ Unsent

SvmRead == At("svm", "read") /\ (Return("Ok") \/ Return("Query")) /\ Unsent
-----------------------------------------------------------------------------
(* A poll's own request fails. *)
LosePoll == ask.vm \in {"tron", "svm"} /\ stage = "wait" /\ polls > 0 /\ Return(Rpc) /\ Unsent

(* The node runs the transaction, or forgets it. *)
Run ==
    /\ tx = "pool"
    /\ tx' \in {"ok", "failed", "gone"}
    /\ UNCHANGED <<ask, stage, polls, result>>

Client(found) ==
    \/ Acquire(found) \/ Mock(found)
    \/ CosmosForecast \/ CosmosSend \/ CosmosCommit \/ CosmosRead
    \/ EvmForecast \/ EvmSend \/ EvmRead
    \/ TronForecast \/ TronBuild \/ TronSend \/ TronPoll \/ TronReceipt \/ TronRead
    \/ SvmSend \/ SvmPoll \/ SvmConfirm \/ SvmRead

(* The paths that return a receipt unread. *)
Unread == ask.vm = "evm" \/ (ask.vm = "tron" /\ ask.op \in {"transfer", "raw"})
=============================================================================
