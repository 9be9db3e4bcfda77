------------------------------ MODULE Contract ------------------------------
(***************************************************************************)
(* A contract wrapper of a harness, call after call: the methods           *)
(* #[cross_vm_contract] generates (crates/macros/src/lib.rs) over          *)
(* ContractBase and its hooks (crates/framework/src/contract), the signers *)
(* a chain handle caches, the operation below (Live), and what classify    *)
(* (crates/framework/src/harness/classify.rs) makes of its answer: apply   *)
(* lets the model of the harness follow what was accepted.                 *)
(*                                                                         *)
(* The developer's per-VM hooks are modelled from the README's: setup      *)
(* deploys and binds the address, a call recovers the bound address of its *)
(* VM, and each makes one operation of the chain.  A failure for lack of   *)
(* infrastructure may be tolerated (Endurance), so that calls go on.       *)
(***************************************************************************)
EXTENDS Live, Wallets

CONSTANT MaxCalls   \* bound: the calls of a run

ASSUME ContractAssumption == MaxCalls \in Nat

VARIABLES
    phase,          \* "idle", "before", "native", "judge" or "halted"
    wallet,         \* the label the method at hand is given
    expected,       \* whether the model of the harness expects it to succeed
    address,        \* what the wrapper is bound to: "none", "here", or an
                    \* account "elsewhere", of another VM
    environ,        \* the process environment
    signers,        \* the cache of the chain's handles
    calls,
    model,          \* the calls the model has followed,
    seen,           \* those the after-hooks have all seen,
    ran,            \* and those that the chain ran
    stray,          \* the pending calls nobody waits for
    known,          \* history: the accounts each label has stood for
    excuses         \* history: "infra" and "hook" failures

wrapper == <<phase, wallet, expected, address, calls, model, seen, excuses>>
accounts == <<environ, signers, known>>
chain == <<ran, stray>>
vars == <<ask, answer, wrapper, accounts, chain>>

Init ==
    /\ ask \in Ask /\ ask.op = "read" /\ stage = "done" /\ polls = Polls /\ tx = "none" /\ result = "none"
    /\ phase = "idle" /\ wallet \in Wallet /\ expected = TRUE
    /\ address \in {"none", "here", "elsewhere"}
    /\ environ \in [Var -> Secret \cup {Blank}]
    /\ signers = [l \in Wallet |-> NoSigner]
    /\ calls = 0 /\ model = 0 /\ seen = 0 /\ ran = 0 /\ stray = 0
    /\ known = [l \in Wallet |-> {}]
    /\ excuses = {}
-----------------------------------------------------------------------------
(* Seeded defect: an address is derived anew each time. *)
SignerUncached(l) == Resolved(l, environ)

(* acquire and wallet_address: derived once for each label and chain. *)
Signer(l) == IF signers[l] # NoSigner THEN signers[l] ELSE Resolved(l, environ)

Obtain(l) ==
    /\ signers' = [signers EXCEPT ![l] = Signer(l)]
    /\ known' = [known EXCEPT ![l] = @ \cup ({Signer(l)} \ {NoSigner})]
    /\ UNCHANGED environ

(* The setup asks for a wallet's address, to fund it. *)
WalletAddress(l) ==
    /\ phase = "idle"
    /\ Obtain(l)
    /\ UNCHANGED <<ask, answer, wrapper, chain>>

(* A .env is loaded, or a test sets a variable. *)
SetVar(v, s) ==
    /\ phase = "idle"
    /\ environ' = [environ EXCEPT ![v] = s]
    /\ UNCHANGED <<ask, answer, wrapper, signers, known, chain>>
-----------------------------------------------------------------------------
(* A transaction that is still pending is left behind. *)
Counts == ask.op = "call"
Pending == Counts /\ tx = "pool"

(* A method that returns an AppResponse has hooks and is classified.  One   *)
(* that does not, like setup and the queries, has neither.                  *)
Hooked(a) == a.op \in {"call", "transfer", "raw"}

(* A method is called.  A test calls one without an AppResponse expecting   *)
(* that it succeeds.                                                        *)
Begin(a, l) ==
    /\ phase = "idle" /\ calls < MaxCalls
    /\ a.vm = ask.vm
    /\ ask' = a /\ wallet' = l
    /\ expected' \in IF Hooked(a) THEN BOOLEAN ELSE {TRUE}
    /\ stage' = "acquire" /\ polls' = Polls /\ tx' = "none" /\ result' = "none"
    /\ phase' = IF Hooked(a) THEN "before" ELSE "native"
    /\ calls' = calls + 1
    /\ stray' = IF Pending THEN stray + 1 ELSE stray
    /\ UNCHANGED <<address, model, seen, ran, accounts, excuses>>

(* A hook returns an error of the test's, of any variant. *)
HookErrors == {"Execute", "Other"}

(* fire_before: the first error is the method's, and nothing is sent. *)
Before ==
    /\ phase = "before"
    /\ \/ phase' = "native" /\ UNCHANGED <<stage, result>>
       \/ phase' = "judge" /\ stage' = "done" /\ result' \in HookErrors
    /\ UNCHANGED <<ask, polls, tx, wallet, expected, address, calls, model, seen, excuses>>
    /\ UNCHANGED <<accounts, chain>>

(* cw_addr and its like: the wrapper has no address, or one of another VM.  *)
Unbound == ask.op \in {"call", "estimate", "read"} /\ address # "here"

NoAddress ==
    /\ phase = "native" /\ stage = "acquire" /\ Unbound
    /\ Return(IF address = "none" THEN "Other" ELSE "WrongVm") /\ Unsent
    /\ UNCHANGED <<wrapper, accounts, chain>>

(* The operation begins with the wallet, if it needs one. *)
Acquiring ==
    /\ phase = "native" /\ stage = "acquire" /\ ~Unbound
    /\ Acquire(Signer(wallet) # NoSigner) \/ Mock(Signer(wallet) # NoSigner)
    /\ \/ ~Walletless /\ Obtain(wallet)
       \/ (Walletless \/ MayLoad) /\ UNCHANGED accounts
    /\ ran' = IF Counts /\ tx' = "ok" THEN ran + 1 ELSE ran
    /\ UNCHANGED <<wrapper, stray>>

Operating ==
    /\ phase = "native" /\ stage # "acquire"
    /\ Client(TRUE) \/ EvmReceipt \/ LosePoll
    /\ UNCHANGED <<wrapper, accounts, chain>>

(* The per-VM hook has returned: setup has bound the address.  fire_after   *)
(* then hands an Ok response to the hooks in turn; the first error is the   *)
(* method's, and the hooks after it see nothing.                            *)
After ==
    /\ phase = "native" /\ stage = "done"
    /\ phase' = "judge"
    /\ address' = IF result = "Ok" /\ ask.op = "deploy" THEN "here" ELSE address
    /\ \/ /\ seen' = IF result = "Ok" /\ Counts THEN seen + 1 ELSE seen
          /\ UNCHANGED <<answer, excuses>>
       \/ /\ result = "Ok" /\ Hooked(ask) /\ result' \in HookErrors
          /\ excuses' = excuses \cup {"hook"}
          /\ UNCHANGED <<stage, polls, tx, seen>>
    /\ UNCHANGED <<ask, wallet, expected, calls, model, accounts, chain>>

(* classify: only an Execute is a revert.  The error of a method without a  *)
(* response goes up with `?`.                                               *)
Verdict ==
    CASE result = "Ok" -> IF expected THEN "accepted" ELSE "bug"
      [] result = "Execute" /\ Hooked(ask) -> IF expected THEN "bug" ELSE "rejected"
      [] OTHER -> "infra"

(* A bug ends the run, and an infra failure may.  The model follows what    *)
(* was accepted (on_ok).                                                    *)
Judge ==
    /\ phase = "judge"
    /\ phase' \in CASE Verdict = "bug" -> {"halted"}
                    [] Verdict = "infra" -> {"halted", "idle"}
                    [] OTHER -> {"idle"}
    /\ model' = IF Counts /\ Verdict = "accepted" THEN model + 1 ELSE model
    /\ excuses' = IF Verdict = "infra" THEN excuses \cup {"infra"} ELSE excuses
    /\ UNCHANGED <<ask, answer, wallet, expected, address, calls, seen, accounts, chain>>
-----------------------------------------------------------------------------
(* The node runs the transaction at hand, or one left behind, or forgets it. *)
NodeRuns ==
    /\ Run
    /\ ran' = IF Counts /\ tx' = "ok" THEN ran + 1 ELSE ran
    /\ UNCHANGED <<stray, wrapper, accounts>>

StrayRuns ==
    /\ stray > 0 /\ stray' = stray - 1
    /\ ran' \in {ran, ran + 1}
    /\ UNCHANGED <<ask, answer, wrapper, accounts>>

Done ==
    /\ phase = "halted" \/ (phase = "idle" /\ calls = MaxCalls)
    /\ UNCHANGED vars

Step == Before \/ NoAddress \/ Acquiring \/ Operating \/ After \/ Judge

Next ==
    \/ Step
    \/ \E a \in Ask, l \in Wallet : Begin(a, l)
    \/ \E l \in Wallet : WalletAddress(l)
    \/ \E v \in Var, s \in Secret \cup {Blank} : SetVar(v, s)
    \/ NodeRuns \/ StrayRuns
    \/ Done

(* Every request is answered or fails, but for the EVM receipt, which a     *)
(* node without the transaction is asked for again and again.  That a poll  *)
(* fails is not to be counted on.                                           *)
Advances ==
    \/ Before \/ NoAddress \/ Acquiring \/ After \/ Judge
    \/ Operating /\ (stage = "wait" /\ ask.vm = "evm" => Mined)
                 /\ ~(ask.vm \in {"tron", "svm"} /\ stage = "wait" /\ polls > 0 /\ LosePoll)

Spec == Init /\ [][Next]_vars /\ WF_vars(Advances)
-----------------------------------------------------------------------------
(* A write that is answered Ok has its transaction in a block, and there it *)
(* succeeded, but for the paths that return a receipt unread.  So an    *)
(* address that setup binds has a contract behind it, and an after-hook     *)
(* only sees what ran.                                                      *)
AcceptedIsExecuted == result = "Ok" /\ Writes => Mined /\ (tx = "ok" \/ Unread)

(* Between the calls of a run, the model of the harness, the hooks of the   *)
(* wrapper and the chain agree on the calls that succeeded, on CosmWasm and *)
(* on a mock: whatever is called rejected has no effect, then or later, and *)
(* a refused method sends nothing.  Only an infra failure that was          *)
(* tolerated, or an after-hook that failed, can part them.                  *)
ModelFollowsTheChain ==
    (phase = "idle" /\ ask.vm \in {"cosmos", "mock"} /\ excuses = {}) =>
      model = ran /\ seen = ran /\ stray = 0 /\ ~Pending

(* On a chain a label stands for one account, for the address that is       *)
(* funded and for every later signature, whatever becomes of the            *)
(* environment.                                                             *)
OneAccountPerLabel ==
    \A l \in Wallet : \A a, b \in known[l] : a = b

(* A method returns, although its transaction may never run: the polls are  *)
(* counted and a commit request ends.  The EVM receipt is waited for as     *)
(* long as it takes.                                                        *)
Returns == phase \in {"before", "native"} ~> (phase \in {"idle", "halted"} \/ (ask.vm = "evm" /\ ~Mined))
=============================================================================
