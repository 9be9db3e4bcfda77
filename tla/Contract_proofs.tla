--------------------------- MODULE Contract_proofs ---------------------------
(***************************************************************************)
(* Contract, for every roster, environment, number of polls and of calls.  *)
(***************************************************************************)
EXTENDS Contract, TLAPS

Vms == {"cosmos", "evm", "tron", "svm", "mock"}

Ops == {"deploy", "call", "transfer", "raw", "estimate", "read"}

Results ==
    {"none", "Ok", "Wallet", "Unimplemented", "Query", "Execute", "Deploy", "Other", "WrongVm"}

AnswerOK ==
    /\ stage \in {"acquire", "forecast", "build", "send", "wait", "read", "done"}
    /\ polls \in 0 .. Polls
    /\ tx \in {"none", "pool", "ok", "failed", "gone"}
    /\ result \in Results

(* Every variable keeps its type. *)
TypeOK ==
    /\ ask \in Ask /\ AnswerOK
    /\ phase \in {"idle", "before", "native", "judge", "halted"}
    /\ wallet \in Wallet /\ expected \in BOOLEAN
    /\ address \in {"none", "here", "elsewhere"}
    /\ environ \in [Var -> Secret \cup {Blank}]
    /\ calls \in 0 .. MaxCalls
    /\ model \in Nat /\ seen \in Nat /\ ran \in Nat /\ stray \in Nat
    /\ excuses \subseteq {"infra", "hook"}

(* An operation has no result before its end, and a query reads. *)
StageInv ==
    /\ stage # "done" => result = "none"
    /\ stage = "read" => ~Writes

(* The cache of the chain's handles is all a label ever stood for. *)
SignerIsKnown ==
    /\ DOMAIN signers = Wallet /\ DOMAIN known = Wallet
    /\ \A l \in Wallet : known[l] = {signers[l]} \ {NoSigner}

(* 1 when the call at hand has run on the chain. *)
Effect == IF Counts /\ tx = "ok" THEN 1 ELSE 0

Settled == tx \notin {"pool", "ok"}

(* How far the hooks and the model have followed, phase by phase, on the    *)
(* two backends that answer with what the chain did.                        *)
Following ==
    ask.vm \in {"cosmos", "mock"} /\ excuses = {} =>
      /\ stray = 0
      /\ phase = "idle" => model = ran /\ seen = ran /\ ~Pending
      /\ phase = "before" => model = ran /\ seen = ran /\ tx = "none" /\ result = "none"
      /\ phase \in {"native", "before"} /\ stage \in {"acquire", "forecast", "build", "send"} =>
           tx = "none"
      /\ phase = "native" =>
           /\ seen = model /\ ran = model + Effect
           /\ result = "Execute" /\ Counts => Settled
      /\ phase = "judge" /\ result = "Ok" =>
           seen = ran /\ ran = model + (IF Counts THEN 1 ELSE 0)
      /\ phase = "judge" /\ result = "Execute" =>
           model = ran /\ seen = ran /\ (Counts => Settled)

AnswersInv == TypeOK /\ StageInv /\ AcceptedIsExecuted

ContractInv == AnswersInv /\ SignerIsKnown /\ Following
-----------------------------------------------------------------------------
(* What a handle can be asked, taken apart.                                 *)
LEMMA AskedFor == \A a \in Ask : a.vm \in Vms /\ a.op \in Ops
<1> SUFFICES ASSUME NEW a \in Ask PROVE a.vm \in Vms /\ a.op \in Ops
  OBVIOUS
<1>1. CASE a \in CosmosWrites
  BY <1>1 DEF CosmosWrites, Vms, Ops
<1>2. CASE a \in CosmosQueries
  BY <1>2 DEF CosmosQueries, Vms, Ops
<1>3. CASE a \in EvmAsk
  BY <1>3 DEF EvmAsk, Vms, Ops
<1>4. CASE a \in TronAsk
  BY <1>4 DEF TronAsk, Vms, Ops
<1>5. CASE a \in SvmAsk
  BY <1>5 DEF SvmAsk, Vms, Ops
<1>6. CASE a \in MockAsk
  BY <1>6 DEF MockAsk, Vms, Ops
<1> QED BY <1>1, <1>2, <1>3, <1>4, <1>5, <1>6 DEF Ask

(* A step of the provider, from one stage to the next, or to the answer.    *)
ProviderSteps == Client(TRUE) \/ EvmReceipt \/ LosePoll

(* A provider answers Ok to a write only when its transaction has run.      *)
LEMMA ProviderKeepsAnswers ==
    ASSUME ask \in Ask, AnswerOK, StageInv, AcceptedIsExecuted,
           stage # "acquire", ProviderSteps
    PROVE  ask' = ask /\ AnswerOK' /\ StageInv' /\ AcceptedIsExecuted'
<1>1. ask.vm \in Vms /\ ask.op \in Ops /\ Polls \in Nat /\ polls \in Nat
  BY AskedFor, LiveAssumption DEF AnswerOK
<1>2. CASE CosmosForecast \/ CosmosSend \/ CosmosCommit \/ CosmosRead
  BY <1>1, <1>2 DEF CosmosForecast, CosmosSend, CosmosCommit, CosmosRead, At, Return, Goto,
     Unsent, Taken, Lost, Forecast, Rpc, Ran, AnswerOK, StageInv, AcceptedIsExecuted, Writes,
     Mined, Unread, Results
<1>3. CASE EvmForecast \/ EvmSend \/ EvmRead \/ EvmReceipt
  BY <1>1, <1>3 DEF EvmForecast, EvmSend, EvmRead, EvmReceipt, At, Return, Goto,
     Unsent, Taken, Lost, Forecast, Rpc, Ran, AnswerOK, StageInv, AcceptedIsExecuted, Writes,
     Mined, Unread, Results
<1>4. CASE TronForecast \/ TronBuild \/ TronSend \/ TronRead
  BY <1>1, <1>4 DEF TronForecast, TronBuild, TronSend, TronRead, At, Return, Goto,
     Unsent, Taken, Lost, Forecast, Rpc, Ran, AnswerOK, StageInv, AcceptedIsExecuted, Writes,
     Mined, Unread, Results
<1>5. CASE TronPoll \/ SvmPoll
  <2>1. polls > 0 => polls - 1 \in 0 .. Polls
    BY <1>1 DEF AnswerOK
  <2> QED BY <1>5, <2>1 DEF TronPoll, SvmPoll, At, Return, Goto, AnswerOK, StageInv,
          AcceptedIsExecuted, Writes, Mined, Unread, Results
<1>6. CASE TronReceipt
  BY <1>1, <1>6 DEF TronReceipt, At, Return, Unsent, Ran, AnswerOK, StageInv,
     AcceptedIsExecuted, Writes, Mined, Unread, Results, Ops
<1>7. CASE SvmSend \/ SvmConfirm \/ SvmRead \/ LosePoll
  BY <1>1, <1>7 DEF SvmSend, SvmConfirm, SvmRead, LosePoll, At, Return, Goto,
     Unsent, Taken, Lost, Rpc, AnswerOK, StageInv, AcceptedIsExecuted, Writes,
     Mined, Unread, Results
<1>8. ~(Acquire(TRUE) \/ Mock(TRUE))
  BY DEF Acquire, Mock, At
<1> QED BY <1>2, <1>3, <1>4, <1>5, <1>6, <1>7, <1>8 DEF ProviderSteps, Client

(* The first step of an operation: the wallet is found or not; a mock runs  *)
(* the transaction at once.                                                 *)
LEMMA AcquiringKeepsAnswers ==
    ASSUME ask \in Ask, AnswerOK, StageInv, NEW found \in BOOLEAN,
           Acquire(found) \/ Mock(found)
    PROVE  ask' = ask /\ AnswerOK' /\ StageInv' /\ AcceptedIsExecuted'
<1>1. ask.vm \in Vms /\ ask.op \in Ops
  BY AskedFor
<1>2. CASE Acquire(found)
  BY <1>1, <1>2 DEF Acquire, Return, Goto, Unsent, Rpc, AnswerOK, StageInv,
     AcceptedIsExecuted, Writes, Results, Unsupported
<1>3. CASE Mock(found)
  BY <1>1, <1>3 DEF Mock, At, Return, Ran, AnswerOK, StageInv,
     AcceptedIsExecuted, Writes, Mined, Results
<1> QED BY <1>2, <1>3


(* The types, and what an answer says of its transaction, call after call.  *)
LEMMA AnswersInvariant == Spec => []AnswersInv
<1>1. Init => AnswersInv
  <2> SUFFICES ASSUME Init PROVE AnswersInv
    OBVIOUS
  <2>1. 0 \in 0 .. MaxCalls /\ Polls \in 0 .. Polls
    BY LiveAssumption, ContractAssumption
  <2> QED BY <2>1 DEF Init, AnswersInv, TypeOK, AnswerOK, Results, StageInv, AcceptedIsExecuted
<1>2. AnswersInv /\ [Next]_vars => AnswersInv'
  <2> SUFFICES ASSUME AnswersInv, [Next]_vars PROVE AnswersInv'
    OBVIOUS
  <2>1. TypeOK /\ AnswerOK /\ StageInv /\ AcceptedIsExecuted /\ ask \in Ask
    BY DEF AnswersInv, TypeOK
  <2>2. Polls \in 0 .. Polls
    BY LiveAssumption
  <2>3. ASSUME UNCHANGED <<ask, answer>>
        PROVE  AnswerOK' /\ StageInv' /\ AcceptedIsExecuted'
    BY <2>1, <2>3 DEF answer, AnswerOK, StageInv, AcceptedIsExecuted, Writes, Mined, Unread
  <2>4. CASE Before
    <3>1. AnswerOK' /\ StageInv' /\ AcceptedIsExecuted'
      BY <2>1, <2>4 DEF Before, HookErrors, AnswerOK, Results, StageInv, AcceptedIsExecuted,
         Writes, Mined, Unread
    <3> QED BY <2>1, <2>4, <3>1 DEF Before, AnswersInv, TypeOK, accounts, chain
  <2>5. CASE NoAddress
    <3>1. AnswerOK' /\ StageInv' /\ AcceptedIsExecuted'
      BY <2>1, <2>5 DEF NoAddress, Return, Unsent, AnswerOK, Results, StageInv, AcceptedIsExecuted,
         Writes, Mined, Unread
    <3> QED BY <2>1, <2>5, <3>1 DEF NoAddress, Unsent, AnswersInv, TypeOK, wrapper, accounts, chain
  <2>6. CASE Acquiring
    <3>1. PICK found \in BOOLEAN : Acquire(found) \/ Mock(found)
      BY <2>6 DEF Acquiring
    <3>2. ask' = ask /\ AnswerOK' /\ StageInv' /\ AcceptedIsExecuted'
      BY <2>1, <3>1, AcquiringKeepsAnswers
    <3>3. /\ UNCHANGED <<wrapper, stray, environ>>
          /\ ran' \in {ran, ran + 1}
      BY <2>6 DEF Acquiring, accounts, Obtain
    <3>4. ran' \in Nat
      BY <2>1, <3>3 DEF TypeOK
    <3> QED BY <2>1, <3>2, <3>3, <3>4 DEF AnswersInv, TypeOK, wrapper
  <2>7. CASE Operating
    <3>1. stage # "acquire" /\ ProviderSteps /\ UNCHANGED <<wrapper, accounts, chain>>
      BY <2>7 DEF Operating, ProviderSteps
    <3>2. ask' = ask /\ AnswerOK' /\ StageInv' /\ AcceptedIsExecuted'
      BY <2>1, <3>1, ProviderKeepsAnswers
    <3> QED BY <2>1, <3>1, <3>2 DEF AnswersInv, TypeOK, wrapper, accounts, chain
  <2>8. CASE After
    <3>1. AnswerOK' /\ StageInv' /\ AcceptedIsExecuted'
      BY <2>1, <2>8 DEF After, HookErrors, answer, AnswerOK, Results, StageInv, AcceptedIsExecuted,
         Writes, Mined, Unread
    <3>2. seen' \in Nat /\ excuses' \subseteq {"infra", "hook"} /\ address' \in {"none", "here", "elsewhere"}
      <4>1. /\ seen' \in {seen, seen + 1}
            /\ excuses' = excuses \/ excuses' = excuses \cup {"hook"}
            /\ address' \in {address, "here"}
        BY <2>8 DEF After
      <4>2. seen \in Nat /\ excuses \subseteq {"infra", "hook"}
            /\ address \in {"none", "here", "elsewhere"}
        BY <2>1 DEF TypeOK
      <4>3. seen' \in Nat
        BY <4>1, <4>2
      <4> QED BY <4>1, <4>2, <4>3
    <3> QED BY <2>1, <2>8, <3>1, <3>2 DEF After, AnswersInv, TypeOK, accounts, chain
  <2>9. CASE Judge
    <3>1. phase' \in {"idle", "halted"} /\ model' \in Nat /\ excuses' \subseteq {"infra", "hook"}
      BY <2>1, <2>9 DEF Judge, TypeOK
    <3>2. UNCHANGED <<ask, answer, wallet, expected, address, calls, seen, accounts, chain>>
      BY <2>9 DEF Judge
    <3> QED BY <2>1, <2>3, <3>1, <3>2 DEF AnswersInv, TypeOK, accounts, chain
  <2>10. ASSUME NEW a \in Ask, NEW l \in Wallet, Begin(a, l) PROVE AnswersInv'
    <3>1. AnswerOK' /\ StageInv' /\ AcceptedIsExecuted'
      BY <2>1, <2>2, <2>10 DEF Begin, AnswerOK, Results, StageInv, AcceptedIsExecuted
    <3>2. calls' \in 0 .. MaxCalls /\ stray' \in Nat
      BY <2>1, <2>10, ContractAssumption DEF Begin, TypeOK
    <3>3. ask' \in Ask /\ wallet' \in Wallet /\ expected' \in BOOLEAN /\ phase' \in {"before", "native"}
      BY <2>10 DEF Begin
    <3> QED BY <2>1, <2>10, <3>1, <3>2, <3>3 DEF Begin, AnswersInv, TypeOK, accounts
  <2>11. ASSUME NEW l \in Wallet, WalletAddress(l) PROVE AnswersInv'
    BY <2>1, <2>3, <2>11 DEF WalletAddress, Obtain, AnswersInv, TypeOK, wrapper, chain
  <2>12. ASSUME NEW v \in Var, NEW s \in Secret \cup {Blank}, SetVar(v, s) PROVE AnswersInv'
    <3>1. environ' \in [Var -> Secret \cup {Blank}]
      BY <2>1, <2>12 DEF SetVar, TypeOK
    <3> QED BY <2>1, <2>3, <2>12, <3>1 DEF SetVar, AnswersInv, TypeOK, wrapper, chain
  <2>13. CASE NodeRuns
    <3>1. AnswerOK' /\ StageInv' /\ AcceptedIsExecuted'
      BY <2>1, <2>13 DEF NodeRuns, Run, AnswerOK, StageInv, AcceptedIsExecuted,
         Writes, Mined, Unread
    <3>2. ran' \in Nat
      BY <2>1, <2>13 DEF NodeRuns, TypeOK
    <3> QED BY <2>1, <2>13, <3>1, <3>2 DEF NodeRuns, Run, AnswersInv, TypeOK, wrapper, accounts
  <2>14. CASE StrayRuns
    <3>1. ran' \in Nat /\ stray' \in Nat
      BY <2>1, <2>14 DEF StrayRuns, TypeOK
    <3> QED BY <2>1, <2>3, <2>14, <3>1 DEF StrayRuns, AnswersInv, TypeOK, wrapper, accounts
  <2>15. CASE UNCHANGED vars
    BY <2>1, <2>3, <2>15 DEF vars, AnswersInv, TypeOK, wrapper, accounts, chain
  <2> QED BY <2>4, <2>5, <2>6, <2>7, <2>8, <2>9, <2>10, <2>11, <2>12, <2>13, <2>14, <2>15
          DEF Next, Step, Done
<1> QED BY <1>1, <1>2, PTL DEF Spec

(* Type correctness: every variable keeps its type.                         *)
THEOREM TypeCorrect == Spec => []TypeOK
<1>1. AnswersInv => TypeOK
  BY DEF AnswersInv
<1> QED BY <1>1, AnswersInvariant, PTL

(* A write that is answered Ok has its transaction in a block, and there it *)
(* succeeded, but for the paths that return a receipt unread.               *)
THEOREM AcceptedHasRun == Spec => []AcceptedIsExecuted
<1>1. AnswersInv => AcceptedIsExecuted
  BY DEF AnswersInv
<1> QED BY <1>1, AnswersInvariant, PTL
-----------------------------------------------------------------------------
(* A label that is used is in the cache from then on, and the cache never   *)
(* changes its mind.                                                        *)
LEMMA ObtainKeepsSigners ==
    ASSUME SignerIsKnown, NEW l \in Wallet, Obtain(l)
    PROVE  SignerIsKnown'
<1>1. /\ signers' = [signers EXCEPT ![l] = Signer(l)]
      /\ known' = [known EXCEPT ![l] = known[l] \cup ({Signer(l)} \ {NoSigner})]
  BY DEF Obtain
<1>2. DOMAIN signers' = Wallet /\ DOMAIN known' = Wallet
  BY <1>1 DEF SignerIsKnown
<1>3. ASSUME NEW m \in Wallet, m # l
      PROVE  known'[m] = {signers'[m]} \ {NoSigner}
  BY <1>1, <1>3 DEF SignerIsKnown
<1>4. known'[l] = {signers'[l]} \ {NoSigner}
  <2>1. signers'[l] = Signer(l) /\ known'[l] = known[l] \cup ({Signer(l)} \ {NoSigner})
    BY <1>1 DEF SignerIsKnown
  <2>2. known[l] = {signers[l]} \ {NoSigner}
    BY DEF SignerIsKnown
  <2>3. CASE signers[l] # NoSigner
    BY <2>1, <2>2, <2>3 DEF Signer
  <2>4. CASE signers[l] = NoSigner
    BY <2>1, <2>2, <2>4
  <2> QED BY <2>3, <2>4
<1> QED BY <1>2, <1>3, <1>4 DEF SignerIsKnown

(* A chain handle remembers the one account it ever gave a label.           *)
LEMMA SignersInvariant == Spec => []SignerIsKnown
<1>1. Init => SignerIsKnown
  BY DEF Init, SignerIsKnown
<1>2. SignerIsKnown /\ AnswersInv /\ [Next]_vars => SignerIsKnown'
  <2> SUFFICES ASSUME SignerIsKnown, wallet \in Wallet, [Next]_vars PROVE SignerIsKnown'
    BY DEF AnswersInv, TypeOK
  <2>1. CASE UNCHANGED <<signers, known>>
    BY <2>1 DEF SignerIsKnown
  <2>2. CASE Acquiring
    <3>1. Obtain(wallet) \/ UNCHANGED accounts
      BY <2>2 DEF Acquiring
    <3> QED BY <2>1, <3>1, ObtainKeepsSigners DEF accounts
  <2>3. ASSUME NEW l \in Wallet, WalletAddress(l) PROVE SignerIsKnown'
    BY <2>3, ObtainKeepsSigners DEF WalletAddress
  <2> QED BY <2>1, <2>2, <2>3
          DEF Next, Step, Before, NoAddress, Operating, After, Judge, Begin, SetVar,
              NodeRuns, StrayRuns, Done, vars, accounts
<1> QED BY <1>1, <1>2, AnswersInvariant, PTL DEF Spec

(* On a chain a label stands for one account, for the address that is       *)
(* funded and for every later signature, whatever becomes of the            *)
(* environment.                                                             *)
THEOREM LabelsAreStable == Spec => []OneAccountPerLabel
<1>1. SignerIsKnown => OneAccountPerLabel
  BY DEF SignerIsKnown, OneAccountPerLabel
<1> QED BY <1>1, SignersInvariant, PTL
-----------------------------------------------------------------------------
(* Where Following is about: the backends that answer with what the chain   *)
(* did, before anything has parted the model from it.                       *)
LEMMA ProviderKeepsFollowing ==
    ASSUME AnswersInv, Following, phase = "native", stage # "acquire", ProviderSteps,
           ask.vm \in {"cosmos", "mock"}, excuses = {},
           ask' = ask, UNCHANGED <<wrapper, chain>>
    PROVE  Following'
<1>1. /\ AnswerOK /\ StageInv /\ ran = model + Effect /\ seen = model /\ stray = 0
      /\ stage \in {"acquire", "forecast", "build", "send"} => tx = "none"
      /\ result = "Execute" /\ Counts => Settled
  BY DEF AnswersInv, TypeOK, Following
<1>2. ProviderSteps => CosmosForecast \/ CosmosSend \/ CosmosCommit \/ CosmosRead
  BY DEF ProviderSteps, Client, Acquire, Mock, EvmForecast, EvmSend, EvmRead, EvmReceipt,
     TronForecast, TronBuild, TronSend, TronPoll, TronReceipt, TronRead,
     SvmSend, SvmPoll, SvmConfirm, SvmRead, LosePoll, At
<1>3. CASE CosmosForecast
  BY <1>1, <1>3 DEF CosmosForecast, At, Return, Goto, Unsent, Forecast, Following, Effect,
     Settled, Counts, wrapper, chain
<1>4. CASE CosmosSend
  <2>1. tx = "none" /\ result = "none"
    BY <1>1, <1>4 DEF CosmosSend, At, StageInv
  <2>2. /\ tx' \in {"none", "pool"}
        /\ stage' \in {"wait", "done"}
        /\ result' = "Execute" => tx' = "none"
    BY <1>4, <2>1 DEF CosmosSend, At, Return, Goto, Unsent, Taken, Lost, Rpc
  <2> QED BY <1>1, <2>1, <2>2 DEF Following, Effect, Settled, Counts, wrapper, chain
<1>5. CASE CosmosCommit
  BY <1>1, <1>5 DEF CosmosCommit, At, Return, Unsent, Rpc, Following, Effect,
     Settled, Counts, wrapper, chain
<1>6. CASE CosmosRead
  BY <1>1, <1>6 DEF CosmosRead, At, Return, Unsent, Following, Effect,
     Settled, Counts, wrapper, chain
<1> QED BY <1>2, <1>3, <1>4, <1>5, <1>6

(* A run stays on its backend, and what excused it is not forgotten.        *)
LEMMA BackendStays ==
    ASSUME AnswersInv, [Next]_vars
    PROVE  ask'.vm = ask.vm /\ excuses \subseteq excuses'
<1>1. ask \in Ask /\ AnswerOK /\ StageInv /\ AcceptedIsExecuted
  BY DEF AnswersInv, TypeOK
<1>2. CASE Acquiring
  <2>1. ask' = ask
    BY <1>1, <1>2, AcquiringKeepsAnswers DEF Acquiring
  <2> QED BY <1>2, <2>1 DEF Acquiring, wrapper
<1>3. CASE Operating
  <2>1. ask' = ask
    BY <1>1, <1>3, ProviderKeepsAnswers DEF Operating, ProviderSteps
  <2> QED BY <1>3, <2>1 DEF Operating, wrapper
<1>4. CASE Before \/ NoAddress \/ After \/ Judge
  BY <1>4 DEF Before, NoAddress, After, Judge, Unsent, wrapper
<1>5. ASSUME NEW a \in Ask, NEW l \in Wallet, Begin(a, l)
      PROVE  ask'.vm = ask.vm /\ excuses \subseteq excuses'
  BY <1>5 DEF Begin
<1>6. ASSUME NEW l \in Wallet, WalletAddress(l)
      PROVE  ask'.vm = ask.vm /\ excuses \subseteq excuses'
  BY <1>6 DEF WalletAddress, wrapper
<1>7. ASSUME NEW v \in Var, NEW s \in Secret \cup {Blank}, SetVar(v, s)
      PROVE  ask'.vm = ask.vm /\ excuses \subseteq excuses'
  BY <1>7 DEF SetVar, wrapper
<1>8. CASE NodeRuns \/ StrayRuns \/ UNCHANGED vars
  BY <1>8 DEF NodeRuns, StrayRuns, Run, vars, wrapper
<1> QED BY <1>2, <1>3, <1>4, <1>5, <1>6, <1>7, <1>8 DEF Next, Step, Done

(* The model, the hooks and the chain, call after call.                     *)
LEMMA FollowingInvariant == Spec => []Following
<1>1. Init => Following
  BY DEF Init, Following, Pending, Counts
<1>2. AnswersInv /\ AnswersInv' /\ Following /\ [Next]_vars => Following'
  <2> SUFFICES ASSUME AnswersInv, AnswersInv', Following, [Next]_vars,
                      ask'.vm \in {"cosmos", "mock"}, excuses' = {}
               PROVE  Following'
    BY DEF Following
  <2>1. /\ TypeOK /\ AnswerOK /\ StageInv /\ AcceptedIsExecuted
        /\ model \in Nat /\ seen \in Nat /\ ran \in Nat
    BY DEF AnswersInv, TypeOK
  <2>2. ask'.vm = ask.vm /\ excuses = {}
    BY BackendStays
  <2>4. /\ stray = 0
        /\ phase = "idle" => model = ran /\ seen = ran /\ ~Pending
        /\ phase = "before" => model = ran /\ seen = ran /\ tx = "none" /\ result = "none"
        /\ phase \in {"native", "before"} /\ stage \in {"acquire", "forecast", "build", "send"} =>
             tx = "none"
        /\ phase = "native" =>
             /\ seen = model /\ ran = model + Effect
             /\ result = "Execute" /\ Counts => Settled
        /\ phase = "judge" /\ result = "Ok" =>
             seen = ran /\ ran = model + (IF Counts THEN 1 ELSE 0)
        /\ phase = "judge" /\ result = "Execute" =>
             model = ran /\ seen = ran /\ (Counts => Settled)
    BY <2>2 DEF Following
  <2>5. result = "Ok" /\ Counts => tx = "ok"
    BY <2>1, <2>2 DEF AcceptedIsExecuted, Writes, Unread, Counts
  <2>6. CASE UNCHANGED <<ask, answer, phase, model, seen, ran, stray>>
    BY <2>4, <2>6 DEF answer, Following, Pending, Counts, Effect, Settled
  <2>7. CASE Before
    <3>1. /\ phase = "before" /\ tx = "none" /\ result = "none"
          /\ model = ran /\ seen = ran /\ stray = 0
          /\ UNCHANGED <<ask, tx, model, seen, ran, stray>>
          /\ \/ phase' = "native" /\ UNCHANGED <<stage, result>>
             \/ phase' = "judge" /\ result' # "Ok"
      BY <2>4, <2>7 DEF Before, chain, HookErrors
    <3> QED BY <2>1, <3>1 DEF Following, Effect, Settled, Counts
  <2>8. CASE NoAddress
    <3>1. /\ phase = "native" /\ stage = "acquire" /\ tx = "none"
          /\ result' \in {"Other", "WrongVm"} /\ stage' = "done"
          /\ UNCHANGED <<ask, tx, phase, model, seen, ran, stray>>
      BY <2>4, <2>8 DEF NoAddress, Return, Unsent, wrapper, chain
    <3> QED BY <2>4, <3>1 DEF Following, Effect, Settled, Counts
  <2>9. CASE Acquiring
    <3>1. /\ phase = "native" /\ stage = "acquire" /\ tx = "none"
          /\ UNCHANGED <<ask, phase, model, seen, stray>>
          /\ ran' = IF Counts /\ tx' = "ok" THEN ran + 1 ELSE ran
      BY <2>4, <2>9 DEF Acquiring, Acquire, Mock, Unsent, wrapper
    <3>2. /\ tx' \in {"none", "ok"}
          /\ tx' = "ok" => stage' = "done" /\ result' = "Ok"
      BY <2>9, <3>1 DEF Acquiring, Acquire, Mock, Return, Unsent
    <3>3. Effect = 0 /\ Effect' = IF Counts /\ tx' = "ok" THEN 1 ELSE 0
      BY <3>1 DEF Effect, Counts
    <3>4. seen = model /\ ran = model /\ stray = 0
      BY <2>1, <2>4, <3>1, <3>3
    <3> QED BY <2>1, <3>1, <3>2, <3>3, <3>4 DEF Following, Settled, Counts
  <2>10. CASE Operating
    <3>1. /\ phase = "native" /\ stage # "acquire" /\ ProviderSteps
          /\ UNCHANGED <<wrapper, accounts, chain>>
      BY <2>10 DEF Operating, ProviderSteps
    <3>2. ask' = ask
      BY <2>1, <3>1, ProviderKeepsAnswers DEF TypeOK
    <3> QED BY <2>2, <3>1, <3>2, ProviderKeepsFollowing
  <2>11. CASE After
    <3>1. /\ phase = "native" /\ stage = "done" /\ phase' = "judge"
          /\ UNCHANGED <<ask, answer, model, ran, stray>>
          /\ seen' = IF result = "Ok" /\ Counts THEN seen + 1 ELSE seen
      BY <2>11 DEF After, chain
    <3>2. result = "Ok" => Effect = IF Counts THEN 1 ELSE 0
      BY <2>5 DEF Effect
    <3>3. result = "Execute" => Effect = 0
      BY <2>4, <3>1 DEF Effect, Settled
    <3> QED BY <2>1, <2>4, <3>1, <3>2, <3>3 DEF Following, Settled, Counts, answer
  <2>12. CASE Judge
    <3>1. /\ phase = "judge" /\ phase' \in {"idle", "halted"}
          /\ UNCHANGED <<ask, answer, seen, ran, stray>>
          /\ model' = IF Counts /\ Verdict = "accepted" THEN model + 1 ELSE model
          /\ Verdict # "infra"
          /\ Verdict = "bug" => phase' = "halted"
      BY <2>12 DEF Judge, chain, Verdict
    <3>2. CASE Verdict = "accepted"
      <4>1. result = "Ok"
        BY <3>2 DEF Verdict
      <4>2. seen = ran /\ ran = model + (IF Counts THEN 1 ELSE 0) /\ ~Pending
        BY <2>4, <2>5, <3>1, <4>1 DEF Pending
      <4> QED BY <2>1, <2>4, <3>1, <3>2, <4>2 DEF Following, Pending, Counts, answer
    <3>3. CASE Verdict = "rejected"
      <4>1. result = "Execute"
        BY <3>3 DEF Verdict
      <4>2. seen = ran /\ ran = model /\ ~Pending
        BY <2>4, <3>1, <4>1 DEF Pending, Settled
      <4> QED BY <2>4, <3>1, <3>3, <4>2 DEF Following, Pending, Counts, answer
    <3>4. CASE Verdict = "bug"
      BY <2>4, <3>1, <3>4 DEF Following
    <3> QED BY <3>1, <3>2, <3>3, <3>4 DEF Verdict
  <2>13. ASSUME NEW a \in Ask, NEW l \in Wallet, Begin(a, l) PROVE Following'
    <3>1. /\ phase = "idle" /\ phase' \in {"before", "native"}
          /\ tx' = "none" /\ result' = "none" /\ stray' = 0
          /\ UNCHANGED <<model, seen, ran>>
      BY <2>4, <2>13 DEF Begin
    <3> QED BY <2>1, <2>4, <3>1 DEF Following, Effect, Settled
  <2>14. CASE NodeRuns
    <3>1. /\ tx = "pool" /\ tx' \in {"ok", "failed", "gone"}
          /\ UNCHANGED <<ask, stage, result, phase, model, seen, stray>>
          /\ ran' = IF Counts /\ tx' = "ok" THEN ran + 1 ELSE ran
      BY <2>14 DEF NodeRuns, Run, wrapper
    <3>2. Effect = 0 /\ Effect' = IF Counts /\ tx' = "ok" THEN 1 ELSE 0
      BY <3>1 DEF Effect, Counts
    <3>3. Counts => result \notin {"Ok", "Execute"} \/ phase \notin {"native", "judge"}
      BY <2>4, <2>5, <3>1 DEF Settled
    <3>4. phase = "idle" => ~Counts
      BY <2>4, <3>1 DEF Pending
    <3> QED BY <2>1, <2>4, <3>1, <3>2, <3>3, <3>4 DEF Following, Settled, Counts, Pending
  <2>15. CASE StrayRuns
    BY <2>4, <2>15 DEF StrayRuns
  <2>16. ASSUME NEW l \in Wallet, WalletAddress(l) PROVE Following'
    BY <2>6, <2>16 DEF WalletAddress, wrapper, chain
  <2>17. ASSUME NEW v \in Var, NEW s \in Secret \cup {Blank}, SetVar(v, s) PROVE Following'
    BY <2>6, <2>17 DEF SetVar, wrapper, chain
  <2>18. CASE UNCHANGED vars
    BY <2>6, <2>18 DEF vars, wrapper, chain
  <2> QED BY <2>7, <2>8, <2>9, <2>10, <2>11, <2>12, <2>13, <2>14, <2>15, <2>16, <2>17, <2>18
          DEF Next, Step, Done
<1> QED BY <1>1, <1>2, AnswersInvariant, PTL DEF Spec

(* Between the calls of a run, the model of the harness, the hooks of the   *)
(* wrapper and the chain agree on the calls that succeeded, on CosmWasm and *)
(* on a mock, unless an infra failure was tolerated or an after-hook        *)
(* failed.                                                                  *)
THEOREM ModelIsFaithful == Spec => []ModelFollowsTheChain
<1>1. Following => ModelFollowsTheChain
  BY DEF Following, ModelFollowsTheChain
<1> QED BY <1>1, FollowingInvariant, PTL
=============================================================================
