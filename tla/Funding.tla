------------------------------ MODULE Funding ------------------------------
(***************************************************************************)
(* MultiChainEnv from new() to start() and after it (crates/framework/src/ *)
(* env, fund, any_chain.rs), over the ledgers of the chains it holds       *)
(* (ensure_asset, set_balance, new_account, transfer_funds and call_value  *)
(* of the four chain crates, crates/revm-common).                          *)
(*                                                                         *)
(* A chain is the state behind its handles: clones share it (Rc), so two   *)
(* labels may name one chain, and a test may drive a chain through its own *)
(* handle.  It does not while it awaits start().  A live chain moves by    *)
(* itself.  An operation that fails and changes nothing has no step.       *)
(***************************************************************************)
EXTENDS Integers, Sequences, FiniteSetsExt

CONSTANTS
    Chain, Label, Who,
    Denom,          \* bank denoms; on the VMs with one coin, only its name
    Kind,           \* chain -> VM
    Live,           \* the chains behind an RPC endpoint
    Native,         \* chain -> its native denom
    Amount,         \* what a requirement, a transfer or a call may name
    Given,          \* DEFAULT_FUNDING of new_account
    Fee,            \* what a Solana transaction burns
    NoChain,
    MaxPending, MaxMoves, MaxHeld  \* bounds of the instance: requirements,
                    \* moves of the ledgers beside start(), a balance

VM == {"cw", "evm", "svm", "tron"}

ASSUME FundingAssumption ==
    /\ Kind \in [Chain -> VM] /\ Live \subseteq Chain
    /\ Native \in [Chain -> Denom]
    /\ Amount \subseteq Nat /\ {Given, Fee, MaxPending, MaxMoves, MaxHeld} \subseteq Nat
    /\ NoChain \notin Chain
    /\ IsFiniteSet(Who)

VARIABLES
    phase,          \* "setup", "starting", "running" or "failed"
    chains,         \* the environment's map; NoChain where it has no entry
    pending,        \* the declared requirements, in order
    applied,        \* how many of them start() has applied
    errors,         \* those whose application failed
    held,           \* chain -> (account, denom) -> balance
    moves           \* how often a ledger moved beside start()

vars == <<phase, chains, pending, applied, errors, held, moves>>
env == <<phase, chains, pending, applied, errors>>

(* One account name stands for its address on each VM. *)
Requirement == [label : Label, kind : VM, who : Who, denom : Denom, amount : Amount]

Mock == Chain \ Live

Init ==
    /\ phase = "setup"
    /\ chains = [l \in Label |-> NoChain]
    /\ pending = <<>> /\ applied = 0 /\ errors = {}
    /\ moves = 0
    /\ held = [c \in Chain |-> [a \in Who \X Denom |-> 0]]

(* Seeded defect: the bank module keeps only the denom it is given. *)
SetBalanceAlone(c, w, d, n) ==
    held' = [held EXCEPT ![c] = [a \in Who \X Denom |-> IF a = <<w, d>> THEN n
                                                      ELSE IF a[1] = w THEN 0 ELSE held[c][a]]]

(* set_balance of a mock: one denom of an account; the bank module of the   *)
(* CosmWasm mock is handed the account's other denoms again.                *)
SetBalance(c, w, d, n) == held' = [held EXCEPT ![c][<<w, d>>] = n]
-----------------------------------------------------------------------------
Inject(l, c) ==
    /\ phase = "setup"
    /\ chains' = [chains EXCEPT ![l] = c]
    /\ UNCHANGED <<phase, pending, applied, errors, held, moves>>

(* fund: the label and the VM of the address type are checked eagerly. *)
Fund(l, w, d, n) ==
    /\ phase = "setup" /\ Len(pending) < MaxPending
    /\ chains[l] # NoChain
    /\ pending' = Append(pending, [label |-> l, kind |-> Kind[chains[l]], who |-> w,
                                   denom |-> d, amount |-> n])
    /\ UNCHANGED <<phase, chains, applied, errors, held, moves>>

Start ==
    /\ phase = "setup" /\ phase' = "starting"
    /\ UNCHANGED <<chains, pending, applied, errors, held, moves>>

(* What a requirement asks for: the VMs with one coin ignore the denom. *)
Coin(c, d) == IF Kind[c] = "cw" THEN d ELSE Native[c]

Balance(c, r) == held[c][<<r.who, Coin(c, r.denom)>>]

(* A mock sets the balance that falls short. *)
Mint(c, r) ==
    IF Balance(c, r) < r.amount
      THEN SetBalance(c, r.who, Coin(c, r.denom), r.amount)
      ELSE UNCHANGED held

(* A live chain is only asked, about its native denom; the query may fail. *)
Ask(c, r, i) ==
    \/ Coin(c, r.denom) = Native[c] /\ Balance(c, r) >= r.amount /\ UNCHANGED errors
    \/ errors' = errors \cup {i}

EnsureAsset(c, r, i) ==
    \/ c \in Mock /\ Mint(c, r) /\ UNCHANGED errors
    \/ c \in Live /\ Ask(c, r, i) /\ UNCHANGED held

(* Pending::apply, of the requirement after those applied: the label is     *)
(* looked up again, and may by now name a chain of another VM.              *)
Apply ==
    /\ phase = "starting" /\ applied < Len(pending)
    /\ applied' = applied + 1
    /\ LET r == pending[applied + 1]
           c == chains[r.label]
       IN  IF c # NoChain /\ Kind[c] = r.kind
             THEN EnsureAsset(c, r, applied + 1)
             ELSE errors' = errors \cup {applied + 1} /\ UNCHANGED held
    /\ UNCHANGED <<phase, chains, pending, moves>>

(* Seeded defect: start returns at the first error. *)
FinishAtAnError ==
    /\ phase = "starting"
    /\ applied = Len(pending) \/ errors # {}
    /\ phase' = IF errors = {} THEN "running" ELSE "failed"
    /\ UNCHANGED <<chains, pending, applied, errors, held, moves>>

Finish ==
    /\ phase = "starting" /\ applied = Len(pending)
    /\ phase' = IF errors = {} THEN "running" ELSE "failed"
    /\ UNCHANGED <<chains, pending, applied, errors, held, moves>>
-----------------------------------------------------------------------------
(* new_account: its address follows from its label, so a second call gives  *)
(* the account its default funding again; Solana makes a new key each time, *)
(* and a live chain only names an address.                                  *)
NewAccount(c, w) ==
    /\ phase # "starting" /\ c \in Mock /\ Kind[c] # "svm"
    /\ SetBalance(c, w, Native[c], Given)

FeeOf(c) == IF Kind[c] = "svm" THEN Fee ELSE 0

(* Seeded defect: both balances are read first, also of one account. *)
MovedAtOnce(book, a, b, n) == [book EXCEPT ![a] = @ - n, ![b] = book[b] + n]

Moved(book, a, b, n) == [[book EXCEPT ![a] = @ - n] EXCEPT ![b] = @ + n]

(* transfer_funds on a mock: only what the sender holds, of the chain's own *)
(* coin or of any bank denom.  Only Solana charges a fee, for a transfer    *)
(* that fails too.                                                          *)
Transfer(c, w, v, d, n) ==
    /\ phase # "starting" /\ c \in Mock
    /\ Kind[c] = "cw" \/ d = Native[c]
    /\ held[c][<<w, d>>] >= FeeOf(c)
    /\ LET charged == [held[c] EXCEPT ![<<w, d>>] = @ - FeeOf(c)]
       IN  \/ Kind[c] = "svm" /\ held' = [held EXCEPT ![c] = charged]
           \/ /\ charged[<<w, d>>] >= n
              /\ w = v \/ charged[<<v, d>>] + n <= MaxHeld
              /\ held' = [held EXCEPT ![c] = Moved(charged, <<w, d>>, <<v, d>>, n)]

(* call_value on the two revm mocks: the caller is topped up to the value   *)
(* before the transaction, and stays so when the transaction fails.         *)
Call(c, w, v, n) ==
    /\ phase # "starting" /\ c \in Mock /\ Kind[c] \in {"evm", "tron"}
    /\ LET a == <<w, Native[c]>>
           b == <<v, Native[c]>>
           topped == IF held[c][a] < n THEN [held[c] EXCEPT ![a] = n] ELSE held[c]
       IN  \/ held' = [held EXCEPT ![c] = topped]
           \/ /\ w = v \/ held[c][b] + n <= MaxHeld
              /\ held' = [held EXCEPT ![c] = Moved(topped, a, b, n)]

(* Whoever else uses a live chain. *)
External(c, w, n) ==
    /\ c \in Live
    /\ held' = [held EXCEPT ![c][<<w, Native[c]>>] = n]

Move(c) ==
    /\ moves < MaxMoves /\ moves' = moves + 1
    /\ \E w, v \in Who :
         \/ NewAccount(c, w)
         \/ \E d \in Denom, n \in Amount : Transfer(c, w, v, d, n)
         \/ \E n \in Amount : Call(c, w, v, n) \/ External(c, w, n)
    /\ UNCHANGED env

Next ==
    \/ \E l \in Label, c \in Chain : Inject(l, c)
    \/ \E l \in Label, w \in Who, d \in Denom, n \in Amount : Fund(l, w, d, n)
    \/ Start \/ Apply \/ Finish
    \/ \E c \in Chain : Move(c)

Spec == Init /\ [][Next]_vars
-----------------------------------------------------------------------------
(* The types; that a balance is a natural number says that no transfer or   *)
(* call spends what its account does not hold, its fee included.            *)
TypeOK ==
    /\ phase \in {"setup", "starting", "running", "failed"}
    /\ chains \in [Label -> Chain \cup {NoChain}]
    /\ pending \in Seq(Requirement)
    /\ applied \in 0 .. Len(pending)
    /\ errors \subseteq 1 .. applied
    /\ held \in [Chain -> [Who \X Denom -> Nat]]
    /\ moves \in 0 .. MaxMoves

Target(i) == chains[pending[i].label]

(* What start owes requirement i on a mock: the balance, or the error that  *)
(* its label names a chain of another VM by now.                            *)
Answered(i) ==
    IF Kind[Target(i)] = pending[i].kind
      THEN i \notin errors /\ Balance(Target(i), pending[i]) >= pending[i].amount
      ELSE i \in errors

(* When start returns, all the requirements on mock chains hold together,   *)
(* whatever their order, also those of one account under two labels or two  *)
(* denoms, and also when it returns an error: every one is applied, and it  *)
(* is Ok only if none failed.                                               *)
PlanIsApplied ==
    [][phase = "starting" /\ phase' # "starting" =>
         /\ phase' = "running" <=> errors = {}
         /\ \A i \in DOMAIN pending : Target(i) \in Mock => Answered(i)]_vars

(* Applying a plan lowers no balance of a mock chain: no requirement undoes *)
(* an earlier one, or takes what the account held of another denom.         *)
FundingNeverTakes ==
    [][phase = "starting" =>
         \A c \in Mock : \A a \in Who \X Denom : held'[c][a] >= held[c][a]]_vars

Supply(book, d) == MapThenSumSet(LAMBDA w : book[<<w, d>>], Who)

(* On a mock no operation of a running test destroys funds, but for the fee *)
(* of Solana and for an account that is created again; and no transfer      *)
(* creates any: only the top-up of a call does.                             *)
SupplyIsKept ==
    [][\A c \in Mock, d \in Denom :
         \/ phase = "starting"
         \/ \E w \in Who : NewAccount(c, w)
         \/ LET gained == Supply(held'[c], d) - Supply(held[c], d)
            IN  \/ gained \in {0, -FeeOf(c)}
                \/ gained > 0 /\ \E w, v \in Who, n \in Amount : Call(c, w, v, n)]_vars
=============================================================================
