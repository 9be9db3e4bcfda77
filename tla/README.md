# A TLA+ model of cross-vm

cross-vm tests contracts on several virtual machines (CosmWasm, EVM, Solana,
Tron) from one Rust program: mock or live chains behind one interface, a
stateful fuzzing harness over them, and a command line that runs suites of
harness profiles from a config file.  This directory models the parts of it
whose mistakes a test would hardly reach, checks them with TLC, and proves the
central results with TLAPS.

Check a run with `tlc -config <file>.cfg <module>`, a proof module with
`tlapm <module>.tla`.  `PROJECT.json` lists the runs, the source lines each
definition stands for, the main hazards with the properties for each,
and for every property a seeded defect that it catches.  The `Seeded defect`
operators in the modules are those; nothing else uses them.

## Inventory

Paths are below `crates/`.

| part | source | state it keeps | operations | interacts with |
|---|---|---|---|---|
| Harness vocabulary | `harness/src/lib.rs`, `outcome.rs`, `rng.rs` | none | `apply`, `generate_op`, `weight`, `check`, `advance` of a user's harness | called by every driver |
| Sequence driver | `harness/src/runner.rs` | op source, history, coverage, step count | `run_with`, `run_fixed`, `replay` | harness |
| Endurance loop | `runner.rs` | the same, deadline, stop flag, infra streak | `run_with` | harness, ctrl-c |
| Scenario driver | `runner.rs` | script position, history, coverage | `run_steps` | harness |
| Shrinker | `runner.rs` | current sequence, window, replay budget | `shrink_with_limit`, `run_and_shrink_with` | sequence driver |
| Op sets | `harness/src/opset.rs` | registered kinds and codecs | `parse_kind`, `decode_op`, `encode_op` | registry |
| Run layer | `harness-cli/src/cli.rs`, `registry.rs`, `resolve.rs` | phase outcomes, exit code, one session slot per harness | `run`, `replay`, `validate`, `list`, `describe`, `run_profile`, `maybe_shrink` | drivers, config |
| Artifacts | `harness-cli/src/artifact.rs` | files | `write_replay_artifact` | run layer, loader |
| Test bridge | `harness-cli/src/test_bridge.rs` | none | `run_profile_for_test` | loader, registry |
| Run configuration | `harness-config/src` | none | parse, interpolate, merge, deserialize, validate | run layer |
| Chain configuration | `config/src`, `framework/src/config` | none | declarations, target precedence, `build_chain` | loader, chains |
| Test macros | `harness-macros/src/runner_macros.rs`, `macros/src/config_runner.rs` | none | expansion into tests | bridge, drivers |
| Broadcast locker | `core/src/wallet_lock.rs` | process-global map account -> mutex | `lock_broadcast` | every live chain |
| Wallets | `core/src/wallet.rs`, `macros/src/wallet_roster.rs` | rows; signer caches in the chains | `resolve` | chains, environment variables |
| CosmWasm transport | `cosmwasm/src/transport.rs` | queue of parked calls, leader flag | `call` | live CosmWasm chain, HTTP client |
| Live chains | `{cosmwasm,solidity,solana,tron}/src/chain.rs`, `provider/rpc.rs` | node state behind RPC | writes, estimates, raw transactions, reads | locker, wallets, node |
| Mock chains | `provider/mock.rs`, `revm-common`, `tron/src/tvm`, `cosmwasm/src/batch.rs` | ledger, block, blockhash, bandwidth, batch under construction | deploy, call, transfer, estimate, batch, advance | framework |
| Environment | `framework/src/env`, `fund`, `any_chain.rs` | chains by VM, queued funding | `new`, `inject`, `fund`, `start`, `advance_all` | chains |
| Contracts | `framework/src/contract`, `framework/src/harness/classify.rs`, `macros/src/lib.rs` | bound address, hooks | setup, typed calls, verdicts | chains, harness |

What is hard here, and what makes each part correct:

* **Broadcasts** are concurrent across threads and runtimes of one process, use
  a nonce read before several awaits, and can be dropped at any of them.  Right
  means: at most one guarded broadcast per account between read and receipt,
  no nonce used twice, nobody waits for another account, every call returns.
* **Batched transport** makes one caller drive the requests of all.  It may be
  dropped at any await.  Right means: one driver, nobody stranded while a driver
  can be had, every caller its own response, no envelope twice.
* **A contract call** goes through hooks, a cached signer, a provider with a
  dozen ways to fail and an error type with few variants; the harness's model
  follows what comes out.  Right means: what is called accepted ran, what is
  called rejected did not and will not, a label is one account.
* **The mocks** must behave like chains where the tests look: a repeat is a new
  transaction, a forecast foretells and leaves nothing, a batch is whole.
* **The drivers** must apply exactly what they record, sweep exactly when due,
  name the first fault, tally what they checked, and end.  Endurance adds two
  asynchronous endings and tolerated failures.
* **Shrinking, artifacts and replay** must keep failing the same way.
* **Suites** gate phases on others, hand live worlds over through a slot, and
  fold the outcome of everything into one exit code.
* **Configuration** folds a file, its defaults, flags and variables in four
  places and two crates, writes a file of its own for a replay, and is read
  again by a macro at another time.  Right means: all of them agree.
* **Funding** checks a requirement when it is declared and applies it later,
  against a chain that may be another by then and balances that other
  requirements, labels and denoms share.  Right means: all requirements hold
  together when `start` returns, or are reported; nothing is taken away for it.
  The **ledgers** must neither mint nor lose funds outside funding.

## Modules

    Harness --+-- FixedRun -+- Drive -+
              |             +- Shrink +
              +-- Endurance ----------+-- Runner --- Runner_proofs
              +-- Scenario -----------+
    Suites -- Handoff  <==  Pipeline ----- Pipeline_proofs
    SerialAccounts     <==  Broadcast ---- Broadcast_proofs
    CallPort           <==  Transport ---- Transport_proofs
    Live, Wallets  -------- Contract ----- Contract_proofs
    RevmMock, SvmMock, CwMock -- MockChain -- MockChain_proofs
    Funding --------------- Funding_proofs
    Document -- Loader -+- Chains --+
    OpSet ------------- Registry -- Profiles -- ConfigRun -- ConfigRun_proofs

`<==` is refinement, the rest EXTENDS or INSTANCE.  Each `MC*` module gives a
specification small constants.

**Harness** is a user's harness, with constant operators for `apply` (a set of
answers: accepted, rejected, infra, bug), `check`, `weight` and `generate_op`
over an abstract `World` that stands for the context and the world together;
kind mixes (`resolve_mix`, saturating weights); sweeps; coverage; the two exits
of the report builder.  `check` is a function of the world: the trait lets it
touch the context, and no harness of the repository does more than query it.
`rng` is the choice among the kinds of non-zero weight.

**Drive** is `drive()` behind fuzz, invariant and fixed runs, one action per
stage of the loop.  **Endurance** is the endurance loop with `Signal` and
`Expire` as steps of its environment at any point.  **Scenario** is `run_steps`.
**FixedRun** is a fixed run as a function of its arguments; `Drive` compares it
and `Runner::replay` to the driver, **Shrink** is `shrink_inner` one replay at a
time over it.  Each driver carries a history variable `log` that only properties
read.

**Runner** composes them over one runner's state: `run_profile` begins in one of
three modes; a failure is minimized (`Minimize`, `Shrink`), or a fixed list is
shrunk and driven again (`ShrinkFixed`, `Redrive`); the history or its minimum
becomes an artifact that is replayed as a scenario (`ReplayArtifact`).

**Handoff** says what a suite promises; **Suites** says which suites validate.
**Pipeline** is `run_selected` with `run_profile` inside: gating (`Skip`), usage
errors (`Refuse`), the start state (`ObtainFresh`, `ObtainInherited`,
`NoDonorWorld`, `SetupFails`), patches and decoding (`Spoil`), the cases of a
fuzz profile (`Drive`), `maybe_shrink`'s panic, the report and its errors, the
exit code, `stop_on_failure`, ctrl-c (`Interrupt`, and `Kill` for the second one)
and the JSON envelope.  A world is told by
the phases that drove it.  A failing artifact write is only logged and has no
step.

**SerialAccounts** is what the locker promises; **Broadcast** is the locker
(`Lookup`, `Enqueue`, `Granted`, `Release`) around the write paths of the live
chains.  An EVM estimate signs nothing and takes no lock, so only Cosmos calls
estimate.  The node is external: nonces, a mempool in nonce order, blocks.

**CallPort** is what `CosmosTransport::call` promises, which one POST per call
gives; **Transport** is the batching transport, a step being one poll of one
future: park, lead (`Tick`), post chunks, route answers, and the drop of a
waiting or a leading call.

**Live** is one operation of a live chain from handle to answer, for the four
providers: acquire, forecast, build, send, wait, read, with every request that
may fail, with or without effect, and the error each failure becomes.
**Wallets** is which account a label stands for under an environment.
**Contract** puts a wrapper's method around it (hooks, bound address, cached
signers) and the verdict of `classify` after it, call after call, with a node
that runs transactions late or never.

**RevmMock**, **SvmMock**, **CwMock** are the mocks: the two EVM-like chains
with gas limits, simulation, top-ups and hashes, and Tron's bandwidth; Solana's
programs, accounts, blockhash and compute units; CosmWasm's codes, contracts,
bank and batches.  The gas a transaction burns, which its limit must cover
(`Burned`), is told apart from what it is billed and a forecast reports (`Gas`,
net of a `Refund`); a Solana cap over the runtime's ceiling is clamped to it
(`Cap`).  **MockChain** is any of them in an environment: labels stand for that
chain or another (`behind`), and `AdvanceAll` goes over the labels.  **Funding** is `MultiChainEnv` from `new` to `start` and after, over
ledgers that two labels may share: `Inject` and `Fund` are the setup phase,
`Apply` is one `Pending::apply` with the `ensure_asset` of its VM inside,
`Finish` the result of `start`; `Move` is what a test does beside it.  A test
awaits `start`, so these wait too; a live chain moves at any time (`External`).

**Document** is a parsed config file with its texts and expressions, **Loader**
the merge, the wire structs and the validation, **Chains** the declarations,
target precedence, `build_chain` and the artifact's sections, **OpSet** and
**Registry** what a registered harness accepts, **Profiles** what a driver is
handed.  **ConfigRun** takes a file through all of it, one stage per action, for
each command, for the replay of an artifact, and for the tests that
`config_runner` and the mode attributes expand to.

## Runs

| run | what it asks | instance |
|---|---|---|
| `runner` | `SequenceReportsTrue`, `DrawsFollowTheWeights`, `EnduranceReportsTrue`, `StopIsGraceful`, `ScriptsAreHonoured`, `ShrinkingKeepsTheFailure`, `ReplayReproduces`, `ArtifactReplays`, `EveryRunEnds` | six mixes, cadences 0 to 3, op lists of up to 3, generated runs of up to 5, scripts of up to two steps after a lead, shrink limits 0, 1, 3, 20; a toy harness with every answer; u32::MAX scaled to 3; an endurance run without a budget stops after `StepBound` = 3 iterations |
| `pipeline` | `ExitIsTheWorst`, `SlotHandsOn`, `Terminates`; `Implements`: refinement of `Handoff` | every valid suite of up to three phases over three orders, some of four, over five profiles |
| `broadcast` | `SameAccountSerializes`, `NoNonceCollision`, `OnlySharersWait`, `EveryCallReturns`; `Implements`: refinement of `SerialAccounts` | three tasks, a Cosmos and an EVM account, every assignment of calls |
| `transport` | `OneDriver`, `Served`; `Implements`: refinement of `CallPort` | five calls, batches of two, two that may be dropped, one without an id |
| `contract` | `AcceptedIsExecuted`, `ModelFollowsTheChain`, `OneAccountPerLabel`, `Returns` | two calls of one wrapper on each live chain and a mock, one poll, a roster of three rows over two variables |
| `mock` | `RepeatsAreNew`, `ForecastsForetell`, `ForecastsLeaveNoTrace`, `BatchesAreWhole` | two wallets, four transactions, batches of two, limits too low, enough for a later write only, ample, and on Solana over the ceiling; adjustments of 125 % on the EVM (just what a refund asks for), 100 % on Tron (less than that) and 130 %; three labels over two chains, clocks of two seconds, of which no property speaks |
| `funding` | `PlanIsApplied`, `FundingNeverTakes`, `SupplyIsKept` | two labels over four chains (CosmWasm, EVM and Solana mocks, a live node), plans of up to two requirements, one move beside them |
| `config` | `DefaultsReachTheirModes`, `LoadedConfigsResolve`, `TargetsFollowThePrecedence`, `ArtifactsLoad`, `ReplayMeetsTheSameChains`, `ValidateForetellsRun`, `TestsRunCasesOfTheRun` | eight families of files, each varying one concern (`MCConfigRun`), with flags and variables |

The bounds are the smallest in which every branch of the code is taken: three
tasks give an owner, a waiter and one behind it; two accounts give independence;
five calls over batches of two give two chunks in flight, a leader dropped
between them and a later call that takes the queue over; two calls of a wrapper
give one that is left behind and one that meets it; four phases give two donors
with an heir each; five ops give the shrinker two window sizes and the single-op
pass; u32::MAX = 3 lets a product of small weights overflow; four transactions
give a repeat on either side of a change; two requirements share an account, a
chain under two labels, or neither, and one move before `start` gives them
something to take away.  Bandwidth of 3 is spent by a creation and a call to the
last point.

Two instances take apart what the code keeps apart (`Apart`): in `contract` the
environment varies only on the mock, where an operation is one step; in `mock`
the clocks move only while the chain does nothing, since no operation reads them.
Accounts and labels of `funding` and wallets of `mock`, which check only
invariants and action properties, are symmetric.  `funding` checks no deadlock,
because a test may end anywhere.

### Disagreements met

Four runs expect a violation; each one checks a sentence of the repository
against what the code does.  `PROJECT.json` quotes them under `findings`.

| run | what happens |
|---|---|
| `pipeline_interleaved` | with donors A, B and an heir of A, the heir gets B's world: one slot per harness |
| `pipeline_panic` | a failing setup during a shrink rebuild panics instead of exiting with a code |
| `artifact_env` | the artifact's `[env]` is the domain's: the `[env.params]` of the failing profile are lost to the replay's setup |
| `artifact_replay` | a replay expects every op to be accepted and stops, with a failure of its own, at one that was rejected |

The passing runs include these cases and say less of them.  Where another phase
is inherited from, or inherits, between a donor and its heir
(`Handoff!Contended`), `Handoff` promises the heir only some world left there.
`NoNonceCollision` speaks of the accounts all of whose calls take the guard and
overlook no pending transaction (`Covered`).  `ReplayReproduces` speaks of runs
that swept after each op, as `replay` does; `ArtifactReplays` of these too, and
excepts a replay that stops at a rejected op.  `ShrinkingKeepsTheFailure` speaks
of the failure the shrinker's own first replay shows.  `ForecastsForetell`
excepts a call that clears a slot where the adjustment is below a quarter, which
is what a refund of a fifth of the gas burned asks for (`execution.rs:36-41`),
and a Solana operation that its history refuses.  `ArtifactsLoad` excepts
an empty history and texts with `${`.  Left out is `--profile A --profile A`,
whose two outcomes share one key.

More sentences of the code that the models do not bear out, without a run of
their own:

*Drivers.*  An error of `advance` fails an endurance run whatever the streak
(`runner.rs:580`, against 87).  An endurance failure shrinks to the first
failure its replay shows, which may be an infra failure that the run had
tolerated (872, against 784).  With its budget exhausted, `run_and_shrink` can
return ops after the failing one that were never executed.

*Replay.*  An artifact without steps (`kinds = []`, zero weights, a stopped run,
`--ops 0`) is refused by the loader, though `README.md:368` calls it a valid
config.  Its texts are interpolated again.  It carries neither `check_every` nor
transport knobs, and nothing of a phase's params or inherited world; the seed
variable overrides its seed.

*Configuration.*  `kinds = []` validates and then fails as `Infra("mix")`.
`[defaults].kinds` conflicts with a profile's weights.  `[defaults].env` is
ignored for a profile with an env of its own and beats the top-level one
otherwise.  A mistyped default is stripped with a warning.  A prefixed case
variable that does not parse hides the general one.  An unknown chain kind
passes validation, and an unknown spec id or commitment fails only when the
chain is built, with exit code 2.  `validate` looks neither at a phase's params,
which a harness without a patch fn refuses after the setup, nor at the chains.
`--cases` can break a handoff that validated.  A scenario's ops decode only
after the setup has touched a chain.

*Tests.*  Under `seed = -1` each case of a `config_runner` test draws a base of
its own, where the CLI and `fuzz_runner` share one.  Its tests take no flags or
variables.  An interpolated `mode` makes the macro emit one test of the whole
profile.  An edit other than of the case count goes unnoticed.

*Chains.*  A Cosmos commit that times out drops the guard with its transaction
pending (`rpc.rs:248`, against `wallet_lock.rs:11`).  An EVM send that fails
after the node took the transaction, and a Tron or Solana confirmation that
times out, come back as `Execute`, which `classify` takes for a revert: so
`ModelFollowsTheChain` speaks of CosmWasm and the mocks only.  An EVM deploy or
call is Ok with a reverted receipt, and Tron's transfers and raw transactions
are not read back: `Unread` names these paths.  A revert found by an estimate is
`Query` on Cosmos and on Solana's preflight; a reverting static call is
`Execute` on Tron and `Query` on the EVM.  A leader that is dropped strands the
calls that are parked until another comes, and a dropped follower's envelope is
still posted.

*Mocks.*  `RevmCore::call` says that a call its limit fails "commits nothing",
and the caller's top-up stays; Tron's bandwidth is charged before an execution
that fails and never returned.  A failed Solana transaction keeps its blockhash,
so that an identical retry is refused as already processed where a forecast is
good.  Solana's `set_balance` replaces the account, data and owner included,
though the trait says it overwrites the balance.  `new_account` of a label in
use answers the same account with its balance reset, on the other three.
`advance_all` goes over labels and moves a chain under two of them twice, though
it says that all chains stay on the same clock (`multi_chain_env.rs:71`): the
clocks of `MockChain` part in its first step.

## Fairness

A driver, the shrinker and a suite are sequential programs: weak fairness of
their own next step says that an awaited call returns.  For an endurance run it
is fairness of the loop alone; the signal and the deadline are never owed.  In
`Broadcast` each task's own steps and each account's blocks are weakly fair;
failing early and giving up are not: tokio's mutex serves its waiters in order,
so a waiter at the front stays there until it runs.  In `Transport` each call
that is polled makes progress, a node answers or a POST fails, and ticks come;
drops are not owed.  In `Contract` a request is answered or fails, and polls are
counted; that the node ever runs a transaction is not assumed, so `Returns`
leaves out the EVM receipt, which is waited for as long as it takes.

## Proofs

Each component has its theorems in a module of its own, `<component>_proofs`,
for every value of the constants that meets the component's assumption (the
constants have their types, and the names that mean something else are not
among them).  Every inductive invariant is a conjunction of named parts, each
kept by a lemma of its own.

`Broadcast_proofs`, for any number of tasks and accounts:

* `TypeCorrect`: the type invariant, with the fact it needs beside the types:
  only a guarded call is ever found past `lock`.
* `Exclusion`: `SameAccountSerializes`.  It is not inductive: a task's place
  depends on the queue of a mutex, and two mutexes of one account would break
  it.  `LockInv` adds that an account's tasks all hold the mutex the locker
  names (`OneMutexPerAccount`) and that whoever is inside is first in its
  queue (`OwnersAreFirst`).
* `NoncesNeverCollide`: `NoNonceCollision`.  `NonceInv` adds, of the covered
  accounts, that a nonce read inside the lock is still the account's next
  (`ReadsAreCurrent`), and that where nobody gives up (`Patient`) the one
  pending transaction belongs to the task inside (`PendingIsInside`).
* `OthersNeverWait`: `OnlySharersWait`.  A mutex must only ever queue tasks of
  the account it was made for (`MutexesServeTheirMaker`).
* `Refinement`: `Implements`, the refinement of `SerialAccounts`.

`Transport_proofs`, for any calls and batch size:

* `DriverIsUnique`: `OneDriver`.  A call leads only between taking the flag and
  giving it back, in its drop too (`FlagIsTheDriver`), and an envelope is in
  one place, the queue or one chunk (`OnePlaceEach`).
* `Refinement`: `Implements`, the refinement of `CallPort`: a POST executes an
  envelope once and a call is answered once, with its own response.  The
  assumption says that the three ways to end without an answer differ.

`Pipeline_proofs`, for any profiles and any suite that validates:

* `TypeCorrect`.
* `WorstCodeWins`: `ExitIsTheWorst`.  The code folds what was found, in any
  order (`CodeIsTheWorst`), and while it is 0 every phase behind has passed and
  none ahead has an outcome yet (`OutcomesFollow`).
* `SlotIsKept`: `SlotHandsOn`.  A donor's world is in the slot from its last case
  to its heir's start, if nothing else of that harness comes between
  (`SlotHolds`, over `WorldsAtHand` and `WorldsWereLeft`).
* `Refinement`: `Spec /\ Distinct => Implements`, the refinement of `Handoff`.
  `Distinct` says that the run names no profile twice, which is so of every
  suite; of `--profile A --profile A` the abstract specification says nothing,
  since both outcomes share a key.

`Contract_proofs`, for any roster, environment, number of polls and of calls:

* `TypeCorrect`.
* `AcceptedHasRun`: `AcceptedIsExecuted`.  An answer keeps with the transaction
  it is about from stage to stage (`AnswersInv`, `StageInv`).
* `LabelsAreStable`: `OneAccountPerLabel`.  The accounts a label has stood for
  are those the chain's handle cached (`SignerIsKnown`).
* `ModelIsFaithful`: `ModelFollowsTheChain`.  `Following` says phase by phase
  how far the model, the hooks and the chain are from each other on the backends
  that report what the chain did.

`MockChain_proofs`, for any wallets, values, budgets, labels and gas adjustments of
at least 100 %:

* `HashesStayNew`: `RepeatsAreNew`.  No hash was reported that the sequence can
  still come to (`HashesAreSpent`); on Solana all that is recorded under the
  latest blockhash has failed there (`RecordedHaveFailed`) and what is refused as
  already processed is recorded (`AgainIsRecorded`).
* `ForecastsAreDropped`: `ForecastsLeaveNoTrace`.
* `ForecastsComeTrue`: `ForecastsForetell`.  The last forecast is what a forecast
  of the current state would say (`ForecastIsCurrent`), the headroom covers what
  was measured, and what is burned where no gas is refunded or the adjustment is
  a quarter at least (`HeadroomSuffices`), and bandwidth is a count
  (`BandwidthOK`).  On Solana it rests on `RecordedHaveFailed`: what ran is never
  already processed.
* `BatchesRunWhole`: `BatchesAreWhole`.  The members of a batch are those it was
  asked for, unless one could not be encoded, and a message asked for stays one
  of the chain (`BatchInv`).  What a list of messages leaves is a fold of the
  community modules: `AllAppliedIsRun` expands it, `RunsExist` shows by induction
  that its recursive definition has a solution, and `AllAppliedStays` that no
  message of it, however many there are, takes a contract away.

`Runner_proofs`, for any harness (its operations, kinds, weights, invariants and
backend, as far as they have their types) and any plans, configurations and
scripts.  `RunnerInv` first ties the parts of a run together (`OneInFlight`): the
history has an op for each step, the log an answer for each op but the one in
flight, and the report is about that history.

* `SequenceIsTrue`: `SequenceReportsTrue`.  The steps behind were swept clean
  where due (`SweptInv`), and the tallies of coverage add up to the number of
  due steps behind (`SweepTallies`, `BehindCounts`).
* `DrawsAreWeighted`: `DrawsFollowTheWeights`.  The op in flight was drawn by the
  weights of the world it met, and a saturated product of weights is 0 only if a
  factor is (`DrawInv`, `DrawnByWeight`).
* `EnduranceIsTrue`: `EnduranceReportsTrue`.  The loop's counter lags behind the
  log while a sweep is due, since it is reset only after it: `StreakInv` names the
  trailing infra failures apart from the counter and relates the two stage by
  stage.  `BudgetInv` says why the loop was left and what is left of the op
  budget, `CleanInv` that the due steps behind were clean.
* `CtrlCIsGraceful`: `StopIsGraceful`, an action property.
* `ScenariosAreHonoured`: `ScriptsAreHonoured`, from `ScriptInv`.

`SearchInv` says that what a search has in hand fails like its reference, and
that it replays within its budget.

The rest of `Runner_proofs` is about what becomes of a failure, whose history may
have any length.  A fixed run is a recursive function, and the driver a loop;
`TraceRuns` shows, by induction over the list (`UpTo`), that the function returns the last of any
sequence of worlds that follow each other as the ops answer and in which only the
last step fails.  That a backend answers in one way (`Deterministic`) is an
assumption on the constants of `Runner`: without it no replay owes anything.
`ReplayInv` adds to `RunnerInv` that the log is such a sequence (`TraceInv`), that
no step behind failed and a report tells what the last one failed with
(`FaultInv`), and that a fixed list and a script are taken from the front
(`ListInv`); these give `LogIsRun`.

* `ReplaysReproduce`: `ReplayReproduces`, from `LogIsRun`.
* `ShrinkingIsFaithful`: `ShrinkingKeepsTheFailure`.  A shrunk history is in the
  order of the original because a part of one in order is (`DroppedInOrder`,
  `OrderInv`), and no step empties it.  A list that is driven again fails, since
  the first replay of the search found the failure of the run again and what the
  search ended with fails like it (`FailedInv`); so does the history of the
  report it returns, which is the whole minimum (`Returned`).
* `ArtifactsReplay`: `ArtifactReplays`.  `FailedInv` carries the noted failure
  from the run through the search to the scenario; the artifact's steps are read
  back as the ops they were written from (`OpsOfSteps`), each with a sweep, and
  the scenario's log is a fixed run of these at cadence 1.

`Funding_proofs`, for any chains, VMs, labels, accounts, denoms and amounts, and
any bounds:

* `TypeCorrect`: balances stay natural numbers: no transfer, call or fee spends
  what its account does not hold.
* `StartTakesNothing`: `FundingNeverTakes`.
* `PlanHolds`: `PlanIsApplied`.  It speaks of the step in which `start` returns,
  and needs to know what the earlier ones left: `FundInv` adds that the
  requirements applied so far are met together (`AppliedStayMet`), which a step
  keeps because applying takes nothing, and that a requirement's label still
  names some chain (`LabelsStay`).
* `SupplyIsConserved`: `SupplyIsKept`, for finitely many accounts.  A supply is a
  sum, again a fold: `SumsExist` shows that it is well defined, and `OneChanges`,
  by induction over the number of accounts, that it changes by as much as the one
  balance that does.

`ConfigRun_proofs`, for any files, command lines, environments, revisions and
harnesses.  `ConfigAssumption` says what TOML, serde and clap leave possible: a
file has its sections and a table no key that is set to nothing, numbers stand
where numbers belong, a label is a label, and an op of a history is its kind and
its data.  A config goes through a dozen stages that rewrite it, so nothing is
visible in one state; `ConfigInv` says stage by stage what the earlier ones
established:

* `DocInv`: the document is a function of the file as read and of the
  environment, and each stage behind accepted it, or the one it ended at did not.
* `StageInv`: so of the phase, the request, the chains and the driver's arguments.
* `TestInv` and `AttributeInv`: the fan a test was expanded with is that of the
  file it was expanded from, and the tests of an attribute share one base.
* `InputInv`: in the second round the file is the artifact of a request that is
  sound (`RequestSound`: labels apart, targets known, urls where they are needed,
  everything buildable) and with which the flags agree.  `RequestIsSound` shows
  this of every request that was driven.

From these:

* `ForetoldByValidate`: `ValidateForetellsRun`.
* `LoadedResolves`: `LoadedConfigsResolve`.
* `DefaultsArrive`: `DefaultsReachTheirModes`.  `AllowlistIsWire` shows that the
  two tables of keys agree, `WrittenKept` that a key survives interpolation and
  merge as the file wrote it.
* `PrecedenceIsKept`: `TargetsFollowThePrecedence`.  `Flattened` shows that the
  first of firsts, which is what the merges and then the resolution take, is the
  first of the eight words in one line.
* `CasesAreOfTheRun`: `TestsRunCasesOfTheRun`.
* `ChainsAreMetAgain`: `ReplayMeetsTheSameChains`.  `ReplayedChains` shows that
  the merge and the resolution of an artifact give back the specs it was written
  from; that all of them are selected is an induction over the declarations
  (`TakenExists`, `SelectedAreDeclared`).
* `ArtifactsAreConfigs`: `ArtifactsLoad`, going through the refusals one by one.
  It assumes `NotAFunction`: the value that stands for one of another type than a
  table is not a function.  TLC has a model value there.

Everything else is model-checked only.  Liveness (`EveryCallReturns`, `Served`,
`Returns`, `Terminates`, `EveryRunEnds`) needs ENABLED, which is outside the
prover's reach.  The library's induction theorems are too, since they take an
operator as a parameter; the inductions above are over a set of numbers up to a
bound instead (`UpTo`), which needs none.  Every invariant and action property of
the passing runs is stated by a theorem.  The properties that are violated
(*Disagreements met*) are not.

## Plan

1. (done) Drivers, shrinker, suites, locker, funding; first proofs.
2. (done) Transport, live operations and contracts, mocks and batches,
   configuration, artifacts and tests; the composition of the drivers.
3. (done) Proofs of the locker, the transport, the suites, contracts and mocks,
   with the three refinements.
4. (done) Proofs of the drivers, of scenarios, of the search and of replays.
5. (done) Proofs about folds: supplies and batches.
6. (done) Proofs of the stages of `ConfigRun`.

## Not modelled

* The contents of transactions and messages, gas arithmetic beyond the headroom
  of an estimate, the parsing of TOML, of events and of contract responses.
* Tron's frozen energy and precompiles, storage and code reads, Solana's
  program-account scans.
* Statistics, logging, the summary table and JSON report, `describe`'s text.
* The interface macros (`cw_fns`, `cw_interface`, `op_doc`): they generate typed
  wrappers and have no state and no order of events.
* The sample contracts and the example relayer: the framework's subjects, not
  part of it.
* A contract method whose VM hook is not implemented panics, and so does a hook
  that re-enters its contract; neither is a state to go on from.
* Patch functions are taken to succeed in `ConfigRun` (`Pipeline` has their
  failure), and an op's `to_data` and its decoder to agree (`Reportable`).
