-------------------------- MODULE MockChain_proofs --------------------------
(***************************************************************************)
(* MockChain, for every set of wallets and values, every budget and every  *)
(* gas adjustment.                                                         *)
(***************************************************************************)
EXTENDS MockChain, Sequences, NaturalsInduction, WellFoundedInduction, TLAPS

(* The VM of a chain never changes.                                         *)
VMKnown == vm \in VM

(* Bandwidth is counted of every wallet.                                    *)
BandwidthOK == spent \in [Wallet -> Nat]

(* No hash was reported that the sequence could still come to.              *)
HashesAreSpent ==
    /\ seq \in Nat
    /\ DOMAIN minted \subseteq 0 .. seq - 1
    /\ \A h \in DOMAIN minted : minted[h] = 1

(* The history of the latest blockhash is of transactions that failed under *)
(* it.                                                                      *)
RecordedHaveFailed ==
    vm = "svm" => \A r \in recorded : r.tx.blockhash = seq /\ ~r.ok

(* Only what is in the history is refused as already processed.             *)
AgainIsRecorded ==
    (vm = "svm" /\ last.how # "none" /\ last.again) =>
      \E r \in recorded : r.tx.ask = last.ask

ForecastOps ==
    IF vm = "svm" THEN {"bump", "runaway", "capped", "transfer"} ELSE {"bump", "clear", "fail", "create", "failing create"}

(* A forecast stays what a forecast would now say.                          *)
ForecastIsCurrent ==
    (vm # "cw" /\ last.how = "forecast") =>
      /\ last.ask.op \in ForecastOps
      /\ vm = "svm" =>
           /\ last.ok = Svm!Simulated(last.ask)
           /\ last.gas = IF last.ok THEN Svm!Units(last.ask) ELSE 0
           /\ last.again <=> (last.ask.op # "capped" /\ Svm!Seen(Svm!Signed(last.ask, Svm!MaxUnits)))
      /\ IsRevm =>
           /\ last.ask.from \in Wallet
           /\ last.ok = Revm!Simulate(last.ask).ok
           /\ last.gas = IF last.ok THEN Revm!Gas(last.ask) ELSE 0
           /\ last.bytes = IF last.ok THEN Revm!ForecastBandwidth(last.ask) ELSE 0

MockInv ==
    /\ VMKnown /\ BandwidthOK /\ HashesAreSpent
    /\ RecordedHaveFailed /\ AgainIsRecorded /\ ForecastIsCurrent
-----------------------------------------------------------------------------
(* A step of a chain either reports a hash and moves its sequence past it,  *)
(* or leaves both: next_tx_hash, and the blockhash a transaction expires.   *)
LEMMA MintingSteps ==
    ASSUME Next
    PROVE  \/ UNCHANGED <<seq, minted>>
           \/ minted' = Revm!BagAdd(minted, seq) /\ seq' = seq + 1
  <1>1. ASSUME Revm!RevmNext PROVE Revm!Mint \/ UNCHANGED <<seq, minted>>
    <2>1. ASSUME NEW ask, NEW limit, Revm!Run(ask, limit)
          PROVE  Revm!Mint \/ UNCHANGED <<seq, minted>>
      BY <2>1 DEF Revm!Run
    <2>2. ASSUME NEW ask, NEW how, Revm!Refuse(ask, how) PROVE UNCHANGED <<seq, minted>>
      BY <2>2 DEF Revm!Refuse, Revm!chain
    <2>3. ASSUME NEW ask, NEW how, Revm!Submit(ask, how)
          PROVE  Revm!Mint \/ UNCHANGED <<seq, minted>>
      BY <2>1, <2>2, <2>3 DEF Revm!Submit
    <2>4. QED
      BY <1>1, <2>1, <2>2, <2>3
      DEF Revm!RevmNext, Revm!CallValue, Revm!DeployCreate, Revm!TransferFunds, Revm!Estimate,
          Revm!SetBalance
  <1>2. ASSUME Svm!SvmNext PROVE (Svm!Mint /\ Svm!Expire) \/ UNCHANGED <<seq, minted>>
    <2>1. ASSUME NEW ask, NEW how, Svm!Send(ask, how)
          PROVE  (Svm!Mint /\ Svm!Expire) \/ UNCHANGED <<seq, minted>>
      BY <2>1 DEF Svm!Send, Svm!Ran, Svm!Failed, Svm!chain
    <2>2. QED
      BY <1>2, <2>1
      DEF Svm!SvmNext, Svm!AddProgram, Svm!WipeProgram, Svm!WipeData, Svm!SendTransaction,
          Svm!TransferFunds, Svm!Estimate, Svm!SetBalance, Svm!chain
  <1>3. ASSUME Cw!CwNext PROVE Cw!Mint \/ UNCHANGED <<seq, minted>>
    <2>1. ASSUME NEW ms, NEW sender, Cw!Transact(ms, sender)
          PROVE  Cw!Mint \/ UNCHANGED <<seq, minted>>
      BY <2>1 DEF Cw!Transact, Cw!chain
    <2>2. ASSUME NEW m, Cw!Joins(m) PROVE UNCHANGED <<seq, minted>>
      BY <2>2 DEF Cw!Joins, Cw!chain
    <2>3. ASSUME NEW w, Cw!ExecuteBatch(w) PROVE Cw!Mint \/ UNCHANGED <<seq, minted>>
      BY <2>1, <2>3 DEF Cw!ExecuteBatch, Cw!chain
    <2>4. ASSUME NEW c, NEW w, NEW n, Cw!Instantiate(c, w, n)
          PROVE  Cw!Mint \/ UNCHANGED <<seq, minted>>
      BY <2>4 DEF Cw!Instantiate, Cw!chain
    <2>5. QED
      BY <1>3, <2>1, <2>2, <2>3, <2>4
      DEF Cw!CwNext, Cw!StoreCode, Cw!ExecuteContract, Cw!MigrateContract, Cw!TransferFunds,
          Cw!Push, Cw!PushRaw, Cw!Defer, Cw!NewBatch, Cw!SetBalance, Cw!chain
  <1>4. ASSUME UNCHANGED chain PROVE UNCHANGED <<seq, minted>>
    BY <1>4 DEF chain
  <1>5. QED
    BY <1>1, <1>2, <1>3, <1>4
    DEF Next, AdvanceBlocks, AdvanceAll, Revm!Mint, Svm!Mint, Svm!Expire, Cw!Mint,
        Revm!BagAdd, Svm!BagAdd, Cw!BagAdd

(* A hash minted from the sequence was never reported: the sequence is past *)
(* every hash there is.                                                     *)
LEMMA HashInvariant ==
    ASSUME HashesAreSpent, [Next]_vars
    PROVE  HashesAreSpent'
  <1>1. CASE UNCHANGED <<seq, minted>>
    BY <1>1 DEF HashesAreSpent
  <1>2. CASE minted' = Revm!BagAdd(minted, seq) /\ seq' = seq + 1
    <2>1. seq \notin DOMAIN minted
      BY DEF HashesAreSpent
    <2>2. minted' = [e \in DOMAIN minted \cup {seq} |-> IF e = seq THEN 1 ELSE minted[e]]
      BY <1>2, <2>1 DEF Revm!BagAdd
    <2>3. seq' \in Nat /\ DOMAIN minted' \subseteq 0 .. seq' - 1
      BY <1>2, <2>2 DEF HashesAreSpent
    <2>4. \A h \in DOMAIN minted' : minted'[h] = 1
      BY <2>2 DEF HashesAreSpent
    <2>5. QED
      BY <2>3, <2>4 DEF HashesAreSpent
  <1>3. QED
    BY <1>1, <1>2, MintingSteps DEF vars

(* An operation that is not a forecast does not report as one: no budget    *)
(* has that name.                                                           *)
LEMMA Reporting ==
    ASSUME VMKnown, Next
    PROVE  \/ UNCHANGED <<chain, last>>
           \/ vm = "cw"
           \/ last'.how # "forecast"
           \/ /\ IsRevm /\ UNCHANGED <<vm, svmVars, cwVars>>
              /\ \E ask \in Revm!Calls \cup Revm!Creates : Revm!Estimate(ask)
           \/ /\ vm = "svm" /\ UNCHANGED <<vm, revmVars, cwVars>>
              /\ \E ask \in Svm!Calls \cup Svm!Sends : Svm!Estimate(ask)
  <1>1. ASSUME Revm!RevmNext
        PROVE  last'.how # "forecast" \/ \E ask \in Revm!Calls \cup Revm!Creates : Revm!Estimate(ask)
    <2>1. \A how \in Revm!Budgets : how # "forecast"
      BY MockAssumption DEF Revm!Budgets
    <2>2. ASSUME NEW ask, NEW how \in Revm!Budgets, NEW ok, NEW bytes, Revm!Report(ask, how, ok, bytes)
          PROVE  last'.how # "forecast"
      BY <2>1, <2>2 DEF Revm!Report
    <2>3. ASSUME NEW ask, NEW how \in Revm!Budgets, Revm!Refuse(ask, how)
          PROVE  last'.how # "forecast"
      BY <2>2, <2>3 DEF Revm!Refuse
    <2>4. ASSUME NEW ask, NEW how \in Revm!Budgets, Revm!Submit(ask, how)
          PROVE  last'.how # "forecast"
      BY <2>2, <2>3, <2>4 DEF Revm!Submit
    <2>5. ASSUME NEW ask, NEW how \in Revm!Budgets, Revm!TransferFunds(ask, how)
          PROVE  last'.how # "forecast"
      BY <2>2, <2>3, <2>4, <2>5 DEF Revm!TransferFunds
    <2>6. ASSUME NEW w, NEW n, Revm!SetBalance(w, n) PROVE last'.how # "forecast"
      BY <2>6 DEF Revm!SetBalance, Revm!Quiet
    <2>7. QED
      BY <1>1, <2>4, <2>5, <2>6 DEF Revm!RevmNext, Revm!CallValue, Revm!DeployCreate
  <1>2. ASSUME Svm!SvmNext
        PROVE  last'.how # "forecast" \/ \E ask \in Svm!Calls \cup Svm!Sends : Svm!Estimate(ask)
    <2>1. \A how \in Svm!Budgets : how # "forecast"
      BY MockAssumption DEF Svm!Budgets
    <2>2. ASSUME NEW ask, NEW how \in Svm!Budgets, NEW ok, NEW again, Svm!Report(ask, how, ok, again)
          PROVE  last'.how # "forecast"
      BY <2>1, <2>2 DEF Svm!Report
    <2>3. ASSUME NEW ask, NEW how \in Svm!Budgets, Svm!Send(ask, how)
          PROVE  last'.how # "forecast"
      BY <2>2, <2>3 DEF Svm!Send
    <2>4. ASSUME last' = Svm!Quiet PROVE last'.how # "forecast"
      BY <2>4 DEF Svm!Quiet
    <2>5. QED
      BY <1>2, <2>3, <2>4
      DEF Svm!SvmNext, Svm!AddProgram, Svm!WipeProgram, Svm!WipeData, Svm!SendTransaction,
          Svm!TransferFunds, Svm!SetBalance
  <1>3. QED
    BY <1>1, <1>2 DEF Next, AdvanceBlocks, AdvanceAll, VMKnown, VM, IsRevm

(* What a mock forecasts, it does not keep.                                 *)
LEMMA ForecastsKeepTheChain ==
    /\ \A ask : Revm!Estimate(ask) =>
         UNCHANGED <<bal, seq, minted, revmVars>> /\ UNCHANGED (vm = "tron")
    /\ \A ask : Svm!Estimate(ask) => UNCHANGED <<bal, seq, minted, svmVars>>
  <1>1. ASSUME NEW ask PROVE Revm!Simulate(ask).bal = bal /\ Revm!Simulate(ask).count = count
    BY DEF Revm!Simulate, Revm!Transact
  <1>2. QED
    BY <1>1 DEF Revm!Estimate, Svm!Estimate, Svm!chain, revmVars, svmVars

(* Bandwidth is only ever added to.                                         *)
LEMMA BandwidthInvariant ==
    ASSUME BandwidthOK, [Next]_vars
    PROVE  BandwidthOK'
  <1>1. CASE UNCHANGED spent
    BY <1>1 DEF BandwidthOK
  <1>2. CASE Revm!RevmNext
    <2>1. ASSUME NEW ask \in Revm!Calls \cup Revm!Creates \cup Revm!Sends, NEW how,
                 Revm!Submit(ask, how)
          PROVE  BandwidthOK'
      <3>1. ask.from \in Wallet
        BY DEF Revm!Calls, Revm!Creates, Revm!Sends
      <3>2. Revm!Bytes(ask) \in Nat
        BY DEF Revm!Calls, Revm!Creates, Revm!Sends, Revm!Bytes
      <3>3. Revm!Charged(ask) \in Nat
        BY <3>2 DEF Revm!Charged
      <3>4. spent' = spent \/ spent' = [spent EXCEPT ![ask.from] = @ + Revm!Charged(ask)]
        BY <2>1 DEF Revm!Submit, Revm!Refuse, Revm!chain
      <3>5. QED
        BY <3>1, <3>3, <3>4 DEF BandwidthOK
    <2>2. ASSUME NEW ask \in Revm!Sends, NEW how, Revm!TransferFunds(ask, how)
          PROVE  BandwidthOK'
      BY <2>1, <2>2 DEF Revm!TransferFunds, Revm!Refuse, Revm!chain, BandwidthOK
    <2>3. QED
      BY <1>2, <2>1, <2>2
      DEF Revm!RevmNext, Revm!CallValue, Revm!DeployCreate, Revm!Estimate, Revm!SetBalance,
          BandwidthOK
  <1>3. QED
    BY <1>1, <1>2 DEF Next, AdvanceBlocks, AdvanceAll, vars, chain, revmVars

(* The history: a transaction that ran has expired the blockhash of all in  *)
(* it, so what is there has failed.                                         *)
LEMMA HistoryInvariant ==
    ASSUME RecordedHaveFailed, AgainIsRecorded, [Next]_vars
    PROVE  RecordedHaveFailed' /\ AgainIsRecorded'
  <1>1. CASE UNCHANGED <<vm, chain, last>>
    <2>1. UNCHANGED <<vm, seq, program, recorded, last>>
      BY <1>1 DEF chain, svmVars
    <2>2. QED
      BY <2>1 DEF RecordedHaveFailed, AgainIsRecorded
  <1>2. CASE vm # "svm" /\ UNCHANGED vm
    BY <1>2 DEF RecordedHaveFailed, AgainIsRecorded
  <1>3. CASE vm = "svm" /\ UNCHANGED vm /\ Svm!SvmNext
    <2>1. \A r \in recorded : r.tx.blockhash = seq /\ ~r.ok
      BY <1>3 DEF RecordedHaveFailed
    <2>2. CASE last' = Svm!Quiet /\ recorded' = {}
      BY <2>2 DEF Svm!Quiet, RecordedHaveFailed, AgainIsRecorded
    <2>3. CASE last' = Svm!Quiet /\ UNCHANGED <<recorded, seq>>
      <3>1. RecordedHaveFailed'
        BY <2>1, <2>3, <1>3 DEF RecordedHaveFailed
      <3>2. QED
        BY <3>1, <2>3 DEF Svm!Quiet, AgainIsRecorded
    <2>4. ASSUME NEW ask, NEW how, Svm!Send(ask, how)
          PROVE  RecordedHaveFailed' /\ AgainIsRecorded'
      <3>1. CASE \E ok \in BOOLEAN : Svm!Report(ask, how, ok, FALSE) /\ Svm!chain' = Svm!chain
        BY <3>1, <1>3, <2>1 DEF Svm!Report, Svm!chain, RecordedHaveFailed, AgainIsRecorded
      <3>2. ASSUME NEW units, Svm!Report(ask, how, FALSE, Svm!Seen(Svm!Signed(ask, units))),
                   UNCHANGED Svm!chain
            PROVE  RecordedHaveFailed' /\ AgainIsRecorded'
        <4>1. UNCHANGED <<recorded, seq, program>>
          BY <3>2 DEF Svm!chain
        <4>2. RecordedHaveFailed'
          BY <4>1, <1>3, <2>1 DEF RecordedHaveFailed
        <4>3. last'.ask = ask /\ last'.again = Svm!Seen(Svm!Signed(ask, units))
          BY <3>2 DEF Svm!Report
        <4>4. Svm!Seen(Svm!Signed(ask, units)) => \E r \in recorded : r.tx.ask = ask
          BY DEF Svm!Seen, Svm!Signed
        <4>5. QED
          BY <4>1, <4>2, <4>3, <4>4 DEF AgainIsRecorded
      <3>3. ASSUME NEW units, Svm!Report(ask, how, TRUE, FALSE), Svm!Ran(Svm!Signed(ask, units))
            PROVE  RecordedHaveFailed' /\ AgainIsRecorded'
        BY <3>3 DEF Svm!Report, Svm!Ran, Svm!Expire, RecordedHaveFailed, AgainIsRecorded
      <3>4. ASSUME NEW units, Svm!Report(ask, how, FALSE, FALSE),
                   ~Svm!Succeeds(Svm!Signed(ask, units)), Svm!Failed(Svm!Signed(ask, units))
            PROVE  RecordedHaveFailed' /\ AgainIsRecorded'
        <4> DEFINE r0 == [tx |-> Svm!Signed(ask, units), ok |-> FALSE]
        <4>1. /\ recorded' = recorded \cup {r0}
              /\ UNCHANGED <<seq, program>>
          BY <3>4 DEF Svm!Failed
        <4>2. r0.tx.blockhash = seq /\ ~r0.ok /\ r0.tx.ask = ask /\ r0.tx.units = units
          BY DEF Svm!Signed
        <4>3. RecordedHaveFailed'
          BY <4>1, <4>2, <2>1 DEF RecordedHaveFailed
        <4>4. QED
          BY <4>3, <3>4 DEF Svm!Report, AgainIsRecorded
      <3>5. QED
        BY <2>4, <3>1, <3>2, <3>3, <3>4 DEF Svm!Send
    <2>5. ASSUME NEW ask, Svm!Estimate(ask)
          PROVE  RecordedHaveFailed' /\ AgainIsRecorded'
      <3>1. UNCHANGED <<recorded, seq, program>>
        BY <2>5 DEF Svm!Estimate, Svm!chain
      <3>2. RecordedHaveFailed'
        BY <3>1, <1>3, <2>1 DEF RecordedHaveFailed
      <3>3. last'.ask = ask /\ (last'.again => Svm!Seen(Svm!Signed(ask, Svm!MaxUnits)))
        BY <2>5 DEF Svm!Estimate, Svm!Report
      <3>4. Svm!Seen(Svm!Signed(ask, Svm!MaxUnits)) => \E r \in recorded : r.tx.ask = ask
        BY DEF Svm!Seen, Svm!Signed
      <3>5. QED
        BY <3>1, <3>2, <3>3, <3>4 DEF AgainIsRecorded
    <2>6. QED
      BY <1>3, <2>2, <2>3, <2>4, <2>5
      DEF Svm!SvmNext, Svm!AddProgram, Svm!Expire, Svm!WipeProgram, Svm!WipeData,
          Svm!SendTransaction, Svm!TransferFunds, Svm!SetBalance
  <1>4. QED
    BY <1>1, <1>2, <1>3
    DEF Next, AdvanceBlocks, AdvanceAll, IsRevm, vars, chain, clock, revmVars, svmVars, cwVars

(* A forecast of this state is what a forecast says of it, and while no     *)
(* other operation reports, the state stays.                                *)
LEMMA ForecastInvariant ==
    ASSUME VMKnown, ForecastIsCurrent, [Next]_vars
    PROVE  ForecastIsCurrent'
  <1>0. UNCHANGED vm
    BY DEF Next, vars, AdvanceBlocks, AdvanceAll
  <1>1. CASE UNCHANGED <<chain, last>>
    <2>1. UNCHANGED <<bal, seq, count, spent, program, data, recorded, last>>
      BY <1>1 DEF chain, revmVars, svmVars
    <2>2. /\ Svm!Simulated(last.ask)' = Svm!Simulated(last.ask)
          /\ Svm!Units(last.ask)' = Svm!Units(last.ask)
          /\ Svm!Seen(Svm!Signed(last.ask, Svm!MaxUnits))' =
               Svm!Seen(Svm!Signed(last.ask, Svm!MaxUnits))
      BY <2>1
      DEF Svm!Simulated, Svm!Units, Svm!Signed, Svm!MaxUnits, Svm!Included, Svm!Seen, Svm!Succeeds, Svm!Cap
    <2>3. Revm!Simulate(last.ask)' = Revm!Simulate(last.ask)
      BY <2>1
      DEF Revm!Simulate, Revm!Transact, Revm!ToppedUp, Revm!Burned, Revm!SimulationLimit
    <2>4. Revm!Gas(last.ask)' = Revm!Gas(last.ask)
      BY <2>1 DEF Revm!Gas, Revm!Burned, Revm!Refund
    <2>5. Revm!ForecastBandwidth(last.ask)' = Revm!ForecastBandwidth(last.ask)
      BY <1>0, <2>1 DEF Revm!ForecastBandwidth, Revm!Bandwidth, Revm!Bytes
    <2>6. QED
      BY <1>0, <2>1, <2>2, <2>3, <2>4, <2>5 DEF ForecastIsCurrent, ForecastOps, IsRevm
  <1>2. CASE vm = "cw" \/ last'.how # "forecast"
    BY <1>0, <1>2 DEF ForecastIsCurrent
  <1>3. ASSUME IsRevm, UNCHANGED <<svmVars, cwVars>>,
               NEW ask \in Revm!Calls \cup Revm!Creates, Revm!Estimate(ask)
        PROVE  ForecastIsCurrent'
    <2>1. UNCHANGED <<vm, bal, count, spent>>
      BY <1>0, <1>3, ForecastsKeepTheChain DEF revmVars
    <2>2. /\ last'.ask = ask
          /\ last'.ok = Revm!Simulate(ask).ok
          /\ last'.gas = IF Revm!Simulate(ask).ok THEN Revm!Gas(ask) ELSE 0
          /\ last'.bytes = IF Revm!Simulate(ask).ok THEN Revm!ForecastBandwidth(ask) ELSE 0
      BY <1>3 DEF Revm!Estimate, Revm!Report
    <2>3. ask.op \in {"bump", "clear", "fail", "create", "failing create"} /\ ask.from \in Wallet
      BY DEF Revm!Calls, Revm!Creates
    <2>4. vm # "svm"
      BY <1>3 DEF IsRevm
    <2>5. Revm!Simulate(last.ask)' = Revm!Simulate(ask)
      BY <2>1, <2>2
      DEF Revm!Simulate, Revm!Transact, Revm!ToppedUp, Revm!Burned, Revm!SimulationLimit
    <2>6. Revm!Gas(last.ask)' = Revm!Gas(ask)
      BY <2>1, <2>2 DEF Revm!Gas, Revm!Burned, Revm!Refund
    <2>7. Revm!ForecastBandwidth(last.ask)' = Revm!ForecastBandwidth(ask)
      <3>1. Revm!Bytes(last.ask)' = Revm!Bytes(ask)
        BY <2>2 DEF Revm!Bytes
      <3>2. Revm!Bandwidth(last.ask.from)' = Revm!Bandwidth(ask.from)
        BY <2>1, <2>2 DEF Revm!Bandwidth
      <3>3. QED
        BY <2>1, <3>1, <3>2 DEF Revm!ForecastBandwidth
    <2>8. QED
      BY <2>1, <2>2, <2>3, <2>4, <2>5, <2>6, <2>7 DEF ForecastIsCurrent, ForecastOps
  <1>4. ASSUME vm = "svm", UNCHANGED <<revmVars, cwVars>>,
               NEW ask \in Svm!Calls \cup Svm!Sends, Svm!Estimate(ask)
        PROVE  ForecastIsCurrent'
    <2>1. UNCHANGED <<vm, bal, seq, program, data, recorded>>
      BY <1>0, <1>4, ForecastsKeepTheChain DEF svmVars
    <2>2. /\ last'.ask = ask
          /\ last'.ok = Svm!Simulated(ask)
          /\ last'.gas = IF Svm!Simulated(ask) THEN Svm!Units(ask) ELSE 0
          /\ last'.again <=> (ask.op # "capped" /\ Svm!Seen(Svm!Signed(ask, Svm!MaxUnits)))
      BY <1>4 DEF Svm!Estimate, Svm!Report
    <2>3. ask.op \in {"bump", "runaway", "capped", "transfer"}
      BY DEF Svm!Calls, Svm!Sends
    <2>4. ~IsRevm
      BY <1>4 DEF IsRevm
    <2>5. /\ Svm!Simulated(last.ask)' = Svm!Simulated(ask)
          /\ Svm!Units(last.ask)' = Svm!Units(ask)
          /\ Svm!Seen(Svm!Signed(last.ask, Svm!MaxUnits))' = Svm!Seen(Svm!Signed(ask, Svm!MaxUnits))
      BY <2>1, <2>2
      DEF Svm!Simulated, Svm!Units, Svm!Signed, Svm!MaxUnits, Svm!Included, Svm!Seen, Svm!Succeeds, Svm!Cap
    <2>6. QED
      BY <1>4, <2>1, <2>2, <2>3, <2>4, <2>5 DEF ForecastIsCurrent, ForecastOps, IsRevm
  <1>5. QED
    BY <1>1, <1>2, <1>3, <1>4, Reporting DEF vars, chain, cwVars

(* The invariant holds at first and is kept.                                *)
LEMMA InvariantHolds == Spec => []MockInv
  <1>1. Init => MockInv
    <2> SUFFICES ASSUME Init PROVE MockInv
      OBVIOUS
    <2>1. vm = "cw" \/ (last.how = "none" /\ (vm = "svm" => recorded = {}))
      BY DEF Init, IsRevm, VM, Revm!RevmInit, Svm!SvmInit, Revm!Quiet, Svm!Quiet
    <2>2. seq = 0 /\ DOMAIN minted = {}
      <3>1. Revm!RevmInit => seq = 0 /\ DOMAIN minted = {}
        BY DEF Revm!RevmInit
      <3>2. Svm!SvmInit => seq = 0 /\ DOMAIN minted = {}
        BY DEF Svm!SvmInit
      <3>3. Cw!CwInit => seq = 0 /\ DOMAIN minted = {}
        BY DEF Cw!CwInit
      <3>4. QED
        BY <3>1, <3>2, <3>3 DEF Init, IsRevm, VM
    <2>3. VMKnown
      BY DEF Init, VMKnown
    <2> BandwidthOK
      BY DEF Init, IsRevm, VM, Revm!RevmInit, BandwidthOK
    <2>4. HashesAreSpent
      BY <2>2 DEF HashesAreSpent
    <2>5. RecordedHaveFailed /\ AgainIsRecorded /\ ForecastIsCurrent
      BY <2>1 DEF RecordedHaveFailed, AgainIsRecorded, ForecastIsCurrent
    <2>6. QED
      BY <2>3, <2>4, <2>5 DEF MockInv
  <1>2. MockInv /\ [Next]_vars => MockInv'
    <2> SUFFICES ASSUME MockInv, [Next]_vars PROVE MockInv'
      OBVIOUS
    <2>1. VMKnown'
      BY DEF MockInv, VMKnown, Next, vars, AdvanceBlocks, AdvanceAll
    <2>2. QED
      BY <2>1, BandwidthInvariant, HashInvariant, HistoryInvariant, ForecastInvariant DEF MockInv
  <1>3. QED
    BY <1>1, <1>2, PTL DEF Spec

(* next_tx_hash, expire_blockhash: however alike, transactions are told     *)
(* apart.                                                                   *)
THEOREM HashesStayNew == Spec => []RepeatsAreNew
  <1>1. MockInv => RepeatsAreNew
    <2> SUFFICES ASSUME MockInv PROVE RepeatsAreNew
      OBVIOUS
    <2>1. \A h \in BagToSet(minted) : minted[h] = 1
      BY DEF MockInv, HashesAreSpent, BagToSet
    <2>2. (vm = "svm" /\ last.how # "none" /\ last.again) =>
            \E r \in recorded : r.tx.ask = last.ask /\ r.tx.blockhash = seq /\ ~r.ok
      BY DEF MockInv, RecordedHaveFailed, AgainIsRecorded
    <2>3. QED
      BY <2>1, <2>2 DEF RepeatsAreNew
  <1>2. QED
    BY <1>1, InvariantHolds, PTL

(* estimate_*: a forecast leaves no trace.                                  *)
THEOREM ForecastsAreDropped == Spec => ForecastsLeaveNoTrace
  <1>1. ASSUME MockInv, [Next]_vars, vm # "cw", last' # last, last'.how = "forecast"
        PROVE  UNCHANGED chain
    <2>1. UNCHANGED <<bal, seq, minted, revmVars, svmVars, cwVars>>
      BY <1>1, Reporting, ForecastsKeepTheChain DEF MockInv, vars
    <2>2. QED
      BY <2>1 DEF chain, cwVars
  <1>2. MockInv /\ [Next]_vars =>
          [(vm # "cw" /\ last' # last /\ last'.how = "forecast") => UNCHANGED chain]_vars
    BY <1>1
  <1>3. QED
    BY <1>2, InvariantHolds, PTL DEF Spec, ForecastsLeaveNoTrace

(* with_headroom, adjusted: what is measured fits under the limit it comes  *)
(* to, and what is burned, if nothing is refunded or the adjustment is a    *)
(* quarter; a cap stays under the ceiling.                                  *)
LEMMA HeadroomSuffices ==
    /\ IsRevm =>
         /\ \A gas \in {60, 44, 27, 26, 23} : Revm!Headroom(gas) >= gas
         /\ GasPercent[vm] >= 125 => Revm!Headroom(21) >= 26
    /\ \A units \in {1200, 500, 1} :
            /\ Svm!Adjusted(units) \in Nat
            /\ Svm!Adjusted(units) >= units /\ Svm!Adjusted(units) <= Svm!MaxUnits
  <1>1. ASSUME NEW p \in Nat, p >= 100
        PROVE  \A n \in {60, 44, 27, 26, 23, 1200, 500, 1} : (n * p + 99) \div 100 >= n
    <2>1. /\ (60 * p + 99) \div 100 >= 60
          /\ (44 * p + 99) \div 100 >= 44
          /\ (27 * p + 99) \div 100 >= 27
          /\ (26 * p + 99) \div 100 >= 26
      BY <1>1
    <2>2. /\ (23 * p + 99) \div 100 >= 23
          /\ (1200 * p + 99) \div 100 >= 1200
          /\ (500 * p + 99) \div 100 >= 500
          /\ (1 * p + 99) \div 100 >= 1
      BY <1>1
    <2>3. QED
      BY <2>1, <2>2
  <1>2. ASSUME NEW p \in Nat, p >= 125 PROVE (21 * p + 99) \div 100 >= 26
    BY <1>2
  <1>3. ASSUME IsRevm
        PROVE  /\ \A gas \in {60, 44, 27, 26, 23} : Revm!Headroom(gas) >= gas
               /\ GasPercent[vm] >= 125 => Revm!Headroom(21) >= 26
    <2>1. GasPercent[vm] \in Nat /\ GasPercent[vm] >= 100
      BY <1>3, MockAssumption DEF IsRevm
    <2>2. \A gas : Revm!Headroom(gas) = (gas * GasPercent[vm] + 99) \div 100
      BY DEF Revm!Headroom
    <2>3. \A gas \in {60, 44, 27, 26, 23} : Revm!Headroom(gas) >= gas
      BY <1>1, <2>1, <2>2
    <2>4. GasPercent[vm] >= 125 => Revm!Headroom(21) >= 26
      BY <1>2, <2>1, <2>2
    <2>5. QED
      BY <2>3, <2>4
  <1>4. \A units \in {1200, 500, 1} :
            /\ Svm!Adjusted(units) \in Nat
            /\ Svm!Adjusted(units) >= units /\ Svm!Adjusted(units) <= Svm!MaxUnits
    <2>1. GasPercent["svm"] \in Nat /\ GasPercent["svm"] >= 100
      BY MockAssumption
    <2>2. \A units \in {1200, 500, 1} :
            /\ (units * GasPercent["svm"] + 99) \div 100 >= units
            /\ (units * GasPercent["svm"] + 99) \div 100 \in Int
      BY <1>1, <2>1
    <2>3. QED
      BY <2>2 DEF Svm!Adjusted, Svm!MaxUnits
  <1>5. QED
    BY <1>3, <1>4

(* On a RevmCore a budget estimated from a forecast covers what the         *)
(* operation burns, unless it is refunded more than the adjustment adds,    *)
(* and a budget that runs runs what was forecast.                           *)
LEMMA RevmForetells ==
    ASSUME IsRevm, Revm!RevmNext, BandwidthOK, ForecastIsCurrent, last.how = "forecast",
           last' # last, last'.ask = last.ask, last'.how # "forecast"
    PROVE  /\ last'.how = "estimated" =>
                last'.ok = last.ok \/ (GasPercent[vm] < 125 /\ Revm!Refund(last.ask) > 0)
           /\ last'.ok => last.ok /\ last'.gas = last.gas /\ last'.bytes = last.bytes
  <1> DEFINE ask == last.ask
             sim == Revm!Simulate(ask)
             run(limit) == Revm!Transact(Revm!ToppedUp(ask), ask, limit)
             can == /\ ask.op \notin {"fail", "failing create"}
                    /\ Revm!ToppedUp(ask)[ask.from] >= ask.value
             covered == Revm!Refund(ask) = 0 \/ GasPercent[vm] >= 125
  <1>1. /\ ask.op \in {"bump", "clear", "fail", "create", "failing create"}
        /\ ask.from \in Wallet
        /\ last.ok = sim.ok
        /\ last.gas = IF last.ok THEN Revm!Gas(ask) ELSE 0
        /\ last.bytes = IF last.ok THEN Revm!ForecastBandwidth(ask) ELSE 0
    BY DEF ForecastIsCurrent, ForecastOps, IsRevm
  <1>2. /\ Revm!Burned(ask) \in {60, 44, 27, 26, 23}
        /\ Revm!Refund(ask) = 0 => Revm!Gas(ask) = Revm!Burned(ask)
        /\ Revm!Refund(ask) # 0 => Revm!Refund(ask) = 5 /\ Revm!Gas(ask) = 21 /\ Revm!Burned(ask) = 26
    <2>1. CASE ask.op = "clear"
      BY <2>1 DEF Revm!Gas, Revm!Burned, Revm!Refund
    <2>2. CASE ask.op # "clear"
      <3>1. Revm!Refund(ask) = 0 /\ Revm!Burned(ask) \in {60, 44, 27}
        BY <1>1, <2>2 DEF Revm!Burned, Revm!Refund
      <3>2. QED
        BY <3>1 DEF Revm!Gas
    <2>3. QED
      BY <2>1, <2>2
  <1>3. sim.ok \in BOOLEAN /\ (sim.ok <=> run(1000).ok)
    BY DEF Revm!Simulate, Revm!Transact, Revm!SimulationLimit
  <1>4. \A limit :
          /\ run(limit).ok \in BOOLEAN
          /\ run(limit).ok <=> can /\ limit >= Revm!Burned(ask)
    BY DEF Revm!Transact
  <1> HIDE DEF run, sim, can
  <1>5. \A limit : run(limit).ok => sim.ok
    <2>1. sim.ok <=> can /\ 1000 >= Revm!Burned(ask)
      BY <1>3, <1>4
    <2>2. sim.ok <=> can
      BY <1>2, <2>1
    <2>3. QED
      BY <1>4, <2>2
  <1>6. sim.ok /\ covered => run(Revm!Headroom(Revm!Gas(ask))).ok
    <2>1. covered => Revm!Headroom(Revm!Gas(ask)) >= Revm!Burned(ask)
      BY <1>2, HeadroomSuffices
    <2>2. sim.ok => can
      BY <1>3, <1>4
    <2>3. QED
      BY <1>4, <2>1, <2>2
  <1>7. Revm!Charged(ask) = Revm!ForecastBandwidth(ask)
    <2>1. Revm!Bytes(ask) \in {1, 2} /\ Revm!Bandwidth(ask.from) \in Int
      <3>1. Allowance \in Nat /\ spent[ask.from] \in Nat
        BY <1>1, MockAssumption DEF BandwidthOK
      <3>2. QED
        <4>1. Revm!Bytes(ask) \in {1, 2}
          BY <1>1 DEF Revm!Bytes
        <4>2. Revm!Bandwidth(ask.from) \in Int
          BY <3>1 DEF Revm!Bandwidth
        <4>3. QED
          BY <4>1, <4>2
    <2>2. QED
      BY <2>1 DEF Revm!Charged, Revm!ForecastBandwidth
  <1>8. \E how \in Revm!Budgets : Revm!Submit(ask, how)
    <2>1. ASSUME NEW a \in Revm!Sends, NEW how, Revm!TransferFunds(a, how) PROVE FALSE
      <3>1. last'.ask = a
        BY <2>1 DEF Revm!TransferFunds, Revm!Submit, Revm!Refuse, Revm!Report
      <3>2. QED
        BY <1>1, <3>1 DEF Revm!Sends
    <2>2. ASSUME NEW a, NEW how, Revm!Submit(a, how) PROVE a = ask
      BY <2>2 DEF Revm!Submit, Revm!Refuse, Revm!Report
    <2>3. ASSUME NEW a, Revm!Estimate(a) PROVE FALSE
      BY <2>3 DEF Revm!Estimate, Revm!Report
    <2>4. ASSUME NEW w, NEW n, Revm!SetBalance(w, n) PROVE FALSE
      <3>1. last'.ask.op = "none"
        BY <2>4 DEF Revm!SetBalance, Revm!Quiet
      <3>2. QED
        BY <1>1, <3>1
    <2>5. QED
      BY <2>1, <2>2, <2>3, <2>4 DEF Revm!RevmNext, Revm!CallValue, Revm!DeployCreate
  <1>9. PICK how \in Revm!Budgets : Revm!Submit(ask, how)
    BY <1>8
  <1>10. ~covered => GasPercent[vm] < 125 /\ Revm!Refund(ask) > 0
    <2>1. GasPercent[vm] \in Nat
      BY MockAssumption DEF IsRevm
    <2>2. QED
      BY <1>2, <2>1
  <1>11. SUFFICES /\ last'.how = "estimated" /\ covered => last'.ok = last.ok
                  /\ last'.ok => last.ok /\ last'.gas = last.gas /\ last'.bytes = last.bytes
    BY <1>10
  <1>12. CASE Revm!Resolve(ask, how) = {}
    <2>1. last'.how = how /\ last'.ok = FALSE
      BY <1>9, <1>12 DEF Revm!Submit, Revm!Refuse, Revm!Report
    <2>2. how = "estimated" => ~sim.ok
      BY <1>12 DEF Revm!Resolve, sim
    <2>3. QED
      BY <1>1, <1>3, <2>1, <2>2
  <1>13. CASE Revm!Resolve(ask, how) # {}
    <2>1. PICK limit \in Revm!Resolve(ask, how) :
            Revm!Report(ask, how, run(limit).ok, Revm!Charged(ask))
      BY <1>9, <1>13 DEF Revm!Submit, run
    <2>2. /\ last'.how = how /\ last'.ok = run(limit).ok
          /\ last'.gas = IF run(limit).ok THEN Revm!Gas(ask) ELSE 0
          /\ last'.bytes = IF run(limit).ok THEN Revm!Charged(ask) ELSE 0
      BY <2>1 DEF Revm!Report
    <2>3. how = "estimated" => sim.ok /\ limit = Revm!Headroom(Revm!Gas(ask))
      BY <2>1 DEF Revm!Resolve, sim
    <2>4. how = "estimated" /\ covered => last'.ok = last.ok
      <3> SUFFICES ASSUME how = "estimated", covered PROVE last'.ok = last.ok
        OBVIOUS
      <3>1. sim.ok = TRUE
        BY <1>3, <2>3
      <3>2. run(limit).ok
        BY <1>6, <2>3, <3>1
      <3>3. run(limit).ok = TRUE
        BY <1>4, <3>2
      <3>4. QED
        BY <1>1, <2>2, <3>1, <3>3
    <2>5. last'.ok => last.ok /\ last'.gas = last.gas /\ last'.bytes = last.bytes
      BY <1>1, <1>5, <1>7, <2>2
    <2>6. QED
      BY <2>2, <2>4, <2>5
  <1>14. QED
    BY <1>12, <1>13

(* On LiteSVM too, unless the very transaction, or the one the forecast     *)
(* would be, failed at this blockhash.                                      *)
LEMMA SvmForetells ==
    ASSUME vm = "svm", Svm!SvmNext, ForecastIsCurrent,
           last.how = "forecast", last' # last, last'.ask = last.ask, last'.how # "forecast"
    PROVE  /\ last'.how = "estimated" => last'.ok = last.ok \/ last'.again
           /\ last'.ok => (last.ok /\ last'.gas = last.gas) \/ last.again
  <1> DEFINE ask == last.ask
             can == bal[ask.from] >= Fee /\ IF ask.op = "transfer"
                                              THEN bal[ask.from] >= Fee + ask.value
                                              ELSE program = "loaded"
             tx(units) == Svm!Signed(ask, units)
  <1>1. /\ ask.op \in {"bump", "runaway", "capped", "transfer"}
        /\ last.ok = Svm!Simulated(ask)
        /\ last.gas = IF last.ok THEN Svm!Units(ask) ELSE 0
        /\ last.again <=> (ask.op # "capped" /\ Svm!Seen(tx(Svm!MaxUnits)))
    BY DEF ForecastIsCurrent, ForecastOps
  <1>2. /\ ask.op = "runaway" => Svm!Units(ask) = 1450
        /\ ask.op # "runaway" => Svm!Units(ask) \in {1200, 500, 1}
    BY <1>1 DEF Svm!Units
  <1>3. \A units : tx(units).ask = ask /\ tx(units).units = units
    BY DEF Svm!Signed
  <1> HIDE DEF tx
  <1>4. ASSUME NEW units \in Nat
        PROVE  /\ Svm!Cap(tx(units)) \in Nat /\ Svm!Cap(tx(units)) <= 1400
               /\ units <= 1400 => Svm!Cap(tx(units)) = units
    BY <1>3 DEF Svm!Cap, Svm!MaxUnits
  <1>5. \A units :
          (Svm!Included(tx(units)) /\ Svm!Succeeds(tx(units))) <=>
            ~Svm!Seen(tx(units)) /\ Svm!Cap(tx(units)) >= Svm!Units(ask) /\ can
    BY <1>3 DEF Svm!Included, Svm!Succeeds
  <1>6. /\ last.ok \in BOOLEAN
        /\ last.ok <=>
             ask.op \notin {"capped", "runaway"} /\ ~Svm!Seen(tx(1400)) /\ can
    <2>1. last.ok \in BOOLEAN
      BY <1>1 DEF Svm!Simulated
    <2>2. Svm!Simulated(ask) <=>
            ask.op # "capped" /\ Svm!Included(tx(1400)) /\ Svm!Succeeds(tx(1400))
      BY DEF Svm!Simulated, Svm!MaxUnits, tx
    <2>3. Svm!Cap(tx(1400)) = 1400
      BY <1>4
    <2>4. 1400 >= Svm!Units(ask) <=> ask.op # "runaway"
      BY <1>2
    <2> HIDE DEF can
    <2>5. Svm!Simulated(ask) <=>
            ask.op # "capped" /\ ~Svm!Seen(tx(1400)) /\ 1400 >= Svm!Units(ask) /\ can
      BY <1>5, <2>2, <2>3
    <2>6. QED
      BY <1>1, <2>1, <2>4, <2>5
  <1> HIDE DEF can
  <1>7. ASSUME NEW units \in Nat, Svm!Included(tx(units)), Svm!Succeeds(tx(units)), ask.op # "capped"
        PROVE  last.ok \/ last.again
    <2>1. can /\ ask.op # "runaway"
      BY <1>2, <1>4, <1>5, <1>7
    <2>2. ~last.again => ~Svm!Seen(tx(1400))
      <3>1. last.again <=> (ask.op # "capped" /\ Svm!Seen(tx(1400)))
        BY <1>1 DEF Svm!MaxUnits
      <3>2. QED
        BY <1>7, <3>1
    <2>3. QED
      BY <1>6, <1>7, <2>1, <2>2
  <1>8. \E how \in Svm!Budgets : Svm!Send(ask, how)
    <2>1. ASSUME NEW a, NEW how, Svm!Send(a, how) PROVE a = ask
      BY <2>1 DEF Svm!Send, Svm!Report
    <2>2. ASSUME NEW a, Svm!Estimate(a) PROVE FALSE
      BY <2>2 DEF Svm!Estimate, Svm!Report
    <2>3. ASSUME last' = Svm!Quiet PROVE FALSE
      <3>1. last'.ask.op = "none"
        BY <2>3 DEF Svm!Quiet
      <3>2. QED
        BY <1>1, <3>1
    <2>4. QED
      BY <2>1, <2>2, <2>3
      DEF Svm!SvmNext, Svm!AddProgram, Svm!WipeProgram, Svm!WipeData, Svm!SendTransaction,
          Svm!TransferFunds, Svm!SetBalance
  <1>9. PICK how \in Svm!Budgets : Svm!Send(ask, how)
    BY <1>8
  <1>10. Svm!Resolve(ask, how) \subseteq Nat
    <2>1. CASE how = "estimated"
      <3>1. Svm!Simulated(ask) => Svm!Units(ask) \in {1200, 500, 1}
        BY <1>1, <1>2, <1>6
      <3>2. QED
        BY <2>1, <3>1, HeadroomSuffices DEF Svm!Resolve
    <2>2. CASE how # "estimated"
      BY <2>2, MockAssumption DEF Svm!Resolve, Svm!Budgets
    <2>3. QED
      BY <2>1, <2>2
  <1>11. ASSUME ask.op = "capped" \/ Svm!Resolve(ask, how) = {}, Svm!Report(ask, how, FALSE, FALSE)
         PROVE  /\ last'.how = "estimated" => last'.ok = last.ok
                /\ last'.ok = FALSE
    <2>1. last'.how = how /\ last'.ok = FALSE
      BY <1>11 DEF Svm!Report
    <2>2. ask.op = "capped" => last.ok = FALSE
      BY <1>6
    <2>3. how = "estimated" /\ Svm!Resolve(ask, how) = {} => last.ok = FALSE
      BY <1>1, <1>6 DEF Svm!Resolve
    <2>4. QED
      BY <1>11, <2>1, <2>2, <2>3
  <1>12. ASSUME ask.op # "capped", NEW units \in Svm!Resolve(ask, how), how = "estimated"
         PROVE  /\ last.ok = TRUE
                /\ (Svm!Included(tx(units)) /\ Svm!Succeeds(tx(units))) \/ Svm!Seen(tx(units))
    <2>1. Svm!Simulated(ask) /\ units = Svm!Adjusted(Svm!Units(ask))
      BY <1>12 DEF Svm!Resolve
    <2>2. last.ok = TRUE
      BY <1>1, <1>6, <2>1
    <2>3. units >= Svm!Units(ask) /\ units <= 1400
      <3>1. Svm!Units(ask) \in {1200, 500, 1}
        BY <1>2, <1>6, <2>2
      <3>2. QED
        BY <2>1, <3>1, HeadroomSuffices DEF Svm!MaxUnits
    <2>4. Svm!Cap(tx(units)) = units
      BY <1>4, <1>10, <1>12, <2>3
    <2>5. QED
      BY <1>5, <1>6, <2>2, <2>3, <2>4
  <1>13. ASSUME ask.op # "capped", NEW units \in Svm!Resolve(ask, how),
                ~Svm!Included(tx(units)), Svm!Report(ask, how, FALSE, Svm!Seen(tx(units)))
         PROVE  /\ last'.how = "estimated" => last'.again
                /\ last'.ok = FALSE
    BY <1>12, <1>13 DEF Svm!Report
  <1>14. ASSUME ask.op # "capped", NEW units \in Svm!Resolve(ask, how), Svm!Included(tx(units)),
                Svm!Succeeds(tx(units)), Svm!Report(ask, how, TRUE, FALSE)
         PROVE  /\ last'.how = "estimated" => last'.ok = last.ok
                /\ (last.ok /\ last'.gas = last.gas) \/ last.again
    <2>1. last'.ok = TRUE /\ last'.how = how /\ last'.gas = Svm!Units(ask)
      BY <1>14 DEF Svm!Report
    <2>2. how = "estimated" => last.ok = TRUE
      BY <1>12, <1>14
    <2>3. last.ok \/ last.again
      BY <1>7, <1>10, <1>14
    <2>4. QED
      BY <1>1, <2>1, <2>2, <2>3
  <1>15. ASSUME ask.op # "capped", NEW units \in Svm!Resolve(ask, how), Svm!Included(tx(units)),
                ~Svm!Succeeds(tx(units)), Svm!Report(ask, how, FALSE, FALSE)
         PROVE  last'.how # "estimated" /\ last'.ok = FALSE
    <2>1. ~Svm!Seen(tx(units))
      BY <1>15 DEF Svm!Included
    <2>2. how # "estimated"
      BY <1>12, <1>15, <2>1
    <2>3. QED
      BY <1>15, <2>2 DEF Svm!Report
  <1>16. QED
    BY <1>6, <1>9, <1>11, <1>13, <1>14, <1>15 DEF Svm!Send, tx

(* estimate_*: a forecast tells what the operation then does.               *)
THEOREM ForecastsComeTrue == Spec => ForecastsForetell
  <1>1. ASSUME MockInv, [Next]_vars, vm # "cw", last.how = "forecast", last' # last,
               last'.ask = last.ask, last'.how # "forecast"
        PROVE  /\ last'.how = "estimated" =>
                    \/ last'.ok = last.ok
                    \/ IsRevm /\ GasPercent[vm] < 125 /\ Revm!Refund(last.ask) > 0
                    \/ vm = "svm" /\ last'.again
               /\ last'.ok =>
                    \/ /\ last.ok /\ last'.gas = last.gas
                       /\ IsRevm => last'.bytes = last.bytes
                    \/ vm = "svm" /\ last.again
    <2>1. \/ IsRevm /\ Revm!RevmNext
          \/ vm = "svm" /\ Svm!SvmNext
      BY <1>1 DEF Next, vars, AdvanceBlocks, AdvanceAll
    <2>2. CASE IsRevm /\ Revm!RevmNext
      BY <1>1, <2>2, RevmForetells DEF MockInv
    <2>3. CASE vm = "svm" /\ Svm!SvmNext
      BY <1>1, <2>3, SvmForetells DEF MockInv, IsRevm
    <2>4. QED
      BY <2>1, <2>2, <2>3
  <1>2. MockInv /\ [Next]_vars =>
          [(/\ vm # "cw" /\ last.how = "forecast" /\ last' # last
            /\ last'.ask = last.ask /\ last'.how # "forecast") =>
             /\ last'.how = "estimated" =>
                  \/ last'.ok = last.ok
                  \/ IsRevm /\ GasPercent[vm] < 125 /\ Revm!Refund(last.ask) > 0
                  \/ vm = "svm" /\ last'.again
             /\ last'.ok =>
                  \/ /\ last.ok /\ last'.gas = last.gas
                     /\ IsRevm => last'.bytes = last.bytes
                  \/ vm = "svm" /\ last.again]_vars
    BY <1>1
  <1>3. QED
    BY <1>2, InvariantHolds, PTL DEF Spec, ForecastsForetell
-----------------------------------------------------------------------------
(* A contract, and what the messages of a batch lead from and to.           *)
Contract == [code : Int, admin : Wallet, count : Int]

States ==
    {s \in [bal : [Wallet -> Int], contracts : Seq(Contract)] :
       DOMAIN s.contracts = DOMAIN contracts}

Unencodable == [op |-> "unencodable"]

(* What a builder may be asked for: what is a message stays one.            *)
Requests == Cw!Messages \cup {[op |-> "raw"], Unencodable}

(* The members of a batch are those it was asked for, unless one could not  *)
(* be encoded.                                                              *)
BatchInv ==
    vm = "cw" =>
      /\ codes \in Nat /\ Cw!State \in States
      /\ asked \in Seq(Requests)
      /\ ~deferred => batch = asked /\ \A i \in DOMAIN asked : asked[i] # Unencodable
-----------------------------------------------------------------------------
(* Induction over the numbers up to a bound, for a set.                     *)
LEMMA UpTo ==
    ASSUME NEW m \in Nat, NEW S, 0 \in S, \A n \in 1 .. m : n - 1 \in S => n \in S
    PROVE  0 .. m \subseteq S
<1> DEFINE T == {n \in 0 .. m : n \notin S}
<1>1. SUFFICES ASSUME T # {} PROVE FALSE
  OBVIOUS
<1>2. T \subseteq Nat
  OBVIOUS
<1>3. PICK n \in T : \A k \in T : ~ (<<k, n>> \in OpToRel(<, Nat))
  BY <1>1, <1>2, NatLessThanWellFounded, WFMin, Zenon
<1>4. \A k \in T : ~ (k < n)
  BY <1>2, <1>3 DEF OpToRel
<1>5. n \in 1 .. m /\ n - 1 \in 0 .. m /\ n - 1 < n
  OBVIOUS
<1> QED
  BY <1>4, <1>5

(* The fold of a list of messages: of the last one of a set of them, on     *)
(* what the rest of the set leaves.                                         *)
Top(D) == CHOOSE i \in D : \A j \in D : i >= j

RunOf(ms, sender, runs, D) ==
    IF D = {} THEN {Cw!State}
    ELSE UNION {Cw!Applied(ms[Top(D)], sender, s) : s \in runs[D \ {Top(D)}]}

RunStep(ms, sender, runs) == [D \in SUBSET DOMAIN ms |-> RunOf(ms, sender, runs, D)]

Runs(ms, sender) == CHOOSE runs : runs = RunStep(ms, sender, runs)

(* What a list of messages leaves is that fold.                             *)
LEMMA AllAppliedIsRun ==
    ASSUME NEW ms, NEW sender
    PROVE  Cw!AllApplied(ms, sender) = Runs(ms, sender)[DOMAIN ms]
  BY DEF Cw!AllApplied, Cw!FoldLeft, Cw!MapThenFoldSet, Cw!Max, Runs, RunStep, RunOf, Top

(* A set of positions has a last one, and without it is one of earlier ones.*)
LEMMA LastOfSome ==
    ASSUME NEW m \in Nat, NEW n \in 0 .. m, NEW D \in SUBSET (1 .. n), D # {}
    PROVE  Top(D) \in D /\ n \in 1 .. m /\ D \ {Top(D)} \in SUBSET (1 .. n - 1)
<1> DEFINE S == {k \in 0 .. m : \A E \in SUBSET (1 .. k) :
                    E # {} => \E i \in E : \A j \in E : i >= j}
<1>1. 0 \in S
  <2>1. \A E \in SUBSET (1 .. 0) : E = {}
    OBVIOUS
  <2>2. \A E \in SUBSET (1 .. 0) : E # {} => \E i \in E : \A j \in E : i >= j
    BY <2>1, Zenon
  <2>3. 0 \in 0 .. m
    OBVIOUS
  <2>4. QED
    BY <2>2, <2>3, Zenon
<1>2. ASSUME NEW k \in 1 .. m, k - 1 \in S PROVE k \in S
  <2>1. ASSUME NEW E \in SUBSET (1 .. k), E # {} PROVE \E i \in E : \A j \in E : i >= j
    <3>1. CASE k \in E
      BY <3>1
    <3>2. CASE k \notin E
      <4>1. E \in SUBSET (1 .. k - 1)
        BY <3>2
      <4>2. QED
        BY <1>2, <2>1, <4>1
    <3>3. QED
      BY <3>1, <3>2
  <2>2. QED
    BY <2>1
<1>3. n \in S
  <2> HIDE DEF S
  <2>1. 0 .. m \subseteq S
    BY <1>1, <1>2, UpTo
  <2>2. QED
    BY <2>1
<1>4. \E i \in D : \A j \in D : i >= j
  BY <1>3
<1>5. Top(D) \in D /\ \A j \in D : Top(D) >= j
  BY <1>4 DEF Top
<1>6. D \subseteq 1 .. n /\ n \in Nat
  OBVIOUS
<1>7. \A j \in D \ {Top(D)} : j \in 1 .. n - 1
  <2>1. SUFFICES ASSUME NEW j \in D, j # Top(D) PROVE j \in 1 .. n - 1
    OBVIOUS
  <2>2. j \in 1 .. n /\ Top(D) \in 1 .. n /\ Top(D) >= j
    BY <1>5, <1>6
  <2>3. QED
    BY <1>6, <2>1, <2>2
<1>8. n \in 1 .. m
  <2>1. Top(D) \in 1 .. n
    BY <1>5, <1>6
  <2>2. QED
    BY <2>1
<1>9. QED
  BY <1>5, <1>7, <1>8

(* There are such runs.                                                     *)
LEMMA RunsExist ==
    ASSUME NEW ms \in Seq(Cw!Messages), NEW sender
    PROVE  \A D \in SUBSET DOMAIN ms : Runs(ms, sender)[D] = RunOf(ms, sender, Runs(ms, sender), D)
<1> DEFINE m == Len(ms)
           Good(f, n) == \A D \in SUBSET (1 .. n) : f[D] = RunOf(ms, sender, f, D)
           S == {n \in 0 .. m : \E f : Good(f, n)}
<1>1. m \in Nat /\ DOMAIN ms = 1 .. m
  OBVIOUS
<1>2. 0 \in S
  <2> DEFINE f == [D \in SUBSET DOMAIN ms |-> {Cw!State}]
  <2>1. Good(f, 0)
    BY DEF RunOf
  <2> HIDE DEF f, Good
  <2>2. \E h : Good(h, 0)
    BY <2>1
  <2>3. QED
    BY <1>1, <2>2
<1>3. ASSUME NEW n \in 1 .. m, n - 1 \in S PROVE n \in S
  <2>1. PICK f : Good(f, n - 1)
    BY <1>3
  <2> DEFINE g == RunStep(ms, sender, f)
  <2>2. ASSUME NEW D \in SUBSET (1 .. n) PROVE g[D] = RunOf(ms, sender, f, D)
    BY <1>1 DEF RunStep
  <2> HIDE DEF g
  <2>3. ASSUME NEW D \in SUBSET (1 .. n) PROVE g[D] = RunOf(ms, sender, g, D)
    <3>1. CASE D = {}
      BY <2>2, <3>1 DEF RunOf
    <3>2. CASE D # {}
      <4> DEFINE r == D \ {Top(D)}
      <4>1. r \in SUBSET (1 .. n - 1) /\ r \in SUBSET (1 .. n)
        BY <1>1, <3>2, LastOfSome
      <4>2. f[r] = RunOf(ms, sender, f, r)
        BY <2>1, <4>1
      <4>3. f[r] = g[r]
        BY <2>2, <4>1, <4>2
      <4>4. RunOf(ms, sender, f, D) = RunOf(ms, sender, g, D)
        BY <4>3 DEF RunOf
      <4>5. QED
        BY <2>2, <4>4
    <3>3. QED
      BY <3>1, <3>2
  <2>4. Good(g, n)
    BY <2>3
  <2> HIDE DEF Good
  <2>5. \E h : Good(h, n)
    BY <2>4
  <2>6. QED
    BY <1>1, <2>5
<1>4. m \in S
  <2> HIDE DEF S
  <2>1. 0 .. m \subseteq S
    BY <1>1, <1>2, <1>3, UpTo
  <2>2. QED
    BY <1>1, <2>1
<1>5. PICK f : Good(f, m)
  BY <1>4
<1> DEFINE g == [D \in SUBSET DOMAIN ms |-> f[D]]
<1>6. ASSUME NEW D \in SUBSET DOMAIN ms PROVE g[D] = RunOf(ms, sender, g, D)
  <2>1. f[D] = RunOf(ms, sender, f, D)
    BY <1>1, <1>5
  <2>2. g[D \ {Top(D)}] = f[D \ {Top(D)}]
    OBVIOUS
  <2> HIDE DEF Good
  <2>3. RunOf(ms, sender, f, D) = RunOf(ms, sender, g, D)
    BY <2>2 DEF RunOf
  <2>4. QED
    BY <2>1, <2>3
<1>7. g = RunStep(ms, sender, g)
  <2> DEFINE h == RunStep(ms, sender, g)
  <2>1. h = [D \in SUBSET DOMAIN ms |-> h[D]] /\ g = [D \in SUBSET DOMAIN ms |-> g[D]]
    BY DEF RunStep
  <2>2. \A D \in SUBSET DOMAIN ms : g[D] = h[D]
    BY <1>6 DEF RunStep
  <2> HIDE DEF g, h
  <2>3. g = h
    BY <2>1, <2>2
  <2>4. QED
    BY <2>3 DEF h
<1> HIDE DEF g
<1>8. Runs(ms, sender) = RunStep(ms, sender, Runs(ms, sender))
  BY <1>7 DEF Runs
<1>9. QED
  <2> DEFINE runs == Runs(ms, sender)
  <2>1. runs = RunStep(ms, sender, runs)
    BY <1>8
  <2> HIDE DEF runs
  <2>2. \A D \in SUBSET DOMAIN ms : runs[D] = RunStep(ms, sender, runs)[D]
    BY <2>1
  <2>3. \A D \in SUBSET DOMAIN ms : RunStep(ms, sender, runs)[D] = RunOf(ms, sender, runs, D)
    BY DEF RunStep
  <2>4. QED
    BY <2>2, <2>3 DEF runs

(* A contract that counts a call, or moves to another code, is one.         *)
LEMMA OneMore ==
    ASSUME NEW c \in Contract
    PROVE  /\ [c EXCEPT !.count = @ + 1] \in Contract
           /\ \A n \in Int : [c EXCEPT !.code = n] \in Contract
  BY DEF Contract

(* A message of the chain leaves its contracts in place.                    *)
LEMMA AppliedStays ==
    ASSUME NEW m \in Cw!Messages, NEW sender \in Wallet, NEW s \in States
    PROVE  Cw!Applied(m, sender, s) \subseteq States
<1>0. Value \subseteq Int
  BY MockAssumption
<1>1. PICK b \in [Wallet -> Int], k \in Seq(Contract) :
         s = [bal |-> b, contracts |-> k] /\ DOMAIN k = DOMAIN contracts
  <2>1. /\ s.bal \in [Wallet -> Int] /\ s.contracts \in Seq(Contract)
        /\ s = [bal |-> s.bal, contracts |-> s.contracts] /\ DOMAIN s.contracts = DOMAIN contracts
    BY DEF States
  <2>2. QED
    BY <2>1
<1>2. ASSUME NEW b1 \in [Wallet -> Int], NEW k1 \in Seq(Contract), DOMAIN k1 = DOMAIN contracts
      PROVE  [bal |-> b1, contracts |-> k1] \in States
  BY <1>2 DEF States
<1>3. ASSUME NEW f \in [Wallet -> Int], NEW w \in Wallet, NEW x \in Int
      PROVE  [f EXCEPT ![w] = @ - x] \in [Wallet -> Int] /\ [f EXCEPT ![w] = @ + x] \in [Wallet -> Int]
  OBVIOUS
<1>4. ASSUME NEW i \in DOMAIN contracts, NEW c \in Contract
      PROVE  /\ k[i] \in Contract /\ [k EXCEPT ![i] = c] \in Seq(Contract)
             /\ DOMAIN [k EXCEPT ![i] = c] = DOMAIN contracts
  BY <1>1
<1>5. CASE m.op = "fail"
  BY <1>5 DEF Cw!Applied
<1>6. CASE m.op = "bump"
  <2>1. m.contract \in DOMAIN contracts /\ m.funds \in Int
    BY <1>0, <1>6 DEF Cw!Messages, Cw!Executes, Cw!Sends, Cw!Migrates
  <2> DEFINE b1 == [b EXCEPT ![sender] = @ - m.funds]
             c == [k[m.contract] EXCEPT !.count = @ + 1]
             k1 == [k EXCEPT ![m.contract] = c]
  <2>2. b1 \in [Wallet -> Int]
    BY <1>3, <2>1
  <2>3. c \in Contract
    <3>1. k[m.contract] \in Contract
      BY <1>1, <2>1
    <3>2. QED
      BY <3>1, OneMore
  <2>4. k1 \in Seq(Contract) /\ DOMAIN k1 = DOMAIN contracts
    <3> HIDE DEF c
    <3>1. QED
      BY <1>4, <2>1, <2>3
  <2>5. Cw!Applied(m, sender, s) \subseteq {[bal |-> b1, contracts |-> k1]}
    <3> DEFINE t == [s EXCEPT !.bal[sender] = @ - m.funds,
                              !.contracts[m.contract].count = @ + 1]
    <3>1. t = [bal |-> b1, contracts |-> k1]
      <4> DEFINE paid == [s EXCEPT !.bal[sender] = @ - m.funds]
      <4>1. paid = [bal |-> b1, contracts |-> k]
        <5>1. s.bal = b
          BY <1>1
        <5>2. paid = [s EXCEPT !.bal = [s.bal EXCEPT ![sender] = @ - m.funds]]
          BY <1>1
        <5>3. paid = [s EXCEPT !.bal = b1]
          BY <5>1, <5>2
        <5> HIDE DEF b1
        <5>4. [s EXCEPT !.bal = b1] = [bal |-> b1, contracts |-> k]
          BY <1>1
        <5>5. QED
          BY <5>3, <5>4
      <4>2. t = [paid EXCEPT !.contracts[m.contract].count = @ + 1]
        BY <1>1
      <4>3. [paid EXCEPT !.contracts[m.contract].count = @ + 1] =
              [paid EXCEPT !.contracts[m.contract] = [paid.contracts[m.contract] EXCEPT !.count = @ + 1]]
        BY <4>1
      <4>4. paid.contracts[m.contract] = k[m.contract]
        BY <4>1
      <4> HIDE DEF paid
      <4>5. [paid EXCEPT !.contracts[m.contract] = c] = [bal |-> b1, contracts |-> k1]
        <5> HIDE DEF c, b1
        <5>1. QED
          BY <4>1
      <4>6. QED
        BY <4>2, <4>3, <4>4, <4>5
    <3>2. Cw!Applied(m, sender, s) \subseteq {t}
      BY <1>6 DEF Cw!Applied
    <3>3. QED
      BY <3>1, <3>2
  <2> HIDE DEF b1, k1
  <2>6. QED
    BY <1>2, <2>2, <2>4, <2>5
<1>7. CASE m.op = "send"
  <2>1. m.to \in Wallet /\ m.amount \in Int
    BY <1>0, <1>7 DEF Cw!Messages, Cw!Executes, Cw!Sends, Cw!Migrates
  <2> DEFINE b1 == [b EXCEPT ![sender] = @ - m.amount]
             b2 == [b1 EXCEPT ![m.to] = @ + m.amount]
  <2>2. b1 \in [Wallet -> Int]
    BY <1>3, <2>1
  <2> HIDE DEF b1
  <2>3. b2 \in [Wallet -> Int]
    BY <1>3, <2>1, <2>2
  <2>4. Cw!Applied(m, sender, s) \subseteq {[s EXCEPT !.bal = b2]}
    <3>1. s.bal = b
      BY <1>1
    <3>2. QED
      BY <1>7, <3>1 DEF Cw!Applied, b1
  <2> HIDE DEF b2
  <2>5. [s EXCEPT !.bal = b2] = [bal |-> b2, contracts |-> k]
    BY <1>1
  <2>6. [bal |-> b2, contracts |-> k] \in States
    BY <1>1, <1>2, <2>3
  <2>7. QED
    BY <2>4, <2>5, <2>6
<1>8. CASE m.op = "migrate"
  <2>1. m.contract \in DOMAIN contracts /\ m.code \in Int
    BY <1>8 DEF Cw!Messages, Cw!Executes, Cw!Sends, Cw!Migrates
  <2> DEFINE c == [k[m.contract] EXCEPT !.code = m.code]
             k1 == [k EXCEPT ![m.contract] = c]
  <2>2. c \in Contract
    <3>1. k[m.contract] \in Contract
      BY <1>1, <2>1
    <3>2. QED
      BY <2>1, <3>1, OneMore
  <2>3. k1 \in Seq(Contract) /\ DOMAIN k1 = DOMAIN contracts
    <3> HIDE DEF c
    <3>1. QED
      BY <1>4, <2>1, <2>2
  <2>4. Cw!Applied(m, sender, s) \subseteq {[bal |-> b, contracts |-> k1]}
    BY <1>1, <1>8 DEF Cw!Applied
  <2> HIDE DEF k1
  <2>5. QED
    BY <1>1, <1>2, <2>3, <2>4
<1>9. m.op \in {"fail", "bump", "send", "migrate"}
  BY DEF Cw!Messages, Cw!Executes, Cw!Sends, Cw!Migrates
<1>10. QED
  BY <1>5, <1>6, <1>7, <1>8, <1>9

(* So does a list of them.                                                  *)
LEMMA AllAppliedStays ==
    ASSUME NEW ms \in Seq(Cw!Messages), NEW sender \in Wallet, Cw!State \in States
    PROVE  Cw!AllApplied(ms, sender) \subseteq States
<1> DEFINE m == Len(ms)
           runs == Runs(ms, sender)
           S == {n \in 0 .. m : \A D \in SUBSET (1 .. n) : runs[D] \subseteq States}
<1>1. m \in Nat /\ DOMAIN ms = 1 .. m
  OBVIOUS
<1>2. \A D \in SUBSET (1 .. m) : runs[D] = RunOf(ms, sender, runs, D)
  BY <1>1, RunsExist
<1> HIDE DEF runs
<1>3. 0 \in S
  <2>1. \A D \in SUBSET (1 .. 0) : D = {} /\ D \in SUBSET (1 .. m)
    BY <1>1
  <2>2. RunOf(ms, sender, runs, {}) \subseteq States
    BY DEF RunOf
  <2>3. \A D \in SUBSET (1 .. 0) : runs[D] \subseteq States
    BY <1>2, <2>1, <2>2
  <2>4. QED
    BY <1>1, <2>3
<1>4. ASSUME NEW n \in 1 .. m, n - 1 \in S PROVE n \in S
  <2>1. ASSUME NEW D \in SUBSET (1 .. n) PROVE runs[D] \subseteq States
    <3>1. runs[D] = RunOf(ms, sender, runs, D)
      BY <1>1, <1>2
    <3>2. CASE D = {}
      BY <3>1, <3>2 DEF RunOf
    <3>3. CASE D # {}
      <4> DEFINE r == D \ {Top(D)}
      <4>1. Top(D) \in D /\ r \in SUBSET (1 .. n - 1)
        <5>1. n \in 0 .. m
          BY <1>1
        <5>2. QED
          BY <1>1, <2>1, <3>3, <5>1, LastOfSome
      <4>2. runs[r] \subseteq States
        BY <1>4, <4>1
      <4>3. ms[Top(D)] \in Cw!Messages
        <5>1. Top(D) \in 1 .. m
          <6>1. D \subseteq 1 .. m
            BY <1>1
          <6>2. QED
            BY <4>1, <6>1
        <5>2. QED
          BY <1>1, <5>1
      <4>4. \A s \in runs[r] : Cw!Applied(ms[Top(D)], sender, s) \subseteq States
        BY <4>2, <4>3, AppliedStays
      <4>5. runs[D] = UNION {Cw!Applied(ms[Top(D)], sender, s) : s \in runs[r]}
        BY <3>1, <3>3 DEF RunOf
      <4> HIDE DEF r
      <4>6. QED
        BY <4>4, <4>5
    <3>4. QED
      BY <3>2, <3>3
  <2>2. QED
    BY <1>1, <2>1
<1>5. m \in S
  <2> HIDE DEF S
  <2>1. 0 .. m \subseteq S
    BY <1>1, <1>3, <1>4, UpTo
  <2>2. QED
    BY <1>1, <2>1
<1>6. runs[DOMAIN ms] \subseteq States
  BY <1>1, <1>5
<1>7. QED
  BY <1>6, AllAppliedIsRun DEF runs

(* What could be encoded, and mapped, is what was asked for.                *)
LEMMA WholeBatch ==
    ASSUME BatchInv, vm = "cw", ~deferred, ~Cw!HasRaw
    PROVE  batch = asked /\ batch \in Seq(Cw!Messages)
<1>1. batch = asked /\ asked \in Seq(Requests)
  BY DEF BatchInv
<1>2. ASSUME NEW i \in DOMAIN asked PROVE asked[i] \in Cw!Messages
  <2>1. asked[i] \in Requests /\ asked[i] # Unencodable
    BY <1>1 DEF BatchInv
  <2>2. asked[i].op # "raw"
    BY <1>1 DEF Cw!HasRaw
  <2>3. QED
    BY <2>1, <2>2 DEF Requests
<1>3. QED
  BY <1>1, <1>2

(* A transaction runs every message, or leaves the chain as it is.          *)
LEMMA TransactKeeps ==
    ASSUME BatchInv, vm = "cw", NEW ms \in Seq(Cw!Messages), NEW sender \in Wallet,
           Cw!Transact(ms, sender)
    PROVE  /\ Cw!AllApplied(ms, sender) = {} => UNCHANGED Cw!chain
           /\ Cw!AllApplied(ms, sender) # {} =>
                [bal |-> bal', contracts |-> contracts'] \in Cw!AllApplied(ms, sender)
           /\ [bal |-> bal', contracts |-> contracts'] \in States
           /\ codes' = codes
<1>1. Cw!State \in States
  BY DEF BatchInv
<1>2. CASE Cw!AllApplied(ms, sender) = {}
  <2>1. UNCHANGED Cw!chain
    BY <1>2 DEF Cw!Transact
  <2>2. QED
    BY <1>1, <1>2, <2>1 DEF Cw!State, Cw!chain
<1>3. CASE Cw!AllApplied(ms, sender) # {}
  <2>1. PICK s \in Cw!AllApplied(ms, sender) :
            bal' = s.bal /\ contracts' = s.contracts /\ codes' = codes
    BY <1>3 DEF Cw!Transact
  <2>2. s \in States
    BY <1>1, AllAppliedStays
  <2>3. s = [bal |-> s.bal, contracts |-> s.contracts]
    BY <2>2 DEF States
  <2>4. QED
    BY <1>3, <2>1, <2>2, <2>3
<1>4. QED
  BY <1>2, <1>3

(* A message stays one while codes and contracts only come.                 *)
LEMMA RequestsStay ==
    ASSUME codes \in Nat, codes' \in Nat, codes <= codes',
           DOMAIN contracts \subseteq DOMAIN contracts',
           NEW list \in Seq(Requests)
    PROVE  /\ list \in Seq(Requests')
           /\ Cw!Messages \subseteq Cw!Messages' /\ Requests \subseteq Requests'
<1>1. /\ Cw!Executes \subseteq Cw!Executes'
      /\ Cw!Migrates \subseteq Cw!Migrates'
      /\ Cw!Sends \subseteq Cw!Sends'
  BY DEF Cw!Executes, Cw!Migrates, Cw!Sends
<1>2. Cw!Messages \subseteq Cw!Messages'
  BY <1>1 DEF Cw!Messages
<1>3. Requests \subseteq Requests'
  BY <1>2 DEF Requests, Unencodable
<1>4. QED
  BY <1>2, <1>3

(* What leaves the builder and the contracts in place keeps the batch.      *)
LEMMA BatchStays ==
    ASSUME BatchInv, vm = "cw", UNCHANGED Cw!builder, codes' \in Nat, codes <= codes',
           DOMAIN contracts \subseteq DOMAIN contracts', Cw!State' \in States'
    PROVE  BatchInv'
<1>1. asked \in Seq(Requests')
  BY RequestsStay DEF BatchInv
<1>2. asked' = asked /\ batch' = batch /\ deferred' = deferred
  BY DEF Cw!builder
<1>3. QED
  BY <1>1, <1>2 DEF BatchInv, Unencodable

(* So does a transaction.                                                   *)
LEMMA TransactStays ==
    ASSUME BatchInv, vm = "cw", NEW ms \in Seq(Cw!Messages), NEW sender \in Wallet,
           Cw!Transact(ms, sender), UNCHANGED Cw!builder
    PROVE  BatchInv'
<1>1. /\ [bal |-> bal', contracts |-> contracts'] \in States
      /\ codes' = codes
  BY TransactKeeps
<1>2. DOMAIN contracts' = DOMAIN contracts
  BY <1>1 DEF States
<1>3. Cw!State' \in States'
  BY <1>1, <1>2 DEF States, Cw!State
<1>4. codes \in Nat
  BY DEF BatchInv
<1>5. QED
  BY <1>1, <1>2, <1>3, <1>4, BatchStays

(* And a member that joins it.                                              *)
LEMMA JoiningKeeps ==
    ASSUME BatchInv, vm = "cw", NEW m \in Requests, Cw!Joins(m),
           \/ m # Unencodable /\ batch' = Append(batch, m) /\ UNCHANGED deferred
           \/ deferred'
    PROVE  BatchInv'
<1>1. asked' = Append(asked, m) /\ UNCHANGED Cw!chain
  BY DEF Cw!Joins
<1>2. codes' = codes /\ bal' = bal /\ contracts' = contracts
  BY <1>1 DEF Cw!chain
<1>3. asked' \in Seq(Requests) /\ asked \in Seq(Requests) /\ codes \in Nat
  BY <1>1 DEF BatchInv
<1>4. asked' \in Seq(Requests')
  BY <1>2, <1>3, RequestsStay
<1>5. Cw!State' \in States'
  BY <1>2 DEF BatchInv, Cw!State, States
<1>6. ~deferred' => batch' = asked' /\ \A i \in DOMAIN asked' : asked'[i] # Unencodable
  BY <1>1, <1>3 DEF BatchInv
<1>7. QED
  BY <1>2, <1>3, <1>4, <1>5, <1>6 DEF BatchInv, Unencodable

(* Every step of the chain keeps the batch.                                 *)
LEMMA BatchInvariant ==
    ASSUME BatchInv, [Next]_vars
    PROVE  BatchInv'
<1>1. SUFFICES ASSUME vm = "cw", vm' = vm PROVE BatchInv'
  <2>1. vm' = vm
    BY DEF Next, vars, AdvanceBlocks, AdvanceAll
  <2>2. QED
    BY <1>1, <2>1 DEF BatchInv
<1>2. /\ codes \in Nat /\ Cw!State \in States /\ asked \in Seq(Requests)
      /\ bal \in [Wallet -> Int] /\ contracts \in Seq(Contract)
  BY <1>1 DEF BatchInv, States, Cw!State
<1>3. ASSUME UNCHANGED <<bal, codes, contracts>>, UNCHANGED Cw!builder PROVE BatchInv'
  <2>1. Cw!State' \in States'
    BY <1>2, <1>3 DEF States, Cw!State
  <2>2. QED
    BY <1>1, <1>2, <1>3, <2>1, BatchStays
<1>4. CASE UNCHANGED <<bal, codes, contracts, batch, deferred, asked>>
  BY <1>3, <1>4 DEF Cw!builder
<1>5. CASE Cw!StoreCode
  <2>1. codes' = codes + 1 /\ UNCHANGED <<bal, contracts, Cw!builder>>
    BY <1>5 DEF Cw!StoreCode
  <2>2. Cw!State' \in States'
    BY <1>2, <2>1 DEF States, Cw!State
  <2>3. QED
    BY <1>1, <1>2, <2>1, <2>2, BatchStays
<1>6. ASSUME NEW w \in Wallet, Cw!ExecuteBatch(w) PROVE BatchInv'
  <2>1. UNCHANGED Cw!builder
    BY <1>6 DEF Cw!ExecuteBatch
  <2>2. CASE deferred \/ batch = <<>> \/ Cw!HasRaw
    BY <1>3, <1>6, <2>1, <2>2 DEF Cw!ExecuteBatch, Cw!chain
  <2>3. CASE ~(deferred \/ batch = <<>> \/ Cw!HasRaw)
    <3>1. Cw!Transact(batch, w)
      BY <1>6, <2>3 DEF Cw!ExecuteBatch
    <3>2. QED
      BY <1>1, <2>1, <2>3, <3>1, WholeBatch, TransactStays
  <2>4. QED
    BY <2>2, <2>3
<1>7. ASSUME NEW w \in Wallet, NEW c \in 1 .. codes, NEW n \in Value, Cw!Instantiate(c, w, n)
      PROVE  BatchInv'
  <2>1. CASE bal[w] < n
    BY <1>3, <1>7, <2>1 DEF Cw!Instantiate, Cw!chain
  <2>2. CASE ~(bal[w] < n)
    <3> DEFINE k == [code |-> c, admin |-> w, count |-> 0]
    <3>1. /\ bal' = [bal EXCEPT ![w] = @ - n] /\ contracts' = Append(contracts, k)
          /\ codes' = codes /\ UNCHANGED Cw!builder
      BY <1>7, <2>2 DEF Cw!Instantiate
    <3>2. n \in Int
      BY MockAssumption
    <3>3. k \in Contract
      BY <1>2 DEF Contract
    <3> HIDE DEF k
    <3>4. contracts' \in Seq(Contract) /\ DOMAIN contracts \subseteq DOMAIN contracts'
      BY <1>2, <3>1, <3>3
    <3>5. bal' \in [Wallet -> Int]
      BY <1>2, <3>1, <3>2
    <3>6. Cw!State' \in States'
      BY <3>4, <3>5 DEF States, Cw!State
    <3>7. QED
      BY <1>1, <1>2, <3>1, <3>4, <3>6, BatchStays
  <2>3. QED
    BY <2>1, <2>2
<1>8. ASSUME NEW w \in Wallet, NEW m \in Cw!Messages,
             Cw!ExecuteContract(m, w) \/ Cw!MigrateContract(m, w) \/ Cw!TransferFunds(m, w)
      PROVE  BatchInv'
  <2>1. Cw!Transact(<<m>>, w) /\ UNCHANGED Cw!builder
    BY <1>8 DEF Cw!ExecuteContract, Cw!MigrateContract, Cw!TransferFunds
  <2>2. <<m>> \in Seq(Cw!Messages)
    OBVIOUS
  <2>3. QED
    BY <1>1, <2>1, <2>2, TransactStays
<1>9. ASSUME NEW m \in Cw!Messages, Cw!Push(m) PROVE BatchInv'
  <2>1. m \in Requests
    BY DEF Requests
  <2>2. m # Unencodable
    BY DEF Unencodable, Cw!Messages, Cw!Executes, Cw!Sends, Cw!Migrates
  <2>3. QED
    BY <1>1, <1>9, <2>1, <2>2, JoiningKeeps DEF Cw!Push
<1>10. CASE Cw!PushRaw
  <2>1. [op |-> "raw"] \in Requests /\ [op |-> "raw"] # Unencodable
    BY DEF Requests, Unencodable
  <2>2. QED
    BY <1>1, <1>10, <2>1, JoiningKeeps DEF Cw!PushRaw
<1>11. CASE Cw!Defer
  <2>1. Unencodable \in Requests
    BY DEF Requests
  <2>2. QED
    BY <1>1, <1>11, <2>1, JoiningKeeps DEF Cw!Defer, Unencodable
<1>12. CASE Cw!NewBatch
  <2>1. /\ batch' = <<>> /\ asked' = <<>> /\ UNCHANGED <<bal, codes, contracts>>
    BY <1>12 DEF Cw!NewBatch, Cw!chain
  <2>2. Cw!State' \in States'
    BY <1>2, <2>1 DEF States, Cw!State
  <2>3. asked' \in Seq(Requests') /\ \A i \in DOMAIN asked' : asked'[i] # Unencodable
    BY <2>1
  <2>4. QED
    BY <1>2, <2>1, <2>2, <2>3 DEF BatchInv, Unencodable
<1>13. ASSUME NEW w \in Wallet, NEW n \in (Value \ {0}) \cup {Given} \cup {0}, Cw!SetBalance(w, n) PROVE BatchInv'
  <2>1. /\ bal' = [bal EXCEPT ![w] = n]
        /\ UNCHANGED <<codes, contracts>> /\ UNCHANGED Cw!builder
    BY <1>13 DEF Cw!SetBalance, Cw!builder
  <2>2. n \in Int
    BY MockAssumption
  <2>3. bal' \in [Wallet -> Int]
    BY <1>2, <2>1, <2>2
  <2>4. Cw!State' \in States'
    BY <1>2, <2>1, <2>3 DEF States, Cw!State
  <2>5. QED
    BY <1>1, <1>2, <2>1, <2>4, BatchStays
<1>14. CASE Cw!CwNext
  BY <1>5, <1>6, <1>7, <1>8, <1>9, <1>10, <1>11, <1>12, <1>13, <1>14 DEF Cw!CwNext
<1>15. QED
  BY <1>1, <1>4, <1>14 DEF Next, vars, AdvanceBlocks, AdvanceAll, chain, cwVars, IsRevm

(* execute_batch: what ran is what was asked for, each on what the ones     *)
(* before left, and what did not run left the chain as it was.              *)
THEOREM BatchesRunWhole == Spec => BatchesAreWhole
<1>1. Init => BatchInv
  <2>1. ASSUME Init, vm = "cw" PROVE Cw!CwInit
    BY <2>1 DEF Init
  <2>2. ASSUME Init, vm = "cw" PROVE BatchInv
    <3>1. bal \in [Wallet -> Int] /\ contracts = <<>> /\ codes = 0 /\ batch = <<>> /\ asked = <<>>
      BY <2>1, <2>2 DEF Cw!CwInit
    <3>2. Cw!State \in States
      BY <3>1 DEF States, Cw!State
    <3>3. QED
      BY <3>1, <3>2 DEF BatchInv
  <2>3. QED
    BY <2>2 DEF BatchInv
<1>2. BatchInv /\ [Next]_vars => BatchInv'
  BY BatchInvariant
<1> DEFINE Whole ==
      IF last'.ok
        THEN /\ \A i \in DOMAIN asked : asked[i] \in Cw!Messages
             /\ [bal |-> bal', contracts |-> contracts'] \in
                  Cw!AllApplied(asked, last'.ask.from)
        ELSE UNCHANGED chain
<1>3. ASSUME BatchInv, [Next]_vars, vm = "cw", last' # last, last'.ask.op = "batch"
      PROVE  Whole
  <2>1. Cw!CwNext /\ UNCHANGED <<revmVars, svmVars>>
    BY <1>3 DEF Next, vars, AdvanceBlocks, AdvanceAll, IsRevm
  <2>2. PICK w \in Wallet : Cw!ExecuteBatch(w)
    <3>1. last' # Cw!Quiet
      BY <1>3 DEF Cw!Quiet
    <3>2. QED
      BY <2>1, <3>1 DEF Cw!CwNext, Cw!StoreCode, Cw!Instantiate, Cw!ExecuteContract,
         Cw!MigrateContract, Cw!TransferFunds, Cw!Push, Cw!PushRaw, Cw!Defer, Cw!Joins,
         Cw!NewBatch, Cw!SetBalance
  <2>3. ASSUME UNCHANGED Cw!chain PROVE UNCHANGED chain
    BY <2>1, <2>3 DEF Cw!chain, chain, svmVars, revmVars
  <2>4. CASE deferred \/ batch = <<>> \/ Cw!HasRaw
    <3>1. UNCHANGED Cw!chain /\ last'.ok = FALSE
      BY <2>2, <2>4 DEF Cw!ExecuteBatch, Cw!Report
    <3>2. QED
      BY <2>3, <3>1
  <2>5. CASE ~(deferred \/ batch = <<>> \/ Cw!HasRaw)
    <3>1. batch = asked /\ batch \in Seq(Cw!Messages)
      BY <1>3, <2>5, WholeBatch
    <3>2. /\ last'.ok = (Cw!AllApplied(batch, w) # {}) /\ last'.ask.from = w
          /\ Cw!Transact(batch, w)
      BY <2>2, <2>5 DEF Cw!ExecuteBatch, Cw!Report
    <3>3. /\ Cw!AllApplied(batch, w) = {} => UNCHANGED Cw!chain
          /\ Cw!AllApplied(batch, w) # {} =>
               [bal |-> bal', contracts |-> contracts'] \in Cw!AllApplied(batch, w)
      BY <1>3, <3>1, <3>2, TransactKeeps
    <3>4. CASE Cw!AllApplied(batch, w) = {}
      BY <2>3, <3>2, <3>3, <3>4
    <3>5. CASE Cw!AllApplied(batch, w) # {}
      <4>1. /\ [bal |-> bal', contracts |-> contracts'] \in Cw!AllApplied(asked, last'.ask.from)
            /\ \A i \in DOMAIN asked : asked[i] \in Cw!Messages
        BY <3>1, <3>2, <3>3, <3>5
      <4>2. last'.ok
        BY <3>2, <3>5, Zenon
      <4>3. QED
        BY <4>1, <4>2
    <3>6. QED
      BY <3>4, <3>5
  <2>6. QED
    BY <2>4, <2>5
<1>4. BatchInv /\ [Next]_vars =>
        [(vm = "cw" /\ last' # last /\ last'.ask.op = "batch") => Whole]_vars
  BY <1>3
<1>5. QED
  BY <1>1, <1>2, <1>4, PTL DEF Spec, BatchesAreWhole
=============================================================================
