------------------------------- MODULE Chains -------------------------------
(***************************************************************************)
(* The cross-VM side of a config: [[chain]] declarations, the mock-or-rpc  *)
(* target of each, their validation (crates/config) and what the framework *)
(* makes of them (framework/src/config): the SetupRequest a setup fn gets, *)
(* the chain it builds, the sections of a replay artifact.                 *)
(*                                                                         *)
(* A declaration keeps what decides something: label, kind, target,        *)
(* rpc_url, transport, whether the batch knobs are set (batched), whether  *)
(* a CosmWasm chain has its prefix and denom (denominated), the gas        *)
(* adjustment in tenths, the native symbol, and as its dialect the spec_id *)
(* or the commitment.                                                      *)
(***************************************************************************)
EXTENDS Loader

Kinds == {"cosmwasm", "evm", "svm", "tron"}
Targets == {"mock", "rpc"}
DefaultGasAdjustment == 13
DefaultNativeSymbol(kind) ==
    CASE kind = "cosmwasm" -> "OSMO" [] kind = "evm" -> "ETH"
      [] kind = "svm" -> "SOL" [] kind = "tron" -> "TRX" [] OTHER -> None

EnvKeys == {"target", "targets", "chains", "params"}

(* env_spec: the typed reading of an env table. *)
EnvSpecReads(env) ==
    /\ DOMAIN env \subseteq EnvKeys
    /\ "target" \in DOMAIN env => env.target \in Targets
    /\ "targets" \in DOMAIN env => \A label \in DOMAIN env.targets : env.targets[label] \in Targets

NoOverrides == [target |-> None, targetChain |-> Empty]

(* resolve_chain_target: the first of the six that is given. *)
ResolveChainTarget(label, declTarget, env, over) ==
    LET given == <<Get(over.targetChain, label),
                   IF "targets" \in DOMAIN env THEN Get(env.targets, label) ELSE None,
                   declTarget, over.target, Get(env, "target"), "mock">>
    IN  First(given)
-----------------------------------------------------------------------------
(* validate_chains *)
MissingRequiredFields(decl) == decl.kind = "cosmwasm" /\ ~decl.denominated

Transports(kind) == IF kind = "cosmwasm" THEN {"http", "batch-http"} ELSE {"http"}

TransportValid(decl) ==
    /\ decl.transport # None => decl.transport \in Transports(decl.kind)
    /\ decl.batched => decl.transport = "batch-http"

GasAdjustmentValid(decl) == decl.adjustment # None => decl.adjustment >= 10

Labels(chains) == {chains[i].label : i \in DOMAIN chains}

EnvSelectionValid(env, chains) ==
    chains # <<>> /\ "chains" \in DOMAIN env => ToSet(env.chains) \subseteq Labels(chains)

EnvTargetsValid(env, chains) ==
    "targets" \in DOMAIN env => DOMAIN env.targets \subseteq Labels(chains)

(* Seeded defect: only the top-level table is looked at. *)
RpcUrlsValidOfTop(env, chains) ==
    \A i \in DOMAIN chains : chains[i].target = "rpc" => chains[i].rpc_url # None

(* Every declared chain, selected or not, under no flags. *)
RpcUrlsValid(env, chains) ==
    \A i \in DOMAIN chains :
      /\ chains[i].target \in Targets \cup {None}
      /\ ResolveChainTarget(chains[i].label, chains[i].target, env, NoOverrides) = "rpc"
           => chains[i].rpc_url # None

(* The env of a loaded profile: merged into it, or the top-level one. *)
EffectiveEnv(doc, p) == IF "env" \in DOMAIN doc.profile[p] THEN doc.profile[p].env ELSE doc.env

ChainsValid(doc) ==
    /\ EnvSpecReads(doc.env)
    /\ \A i, j \in DOMAIN doc.chain : doc.chain[i].label = doc.chain[j].label => i = j
    /\ \A i \in DOMAIN doc.chain :
         /\ doc.chain[i].kind # ""
         /\ ~MissingRequiredFields(doc.chain[i])
         /\ GasAdjustmentValid(doc.chain[i]) /\ TransportValid(doc.chain[i])
    /\ \A p \in DOMAIN doc.profile :
         /\ EnvSpecReads(EffectiveEnv(doc, p))
         /\ EnvSelectionValid(EffectiveEnv(doc, p), doc.chain)
         /\ EnvTargetsValid(EffectiveEnv(doc, p), doc.chain)
         /\ RpcUrlsValid(EffectiveEnv(doc, p), doc.chain)
-----------------------------------------------------------------------------
(* resolve_chains, for an env and the target flags.  The target string and  *)
(* the kind of a chain are read again here.                                 *)
IsSelected(env, decl) ==
    "chains" \in DOMAIN env /\ env.chains # <<>> => decl.label \in ToSet(env.chains)

Selected(env, chains) ==
    LET upTo[n \in 0 .. Len(chains)] ==
          IF n = 0 THEN <<>>
          ELSE IF IsSelected(env, chains[n]) THEN Append(upTo[n - 1], chains[n])
          ELSE upTo[n - 1]
    IN  upTo[Len(chains)]

ChainSpec(decl, env, over) ==
    [decl EXCEPT !.target = ResolveChainTarget(decl.label, @, env, over),
                 !.adjustment = IF @ = None THEN DefaultGasAdjustment ELSE @,
                 !.symbol = IF @ = None THEN DefaultNativeSymbol(decl.kind) ELSE @]

ChainSpecs(env, chains, over) ==
    [i \in DOMAIN Selected(env, chains) |-> ChainSpec(Selected(env, chains)[i], env, over)]

Resolves(env, chains, over) ==
    \A i \in DOMAIN Selected(env, chains) :
      LET spec == ChainSpec(Selected(env, chains)[i], env, over)
      IN  /\ spec.kind \in Kinds
          /\ spec.target = "rpc" => spec.rpc_url # None

SetupRequest(env, chains, over, seed) ==
    [target |-> ResolveChainTarget(None, None, env, [over EXCEPT !.targetChain = Empty]),
     specs |-> ChainSpecs(env, chains, over),
     params |-> Get(env, "params"),
     seed |-> seed]

(* parse_spec_id: the hardforks by name; revm has no variant of its own for *)
(* two of them.                                                             *)
SpecIds ==
    {"frontier", "homestead", "tangerine", "spurious", "byzantium", "constantinople", "petersburg",
     "istanbul", "muir", "berlin", "london", "paris", "shanghai", "cancun", "prague"}

ParseSpecId(name) ==
    CASE name = "constantinople" -> "petersburg" [] name = "muir" -> "istanbul" [] OTHER -> name

Commitments == {"processed", "confirmed", "finalized"}

(* build_chain: an unknown hardfork or commitment fails only here, and the  *)
(* transport matters on a live CosmWasm chain only.                         *)
Buildable(spec) ==
    CASE spec.dialect = None \/ spec.kind = "cosmwasm" -> TRUE
      [] spec.kind \in {"evm", "tron"} -> spec.dialect \in SpecIds
      [] spec.kind = "svm" -> spec.dialect \in Commitments

Built(spec, via, rules) ==
    [vm |-> spec.kind, adjustment |-> spec.adjustment, symbol |-> spec.symbol, via |-> via, rules |-> rules]

Plainly(spec) == IF spec.target = "mock" THEN "mock" ELSE "http"

BuildCosmWasm(spec) ==
    Built(spec, IF spec.target = "rpc" /\ spec.transport = "batch-http" THEN "batch-http" ELSE Plainly(spec),
          None)

BuildEvm(spec) ==
    Built(spec, Plainly(spec), IF spec.dialect = None THEN "cancun" ELSE ParseSpecId(spec.dialect))

BuildSvm(spec) ==
    Built(spec, Plainly(spec), IF spec.dialect = None THEN "finalized" ELSE spec.dialect)

(* The TVM mock runs on a revm hardfork too. *)
BuildTron(spec) ==
    Built(spec, Plainly(spec), IF spec.dialect = None THEN "cancun" ELSE ParseSpecId(spec.dialect))

BuildChain(spec) ==
    CASE spec.kind = "cosmwasm" -> BuildCosmWasm(spec)
      [] spec.kind = "evm" -> BuildEvm(spec)
      [] spec.kind = "svm" -> BuildSvm(spec)
      [] spec.kind = "tron" -> BuildTron(spec)
-----------------------------------------------------------------------------
(* Seeded defects: the declared target instead of the resolved one; no url. *)
ArtifactChainDeclared(spec) == [spec EXCEPT !.target = None, !.transport = None, !.batched = FALSE]
ArtifactChainNoUrl(spec) == [spec EXCEPT !.rpc_url = None, !.transport = None, !.batched = FALSE]

(* artifact_chain: a resolved spec as a declaration.  The transport and the *)
(* batch knobs have no field there.                                         *)
ArtifactChain(spec) == [spec EXCEPT !.transport = None, !.batched = FALSE]

(* render_artifact_sections: [[chain]] and an [env] of target and chains.   *)
ArtifactChains(request) ==
    [i \in DOMAIN request.specs |-> ArtifactChain(request.specs[i])]

ArtifactEnv(request) ==
    [target |-> request.target,
     chains |-> [i \in DOMAIN request.specs |-> request.specs[i].label]]
=============================================================================
