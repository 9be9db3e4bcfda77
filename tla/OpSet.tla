------------------------------- MODULE OpSet -------------------------------
(***************************************************************************)
(* OpSetHarness (crates/harness/src/opset.rs): a harness assembled from    *)
(* registered op definitions, and the codec that carries its ops through   *)
(* configs, scenarios and replay artifacts.                                *)
(*                                                                         *)
(* A registry is the sequence of its OpDefs in the order of their names,   *)
(* which is how the BTreeMap lists them whatever the order of              *)
(* registration.  An OpDef has its name, what it generates and weighs in a *)
(* world, the data its decoder accepts, and the kind() its ops report.     *)
(***************************************************************************)
EXTENDS Integers, Sequences, SequencesExt

CONSTANT NoData     \* the empty object a bare op name stands for

(* An op is its kind and its data. *)
Op(kind, data) == [kind |-> kind, data |-> data]

(* OpDef::new: the weight is 1 unless with_weight sets one. *)
OpDefOf(name, generate, decodes) ==
    [name |-> name, generate |-> generate, decodes |-> decodes, reports |-> name,
     weight |-> [w \in DOMAIN generate |-> 1]]

WithWeight(def, weight) == [def EXCEPT !.weight = weight]

(* op_kinds and kind_names *)
KindsOf(ops) == [i \in DOMAIN ops |-> ops[i].name]
Names(ops) == ToSet(KindsOf(ops))

(* register and op_kinds panic on a kind registered twice and on an empty   *)
(* registry.                                                                *)
WellFormed(ops) == ops # <<>> /\ IsInjective(KindsOf(ops))

Lookup(ops, kind) == ops[CHOOSE i \in DOMAIN ops : ops[i].name = kind]

GenerateOp(ops, w, kind) == {Op(kind, d) : d \in Lookup(ops, kind).generate[w]}

(* An unknown kind is never drawn. *)
WeightOf(ops, w, kind) == IF kind \in Names(ops) THEN Lookup(ops, kind).weight[w] ELSE 0
-----------------------------------------------------------------------------
(* A serialized op: a table with one key, or a bare name (key is NoData).   *)
NameIn(v) == IF v.key = NoData THEN v.value ELSE v.key
DataIn(v) == IF v.key = NoData THEN NoData ELSE v.value

(* decode_op, where it succeeds: a registered name, data its decoder takes, *)
(* and an op that says it is of that kind.                                  *)
Decodable(ops, v) ==
    /\ NameIn(v) \in Names(ops)
    /\ DataIn(v) \in Lookup(ops, NameIn(v)).decodes
    /\ Lookup(ops, NameIn(v)).reports = NameIn(v)

DecodeOp(v) == Op(NameIn(v), DataIn(v))

(* encode_op: always the one-key table. *)
EncodeOp(op) == [key |-> op.kind, value |-> op.data]
=============================================================================
