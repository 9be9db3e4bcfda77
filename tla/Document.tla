------------------------------ MODULE Document ------------------------------
(***************************************************************************)
(* A config document as the loader's untyped stages see it (harness-config *)
(* value.rs and interpolate.rs; TOML and JSON share them through the Doc   *)
(* trait).  Tables are functions on the keys they set.  A string scalar is *)
(* one piece of text in source form: the strings that no property needs to *)
(* look into (labels, modes, kinds) are plain tokens.                      *)
(*                                                                         *)
(*   plain    no expression in it                                          *)
(*   ref      ${var} or, with a default, ${var:-default}                   *)
(*   escaped  $${var}, which stands for the literal ${var}                 *)
(*   open     ${ without a closing brace, or ${} without a name            *)
(*                                                                         *)
(* A scenario step carries a serialized op (OpSet): a text under the op's  *)
(* name, or a text that is the name.                                       *)
(***************************************************************************)
EXTENDS OpSet, FiniteSets, TLC

CONSTANTS
    None,       \* an Option's None, an absent key
    NotATable   \* a value of another type where a table belongs

Plain(b) == [form |-> "plain", body |-> b, default |-> None]
Ref(v, d) == [form |-> "ref", body |-> v, default |-> d]
Escaped(v) == [form |-> "escaped", body |-> v, default |-> None]
Open == [form |-> "open", body |-> None, default |-> None]

Get(table, key) == IF key \in DOMAIN table THEN table[key] ELSE None

(* The first of the options that is given. *)
First(options) ==
    LET set == {i \in DOMAIN options : options[i] # None}
    IN  IF set = {} THEN None ELSE options[CHOOSE i \in set : \A j \in set : i <= j]

(* interpolate_str, where it can fail. *)
Resolvable(t, vars) ==
    /\ t.form # "open"
    /\ t.form = "ref" => vars[t.body] # None \/ t.default # None

(* ... and what it answers.  The value of a variable is taken as it is: an  *)
(* expression in it is text, and so is the one an escape spells.            *)
InterpolateStr(t, vars) ==
    CASE t.form = "ref" /\ vars[t.body] # None -> vars[t.body]
      [] t.form = "ref" /\ vars[t.body] = None -> Plain(t.default)
      [] t.form = "escaped" -> Ref(t.body, None)
      [] OTHER -> t

(* The text a string spells: not a name when an expression is left in it.   *)
Spelled(t) == IF t.form = "plain" THEN t.body ELSE None

(* The texts of an env table, of a profile or defaults table and of a chain *)
(* declaration.                                                             *)
TextsOfEnv(env) ==
    IF env \in {None, NotATable} \/ "params" \notin DOMAIN env THEN {} ELSE {env.params}

TextsOfProfile(t) ==
    IF t = NotATable THEN {}
    ELSE TextsOfEnv(Get(t, "env"))
           \cup (IF "steps" \in DOMAIN t THEN {t.steps[i].value : i \in DOMAIN t.steps} \ {NoData} ELSE {})

TextsOfDoc(doc) ==
    UNION {TextsOfEnv(doc.env), TextsOfProfile(doc.defaults),
           UNION {TextsOfProfile(doc.profile[p]) : p \in DOMAIN doc.profile},
           {doc.chain[i].rpc_url : i \in DOMAIN doc.chain} \ {None}}

(* interpolate_at: the document with every text replaced, keys untouched.   *)
InterpolatedEnv(env, vars) ==
    IF TextsOfEnv(env) = {} THEN env
    ELSE [env EXCEPT !.params = InterpolateStr(env.params, vars)]

InterpolatedProfile(t, vars) ==
    IF t = NotATable THEN t
    ELSE [k \in DOMAIN t |->
            CASE k = "env" -> InterpolatedEnv(t[k], vars)
              [] k = "steps" -> [i \in DOMAIN t[k] |->
                   [t[k][i] EXCEPT !.value = IF @ = NoData THEN @ ELSE InterpolateStr(@, vars)]]
              [] OTHER -> t[k]]

InterpolatedChain(decl, vars) ==
    IF decl.rpc_url = None THEN decl
    ELSE [decl EXCEPT !.rpc_url = InterpolateStr(decl.rpc_url, vars)]

InterpolatedDoc(doc, vars) ==
    [doc EXCEPT
       !.env = InterpolatedEnv(doc.env, vars),
       !.defaults = InterpolatedProfile(doc.defaults, vars),
       !.profile = [p \in DOMAIN doc.profile |-> InterpolatedProfile(doc.profile[p], vars)],
       !.chain = [i \in DOMAIN doc.chain |-> InterpolatedChain(doc.chain[i], vars)]]
=============================================================================
