------------------------------ MODULE Wallets ------------------------------
(***************************************************************************)
(* Wallet labels and the secrets behind them: the roster a project         *)
(* declares (define_wallet_roster!, crates/macros/src/wallet_roster.rs)    *)
(* and WalletFactory (crates/core/src/wallet.rs), which resolves a row     *)
(* when its wallet is used.                                                *)
(*                                                                         *)
(* A row names candidates, tried in order: env_any(...) several, and       *)
(* env_mnemonic and env_private_key one.  A row without candidates is      *)
(* `auto`.  An account is told by the secret it comes from and its index.  *)
(***************************************************************************)
EXTENDS Integers, Sequences

CONSTANTS
    Roster,         \* the rows: [label, candidates, index]
    Wallet,         \* the labels
    Var,            \* the environment variables
    Secret,         \* what they may hold, and whether it is a phrase or a key:
    Phrases, Keys,  \* of those that are neither, nothing derives
    Blank,          \* unset, or only whitespace
    Inherit,        \* a candidate without an index of its own
    NoSigner

Candidate == [kind : {"mnemonic", "key"}, var : Var, index : Nat \cup {Inherit}]

ASSUME WalletsAssumption ==
    /\ Roster \in Seq([label : Wallet, candidates : Seq(Candidate), index : Nat])
    /\ Phrases \subseteq Secret /\ Keys \subseteq Secret
    /\ Blank \notin Secret /\ Inherit \notin Nat

(* from_roster: of two rows of one label, the later stays. *)
Rows(l) == {i \in DOMAIN Roster : Roster[i].label = l}
Row(l) == Roster[CHOOSE i \in Rows(l) : \A j \in Rows(l) : j <= i]

(* A phrase of an `auto` row is drawn with the factory. *)
Drawn(l) == [secret |-> l, kind |-> "mnemonic", index |-> Row(l).index]

(* The macro lets a candidate without an index take that of its row.  A key *)
(* has none.                                                                *)
IndexOf(c, row) ==
    CASE c.kind = "key" -> 0
      [] c.kind = "mnemonic" -> IF c.index = Inherit THEN row.index ELSE c.index

(* derive_signer, derive_from_key. *)
Derived(c, secret, row) ==
    IF secret \in (IF c.kind = "key" THEN Keys ELSE Phrases)
      THEN [secret |-> secret, kind |-> c.kind, index |-> IndexOf(c, row)]
      ELSE NoSigner

(* resolve_any: the first candidate whose variable is set decides, also     *)
(* when nothing derives from what it holds.                                 *)
Chosen(row, environ) ==
    {i \in DOMAIN row.candidates :
       /\ environ[row.candidates[i].var] # Blank
       /\ \A j \in 1 .. (i - 1) : environ[row.candidates[j].var] = Blank}

(* resolve, then signer_for. *)
Resolved(l, environ) ==
    IF Rows(l) = {} THEN NoSigner
    ELSE IF Row(l).candidates = <<>> THEN Drawn(l)
    ELSE LET row == Row(l)
         IN  IF Chosen(row, environ) = {} THEN NoSigner
             ELSE LET c == row.candidates[CHOOSE i \in Chosen(row, environ) : TRUE]
                  IN  Derived(c, environ[c.var], row)
=============================================================================
