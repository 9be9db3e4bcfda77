------------------------------ MODULE CallPort ------------------------------
(***************************************************************************)
(* What CosmosTransport::call promises, whatever carries the calls: an     *)
(* envelope is posted at most once, and its caller gets the response with  *)
(* its own id, an error, or (when it went away) nothing.  HttpTransport    *)
(* (crates/cosmwasm/src/transport.rs), one POST per call, is this module.  *)
(***************************************************************************)
CONSTANTS Call, NoAnswer, Error

VARIABLES
    stage,          \* "idle", "open" (awaiting), "done" or "dropped"
    posted,         \* the calls whose envelope has left
    result          \* what a call returned

vars == <<stage, posted, result>>

Init ==
    /\ stage = [c \in Call |-> "idle"]
    /\ posted = {}
    /\ result = [c \in Call |-> NoAnswer]

Begin(c) ==
    /\ stage[c] = "idle"
    /\ stage' = [stage EXCEPT ![c] = "open"]
    /\ UNCHANGED <<posted, result>>

(* Envelopes leave, none of them for the second time; one may belong to a   *)
(* call that went away since.                                               *)
Post(C) ==
    /\ C # {} /\ C \cap posted = {}
    /\ \A c \in C : stage[c] # "idle"
    /\ posted' = posted \cup C
    /\ UNCHANGED <<stage, result>>

(* A response only comes for an envelope that left; an error may come       *)
(* before it does.                                                          *)
Return(c) ==
    /\ stage[c] \in {"idle", "open"}
    /\ stage' = [stage EXCEPT ![c] = "done"]
    /\ \/ stage[c] = "open" /\ c \in posted /\ result' = [result EXCEPT ![c] = c]
       \/ result' = [result EXCEPT ![c] = Error]
    /\ UNCHANGED posted

Drop(c) ==
    /\ stage[c] = "open"
    /\ stage' = [stage EXCEPT ![c] = "dropped"]
    /\ UNCHANGED <<posted, result>>

Next ==
    \/ \E c \in Call : Begin(c) \/ Return(c) \/ Drop(c)
    \/ \E C \in SUBSET Call : Post(C)

Spec == Init /\ [][Next]_vars
=============================================================================
