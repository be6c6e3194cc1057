------------------------------ MODULE Inference ------------------------------
(***************************************************************************)
(* What the inference protocol (docs/inference_protocol.md) promises an    *)
(* actor, whatever server is behind the socket: one question at a time,    *)
(* each answered at most once, with weights that were the current policy's *)
(* at some moment between the question and its answer.                     *)
(***************************************************************************)
EXTENDS Naturals

CONSTANTS
    Clients,     \* connections
    MaxVersion   \* bound: the newest weights

VARIABLES
    status,      \* where each connection is
    weights,     \* the version of the policy actors sample from
    floor,       \* the version that was current when the question was asked
    got          \* the version of the last answer

vars == <<status, weights, floor, got>>

Init ==
    /\ status = [c \in Clients |-> "new"]
    /\ weights = 0
    /\ floor = [c \in Clients |-> 0]
    /\ got = [c \in Clients |-> 0]

Greet(c) ==
    /\ status[c] = "new"
    /\ status' = [status EXCEPT ![c] = "greeting"]
    /\ UNCHANGED <<weights, floor, got>>

Welcomed(c) ==
    /\ status[c] = "greeting"
    /\ status' = [status EXCEPT ![c] = "idle"]
    /\ UNCHANGED <<weights, floor, got>>

Ask(c) ==
    /\ status[c] = "idle"
    /\ status' = [status EXCEPT ![c] = "waiting"]
    /\ floor' = [floor EXCEPT ![c] = weights]
    /\ UNCHANGED <<weights, got>>

Answer(c) ==
    /\ status[c] = "waiting"
    /\ status' = [status EXCEPT ![c] = "idle"]
    /\ \E v \in floor[c]..weights : got' = [got EXCEPT ![c] = v]
    /\ UNCHANGED <<weights, floor>>

Leave(c) ==
    /\ status[c] # "gone"
    /\ status' = [status EXCEPT ![c] = "gone"]
    /\ floor' = [floor EXCEPT ![c] = 0]
    /\ got' = [got EXCEPT ![c] = 0]
    /\ UNCHANGED weights

NewWeights ==
    /\ weights < MaxVersion
    /\ weights' = weights + 1
    /\ UNCHANGED <<status, floor, got>>

Next ==
    \/ NewWeights
    \/ \E c \in Clients : Greet(c) \/ Welcomed(c) \/ Ask(c) \/ Answer(c) \/ Leave(c)

Spec == Init /\ [][Next]_vars
=============================================================================
