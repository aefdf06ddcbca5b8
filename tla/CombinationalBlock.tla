--------------------------- MODULE CombinationalBlock ---------------------------
(***************************************************************************)
(* The flow control of a proc converted to a combinational block           *)
(* (ProcToCombinationalBlock and AddCombinationalFlowControl in            *)
(* codegen/block_conversion.cc): no registers, only ready and valid        *)
(* signals between the input and the output channels.                      *)
(*                                                                         *)
(* An activation's plan says which receives and sends its predicates       *)
(* enable.  The next activation starts when the current one has fired.     *)
(***************************************************************************)
CONSTANTS
  Inputs, Outputs,
  Plans     \* a subset of [recvs : SUBSET Inputs, sends : SUBSET Outputs]

VARIABLES
  plan,
  in_valid, out_ready,  \* the ports driven from outside
  taken    \* history: the inputs whose token was taken and not yet used

vars == <<plan, in_valid, out_ready, taken>>

all_active_inputs_valid == \A c \in plan.recvs : in_valid[c]
all_active_outputs_ready == \A c \in plan.sends : out_ready[c]

in_ready(c) == all_active_outputs_ready /\ c \in plan.recvs
out_valid(c) == all_active_inputs_valid /\ c \in plan.sends

fires == all_active_inputs_valid /\ all_active_outputs_ready

PortsType == in_valid \in [Inputs -> BOOLEAN] /\ out_ready \in [Outputs -> BOOLEAN]

Init == plan \in Plans /\ PortsType /\ taken = {}

Fire == plan' \in IF fires THEN Plans ELSE {plan}

TakeTokens ==
  LET all == taken \cup {c \in Inputs : in_valid[c] /\ in_ready(c)}
  IN  taken' = IF fires THEN all \ plan.recvs ELSE all

(***************************************************************************)
(* One clock cycle.  Producers keep an offer until it is taken.            *)
(***************************************************************************)
Cycle ==
  /\ Fire /\ TakeTokens
  /\ in_valid' \in [Inputs -> BOOLEAN] /\ out_ready' \in [Outputs -> BOOLEAN]
  /\ \A c \in Inputs : in_valid[c] /\ ~in_ready(c) => in_valid'[c]

Spec == Init /\ [][Cycle]_vars

--------------------------------------------------------------------------------
(***************************************************************************)
(* A blocking receive waits until data is present: no token is taken in a  *)
(* cycle in which the activation cannot fire and use it, because the block *)
(* has no register that could keep it.                                     *)
(***************************************************************************)
NoTokenLost == taken = {}

================================================================================
