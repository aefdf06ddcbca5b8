---------------------------- MODULE ReadyValidPorts ----------------------------
(***************************************************************************)
(* The two ready/valid interfaces around one buffer of a streaming channel *)
(* (codegen/block_conversion.cc) and the environment that drives them.     *)
(*                                                                         *)
(* A state is one clock cycle just before its rising edge: the registers   *)
(* hold their values and the environment drives from_valid, from_data,     *)
(* to_ready and the reset.  The buffer's own outputs (to_valid, to_data,   *)
(* from_rdy) are combinational, so a buffer module defines them as state   *)
(* functions and passes them to the operators below.                       *)
(***************************************************************************)
EXTENDS Sequences

CONSTANTS
  Data,          \* the values that travel over the channel
  Zero           \* ZeroOfType: the reset value of data registers

ASSUME DataAssumption == Zero \in Data

VARIABLES
  from_valid,    \* the producer offers from_data
  from_data,
  to_ready,      \* the consumer can take to_data
  rst            \* the block's reset is asserted

ports == <<from_valid, from_data, to_ready, rst>>

PortsType ==
  /\ from_valid \in BOOLEAN
  /\ from_data \in Data
  /\ to_ready \in BOOLEAN
  /\ rst \in BOOLEAN

(***************************************************************************)
(* The producer of a ready/valid channel may start an offer in any cycle   *)
(* and then keeps it until it is taken; the consumer and the reset are     *)
(* free.  accepted says that this cycle's offer was taken.                 *)
(***************************************************************************)
ProducerHolds(accepted) ==
  from_valid /\ ~accepted /\ ~rst => from_valid' /\ from_data' = from_data

EnvNext(accepted) ==
  /\ from_valid' \in BOOLEAN
  /\ from_data' \in Data
  /\ to_ready' \in BOOLEAN
  /\ rst' \in BOOLEAN
  /\ ProducerHolds(accepted)

================================================================================
