------------------------------- MODULE SkidBuffer -------------------------------
(***************************************************************************)
(* The skid buffer that block conversion puts on a streaming channel when  *)
(* flop_inputs_kind or flop_outputs_kind is kSkidBuffer                    *)
(* (AddSkidBufferToRDVNodes): a data/valid register pair and a second,     *)
(* "skid", pair that catches the value in flight when the consumer stalls, *)
(* so that ready towards the producer is a registered signal.              *)
(***************************************************************************)
EXTENDS ReadyValidPorts, Naturals

VARIABLES data_reg, data_valid_reg, data_skid_reg, data_valid_skid_reg

regs == <<data_reg, data_valid_reg, data_skid_reg, data_valid_skid_reg>>
vars == <<ports, regs>>

(***************************************************************************)
(* Plausible mistakes in the logic below; each is noticed by a property.   *)
(***************************************************************************)
ToDataNewestFirst == data_reg
SkidLoadsEvenIfSent == data_valid_reg /\ from_valid /\ ~data_valid_skid_reg
SkidNeverDrains ==
  data_valid_reg /\ from_valid /\ ~data_valid_skid_reg /\ ~to_ready

to_valid == data_valid_reg \/ data_valid_skid_reg
to_data == IF data_valid_skid_reg THEN data_skid_reg ELSE data_reg
from_skid_rdy == ~data_valid_skid_reg

input_ready_and_valid == from_valid /\ from_skid_rdy
data_is_sent_to == data_valid_reg /\ to_ready /\ from_skid_rdy
valid_load_en == data_is_sent_to \/ input_ready_and_valid
skid_data_load_en == data_valid_reg /\ input_ready_and_valid /\ ~to_ready
skid_valid_set_zero == data_valid_skid_reg /\ to_ready
skid_valid_load_en == skid_data_load_en \/ skid_valid_set_zero

Reset ==
  /\ rst
  /\ data_reg' = Zero /\ data_skid_reg' = Zero
  /\ data_valid_reg' = FALSE /\ data_valid_skid_reg' = FALSE

Load ==
  /\ ~rst
  /\ data_reg' = IF input_ready_and_valid THEN from_data ELSE data_reg
  /\ data_valid_reg' = IF valid_load_en THEN from_valid ELSE data_valid_reg
  /\ data_skid_reg' = IF skid_data_load_en THEN data_reg ELSE data_skid_reg
  /\ data_valid_skid_reg' = IF skid_valid_load_en THEN from_skid_rdy
                                                  ELSE data_valid_skid_reg

Init ==
  /\ PortsType
  /\ data_reg = Zero /\ data_skid_reg = Zero
  /\ data_valid_reg = FALSE /\ data_valid_skid_reg = FALSE

Next == (Reset \/ Load) /\ EnvNext(input_ready_and_valid)

Spec == Init /\ [][Next]_vars

--------------------------------------------------------------------------------
(***************************************************************************)
(* The registers have their types, and the skid registers are occupied     *)
(* only while the data registers are: the order in which the output        *)
(* multiplexer offers the two values relies on it.                         *)
(***************************************************************************)
TypeInvariant ==
  /\ PortsType
  /\ data_reg \in Data /\ data_skid_reg \in Data
  /\ data_valid_reg \in BOOLEAN /\ data_valid_skid_reg \in BOOLEAN
  /\ data_valid_skid_reg => data_valid_reg

Contents ==
  IF data_valid_skid_reg THEN <<data_skid_reg, data_reg>>
  ELSE IF data_valid_reg THEN <<data_reg>>
  ELSE <<>>

Fifo == INSTANCE StreamFifo WITH
          Capacity <- 2, Bypass <- FALSE, q <- Contents, from_rdy <- from_skid_rdy

(***************************************************************************)
(* The skid buffer is a two-place queue: whatever the order of stalls,     *)
(* offers and resets, no value is lost, repeated or overtaken.             *)
(***************************************************************************)
RefinesFifo == Fifo!Spec

================================================================================
