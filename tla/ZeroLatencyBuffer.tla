---------------------------- MODULE ZeroLatencyBuffer ----------------------------
(***************************************************************************)
(* The buffer of kind kZeroLatencyBuffer (AddZeroLatencyBufferToRDVNodes): *)
(* an offer passes to the consumer in the same cycle, and is caught in the *)
(* skid registers when the consumer does not take it.                      *)
(***************************************************************************)
EXTENDS ReadyValidPorts, Naturals

VARIABLES data_skid_reg, data_valid_skid_reg

regs == <<data_skid_reg, data_valid_skid_reg>>
vars == <<ports, regs>>

(***************************************************************************)
(* Plausible mistakes in the logic below; each is noticed by a property.   *)
(***************************************************************************)
SkidLoadsEvenIfSent == from_valid /\ ~data_valid_skid_reg

to_valid == from_valid \/ data_valid_skid_reg
to_data == IF data_valid_skid_reg THEN data_skid_reg ELSE from_data
from_skid_rdy == ~data_valid_skid_reg

skid_data_load_en == from_valid /\ from_skid_rdy /\ ~to_ready
skid_valid_set_zero == data_valid_skid_reg /\ to_ready
skid_valid_load_en == skid_data_load_en \/ skid_valid_set_zero

Reset ==
  /\ rst
  /\ data_skid_reg' = Zero /\ data_valid_skid_reg' = FALSE

Load ==
  /\ ~rst
  /\ data_skid_reg' = IF skid_data_load_en THEN from_data ELSE data_skid_reg
  /\ data_valid_skid_reg' = IF skid_valid_load_en THEN from_skid_rdy
                                                  ELSE data_valid_skid_reg

Init == PortsType /\ data_skid_reg = Zero /\ data_valid_skid_reg = FALSE

Next == (Reset \/ Load) /\ EnvNext(from_valid /\ from_skid_rdy)

Spec == Init /\ [][Next]_vars

--------------------------------------------------------------------------------
Contents == IF data_valid_skid_reg THEN <<data_skid_reg>> ELSE <<>>

Fifo == INSTANCE StreamFifo WITH
          Capacity <- 1, Bypass <- TRUE, q <- Contents, from_rdy <- from_skid_rdy

(***************************************************************************)
(* The zero-latency buffer is a one-place bypassing queue: a value that is *)
(* passed straight through is not also kept, and a kept value goes first.  *)
(***************************************************************************)
RefinesFifo == Fifo!Spec

================================================================================
