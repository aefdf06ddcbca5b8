------------------------------- MODULE FlopBuffer -------------------------------
(***************************************************************************)
(* The single data/valid register pair that block conversion puts on a     *)
(* streaming channel when the flop kind is kFlop (AddRegisterToRDVNodes).  *)
(* Its ready towards the producer passes combinationally through it.       *)
(***************************************************************************)
EXTENDS ReadyValidPorts, Naturals

VARIABLES data_reg, valid_reg

regs == <<data_reg, valid_reg>>
vars == <<ports, regs>>

(***************************************************************************)
(* Plausible mistakes in the logic below; each is noticed by a property.   *)
(***************************************************************************)
LoadsOverUnsentData == TRUE
LoadsOnlyWhenEmpty == from_valid /\ ~valid_reg

to_valid == valid_reg
to_data == data_reg
valid_load_en == to_ready \/ ~valid_reg
data_load_en == from_valid /\ valid_load_en
from_rdy == data_load_en

Reset ==
  /\ rst
  /\ data_reg' = Zero /\ valid_reg' = FALSE

Load ==
  /\ ~rst
  /\ data_reg' = IF data_load_en THEN from_data ELSE data_reg
  /\ valid_reg' = IF valid_load_en THEN from_valid ELSE valid_reg

Init == PortsType /\ data_reg = Zero /\ valid_reg = FALSE

Next == (Reset \/ Load) /\ EnvNext(data_load_en)

Spec == Init /\ [][Next]_vars

--------------------------------------------------------------------------------
Contents == IF valid_reg THEN <<data_reg>> ELSE <<>>

Fifo == INSTANCE StreamFifo WITH Capacity <- 1, Bypass <- FALSE, q <- Contents

(***************************************************************************)
(* The flop is a one-place queue that takes a value in the cycle in which  *)
(* it passes its own on: nothing is lost, repeated or overtaken.           *)
(***************************************************************************)
RefinesFifo == Fifo!Spec

(***************************************************************************)
(* The flop sustains one transfer per cycle: with the consumer ready, an   *)
(* offer is taken and the next cycle has a value for the consumer.         *)
(***************************************************************************)
FullThroughput ==
  [][from_valid /\ to_ready /\ ~rst => from_rdy /\ to_valid']_vars

================================================================================
