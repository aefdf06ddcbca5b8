-------------------------------- MODULE FifoModel --------------------------------
(***************************************************************************)
(* The FIFO instantiations that connect a proc's block to itself through a *)
(* loopback channel, as the block interpreter executes them (FifoModel in  *)
(* interpreter/block_interpreter.cc).  With bypass, a value may leave in   *)
(* the cycle in which it arrives, and a full FIFO takes a value in a cycle *)
(* in which it gives one away.                                             *)
(***************************************************************************)
EXTENDS Naturals, Sequences

CONSTANTS
  Data,
  Zero,          \* ZeroOfType
  Depth          \* FifoConfig::depth

VARIABLES
  bypass,                              \* FifoConfig::bypass, fixed by the constructor
  elements,                            \* the FIFO's register
  push_valid, push_data, pop_ready     \* its input ports in this cycle

vars == <<bypass, elements, push_valid, push_data, pop_ready>>

(***************************************************************************)
(* Plausible mistakes in the logic below; each is noticed by a property.   *)
(***************************************************************************)
PushKeepsPassedValue ==
  push_valid /\ (Len(elements) # Depth \/ (bypass /\ pop_ready))
EmptyBelowTwo == Len(elements) <= 1

empty == elements = <<>>
full == Len(elements) = Depth

pop_valid == IF empty /\ bypass THEN push_valid ELSE ~empty
pop_data == IF ~empty THEN Head(elements)
            ELSE IF bypass THEN push_data ELSE Zero
push_ready == IF full /\ bypass THEN pop_ready ELSE ~full

pop_element == ~empty /\ pop_ready
pushed_element_immediately_popped == empty /\ bypass /\ pop_ready /\ push_valid
push_element ==
  /\ push_valid
  /\ ~pushed_element_immediately_popped
  /\ ~full \/ (bypass /\ pop_ready)

NextElements ==
  LET rest == IF pop_element THEN Tail(elements) ELSE elements
  IN  IF push_element THEN Append(rest, push_data) ELSE rest

PortsType == push_valid \in BOOLEAN /\ push_data \in Data /\ pop_ready \in BOOLEAN

Init == bypass \in BOOLEAN /\ elements = <<>> /\ PortsType

Clock ==
  /\ elements' = NextElements /\ UNCHANGED bypass
  /\ push_valid' \in BOOLEAN /\ push_data' \in Data /\ pop_ready' \in BOOLEAN
  /\ push_valid /\ ~push_ready => push_valid' /\ push_data' = push_data

Spec == Init /\ [][Clock]_vars

--------------------------------------------------------------------------------
(***************************************************************************)
(* The FIFO holds values of its type and never more of them than its       *)
(* depth: the check the interpreter makes after every cycle succeeds.      *)
(***************************************************************************)
TypeInvariant ==
  bypass \in BOOLEAN /\ elements \in Seq(Data) /\ PortsType /\ Len(elements) <= Depth

Fifo == INSTANCE StreamFifo WITH
          Capacity <- Depth, Bypass <- bypass, q <- elements, rst <- FALSE,
          from_valid <- push_valid, from_data <- push_data,
          from_rdy <- push_ready, to_valid <- pop_valid, to_data <- pop_data,
          to_ready <- pop_ready

(***************************************************************************)
(* What the FIFO shows on its ports agrees with what it does to its        *)
(* elements: a value is kept exactly when both sides were told so.         *)
(***************************************************************************)
RefinesFifo == Fifo!Spec

================================================================================
