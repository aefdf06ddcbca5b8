------------------------------- MODULE BufferChain -------------------------------
(***************************************************************************)
(* The four buffers of a streaming channel one behind the other: a FIFO    *)
(* instantiation feeds a block whose input has a skid buffer and whose     *)
(* output has a zero-latency buffer; the block behind it has a flop and    *)
(* feeds a combinational block.                                            *)
(*                                                                         *)
(*   producer -> FIFO -> skid -> zero-latency -> flop -> merge -> sink     *)
(*                                      side input ------^                 *)
(*                                                                         *)
(* An activation of the combinational block, the merge, receives from the  *)
(* chain, from its side input or from both, and sends.  An activation that *)
(* receives from both may take a token without using it, the subject of    *)
(* CombinationalBlock; it is one more way in which the block may behave    *)
(* towards the chain.  Valid and data run forwards                         *)
(* and ready backwards through all of it in one cycle, so each part is the *)
(* others' environment, and what one assumes of its producer another has   *)
(* to guarantee.  The variables of the skid buffer have their own names;   *)
(* its ports are wires here.                                               *)
(***************************************************************************)
EXTENDS SkidBuffer

CONSTANT Depth    \* FifoConfig::depth

ASSUME DepthAssumption == Depth \in Nat \ {0}

VARIABLES
  push_valid, push_data,    \* the producer's offer
  bypass, elements,         \* the FIFO
  zl_reg, zl_valid_reg,     \* the zero-latency buffer
  zl_ready,                 \* wire: what the flop tells the zero-latency buffer
  flop_reg, flop_valid_reg, \* the flop
  consumer_ready,           \* wire: what the merge tells the flop
  plan,                     \* the activation of the merge
  side_valid, sink_ready    \* the other ports of the merge

Q == INSTANCE FifoModel WITH pop_ready <- from_skid_rdy

Zl == INSTANCE ZeroLatencyBuffer WITH
        from_valid <- to_valid, from_data <- to_data, to_ready <- zl_ready,
        data_skid_reg <- zl_reg, data_valid_skid_reg <- zl_valid_reg

Flop == INSTANCE FlopBuffer WITH
          from_valid <- Zl!to_valid, from_data <- Zl!to_data,
          to_ready <- consumer_ready, data_reg <- flop_reg, valid_reg <- flop_valid_reg

MergePlans ==
  [recvs : {{"chain"}, {"side"}, {"chain", "side"}}, sends : {{"sink"}}]

Merge == INSTANCE CombinationalBlock WITH
           Inputs <- {"chain", "side"}, Outputs <- {"sink"}, Plans <- MergePlans,
           in_valid <- [c \in {"chain", "side"} |->
                          IF c = "chain" THEN Flop!to_valid ELSE side_valid],
           out_ready <- [c \in {"sink"} |-> sink_ready],
           taken <- {}    \* its history is no concern of the chain

registers == <<regs, bypass, elements, zl_reg, zl_valid_reg, flop_reg, flop_valid_reg>>
wires == <<from_valid, from_data, to_ready, zl_ready, consumer_ready>>
outside == <<rst, push_valid, push_data, side_valid, sink_ready>>
chain == <<registers, wires, outside, plan>>

Accepted == push_valid /\ Q!push_ready
Consumed == Flop!to_valid /\ consumer_ready

(***************************************************************************)
(* The wires between the buffers.                                          *)
(***************************************************************************)
Wired ==
  /\ from_valid = Q!pop_valid
  /\ from_data = Q!pop_data
  /\ to_ready = Zl!from_skid_rdy
  /\ zl_ready = Flop!from_rdy
  /\ consumer_ready = Merge!in_ready("chain")

ChainInit ==
  /\ data_reg = Zero /\ data_skid_reg = Zero
  /\ data_valid_reg = FALSE /\ data_valid_skid_reg = FALSE
  /\ zl_reg = Zero /\ zl_valid_reg = FALSE
  /\ flop_reg = Zero /\ flop_valid_reg = FALSE
  /\ push_valid \in BOOLEAN /\ push_data \in Data
  /\ bypass \in BOOLEAN /\ elements = <<>>
  /\ plan \in MergePlans
  /\ side_valid \in BOOLEAN /\ sink_ready \in BOOLEAN /\ rst \in BOOLEAN
  /\ Wired

(***************************************************************************)
(* One clock edge.  The reset is that of the two blocks; the FIFO has none *)
(* and so its producer is not excused by it.                               *)
(***************************************************************************)
ChainNext ==
  /\ elements' = Q!NextElements /\ UNCHANGED bypass
  /\ push_valid' \in BOOLEAN /\ push_data' \in Data
  /\ push_valid /\ ~Q!push_ready => push_valid' /\ push_data' = push_data
  /\ rst' \in BOOLEAN /\ sink_ready' \in BOOLEAN /\ side_valid' \in BOOLEAN
  /\ side_valid /\ ~Merge!in_ready("side") => side_valid'
  /\ Reset \/ Load
  /\ Zl!Reset \/ Zl!Load
  /\ Flop!Reset \/ Flop!Load
  /\ Merge!Fire
  /\ consumer_ready' = Merge!in_ready("chain")'
  /\ from_valid' = (Q!pop_valid)' /\ from_data' = (Q!pop_data)'
  /\ to_ready' = (Zl!from_skid_rdy)'
  /\ zl_ready' = (Flop!from_rdy)'

ChainSpec == ChainInit /\ [][ChainNext]_chain

(***************************************************************************)
(* The clock runs, and the merge is ready to take from the chain again and *)
(* again: nothing in a block makes its proc choose that input.             *)
(***************************************************************************)
FairChain == ChainSpec /\ WF_chain(ChainNext) /\ []<>consumer_ready

--------------------------------------------------------------------------------
(***************************************************************************)
(* Each buffer behaves as the queue it stands for in the environment that  *)
(* the others make: it gives away what it was given, in order, and the     *)
(* buffer before it keeps an offer until it is taken.  For the skid buffer *)
(* this is RefinesFifo.                                                    *)
(***************************************************************************)
FifoModelRefines == Q!RefinesFifo

(***************************************************************************)
(* The same for the zero-latency buffer: a value that passes straight      *)
(* through is not also kept, and a kept value goes first.                  *)
(***************************************************************************)
ZeroLatencyRefines == Zl!RefinesFifo

(***************************************************************************)
(* The same for the flop: it never loads over a value it has not passed    *)
(* on.                                                                     *)
(***************************************************************************)
FlopRefines == Flop!RefinesFifo

Contained == Flop!Contents \o Zl!Contents \o Contents \o elements

(***************************************************************************)
(* Between resets the chain as a whole is a queue: what the producer was   *)
(* told is taken comes out once and in order, whatever passes combination- *)
(* ally through several buffers in one cycle.                              *)
(***************************************************************************)
ChainInOrder ==
  [][~rst => LET in == IF Accepted THEN Append(Contained, push_data) ELSE Contained
             IN  /\ Contained' = IF Consumed THEN Tail(in) ELSE in
                 /\ Consumed => Flop!to_data = Head(in)]_chain

(***************************************************************************)
(* A value in the chain is passed on to the consumer: no ready waits for a *)
(* valid that waits for it.                                                *)
(***************************************************************************)
ChainDelivers == Contained # <<>> ~> (Consumed \/ rst)

(***************************************************************************)
(* The flop does not halve the rate of the chain: while the consumer is    *)
(* ready it takes an offer in the cycle in which it passes its own value   *)
(* on, and has a value again in the next cycle.                            *)
(***************************************************************************)
FullThroughput == Flop!FullThroughput

(***************************************************************************)
(* The producer gets rid of the value it offers, or the blocks are reset.  *)
(***************************************************************************)
ProducerIsServed == push_valid ~> (Accepted \/ rst)

================================================================================
