---------------------------- MODULE MCPipelineReport ----------------------------
(***************************************************************************)
(* Two stages.  Stage 0 receives without blocking and sends on x and y: on *)
(* y always, and on x only when nothing was received.                      *)
(***************************************************************************)
EXTENDS BlockPipeline

CONSTANTS a, x, y, k

RecvStage == [c \in {a} |-> 0]
SendStage == [c \in {x, y} |-> 0]
Empty == [s \in {} |-> 0]

Plan ==
  [recvs |-> {a}, sends |-> [d \in {{}, {a}} |-> IF d = {} THEN {x, y} ELSE {y}],
   next |-> Empty, writes |-> {}, value |-> 0]

AllPlans == {Plan}

================================================================================
