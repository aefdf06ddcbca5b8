------------------------------- MODULE MCPipeline --------------------------------
(***************************************************************************)
(* Four stages and two state elements whose read-to-write ranges overlap:  *)
(* s is read in stage 0 and gets its next value in stage 2 or 3, t is read *)
(* in stage 2 and written in stage 3.  An activation in stage 2 may wait   *)
(* for t while one in stage 0 waits for s.  The input is received in stage *)
(* 0, so that the block can be idle.  The outputs are sent from stage 3    *)
(* and are not mutually exclusive, so block conversion adds the one-shot   *)
(* logic.                                                                  *)
(***************************************************************************)
EXTENDS RegisterCombining

CONSTANTS a, y, z, s, t, k

RecvStage == [c \in {a} |-> 0]
SendStage == [c \in {y, z} |-> 3]
ReadStage == [e \in {s, t} |-> IF e = s THEN 0 ELSE 2]
NextStages == [e \in {s, t} |-> IF e = s THEN {2, 3} ELSE {3}]
Zero == [e \in {s, t} |-> 0]

Plan(recvs, sends, n, w, v) ==
  [recvs |-> recvs, sends |-> [d \in {{}} |-> sends],
   next |-> [e \in {s, t} |-> IF e = s THEN n ELSE 3], writes |-> w, value |-> v]

AllPlans == {Plan({a}, {y, z}, 2, {s, t}, 1), Plan({}, {z}, 3, {s}, 0)}
FirstPlan == Plan({}, {z}, 3, {s}, 0)

(***************************************************************************)
(* The region of s has three stages, so that the register behind it is not *)
(* in a group with those inside it, and the groups meet the condition of   *)
(* RegisterChains.  A mistake in forming them fails here already.          *)
(***************************************************************************)
ASSUME GroupsAreSafe == GroupsLoadedAfterRead /\ mutex_chains # {}

================================================================================
