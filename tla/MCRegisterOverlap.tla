----------------------------- MODULE MCRegisterOverlap -----------------------------
(***************************************************************************)
(* Two mutual-exclusion regions that overlap in one stage: s is read in    *)
(* stage 0 and gets its next value in stage 1 or 2, t is read in stage 1   *)
(* and written in stage 2.  Stages 0 and 1 exclude each other, and so do 1 *)
(* and 2, but 0 and 2 may be active together.  The datum received in stage *)
(* 0 is carried through a register after stage 0 and one after stage 1,    *)
(* which SplitOneChain puts into one group.                                *)
(***************************************************************************)
EXTENDS RegisterCombining

CONSTANTS a, z, s, t, k

RecvStage == [c \in {a} |-> 0]
SendStage == [c \in {z} |-> 2]
ReadStage == [e \in {s, t} |-> IF e = s THEN 0 ELSE 1]
NextStages == [e \in {s, t} |-> IF e = s THEN {1, 2} ELSE {2}]
Zero == [e \in {s, t} |-> 0]

Plan(recvs, sends, n, w, v) ==
  [recvs |-> recvs, sends |-> [d \in {{}} |-> sends],
   next |-> [e \in {s, t} |-> IF e = s THEN n ELSE 2], writes |-> w, value |-> v]

AllPlans ==
  {Plan({a}, {z}, 1, {s, t}, 1), Plan({a}, {z}, 2, {s}, 0),
   Plan({a}, {}, 2, {t}, 0), Plan({}, {z}, 1, {}, 0)}
FirstPlan == Plan({}, {z}, 1, {}, 0)

================================================================================
