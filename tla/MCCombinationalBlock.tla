-------------------------- MODULE MCCombinationalBlock --------------------------
(***************************************************************************)
(* A proc that receives from both a and b in every activation and sends    *)
(* the combined value.                                                     *)
(***************************************************************************)
EXTENDS CombinationalBlock

JoinPlans == {[recvs |-> {"a", "b"}, sends |-> {"x"}]}

================================================================================
