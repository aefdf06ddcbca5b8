------------------------------ MODULE MCInlinedPoll ------------------------------
(***************************************************************************)
(* Proc filter receives a value and passes it on only if it is 2.  Proc    *)
(* poll looks for a value in every activation and sends on the data of its *)
(* non-blocking receive as it is, relying on zero where there is none.     *)
(*                                                                         *)
(*   filter :  rIn --> sA            poll :  rA --> sOut                   *)
(***************************************************************************)
EXTENDS InlinedProcs

CONSTANTS filter, poll, rIn, sA, rA, sOut, in, a, out

MCProc == [n \in Nodes |-> IF n \in {rIn, sA} THEN filter ELSE poll]
MCOp == [n \in Nodes |-> IF n \in {rIn, rA} THEN "receive" ELSE "send"]
MCChannel == [n \in Nodes |-> IF n = rIn THEN in ELSE IF n = sOut THEN out ELSE a]
MCPreds == [n \in Nodes |-> IF n = sA THEN {rIn} ELSE IF n = sOut THEN {rA} ELSE {}]
MCUsers == [n \in {rIn, rA} |-> IF n = rIn THEN {sA} ELSE {sOut}]
MCOrder == <<rIn, sA, rA, sOut, filter, poll>>
MCInitStates == {[p \in Procs |-> 0]}

MCActive(n, env) == n = sA => env.got[rIn].data = 2
MCData(n, env) == IF n = sA THEN env.got[rIn].data ELSE IF n = sOut THEN env.got[rA].data ELSE 0
MCNextState(p, env) == 0

================================================================================
