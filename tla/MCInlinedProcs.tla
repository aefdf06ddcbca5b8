----------------------------- MODULE MCInlinedProcs -----------------------------
(***************************************************************************)
(* A proc top receives a value, sends it or its complement to mid and a    *)
(* request to late, and joins the two answers before it sends the result.  *)
(* Proc mid takes part only in every third activation; proc late polls     *)
(* for the request and answers one activation later.  With initial state 2 *)
(* top never waits for an answer and overruns them.                        *)
(*                                                                         *)
(*   top :  rIn --> sA --> sAlt --> rB --+                                 *)
(*             \--> sH -----------> rG --+--> join --> sOut                *)
(*   mid :  rA --> sB               late :  rH --> sG                      *)
(***************************************************************************)
EXTENDS InlinedProcs

CONSTANTS top, mid, late, rIn, sA, sAlt, sH, rB, rG, join, sOut, rA, sB, rH, sG,
          in, out, a, b, g, h

Of(f, n) == (CHOOSE pair \in f : pair[1] = n)[2]
MCProc == [n \in Nodes |-> IF n \in {rA, sB} THEN mid
                           ELSE IF n \in {rH, sG} THEN late ELSE top]
MCOp == [n \in Nodes |-> IF n = join THEN "after_all"
                         ELSE IF n \in {rIn, rA, rB, rG, rH} THEN "receive" ELSE "send"]
MCChannel == [n \in Nodes \ {join} |->
  Of({<<rIn, in>>, <<sA, a>>, <<sAlt, a>>, <<rA, a>>, <<sB, b>>, <<rB, b>>, <<sH, h>>, <<rH, h>>,
      <<sG, g>>, <<rG, g>>, <<sOut, out>>}, n)]
MCPreds == [n \in Nodes |->
  Of({<<rIn, {}>>, <<sA, {rIn}>>, <<sH, {rIn}>>, <<sAlt, {sA}>>, <<rB, {sAlt}>>, <<rG, {sH}>>,
      <<join, {rB, rG}>>, <<sOut, {join}>>, <<rA, {}>>, <<sB, {rA}>>,
      <<rH, {}>>, <<sG, {rH}>>}, n)]
MCUsers == [n \in {rIn, rA, rB, rG, rH} |->
  Of({<<rIn, {sA, sAlt, sOut}>>, <<rA, {sB}>>, <<rB, {sOut}>>, <<rG, {sOut}>>,
      <<rH, {late}>>}, n)]
MCOrder == <<rIn, sA, sAlt, sH, rH, sG, late, rA, sB, mid, rB, rG, join, sOut, top>>
MCInitStates == {[p \in Procs |-> IF p = top THEN s ELSE 0] : s \in {0, 2}}

MCActive(n, env) ==
  IF n \in {rA, sB} THEN env.state = 2
  ELSE IF n \in {sAlt, sG} THEN env.state = 1
  ELSE IF n = rH THEN env.state = 0
  ELSE IF n = sA THEN env.state # 1
  ELSE IF n \in {rB, rG} THEN env.state # 2 ELSE TRUE
MCData(n, env) ==
  IF n = sA THEN env.got[rIn].data
  ELSE IF n = sAlt THEN (1 + env.got[rIn].data) % 2
  ELSE IF n = sB THEN env.got[rA].data
  ELSE IF n = sOut THEN (env.got[rIn].data + env.got[rB].data + env.got[rG].data) % 2
  ELSE 1
MCNextState(p, env) ==
  IF p = late THEN (IF env.got[rH].valid THEN 1 ELSE 0)
  ELSE IF p = mid THEN (env.state + 1) % 3
  ELSE IF env.state = 2 THEN 2 ELSE 1 - env.state

ASSUME LateLooksAtValid == LooksAtValid

================================================================================
