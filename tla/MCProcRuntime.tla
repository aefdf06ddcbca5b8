------------------------------ MODULE MCProcRuntime ------------------------------
(***************************************************************************)
(* Three procs.  "counter" has no sends or receives.  "front" receives     *)
(* from the caller, passes a 1 on to "back" and then waits for its answer; *)
(* it takes a hint from a single-value channel if there is one.  "back"    *)
(* answers every other value, so that the second one deadlocks the two.    *)
(***************************************************************************)
EXTENDS ProcRuntime

CONSTANTS counter, front, back, in, hint, mid, answer, out

Op(o, c) == [op |-> o, ch |-> c]

MCExecutionOrder ==
  [p \in Procs |->
     CASE p = counter -> <<Op("next", None)>>
       [] p = front -> <<Op(Blocking, in), Op("send", mid), Op(NonBlocking, hint),
                         Op(Blocking, answer), Op("next", None), Op("next", None)>>
       [] p = back -> <<Op(Blocking, mid), Op("send", out), Op("send", answer),
                        Op("next", None)>>]

MCActive(p, i, env) ==
  CASE p = front /\ i \in {2, 4} -> env.values[1] = 1
    [] p = front /\ i = 5 -> env.values[3][2]
    [] p = front /\ i = 6 -> env.values[1] = 0 /\ env.state = 1
    [] p = back /\ i = 3 -> env.state = 0
    [] OTHER -> TRUE

MCData(p, i, env) ==
  CASE p = front /\ i = 2 -> env.state
    [] p = front /\ i = 5 -> env.values[3][1]
    [] p = front /\ i = 6 -> 0
    [] p = back /\ i \in {2, 3} -> env.values[1]
    [] OTHER -> 1 - env.state

MCInitialValues == [ch \in Channels |-> <<>>]

MCOrderBack == <<counter, back, front>>

Request(k, c, m) == [kind |-> k, counts |-> c, max_ticks |-> m]

MCRequests ==
  {Request("Tick", <<>>, None), Request("TickUntilBlocked", <<>>, None),
   Request("TickUntilBlocked", <<>>, 1),
   Request("TickUntilOutput", [c \in {out} |-> 2], 2),
   Request("TickUntilOutput", [c \in {mid} |-> 1], None)}

================================================================================
