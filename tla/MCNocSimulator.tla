----------------------------- MODULE MCNocSimulator -----------------------------
(***************************************************************************)
(* Two routers with a link in each direction, so that the inputs of each   *)
(* depend on the outputs of the other and only the pipeline stage of lba   *)
(* breaks the circle.  Router A has source s0, over a link, and sink k1;   *)
(* B has source s1 and sink k0, for which the flits of both compete.       *)
(***************************************************************************)
EXTENDS NocSimulator

CONSTANTS s0, s1, l0, lab, lba, A, B, k0, k1, c0, c1, c2, c3, c4, c5, c6, c7, c8

MCVcCount == [c \in Connections |-> IF c \in {c2, c3, c4} THEN 2 ELSE 1]

MCMaxQueueSize ==
  [c \in Connections |-> [vc \in 0..MCVcCount[c] - 1 |-> IF c \in {c1, c5} THEN 2 ELSE 1]]

MCSinkConnection ==
  [n \in Sources \cup Links |->
     CASE n = s0 -> c0 [] n = l0 -> c1 [] n = s1 -> c2 [] n = lab -> c4 [] n = lba -> c8]

MCSrcConnection ==
  [n \in Sinks \cup Links |->
     CASE n = l0 -> c0 [] n = lab -> c3 [] n = lba -> c7 [] n = k0 -> c5 [] n = k1 -> c6]

MCInputConnection == [r \in Routers |-> IF r = A THEN <<c1, c8>> ELSE <<c2, c4>>]
MCOutputConnection == [r \in Routers |-> IF r = A THEN <<c3, c6>> ELSE <<c5, c7>>]

MCForwardStages == [l \in Links |-> IF l = lab THEN 0 ELSE 1]
MCReverseStages == [l \in Links |-> IF l = lab THEN 1 ELSE 0]

(***************************************************************************)
(* The flits from A to B change to channel 1.                              *)
(***************************************************************************)
MCRoute(r, c, vc, destination) ==
  CASE r = A /\ destination = k0 -> <<c3, 1>>
    [] r = A /\ destination = k1 -> <<c6, 0>>
    [] r = B /\ destination = k0 -> <<c5, 0>>
    [] r = B /\ destination = k1 -> <<c7, 0>>

MCFlows ==
  {[source |-> s0, vc |-> 0, destination |-> k0],
   [source |-> s1, vc |-> 0, destination |-> k0],
   [source |-> s1, vc |-> 1, destination |-> k1]}

MCMaxWait == [f \in MCFlows |-> IF f.source = s1 /\ f.vc = 0 THEN 2 ELSE 1]

MCOrders ==
  {<<s0, s1, l0, lab, lba, A, B, k0, k1>>, <<s1, s0, lba, lab, l0, B, A, k1, k0>>}

================================================================================
