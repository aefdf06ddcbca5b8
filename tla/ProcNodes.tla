-------------------------------- MODULE ProcNodes --------------------------------
(***************************************************************************)
(* A network of procs as the evaluators see it: each proc instance is its  *)
(* list of nodes in topological order, of which only sends, receives and   *)
(* next_value nodes matter here.  What a node computes is a constant       *)
(* operator of the values computed before it, because the evaluation of    *)
(* every other node is deterministic and local.                            *)
(***************************************************************************)
EXTENDS Naturals, Sequences

CONSTANTS
  Procs, Channels, Values,
  SingleValue,        \* the channels of kind kSingleValue
  Inputs, Outputs,    \* receive-only and send-only channels: the caller's
  execution_order,    \* the nodes of each proc
  Active(_, _, _),    \* Active(p, i, env): node i has no predicate or it is true
  Data(_, _, _),      \* Data(p, i, env): what node i sends or writes to the state
  initial_values,     \* what each channel holds at first
  InitValue,          \* a proc's state before its first activation
  Zero, None

Blocking == "receive"
NonBlocking == "receive (non-blocking)"

Node ==
  [op : {Blocking, NonBlocking, "send"}, ch : Channels]
    \cup [op : {"next"}, ch : {None}]

ASSUME ProcNodesAssumption ==
  /\ Inputs \subseteq Channels /\ Outputs \subseteq Channels
  /\ SingleValue \subseteq Channels
  /\ execution_order \in [Procs -> Seq(Node)]
  /\ initial_values \in [Channels -> Seq(Values)]
  /\ None \notin Procs

NodeAt(p, i) == execution_order[p][i]

(***************************************************************************)
(* The state of the activation and the results of its first i - 1 nodes.   *)
(***************************************************************************)
EnvAt(state, values, i) == [state |-> state, values |-> SubSeq(values, 1, i - 1)]

IsReceive(n) == n.op \in {Blocking, NonBlocking}

HasIo(p) == \E i \in DOMAIN execution_order[p] : NodeAt(p, i).op # "next"

(***************************************************************************)
(* The result of a receive that does not read: its predicate is false, or  *)
(* it is non-blocking and the queue is empty.                              *)
(***************************************************************************)
NothingRead(n) == IF n.op = NonBlocking THEN <<Zero, FALSE>> ELSE Zero

ValueRead(n, v) == IF n.op = NonBlocking THEN <<v, TRUE>> ELSE v

(***************************************************************************)
(* What reading and writing do to a channel's queue (module ChannelQueue). *)
(***************************************************************************)
AfterRead(ch, q) == IF ch \in SingleValue THEN q ELSE Tail(q)
AfterWrite(ch, q, v) == IF ch \in SingleValue THEN <<v>> ELSE Append(q, v)

================================================================================
