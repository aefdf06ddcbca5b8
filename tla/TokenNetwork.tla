------------------------------ MODULE TokenNetwork ------------------------------
(***************************************************************************)
(* What a network of procs means when only the tokens order the sends and  *)
(* receives of an activation: each is executed once, after the ones its    *)
(* token comes from, and the activation is complete when all are done.     *)
(***************************************************************************)
EXTENDS Naturals, Sequences, FiniteSets

CONSTANTS
  Procs, Nodes, Channels, Values, Zero,
  Inputs, Outputs,    \* the channels that are external to the network
  proc, op, channel,  \* of each node
  Preds,              \* Preds[n]: the nodes n's token comes from
  NonBlocking,        \* the non-blocking receives
  Active(_, _),       \* Active(n, env): n has no predicate or it is true
  Data(_, _),         \* Data(n, env): what n sends
  NextState(_, _),    \* NextState(p, env)
  InitStates          \* the initial values of the procs' states

NodesOf(p) == {n \in Nodes : proc[n] = p}
Receives == {n \in Nodes : op[n] = "receive"}
Nothing == [data |-> Zero, valid |-> FALSE]

VARIABLES
  done,    \* the nodes executed in the current activation of their proc
  got,     \* the results of its receives
  state,
  queue

vars == <<done, got, state, queue>>

Env(p) == [state |-> state[p],
           got |-> [m \in NodesOf(p) \cap Receives |-> got[m]]]

Ready(n) == n \notin done /\ Preds[n] \subseteq done
Done(n) == done' = done \cup {n} /\ UNCHANGED state

Send(n) ==
  /\ Ready(n) /\ op[n] = "send" /\ Done(n)
  /\ queue' = IF Active(n, Env(proc[n]))
              THEN [queue EXCEPT ![channel[n]] = Append(@, Data(n, Env(proc[n])))]
              ELSE queue
  /\ UNCHANGED got

Receive(n) ==
  /\ Ready(n) /\ op[n] = "receive" /\ Done(n)
  /\ LET q == queue[channel[n]]
     IN  \/ /\ Active(n, Env(proc[n])) /\ q # <<>>
            /\ got' = [got EXCEPT ![n] = [data |-> Head(q), valid |-> TRUE]]
            /\ queue' = [queue EXCEPT ![channel[n]] = Tail(q)]
         \/ /\ ~Active(n, Env(proc[n])) \/ (n \in NonBlocking /\ q = <<>>)
            /\ got' = [got EXCEPT ![n] = Nothing] /\ UNCHANGED queue

AfterAll(n) ==
  /\ Ready(n) /\ op[n] = "after_all" /\ Done(n)
  /\ UNCHANGED <<got, queue>>

Complete(p) ==
  /\ NodesOf(p) \subseteq done
  /\ done' = done \ NodesOf(p)
  /\ state' = [state EXCEPT ![p] = NextState(p, Env(p))]
  /\ got' = [m \in Receives |-> IF proc[m] = p THEN Nothing ELSE got[m]]
  /\ UNCHANGED queue

Environment ==
  /\ \/ \E c \in Inputs, v \in Values : queue' = [queue EXCEPT ![c] = Append(@, v)]
     \/ \E c \in Outputs : queue[c] # <<>> /\ queue' = [queue EXCEPT ![c] = Tail(@)]
  /\ UNCHANGED <<done, got, state>>

Init ==
  /\ done = {} /\ got = [m \in Receives |-> Nothing]
  /\ state \in InitStates
  /\ queue = [c \in Channels |-> <<>>]

Next ==
  \/ \E n \in Nodes : Send(n) \/ Receive(n) \/ AfterAll(n)
  \/ \E p \in Procs : Complete(p)
  \/ Environment

Spec == Init /\ [][Next]_vars

================================================================================
