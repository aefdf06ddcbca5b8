------------------------------ MODULE InlinedProcs ------------------------------
(***************************************************************************)
(* The proc that proc inlining makes of a network of procs                 *)
(* (passes/proc_inlining_pass.cc).  Each proc becomes a proc thread: an    *)
(* activation bit that travels along its token graph, held in the state of *)
(* the container proc where it has to wait.  An internal channel becomes a *)
(* virtual channel: wires, and for FIFO depth 1 one saved value.           *)
(*                                                                         *)
(* One tick of the container evaluates all nodes in a topological order of *)
(* the container's graph, which has an edge from every send on a virtual   *)
(* channel to its receives, and then updates the state elements.  A proc   *)
(* stands for the sink node of its own thread.                             *)
(***************************************************************************)
EXTENDS Naturals, Sequences

CONSTANTS
  Procs, Nodes, Channels, Values, Zero, Inputs, Outputs,
  proc, op, channel, Preds, NonBlocking,
  Active(_, _), Data(_, _), NextState(_, _), InitStates,
  users,       \* users[r]: the nodes and sinks that depend on the data of receive r
  order,       \* the nodes and sinks in the order in which a tick evaluates them
  MaxPending   \* how many values wait on an external channel at most

Internal == Channels \ (Inputs \cup Outputs)
Receives == {n \in Nodes : op[n] = "receive"}
NodesOf(p) == {n \in Nodes : proc[n] = p}
ProcOf(n) == IF n \in Procs THEN n ELSE proc[n]
IsVirtual(n) == n \in Nodes /\ op[n] # "after_all" /\ channel[n] \in Internal
Nothing == [data |-> Zero, valid |-> FALSE]

(***************************************************************************)
(* Where the activation of a node comes from: its predecessors in the      *)
(* token graph, or the thread's activation bit.  The sink follows the      *)
(* nodes nothing follows.                                                  *)
(***************************************************************************)
Terminal(p) == {n \in NodesOf(p) : \A m \in Nodes : n \notin Preds[m]}
ActivationsFrom(n) ==
  IF n \in Procs THEN Terminal(n)
  ELSE IF Preds[n] = {} THEN {"source"} ELSE Preds[n]

Position(n) == CHOOSE j \in DOMAIN order : order[j] = n

Envs(p) == [state : Values,
            got : [NodesOf(p) \cap Receives -> [data : Values, valid : BOOLEAN]]]

(***************************************************************************)
(* What the verifier and VerifyTokenDependencies ensure: the token graph   *)
(* has an order, each proc has a token node, and a node that depends on    *)
(* the data of a receive comes after it in the token graph.                *)
(***************************************************************************)
Follows(r, n) ==
  \A S \in SUBSET Nodes :
    /\ ActivationsFrom(n) \cap Nodes \subseteq S
    /\ \A m \in S : Preds[m] \subseteq S
    => r \in S

Used(n, e) ==
  [state |-> e.state,
   got |-> [r \in DOMAIN e.got |-> IF n \in users[r] THEN e.got[r] ELSE Nothing]]

(***************************************************************************)
(* The result x of receive r as the network means it: a non-blocking       *)
(* receive that finds no data gives zero.                                  *)
(***************************************************************************)
Meant(r, x) == IF r \in NonBlocking /\ ~x.valid THEN Nothing ELSE x

(***************************************************************************)
(* Whether the procs use the data of a non-blocking receive only when its  *)
(* valid bit says that there is some.                                      *)
(***************************************************************************)
MeantEnv(e) == [state |-> e.state, got |-> [r \in DOMAIN e.got |-> Meant(r, e.got[r])]]

LooksAtValid ==
  \A p \in Procs : \A e \in Envs(p) :
    /\ NextState(p, e) = NextState(p, MeantEnv(e))
    /\ \A n \in NodesOf(p) : /\ Active(n, e) = Active(n, MeantEnv(e))
                             /\ Data(n, e) = Data(n, MeantEnv(e))

ASSUME InlinedProcsAssumption ==
  /\ proc \in [Nodes -> Procs] /\ op \in [Nodes -> {"send", "receive", "after_all"}]
  /\ channel \in [{n \in Nodes : op[n] # "after_all"} -> Channels]
  /\ Preds \in [Nodes -> SUBSET Nodes]
  /\ \A n \in Nodes : \A m \in Preds[n] : proc[m] = proc[n]
  /\ \A n \in Nodes : op[n] # "after_all" => \A m, k \in Preds[n] : m = k
  /\ \A p \in Procs : NodesOf(p) # {}
  /\ Nodes \cap Procs = {} /\ "source" \notin Nodes \cup Procs
  /\ Inputs \subseteq Channels /\ Outputs \subseteq Channels
  /\ InitStates \subseteq [Procs -> Values] /\ Zero \in Values /\ MaxPending \in Nat

ASSUME OrderAssumption ==
  /\ order \in Seq(Nodes \cup Procs)
  /\ \A n \in Nodes \cup Procs : \E j \in DOMAIN order : order[j] = n
  /\ \A j, k \in DOMAIN order : order[j] = order[k] => j = k
  /\ \A n \in Nodes \cup Procs : \A m \in ActivationsFrom(n) \ {"source"} :
       Position(m) < Position(n)
  /\ \A n, m \in Nodes : IsVirtual(n) /\ IsVirtual(m) /\ channel[n] = channel[m]
       /\ op[n] = "send" /\ op[m] = "receive" => Position(n) < Position(m)

ASSUME DataAssumption ==
  /\ users \in [Receives -> SUBSET (Nodes \cup Procs)]
  /\ \A r \in Receives : \A n \in users[r] : ProcOf(n) = proc[r] /\ Follows(r, n)
  /\ \A p \in Procs : \A e \in Envs(p) :
       /\ NextState(p, e) \in Values
       /\ \A n \in NodesOf(p) : Active(n, e) \in BOOLEAN /\ Data(n, e) \in Values
  /\ \A p \in Procs : \A e \in Envs(p) :
       /\ NextState(p, e) = NextState(p, Used(p, e))
       /\ \A n \in NodesOf(p) :
            Active(n, e) = Active(n, Used(n, e)) /\ Data(n, e) = Data(n, Used(n, e))

(***************************************************************************)
(* Which nodes are activated in every tick in which receive r is: the ones *)
(* that follow it without a blocking virtual receive or another branch in  *)
(* between.  The received data is kept in the state if some user is not    *)
(* among them.  (The pass asks a BDD of the container's logic, which may   *)
(* prove more implications than the activation network alone.)  As tokens  *)
(* run in no circles, the largest set with this property is the right one. *)
(***************************************************************************)
AlwaysWith(r) ==
  UNION {W \in SUBSET (Nodes \cup Procs) :
           \A n \in W \ {r} : /\ ActivationsFrom(n) \subseteq W
                              /\ ~(IsVirtual(n) /\ n \in Receives \ NonBlocking)}

(***************************************************************************)
(* Plausible mistakes in the definitions that follow them.                 *)
(***************************************************************************)
MistakeLooksAtNeighbours ==
  {r \in Receives : \E n \in users[r] : r \in ActivationsFrom(n) /\ n \notin AlwaysWith(r)}

Saved == {r \in Receives : ~(users[r] \subseteq AlwaysWith(r))}

VARIABLES
  \* the state elements of the container
  activation,              \* of each thread
  holds,                   \* the activations each node holds on to
  data_valid, data_state,  \* of each virtual channel of depth 1
  received,                \* saved results of receives
  proc_state,
  \* the tick in progress
  at, fired,               \* the next node, and the activated ones before it
  send_fired, data_in, receive_fired,
  result,                  \* what each receive presents in this tick
  \* the rest
  fifo_depth, external, failed,
  \* history: the abstract network's view
  done, got

elements == <<activation, data_valid, data_state, received, proc_state>>
wires == <<send_fired, data_in, receive_fired>>
vars == <<elements, holds, at, fired, wires, result, fifo_depth, external, failed, done, got>>

Init ==
  /\ activation = [p \in Procs |-> TRUE]
  /\ holds = [n \in Nodes \cup Procs |-> {}]
  /\ data_valid = [c \in Internal |-> FALSE] /\ data_state = [c \in Internal |-> Zero]
  /\ received = [r \in Receives |-> Nothing] /\ proc_state \in InitStates
  /\ at = 1 /\ fired = {}
  /\ send_fired = [c \in Internal |-> FALSE] /\ data_in = [c \in Internal |-> Zero]
  /\ receive_fired = [c \in Internal |-> FALSE] /\ result = [r \in Receives |-> Nothing]
  /\ fifo_depth \in [Internal -> {0, 1}]
  /\ external = [c \in Inputs \cup Outputs |-> <<>>] /\ failed = FALSE
  /\ done = {} /\ got = [r \in Receives |-> Nothing]

--------------------------------------------------------------------------------
(***************************************************************************)
(* The activation network.                                                 *)
(***************************************************************************)
ActivationIn(n) ==
  {m \in ActivationsFrom(n) : IF m = "source" THEN activation[ProcOf(n)] ELSE m \in fired}
HasActivation(n) == holds[n] \cup ActivationIn(n)

(***************************************************************************)
(* Whether a node is activated in this tick.  Sends and receives on        *)
(* external channels pass an activation on at once.                        *)
(***************************************************************************)
Passes(n) == ActivationIn(n) = ActivationsFrom(n)
Gathers(n, stall) == HasActivation(n) = ActivationsFrom(n) /\ ~stall

(***************************************************************************)
(* An activation is held until the node is activated.  No other node looks *)
(* at it, so that its next value is noted on the spot.                     *)
(***************************************************************************)
MistakeHoldsOnlyNew(n, activated) ==
  holds' = [holds EXCEPT ![n] = IF activated THEN {} ELSE ActivationIn(n)]

Holds(n, activated) ==
  holds' = [holds EXCEPT ![n] = IF activated THEN {} ELSE HasActivation(n)]

(***************************************************************************)
(* What the users of a receive see in this tick.                           *)
(***************************************************************************)
Presented(r) == IF r \in Saved /\ r \notin fired THEN received[r] ELSE result[r]

Env(p) == [state |-> proc_state[p],
           got |-> [r \in NodesOf(p) \cap Receives |-> Presented(r)]]

Predicate(n) == Active(n, Env(proc[n]))

Evaluated(n, activated) ==
  /\ at' = at + 1
  /\ fired' = IF activated THEN fired \cup {n} ELSE fired
  /\ UNCHANGED <<elements, fifo_depth, failed>>

Executed(n, activated) == done' = IF activated THEN done \cup {n} ELSE done

At(n) == at <= Len(order) /\ order[at] = n

--------------------------------------------------------------------------------
(***************************************************************************)
(* CreateVirtualSend and AttachSend: several sends on a channel select     *)
(* their data one after the other.                                         *)
(***************************************************************************)
FirstSend(n) ==
  \A m \in Nodes : op[m] = "send" /\ channel[m] = channel[n] => Position(n) <= Position(m)

VirtualSend(n) ==
  /\ At(n) /\ n \in Nodes /\ op[n] = "send" /\ IsVirtual(n)
  /\ LET c == channel[n]
         sends == Passes(n) /\ Predicate(n)
     IN  /\ send_fired' = [send_fired EXCEPT ![c] = @ \/ sends]
         /\ data_in' = [data_in EXCEPT ![c] =
              IF sends \/ FirstSend(n) THEN Data(n, Env(proc[n])) ELSE @]
  /\ Evaluated(n, Passes(n)) /\ Executed(n, Passes(n))
  /\ UNCHANGED <<holds, receive_fired, result, external, got>>

(***************************************************************************)
(* VirtualChannel: whether it has data, and which comes first.             *)
(***************************************************************************)
valid_out(c) == send_fired[c] \/ (fifo_depth[c] = 1 /\ data_valid[c])
data_out(c) == IF fifo_depth[c] = 1 /\ data_valid[c] THEN data_state[c] ELSE data_in[c]

Stalled(n) == n \notin NonBlocking /\ Predicate(n) /\ ~valid_out(channel[n])

VirtualReceive(n) ==
  /\ At(n) /\ n \in Receives /\ IsVirtual(n)
  /\ LET c == channel[n]
         activated == Gathers(n, Stalled(n))
         reads == activated /\ Predicate(n)
     IN  /\ Evaluated(n, activated) /\ Executed(n, activated) /\ Holds(n, activated)
         /\ receive_fired' = [receive_fired EXCEPT ![c] = @ \/ reads]
         /\ result' = [result EXCEPT ![n] =
              [data |-> IF reads THEN data_out(c) ELSE Zero,
               valid |-> IF n \in NonBlocking THEN Predicate(n) /\ valid_out(c) ELSE reads]]
         /\ got' = IF activated THEN [got EXCEPT ![n] = Meant(n, result'[n])] ELSE got
  /\ UNCHANGED <<send_fired, data_in, external>>

ActivatedSend(n) ==
  /\ At(n) /\ n \in Nodes /\ op[n] = "send" /\ ~IsVirtual(n)
  /\ Passes(n) /\ Predicate(n) => Len(external[channel[n]]) < MaxPending
  /\ Evaluated(n, Passes(n)) /\ Executed(n, Passes(n))
  /\ external' = IF Passes(n) /\ Predicate(n)
                 THEN [external EXCEPT ![channel[n]] = Append(@, Data(n, Env(proc[n])))]
                 ELSE external
  /\ UNCHANGED <<holds, wires, result, got>>

(***************************************************************************)
(* A blocking receive from outside makes the whole tick wait.              *)
(***************************************************************************)
ActivatedReceive(n) ==
  /\ At(n) /\ n \in Receives /\ ~IsVirtual(n)
  /\ LET q == external[channel[n]]
         enabled == Passes(n) /\ Predicate(n)
     IN  /\ enabled /\ n \notin NonBlocking => q # <<>>
         /\ Evaluated(n, Passes(n)) /\ Executed(n, Passes(n))
         /\ result' = [result EXCEPT ![n] =
              IF enabled /\ q # <<>> THEN [data |-> Head(q), valid |-> TRUE] ELSE Nothing]
         /\ external' = IF enabled /\ q # <<>>
                        THEN [external EXCEPT ![channel[n]] = Tail(q)] ELSE external
         /\ got' = IF Passes(n) THEN [got EXCEPT ![n] = result'[n]] ELSE got
  /\ UNCHANGED <<holds, wires>>

AfterAll(n) ==
  /\ At(n) /\ n \in Nodes /\ op[n] = "after_all"
  /\ Evaluated(n, Gathers(n, FALSE)) /\ Executed(n, Gathers(n, FALSE))
  /\ Holds(n, Gathers(n, FALSE))
  /\ UNCHANGED <<wires, result, external, got>>

Sink(p) ==
  /\ At(p) /\ p \in Procs
  /\ Evaluated(p, Gathers(p, FALSE)) /\ Holds(p, Gathers(p, FALSE))
  /\ IF Gathers(p, FALSE)
     THEN /\ done' = done \ NodesOf(p)
          /\ got' = [r \in Receives |-> IF proc[r] = p THEN Nothing ELSE got[r]]
     ELSE UNCHANGED <<done, got>>
  /\ UNCHANGED <<wires, result, external>>

--------------------------------------------------------------------------------
MistakeOneValueTooFew(c) == valid_out(c) /\ ~receive_fired[c]

(***************************************************************************)
(* AddDataLossAssertion.                                                   *)
(***************************************************************************)
DataLoss(c) ==
  /\ IF fifo_depth[c] = 0 THEN valid_out(c) ELSE send_fired[c] /\ data_valid[c]
  /\ ~receive_fired[c]

AssertionFails ==
  /\ at = Len(order) + 1 /\ ~failed /\ \E c \in Internal : DataLoss(c)
  /\ failed' = TRUE
  /\ UNCHANGED <<elements, holds, at, fired, wires, result, fifo_depth, external, done, got>>

(***************************************************************************)
(* The next values of the state elements.                                  *)
(***************************************************************************)
EndTick ==
  /\ at = Len(order) + 1 /\ ~failed /\ \A c \in Internal : ~DataLoss(c)
  /\ activation' = [p \in Procs |-> p \in fired]
  /\ data_state' = [c \in Internal |->
       IF fifo_depth[c] = 1 /\ send_fired[c] THEN data_in[c] ELSE data_state[c]]
  /\ data_valid' = [c \in Internal |->
       /\ fifo_depth[c] = 1
       /\ \/ send_fired[c] /\ data_valid[c]
          \/ (send_fired[c] \/ data_valid[c]) /\ ~receive_fired[c]]
  /\ received' = [r \in Receives |-> IF r \in Saved THEN Presented(r) ELSE received[r]]
  /\ proc_state' = [p \in Procs |-> IF p \in fired THEN NextState(p, Env(p)) ELSE proc_state[p]]
  /\ at' = 1 /\ fired' = {}
  /\ send_fired' = [c \in Internal |-> FALSE] /\ data_in' = [c \in Internal |-> Zero]
  /\ receive_fired' = [c \in Internal |-> FALSE]
  /\ result' = [r \in Receives |-> Nothing]
  /\ UNCHANGED <<holds, fifo_depth, external, failed, done, got>>

Tick ==
  \/ \E n \in Nodes : \/ VirtualSend(n) \/ VirtualReceive(n) \/ ActivatedSend(n)
                      \/ ActivatedReceive(n) \/ AfterAll(n)
  \/ \E p \in Procs : Sink(p)
  \/ AssertionFails \/ EndTick

Put(c, v) == Len(external[c]) < MaxPending /\ external' = [external EXCEPT ![c] = Append(@, v)]
Take(c) == external[c] # <<>> /\ external' = [external EXCEPT ![c] = Tail(@)]

Environment ==
  /\ ~failed
  /\ (\E c \in Inputs, v \in Values : Put(c, v)) \/ (\E c \in Outputs : Take(c))
  /\ UNCHANGED <<elements, holds, at, fired, wires, result, fifo_depth, failed, done, got>>

Next == Tick \/ Environment

Spec == Init /\ [][Next]_vars

(***************************************************************************)
(* The container is ticked for ever and its inputs are supplied.           *)
(***************************************************************************)
FairSpec == Spec /\ WF_vars(Tick) /\ WF_vars(Environment)

--------------------------------------------------------------------------------
(***************************************************************************)
(* What a virtual channel holds, in the middle of a tick too.              *)
(***************************************************************************)
Contents(c) ==
  LET q == (IF fifo_depth[c] = 1 /\ data_valid[c] THEN <<data_state[c]>> ELSE <<>>)
           \o (IF send_fired[c] THEN <<data_in[c]>> ELSE <<>>)
  IN  IF receive_fired[c] /\ q # <<>> THEN Tail(q) ELSE q

Network == INSTANCE TokenNetwork WITH
  state <- [p \in Procs |-> IF p \in fired THEN NextState(p, Env(p)) ELSE proc_state[p]],
  queue <- [c \in Channels |-> IF c \in Internal THEN Contents(c) ELSE external[c]]

(***************************************************************************)
(* The condition under which inlining is shown to be correct.  AttachSend  *)
(* and AttachReceive merge the sends and the receives of a channel by a    *)
(* disjunction, which is right only as long as no two of them fire in one  *)
(* tick.  It is the network's own promise (a channel's sends exclude each  *)
(* other), which the pass relies on and does not establish.                *)
(***************************************************************************)
ChannelsExclusive ==
  \A n \in Nodes : At(n) /\ IsVirtual(n) =>
    /\ op[n] = "send" /\ Passes(n) /\ Predicate(n) => ~send_fired[channel[n]]
    /\ op[n] = "receive" /\ Gathers(n, Stalled(n)) /\ Predicate(n) => ~receive_fired[channel[n]]

(***************************************************************************)
(* Inlining preserves the meaning of the network: until an assertion       *)
(* fails, each tick of the container executes sends, receives and          *)
(* completions that the network could execute, in token order, once per    *)
(* activation, with the same data, and no value on an inlined channel is   *)
(* lost, repeated or overtaken.  The history got records what the network  *)
(* means by the result of a receive; the sends, predicates and states of   *)
(* the container are computed from the result it presents.                 *)
(***************************************************************************)
RefinesTokenNetwork == Network!Spec

(***************************************************************************)
(* The data-loss assertion fires only where a value has no room: some      *)
(* inlined channel would have to hold more than its FIFO depth.            *)
(***************************************************************************)
LossIsReal == failed => \E c \in Internal : Len(Contents(c)) > fifo_depth[c]

(***************************************************************************)
(* No activation bit is lost on the way through a thread: every proc keeps *)
(* completing activations unless the assertion has stopped the container.  *)
(***************************************************************************)
ThreadsComplete == \A p \in Procs : []<>(p \in fired \/ failed)

================================================================================
