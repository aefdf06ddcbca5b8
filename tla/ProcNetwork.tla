------------------------------- MODULE ProcNetwork -------------------------------
(***************************************************************************)
(* What executing a network of procs means, with no scheduler: every proc  *)
(* repeats its activation for ever, executing its nodes one by one, and a  *)
(* blocking receive waits for its channel.                                 *)
(***************************************************************************)
EXTENDS ProcNodes

VARIABLES
  pc,       \* the node each proc executes next
  state,    \* the state each proc's activation started with
  values,   \* the results of the nodes executed in the activation
  queue

vars == <<pc, state, values, queue>>

Env(p) == EnvAt(state[p], values[p], pc[p])

Step(p, result) ==
  /\ pc' = [pc EXCEPT ![p] = pc[p] + 1]
  /\ values' = [values EXCEPT ![p] = Append(values[p], result)]
  /\ UNCHANGED state

Receive(p) ==
  /\ pc[p] \in DOMAIN execution_order[p] /\ IsReceive(NodeAt(p, pc[p]))
  /\ LET n == NodeAt(p, pc[p])
     IN  \/ /\ Active(p, pc[p], Env(p)) /\ queue[n.ch] # <<>>
            /\ Step(p, ValueRead(n, Head(queue[n.ch])))
            /\ queue' = [queue EXCEPT ![n.ch] = AfterRead(n.ch, queue[n.ch])]
         \/ /\ ~Active(p, pc[p], Env(p)) \/ (n.op = NonBlocking /\ queue[n.ch] = <<>>)
            /\ Step(p, NothingRead(n)) /\ UNCHANGED queue

Send(p) ==
  /\ pc[p] \in DOMAIN execution_order[p] /\ NodeAt(p, pc[p]).op = "send"
  /\ LET ch == NodeAt(p, pc[p]).ch
     IN  queue' = IF Active(p, pc[p], Env(p))
                  THEN [queue EXCEPT ![ch] =
                          AfterWrite(ch, queue[ch], Data(p, pc[p], Env(p)))]
                  ELSE queue
  /\ Step(p, None)

NextValue(p) ==
  /\ pc[p] \in DOMAIN execution_order[p] /\ NodeAt(p, pc[p]).op = "next"
  /\ Step(p, None) /\ UNCHANGED queue

ActiveNext(p) ==
  {i \in DOMAIN execution_order[p] :
     NodeAt(p, i).op = "next" /\ Active(p, i, EnvAt(state[p], values[p], i))}

(***************************************************************************)
(* The activation is over: the state is the one active next value, or what *)
(* it was.                                                                 *)
(***************************************************************************)
Activate(p) ==
  /\ pc[p] = Len(execution_order[p]) + 1
  /\ pc' = [pc EXCEPT ![p] = 1]
  /\ values' = [values EXCEPT ![p] = <<>>]
  /\ \/ ActiveNext(p) = {} /\ UNCHANGED state
     \/ \E i \in ActiveNext(p) :
          /\ ActiveNext(p) = {i}
          /\ state' = [state EXCEPT ![p] = Data(p, i, EnvAt(state[p], values[p], i))]
  /\ UNCHANGED queue

Restart ==
  /\ pc' = [p \in Procs |-> 1]
  /\ state' = [p \in Procs |-> InitValue]
  /\ values' = [p \in Procs |-> <<>>]
  /\ UNCHANGED queue

(***************************************************************************)
(* The caller writes the input channels and reads the output channels.     *)
(***************************************************************************)
Caller ==
  /\ \/ \E ch \in Inputs, v \in Values :
          queue' = [queue EXCEPT ![ch] = AfterWrite(ch, queue[ch], v)]
     \/ \E ch \in Outputs :
          queue[ch] # <<>> /\ queue' = [queue EXCEPT ![ch] = AfterRead(ch, queue[ch])]
  /\ UNCHANGED <<pc, state, values>>

Init ==
  /\ pc = [p \in Procs |-> 1]
  /\ state = [p \in Procs |-> InitValue]
  /\ values = [p \in Procs |-> <<>>]
  /\ queue = initial_values

Next ==
  \/ \E p \in Procs : Receive(p) \/ Send(p) \/ NextValue(p) \/ Activate(p)
  \/ Restart
  \/ Caller

Spec == Init /\ [][Next]_vars

================================================================================
