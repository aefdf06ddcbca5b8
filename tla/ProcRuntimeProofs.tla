---------------------------- MODULE ProcRuntimeProofs ----------------------------
(***************************************************************************)
(* The scheduler of the serial runtime loses no proc, runs none twice in a *)
(* tick, reports no deadlock that is not one, and executes the network and *)
(* nothing else, for every network, every order of instances and every     *)
(* caller.                                                                 *)
(***************************************************************************)
EXTENDS ProcRuntime, SequenceTheorems, TLAPS

IsFcn(f, S) == f = [x \in S |-> f[x]]

(***************************************************************************)
(* The types the arguments below need.  What the procs compute is left     *)
(* open.                                                                   *)
(***************************************************************************)
TypeInvariant ==
  /\ IsFcn(node_index, Procs) /\ IsFcn(state, Procs)
  /\ IsFcn(node_values, Procs) /\ IsFcn(active_next, Procs)
  /\ IsFcn(queue, Channels)
  /\ ready_instances \in Seq(Procs)
  /\ blocked_instances \in [Channels -> Procs \cup {None}]
  /\ running \in Procs \cup {None}
  /\ progress_made \in BOOLEAN /\ progress_made_on_io_procs \in BOOLEAN
  /\ completed \in [Procs -> Nat]
  /\ phase \in {"idle", "call", "tick"}
  /\ phase # "idle" => status = None /\ request \in Requests

InReady(p) == \E i \in 1..Len(ready_instances) : ready_instances[i] = p

(***************************************************************************)
(* What the handlers of p's nodes, other than an active send, have in      *)
(* common for the other procs.                                             *)
(***************************************************************************)
Quiet(p) ==
  HandleReceive(p) \/ BlockedOnReceive(p) \/ SkipSend(p) \/ HandleNext(p) \/ Completed(p)

(***************************************************************************)
(* A send or receive names a channel.                                      *)
(***************************************************************************)
LEMMA NodeChannel ==
  ASSUME NEW p \in Procs, NEW i \in DOMAIN execution_order[p], NodeAt(p, i).op # "next"
  PROVE  NodeAt(p, i).ch \in Channels
<1>1. NodeAt(p, i) \in Node
  BY ProcNodesAssumption DEF NodeAt
<1> QED BY Zenon, <1>1 DEF Node

(***************************************************************************)
(* While p executes nodes that send nothing, a proc that waits for a       *)
(* channel goes on waiting for it: p may only read channels that are not   *)
(* empty, and changes no continuation but its own.                         *)
(***************************************************************************)
LEMMA QuietKeepsWaiting ==
  ASSUME TypeInvariant, NEW r \in Procs, Quiet(r), NEW p \in Procs, p # r,
         NEW ch \in Channels, WaitsOn(p, ch)
  PROVE  WaitsOn(p, ch)'
<1>1. /\ node_index'[p] = node_index[p] /\ state'[p] = state[p]
      /\ node_values'[p] = node_values[p]
  <2> USE DEF TypeInvariant, IsFcn
  <2>1. CASE HandleReceive(r)
    BY Zenon, <2>1 DEF HandleReceive, GoOn, NodeDone
  <2>2. CASE BlockedOnReceive(r)
    BY Zenon, <2>2 DEF BlockedOnReceive
  <2>3. CASE SkipSend(r)
    BY Zenon, <2>3 DEF SkipSend, GoOn, NodeDone
  <2>4. CASE HandleNext(r)
    BY Zenon, <2>4 DEF HandleNext, GoOn, NodeDone
  <2>5. CASE Completed(r)
    BY Zenon, <2>5 DEF Completed
  <2> QED BY Zenon, <2>1, <2>2, <2>3, <2>4, <2>5 DEF Quiet
<1>2. queue[ch] = <<>> => queue'[ch] = <<>>
  <2>1. CASE HandleReceive(r)
    <3>1. PICK n : \/ queue[n.ch] # <<>> /\ queue' = [queue EXCEPT ![n.ch] = AfterRead(n.ch, queue[n.ch])]
                   \/ queue' = queue
      BY Zenon, <2>1 DEF HandleReceive
    <3> QED BY Zenon, <3>1 DEF TypeInvariant, IsFcn
  <2>2. CASE ~HandleReceive(r)
    BY Zenon, <2>2 DEF Quiet, BlockedOnReceive, SkipSend, HandleNext, Completed
  <2> QED BY Zenon, <2>1, <2>2
<1>3. raced' = raced
  BY Zenon DEF Quiet, HandleReceive, BlockedOnReceive, SkipSend, HandleNext, Completed, GoOn, call
<1> QED BY Zenon, <1>1, <1>2, <1>3 DEF WaitsOn

(***************************************************************************)
(* A send wakes only procs that wait for its own channel.                  *)
(***************************************************************************)
LEMMA SendKeepsWaiting ==
  ASSUME TypeInvariant, NEW r \in Procs, SentOnChannel(r), NEW p \in Procs, p # r,
         NEW ch \in Channels, ch # NodeAt(r, at).ch, WaitsOn(p, ch)
  PROVE  WaitsOn(p, ch)'
<1>1. /\ node_index'[p] = node_index[p] /\ state'[p] = state[p]
      /\ node_values'[p] = node_values[p] /\ queue'[ch] = queue[ch]
      /\ raced' = raced
  BY Zenon DEF TypeInvariant, IsFcn, SentOnChannel, NodeDone, ResumeAfterSend, call
<1> QED BY Zenon, <1>1 DEF WaitsOn

(***************************************************************************)
(* Appending to the ready list keeps its procs and adds one.               *)
(***************************************************************************)
LEMMA ReadyAppend ==
  ASSUME NEW s \in Seq(Procs), NEW p \in Procs
  PROVE  /\ Append(s, p) \in Seq(Procs)
         /\ \E i \in 1..Len(Append(s, p)) : Append(s, p)[i] = p
         /\ \A q : (\E i \in 1..Len(s) : s[i] = q)
                     => \E i \in 1..Len(Append(s, p)) : Append(s, p)[i] = q
<1>1. /\ Append(s, p) \in Seq(Procs) /\ Len(Append(s, p)) = Len(s) + 1
      /\ \A i \in 1..Len(s) : Append(s, p)[i] = s[i]
      /\ Append(s, p)[Len(s) + 1] = p
  BY AppendProperties
<1>2. Len(s) \in Nat
  OBVIOUS
<1>3. 1..Len(s) \subseteq 1..Len(s) + 1 /\ Len(s) + 1 \in 1..Len(s) + 1
  BY <1>2
<1> QED BY Zenon, <1>1, <1>3

(***************************************************************************)
(* After a send the sender, the proc blocked on the channel and every      *)
(* ready proc are ready.                                                   *)
(***************************************************************************)
LEMMA Woken ==
  ASSUME ready_instances \in Seq(Procs), NEW p \in Procs, NEW ch,
         blocked_instances[ch] \in Procs \cup {None}, Unblock(p, ch)
  PROVE  /\ ready_instances' \in Seq(Procs)
         /\ \A q \in Procs : InReady(q) \/ q = p \/ q = blocked_instances[ch] => InReady(q)'
<1>1. CASE blocked_instances[ch] = None
  <2>1. ready_instances' = Append(ready_instances, p)
    BY Zenon, <1>1 DEF Unblock
  <2>2. None \notin Procs
    BY Zenon, ProcNodesAssumption
  <2> QED BY SMTT(30), <1>1, <2>1, <2>2, ReadyAppend DEF InReady
<1>2. CASE blocked_instances[ch] # None
  <2> DEFINE b == blocked_instances[ch]
             s == Append(ready_instances, b)
  <2>1. ready_instances' = Append(s, p) /\ b \in Procs
    BY Zenon, <1>2 DEF Unblock
  <2>2. /\ s \in Seq(Procs) /\ \E i \in 1..Len(s) : s[i] = b
        /\ \A q : InReady(q) => \E i \in 1..Len(s) : s[i] = q
    BY ZenonT(30), <2>1, ReadyAppend DEF InReady
  <2> HIDE DEF b, s
  <2>3. /\ Append(s, p) \in Seq(Procs)
        /\ \E i \in 1..Len(Append(s, p)) : Append(s, p)[i] = p
        /\ \A q : (\E i \in 1..Len(s) : s[i] = q)
                    => \E i \in 1..Len(Append(s, p)) : Append(s, p)[i] = q
    BY ZenonT(30), <2>2, ReadyAppend
  <2>4. \A q \in Procs : InReady(q) \/ q = p \/ q = b => InReady(q)'
    BY Zenon, <2>1, <2>2, <2>3 DEF InReady
  <2> QED BY Zenon, <2>1, <2>3, <2>4 DEF b
<1> QED BY Zenon, <1>1, <1>2

--------------------------------------------------------------------------------
(***************************************************************************)
(* Every step keeps the types.                                             *)
(***************************************************************************)
LEMMA TypeStep ==
  ASSUME TypeInvariant, [Next]_vars
  PROVE  TypeInvariant'
<1> USE DEF TypeInvariant, IsFcn
<1>1. CASE Dispatch
  <2>1. Head(ready_instances) \in Procs /\ Tail(ready_instances) \in Seq(Procs)
    BY Zenon, <1>1, HeadTailProperties DEF Dispatch
  <2> QED BY Zenon, <1>1, <2>1 DEF Dispatch, continuations, call
<1>2. ASSUME NEW p \in Procs, HandleReceive(p) PROVE TypeInvariant'
  <2>1. IsFcn(queue', Channels)
    BY Zenon, <1>2 DEF HandleReceive
  <2>2. IsFcn(node_values', Procs)
    BY Zenon, <1>2 DEF HandleReceive, GoOn, NodeDone
  <2> QED BY Zenon, <1>2, <2>1, <2>2 DEF HandleReceive, GoOn, NodeDone, call
<1>3. ASSUME NEW p \in Procs, BlockedOnReceive(p) PROVE TypeInvariant'
  <2>1. NodeAt(p, at).ch \in Channels
    BY Zenon, <1>3, NodeChannel DEF BlockedOnReceive, Executing, Blocking
  <2>2. blocked_instances' \in [Channels -> Procs \cup {None}]
    BY Zenon, <1>3, <2>1 DEF BlockedOnReceive, Block
  <2> QED BY Zenon, <1>3, <2>2 DEF BlockedOnReceive, Block, Progress, call
<1>4. ASSUME NEW p \in Procs, SentOnChannel(p) PROVE TypeInvariant'
  <2> DEFINE ch == NodeAt(p, at).ch
  <2>1. ch \in Channels
    BY Zenon, <1>4, NodeChannel DEF SentOnChannel, Executing
  <2>3. ready_instances' \in Seq(Procs)
    <3>1. Unblock(p, ch) /\ blocked_instances[ch] \in Procs \cup {None}
      BY Zenon, <1>4, <2>1 DEF SentOnChannel
    <3> HIDE DEF ch
    <3> QED BY Zenon, <3>1, Woken
  <2>4. blocked_instances' \in [Channels -> Procs \cup {None}]
    BY Zenon, <1>4, <2>1 DEF SentOnChannel, Unblock
  <2>5. IsFcn(queue', Channels) /\ IsFcn(node_values', Procs) /\ IsFcn(node_index', Procs)
    BY Zenon, <1>4 DEF SentOnChannel, NodeDone, ResumeAfterSend
  <2> QED BY Zenon, <1>4, <2>3, <2>4, <2>5 DEF SentOnChannel, Progress, NodeDone, call
<1>5. ASSUME NEW p \in Procs, SkipSend(p) PROVE TypeInvariant'
  BY Zenon, <1>5 DEF SkipSend, GoOn, NodeDone, call
<1>6. ASSUME NEW p \in Procs, HandleNext(p) PROVE TypeInvariant'
  BY Zenon, <1>6 DEF HandleNext, GoOn, NodeDone, call
<1>7. ASSUME NEW p \in Procs, Completed(p) PROVE TypeInvariant'
  <2>1. IsFcn(state', Procs)
    BY Zenon, <1>7 DEF Completed
  <2>2. completed' \in [Procs -> Nat]
    BY SMTT(30), <1>7 DEF Completed, Finish
  <2>3. progress_made' \in BOOLEAN /\ progress_made_on_io_procs' \in BOOLEAN
    BY Zenon, <1>7 DEF Completed, Finish, Progress
  <2>4. IsFcn(node_index', Procs) /\ IsFcn(node_values', Procs) /\ IsFcn(active_next', Procs)
    BY Zenon, <1>7 DEF Completed
  <2> QED BY Zenon, <1>7, <2>1, <2>2, <2>3, <2>4 DEF Completed, Finish, call
<1>8. ASSUME NEW p \in Procs, MultipleNext(p) PROVE TypeInvariant'
  BY Zenon, <1>8 DEF MultipleNext, continuations, scheduler
<1>9. CASE TickInternalReturns
  <2>1. /\ UNCHANGED <<continuations, queue, scheduler>>
        /\ \/ phase' = "idle"
           \/ phase' = "call" /\ UNCHANGED <<request, status>> /\ phase = "tick"
    <3>1. request.kind \in CallKinds
      BY Zenon, <1>9, ProcRuntimeAssumption DEF TickInternalReturns
    <3> QED BY Zenon, <1>9, <3>1 DEF TickInternalReturns, Return, CallKinds
  <2> QED BY Zenon, <2>1 DEF continuations, scheduler
<1>10. CASE LoopHead
  <2>1. CASE StartTickInternal
    BY Zenon, <1>10, <2>1, ProcRuntimeAssumption DEF LoopHead, StartTickInternal, continuations
  <2>2. CASE phase' = "idle" /\ UNCHANGED <<continuations, queue, scheduler>>
    BY Zenon, <2>2 DEF continuations, scheduler
  <2> QED BY Zenon, <1>10, <2>1, <2>2 DEF LoopHead, Return
<1>11. ASSUME NEW r \in Requests, Call(r) PROVE TypeInvariant'
  BY Zenon, <1>11 DEF Call, continuations, scheduler
<1>12. CASE ResetState
  BY Zenon, <1>12 DEF ResetState
<1>13. ASSUME NEW ch \in Inputs, NEW v \in Values, WriteInput(ch, v) PROVE TypeInvariant'
  BY Zenon, <1>13 DEF WriteInput, continuations, scheduler
<1>14. ASSUME NEW ch \in Outputs, ReadOutput(ch) PROVE TypeInvariant'
  BY Zenon, <1>14 DEF ReadOutput, continuations, scheduler
<1>15. CASE UNCHANGED vars
  BY Zenon, <1>15 DEF vars, continuations, scheduler, call
<1> QED
  BY Zenon, <1>1, <1>2, <1>3, <1>4, <1>5, <1>6, <1>7, <1>8, <1>9, <1>10, <1>11, <1>12, <1>13,
     <1>14, <1>15 DEF Next, TickInternal

(***************************************************************************)
(* The types hold in every state.                                          *)
(***************************************************************************)
THEOREM TypeCorrect == Spec => []TypeInvariant
<1>1. ASSUME Init PROVE TypeInvariant
  <2>1. IsFcn(queue, Channels)
    BY Zenon, <1>1, ProcNodesAssumption DEF Init, IsFcn
  <2>2. completed \in [Procs -> Nat] /\ blocked_instances \in [Channels -> Procs \cup {None}]
    BY Zenon, <1>1 DEF Init
  <2>3. progress_made \in BOOLEAN /\ progress_made_on_io_procs \in BOOLEAN
    BY Zenon, <1>1 DEF Init
  <2>4. ready_instances \in Seq(Procs)
    BY <1>1 DEF Init
  <2> QED BY Zenon, <1>1, <2>1, <2>2, <2>3, <2>4 DEF Init, TypeInvariant, IsFcn
<1> QED BY <1>1, TypeStep, PTL DEF Spec

--------------------------------------------------------------------------------
(***************************************************************************)
(* At most one proc has blocking receives on a channel.                    *)
(***************************************************************************)
SingleReader ==
  \A p, q \in Procs : \A i \in DOMAIN execution_order[p], j \in DOMAIN execution_order[q] :
    /\ NodeAt(p, i).op = Blocking /\ NodeAt(q, j).op = Blocking
    /\ NodeAt(p, i).ch = NodeAt(q, j).ch
    => p = q

(***************************************************************************)
(* During TickInternal every proc is running, ready, done, or in the map   *)
(* of blocked instances under the channel it waits for.                    *)
(***************************************************************************)
Accounted(p) ==
  \/ running = p
  \/ InReady(p)
  \/ completed[p] > 0
  \/ \E ch \in Channels : blocked_instances[ch] = p /\ WaitsOn(p, ch)

SchedulerInvariant == phase = "tick" => \A p \in Procs : Accounted(p)

(***************************************************************************)
(* Without progress every proc that is not waiting has its turn to come;   *)
(* without progress of procs with sends or receives, every one of those.   *)
(***************************************************************************)
Parked(p) == running = p \/ InReady(p) \/ Waiting(p)

ProgressInvariant ==
  phase = "tick" =>
    /\ ~progress_made => \A p \in Procs : completed[p] = 0 /\ Parked(p)
    /\ ~progress_made_on_io_procs => \A p \in Procs : HasIo(p) => Parked(p)

(***************************************************************************)
(* What the caller does with the queues wakes no proc, except that another *)
(* thread may write the channel a proc waits for.                          *)
(***************************************************************************)
LEMMA CallerKeepsWaiting ==
  ASSUME TypeInvariant, phase = "tick",
         \/ \E ch \in Inputs, v \in Values : WriteInput(ch, v)
         \/ \E ch \in Outputs : ReadOutput(ch),
         NEW p \in Procs, NEW c \in Channels, WaitsOn(p, c)
  PROVE  WaitsOn(p, c)'
<1>1. UNCHANGED <<node_index, state, node_values>>
  BY Zenon DEF WriteInput, ReadOutput, continuations
<1>2. queue'[c] = <<>> \/ c \in raced'
  <2>1. ASSUME NEW ch \in Inputs, NEW v \in Values, WriteInput(ch, v)
        PROVE  queue'[c] = <<>> \/ c \in raced'
    <3>1. /\ queue' = [queue EXCEPT ![ch] = AfterWrite(ch, queue[ch], v)]
          /\ raced' = raced \cup {ch}
      BY Zenon, <2>1 DEF WriteInput
    <3> QED BY Zenon, <3>1 DEF WaitsOn, TypeInvariant, IsFcn
  <2>2. ASSUME NEW ch \in Outputs, ReadOutput(ch)
        PROVE  queue'[c] = <<>> \/ c \in raced'
    <3>1. /\ queue[ch] # <<>> /\ queue' = [queue EXCEPT ![ch] = AfterRead(ch, queue[ch])]
          /\ raced' = raced
      BY Zenon, <2>2 DEF ReadOutput
    <3> QED BY Zenon, <3>1 DEF WaitsOn, TypeInvariant, IsFcn
  <2> QED BY Zenon, <2>1, <2>2
<1> QED BY Zenon, <1>1, <1>2 DEF WaitsOn

(***************************************************************************)
(* A blocked proc waits for the channel it is blocked on.                  *)
(***************************************************************************)
LEMMA BlockedWaits ==
  ASSUME TypeInvariant, NEW p \in Procs, BlockedOnReceive(p)
  PROVE  /\ NodeAt(p, at).ch \in Channels
         /\ WaitsOn(p, NodeAt(p, at).ch)'
         /\ blocked_instances' = [blocked_instances EXCEPT ![NodeAt(p, at).ch] = p]
<1>1. NodeAt(p, at).ch \in Channels
  BY Zenon, NodeChannel DEF BlockedOnReceive, Executing, Blocking
<1>2. node_index'[p] = at
  BY Zenon DEF TypeInvariant, IsFcn, BlockedOnReceive
<1>3. UNCHANGED <<state, node_values, queue, at, raced>>
  BY Zenon DEF BlockedOnReceive, call
<1>4. /\ at \in DOMAIN execution_order[p] /\ NodeAt(p, at).op = Blocking
      /\ Active(p, at, EnvAt(state[p], node_values[p], at)) /\ queue[NodeAt(p, at).ch] = <<>>
  BY Zenon DEF BlockedOnReceive, Executing, Env
<1>5. WaitsOn(p, NodeAt(p, at).ch)'
  BY Zenon, <1>2, <1>3, <1>4 DEF WaitsOn
<1> QED BY Zenon, <1>1, <1>5 DEF BlockedOnReceive, Block

(***************************************************************************)
(* The popped instance is the one running, the others are still ready.     *)
(***************************************************************************)
LEMMA Popped ==
  ASSUME TypeInvariant, Dispatch, NEW p \in Procs, InReady(p)
  PROVE  running' = p \/ InReady(p)'
<1>1. PICK i \in 1..Len(ready_instances) : ready_instances[i] = p
  BY Zenon DEF InReady
<1>2. /\ ready_instances \in Seq(Procs) /\ ready_instances # <<>>
      /\ ready_instances' = Tail(ready_instances) /\ running' = Head(ready_instances)
  BY Zenon DEF TypeInvariant, Dispatch
<1>3. /\ Len(ready_instances') = Len(ready_instances) - 1
      /\ \A j \in 1..Len(ready_instances') : ready_instances'[j] = ready_instances[j + 1]
  BY Zenon, <1>2, HeadTailProperties
<1>4. Len(ready_instances) \in Nat
  BY <1>2
<1>5. CASE i = 1
  BY <1>1, <1>2, <1>5
<1>6. CASE i # 1
  <2>1. i - 1 \in 1..Len(ready_instances') /\ (i - 1) + 1 = i
    BY <1>3, <1>4, <1>6
  <2> QED BY Zenon, <1>1, <1>3, <2>1 DEF InReady
<1> QED BY Zenon, <1>5, <1>6

(***************************************************************************)
(* No step of the runtime loses a proc.                                    *)
(***************************************************************************)
LEMMA SchedulerStep ==
  ASSUME TypeInvariant, SingleReader, SchedulerInvariant, [Next]_vars
  PROVE  SchedulerInvariant'
<1> SUFFICES ASSUME phase' = "tick", NEW p \in Procs
             PROVE  Accounted(p)'
  BY Zenon DEF SchedulerInvariant
<1>1. CASE UNCHANGED <<phase, running, ready_instances, completed, blocked_instances>>
           /\ Accounted(p) /\ (\A ch \in Channels : WaitsOn(p, ch) => WaitsOn(p, ch)')
  BY Zenon, <1>1 DEF Accounted, InReady
<1>2. CASE Dispatch
  <2>1. Accounted(p) /\ running = None /\ p # None
    BY Zenon, <1>2, ProcNodesAssumption DEF Dispatch, SchedulerInvariant
  <2>2. UNCHANGED <<continuations, queue, blocked_instances, completed, raced>>
    BY Zenon, <1>2 DEF Dispatch, call
  <2>3. \A ch \in Channels : WaitsOn(p, ch) => WaitsOn(p, ch)'
    BY Zenon, <2>2 DEF WaitsOn, continuations
  <2> QED BY Zenon, <1>2, <2>1, <2>2, <2>3, Popped DEF Accounted
<1>3. ASSUME NEW r \in Procs, Quiet(r) PROVE Accounted(p)'
  <2>1. phase = "tick" /\ running = r
    BY Zenon, <1>3 DEF Quiet, HandleReceive, BlockedOnReceive, SkipSend, HandleNext, Completed, Executing
  <2>2. Accounted(p)
    BY Zenon, <2>1 DEF SchedulerInvariant
  <2>3. CASE p = r
    <3>1. CASE HandleReceive(r) \/ SkipSend(r) \/ HandleNext(r)
      <4>1. running' = running
        BY Zenon, <3>1 DEF HandleReceive, SkipSend, HandleNext, GoOn
      <4> QED BY Zenon, <2>1, <2>3, <4>1 DEF Accounted
    <3>2. CASE BlockedOnReceive(r)
      <4> DEFINE ch == NodeAt(r, at).ch
      <4>1. ch \in Channels /\ blocked_instances'[ch] = r
        BY Zenon, <3>2, BlockedWaits DEF TypeInvariant
      <4>2. WaitsOn(r, ch)'
        BY Zenon, <3>2, BlockedWaits
      <4>3. ch' = ch
        BY Zenon, <3>2 DEF BlockedOnReceive
      <4> HIDE DEF ch
      <4> QED BY Zenon, <2>3, <4>1, <4>2, <4>3 DEF Accounted
    <3>3. CASE Completed(r)
      <4>1. completed'[r] = completed[r] + 1 /\ completed[r] \in Nat
        BY Zenon, <3>3 DEF Completed, Finish, TypeInvariant
      <4> QED BY SMTT(30), <2>3, <4>1 DEF Accounted
    <3> QED BY Zenon, <1>3, <3>1, <3>2, <3>3 DEF Quiet
  <2>4. CASE p # r
    <3>1. ready_instances' = ready_instances /\ completed'[p] = completed[p]
      BY ZenonT(30), <1>3, <2>4
         DEF Quiet, HandleReceive, BlockedOnReceive, SkipSend, HandleNext, Completed, GoOn,
             Finish, Block, TypeInvariant
    <3>2. ASSUME NEW ch \in Channels, blocked_instances[ch] = p, WaitsOn(p, ch)
          PROVE  blocked_instances'[ch] = p
      <4>1. CASE BlockedOnReceive(r)
        <5>1. NodeAt(r, at).ch # ch
          <6>1. at \in DOMAIN execution_order[r] /\ NodeAt(r, at).op = Blocking
            BY ZenonT(30), <4>1 DEF BlockedOnReceive, Executing
          <6> QED BY Zenon, <2>4, <3>2, <6>1 DEF SingleReader, WaitsOn
        <5> QED BY Zenon, <3>2, <4>1, <5>1, BlockedWaits DEF TypeInvariant
      <4>2. CASE ~BlockedOnReceive(r)
        BY Zenon, <1>3, <3>2, <4>2 DEF Quiet, HandleReceive, SkipSend, HandleNext, Completed, GoOn
      <4> QED BY Zenon, <4>1, <4>2
    <3>3. \A ch \in Channels : WaitsOn(p, ch) => WaitsOn(p, ch)'
      BY Zenon, <1>3, <2>4, QuietKeepsWaiting
    <3> QED BY Zenon, <2>1, <2>2, <2>4, <3>1, <3>2, <3>3 DEF Accounted, InReady
  <2> QED BY Zenon, <2>3, <2>4
<1>4. ASSUME NEW r \in Procs, SentOnChannel(r) PROVE Accounted(p)'
  <2> DEFINE ch == NodeAt(r, at).ch
  <2>1. phase = "tick" /\ running = r /\ ch \in Channels /\ Unblock(r, ch)
    BY Zenon, <1>4, NodeChannel DEF SentOnChannel, Executing
  <2>2. Accounted(p) /\ completed' = completed
    BY Zenon, <1>4, <2>1 DEF SchedulerInvariant, SentOnChannel
  <2>3. InReady(p) \/ p = r \/ p = blocked_instances[ch] => InReady(p)'
    BY Zenon, <2>1, Woken DEF TypeInvariant
  <2>4. \A c \in Channels : c # ch => blocked_instances'[c] = blocked_instances[c]
    BY Zenon, <2>1 DEF Unblock, TypeInvariant
  <2>5. p # r => \A c \in Channels : c # ch /\ WaitsOn(p, c) => WaitsOn(p, c)'
    BY Zenon, <1>4, SendKeepsWaiting
  <2> HIDE DEF ch
  <2> QED BY Zenon, <2>1, <2>2, <2>3, <2>4, <2>5 DEF Accounted
<1>5. CASE LoopHead
  <2>1. ready_instances' = proc_instances
    BY Zenon, <1>5 DEF LoopHead, StartTickInternal, Return
  <2> QED BY <2>1, ProcRuntimeAssumption DEF Accounted, InReady
<1>6. CASE \/ \E ch \in Inputs, v \in Values : WriteInput(ch, v)
           \/ \E ch \in Outputs : ReadOutput(ch)
  <2>1. UNCHANGED <<phase, running, ready_instances, completed, blocked_instances>>
    BY Zenon, <1>6 DEF WriteInput, ReadOutput, scheduler
  <2>2. Accounted(p) /\ phase = "tick"
    BY Zenon, <2>1 DEF SchedulerInvariant
  <2>3. \A ch \in Channels : WaitsOn(p, ch) => WaitsOn(p, ch)'
    BY Zenon, <1>6, <2>2, CallerKeepsWaiting
  <2> QED BY Zenon, <1>1, <2>1, <2>2, <2>3
<1>7. CASE UNCHANGED vars
  <2>1. UNCHANGED <<phase, running, ready_instances, completed, blocked_instances,
                    node_index, state, node_values, queue, raced>>
    BY Zenon, <1>7 DEF vars, continuations, scheduler, call
  <2>2. Accounted(p) /\ (\A ch \in Channels : WaitsOn(p, ch) => WaitsOn(p, ch)')
    BY Zenon, <2>1 DEF SchedulerInvariant, WaitsOn
  <2> QED BY Zenon, <1>1, <2>1, <2>2
<1>8. CASE \/ TickInternalReturns \/ ResetState
           \/ \E r \in Procs : MultipleNext(r)
           \/ \E r \in Requests : Call(r)
  <2>1. CASE TickInternalReturns
    <3>1. request.kind \in CallKinds
      BY Zenon, <2>1, ProcRuntimeAssumption DEF TickInternalReturns, TypeInvariant
    <3> QED BY Zenon, <2>1, <3>1 DEF TickInternalReturns, Return, CallKinds
  <2> QED BY Zenon, <1>8, <2>1 DEF ResetState, MultipleNext, Call
<1> QED
  BY Zenon, <1>2, <1>3, <1>4, <1>5, <1>6, <1>7, <1>8 DEF Next, TickInternal, Quiet

(***************************************************************************)
(* If each channel has one reader, TickInternal returns only when every    *)
(* proc has completed its activation or waits for an empty channel: the    *)
(* map of blocked instances, which holds one proc per channel, loses none. *)
(***************************************************************************)
THEOREM TickIsExhaustive ==
  ASSUME SingleReader
  PROVE  Spec => []Exhausted
<1>1. Init => SchedulerInvariant
  BY Zenon DEF Init, SchedulerInvariant
<1>2. ASSUME SchedulerInvariant PROVE Exhausted
  <2> SUFFICES ASSUME phase = "tick", running = None, ready_instances = <<>>, NEW p \in Procs
               PROVE  completed[p] > 0 \/ Waiting(p)
    BY Zenon DEF Exhausted
  <2>1. Accounted(p) /\ p # None
    BY Zenon, <1>2, ProcNodesAssumption DEF SchedulerInvariant
  <2>2. ~InReady(p)
    BY DEF InReady
  <2> QED BY Zenon, <2>1, <2>2 DEF Accounted, Waiting
<1>3. TypeInvariant /\ SchedulerInvariant /\ [Next]_vars => SchedulerInvariant'
  BY Zenon, SchedulerStep
<1> QED BY <1>1, <1>2, <1>3, TypeCorrect, PTL DEF Spec

--------------------------------------------------------------------------------
(***************************************************************************)
(* ProgressInvariant is inductive: a proc leaves the ready list by running *)
(* and, without progress, stops running only to wait.                      *)
(***************************************************************************)
LEMMA ProgressStep ==
  ASSUME TypeInvariant, ProgressInvariant, [Next]_vars
  PROVE  ProgressInvariant'
<1> SUFFICES ASSUME phase' = "tick", NEW p \in Procs
             PROVE  /\ ~progress_made' => completed'[p] = 0 /\ Parked(p)'
                    /\ ~progress_made_on_io_procs' => (HasIo(p) => Parked(p)')
  BY Zenon DEF ProgressInvariant
<1> DEFINE Goal == /\ ~progress_made' => completed'[p] = 0 /\ Parked(p)'
                   /\ ~progress_made_on_io_procs' => (HasIo(p) => Parked(p)')
<1>1. ASSUME phase = "tick", completed'[p] = completed[p],
             progress_made => progress_made',
             progress_made_on_io_procs => progress_made_on_io_procs',
             Parked(p) => Parked(p)'
      PROVE  Goal
  BY Zenon, <1>1 DEF ProgressInvariant
<1>2. CASE Dispatch
  <2>1. /\ phase = "tick" /\ running = None /\ p # None
        /\ UNCHANGED <<continuations, queue, completed, progress_made, progress_made_on_io_procs,
                       raced>>
    BY Zenon, <1>2, ProcNodesAssumption DEF Dispatch, call
  <2>2. Waiting(p) => Waiting(p)'
    BY Zenon, <2>1 DEF Waiting, WaitsOn, continuations
  <2>3. Parked(p) => Parked(p)'
    BY Zenon, <1>2, <2>1, <2>2, Popped DEF Parked
  <2> QED BY Zenon, <1>1, <2>1, <2>3
<1>3. ASSUME NEW r \in Procs, Quiet(r) PROVE Goal
  <2>1. /\ phase = "tick" /\ running = r /\ ready_instances' = ready_instances
        /\ progress_made => progress_made'
        /\ progress_made_on_io_procs => progress_made_on_io_procs'
    <3>1. CASE HandleReceive(r)
      BY SMTT(30), <3>1 DEF HandleReceive, Executing, GoOn
    <3>2. CASE BlockedOnReceive(r)
      BY Zenon, <3>2 DEF BlockedOnReceive, Executing, Block, Progress
    <3>3. CASE SkipSend(r)
      BY Zenon, <3>3 DEF SkipSend, Executing, GoOn
    <3>4. CASE HandleNext(r)
      BY Zenon, <3>4 DEF HandleNext, Executing, GoOn
    <3>5. CASE Completed(r)
      BY Zenon, <3>5 DEF Completed, Finish, Progress
    <3> QED BY Zenon, <1>3, <3>1, <3>2, <3>3, <3>4, <3>5 DEF Quiet
  <2>2. CASE p # r
    <3>1. completed'[p] = completed[p]
      BY Zenon, <1>3, <2>2 DEF Quiet, HandleReceive, BlockedOnReceive, SkipSend, HandleNext,
                        Completed, GoOn, Finish, TypeInvariant
    <3>2. Waiting(p) => Waiting(p)'
      BY Zenon, <1>3, <2>2, QuietKeepsWaiting DEF Waiting
    <3>3. Parked(p) => Parked(p)'
      BY Zenon, <2>1, <2>2, <3>2 DEF Parked, InReady
    <3> QED BY Zenon, <1>1, <2>1, <3>1, <3>3
  <2>3. CASE p = r
    <3>1. CASE HandleReceive(r) \/ SkipSend(r) \/ HandleNext(r)
      <4>1. running' = running /\ completed' = completed
        BY Zenon, <3>1 DEF HandleReceive, SkipSend, HandleNext, GoOn
      <4>2. Parked(p)'
        BY Zenon, <2>1, <2>3, <4>1 DEF Parked
      <4> QED BY Zenon, <1>1, <2>1, <4>1, <4>2
    <3>2. CASE BlockedOnReceive(r)
      <4> DEFINE ch == NodeAt(r, at).ch
      <4>1. ch \in Channels /\ WaitsOn(r, ch)' /\ ch' = ch
        BY Zenon, <3>2, BlockedWaits DEF BlockedOnReceive
      <4> HIDE DEF ch
      <4>2. Parked(p)'
        BY Zenon, <2>3, <4>1 DEF Parked, Waiting
      <4>3. completed' = completed
        BY Zenon, <3>2 DEF BlockedOnReceive
      <4> QED BY Zenon, <1>1, <2>1, <4>2, <4>3
    <3>3. CASE Completed(r)
      <4>1. progress_made' /\ (HasIo(r) => progress_made_on_io_procs')
        BY Zenon, <3>3 DEF Completed, Finish, Progress
      <4> QED BY Zenon, <2>3, <4>1
    <3> QED BY Zenon, <1>3, <3>1, <3>2, <3>3 DEF Quiet
  <2> QED BY Zenon, <2>2, <2>3
<1>4. ASSUME NEW r \in Procs, SentOnChannel(r) PROVE Goal
  <2>1. HasIo(r)
    BY Zenon, <1>4 DEF SentOnChannel, Executing, HasIo
  <2>2. progress_made' /\ progress_made_on_io_procs'
    BY Zenon, <1>4, <2>1 DEF SentOnChannel, Progress
  <2> QED BY Zenon, <2>2
<1>5. CASE LoopHead
  <2>1. ready_instances' = proc_instances /\ completed' = [q \in Procs |-> 0]
    BY Zenon, <1>5 DEF LoopHead, StartTickInternal, Return
  <2>2. Parked(p)'
    BY <2>1, ProcRuntimeAssumption DEF Parked, InReady
  <2> QED BY Zenon, <2>1, <2>2
<1>6. CASE \/ \E ch \in Inputs, v \in Values : WriteInput(ch, v)
           \/ \E ch \in Outputs : ReadOutput(ch)
  <2>1. phase' = phase /\ UNCHANGED scheduler
    BY Zenon, <1>6 DEF WriteInput, ReadOutput
  <2>2. Waiting(p) => Waiting(p)'
    BY Zenon, <1>6, <2>1, CallerKeepsWaiting DEF Waiting
  <2>3. Parked(p) => Parked(p)'
    BY Zenon, <2>1, <2>2 DEF Parked, InReady, scheduler
  <2> QED BY Zenon, <1>1, <2>1, <2>3 DEF scheduler
<1>7. CASE UNCHANGED vars
  <2>1. phase' = phase /\ UNCHANGED <<scheduler, continuations, queue, raced>>
    BY Zenon, <1>7 DEF vars, call
  <2>2. Parked(p) => Parked(p)'
    BY Zenon, <2>1 DEF Parked, InReady, scheduler, continuations, Waiting, WaitsOn
  <2> QED BY Zenon, <1>1, <2>1, <2>2 DEF scheduler
<1>8. CASE \/ TickInternalReturns \/ ResetState
           \/ \E r \in Procs : MultipleNext(r)
           \/ \E r \in Requests : Call(r)
  <2>1. CASE TickInternalReturns
    <3>1. request.kind \in CallKinds
      BY Zenon, <2>1, ProcRuntimeAssumption DEF TickInternalReturns, TypeInvariant
    <3> QED BY Zenon, <2>1, <3>1 DEF TickInternalReturns, Return, CallKinds
  <2> QED BY Zenon, <1>8, <2>1 DEF ResetState, MultipleNext, Call
<1> QED
  BY Zenon, <1>2, <1>3, <1>4, <1>5, <1>6, <1>7, <1>8 DEF Next, TickInternal, Quiet

(***************************************************************************)
(* What a returned call says stays true until the caller does something.   *)
(***************************************************************************)
LEMMA StatusStep ==
  ASSUME TypeInvariant, ProgressInvariant, DeadlockIsReal, BlockedIsReal, [Next]_vars
  PROVE  DeadlockIsReal' /\ BlockedIsReal'
<1> SUFFICES ASSUME NEW p \in Procs
             PROVE  /\ status' = "Deadlocked" => completed'[p] = 0 /\ Waiting(p)'
                    /\ status' = "Ok" /\ request'.kind = "TickUntilBlocked"
                         => (HasIo(p) => Waiting(p)')
  BY Zenon DEF DeadlockIsReal, BlockedIsReal
<1>1. None # "Ok" /\ None # "Deadlocked"
  BY Zenon, ProcRuntimeAssumption
<1>2. CASE UNCHANGED <<status, request, continuations, queue, completed, raced>>
  <2>1. Waiting(p)' <=> Waiting(p)
    BY Zenon, <1>2 DEF Waiting, WaitsOn, continuations
  <2> QED BY Zenon, <1>2, <2>1 DEF DeadlockIsReal, BlockedIsReal
<1>3. CASE status' \notin {"Ok", "Deadlocked"}
  BY Zenon, <1>3
<1>4. CASE phase' # "idle" /\ status' = None
  BY Zenon, <1>1, <1>3, <1>4
<1>5. CASE TickInternalReturns
  <2>1. /\ phase = "tick" /\ running = None /\ ~InReady(p) /\ p # None
        /\ UNCHANGED <<continuations, queue, scheduler>> /\ request' = request /\ raced' = raced
    <3>1. request.kind \in CallKinds
      BY Zenon, <1>5, ProcRuntimeAssumption DEF TickInternalReturns, TypeInvariant
    <3>2. request' = request /\ raced' = raced
      BY Zenon, <1>5, <3>1 DEF TickInternalReturns, Return, CallKinds
    <3> QED BY <1>5, <3>2, ProcNodesAssumption DEF TickInternalReturns, InReady
  <2>2. /\ ~progress_made => completed[p] = 0 /\ Waiting(p)
        /\ ~progress_made_on_io_procs => (HasIo(p) => Waiting(p))
    BY Zenon, <2>1 DEF ProgressInvariant, Parked
  <2>3. completed' = completed /\ (Waiting(p)' <=> Waiting(p))
    BY Zenon, <2>1 DEF Waiting, WaitsOn, continuations, scheduler
  <2>4. status' = "Deadlocked" => ~progress_made
    <3>1. status = None /\ request.kind \in CallKinds
      BY Zenon, <2>1, ProcRuntimeAssumption DEF TypeInvariant
    <3> QED BY Zenon, <1>1, <1>5, <3>1 DEF TickInternalReturns, Return, CallKinds
  <2>5. status' = "Ok" /\ request.kind = "TickUntilBlocked" => ~progress_made_on_io_procs
    <3>1. status = None
      BY Zenon, <2>1 DEF TypeInvariant
    <3> QED BY Zenon, <1>1, <1>5, <3>1 DEF TickInternalReturns, Return
  <2> QED BY Zenon, <2>1, <2>2, <2>3, <2>4, <2>5
<1>6. CASE LoopHead
  <2>1. status = None
    BY Zenon, <1>6 DEF LoopHead, TypeInvariant
  <2>2. \/ status' = None
        \/ status' = "DeadlineExceeded"
        \/ status' = "Ok" /\ request' = request /\ request.kind = "TickUntilOutput"
    BY Zenon, <1>6, <2>1 DEF LoopHead, Return, StartTickInternal
  <2> QED BY Zenon, <1>1, <2>2
<1>7. ASSUME NEW r \in Procs, MultipleNext(r)
      PROVE  status' \notin {"Ok", "Deadlocked"}
  BY Zenon, <1>7 DEF MultipleNext
<1>8. ASSUME NEW r \in Requests, Call(r)
      PROVE  status' \notin {"Ok", "Deadlocked"}
  BY Zenon, <1>1, <1>8 DEF Call
<1>9. CASE \/ ResetState
           \/ \E ch \in Inputs, v \in Values : WriteInput(ch, v)
           \/ \E ch \in Outputs : ReadOutput(ch)
  <2>1. status' = None \/ status' = "AlreadyExists"
    BY Zenon, <1>9 DEF ResetState, WriteInput, ReadOutput
  <2> QED BY Zenon, <1>1, <1>3, <2>1
<1>10. CASE Dispatch \/ \E r \in Procs : Quiet(r) \/ SentOnChannel(r)
  <2>1. phase = "tick" /\ UNCHANGED call
    BY Zenon, <1>10 DEF Dispatch, Quiet, HandleReceive, BlockedOnReceive, SkipSend, HandleNext,
                 Completed, SentOnChannel, GoOn, Executing
  <2> QED BY Zenon, <1>1, <1>3, <2>1 DEF call, TypeInvariant
<1>11. CASE UNCHANGED vars
  BY Zenon, <1>2, <1>11 DEF vars, scheduler, call
<1> QED
  BY Zenon, <1>3, <1>5, <1>6, <1>7, <1>8, <1>9, <1>10, <1>11 DEF Next, TickInternal, Quiet

(***************************************************************************)
(* For every network and caller, "Proc network is deadlocked" is reported  *)
(* only when every proc waits at a receive and no activation completed.    *)
(***************************************************************************)
THEOREM DeadlocksAreReal == Spec => []DeadlockIsReal
<1>1. Init => ProgressInvariant /\ DeadlockIsReal /\ BlockedIsReal
  BY Zenon, ProcRuntimeAssumption DEF Init, ProgressInvariant, DeadlockIsReal, BlockedIsReal
<1> QED BY <1>1, ProgressStep, StatusStep, TypeCorrect, PTL DEF Spec

(***************************************************************************)
(* For every network and caller, TickUntilBlocked returns only when every  *)
(* proc with sends or receives waits at a receive.                         *)
(***************************************************************************)
THEOREM BlockedIsBlocked == Spec => []BlockedIsReal
<1>1. Init => ProgressInvariant /\ DeadlockIsReal /\ BlockedIsReal
  BY Zenon, ProcRuntimeAssumption DEF Init, ProgressInvariant, DeadlockIsReal, BlockedIsReal
<1> QED BY <1>1, ProgressStep, StatusStep, TypeCorrect, PTL DEF Spec

--------------------------------------------------------------------------------
(***************************************************************************)
(* A list names each of its procs once; a list names p.                    *)
(***************************************************************************)
Distinct(s) == \A i, j \in 1..Len(s) : s[i] = s[j] => i = j

Lists(s, p) == \E i \in 1..Len(s) : s[i] = p

(***************************************************************************)
(* During TickInternal a proc is in one place: it is running, ready once,  *)
(* blocked on one channel, or done for this tick.  Between calls no proc   *)
(* is running, unless the last one failed.                                 *)
(***************************************************************************)
OnePlace(p) ==
  /\ running = p \/ Lists(ready_instances, p) =>
       completed[p] = 0 /\ \A ch \in Channels : blocked_instances[ch] # p
  /\ running = p => ~Lists(ready_instances, p)
  /\ \A c \in Channels : blocked_instances[c] = p =>
       completed[p] = 0 /\ \A d \in Channels : blocked_instances[d] = p => c = d

OnceInvariant ==
  /\ OneActivation
  /\ phase = "call" => running = None
  /\ phase = "idle" => running = None \/ status = "AlreadyExists"
  /\ phase = "tick" => Distinct(ready_instances) /\ \A p \in Procs : OnePlace(p)

(***************************************************************************)
(* Appending a proc to a list without it.                                  *)
(***************************************************************************)
LEMMA DistinctAppend ==
  ASSUME NEW s \in Seq(Procs), NEW p \in Procs
  PROVE  /\ Append(s, p) \in Seq(Procs)
         /\ \A q : Lists(Append(s, p), q) <=> Lists(s, q) \/ q = p
         /\ Distinct(s) /\ ~Lists(s, p) => Distinct(Append(s, p))
<1>1. /\ Append(s, p) \in Seq(Procs) /\ Len(Append(s, p)) = Len(s) + 1
      /\ \A i \in 1..Len(s) : Append(s, p)[i] = s[i]
      /\ Append(s, p)[Len(s) + 1] = p
  BY AppendProperties
<1>2. Len(s) \in Nat
  OBVIOUS
<1> DEFINE n == Len(s)
           t == Append(s, p)
<1>3. \A i \in 1..n + 1 : i \in 1..n \/ i = n + 1
  BY <1>2
<1>4. 1..n \subseteq 1..n + 1 /\ n + 1 \in 1..n + 1
  BY <1>2
<1>5. ASSUME NEW q PROVE Lists(t, q) <=> Lists(s, q) \/ q = p
  BY Zenon, <1>1, <1>3, <1>4 DEF Lists
<1>6. ASSUME Distinct(s), ~Lists(s, p) PROVE Distinct(t)
  BY Zenon, <1>1, <1>3, <1>6 DEF Distinct, Lists
<1> QED BY Zenon, <1>1, <1>5, <1>6

(***************************************************************************)
(* Popping the first proc of the list.                                     *)
(***************************************************************************)
LEMMA DistinctTail ==
  ASSUME NEW s \in Seq(Procs), s # <<>>, Distinct(s)
  PROVE  /\ Distinct(Tail(s)) /\ ~Lists(Tail(s), Head(s)) /\ Lists(s, Head(s))
         /\ \A q : Lists(Tail(s), q) => Lists(s, q)
<1> DEFINE t == Tail(s)
           n == Len(s)
<1>1. /\ Len(t) = n - 1 /\ \A i \in 1..Len(t) : t[i] = s[i + 1]
      /\ n \in Nat /\ n # 0 /\ Head(s) = s[1]
  BY HeadTailProperties
<1>2. \A i \in 1..Len(t) : i + 1 \in 1..n /\ i + 1 # 1
  BY <1>1
<1>3. 1 \in 1..n
  BY <1>1
<1>4. \A i, j \in 1..Len(t) : i + 1 = j + 1 => i = j
  BY <1>1
<1> HIDE DEF t, n
<1>5. Distinct(t)
  BY Zenon, <1>1, <1>2, <1>4 DEF Distinct, n
<1>6. ~Lists(t, Head(s)) /\ Lists(s, Head(s))
  BY Zenon, <1>1, <1>2, <1>3 DEF Distinct, Lists, n
<1>7. \A q : Lists(t, q) => Lists(s, q)
  BY Zenon, <1>1, <1>2 DEF Lists, n
<1> QED BY Zenon, <1>5, <1>6, <1>7 DEF t

(***************************************************************************)
(* No step of the runtime puts a proc in a second place.                   *)
(***************************************************************************)
LEMMA OnceStep ==
  ASSUME TypeInvariant, OnceInvariant, [Next]_vars
  PROVE  OnceInvariant'
<1>0. None \notin Procs /\ None # "AlreadyExists"
  BY Zenon, ProcNodesAssumption, ProcRuntimeAssumption
<1>1. ASSUME UNCHANGED <<ready_instances, blocked_instances, running, completed, phase, status>>
      PROVE  OnceInvariant'
  BY Zenon, <1>1 DEF OnceInvariant, OneActivation, OnePlace
<1>2. CASE Dispatch
  <2> DEFINE h == Head(ready_instances)
  <2>1. /\ phase = "tick" /\ phase' = "tick" /\ running = None /\ running' = h
        /\ ready_instances' = Tail(ready_instances)
        /\ UNCHANGED <<blocked_instances, completed>>
    BY Zenon, <1>2 DEF Dispatch, call
  <2>5. ready_instances \in Seq(Procs) /\ ready_instances # <<>> /\ Distinct(ready_instances)
    BY Zenon, <1>2, <2>1 DEF OnceInvariant, Dispatch, TypeInvariant
  <2>2. Distinct(ready_instances') /\ ~Lists(ready_instances', h) /\ Lists(ready_instances, h)
    BY Zenon, <2>1, <2>5, DistinctTail
  <2>3. \A q : Lists(Tail(ready_instances), q) => Lists(ready_instances, q)
    BY Zenon, <2>5, DistinctTail
  <2> HIDE DEF h
  <2>4. ASSUME NEW p \in Procs PROVE OnePlace(p)'
    <3>1. OnePlace(p)
      BY Zenon, <2>1 DEF OnceInvariant
    <3>2. running' = p \/ Lists(ready_instances', p) => Lists(ready_instances, p)
      BY Zenon, <2>1, <2>2, <2>3
    <3>3. running' = p => ~Lists(ready_instances', p)
      BY Zenon, <2>1, <2>2
    <3> QED BY Zenon, <2>1, <3>1, <3>2, <3>3 DEF OnePlace
  <2> QED BY Zenon, <2>1, <2>2, <2>4 DEF OnceInvariant, OneActivation
<1>3. ASSUME NEW p \in Procs, HandleReceive(p) \/ SkipSend(p) \/ HandleNext(p)
      PROVE  OnceInvariant'
  <2>1. UNCHANGED <<ready_instances, blocked_instances, running, completed, phase, status>>
    BY Zenon, <1>3 DEF HandleReceive, SkipSend, HandleNext, GoOn, call
  <2> QED BY Zenon, <1>1, <2>1
<1>4. ASSUME NEW p \in Procs, BlockedOnReceive(p)
      PROVE  OnceInvariant'
  <2> DEFINE ch == NodeAt(p, at).ch
  <2>1. /\ phase = "tick" /\ phase' = "tick" /\ running = p /\ running' = None
        /\ UNCHANGED <<ready_instances, completed>>
    BY Zenon, <1>4 DEF BlockedOnReceive, Executing, Block, call
  <2>2. ch \in Channels /\ blocked_instances' = [blocked_instances EXCEPT ![ch] = p]
    BY Zenon, <1>4, BlockedWaits
  <2> HIDE DEF ch
  <2>3. /\ blocked_instances'[ch] = p
        /\ \A c \in Channels : c # ch => blocked_instances'[c] = blocked_instances[c]
    BY Zenon, <2>2 DEF TypeInvariant
  <2>4. \A q \in Procs : OnePlace(q)'
    BY Zenon, <1>0, <2>1, <2>3 DEF OnceInvariant, OnePlace
  <2> QED BY Zenon, <2>1, <2>4 DEF OnceInvariant, OneActivation
<1>5. ASSUME NEW p \in Procs, SentOnChannel(p)
      PROVE  OnceInvariant'
  <2> DEFINE ch == NodeAt(p, at).ch
             b == blocked_instances[ch]
  <2>1. /\ phase = "tick" /\ phase' = "tick" /\ running = p /\ running' = None
        /\ UNCHANGED completed
        /\ ch \in Channels /\ Unblock(p, ch)
    BY Zenon, <1>5, NodeChannel DEF SentOnChannel, Executing, call
  <2>2. b \in Procs \cup {None} /\ ready_instances \in Seq(Procs)
    BY Zenon, <2>1 DEF TypeInvariant
  <2>3. Distinct(ready_instances) /\ ~Lists(ready_instances, p) /\ OnePlace(p)
    BY Zenon, <2>1 DEF OnceInvariant, OnePlace
  <2>4. CASE b = None
    <3>1. ready_instances' = Append(ready_instances, p) /\ blocked_instances' = blocked_instances
      BY Zenon, <2>1, <2>4 DEF Unblock
    <3>2. /\ Distinct(ready_instances')
          /\ \A q : Lists(ready_instances', q) <=> Lists(ready_instances, q) \/ q = p
      BY Zenon, <2>2, <2>3, <3>1, DistinctAppend
    <3>3. \A q \in Procs : OnePlace(q)'
      BY Zenon, <1>0, <2>1, <3>1, <3>2 DEF OnceInvariant, OnePlace
    <3> QED BY Zenon, <2>1, <3>2, <3>3 DEF OnceInvariant, OneActivation
  <2>5. CASE b # None
    <3> DEFINE s == Append(ready_instances, b)
    <3>1. /\ ready_instances' = Append(s, p)
          /\ blocked_instances' = [blocked_instances EXCEPT ![ch] = None]
      BY Zenon, <2>1, <2>5 DEF Unblock
    <3>2. /\ b \in Procs /\ b # p /\ ~Lists(ready_instances, b) /\ completed[b] = 0
          /\ \A c \in Channels : blocked_instances[c] = b => c = ch
      BY Zenon, <2>1, <2>2, <2>5 DEF OnceInvariant, OnePlace
    <3>3. /\ blocked_instances'[ch] = None
          /\ \A c \in Channels : c # ch => blocked_instances'[c] = blocked_instances[c]
      BY Zenon, <2>1, <3>1 DEF TypeInvariant
    <3> HIDE DEF b, ch
    <3>4. /\ s \in Seq(Procs) /\ Distinct(s)
          /\ \A q : Lists(s, q) <=> Lists(ready_instances, q) \/ q = b
      BY Zenon, <2>2, <2>3, <3>2, DistinctAppend
    <3> HIDE DEF s
    <3>5. /\ Distinct(ready_instances')
          /\ \A q : Lists(ready_instances', q) <=> Lists(s, q) \/ q = p
      BY Zenon, <2>3, <3>1, <3>2, <3>4, DistinctAppend
    <3>6. ASSUME NEW q \in Procs PROVE OnePlace(q)'
      <4>1. /\ running' # q /\ completed'[q] = completed[q]
            /\ \A c \in Channels : blocked_instances'[c] = q => c # ch /\ blocked_instances[c] = q
        BY Zenon, <1>0, <2>1, <3>3
      <4>2. Lists(ready_instances', q) => completed[q] = 0 /\ \A c \in Channels : blocked_instances'[c] # q
        BY Zenon, <2>1, <2>3, <3>2, <3>4, <3>5, <4>1 DEF OnceInvariant, OnePlace
      <4>3. \A c \in Channels : blocked_instances[c] = q =>
               completed[q] = 0 /\ \A d \in Channels : blocked_instances[d] = q => c = d
        BY Zenon, <2>1 DEF OnceInvariant, OnePlace
      <4> QED BY Zenon, <4>1, <4>2, <4>3 DEF OnePlace
    <3> QED BY Zenon, <2>1, <3>5, <3>6 DEF OnceInvariant, OneActivation
  <2> QED BY Zenon, <2>4, <2>5
<1>6. ASSUME NEW p \in Procs, Completed(p)
      PROVE  OnceInvariant'
  <2>1. /\ phase = "tick" /\ phase' = "tick" /\ running = p /\ running' = None
        /\ UNCHANGED <<ready_instances, blocked_instances>>
        /\ completed' = [completed EXCEPT ![p] = @ + 1]
    BY Zenon, <1>6 DEF Completed, Finish, call
  <2>2. OnePlace(p) /\ completed[p] = 0
    BY Zenon, <2>1 DEF OnceInvariant, OnePlace
  <2>3. /\ completed'[p] = completed[p] + 1
        /\ \A q \in Procs : q # p => completed'[q] = completed[q]
    BY Zenon, <2>1 DEF TypeInvariant
  <2>4. completed'[p] = 1 /\ 1 <= 1
    BY <2>2, <2>3
  <2>5. \A q \in Procs : completed'[q] <= 1
    BY Zenon, <2>3, <2>4 DEF OnceInvariant, OneActivation
  <2>6. \A q \in Procs : OnePlace(q)'
    BY Zenon, <1>0, <2>1, <2>2, <2>3 DEF OnceInvariant, OnePlace
  <2> QED BY Zenon, <2>1, <2>5, <2>6 DEF OnceInvariant, OneActivation
<1>7. ASSUME NEW p \in Procs, MultipleNext(p)
      PROVE  OnceInvariant'
  BY Zenon, <1>7 DEF MultipleNext, scheduler, OnceInvariant, OneActivation
<1>8. CASE TickInternalReturns
  <2>1. request.kind \in CallKinds
    BY Zenon, <1>8, ProcRuntimeAssumption DEF TickInternalReturns, TypeInvariant
  <2>2. phase' = "idle" \/ phase' = "call"
    BY Zenon, <1>8, <2>1 DEF TickInternalReturns, Return, CallKinds
  <2>3. running' = None /\ completed' = completed
    BY Zenon, <1>8 DEF TickInternalReturns, scheduler
  <2> QED BY Zenon, <2>2, <2>3 DEF OnceInvariant, OneActivation
<1>9. CASE LoopHead
  <2>1. phase = "call" /\ running = None
    BY Zenon, <1>9 DEF LoopHead, OnceInvariant
  <2>2. CASE StartTickInternal
    <3>1. /\ phase' = "tick" /\ running' = None /\ ready_instances' = proc_instances
          /\ blocked_instances' = [c \in Channels |-> None] /\ completed' = [p \in Procs |-> 0]
      BY Zenon, <2>1, <2>2 DEF StartTickInternal
    <3>2. Distinct(ready_instances')
      <4>1. DOMAIN proc_instances = 1..Len(proc_instances)
        BY ProcRuntimeAssumption
      <4> QED BY Zenon, <3>1, <4>1, ProcRuntimeAssumption DEF Distinct
    <3>3. \A p \in Procs : OnePlace(p)'
      BY Zenon, <1>0, <3>1 DEF OnePlace
    <3>4. 0 <= 1
      OBVIOUS
    <3>5. OneActivation'
      BY Zenon, <3>1, <3>4 DEF OneActivation
    <3> QED BY Zenon, <3>1, <3>2, <3>3, <3>5 DEF OnceInvariant
  <2>3. CASE phase' = "idle" /\ UNCHANGED scheduler
    BY Zenon, <2>1, <2>3 DEF scheduler, OnceInvariant, OneActivation
  <2> QED BY Zenon, <1>9, <2>2, <2>3 DEF LoopHead, Return
<1>10. ASSUME NEW r \in Requests, Call(r)
       PROVE  OnceInvariant'
  BY Zenon, <1>10 DEF Call, scheduler, OnceInvariant, OneActivation
<1>11. CASE ResetState
  BY Zenon, <1>11 DEF ResetState, OnceInvariant, OneActivation
<1>12. CASE \/ \E ch \in Inputs, v \in Values : WriteInput(ch, v)
            \/ \E ch \in Outputs : ReadOutput(ch)
  <2>1. /\ UNCHANGED <<ready_instances, blocked_instances, running, completed, phase>>
        /\ status = "AlreadyExists" => status' = status
    BY Zenon, <1>12 DEF WriteInput, ReadOutput, scheduler
  <2> QED BY Zenon, <2>1 DEF OnceInvariant, OneActivation, OnePlace
<1>13. CASE UNCHANGED vars
  BY Zenon, <1>1, <1>13 DEF vars, scheduler, call
<1> QED
  BY Zenon, <1>2, <1>3, <1>4, <1>5, <1>6, <1>7, <1>8, <1>9, <1>10, <1>11, <1>12, <1>13
     DEF Next, TickInternal

(***************************************************************************)
(* For every network and caller, one TickInternal completes at most one    *)
(* activation of each proc.                                                *)
(***************************************************************************)
THEOREM OneActivationPerTick == Spec => []OneActivation
<1>1. ASSUME Init PROVE OnceInvariant
  <2>1. 0 <= 1
    OBVIOUS
  <2> QED BY Zenon, <1>1, <2>1 DEF Init, OnceInvariant, OneActivation
<1>2. OnceInvariant => OneActivation
  BY Zenon DEF OnceInvariant
<1> QED BY <1>1, <1>2, OnceStep, TypeCorrect, PTL DEF Spec

--------------------------------------------------------------------------------
(***************************************************************************)
(* The node p executes next, the one ProcNetwork's pc names.               *)
(***************************************************************************)
At(p) == IF running = p THEN at ELSE node_index[p]

(***************************************************************************)
(* The active next values among the first i - 1 nodes of an activation.    *)
(***************************************************************************)
NextsBefore(p, i, st, vals) ==
  {k \in 1 .. i - 1 : NodeAt(p, k).op = "next" /\ Active(p, k, EnvAt(st, vals, k))}

NextsThrough(p, i, st, vals) ==
  IF NodeAt(p, i).op = "next" /\ Active(p, i, EnvAt(st, vals, i))
  THEN NextsBefore(p, i, st, vals) \cup {i}
  ELSE NextsBefore(p, i, st, vals)

(***************************************************************************)
(* A continuation is at the node after those whose results it keeps, and   *)
(* keeps the next values that were active: what the rest of the activation *)
(* computes does not depend on where it was interrupted.                   *)
(***************************************************************************)
Resumable(p) ==
  /\ At(p) \in Nat \ {0}
  /\ \E S : node_values[p] \in Seq(S)
  /\ Len(node_values[p]) = At(p) - 1
  /\ active_next[p] = NextsBefore(p, At(p), state[p], node_values[p])

ContinuationInvariant == \A p \in Procs : Resumable(p)

(***************************************************************************)
(* The results of the nodes before k do not change when a later node adds  *)
(* its own.                                                                *)
(***************************************************************************)
LEMMA EarlierResults ==
  ASSUME NEW S, NEW s \in Seq(S), NEW v, NEW k \in 1 .. Len(s) + 1
  PROVE  SubSeq(Append(s, v), 1, k - 1) = SubSeq(s, 1, k - 1)
<1> DEFINE T == S \cup {v}
           t == Append(s, v)
<1>1. s \in Seq(T) /\ v \in T
  OBVIOUS
<1>2. /\ t \in Seq(T) /\ Len(t) = Len(s) + 1
      /\ \A i \in 1..Len(s) : t[i] = s[i]
  BY <1>1, AppendProperties
<1>3. Len(s) \in Nat /\ k \in Nat /\ k # 0 /\ k - 1 \in 0 .. Len(s) /\ k - 1 \in 0 .. Len(s) + 1
  OBVIOUS
<1> DEFINE m == k - 1
<1>4. m \in Nat /\ m <= Len(s) /\ \A i \in 1 .. m : i \in 1 .. Len(s) /\ (1 + i) - 1 = i
  BY <1>3
<1> HIDE DEF t, T, m
<1>5. SubSeq(t, 1, m) = [i \in 1 .. m |-> t[i]]
  BY <1>2, <1>4
<1>6. SubSeq(s, 1, m) = [i \in 1 .. m |-> s[i]]
  BY <1>4
<1>7. SubSeq(t, 1, m) = SubSeq(s, 1, m)
  BY Zenon, <1>2, <1>4, <1>5, <1>6
<1> QED BY Zenon, <1>7 DEF t, m

(***************************************************************************)
(* A sequence of results and the result of one more node.                  *)
(***************************************************************************)
LEMMA OneResultMore ==
  ASSUME NEW S, NEW s \in Seq(S), NEW v
  PROVE  (\E T : Append(s, v) \in Seq(T)) /\ Len(Append(s, v)) = Len(s) + 1
<1> DEFINE T == S \cup {v}
<1>1. s \in Seq(T) /\ v \in T
  OBVIOUS
<1>2. Append(s, v) \in Seq(T) /\ Len(Append(s, v)) = Len(s) + 1
  BY <1>1, AppendProperties
<1> QED BY Zenon, <1>2

(***************************************************************************)
(* What the result of node i adds to a continuation at node i.             *)
(***************************************************************************)
LEMMA OneNodeMore ==
  ASSUME NEW p, NEW i \in Nat \ {0}, NEW S, NEW s \in Seq(S), Len(s) = i - 1, NEW v, NEW st
  PROVE  NextsBefore(p, i + 1, st, Append(s, v)) = NextsThrough(p, i, st, s)
<1> DEFINE t == Append(s, v)
<1>1. \A k \in 1 .. (i + 1) - 1 : k \in 1 .. Len(s) + 1 /\ (k \in 1 .. i - 1 \/ k = i)
  OBVIOUS
<1>2. i \in 1 .. (i + 1) - 1 /\ 1 .. i - 1 \subseteq 1 .. (i + 1) - 1
  OBVIOUS
<1>3. \A k \in 1 .. (i + 1) - 1 : EnvAt(st, t, k) = EnvAt(st, s, k)
  BY Zenon, <1>1, EarlierResults DEF EnvAt
<1> HIDE DEF t
<1>4. NextsBefore(p, i + 1, st, t) = NextsThrough(p, i, st, s)
  BY Zenon, <1>1, <1>2, <1>3 DEF NextsBefore, NextsThrough
<1> QED BY Zenon, <1>4 DEF t

(***************************************************************************)
(* p executed its next node with result v, and no other proc moved.        *)
(***************************************************************************)
Advance(p, v) ==
  /\ node_values' = [node_values EXCEPT ![p] = Append(node_values[p], v)]
  /\ state' = state
  /\ At(p)' = At(p) + 1 /\ \A q \in Procs : q # p => At(q)' = At(q)

(***************************************************************************)
(* The handlers advance the proc that is running, whether the evaluator    *)
(* goes on or returns after a send.                                        *)
(***************************************************************************)
LEMMA GoOnAdvances ==
  ASSUME NEW p \in Procs, running = p, NEW v, GoOn(p, v)
  PROVE  Advance(p, v) /\ At(p) = at
BY Zenon DEF GoOn, NodeDone, Advance, At

(***************************************************************************)
(* An active send returns to the runtime with the continuation after it.   *)
(***************************************************************************)
LEMMA SendAdvances ==
  ASSUME TypeInvariant, NEW p \in Procs, SentOnChannel(p)
  PROVE  Advance(p, None) /\ At(p) = at
<1>1. running = p /\ running' = None /\ p # None
  BY Zenon, ProcNodesAssumption DEF SentOnChannel, Executing
<1>2. node_index'[p] = at + 1 /\ \A q \in Procs : q # p => node_index'[q] = node_index[q]
  BY Zenon DEF SentOnChannel, ResumeAfterSend, TypeInvariant, IsFcn
<1>3. None \notin Procs
  BY Zenon, ProcNodesAssumption
<1>4. /\ node_values' = [node_values EXCEPT ![p] = Append(node_values[p], None)]
      /\ state' = state
  BY Zenon DEF SentOnChannel, NodeDone
<1>5. At(p) = at /\ At(p)' = at + 1 /\ \A q \in Procs : q # p => At(q)' = At(q)
  BY Zenon, <1>1, <1>2, <1>3 DEF At
<1> QED BY Zenon, <1>4, <1>5 DEF Advance

(***************************************************************************)
(* A proc that does not move stays resumable.                              *)
(***************************************************************************)
LEMMA OthersResumable ==
  ASSUME NEW q, Resumable(q), At(q)' = At(q), node_values'[q] = node_values[q],
         state'[q] = state[q], active_next'[q] = active_next[q]
  PROVE  Resumable(q)'
BY Zenon DEF Resumable, NextsBefore

(***************************************************************************)
(* A proc that advances stays resumable.                                   *)
(***************************************************************************)
LEMMA AdvanceResumable ==
  ASSUME TypeInvariant, ContinuationInvariant, NEW p \in Procs, NEW v, Advance(p, v),
         active_next' = [active_next EXCEPT ![p] =
           IF NodeAt(p, At(p)).op = "next"
                /\ Active(p, At(p), EnvAt(state[p], node_values[p], At(p)))
           THEN active_next[p] \cup {At(p)} ELSE active_next[p]]
  PROVE  ContinuationInvariant'
<1> USE DEF TypeInvariant, IsFcn
<1>1. ASSUME NEW q \in Procs, q # p PROVE Resumable(q)'
  <2>1. /\ At(q)' = At(q) /\ node_values'[q] = node_values[q]
        /\ state'[q] = state[q] /\ active_next'[q] = active_next[q]
    BY Zenon, <1>1 DEF Advance
  <2> QED BY Zenon, <1>1, <2>1, OthersResumable DEF ContinuationInvariant
<1>2. Resumable(p)'
  <2> DEFINE i == At(p)
             s == node_values[p]
             t == Append(s, v)
  <2>1. PICK S : s \in Seq(S)
    BY Zenon DEF ContinuationInvariant, Resumable
  <2>2. i \in Nat \ {0} /\ Len(s) = i - 1
    BY Zenon DEF ContinuationInvariant, Resumable
  <2>7. active_next[p] = NextsBefore(p, i, state[p], s)
    BY Zenon DEF ContinuationInvariant, Resumable
  <2>3. /\ At(p)' = i + 1 /\ node_values'[p] = t /\ state'[p] = state[p]
        /\ active_next'[p] = IF NodeAt(p, i).op = "next" /\ Active(p, i, EnvAt(state[p], s, i))
                             THEN active_next[p] \cup {i} ELSE active_next[p]
    BY Zenon DEF Advance
  <2> HIDE DEF i, s
  <2>8. (\E T : t \in Seq(T)) /\ Len(t) = Len(s) + 1
    BY Zenon, <2>1, OneResultMore
  <2>9. i + 1 \in Nat \ {0} /\ Len(t) = (i + 1) - 1
    <3>1. Len(t) = Len(s) + 1
      BY Zenon, <2>8
    <3> HIDE DEF t
    <3> QED BY <2>2, <3>1
  <2>4. NextsBefore(p, i + 1, state[p], t) = NextsThrough(p, i, state[p], s)
    BY Zenon, <2>1, <2>2, OneNodeMore
  <2> HIDE DEF t
  <2>5. active_next'[p] = NextsBefore(p, i + 1, state[p], t)
    BY Zenon, <2>3, <2>4, <2>7 DEF NextsThrough
  <2>6. NextsBefore(p, At(p)', state'[p], node_values'[p])
          = NextsBefore(p, i + 1, state[p], t)
    BY Zenon, <2>3
  <2> QED BY Zenon, <2>3, <2>5, <2>6, <2>8, <2>9 DEF Resumable, NextsBefore
<1> QED BY Zenon, <1>1, <1>2 DEF ContinuationInvariant

(***************************************************************************)
(* What leaves every proc where it is leaves its continuation resumable.   *)
(***************************************************************************)
LEMMA StayResumable ==
  ASSUME ContinuationInvariant, \A p \in Procs : At(p)' = At(p),
         UNCHANGED <<state, node_values, active_next>>
  PROVE  ContinuationInvariant'
<1>1. ASSUME NEW q \in Procs PROVE Resumable(q)'
  BY Zenon, <1>1, OthersResumable DEF ContinuationInvariant
<1> QED BY Zenon, <1>1 DEF ContinuationInvariant

(***************************************************************************)
(* The steps between two nodes leave every proc where it is: an instance   *)
(* that becomes the running one resumes where its continuation says, and   *)
(* one that blocks leaves behind where it is.                              *)
(***************************************************************************)
Between ==
  \/ Dispatch \/ TickInternalReturns \/ LoopHead
  \/ \E p \in Procs : BlockedOnReceive(p) \/ MultipleNext(p)
  \/ \E r \in Requests : Call(r)

(***************************************************************************)
(* They change no pc and no queue.                                         *)
(***************************************************************************)
LEMMA BetweenStays ==
  ASSUME TypeInvariant, Between
  PROVE  /\ \A p \in Procs : At(p)' = At(p)
         /\ UNCHANGED <<state, node_values, active_next, queue>>
<1>0. None \notin Procs
  BY Zenon, ProcNodesAssumption
<1>1. CASE Dispatch
  <2>1. running = None /\ at' = node_index[running'] /\ UNCHANGED <<continuations, queue>>
    BY Zenon, <1>1 DEF Dispatch
  <2> QED BY Zenon, <1>0, <2>1 DEF At, continuations
<1>2. CASE TickInternalReturns \/ (\E p \in Procs : MultipleNext(p)) \/ (\E r \in Requests : Call(r))
  <2>1. UNCHANGED <<continuations, queue, scheduler>>
    BY Zenon, <1>2 DEF TickInternalReturns, MultipleNext, Call
  <2> QED BY Zenon, <2>1 DEF At, continuations, scheduler
<1>3. CASE LoopHead
  <2>1. UNCHANGED <<continuations, queue, running, at>>
    BY Zenon, <1>3 DEF LoopHead, StartTickInternal, scheduler
  <2> QED BY Zenon, <2>1 DEF At, continuations
<1>4. ASSUME NEW p \in Procs, BlockedOnReceive(p)
      PROVE  /\ \A q \in Procs : At(q)' = At(q)
             /\ UNCHANGED <<state, node_values, active_next, queue>>
  <2>1. /\ running = p /\ running' = None
        /\ UNCHANGED <<state, node_values, active_next, queue>>
    BY Zenon, <1>4 DEF BlockedOnReceive, Executing
  <2>2. node_index'[p] = at /\ \A q \in Procs : q # p => node_index'[q] = node_index[q]
    BY Zenon, <1>4 DEF BlockedOnReceive, TypeInvariant, IsFcn
  <2> QED BY Zenon, <1>0, <2>1, <2>2 DEF At
<1> QED BY Zenon, <1>1, <1>2, <1>3, <1>4 DEF Between

(***************************************************************************)
(* Every step of the runtime leaves every continuation resumable.          *)
(***************************************************************************)
LEMMA ContinuationStep ==
  ASSUME TypeInvariant, ContinuationInvariant, [Next]_vars
  PROVE  ContinuationInvariant'
<1>0. None \notin Procs
  BY Zenon, ProcNodesAssumption
<1>1. CASE Between
  BY Zenon, <1>1, BetweenStays, StayResumable
<1>2. ASSUME NEW p \in Procs, HandleReceive(p) \/ SkipSend(p) \/ SentOnChannel(p)
      PROVE  ContinuationInvariant'
  <2>1. /\ running = p /\ at \in DOMAIN execution_order[p] /\ NodeAt(p, at).op # "next"
        /\ active_next' = active_next
    BY Zenon, <1>2 DEF HandleReceive, SkipSend, SentOnChannel, Executing, Blocking, NonBlocking
  <2>2. PICK v : Advance(p, v) /\ At(p) = at
    <3>1. CASE HandleReceive(p)
      BY Zenon, <2>1, <3>1, GoOnAdvances DEF HandleReceive
    <3>2. CASE SkipSend(p)
      BY Zenon, <2>1, <3>2, GoOnAdvances DEF SkipSend
    <3>3. CASE SentOnChannel(p)
      BY Zenon, <3>3, SendAdvances
    <3> QED BY Zenon, <1>2, <3>1, <3>2, <3>3
  <2>3. active_next' = [active_next EXCEPT ![p] = active_next[p]]
    BY Zenon, <2>1 DEF TypeInvariant, IsFcn
  <2> QED BY Zenon, <2>1, <2>2, <2>3, AdvanceResumable
<1>3. ASSUME NEW p \in Procs, HandleNext(p)
      PROVE  ContinuationInvariant'
  <2>1. running = p /\ NodeAt(p, at).op = "next" /\ GoOn(p, None)
    BY Zenon, <1>3 DEF HandleNext, Executing
  <2>2. Advance(p, None) /\ At(p) = at
    BY Zenon, <2>1, GoOnAdvances
  <2>3. active_next' = [active_next EXCEPT ![p] =
           IF Active(p, at, EnvAt(state[p], node_values[p], at))
           THEN active_next[p] \cup {at} ELSE active_next[p]]
    BY Zenon, <1>3 DEF HandleNext, Env
  <2> QED BY Zenon, <2>1, <2>2, <2>3, AdvanceResumable
<1>4. ASSUME NEW q \in Procs, At(q)' = 1, node_values'[q] = <<>>, active_next'[q] = {}
      PROVE  Resumable(q)'
  <2>1. /\ 1 \in Nat \ {0} /\ <<>> \in Seq({}) /\ Len(<<>>) = 1 - 1
        /\ 1 .. 1 - 1 = {}
    OBVIOUS
  <2>2. NextsBefore(q, 1, state'[q], node_values'[q]) = {}
    BY Zenon, <2>1 DEF NextsBefore
  <2>3. \E S : node_values'[q] \in Seq(S)
    BY Zenon, <1>4, <2>1
  <2>4. Len(node_values'[q]) = At(q)' - 1 /\ At(q)' \in Nat \ {0}
    BY Zenon, <1>4, <2>1
  <2>5. NextsBefore(q, At(q)', state'[q], node_values'[q]) = {}
    BY Zenon, <1>4, <2>2
  <2> QED BY Zenon, <1>4, <2>3, <2>4, <2>5 DEF Resumable, NextsBefore
<1>5. ASSUME NEW p \in Procs, Completed(p)
      PROVE  ContinuationInvariant'
  <2> USE DEF TypeInvariant, IsFcn
  <2>1. /\ running = p /\ running' = None
        /\ node_index' = [node_index EXCEPT ![p] = 1]
        /\ node_values' = [node_values EXCEPT ![p] = <<>>]
        /\ active_next' = [active_next EXCEPT ![p] = {}]
    BY Zenon, <1>5 DEF Completed
  <2>2. At(p)' = 1 /\ node_values'[p] = <<>> /\ active_next'[p] = {}
    BY Zenon, <1>0, <2>1 DEF At
  <2>3. ASSUME NEW q \in Procs, q # p PROVE Resumable(q)'
    <3>1. state'[q] = state[q]
      BY Zenon, <1>5, <2>3 DEF Completed
    <3>2. At(q)' = At(q) /\ node_values'[q] = node_values[q] /\ active_next'[q] = active_next[q]
      BY Zenon, <1>0, <2>1, <2>3 DEF At
    <3> QED BY Zenon, <3>1, <3>2, OthersResumable DEF ContinuationInvariant
  <2> QED BY Zenon, <1>4, <2>2, <2>3 DEF ContinuationInvariant
<1>6. CASE ResetState
  <2>1. \A q \in Procs : At(q)' = 1 /\ node_values'[q] = <<>> /\ active_next'[q] = {}
    BY Zenon, <1>0, <1>6 DEF ResetState, At
  <2> QED BY Zenon, <1>4, <2>1 DEF ContinuationInvariant
<1>7. CASE \/ \E ch \in Inputs, v \in Values : WriteInput(ch, v)
           \/ \E ch \in Outputs : ReadOutput(ch)
           \/ UNCHANGED vars
  <2>1. UNCHANGED <<continuations, scheduler>>
    BY Zenon, <1>7 DEF WriteInput, ReadOutput, vars
  <2>2. \A p \in Procs : At(p)' = At(p)
    BY Zenon, <2>1 DEF At, continuations, scheduler
  <2> QED BY Zenon, <2>1, <2>2, StayResumable DEF continuations
<1> QED
  BY Zenon, <1>1, <1>2, <1>3, <1>5, <1>6, <1>7 DEF Next, TickInternal, Between

(***************************************************************************)
(* An advance of the runtime is a step of the network.                     *)
(***************************************************************************)
LEMMA AdvanceIsStep ==
  ASSUME NEW p \in Procs, NEW v, Advance(p, v)
  PROVE  Network!Step(p, v)
<1> DEFINE pc == [q \in Procs |-> At(q)]
<1>1. pc[p] = At(p) /\ pc' = [q \in Procs |-> At(q)']
  BY Zenon
<1>2. pc' = [pc EXCEPT ![p] = pc[p] + 1]
  BY Zenon, <1>1 DEF Advance
<1> QED BY Zenon, <1>2 DEF Advance, Network!Step, At

(***************************************************************************)
(* The handlers of the runtime are the operations of the network, and what *)
(* it does between two nodes changes nothing there.                        *)
(***************************************************************************)
LEMMA RefinementStep ==
  ASSUME TypeInvariant, ContinuationInvariant, [Next]_vars
  PROVE  [Network!Next]_(Network!vars)
<1>0. None \notin Procs
  BY Zenon, ProcNodesAssumption
<1>1. ASSUME \A p \in Procs : At(p)' = At(p), UNCHANGED <<state, node_values, queue>>
      PROVE  UNCHANGED Network!vars
  BY Zenon, <1>1 DEF Network!vars, At
<1>2. CASE Between
  BY Zenon, <1>1, <1>2, BetweenStays
<1>3. ASSUME NEW p \in Procs, HandleReceive(p)
      PROVE  Network!Receive(p)
  <2> DEFINE pc == [q \in Procs |-> IF running = q THEN at ELSE node_index[q]]
             n == NodeAt(p, at)
  <2>1. running = p /\ pc[p] = at /\ at \in DOMAIN execution_order[p] /\ IsReceive(n)
    BY Zenon, <1>3 DEF HandleReceive, Executing, IsReceive
  <2>2. pc' = [pc EXCEPT ![p] = pc[p] + 1] /\ UNCHANGED state
    BY Zenon, <1>3, <2>1 DEF HandleReceive, GoOn, NodeDone
  <2>3. \/ /\ Active(p, at, Env(p)) /\ queue[n.ch] # <<>>
           /\ node_values' = [node_values EXCEPT ![p] =
                                Append(node_values[p], ValueRead(n, Head(queue[n.ch])))]
           /\ queue' = [queue EXCEPT ![n.ch] = AfterRead(n.ch, queue[n.ch])]
        \/ /\ ~Active(p, at, Env(p)) \/ (n.op = NonBlocking /\ queue[n.ch] = <<>>)
           /\ node_values' = [node_values EXCEPT ![p] = Append(node_values[p], NothingRead(n))]
           /\ UNCHANGED queue
    BY Zenon, <1>3 DEF HandleReceive, GoOn, NodeDone
  <2> DEFINE m == Network!NodeAt(p, pc[p])
             i == pc[p]
             e == Network!Env(p)
  <2>4. m = n /\ i = at /\ e = Env(p) /\ Network!IsReceive(m) /\ Network!NonBlocking = NonBlocking
    BY Zenon, <2>1 DEF Network!NodeAt, Network!IsReceive, Network!Env, Network!EnvAt,
                       Network!NonBlocking, Network!Blocking, NodeAt, IsReceive, Env, EnvAt,
                       NonBlocking, Blocking
  <2>5. \A x : Network!ValueRead(m, x) = ValueRead(n, x)
    BY Zenon, <2>4 DEF Network!ValueRead, Network!NonBlocking, ValueRead, NonBlocking
  <2>6. Network!NothingRead(m) = NothingRead(n)
    BY Zenon, <2>4 DEF Network!NothingRead, Network!NonBlocking, NothingRead, NonBlocking
  <2>7. \A c, q : Network!AfterRead(c, q) = AfterRead(c, q)
    BY Zenon DEF Network!AfterRead, AfterRead
  <2>8. \/ /\ Active(p, i, e) /\ queue[m.ch] # <<>>
           /\ node_values' = [node_values EXCEPT ![p] =
                                Append(node_values[p], Network!ValueRead(m, Head(queue[m.ch])))]
           /\ queue' = [queue EXCEPT ![m.ch] = Network!AfterRead(m.ch, queue[m.ch])]
        \/ /\ ~Active(p, i, e) \/ (m.op = Network!NonBlocking /\ queue[m.ch] = <<>>)
           /\ node_values' = [node_values EXCEPT ![p] =
                                Append(node_values[p], Network!NothingRead(m))]
           /\ UNCHANGED queue
    <3> HIDE DEF m, i, e, n
    <3> QED BY Zenon, <2>3, <2>4, <2>5, <2>6, <2>7
  <2> QED BY Zenon, <2>1, <2>2, <2>4, <2>8 DEF Network!Receive, Network!Step
<1>4. ASSUME NEW p \in Procs, SentOnChannel(p) \/ SkipSend(p)
      PROVE  Network!Send(p)
  <2> DEFINE pc == [q \in Procs |-> IF running = q THEN at ELSE node_index[q]]
             ch == NodeAt(p, at).ch
  <2>1. /\ running = p /\ pc[p] = at /\ at \in DOMAIN execution_order[p]
        /\ NodeAt(p, at).op = "send"
    BY Zenon, <1>4 DEF SentOnChannel, SkipSend, Executing
  <2>2. Network!Step(p, None)
    <3>1. CASE SentOnChannel(p)
      BY Zenon, <3>1, SendAdvances, AdvanceIsStep
    <3>2. CASE SkipSend(p)
      BY Zenon, <2>1, <3>2, GoOnAdvances, AdvanceIsStep DEF SkipSend
    <3> QED BY Zenon, <1>4, <3>1, <3>2
  <2>3. queue' = IF Active(p, at, Env(p))
                 THEN [queue EXCEPT ![ch] = AfterWrite(ch, queue[ch], Data(p, at, Env(p)))]
                 ELSE queue
    BY Zenon, <1>4 DEF SentOnChannel, SkipSend
  <2> QED
    BY Zenon, <2>1, <2>2, <2>3
       DEF Network!Send, Network!NodeAt, Network!Env, Network!EnvAt, Network!AfterWrite,
           NodeAt, Env, EnvAt, AfterWrite
<1>5. ASSUME NEW p \in Procs, HandleNext(p)
      PROVE  Network!NextValue(p)
  <2> DEFINE pc == [q \in Procs |-> IF running = q THEN at ELSE node_index[q]]
  <2>1. /\ running = p /\ pc[p] = at /\ at \in DOMAIN execution_order[p]
        /\ NodeAt(p, at).op = "next" /\ queue' = queue /\ GoOn(p, None)
    BY Zenon, <1>5 DEF HandleNext, Executing
  <2>2. Network!Step(p, None)
    BY Zenon, <2>1, GoOnAdvances, AdvanceIsStep
  <2> QED BY Zenon, <2>1, <2>2 DEF Network!NextValue, Network!NodeAt, NodeAt
<1>6. ASSUME NEW p \in Procs, Completed(p)
      PROVE  Network!Activate(p)
  <2> DEFINE pc == [q \in Procs |-> IF running = q THEN at ELSE node_index[q]]
  <2>1. /\ running = p /\ running' = None /\ pc[p] = at /\ At(p) = at
        /\ at = Len(execution_order[p]) + 1 /\ queue' = queue
        /\ node_index' = [node_index EXCEPT ![p] = 1]
        /\ node_values' = [node_values EXCEPT ![p] = <<>>]
    BY Zenon, <1>6 DEF Completed, At
  <2>2. pc' = [pc EXCEPT ![p] = 1]
    <3>1. \A q \in Procs : pc'[q] = IF q = p THEN 1 ELSE pc[q]
      BY Zenon, <1>0, <2>1 DEF TypeInvariant, IsFcn
    <3>2. [pc EXCEPT ![p] = 1] = [q \in Procs |-> IF q = p THEN 1 ELSE pc[q]]
      BY Zenon
    <3>3. pc' = [q \in Procs |-> pc'[q]]
      BY Zenon
    <3> HIDE DEF pc
    <3> QED BY Zenon, <3>1, <3>2, <3>3
  <2>3. active_next[p] = Network!ActiveNext(p)
    <3>1. 1 .. at - 1 = DOMAIN execution_order[p]
      <4>1. execution_order[p] \in Seq(Node)
        BY Zenon, ProcNodesAssumption
      <4>2. Len(execution_order[p]) \in Nat /\ DOMAIN execution_order[p] = 1 .. Len(execution_order[p])
        BY <4>1
      <4> QED BY <2>1, <4>2
    <3>2. active_next[p] = NextsBefore(p, at, state[p], node_values[p])
      BY Zenon, <2>1 DEF ContinuationInvariant, Resumable
    <3> QED BY Zenon, <3>1, <3>2 DEF NextsBefore, Network!ActiveNext, Network!NodeAt, NodeAt,
                                     Network!EnvAt, EnvAt
  <2>4. \/ active_next[p] = {} /\ UNCHANGED state
        \/ \E i \in active_next[p] :
             /\ active_next[p] = {i}
             /\ state' = [state EXCEPT ![p] = Data(p, i, EnvAt(state[p], node_values[p], i))]
    BY Zenon, <1>6 DEF Completed
  <2> QED BY Zenon, <2>1, <2>2, <2>3, <2>4 DEF Network!Activate, Network!EnvAt, EnvAt
<1>7. CASE ResetState
  <2>1. Network!Restart
    <3>1. \A q \in Procs : (IF running' = q THEN at' ELSE node_index'[q]) = 1
      BY Zenon, <1>0, <1>7 DEF ResetState
    <3> QED BY Zenon, <1>7, <3>1 DEF ResetState, Network!Restart
  <2> QED BY Zenon, <2>1 DEF Network!Next
<1>8. CASE \/ \E ch \in Inputs, v \in Values : WriteInput(ch, v)
           \/ \E ch \in Outputs : ReadOutput(ch)
  <2>1. UNCHANGED <<continuations, scheduler>>
    BY Zenon, <1>8 DEF WriteInput, ReadOutput
  <2>2. \/ \E ch \in Inputs, v \in Values :
             queue' = [queue EXCEPT ![ch] = AfterWrite(ch, queue[ch], v)]
        \/ \E ch \in Outputs :
             queue[ch] # <<>> /\ queue' = [queue EXCEPT ![ch] = AfterRead(ch, queue[ch])]
    BY Zenon, <1>8 DEF WriteInput, ReadOutput
  <2>3. Network!Caller
    BY Zenon, <2>1, <2>2 DEF Network!Caller, Network!AfterWrite, Network!AfterRead, AfterWrite,
                             AfterRead, continuations, scheduler
  <2> QED BY Zenon, <2>3 DEF Network!Next
<1>9. CASE UNCHANGED vars
  BY Zenon, <1>1, <1>9 DEF vars, continuations, scheduler, At
<1> QED
  BY Zenon, <1>2, <1>3, <1>4, <1>5, <1>6, <1>7, <1>8, <1>9
     DEF Next, TickInternal, Between, Network!Next

(***************************************************************************)
(* For every network and caller, the serial runtime is a scheduler of the  *)
(* network: whatever the order in which it blocks, resumes and restarts    *)
(* procs, each executes its nodes in order, with the results the network   *)
(* gives them.                                                             *)
(***************************************************************************)
THEOREM RuntimeRefinesNetwork == Spec => RefinesNetwork
<1>1. ASSUME Init PROVE ContinuationInvariant /\ Network!Init
  <2>0. None \notin Procs
    BY Zenon, ProcNodesAssumption
  <2>1. /\ 1 \in Nat \ {0} /\ <<>> \in Seq({}) /\ Len(<<>>) = 1 - 1 /\ 1 .. 1 - 1 = {}
    OBVIOUS
  <2>2. ASSUME NEW p \in Procs PROVE Resumable(p)
    <3>1. At(p) = 1 /\ node_values[p] = <<>> /\ active_next[p] = {}
      BY Zenon, <1>1, <2>0 DEF Init, At
    <3>2. NextsBefore(p, At(p), state[p], node_values[p]) = {}
      BY Zenon, <2>1, <3>1 DEF NextsBefore
    <3> QED BY Zenon, <2>1, <3>1, <3>2 DEF Resumable
  <2>3. \A q \in Procs : (IF running = q THEN at ELSE node_index[q]) = 1
    BY Zenon, <1>1, <2>0 DEF Init
  <2>4. Network!Init
    BY Zenon, <1>1, <2>3 DEF Init, Network!Init
  <2> QED BY Zenon, <2>2, <2>4 DEF ContinuationInvariant
<1> QED BY <1>1, ContinuationStep, RefinementStep, TypeCorrect, PTL
        DEF Spec, RefinesNetwork, Network!Spec

================================================================================
