------------------------------- MODULE ProcRuntime -------------------------------
(***************************************************************************)
(* The serial runtime of a proc network (interpreter/serial_proc_runtime,  *)
(* proc_runtime) on top of an evaluator of single procs                    *)
(* (interpreter/proc_interpreter; jit/proc_jit keeps the same bookkeeping  *)
(* with continuation points instead of node indices).                      *)
(*                                                                         *)
(* One step executes one node, so that writes by the caller's other        *)
(* threads, which the queues allow, can fall between any two nodes.        *)
(***************************************************************************)
EXTENDS ProcNodes

CONSTANTS
  proc_instances,       \* the elaboration's list of instances
  Requests,             \* the calls made: [kind, counts, max_ticks]
  MaxTokens             \* bound: the caller writes while fewer values are queued

CallKinds == {"Tick", "TickUntilOutput", "TickUntilBlocked"}

ASSUME ProcRuntimeAssumption ==
  /\ proc_instances \in Seq(Procs)
  /\ \A p \in Procs : \E i \in DOMAIN proc_instances : proc_instances[i] = p
  /\ \A i, j \in DOMAIN proc_instances : proc_instances[i] = proc_instances[j] => i = j
  /\ \A r \in Requests : r.kind \in CallKinds
  /\ None \notin {"Ok", "Deadlocked", "AlreadyExists"}

VARIABLES
  node_index, state, node_values, active_next,   \* the continuations
  queue,
  ready_instances, blocked_instances,            \* locals of TickInternal
  running, at,                                   \* the proc being ticked and its next node
  progress_made, progress_made_on_io_procs,
  completed,                                     \* how often each proc completed in this TickInternal
  phase,                                         \* "idle", "call" or "tick": where the caller's thread is
  request, ticks, status,                        \* the call, its tick count and its result
  raced                                          \* the channels another thread wrote in this TickInternal

continuations == <<node_index, state, node_values, active_next>>
scheduler ==
  <<ready_instances, blocked_instances, running, at, progress_made,
    progress_made_on_io_procs, completed>>
call == <<phase, request, ticks, status, raced>>
vars == <<continuations, queue, scheduler, call>>

Env(p) == EnvAt(state[p], node_values[p], at)

Init ==
  /\ node_index = [p \in Procs |-> 1]
  /\ state = [p \in Procs |-> InitValue]
  /\ node_values = [p \in Procs |-> <<>>]
  /\ active_next = [p \in Procs |-> {}]
  /\ queue = initial_values
  /\ ready_instances = <<>> /\ blocked_instances = [ch \in Channels |-> None]
  /\ running = None /\ at = 1
  /\ progress_made = FALSE /\ progress_made_on_io_procs = FALSE
  /\ completed = [p \in Procs |-> 0]
  /\ phase = "idle" /\ request = None /\ ticks = 0 /\ status = None /\ raced = {}

--------------------------------------------------------------------------------
(* TickInternal and the evaluator's Tick.                                  *)

StartTickInternal ==
  /\ ready_instances' = proc_instances
  /\ blocked_instances' = [ch \in Channels |-> None]
  /\ progress_made' = FALSE /\ progress_made_on_io_procs' = FALSE
  /\ completed' = [p \in Procs |-> 0]
  /\ phase' = "tick" /\ raced' = {}
  /\ UNCHANGED <<continuations, queue, running, at, request, ticks, status>>

(***************************************************************************)
(* The next ready instance resumes at the node its continuation names.     *)
(***************************************************************************)
Dispatch ==
  /\ phase = "tick" /\ running = None /\ ready_instances # <<>>
  /\ running' = Head(ready_instances)
  /\ ready_instances' = Tail(ready_instances)
  /\ at' = node_index[Head(ready_instances)]
  /\ UNCHANGED <<continuations, queue, blocked_instances, progress_made,
                 progress_made_on_io_procs, completed, call>>

Progress(p, made) ==
  /\ progress_made' = (progress_made \/ made)
  /\ progress_made_on_io_procs' = (progress_made_on_io_procs \/ (made /\ HasIo(p)))

NodeDone(p, result) ==
  /\ node_values' = [node_values EXCEPT ![p] = Append(node_values[p], result)]
  /\ UNCHANGED state

(***************************************************************************)
(* The evaluator goes on to the next node without returning.               *)
(***************************************************************************)
GoOn(p, result) ==
  /\ NodeDone(p, result)
  /\ at' = at + 1
  /\ UNCHANGED <<node_index, ready_instances, blocked_instances, running, progress_made,
                 progress_made_on_io_procs, completed, call>>

Executing(p, ops) ==
  /\ phase = "tick" /\ running = p
  /\ at \in DOMAIN execution_order[p] /\ NodeAt(p, at).op \in ops

HandleReceive(p) ==
  /\ Executing(p, {Blocking, NonBlocking})
  /\ LET n == NodeAt(p, at)
     IN  \/ /\ Active(p, at, Env(p)) /\ queue[n.ch] # <<>>
            /\ GoOn(p, ValueRead(n, Head(queue[n.ch])))
            /\ queue' = [queue EXCEPT ![n.ch] = AfterRead(n.ch, queue[n.ch])]
         \/ /\ ~Active(p, at, Env(p)) \/ (n.op = NonBlocking /\ queue[n.ch] = <<>>)
            /\ GoOn(p, NothingRead(n)) /\ UNCHANGED queue
  /\ UNCHANGED active_next

(***************************************************************************)
(* A definition named Mistake... is a plausible mistake in the definition  *)
(* that follows it.                                                        *)
(***************************************************************************)
MistakeStaysReady(p, ch) ==
  ready_instances' = Append(ready_instances, p) /\ UNCHANGED blocked_instances

Block(p, ch) ==
  /\ blocked_instances' = [blocked_instances EXCEPT ![ch] = p]
  /\ UNCHANGED ready_instances

(***************************************************************************)
(* The evaluator returns kBlockedOnReceive; it will resume at the receive. *)
(***************************************************************************)
BlockedOnReceive(p) ==
  /\ Executing(p, {Blocking})
  /\ LET n == NodeAt(p, at)
     IN  /\ Active(p, at, Env(p)) /\ queue[n.ch] = <<>>
         /\ Block(p, n.ch)
  /\ node_index' = [node_index EXCEPT ![p] = at]
  /\ Progress(p, at # node_index[p])
  /\ running' = None
  /\ UNCHANGED <<state, node_values, active_next, queue, at, completed, call>>

MistakeSendsAgain(p) == node_index' = [node_index EXCEPT ![p] = at]

ResumeAfterSend(p) == node_index' = [node_index EXCEPT ![p] = at + 1]

MistakeNotWoken(p, ch) ==
  ready_instances' = Append(ready_instances, p) /\ UNCHANGED blocked_instances

Unblock(p, ch) ==
  IF blocked_instances[ch] = None
  THEN ready_instances' = Append(ready_instances, p) /\ UNCHANGED blocked_instances
  ELSE /\ ready_instances' = Append(Append(ready_instances, blocked_instances[ch]), p)
       /\ blocked_instances' = [blocked_instances EXCEPT ![ch] = None]

(***************************************************************************)
(* The evaluator returns kSentOnChannel after an active send.  The runtime *)
(* makes the instance blocked on the channel ready, then the sender.       *)
(***************************************************************************)
SentOnChannel(p) ==
  /\ Executing(p, {"send"}) /\ Active(p, at, Env(p))
  /\ LET ch == NodeAt(p, at).ch
     IN  /\ queue' = [queue EXCEPT ![ch] = AfterWrite(ch, queue[ch], Data(p, at, Env(p)))]
         /\ Unblock(p, ch)
  /\ NodeDone(p, None) /\ ResumeAfterSend(p)
  /\ Progress(p, TRUE)
  /\ running' = None
  /\ UNCHANGED <<active_next, at, completed, call>>

SkipSend(p) ==
  /\ Executing(p, {"send"}) /\ ~Active(p, at, Env(p))
  /\ GoOn(p, None)
  /\ UNCHANGED <<queue, active_next>>

HandleNext(p) ==
  /\ Executing(p, {"next"})
  /\ GoOn(p, None)
  /\ active_next' = [active_next EXCEPT ![p] =
                       IF Active(p, at, Env(p)) THEN @ \cup {at} ELSE @]
  /\ UNCHANGED queue

MistakeReadyAgain(p) ==
  /\ Progress(p, TRUE)
  /\ completed' = [completed EXCEPT ![p] = @ + 1]
  /\ ready_instances' = Append(ready_instances, p)

MistakeComparesIndex(p) ==
  /\ Progress(p, node_index[p] # 1)
  /\ completed' = [completed EXCEPT ![p] = @ + 1]
  /\ UNCHANGED ready_instances

Finish(p) ==
  /\ Progress(p, TRUE)
  /\ completed' = [completed EXCEPT ![p] = @ + 1]
  /\ UNCHANGED ready_instances

(***************************************************************************)
(* The evaluator returns kCompleted; the continuation starts the next      *)
(* activation.                                                             *)
(***************************************************************************)
Completed(p) ==
  /\ phase = "tick" /\ running = p /\ at = Len(execution_order[p]) + 1
  /\ \/ active_next[p] = {} /\ UNCHANGED state
     \/ \E i \in active_next[p] :
          /\ active_next[p] = {i}
          /\ state' = [state EXCEPT ![p] = Data(p, i, EnvAt(state[p], node_values[p], i))]
  /\ active_next' = [active_next EXCEPT ![p] = {}]
  /\ node_index' = [node_index EXCEPT ![p] = 1]
  /\ node_values' = [node_values EXCEPT ![p] = <<>>]
  /\ Finish(p)
  /\ running' = None
  /\ UNCHANGED <<queue, blocked_instances, at, call>>

(***************************************************************************)
(* Two active next values: an error, which ends the call at once.  running *)
(* keeps naming the proc, whose continuation is left half-way.             *)
(***************************************************************************)
MultipleNext(p) ==
  /\ phase = "tick" /\ running = p /\ at = Len(execution_order[p]) + 1
  /\ \E i, j \in active_next[p] : i # j
  /\ status' = "AlreadyExists" /\ phase' = "idle"
  /\ UNCHANGED <<continuations, queue, scheduler, request, ticks, raced>>

--------------------------------------------------------------------------------
(* The calls.                                                              *)

Return(s) == phase' = "idle" /\ status' = s /\ UNCHANGED <<request, ticks, raced>>

(***************************************************************************)
(* A call begins.  TickUntilOutput takes send-only channels only, and at   *)
(* most one value of a single-value channel.  After an error of a proc the *)
(* caller only resets the network.                                         *)
(***************************************************************************)
BadArgument(r) ==
  /\ r.kind = "TickUntilOutput"
  /\ \E ch \in DOMAIN r.counts :
       ch \notin Outputs \/ (ch \in SingleValue /\ r.counts[ch] > 1)

Call(r) ==
  /\ phase = "idle" /\ status # "AlreadyExists"
  /\ request' = r /\ ticks' = 0
  /\ IF BadArgument(r) THEN phase' = "idle" /\ status' = "InvalidArgument"
     ELSE phase' = "call" /\ status' = None
  /\ UNCHANGED <<continuations, queue, scheduler, raced>>

NeedsMoreOutput ==
  \E ch \in DOMAIN request.counts : Len(queue[ch]) < request.counts[ch]

Exceeded == request.max_ticks # None /\ ticks >= request.max_ticks

(***************************************************************************)
(* The head of the loop of TickUntilOutput and of TickUntilBlocked; Tick   *)
(* calls TickInternal at once.                                             *)
(***************************************************************************)
LoopHead ==
  /\ phase = "call"
  /\ LET enough == request.kind = "TickUntilOutput" /\ ~NeedsMoreOutput
         late == request.kind # "Tick" /\ Exceeded
     IN  \/ enough /\ Return("Ok") /\ UNCHANGED <<continuations, queue, scheduler>>
         \/ ~enough /\ late /\ Return("DeadlineExceeded")
            /\ UNCHANGED <<continuations, queue, scheduler>>
         \/ ~enough /\ ~late /\ StartTickInternal

(***************************************************************************)
(* TickInternal returns.  ticks is counted only where it is compared.      *)
(***************************************************************************)
TickInternalReturns ==
  /\ phase = "tick" /\ running = None /\ ready_instances = <<>>
  /\ LET again == /\ phase' = "call"
                  /\ ticks' = IF request.max_ticks = None THEN ticks ELSE ticks + 1
                  /\ UNCHANGED <<request, status, raced>>
     IN  CASE request.kind = "Tick" ->
                Return(IF progress_made THEN "Ok" ELSE "Deadlocked")
           [] request.kind = "TickUntilOutput" ->
                IF progress_made THEN again ELSE Return("Deadlocked")
           [] request.kind = "TickUntilBlocked" ->
                IF progress_made_on_io_procs THEN again ELSE Return("Ok")
  /\ UNCHANGED <<continuations, queue, scheduler>>

(***************************************************************************)
(* ResetState gives every instance a new continuation and leaves the       *)
(* queues alone.                                                           *)
(***************************************************************************)
ResetState ==
  /\ phase = "idle"
  /\ node_index' = [p \in Procs |-> 1]
  /\ state' = [p \in Procs |-> InitValue]
  /\ node_values' = [p \in Procs |-> <<>>]
  /\ active_next' = [p \in Procs |-> {}]
  /\ running' = None
  /\ status' = None
  /\ UNCHANGED <<queue, ready_instances, blocked_instances, at, progress_made,
                 progress_made_on_io_procs, completed, phase, request, ticks, raced>>

(***************************************************************************)
(* The queues are thread-safe: a thread of the caller writes and reads     *)
(* them between calls and during a call of another.                        *)
(***************************************************************************)
WriteInput(ch, v) ==
  /\ \A c \in Channels : Len(queue[c]) < MaxTokens
  /\ queue' = [queue EXCEPT ![ch] = AfterWrite(ch, queue[ch], v)]
  /\ status' = IF status = "AlreadyExists" THEN status ELSE None
  /\ raced' = IF phase = "tick" THEN raced \cup {ch} ELSE raced
  /\ UNCHANGED <<continuations, scheduler, phase, request, ticks>>

ReadOutput(ch) ==
  /\ queue[ch] # <<>>
  /\ queue' = [queue EXCEPT ![ch] = AfterRead(ch, queue[ch])]
  /\ status' = IF status = "AlreadyExists" THEN status ELSE None
  /\ UNCHANGED <<continuations, scheduler, phase, request, ticks, raced>>

TickInternal ==
  \/ Dispatch
  \/ \E p \in Procs :
       \/ HandleReceive(p) \/ BlockedOnReceive(p)
       \/ SentOnChannel(p) \/ SkipSend(p)
       \/ HandleNext(p)
       \/ Completed(p) \/ MultipleNext(p)
  \/ TickInternalReturns

Next ==
  \/ TickInternal
  \/ LoopHead
  \/ \E r \in Requests : Call(r)
  \/ ResetState
  \/ \E ch \in Inputs, v \in Values : WriteInput(ch, v)
  \/ \E ch \in Outputs : ReadOutput(ch)

Spec == Init /\ [][Next]_vars

(***************************************************************************)
(* The caller's thread keeps executing the call it made.                   *)
(***************************************************************************)
FairSpec == Spec /\ WF_vars(TickInternal \/ LoopHead)

--------------------------------------------------------------------------------
(***************************************************************************)
(* What p's continuation waits for: data on ch.  Another thread may have   *)
(* written ch in the TickInternal that found it empty.                     *)
(***************************************************************************)
WaitsOn(p, ch) ==
  LET i == node_index[p]
  IN  /\ i \in DOMAIN execution_order[p]
      /\ NodeAt(p, i).op = Blocking /\ NodeAt(p, i).ch = ch
      /\ Active(p, i, EnvAt(state[p], node_values[p], i))
      /\ queue[ch] = <<>> \/ ch \in raced

Waiting(p) == \E ch \in Channels : WaitsOn(p, ch)

(***************************************************************************)
(* TickInternal runs every proc as far as one activation goes: when no     *)
(* instance is ready any more, each one has completed its activation or    *)
(* waits for a channel that is empty.  No wake-up is lost between the      *)
(* ready list and the map of blocked instances.                            *)
(***************************************************************************)
Exhausted ==
  phase = "tick" /\ running = None /\ ready_instances = <<>>
    => \A p \in Procs : completed[p] > 0 \/ Waiting(p)

(***************************************************************************)
(* One TickInternal completes at most one activation of each proc.         *)
(***************************************************************************)
OneActivation == \A p \in Procs : completed[p] <= 1

(***************************************************************************)
(* Tick and TickUntilOutput report a deadlock only when no proc of the     *)
(* network can execute a node and none has completed an activation in the  *)
(* tick that found it.                                                     *)
(***************************************************************************)
DeadlockIsReal ==
  status = "Deadlocked" => \A p \in Procs : completed[p] = 0 /\ Waiting(p)

(***************************************************************************)
(* TickUntilBlocked returns only when every proc with sends or receives    *)
(* waits at a receive.                                                     *)
(***************************************************************************)
BlockedIsReal ==
  status = "Ok" /\ request.kind = "TickUntilBlocked"
    => \A p \in Procs : HasIo(p) => Waiting(p)

(***************************************************************************)
(* The loop over the ready list ends, whatever the procs send each other   *)
(* and whatever other threads write meanwhile.                             *)
(***************************************************************************)
TickTerminates == phase = "tick" ~> phase # "tick"

Network ==
  INSTANCE ProcNetwork WITH
    pc <- [p \in Procs |-> IF running = p THEN at ELSE node_index[p]],
    values <- node_values

(***************************************************************************)
(* Whatever the interleaving of blocked, resumed and restarted procs, each *)
(* proc executes its nodes in order, receives each value once and sends    *)
(* each value once: the runtime is a scheduler of the network.             *)
(***************************************************************************)
RefinesNetwork == Network!Spec

================================================================================
