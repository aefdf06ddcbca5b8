-------------------------------- MODULE Testbench --------------------------------
(***************************************************************************)
(* Testbench::Run of tools/testbench.h and its worker threads              *)
(* (tools/testbench_thread.h): the parent divides an index space, waits on *)
(* a condition variable until all workers are ready, starts them and       *)
(* monitors them until all are done or one reports an error, and joins     *)
(* them.                                                                   *)
(*                                                                         *)
(* The parent holds mutex_ except while it waits and after the monitoring  *)
(* loop.  A wait that is over has yet to lock mutex_ again; a signal that  *)
(* comes then, or while nobody waits, is lost.  The comparison for an      *)
(* index may succeed or fail.                                              *)
(***************************************************************************)
EXTENDS Integers

CONSTANTS
  num_threads,
  end,               \* end_ - start_: the ranges are counted from 0
  max_failures,
  CancelInterval     \* cancelled_ is looked at for every 128th index

ASSUME TestbenchAssumption ==
  /\ num_threads \in Nat \ {0} /\ end \in Nat
  /\ max_failures \in Nat /\ CancelInterval \in Nat \ {0}

Threads == 0 .. num_threads - 1

(***************************************************************************)
(* The ranges [first, last) that Run computes: the remainder is spread     *)
(* over the first threads, and a range begins one behind the end of the    *)
(* previous one.  first is the sum that the loop accumulates.              *)
(***************************************************************************)
chunk_size == end \div num_threads
chunk_remainder == IF chunk_size = 0 THEN end ELSE end % chunk_size
first(t) ==
  t * (chunk_size + 1) + IF t < chunk_remainder THEN t ELSE chunk_remainder
last(t) == first(t) + chunk_size + IF t < chunk_remainder THEN 1 ELSE 0

VARIABLES
  parent, k, num,            \* the parent's place, loop index and counter
  worker, i, return_status,  \* per worker: place and local variables
  cancelled, running, ready, start, num_failures, status,
  evaluated, mismatches      \* history: the indices compared, and those that differed

atomics == <<cancelled, running, ready, start, num_failures, status>>
testbench_vars == <<parent, k, num, worker, i, return_status, atomics, mismatches, evaluated>>

(***************************************************************************)
(* mutex_ is free: the parent waits, or has been woken and has not locked  *)
(* it yet, or has left the monitoring loop.                                *)
(***************************************************************************)
MutexFree ==
  parent \in {"wait_ready", "woken_ready", "wait", "woken", "join", "returned"}

TestbenchInit ==
  /\ parent = "spawn" /\ k = 0 /\ num = 0
  /\ worker = [t \in Threads |-> "none"]
  /\ i = [t \in Threads |-> first(t)]
  /\ return_status = [t \in Threads |-> "OK"]
  /\ cancelled = FALSE /\ start = FALSE
  /\ running = [t \in Threads |-> FALSE] /\ ready = [t \in Threads |-> FALSE]
  /\ num_failures = [t \in Threads |-> 0] /\ status = [t \in Threads |-> "OK"]
  /\ mismatches = {} /\ evaluated = {}

--------------------------------------------------------------------------------
(***************************************************************************)
(* The parent.                                                             *)
(***************************************************************************)
Spawn ==
  /\ parent = "spawn"
  /\ worker' = [worker EXCEPT ![k] = "begin"]
  /\ k' = k + 1
  /\ parent' = IF k' = num_threads THEN "wait_ready" ELSE "spawn"
  /\ UNCHANGED <<num, i, return_status, atomics, mismatches, evaluated>>

(***************************************************************************)
(* CondVar::Wait unlocks mutex_, is woken, and locks it again before it    *)
(* returns.  A condition variable may wake its waiter without a signal,    *)
(* and the wait of the monitoring loop times out.                          *)
(***************************************************************************)
Woken ==
  /\ parent' = IF parent = "wait_ready" THEN "woken_ready" ELSE "woken"
  /\ UNCHANGED <<k, num>>

Reacquire ==
  /\ parent \in {"woken_ready", "woken"}
  /\ parent' = IF parent = "woken_ready" THEN "check_ready" ELSE "scan"
  /\ k' = 0 /\ num' = 0
  /\ UNCHANGED <<worker, i, return_status, atomics, mismatches, evaluated>>

SpuriousWakeup ==
  /\ parent = "wait_ready" /\ Woken
  /\ UNCHANGED <<worker, i, return_status, atomics, mismatches, evaluated>>

PrintInterval ==
  /\ parent = "wait" /\ Woken
  /\ UNCHANGED <<worker, i, return_status, atomics, mismatches, evaluated>>

CheckReady ==
  /\ parent = "check_ready"
  /\ num' = num + (IF ready[k] THEN 1 ELSE 0) /\ k' = k + 1
  /\ parent' = IF k' < num_threads THEN "check_ready"
               ELSE IF num' = num_threads THEN "start" ELSE "wait_ready"
  /\ UNCHANGED <<worker, i, return_status, atomics, mismatches, evaluated>>

(***************************************************************************)
(* No worker can wake the parent before it waits, so that the stores of    *)
(* the loop are one step.                                                  *)
(***************************************************************************)
SignalStart ==
  /\ parent = "start" /\ start' = TRUE
  /\ parent' = "wait"
  /\ UNCHANGED <<k, num, worker, i, return_status, cancelled, running, ready,
                 num_failures, status, mismatches, evaluated>>

(***************************************************************************)
(* Plausible mistakes in the definitions that follow them.                 *)
(***************************************************************************)
MistakeAnyFailure(t) == ~running[t] /\ num_failures[t] # 0

Blew(t) == ~running[t] /\ status[t] # "OK"

(***************************************************************************)
(* A worker that is not running counts as done, also if it has not begun.  *)
(***************************************************************************)
Scan ==
  /\ parent = "scan"
  /\ num' = num + (IF running[k] THEN 0 ELSE 1) /\ k' = k + 1
  /\ cancelled' = (cancelled \/ Blew(k))
  /\ parent' = IF Blew(k) THEN "join"
               ELSE IF k' < num_threads THEN "scan"
               ELSE IF num' = num_threads THEN "join" ELSE "wait"
  /\ UNCHANGED <<worker, i, return_status, running, ready, start, num_failures,
                 status, mismatches, evaluated>>

MistakeDetaches ==
  /\ parent = "join" /\ parent' = "returned"
  /\ UNCHANGED <<k, num, worker, i, return_status, atomics, mismatches, evaluated>>

JoinAll ==
  /\ parent = "join" /\ \A t \in Threads : worker[t] = "finished"
  /\ parent' = "returned"
  /\ UNCHANGED <<k, num, worker, i, return_status, atomics, mismatches, evaluated>>

(***************************************************************************)
(* What Run returns.                                                       *)
(***************************************************************************)
Succeeds == \A t \in Threads : num_failures[t] = 0

--------------------------------------------------------------------------------
(***************************************************************************)
(* A worker.                                                               *)
(***************************************************************************)
Goes(t, to) == worker' = [worker EXCEPT ![t] = to]

Begin(t) ==
  /\ worker[t] = "begin"
  /\ Goes(t, IF cancelled THEN "finished" ELSE "wake_ready")
  /\ ready' = [ready EXCEPT ![t] = ~cancelled]
  /\ UNCHANGED <<parent, k, num, i, return_status, cancelled, running, start,
                 num_failures, status, mismatches, evaluated>>

MistakeSignalsUnlocked(t, from, to) ==
  /\ worker[t] = from /\ Goes(t, to)
  /\ IF parent \in {"wait_ready", "wait"} THEN Woken ELSE UNCHANGED <<parent, k, num>>
  /\ UNCHANGED <<i, return_status, atomics, mismatches, evaluated>>

WakeParent(t, from, to) ==
  /\ worker[t] = from /\ MutexFree /\ Goes(t, to)
  /\ IF parent \in {"wait_ready", "wait"} THEN Woken ELSE UNCHANGED <<parent, k, num>>
  /\ UNCHANGED <<i, return_status, atomics, mismatches, evaluated>>

Started(t) ==
  /\ worker[t] = "spin" /\ (cancelled \/ start)
  /\ Goes(t, "loop")
  /\ running' = [running EXCEPT ![t] = TRUE]
  /\ UNCHANGED <<parent, k, num, i, return_status, cancelled, ready, start,
                 num_failures, status, mismatches, evaluated>>

NoticesCancel(t) == i[t] % CancelInterval = 0 /\ cancelled

LoopEnds(t) ==
  /\ worker[t] = "loop" /\ (i[t] = last(t) \/ NoticesCancel(t))
  /\ return_status' = [return_status EXCEPT ![t] = IF i[t] = last(t) THEN "OK" ELSE "Cancelled"]
  /\ Goes(t, "stop")
  /\ UNCHANGED <<parent, k, num, i, atomics, mismatches, evaluated>>

Evaluate(t, differs) ==
  /\ worker[t] = "loop" /\ i[t] < last(t) /\ ~NoticesCancel(t)
  /\ evaluated' = evaluated \cup {i[t]}
  /\ mismatches' = mismatches \cup (IF differs THEN {i[t]} ELSE {})
  /\ num_failures' = [num_failures EXCEPT ![t] = @ + IF differs THEN 1 ELSE 0]
  /\ IF differs /\ max_failures <= num_failures'[t]
       THEN /\ return_status' = [return_status EXCEPT ![t] = "Unknown"]
            /\ Goes(t, "stop") /\ UNCHANGED i
       ELSE /\ i' = [i EXCEPT ![t] = @ + 1]
            /\ UNCHANGED <<return_status, worker>>
  /\ UNCHANGED <<parent, k, num, cancelled, running, ready, start, status>>

Stop(t) ==
  /\ worker[t] = "stop" /\ Goes(t, "status")
  /\ running' = [running EXCEPT ![t] = FALSE]
  /\ UNCHANGED <<parent, k, num, i, return_status, cancelled, ready, start,
                 num_failures, status, mismatches, evaluated>>

SetStatus(t) ==
  /\ worker[t] = "status" /\ Goes(t, "wake_done")
  /\ status' = [status EXCEPT ![t] = return_status[t]]
  /\ UNCHANGED <<parent, k, num, i, return_status, cancelled, running, ready, start,
                 num_failures, mismatches, evaluated>>

Parent ==
  \/ Spawn \/ Reacquire \/ CheckReady \/ SignalStart
  \/ PrintInterval \/ Scan \/ JoinAll
RunInternal(t) ==
  \/ Begin(t) \/ WakeParent(t, "wake_ready", "spin") \/ Started(t)
  \/ LoopEnds(t) \/ (\E differs \in BOOLEAN : Evaluate(t, differs))
  \/ Stop(t) \/ SetStatus(t)
  \/ WakeParent(t, "wake_done", "finished")

TestbenchNext == Parent \/ SpuriousWakeup \/ \E t \in Threads : RunInternal(t)

--------------------------------------------------------------------------------
(***************************************************************************)
(* The verdict of Run is about a finished run, although the monitoring     *)
(* loop takes a worker that has not begun for one that is done: it fails   *)
(* exactly if a mismatch was evaluated, and success means that every       *)
(* worker has evaluated the whole of its range.                            *)
(***************************************************************************)
VerdictIsComplete ==
  parent = "returned" =>
    /\ Succeeds <=> mismatches = {}
    /\ Succeeds => \A t \in Threads : first(t) .. last(t) - 1 \subseteq evaluated

(***************************************************************************)
(* Workers are cancelled only because one of them has reached its limit of *)
(* failures, whatever stale mixture of running and status the parent saw.  *)
(***************************************************************************)
CancelledForCause ==
  cancelled => \E t \in Threads : num_failures[t] >= max_failures /\ num_failures[t] > 0

(***************************************************************************)
(* Run returns: no wake-up that the parent needs is lost, neither between  *)
(* its checks and its waits nor between the end of a wait and its lock on  *)
(* mutex_, and no worker spins for ever.                                   *)
(***************************************************************************)
RunReturns == parent # "spawn" ~> parent = "returned"

================================================================================
