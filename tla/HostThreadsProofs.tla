---------------------------- MODULE HostThreadsProofs ----------------------------
(***************************************************************************)
(* What the multi-threaded test bench and the invocation of a subprocess   *)
(* guarantee for every number of threads, size of the index space, limit   *)
(* of failures and cancellation interval.                                  *)
(***************************************************************************)
EXTENDS HostThreads, TLAPS

Places == {"none", "begin", "wake_ready", "spin", "loop", "stop", "status",
           "wake_done", "finished"}
ParentPlaces == {"spawn", "wait_ready", "woken_ready", "check_ready", "start", "wait",
                 "woken", "scan", "join", "returned"}
Statuses == {"OK", "Cancelled", "Unknown"}

RunType ==
  /\ parent \in ParentPlaces /\ k \in Nat /\ cancelled \in BOOLEAN
  /\ parent \in {"spawn", "scan"} => k \in Threads
  /\ worker \in [Threads -> Places] /\ i \in [Threads -> Int]
  /\ num_failures \in [Threads -> Nat]
  /\ return_status \in [Threads -> Statuses] /\ status \in [Threads -> Statuses]

(***************************************************************************)
(* What a worker's status means: an error was the limit of failures, and   *)
(* only a worker that saw cancelled reports that it was cancelled.         *)
(***************************************************************************)
ReachedLimit(t) == num_failures[t] >= max_failures /\ num_failures[t] > 0

Meaning(t, s) ==
  /\ s = "Unknown" => ReachedLimit(t)
  /\ s = "Cancelled" => cancelled

StatusInvariant ==
  /\ CancelledForCause
  /\ \A t \in Threads : Meaning(t, return_status[t]) /\ Meaning(t, status[t])

(***************************************************************************)
(* How far a worker has come, and why it has stopped before its last index.*)
(***************************************************************************)
Over == {"stop", "status", "wake_done", "finished"}

CoverInvariant ==
  /\ \A t \in Threads : first(t) .. i[t] - 1 \subseteq evaluated
  /\ \A t \in Threads : worker[t] \in Over =>
       i[t] = last(t) \/ cancelled \/ num_failures[t] > 0
  /\ mismatches = {} <=> \A t \in Threads : num_failures[t] = 0
  /\ parent = "returned" => \A t \in Threads : worker[t] = "finished"

RunInvariant == RunType /\ StatusInvariant /\ CoverInvariant

(***************************************************************************)
(* The ranges that Run computes are ranges of integers.                    *)
(***************************************************************************)
LEMMA RangeType == \A t \in Threads : t \in Nat /\ first(t) \in Int /\ last(t) \in Int
<1>1. num_threads \in Nat \ {0} /\ end \in Nat
  BY Zenon, TestbenchAssumption
<1>2. chunk_size \in Nat
  BY <1>1 DEF chunk_size
<1>3. chunk_remainder \in Nat
  <2>1. CASE chunk_size = 0
    BY Zenon, <1>1, <2>1 DEF chunk_remainder
  <2>2. CASE chunk_size # 0
    BY <1>1, <1>2, <2>2 DEF chunk_remainder
  <2> QED BY Zenon, <2>1, <2>2
<1> SUFFICES ASSUME NEW t \in Threads PROVE t \in Nat /\ first(t) \in Int /\ last(t) \in Int
  BY Zenon
<1>4. t \in Nat
  BY <1>1 DEF Threads
<1>5. t * (chunk_size + 1) \in Nat
  BY <1>2, <1>4
<1>6. first(t) \in Int
  BY <1>3, <1>4, <1>5 DEF first
<1> QED BY <1>2, <1>4, <1>6 DEF last

(***************************************************************************)
(* The ranges of Run do not cover the space [start, end) it is asked to    *)
(* evaluate: each begins one behind the end of the half-open range before  *)
(* it, so with two threads or more, and an index for each, no thread ever  *)
(* evaluates the index on which the first range ends.                      *)
(***************************************************************************)
THEOREM RangesLeaveGaps ==
  num_threads > 1 /\ num_threads <= end =>
    \E x \in 0 .. end - 1 : \A t \in Threads : x \notin first(t) .. last(t) - 1
<1> SUFFICES ASSUME num_threads > 1, num_threads <= end
             PROVE  \E x \in 0 .. end - 1 : \A t \in Threads : x \notin first(t) .. last(t) - 1
  BY Zenon
<1>1. num_threads \in Nat \ {0} /\ end \in Nat
  BY Zenon, TestbenchAssumption
<1>2. chunk_size \in Nat /\ chunk_size > 0
  BY <1>1 DEF chunk_size
<1>3. 2 * chunk_size <= end
  BY <1>1 DEF chunk_size
<1>4. chunk_remainder \in Nat /\ (chunk_remainder > 0 => chunk_size > 1)
  BY <1>1, <1>2 DEF chunk_remainder
<1> DEFINE x == last(0)
<1>5. x = chunk_size + IF 0 < chunk_remainder THEN 1 ELSE 0
  BY <1>2, <1>4 DEF last, first
<1>6. x \in 0 .. end - 1
  BY <1>1, <1>2, <1>3, <1>4, <1>5
<1>7. ASSUME NEW t \in Threads PROVE x \notin first(t) .. last(t) - 1
  <2>1. CASE t = 0
    BY RangeType, <2>1, <1>5, <1>2
  <2>2. CASE t # 0
    <3>1. t \in Nat /\ t >= 1
      BY <2>2, <1>1 DEF Threads
    <3>2. t * (chunk_size + 1) >= chunk_size + 1 /\ t * (chunk_size + 1) \in Nat
      BY <3>1, <1>2
    <3>3. first(t) > x
      BY <3>1, <3>2, <1>2, <1>4, <1>5 DEF first
    <3> QED BY <3>3, <1>2, <1>5, RangeType
  <2> QED BY Zenon, <2>1, <2>2
<1> HIDE DEF x
<1> QED BY Zenon, <1>6, <1>7

(***************************************************************************)
(* A run that has not begun satisfies the invariant.                       *)
(***************************************************************************)
LEMMA RunStart == TestbenchInit => RunInvariant
<1> SUFFICES ASSUME TestbenchInit PROVE RunInvariant
  BY Zenon
<1>1. 0 \in Threads
  BY TestbenchAssumption DEF Threads
<1>2. RunType
  BY Zenon, <1>1, RangeType DEF TestbenchInit, RunType, Places, ParentPlaces, Statuses
<1>3. StatusInvariant
  BY Zenon DEF TestbenchInit, StatusInvariant, CancelledForCause, Meaning
<1>4. CoverInvariant
  <2>1. \A t \in Threads : first(t) .. i[t] - 1 \subseteq evaluated
    BY RangeType DEF TestbenchInit
  <2> QED BY Zenon, <2>1 DEF TestbenchInit, CoverInvariant, Over
<1> QED BY Zenon, <1>2, <1>3, <1>4 DEF RunInvariant

(***************************************************************************)
(* The parent's steps keep it: they leave the workers' data alone, cancel  *)
(* only for a status that is an error, and return when all have finished.  *)
(***************************************************************************)
LEMMA ParentStep ==
  ASSUME RunInvariant, Parent \/ SpuriousWakeup
  PROVE  RunInvariant'
<1>0. 0 \in Threads /\ num_threads \in Nat /\ \A t : t \in Threads <=> t \in Nat /\ t < num_threads
  BY TestbenchAssumption DEF Threads
<1>1. ASSUME UNCHANGED <<i, return_status, num_failures, status, mismatches, evaluated>>,
             cancelled' \in BOOLEAN, cancelled => cancelled', CancelledForCause',
             parent' \in ParentPlaces, k' \in Nat,
             parent' \in {"spawn", "scan"} => k' \in Threads,
             worker' \in [Threads -> Places],
             \A t \in Threads : worker'[t] \in Over => worker[t] = worker'[t],
             parent' = "returned" => \A t \in Threads : worker'[t] = "finished"
      PROVE  RunInvariant'
  <2>1. RunType'
    BY Zenon, <1>1 DEF RunInvariant, RunType
  <2>2. StatusInvariant'
    BY Zenon, <1>1 DEF RunInvariant, StatusInvariant, Meaning, ReachedLimit
  <2>3. CoverInvariant'
    BY Zenon, <1>1 DEF RunInvariant, CoverInvariant
  <2> QED BY Zenon, <2>1, <2>2, <2>3 DEF RunInvariant
<1>2. CASE Spawn
  BY <1>0, <1>1, <1>2 DEF Spawn, atomics, RunInvariant, RunType, StatusInvariant,
     CancelledForCause, Places, ParentPlaces, Over
<1>3. CASE SpuriousWakeup \/ PrintInterval
  BY Zenon, <1>0, <1>1, <1>3 DEF SpuriousWakeup, PrintInterval, Woken, atomics, RunInvariant,
     RunType, StatusInvariant, CancelledForCause, ParentPlaces
<1>4. CASE CheckReady
  BY <1>0, <1>1, <1>4 DEF CheckReady, atomics, RunInvariant, RunType, StatusInvariant,
     CancelledForCause, ParentPlaces
<1>5. CASE SignalStart
  BY Zenon, <1>0, <1>1, <1>5 DEF SignalStart, RunInvariant, RunType, StatusInvariant,
     CancelledForCause, ParentPlaces
<1>6. CASE Scan
  <2>1. k \in Threads /\ k \in Nat
    BY Zenon, <1>0, <1>6 DEF Scan, RunInvariant, RunType
  <2>2. Blew(k) => \E t \in Threads : num_failures[t] >= max_failures /\ num_failures[t] > 0
    BY Zenon, <2>1 DEF Blew, RunInvariant, RunType, StatusInvariant, Meaning, ReachedLimit,
       CancelledForCause, Statuses
  <2>3. CancelledForCause'
    BY Zenon, <1>6, <2>2 DEF Scan, RunInvariant, StatusInvariant, CancelledForCause
  <2>4. /\ cancelled' \in BOOLEAN /\ (cancelled => cancelled')
        /\ parent' \in {"join", "scan", "wait"} /\ k' = k + 1
        /\ parent' = "scan" => k + 1 < num_threads
    BY Zenon, <1>6 DEF Scan, RunInvariant, RunType
  <2> QED BY <1>0, <1>1, <1>6, <2>1, <2>3, <2>4 DEF Scan, RunInvariant, RunType, ParentPlaces
<1>7. CASE JoinAll
  BY Zenon, <1>0, <1>1, <1>7 DEF JoinAll, atomics, RunInvariant, RunType, StatusInvariant,
     CancelledForCause, ParentPlaces
<1>8. CASE Reacquire
  BY Zenon, <1>0, <1>1, <1>8 DEF Reacquire, atomics, RunInvariant, RunType, StatusInvariant,
     CancelledForCause, ParentPlaces
<1> QED BY Zenon, <1>2, <1>3, <1>4, <1>5, <1>6, <1>7, <1>8 DEF Parent

(***************************************************************************)
(* A worker's steps keep it.  Those that compare nothing leave all data    *)
(* but the worker's own status alone.                                      *)
(***************************************************************************)
LEMMA QuietStep ==
  ASSUME RunInvariant, NEW t \in Threads,
         UNCHANGED <<i, cancelled, num_failures, mismatches, evaluated>>,
         parent' = parent \/ (parent \in {"wait_ready", "wait"}
                               /\ parent' \in {"woken_ready", "woken"}),
         k' = k,
         NEW to \in Places, Goes(t, to), worker[t] # "finished",
         to \in Over => worker[t] \in Over \/ i[t] = last(t) \/ cancelled,
         NEW r \in Statuses, return_status' = [return_status EXCEPT ![t] = r],
         NEW s \in Statuses, status' = [status EXCEPT ![t] = s],
         Meaning(t, r), Meaning(t, s)
  PROVE  RunInvariant'
<1>0. 0 \in Threads
  BY TestbenchAssumption DEF Threads
<1>1. RunType'
  BY <1>0 DEF RunInvariant, RunType, ParentPlaces, Goes
<1>2. StatusInvariant'
  BY Zenon DEF RunInvariant, RunType, StatusInvariant, CancelledForCause, Meaning, ReachedLimit
<1>3. CoverInvariant'
  <2>1. parent # "returned" /\ parent' # "returned"
    BY Zenon DEF RunInvariant, CoverInvariant
  <2>2. \A u \in Threads : worker'[u] = IF u = t THEN to ELSE worker[u]
    BY Zenon DEF Goes, RunInvariant, RunType
  <2> QED BY Zenon, <2>1, <2>2 DEF RunInvariant, CoverInvariant
<1> QED BY Zenon, <1>1, <1>2, <1>3 DEF RunInvariant

(***************************************************************************)
(* A comparison counts a failure, remembers it, and ends the loop of a     *)
(* worker only with the failure that reaches the limit.                    *)
(***************************************************************************)
LEMMA EvaluateStep ==
  ASSUME RunInvariant, NEW t \in Threads, NEW differs \in BOOLEAN, Evaluate(t, differs)
  PROVE  RunInvariant'
<1>1. /\ num_failures' = [num_failures EXCEPT ![t] = @ + IF differs THEN 1 ELSE 0]
      /\ num_failures' \in [Threads -> Nat]
      /\ \A u \in Threads : num_failures'[u] >= num_failures[u]
      /\ num_failures'[t] = num_failures[t] + IF differs THEN 1 ELSE 0
      /\ \A u \in Threads \ {t} : num_failures'[u] = num_failures[u]
  BY DEF Evaluate, RunInvariant, RunType
<1>2. max_failures \in Nat
  BY Zenon, TestbenchAssumption
<1> DEFINE Limit == differs /\ max_failures <= num_failures'[t]
<1>3. CASE Limit
  <2>1. /\ return_status' = [return_status EXCEPT ![t] = "Unknown"] /\ Goes(t, "stop")
        /\ UNCHANGED <<i, parent, k, num, cancelled, running, ready, start, status>>
        /\ evaluated' = evaluated \cup {i[t]} /\ mismatches' = mismatches \cup {i[t]}
    BY Zenon, <1>3 DEF Evaluate
  <2>2. RunType'
    BY Zenon, <1>1, <2>1 DEF RunInvariant, RunType, Goes, Places, Statuses
  <2>3. num_failures'[t] >= max_failures /\ num_failures'[t] > 0
    BY <1>1, <1>2, <1>3 DEF RunInvariant, RunType
  <2>4. StatusInvariant'
    BY Zenon, <1>1, <1>2, <2>1, <2>3
    DEF RunInvariant, RunType, StatusInvariant, CancelledForCause, Meaning, ReachedLimit
  <2>5. CoverInvariant'
    <3>1. worker[t] = "loop" /\ \A u \in Threads : worker'[u] = IF u = t THEN "stop" ELSE worker[u]
      BY Zenon, <2>1 DEF Goes, RunInvariant, RunType, Evaluate
    <3>2. parent # "returned"
      BY Zenon, <3>1 DEF RunInvariant, CoverInvariant
    <3>3. \A u \in Threads : worker'[u] \in Over =>
             i'[u] = last(u) \/ cancelled' \/ num_failures'[u] > 0
      BY Zenon, <1>1, <2>1, <2>3, <3>1 DEF RunInvariant, RunType, CoverInvariant
    <3> QED BY <1>1, <2>1, <2>3, <3>2, <3>3 DEF RunInvariant, CoverInvariant
  <2> QED BY Zenon, <2>2, <2>4, <2>5 DEF RunInvariant
<1>4. CASE ~Limit
  <2>1. /\ i' = [i EXCEPT ![t] = @ + 1]
        /\ UNCHANGED <<return_status, worker, parent, k, num, cancelled, running, ready,
                       start, status>>
        /\ evaluated' = evaluated \cup {i[t]}
        /\ mismatches' = mismatches \cup (IF differs THEN {i[t]} ELSE {})
    BY Zenon, <1>4 DEF Evaluate
  <2>2. RunType'
    BY <1>1, <2>1 DEF RunInvariant, RunType
  <2>3. StatusInvariant'
    BY <1>1, <1>2, <2>1
    DEF RunInvariant, RunType, StatusInvariant, CancelledForCause, Meaning, ReachedLimit
  <2>4. CoverInvariant'
    <3>1. worker[t] = "loop" /\ parent # "returned"
      BY Zenon DEF Evaluate, RunInvariant, CoverInvariant
    <3>2. \A u \in Threads : first(u) .. i'[u] - 1 \subseteq evaluated'
      BY <2>1, RangeType DEF RunInvariant, RunType, CoverInvariant
    <3>3. \A u \in Threads : worker'[u] \in Over =>
             i'[u] = last(u) \/ cancelled' \/ num_failures'[u] > 0
      BY Zenon, <1>1, <2>1, <3>1 DEF RunInvariant, RunType, CoverInvariant, Over
    <3>4. mismatches' = {} <=> \A u \in Threads : num_failures'[u] = 0
      BY <1>1, <2>1 DEF RunInvariant, RunType, CoverInvariant
    <3> QED BY Zenon, <2>1, <3>1, <3>2, <3>3, <3>4 DEF CoverInvariant
  <2> QED BY Zenon, <2>2, <2>3, <2>4 DEF RunInvariant
<1> QED BY Zenon, <1>3, <1>4

(***************************************************************************)
(* Every step of a worker keeps it.                                        *)
(***************************************************************************)
LEMMA WorkerStep ==
  ASSUME RunInvariant, NEW t \in Threads, RunInternal(t)
  PROVE  RunInvariant'
<1>0. /\ return_status \in [Threads -> Statuses] /\ status \in [Threads -> Statuses]
      /\ return_status[t] \in Statuses /\ status[t] \in Statuses
      /\ return_status = [return_status EXCEPT ![t] = return_status[t]]
      /\ status = [status EXCEPT ![t] = status[t]]
      /\ Meaning(t, return_status[t]) /\ Meaning(t, status[t])
  BY Zenon DEF RunInvariant, RunType, StatusInvariant
<1>1. CASE Begin(t)
  <2>1. CASE cancelled
    BY Zenon, <1>0, <1>1, <2>1, QuietStep DEF Begin, Places, Over
  <2>2. CASE ~cancelled
    BY Zenon, <1>0, <1>1, <2>2, QuietStep DEF Begin, Places, Over
  <2> QED BY Zenon, <2>1, <2>2
<1>2. CASE WakeParent(t, "wake_ready", "spin")
  BY Zenon, <1>0, <1>2, QuietStep DEF WakeParent, Woken, atomics, Places, Over
<1>3. CASE Started(t)
  BY Zenon, <1>0, <1>3, QuietStep DEF Started, Places, Over
<1>4. CASE LoopEnds(t)
  <2> DEFINE r == IF i[t] = last(t) THEN "OK" ELSE "Cancelled"
  <2>1. r \in Statuses /\ Meaning(t, r)
    BY Zenon, <1>4 DEF LoopEnds, NoticesCancel, Statuses, Meaning
  <2>2. /\ UNCHANGED <<i, cancelled, num_failures, mismatches, evaluated, parent, k, status>>
        /\ worker[t] = "loop" /\ Goes(t, "stop") /\ (i[t] = last(t) \/ cancelled)
        /\ return_status' = [return_status EXCEPT ![t] = r]
    BY Zenon, <1>4 DEF LoopEnds, NoticesCancel, atomics
  <2>3. "stop" \in Places
    BY Zenon DEF Places
  <2> HIDE DEF r
  <2> QED BY Zenon, <1>0, <2>1, <2>2, <2>3, QuietStep
<1>5. ASSUME NEW differs \in BOOLEAN, Evaluate(t, differs) PROVE RunInvariant'
  BY Zenon, <1>5, EvaluateStep
<1>6. CASE Stop(t)
  BY Zenon, <1>0, <1>6, QuietStep DEF Stop, Places, Over
<1>7. CASE SetStatus(t)
  BY ZenonT(30), <1>0, <1>7, QuietStep DEF SetStatus, Places, Over
<1>8. CASE WakeParent(t, "wake_done", "finished")
  BY Zenon, <1>0, <1>8, QuietStep DEF WakeParent, Woken, atomics, Places, Over
<1> QED BY Zenon, <1>1, <1>2, <1>3, <1>4, <1>5, <1>6, <1>7, <1>8 DEF RunInternal

(***************************************************************************)
(* The invariant does not depend on the variables of the other parts.      *)
(***************************************************************************)
LEMMA RunAlways == Spec => []RunInvariant
<1>1. Init => RunInvariant
  BY Zenon, RunStart DEF Init
<1>2. RunInvariant /\ [Next]_vars => RunInvariant'
  <2> SUFFICES ASSUME RunInvariant, [Next]_vars PROVE RunInvariant'
    BY Zenon
  <2>1. CASE UNCHANGED testbench_vars
    BY Zenon, <2>1 DEF testbench_vars, atomics, RunInvariant, RunType, StatusInvariant,
       CancelledForCause, Meaning, ReachedLimit, CoverInvariant
  <2>2. CASE Parent \/ SpuriousWakeup
    BY Zenon, <2>2, ParentStep
  <2>3. ASSUME NEW t \in Threads, RunInternal(t) PROVE RunInvariant'
    BY Zenon, <2>3, WorkerStep
  <2> QED BY Zenon, <2>1, <2>2, <2>3 DEF Next, CallsInvoke, CallsRun, CallsQueue, TestbenchNext,
     Returned, vars
<1> QED BY <1>1, <1>2, PTL DEF Spec

(***************************************************************************)
(* For every number of threads, size of the index space and limit: when    *)
(* Testbench::Run returns, its verdict is about a finished run, although   *)
(* the monitoring loop takes a worker that has not begun for a done one.   *)
(***************************************************************************)
THEOREM TestbenchVerdict == Spec => []VerdictIsComplete
<1>1. RunInvariant => VerdictIsComplete
  <2> SUFFICES ASSUME RunInvariant, parent = "returned"
               PROVE  /\ Succeeds <=> mismatches = {}
                      /\ Succeeds => \A t \in Threads : first(t) .. last(t) - 1 \subseteq evaluated
    BY Zenon DEF VerdictIsComplete
  <2>1. Succeeds <=> mismatches = {}
    BY Zenon DEF RunInvariant, CoverInvariant, Succeeds
  <2>2. ASSUME Succeeds, NEW t \in Threads PROVE first(t) .. last(t) - 1 \subseteq evaluated
    <3>1. num_failures[t] = 0 /\ ~cancelled
      BY <2>2 DEF Succeeds, RunInvariant, StatusInvariant, CancelledForCause
    <3>2. i[t] = last(t)
      BY <3>1 DEF RunInvariant, CoverInvariant, Over
    <3> QED BY Zenon, <3>2 DEF RunInvariant, CoverInvariant
  <2> QED BY Zenon, <2>1, <2>2
<1> QED BY <1>1, RunAlways, PTL

(***************************************************************************)
(* For every instance: Testbench::Run sets cancelled_ only if a worker has *)
(* reached max_failures, whatever mixture of old and new values of the     *)
(* workers' atomics its monitoring loop reads.                             *)
(***************************************************************************)
THEOREM TestbenchCancels == Spec => []CancelledForCause
<1>1. RunInvariant => CancelledForCause
  BY Zenon DEF RunInvariant, StatusInvariant
<1> QED BY <1>1, RunAlways, PTL

--------------------------------------------------------------------------------
(***************************************************************************)
(* The invocation of a subprocess.  A result exists only after the         *)
(* watchdog has been released, and then the watchdog can no more expire;   *)
(* the child has ended by then.                                            *)
(***************************************************************************)
InvokeInvariant ==
  /\ result = NoResult \/ result = [normal_termination |-> child = "exited",
                                    timeout_expired |-> timeout_expired, ok |-> TRUE]
  /\ child = "killed" \/ watchdog = "expired" => timeout_expired
  /\ caller \in {"release", "result", "join", "returned"} => child # "running"
  /\ caller \in {"read", "wait", "release"} => result = NoResult
  /\ caller = "result" \/ result.ok => release_watchdog \/ watchdog = "none"
  /\ release_watchdog => watchdog # "expired"
  /\ result.ok => caller \in {"join", "returned"}

(***************************************************************************)
(* Every thread and the processes outside keep the invariant.              *)
(***************************************************************************)
LEMMA InvokeAlways == Spec => []InvokeInvariant
<1>1. Init => InvokeInvariant
  BY DEF Init, InvokeInit, InvokeInvariant, NoResult
<1>2. InvokeInvariant /\ [Next]_vars => InvokeInvariant'
  <2> SUFFICES ASSUME InvokeInvariant, [Next]_vars PROVE InvokeInvariant'
    BY Zenon
  <2>0. NoResult.ok = FALSE
    BY Zenon DEF NoResult
  <2>1. CASE UNCHANGED subprocess_vars
    BY Zenon, <2>1 DEF subprocess_vars, InvokeInvariant
  <2>2. CASE ChildEnds
    BY SMTT(30), <2>0, <2>2 DEF ChildEnds, Ends, InvokeInvariant
  <2>3. CASE \E f \in Fds : ChildCloses(f)
    BY <2>3 DEF ChildCloses, InvokeInvariant
  <2>4. CASE OrphansEnd
    BY Zenon, <2>4 DEF OrphansEnd, InvokeInvariant
  <2>5. CASE \E f \in Fds : EndOfFile(f)
    BY SMTT(30), <2>0, <2>5 DEF EndOfFile, outside, InvokeInvariant
  <2>6. CASE PollFails \/ WaitForPid
    BY <2>0, <2>6 DEF PollFails, WaitForPid, outside, InvokeInvariant
  <2>7. CASE ReleaseWatchdog
    BY Zenon, <2>0, <2>7 DEF ReleaseWatchdog, outside, InvokeInvariant
  <2>8. CASE MakeResult
    <3> DEFINE r == [normal_termination |-> child = "exited",
                     timeout_expired |-> timeout_expired, ok |-> TRUE]
    <3>1. /\ result' = r /\ caller = "result" /\ caller' = "join"
          /\ UNCHANGED <<release_watchdog, timeout_expired, watchdog, child>>
      BY Zenon, <2>8 DEF MakeResult, outside
    <3>2. result' = r'
      BY Zenon, <3>1
    <3> QED BY Zenon, <3>1, <3>2 DEF InvokeInvariant
  <2>9. CASE Destroy
    BY Zenon, <2>0, <2>9 DEF Destroy, outside, InvokeInvariant
  <2>10. CASE Released
    BY Zenon, <2>10 DEF Released, outside, InvokeInvariant
  <2>11. CASE Expires
    <3>1. ~result.ok
      BY Zenon, <2>11 DEF Expires, InvokeInvariant
    <3>2. result = NoResult
      BY <3>1 DEF InvokeInvariant
    <3> QED BY Zenon, <2>0, <2>11, <3>2 DEF Expires, outside, InvokeInvariant
  <2>12. CASE Kill
    BY Zenon, <2>0, <2>12 DEF Kill, Ends, InvokeInvariant
  <2>13. CASE \E f \in Fds : ReadFails(f)
    BY <2>0, <2>13 DEF ReadFails, outside, InvokeInvariant
  <2>14. UNCHANGED subprocess_vars \/ InvokeNext
    BY Zenon DEF Next, CallsInvoke, CallsRun, CallsQueue, Returned, vars
  <2> QED BY <2>1, <2>2, <2>3, <2>4, <2>5, <2>6, <2>7, <2>8, <2>9, <2>10, <2>11, <2>12, <2>13,
             <2>14, Zenon
          DEF InvokeNext, Outside, Caller, Proceeds, Watchdog
<1> QED BY <1>1, <1>2, PTL DEF Spec

(***************************************************************************)
(* The result of InvokeSubprocess stays true of the child and of the       *)
(* watchdog in every interleaving of the caller, the watchdog, the child   *)
(* and its orphans.                                                        *)
(***************************************************************************)
THEOREM InvokeResult == Spec => []ResultIsFinal
<1>1. InvokeInvariant => ResultIsFinal
  <2> SUFFICES ASSUME InvokeInvariant, result.ok
               PROVE  /\ result.timeout_expired <=> timeout_expired
                      /\ result.normal_termination <=> child = "exited"
                      /\ child = "killed" => result.timeout_expired
    BY Zenon DEF ResultIsFinal
  <2>1. result = [normal_termination |-> child = "exited",
                  timeout_expired |-> timeout_expired, ok |-> TRUE]
    BY DEF InvokeInvariant, NoResult
  <2>2. result.timeout_expired = timeout_expired /\ result.normal_termination = (child = "exited")
    BY Zenon, <2>1
  <2>3. child = "killed" => timeout_expired
    BY Zenon DEF InvokeInvariant
  <2> QED BY <2>2, <2>3, Zenon
<1> QED BY <1>1, InvokeAlways, PTL

================================================================================
