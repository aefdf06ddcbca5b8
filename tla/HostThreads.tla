------------------------------- MODULE HostThreads -------------------------------
(***************************************************************************)
(* The parts of the host programs that several threads share.  One of them *)
(* is in use: a tool calls InvokeSubprocess or Testbench::Run, or threads  *)
(* work on a JitChannelQueue, whose operations hold its mutex.             *)
(***************************************************************************)
EXTENDS Subprocess, Testbench, ByteQueue

VARIABLE call

vars == <<subprocess_vars, testbench_vars, queue_vars, call>>

Init ==
  /\ InvokeInit /\ TestbenchInit /\ QueueInit
  /\ call \in {"InvokeSubprocess", "Run", "JitChannelQueue"}
  /\ call # "InvokeSubprocess" => watchdog = "none" /\ ~orphans
  /\ call # "JitChannelQueue" => ~is_single_value

CallsInvoke(A) ==
  call = "InvokeSubprocess" /\ A /\ UNCHANGED <<testbench_vars, queue_vars, call>>
CallsRun(A) ==
  call = "Run" /\ A /\ UNCHANGED <<subprocess_vars, queue_vars, call>>
CallsQueue(A) ==
  call = "JitChannelQueue" /\ A /\ UNCHANGED <<subprocess_vars, testbench_vars, call>>

Returned == (CallEnded \/ parent = "returned") /\ UNCHANGED vars

Next ==
  \/ CallsInvoke(InvokeNext) \/ CallsRun(TestbenchNext) \/ CallsQueue(QueueNext)
  \/ Returned

(***************************************************************************)
(* Threads are scheduled and time passes.  Nothing is assumed of the child *)
(* and of what it leaves behind, poll and read need not fail, and no wait  *)
(* relies on being woken without a signal.                                 *)
(***************************************************************************)
Fairness ==
  /\ WF_vars(CallsInvoke(Proceeds))
  /\ WF_vars(CallsInvoke(Watchdog))
  /\ WF_vars(CallsRun(Parent))
  /\ \A t \in Threads : WF_vars(CallsRun(RunInternal(t)))

Spec == Init /\ [][Next]_vars /\ Fairness

================================================================================
