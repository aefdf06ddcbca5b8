------------------------------- MODULE Subprocess -------------------------------
(***************************************************************************)
(* InvokeSubprocess of common/subprocess.cc: the calling thread reads the  *)
(* child's two output pipes to their end, waits for the child and releases *)
(* a watchdog thread, which kills the child if the timeout comes first.    *)
(* The child is external: it may run for ever, end, close a pipe early, or *)
(* leave behind processes of its own that keep its pipes open.             *)
(*                                                                         *)
(* What is read is left out; the read of a pipe is its end-of-file.        *)
(***************************************************************************)
VARIABLES
  caller,           \* where InvokeSubprocess is; "aborted" if the process ended there
  fds,              \* the pipes that are still read
  release_watchdog, timeout_expired,
  watchdog,         \* "none", "waiting", "expired" (holding watchdog_mutex) or "done"
  result,           \* NoResult until it is built
  child,            \* "running", "exited", "crashed" or "killed" (by the watchdog)
  entrances,        \* the pipes that some process has open for writing
  orphans           \* a process started by the child has them open too

subprocess_vars == <<caller, fds, release_watchdog, timeout_expired, watchdog,
                     result, child, entrances, orphans>>
outside == <<child, entrances, orphans>>

Fds == {"stdout", "stderr"}
NoResult == [normal_termination |-> FALSE, timeout_expired |-> FALSE, ok |-> FALSE]

(***************************************************************************)
(* The child has been spawned.  There is a watchdog if a positive timeout  *)
(* was given.                                                              *)
(***************************************************************************)
InvokeInit ==
  /\ caller = "read" /\ fds = Fds
  /\ release_watchdog = FALSE /\ timeout_expired = FALSE
  /\ watchdog \in {"none", "waiting"}
  /\ result = NoResult
  /\ child = "running" /\ entrances = Fds /\ orphans \in BOOLEAN

--------------------------------------------------------------------------------
(***************************************************************************)
(* The processes outside.                                                  *)
(***************************************************************************)
Ends(how) ==
  /\ child' = how
  /\ entrances' = IF orphans THEN entrances ELSE {}

ChildEnds ==
  /\ child = "running" /\ (Ends("exited") \/ Ends("crashed"))
  /\ UNCHANGED <<caller, fds, release_watchdog, timeout_expired, watchdog, result, orphans>>

ChildCloses(f) ==
  /\ child = "running" /\ ~orphans /\ f \in entrances
  /\ entrances' = entrances \ {f}
  /\ UNCHANGED <<caller, fds, release_watchdog, timeout_expired, watchdog, result, child, orphans>>

OrphansEnd ==
  /\ orphans /\ orphans' = FALSE
  /\ entrances' = IF child = "running" THEN entrances ELSE {}
  /\ UNCHANGED <<caller, fds, release_watchdog, timeout_expired, watchdog, result, child>>

--------------------------------------------------------------------------------
(***************************************************************************)
(* ReadFileDescriptors: a pipe is closed when a read returns nothing, the  *)
(* loop ends with the last one or with a failing poll, which is only       *)
(* logged.  The number of bytes read is unsigned, so that the branch for a *)
(* failing read is dead: the -1 is appended as the largest length there    *)
(* is, and the exception of append, which nobody catches, ends the process.*)
(***************************************************************************)
EndOfFile(f) ==
  /\ caller = "read" /\ f \in fds \ entrances
  /\ fds' = fds \ {f}
  /\ caller' = IF fds' = {} THEN "wait" ELSE "read"
  /\ UNCHANGED <<release_watchdog, timeout_expired, watchdog, result, outside>>

ReadFails(f) ==
  /\ caller = "read" /\ f \in fds
  /\ caller' = "aborted"
  /\ UNCHANGED <<fds, release_watchdog, timeout_expired, watchdog, result, outside>>

PollFails ==
  /\ caller = "read" /\ caller' = "wait"
  /\ UNCHANGED <<fds, release_watchdog, timeout_expired, watchdog, result, outside>>

(***************************************************************************)
(* waitpid returns when the child has ended.  If it fails the function     *)
(* returns at once, without releasing the watchdog.                        *)
(***************************************************************************)
WaitForPid ==
  /\ caller = "wait" /\ child # "running"
  /\ caller' \in {"release", "join"}
  /\ UNCHANGED <<fds, release_watchdog, timeout_expired, watchdog, result, outside>>

ReleaseWatchdog ==
  /\ caller = "release" /\ watchdog # "expired"
  /\ release_watchdog' = (watchdog # "none")
  /\ caller' = "result"
  /\ UNCHANGED <<fds, timeout_expired, watchdog, result, outside>>

MakeResult ==
  /\ caller = "result"
  /\ result' = [normal_termination |-> child = "exited",
                timeout_expired |-> timeout_expired, ok |-> TRUE]
  /\ caller' = "join"
  /\ UNCHANGED <<fds, release_watchdog, timeout_expired, watchdog, outside>>

(***************************************************************************)
(* The destructor of watchdog_thread joins the thread before the mutex and *)
(* the flags it refers to are destroyed.                                   *)
(***************************************************************************)
Destroy ==
  /\ caller = "join" /\ watchdog \in {"none", "done"}
  /\ caller' = "returned"
  /\ UNCHANGED <<fds, release_watchdog, timeout_expired, watchdog, result, outside>>

--------------------------------------------------------------------------------
(***************************************************************************)
(* The watchdog.  AwaitWithTimeout returns the value of the condition, so  *)
(* a release wins over a timeout that comes at the same time.              *)
(***************************************************************************)
Released ==
  /\ watchdog = "waiting" /\ release_watchdog
  /\ watchdog' = "done"
  /\ UNCHANGED <<caller, fds, release_watchdog, timeout_expired, result, outside>>

(***************************************************************************)
(* Plausible mistakes in the definitions that follow them.                 *)
(***************************************************************************)
MistakeIgnoresRelease ==
  /\ watchdog = "waiting"
  /\ watchdog' = "expired" /\ timeout_expired' = TRUE
  /\ UNCHANGED <<caller, fds, release_watchdog, result, outside>>

Expires ==
  /\ watchdog = "waiting" /\ ~release_watchdog
  /\ watchdog' = "expired" /\ timeout_expired' = TRUE
  /\ UNCHANGED <<caller, fds, release_watchdog, result, outside>>

MistakeOnlyReports ==
  /\ watchdog = "expired" /\ watchdog' = "done"
  /\ UNCHANGED <<caller, fds, release_watchdog, timeout_expired, result, outside>>

(***************************************************************************)
(* SIGKILL.  A child that has been waited for is not there any more.       *)
(***************************************************************************)
Kill ==
  /\ watchdog = "expired" /\ watchdog' = "done"
  /\ IF child = "running" THEN Ends("killed") ELSE UNCHANGED <<child, entrances>>
  /\ UNCHANGED <<caller, fds, release_watchdog, timeout_expired, result, orphans>>

Outside == ChildEnds \/ (\E f \in Fds : ChildCloses(f)) \/ OrphansEnd
Proceeds ==
  (\E f \in Fds : EndOfFile(f)) \/ WaitForPid \/ ReleaseWatchdog \/ MakeResult \/ Destroy
Caller == Proceeds \/ PollFails \/ \E f \in Fds : ReadFails(f)
Watchdog == caller # "aborted" /\ (Released \/ Expires \/ Kill)

InvokeNext == Outside \/ Caller \/ Watchdog

--------------------------------------------------------------------------------
(***************************************************************************)
(* The result tells for good what the watchdog did: after it has been      *)
(* built no timeout can expire any more, and a child that was killed is    *)
(* never reported without timeout_expired.                                 *)
(***************************************************************************)
ResultIsFinal ==
  result.ok =>
    /\ result.timeout_expired <=> timeout_expired
    /\ result.normal_termination <=> child = "exited"
    /\ child = "killed" => result.timeout_expired

CallEnded == caller \in {"returned", "aborted"}

(***************************************************************************)
(* With a timeout, or once the child has ended by itself, InvokeSubprocess *)
(* returns, on every path through poll and waitpid errors too, unless a    *)
(* process that the child has left behind keeps the pipes open.            *)
(***************************************************************************)
InvokeReturns ==
  (watchdog # "none" \/ child # "running") /\ ~orphans ~> CallEnded

(***************************************************************************)
(* What the comment on InvokeSubprocess says of the timeout: subprocesses  *)
(* that run beyond it will be stopped, and only without one does the call  *)
(* wait for ever.  So the call ends once the timeout has expired.          *)
(***************************************************************************)
TimeoutEndsCall == timeout_expired ~> CallEnded

================================================================================
