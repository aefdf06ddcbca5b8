\* Three procs; the caller's threads write and read between calls and during them.
SPECIFICATION FairSpec
CONSTANTS
  counter = counter  front = front  back = back
  in = in  hint = hint  mid = mid  answer = answer  out = out
  Procs = {counter, front, back}
  Channels = {in, hint, mid, answer, out}
  Values = {0, 1}
  SingleValue = {hint}
  Inputs = {in, hint}
  Outputs = {out}
  execution_order <- MCExecutionOrder
  Active <- MCActive
  Data <- MCData
  initial_values <- MCInitialValues
  InitValue = 0
  Zero = 0
  None = None
  proc_instances <- MCOrderBack
  Requests <- MCRequests
  MaxTokens = 2
INVARIANTS Exhausted OneActivation DeadlockIsReal BlockedIsReal
PROPERTIES RefinesNetwork TickTerminates
