\* Either FIFO depth.
SPECIFICATION FairSpec
CONSTANTS
  filter = filter  poll = poll
  rIn = rIn  sA = sA  rA = rA  sOut = sOut
  in = in  a = a  out = out
  Procs = {filter, poll}
  Nodes = {rIn, sA, rA, sOut}
  Channels = {in, a, out}
  Inputs = {in}
  Outputs = {out}
  Values = {0, 1, 2}
  Zero = 0
  proc <- MCProc
  op <- MCOp
  channel <- MCChannel
  Preds <- MCPreds
  NonBlocking = {rA}
  Active <- MCActive
  Data <- MCData
  NextState <- MCNextState
  InitStates <- MCInitStates
  users <- MCUsers
  order <- MCOrder
  MaxPending = 1
PROPERTY RefinesTokenNetwork
CHECK_DEADLOCK FALSE
