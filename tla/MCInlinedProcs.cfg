\* Every choice of FIFO depths; some overflow and fail the assertion.
SPECIFICATION FairSpec
CONSTANTS
  top = top  mid = mid  late = late
  rIn = rIn  sA = sA  sAlt = sAlt  sH = sH  rB = rB  rG = rG  join = join  sOut = sOut
  rA = rA  sB = sB  rH = rH  sG = sG
  in = in  out = out  a = a  b = b  g = g  h = h
  Procs = {top, mid, late}
  Nodes = {rIn, sA, sAlt, sH, rB, rG, join, sOut, rA, sB, rH, sG}
  Channels = {in, out, a, b, g, h}
  Inputs = {in}
  Outputs = {out}
  Values = {0, 1, 2}
  Zero = 0
  proc <- MCProc
  op <- MCOp
  channel <- MCChannel
  Preds <- MCPreds
  NonBlocking = {rH}
  Active <- MCActive
  Data <- MCData
  NextState <- MCNextState
  InitStates <- MCInitStates
  users <- MCUsers
  order <- MCOrder
  MaxPending = 1
INVARIANT LossIsReal
PROPERTIES RefinesTokenNetwork ThreadsComplete
CHECK_DEADLOCK FALSE
