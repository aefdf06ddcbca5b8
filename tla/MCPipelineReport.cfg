\* A predicate that depends on a non-blocking receive of its own stage.
SPECIFICATION Spec
CONSTANTS
  a = a  x = x  y = y  k = k  None = None
  Last = 1
  Inputs = {a}
  Outputs = {x, y}
  NonBlocking = {a}
  States = {}
  recv_stage <- RecvStage
  send_stage <- SendStage
  read_stage <- Empty
  next_stages <- Empty
  Tokens = {k}
  Values = {0}
  InitValue <- Empty
  Plans <- AllPlans
  ResetPlan <- Plan
  OneShot = TRUE
  reset_data_path = FALSE
INVARIANTS SentByThisActivation
