\* Registers of stages that exclude their neighbours but not each other.
SPECIFICATION Spec
CONSTANTS
  a = a  z = z  s = s  t = t  k = k  None = None
  Last = 2
  Inputs = {a}
  Outputs = {z}
  NonBlocking = {}
  States = {s, t}
  recv_stage <- RecvStage
  send_stage <- SendStage
  read_stage <- ReadStage
  next_stages <- NextStages
  Tokens = {k}
  Values = {0, 1}
  InitValue <- Zero
  Plans <- AllPlans
  ResetPlan <- FirstPlan
  OneShot = FALSE
  reset_data_path = FALSE
INVARIANT MergedRegistersAgree
