\* State elements whose next values are determined stages after they are read,
\* and two outputs of one stage, taken in different cycles.
SPECIFICATION FairSpec
CONSTANTS
  a = a  y = y  z = z  s = s  t = t  k = k  None = None
  Last = 3
  Inputs = {a}
  Outputs = {y, z}
  NonBlocking = {}
  States = {s, t}
  recv_stage <- RecvStage
  send_stage <- SendStage
  read_stage <- ReadStage
  next_stages <- NextStages
  Tokens = {k}
  Values = {0, 1}
  InitValue <- Zero
  Plans <- AllPlans
  ResetPlan <- FirstPlan
  OneShot = TRUE
  reset_data_path = FALSE
INVARIANTS StateFeedback StagesExclusive IdleMeansEmpty MergedRegistersAgree StageAtomic
PROPERTIES OutputHeld Progress
