\* One activation receives from two channels.
SPECIFICATION Spec
CONSTANTS
  Inputs = {"a", "b"}
  Outputs = {"x", "y"}
  Plans <- JoinPlans
INVARIANT NoTokenLost
