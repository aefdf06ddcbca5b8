\* Three workers with ranges of three and two indices.
\* Slots of 3 bytes in a buffer of 4 bytes: 1, 2 and 5 slots as it doubles.
SPECIFICATION Spec
CONSTANTS
  num_threads = 3
  end = 7
  max_failures = 2
  CancelInterval = 2
  Values = {v0, v1}
  None = None
  MaxSize = 5
  kInitBufferSize = 4
  allocated_element_size = 3
INVARIANTS ResultIsFinal VerdictIsComplete CancelledForCause TypeInvariant
PROPERTIES InvokeReturns RunReturns RefinesChannelQueue
