\* A timeout and a descendant of the child that keeps the pipes open.
SPECIFICATION Spec
CONSTANTS
  num_threads = 1
  end = 1
  max_failures = 1
  CancelInterval = 1
  Values = {v0}
  None = None
  MaxSize = 1
  kInitBufferSize = 1
  allocated_element_size = 1
PROPERTY TimeoutEndsCall
