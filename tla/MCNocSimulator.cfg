\* Both orders of links, routers and sinks.
SPECIFICATION FairSpec
CONSTANTS
  s0 = s0  s1 = s1  l0 = l0  lab = lab  lba = lba  A = A  B = B  k0 = k0  k1 = k1
  c0 = c0  c1 = c1  c2 = c2  c3 = c3  c4 = c4  c5 = c5  c6 = c6  c7 = c7  c8 = c8
  Sources = {s0, s1}
  Links = {l0, lab, lba}
  Routers = {A, B}
  Sinks = {k0, k1}
  Connections = {c0, c1, c2, c3, c4, c5, c6, c7, c8}
  vc_count <- MCVcCount
  max_queue_size <- MCMaxQueueSize
  sink_connection <- MCSinkConnection
  src_connection <- MCSrcConnection
  input_connection <- MCInputConnection
  output_connection <- MCOutputConnection
  forward_pipeline_stages <- MCForwardStages
  reverse_pipeline_stages <- MCReverseStages
  Route <- MCRoute
  Flows <- MCFlows
  Orders <- MCOrders
  Data = {0, 1}
  Invalid = Invalid
  max_ticks = 4
  MaxWait <- MCMaxWait
  MaxPending = 3
INVARIANTS ConvergedMeansCurrent Converges CreditsConserved BuffersBounded
PROPERTIES WrittenOnce DeliveredInOrder Drains
