\* Two sources, two stores; packets of one and of three bits, one bit to a flit.
SPECIFICATION Spec
CONSTANTS
  Sources = {0, 1}
  Sizes = {1, 3}
  flit_payload_bit_count = 2
  source_index_bit_count = 1
  max_packet_bit_count = 3
  max_outstanding_packets = 2
  MaxPackets = 2
  None = None
INVARIANT PacketsIntact
CHECK_DEADLOCK FALSE
