\* Two values tell an older value from a newer one; a FIFO of depth 2 is empty,
\* partly full and full.
SPECIFICATION FairChain
CONSTANTS
  Data = {d0, d1}
  Zero = d0
  Depth = 2
PROPERTIES RefinesFifo FifoModelRefines ZeroLatencyRefines FlopRefines
PROPERTIES ChainInOrder FullThroughput ChainDelivers ProducerIsServed
