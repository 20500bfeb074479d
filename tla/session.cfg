CONSTANTS
  NumBlocks = 4
  Slots = 2
  ResizeAt = {"install", "poll", "hangup"}
SPECIFICATION FairSpec
INVARIANTS TypeOK RenderedInOrder NothingLeftUnrendered WorkerGoneBeforeFree StopsAfterInterrupt
PROPERTY SessionCloses
