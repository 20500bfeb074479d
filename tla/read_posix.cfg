CONSTANTS
  Capacity = 7
  KernelEnds = {7}
  AddressSpan = 16
  Apis = {"posix"}
  Starts = {0}
  Ends = {5, 7, 8}
  BlockSizes = {0, 2, 4}
  TopTier = 2
  Failures = {"eError", "eUnc"}
  CountModulus = 4
  AllocFails = FALSE
  SaveFails = FALSE
SPECIFICATION Spec
INVARIANT ReadsReportedBlock
