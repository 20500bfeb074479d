CONSTANTS
  Capacity = 6
  KernelEnds = {5}
  AddressSpan = 16
  Apis = {"ata", "posix"}
  Starts <- MCScanStarts
  Ends = {6, 7}
  BlockSizes = {0, 2, 4}
  TopTier = 2
  Failures = {"eError", "eUnc"}
  CountModulus = 4
  AllocFails = TRUE
  SaveFails = TRUE
SPECIFICATION FairSpec
INVARIANTS TypeOK ScanTilesRange VerifiesReportedBlock SavedSummaryIsExact SavedDefectsAreExact NothingInvented
PROPERTY ScanEnds
