CONSTANTS
  Native = 4
  AddressSpan = 16
  Garbage = {5}
  Disks <- MCDisks
  SectorsAtOnce = 2
  Width = 32
  StartLbas <- MCStartLbas
  MaxLbas = {0, 2}
SPECIFICATION FairSpec
INVARIANTS TypeOK WrittenAsReported FillsDeviceSpace HpaSettles NoIssueIsEarned ReadAheadReturns
PROPERTIES InvasiveConsented ProcedureEnds
