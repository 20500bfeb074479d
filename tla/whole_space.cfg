CONSTANTS
  SectorsAtOnce = 3
  IndivisibleZone = 6
  MaxZones = 2
  EndLba = 8
  Strategies = {"plain", "smart", "smart_noreverse", "skipfail", "skipfail_noreverse"}
  JournalModes = {TRUE, FALSE}
  SkipChoices = {0, 1}
  JournalChunk = 8
  DstSizes = {0, 5}
  DstGrows = FALSE
  ReadResults = {"ok", "failed", "ioctl_failed"}
  WriteFaults = FALSE
  Crashes = TRUE
  VisCells = 2
  CountModulus = 32
SPECIFICATION DisplaySpec
INVARIANTS DisplayTypeOK FreshCountsAreProgress CountersMatchJournal MapFollowsLegend
