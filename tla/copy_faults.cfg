CONSTANTS
  SectorsAtOnce = 2
  IndivisibleZone = 4
  MaxZones = 2
  EndLba = 6
  Strategies = {"plain", "smart", "smart_noreverse", "skipfail", "skipfail_noreverse"}
  JournalModes = {TRUE, FALSE}
  SkipChoices = {0, 1}
  JournalChunk = 4
  DstSizes = {0, 5}
  DstGrows = FALSE
  ReadResults = {"ok", "failed", "ioctl_failed", "host_failed"}
  WriteFaults = TRUE
  Crashes = TRUE
SPECIFICATION Spec
INVARIANTS TypeOK IndInv ZonesWellFormed TaskAtZoneEdge DefectiveEdgesDelayed JournalMatchesZones ProgressAccounts FinishedIsComplete RecordedNeverReread
