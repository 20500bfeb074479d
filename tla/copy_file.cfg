CONSTANTS
  SectorsAtOnce = 2
  IndivisibleZone = 4
  MaxZones = 2
  EndLba = 7
  Strategies = {"plain", "smart", "smart_noreverse"}
  JournalModes = {TRUE}
  SkipChoices = {0}
  JournalChunk = 4
  DstSizes = {0}
  DstGrows = TRUE
  ReadResults = {"ok", "failed"}
  WriteFaults = FALSE
  Crashes = FALSE
SPECIFICATION FairSpec
PROPERTIES  ResumedToTheEnd
