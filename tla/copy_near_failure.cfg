CONSTANTS
  SectorsAtOnce = 1
  IndivisibleZone = 2
  MaxZones = 2
  EndLba = 6
  Strategies = {"smart"}
  JournalModes = {TRUE}
  SkipChoices = {1}
  JournalChunk = 8
  DstSizes = {6}
  DstGrows = FALSE
  ReadResults = {"ok", "failed"}
  WriteFaults = FALSE
  Crashes = FALSE
SPECIFICATION Spec
INVARIANT ReadingNearFailuresDelayed
