CONSTANTS
  SectorsAtOnce = 2
  IndivisibleZone = 4
  MaxZones = 2
  EndLba = 6
  Strategies = {"plain"}
  JournalModes = {TRUE}
  SkipChoices = {1}
  JournalChunk = 4
  DstSizes = {6}
  DstGrows = FALSE
  ReadResults = {"ok", "failed"}
  WriteFaults = TRUE
  Crashes = FALSE
SPECIFICATION Spec
INVARIANT CopiesEntireDevice
