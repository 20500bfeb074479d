CONSTANTS
  SectorsAtOnce = 1
  IndivisibleZone = 2
  MaxZones = 2
  EndLba = 6
  Strategies = {"plain", "smart", "smart_noreverse", "skipfail", "skipfail_noreverse"}
  JournalModes = {TRUE}
  SkipChoices = {1}
  JournalChunk = 8
  DstSizes = {6}
  DstGrows = FALSE
  ReadResults = {"ok", "failed"}
  WriteFaults = FALSE
  Crashes = TRUE
SPECIFICATION FairSpec
INVARIANTS ReadOkIsCopied HandledMatchesProgress
PROPERTIES LedgerSpec SessionsEnd ResumedToTheEnd
