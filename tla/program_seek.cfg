CONSTANTS
  Native = 4
  AddressSpan = 16
  Garbage = {}
  Disks <- OneAtaDrive
  SectorsAtOnce = 2
  Width = 32
  StartLbas <- StartInside
  MaxLbas = {3}
SPECIFICATION FairSpec
INVARIANT ZeroesFromStartLba
