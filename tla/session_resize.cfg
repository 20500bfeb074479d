CONSTANTS
  NumBlocks = 3
  Slots = 2
  ResizeAt = {"poll"}
SPECIFICATION Spec
INVARIANT DrawsWhenItFits
