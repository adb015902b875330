CONSTANTS
  NoSlot = NoSlot
  Slots <- MCSlots
  MAX_REVOLUTIONS = 3
  MAX_SAMPLES = 4
  LF_CAPACITY = 2
  BatchSizes = {1, 2}
SPECIFICATION FairSpec
INVARIANTS
  BudgetKept
  NoSourceOvertaken
PROPERTIES
  CallDoesItsWork
  LoopComesBack
  SourcesAreServed
