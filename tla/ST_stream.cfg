\* Four chunks through buffers of two.
CONSTANTS
  Chunks = 4
  InBuffer = 2
  OutBuffer = 2
SPECIFICATION FairSpec
INVARIANTS NothingSkipped SuccessIsComplete
PROPERTIES SlotComesBack FoundStreamEnds
CHECK_DEADLOCK FALSE
