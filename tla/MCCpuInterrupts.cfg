SPECIFICATION FairSpec
CONSTANTS
  NumCores = 2
  Clock = Clock
  Graphics = Graphics
  Main = Main
  Free = Free
INVARIANTS TypeOK LockDiscipline NoLostInterrupt
PROPERTIES HaltJoins GenericReschedules
