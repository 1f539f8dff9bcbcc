SPECIFICATION BackfillSpec
CONSTANTS
  Machines = {m1}
  Runs = {run1}
  Hand = Hand
  Tms = Tms
  None = None
PROPERTY UndoLeavesDecided
CHECK_DEADLOCK FALSE
