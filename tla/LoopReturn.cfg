SPECIFICATION Spec
CONSTANTS
  Programs <- LoopReturns
  Nodes <- LoopReturnNodes
  Objects <- Memory
  Lists = {0, 1, 2}
  Variables = {"w", "x", "y", "z"}
  None = None
INVARIANT ValueAlive
