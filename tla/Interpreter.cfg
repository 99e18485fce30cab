SPECIFICATION Spec
CONSTANTS
  Programs <- Scripts
  Nodes <- ScriptNodes
  Objects <- Memory
  Lists = {0, 1, 2}
  Variables = {"w", "x", "y", "z"}
  None = None
INVARIANTS ValueAlive FrameRestored DeletedOnce
