SPECIFICATION Spec
CONSTANTS
  Ranks = {0, 1}
  Keys = {1, 2}
  Programs <- AnyOrder
  Null = Null
INVARIANT PartsTogether
