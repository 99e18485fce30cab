SPECIFICATION Spec
CONSTANTS
  MaxDim = 2
  MaxNnz = 3
  Vals = {0, 1}
  Sources <- MCSources
  TransposeFrom <- AnyFormat
INVARIANTS RowPointerAssertion
