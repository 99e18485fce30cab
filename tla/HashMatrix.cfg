SPECIFICATION Spec
CONSTANTS
  MaxDim = 2
  MaxNnz = 3
  Vals = {0, 1}
  Sources <- MCSources
  TransposeFrom <- FreshFormats
INVARIANTS TableInv RoomInv FormatInv
PROPERTIES ImplementsSparseMap
