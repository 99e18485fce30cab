SPECIFICATION Spec
CONSTANTS
  MaxISize = 8
  Grain = 2
  Tasks <- MCTasks
  Asked <- MCAsked
  MaxVertices = 6
INVARIANTS TreeOK SearchesAreRight NoCrack
