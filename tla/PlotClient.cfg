SPECIFICATION FairSpec
CONSTANTS
  Scripts <- MCScripts
  Windows = {0, 1}
  Keep = 2
  PipeRoom = 1
INVARIANTS InOrder PlotsAlive NeverKilled
PROPERTIES HandOver AllEnds AllShown
