SPECIFICATION Spec
CONSTANTS
  Scripts <- FewScripts
  BufRoom = 4
  PipeRoom = 1
INVARIANT ReaderFollows
