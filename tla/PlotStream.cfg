SPECIFICATION FairSpec
CONSTANTS
  Scripts <- MCScripts
  BufRoom = 4
  PipeRoom = 1
INVARIANTS BuiltIsSent LostByCutOnly
PROPERTY Delivered
