SPECIFICATION Spec
CONSTANTS
  Ranks = {0, 1, 2}
  Keys = {1, 2, 9}
  Programs <- Idioms
  Null = Null
INVARIANTS RecvIsSent BufferAlive WaitAllFinishes
PROPERTIES ReusedWhenFree Terminates
