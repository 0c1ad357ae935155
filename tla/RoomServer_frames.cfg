SPECIFICATION Spec
CONSTANTS
  Socket = {s1,s2}
  Room = {r1,r2}
  Key = {k1}
  Grants = {"editor"}
  Claims = {}
  NoSocket = NoSocket
  NoRoom = NoRoom
  NoKey = NoKey
  MaxPending = 1
  MaxWire = 2
CONSTRAINT Calm
SYMMETRY Symmetry
INVARIANTS DrainedClientKnowsItsRoom RelaysReachTheirRoom
CHECK_DEADLOCK FALSE
