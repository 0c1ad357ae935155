SPECIFICATION Spec
CONSTANTS
  Room = {r1,r2}
  Key = {k1}
  NoRoom = NoRoom
  NoKey = NoKey
  NoSession = NoSession
  MaxTimers = 2
  MaxWire = 2
  MaxLanding = 2
SYMMETRY Symmetry
INVARIANTS TypeOK NeverStranded KnowsItsRoom
