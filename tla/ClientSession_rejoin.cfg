SPECIFICATION UndisturbedSpec
CONSTANTS
  Room = {r1}
  Key = {k1}
  NoRoom = NoRoom
  NoKey = NoKey
  NoSession = NoSession
  MaxTimers = 1
  MaxWire = 1
  MaxLanding = 1
INVARIANT RejoinsAfterDisconnect
