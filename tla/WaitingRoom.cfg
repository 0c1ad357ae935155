SPECIFICATION GateSpec
CONSTANTS
  Socket = {s1,s2}
  Room = {r1}
  Key = {k1}
  Grants = {"editor"}
  Claims = {}
  NoSocket = NoSocket
  NoRoom = NoRoom
  NoKey = NoKey
  MaxPending = 1
  MaxWire = 1
INVARIANT GuestsWereApproved
CHECK_DEADLOCK FALSE
