SPECIFICATION FairSpec
CONSTANTS
  Socket = {s1,s2}
  Room = {r1}
  Key = {k1}
  Grants = {"editor"}
  Claims = {"viewer"}
  NoSocket = NoSocket
  NoRoom = NoRoom
  NoKey = NoKey
  MaxPending = 1
  MaxWire = 1
PROPERTIES DeadPeerIsForgotten ExpiredRoomEnds OnlyApprovalRevivesGone
CHECK_DEADLOCK FALSE
