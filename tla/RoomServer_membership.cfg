SPECIFICATION Spec
CONSTANTS
  Socket = {s1,s2,s3}
  Room = {r1}
  Key = {k1}
  Grants = {"editor"}
  Claims = {}
  NoSocket = NoSocket
  NoRoom = NoRoom
  NoKey = NoKey
  MaxPending = 1
  MaxWire = 1
CONSTRAINT FewTimers
SYMMETRY Symmetry
INVARIANTS TypeOK BindingMatchesRecord OnlyLiveRoomsHavePeople EveryUserHasRole
           DrainedClientKnowsItsPeers
PROPERTY KeepsMembership
CHECK_DEADLOCK FALSE
