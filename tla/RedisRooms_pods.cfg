SPECIFICATION Spec
CONSTANTS
  s1 = s1
  s2 = s2
  s3 = s3
  p1 = p1
  p2 = p2
  Pod = {p1,p2}
  Socket = {s1,s2,s3}
  Room = {r1}
  NoRoom = NoRoom
  PodOf <- TwoPods
  MaxReplies = 2
  MaxEvents = 1
SYMMETRY Symmetry
INVARIANTS TypeOK PeersOnOnePodAgree UsersAreInTheirSets
PROPERTY DeletedRoomsStayDeleted
CHECK_DEADLOCK FALSE
