SPECIFICATION BurstSpec
CONSTANTS
  Peer = {p1,p2}
  Edit = {e1,e2,e3}
  AutoSave = "on"
  MaxVersion = 3
INVARIANT QuietPeersAgree
