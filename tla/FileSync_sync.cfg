SPECIFICATION FileFairSpec
CONSTANTS
  Peer = {p1,p2}
  Edit = {e1,e2,e3}
  AutoSave = "off"
  MaxVersion = 4
INVARIANTS FileTypeOK NumbersAreFresh FlagIsLowered
PROPERTY RequestIsAnswered
