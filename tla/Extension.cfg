SPECIFICATION ExtensionFairSpec
CONSTANTS
  Room = {r1,r2}
  Key = {k1,k2}
  NoRoom = NoRoom
  NoKey = NoKey
  NoSession = NoSession
  MaxTimers = 2
  MaxWire = 1
  MaxLanding = 1
  Participant = {1, 2, 3}
  Editors = {2}
  MaxEdits = 1
  MaxFailures = 1
  Member = {1, 2}
  Path = {"f", "g", "out"}
  Ignored = {"out"}
  AtFirst <- FirstFiles
  TakeTurns = TRUE
  MaxTouches = 2
  m1 = m1
  m2 = m2
  q1 = q1
  q2 = q2
  MaxFrames = 1
  TunnelMember = {m1, m2}
  TunnelRequest = {q1, q2}
  u1 = u1
  u2 = u2
  Typist = {u1, u2}
  MaxKeys <- Keystrokes
  MaxResets = 1
  Peer = {p1, p2}
  Edit = {e1, e2, e3, e4}
  AutoSave = "on"
  MaxVersion = 5
  PatchMargin = 1
  MatchMaxBits = 4
  MatchDistance = 8
  LineModeFrom = 5
  DiffTimeout = 3
  Patches <- ComputePatches
  Applied <- PatchApply
  OtTexts <- Documents
  OtLocal <- OwnChanges
  OtRemote <- PeerChanges
  MaxOtSteps = 1
  Speaker = {c1, c2}
  ChatText = {"hi", "ok"}
  Window = 1
  KeepLines = 3
  MaxLines = 4
  MaxChatTime = 1
  MaxSpawned = 4
  LimitedKey = {k1, k2}
  MaxTokens = 2
  RefillPer = 1
  MaxClock = 2
  MaxSetBack = 1
  MaxAsked = 3
INVARIANTS ExtensionTypeOK TurnTakersAgree SameLinesForAll NoOrphan 
PROPERTIES NetworkHeals   TreesComeTogether 
           
CHECK_DEADLOCK FALSE
