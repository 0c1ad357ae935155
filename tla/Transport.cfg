SPECIFICATION TransportSpec
CONSTANTS
  Code = {}
  MaxSent <- ClientSends
  MaxPings = 1
  Pausing = {"server"}
  RxInputs <- FrameSequences
  RxConfigs <- ReceiverConfigs
  MaxPayload = 3
  Long16 = 2
  Long64 = 4
  Unsafe = 5
  HighWater = 3
  MaxRxPauses = 1
  Sender = {s1, s2}
  s1 = s1
  s2 = s2
  Concurrency = 1
  Kinds <- TwoKinds
  MaxPosted <- TwoPosts
  MaxInflated = 1
  x1 = x1
  x2 = x2
  HsSocket = {x1, x2}
  ClientOptions <- DeflateOptions
  ServerOptions <- DeflateOptions
INVARIANTS TransportTypeOK SaysWhatIs
PROPERTIES IsOrderedChannel NoEndHangs ReceiverDelivers SenderDelivers ServerAndClientsAgree
CHECK_DEADLOCK FALSE
