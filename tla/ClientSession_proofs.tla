------------------------- MODULE ClientSession_proofs -------------------------
(***************************************************************************)
(* Theorems about ClientSession for any rooms, keys and bounds.            *)
(***************************************************************************)
EXTENDS ClientSession, TLAPS

\* A queue that grew by one element of its type, was left alone or was dropped.
LEMMA QueueType ==
    ASSUME NEW S, NEW s \in Seq(S), NEW m \in S, NEW t,
           t = Append(s, m) \/ t = s \/ t = << >> \/ t = <<m>>
    PROVE  t \in Seq(S)
  <1>1. Append(s, m) \in Seq(S)
    OBVIOUS
  <1>2. << >> \in Seq(S) /\ <<m>> \in Seq(S)
    OBVIOUS
  <1> QED BY <1>1, <1>2, Zenon

LEMMA DataOKInit == Init => DataOK
  <1> SUFFICES ASSUME Init PROVE DataOK
    OBVIOUS
  <1>1. /\ sock = "connecting" /\ timers = 0 /\ roomId = NoRoom /\ role = "viewer"
        /\ lastKey = NoKey /\ saved \in Session \cup {NoSession}
        /\ landing = << >> /\ summary = "none" /\ requests = << >> /\ answers = << >>
        /\ member = NoRoom /\ owned = {}
        /\ phase \in [Room -> {"unused", "live"}] /\ roomKey \in [Room -> Key \cup {NoKey}]
    BY Zenon DEF Init
  <1>2. phase \in [Room -> {"unused", "live", "ended"}]
    BY <1>1
  <1> QED BY <1>1, <1>2 DEF DataOK

\* The parts of connect() that the data types need.
LEMMA ConnectData == Connect => sock' = "connecting" /\ NewWire
  BY Zenon DEF Connect

LEMMA NewWireType ==
    NewWire => /\ requests' \in Seq(Request) /\ answers' \in Seq(Answer)
               /\ member' \in Room \cup {NoRoom} /\ owned' \in SUBSET Room
  BY DEF NewWire

LEMMA SavedWithKeyType ==
    ASSUME DataOK, NEW k \in Key PROVE SavedWithKey(k) \in Session \cup {NoSession}
  BY DEF DataOK, SavedWithKey, Session

\* Serving a request keeps the data types.
LEMMA ServeData == DataOK /\ Serve => DataOK'
  <1> SUFFICES ASSUME DataOK, Serve PROVE DataOK'
    OBVIOUS
  <1> DEFINE m == Head(requests)
  <1>1. m \in Request /\ requests' \in Seq(Request)
    BY DEF Serve, DataOK
  <1>2. UNCHANGED client
    BY DEF Serve
  <1>3. CASE ServeJoin(m)
    <2>1. CASE Opens(m) /\ member' = m.room
               /\ Answered([type |-> "JOIN_RESULT", room |-> m.room, role |-> RoleIn(m.room)])
      <3> DEFINE n == [type |-> "JOIN_RESULT", room |-> m.room, role |-> RoleIn(m.room)]
      <3>1. m.room \in Room
        BY <1>1, <1>3 DEF ServeJoin, Request
      <3>2. RoleIn(m.room) \in {"host", "editor"}
        BY DEF RoleIn
      <3>3. n \in Answer
        BY <3>1, <3>2 DEF Answer
      <3>4. answers' = Append(answers, n)
        BY <2>1 DEF Answered
      <3> HIDE DEF n
      <3>5. answers' \in Seq(Answer)
        BY <3>3, <3>4 DEF DataOK
      <3>6. UNCHANGED <<owned, rooms>>
        BY <1>3 DEF ServeJoin
      <3> HIDE DEF m
      <3> QED BY <1>1, <1>2, <2>1, <3>1, <3>5, <3>6 DEF DataOK, client, rooms
    <2>2. CASE Answered([type |-> "REFUSED"]) /\ UNCHANGED member
      <3> DEFINE n == [type |-> "REFUSED"]
      <3>1. n \in Answer
        BY DEF Answer
      <3>2. answers' = Append(answers, n)
        BY <2>2 DEF Answered
      <3> HIDE DEF n
      <3>3. answers' \in Seq(Answer)
        BY <3>1, <3>2 DEF DataOK
      <3>4. UNCHANGED <<owned, rooms>>
        BY <1>3 DEF ServeJoin
      <3> HIDE DEF m
      <3> QED BY <1>1, <1>2, <2>2, <3>3, <3>4 DEF DataOK, client, rooms
    <2> QED BY <1>3, <2>1, <2>2 DEF ServeJoin
  <1>4. ASSUME NEW r \in Room, ServeCreate(m, r) PROVE DataOK'
    <2> DEFINE n == [type |-> "JOIN_RESULT", room |-> r, role |-> "host"]
    <2>1. m.key \in Key
      BY <1>1, <1>4 DEF ServeCreate, Request
    <2>2. n \in Answer
      BY DEF Answer
    <2>3. /\ phase' = [phase EXCEPT ![r] = "live"]
          /\ roomKey' = [roomKey EXCEPT ![r] = m.key]
          /\ member' = r /\ owned' = owned \cup {r}
          /\ answers' = Append(answers, n)
      BY <1>4 DEF ServeCreate, Answered
    <2> HIDE DEF n
    <2>4. answers' \in Seq(Answer)
      BY <2>2, <2>3 DEF DataOK
    <2> HIDE DEF m
    <2> QED BY <1>1, <1>2, <2>1, <2>3, <2>4 DEF DataOK, client
  <1>5. CASE ServeRotate(m)
    <2>1. m.key \in Key
      BY <1>1, <1>5 DEF ServeRotate, Request
    <2>2. UNCHANGED <<member, owned, phase>>
      BY <1>5 DEF ServeRotate
    <2>3. CASE /\ roomKey' = [roomKey EXCEPT ![member] = m.key]
               /\ Answered([type |-> "KEY_ROTATED", key |-> m.key])
      <3> DEFINE n == [type |-> "KEY_ROTATED", key |-> m.key]
      <3>1. n \in Answer
        BY <2>1 DEF Answer
      <3>2. answers' = Append(answers, n)
        BY <2>3 DEF Answered
      <3> HIDE DEF n
      <3>3. answers' \in Seq(Answer)
        BY <3>1, <3>2 DEF DataOK
      <3> HIDE DEF m
      <3> QED BY <1>1, <1>2, <2>1, <2>2, <2>3, <3>3 DEF DataOK, client
    <2>4. CASE UNCHANGED <<roomKey, answers>>
      BY <1>1, <1>2, <2>2, <2>4 DEF DataOK, client
    <2> QED BY <1>5, <2>3, <2>4 DEF ServeRotate
  <1> HIDE DEF m
  <1> QED BY <1>3, <1>4, <1>5 DEF Serve, m

\* Reading an answer keeps the data types.
LEMMA ReceiveData == DataOK /\ Receive => DataOK'
  <1> SUFFICES ASSUME DataOK, Receive PROVE DataOK'
    OBVIOUS
  <1> DEFINE m == Head(answers)
  <1>1. m \in Answer /\ answers' \in Seq(Answer)
    BY DEF Receive, DataOK
  <1>2. m.type = "JOIN_RESULT" => m.room \in Room
    BY <1>1 DEF Answer
  <1>3. m.type = "KEY_ROTATED" => m.key \in Key
    BY <1>1 DEF Answer
  <1>4. /\ roomId' = RoomAfter(m)
        /\ role' = IF m.type = "JOIN_RESULT" THEN m.role ELSE role
        /\ saved' = CASE m.type = "KEY_ROTATED" -> SavedWithKey(m.key)
                      [] m.type = "ROOM_TERMINATED" -> NoSession
                      [] OTHER -> saved
        /\ landing' = IF m.type = "JOIN_RESULT" THEN Append(landing, m.room) ELSE landing
        /\ UNCHANGED <<sock, timers, manual, lastKey, summary, requests, member, owned, rooms>>
    BY DEF Receive
  <1>5. m.type = "JOIN_RESULT" => m.role \in {"host", "editor"}
    BY <1>1 DEF Answer
  <1> HIDE DEF m
  <1>6. role' \in {"host", "editor", "viewer"}
    BY <1>4, <1>5 DEF DataOK
  <1>7. roomId' \in Room \cup {NoRoom} /\ landing' \in Seq(Room)
    BY <1>2, <1>4 DEF RoomAfter, DataOK
  <1>8. saved' \in Session \cup {NoSession}
    BY <1>3, <1>4, SavedWithKeyType DEF DataOK
  <1> QED BY <1>1, <1>4, <1>7, <1>8, <1>6 DEF DataOK, rooms

\* The user's requests keep the data types.
LEMMA RequestData ==
    ASSUME DataOK, NEW m \in Request, m.key \in Key, SidebarRequest(m) \/ CommandRequest(m)
    PROVE  DataOK'
  <1>1. /\ UNCHANGED <<timers, roomId, role, saved, landing, summary, rooms>>
        /\ lastKey' = m.key \/ UNCHANGED lastKey
        /\ \/ requests' = Append(requests, m) /\ UNCHANGED <<sock, answers, member, owned>>
           \/ sock' = "connecting" /\ NewWire
           \/ UNCHANGED <<sock, requests, answers, member, owned>>
    BY ConnectData, Zenon DEF SidebarRequest, CommandRequest, client
  <1>2. /\ requests \in Seq(Request) /\ answers \in Seq(Answer)
        /\ member \in Room \cup {NoRoom} /\ owned \in SUBSET Room
    BY DEF DataOK
  <1>3. requests' \in Seq(Request)
    BY <1>1, <1>2, NewWireType, QueueType, Zenon
  <1>4. /\ answers' \in Seq(Answer)
        /\ member' \in Room \cup {NoRoom} /\ owned' \in SUBSET Room
    BY <1>1, <1>2, NewWireType, Zenon
  <1>5. sock' \in {"connecting", "open", "closing", "closed"}
    BY <1>1 DEF DataOK
  <1>6. lastKey' \in Key \cup {NoKey}
    BY <1>1 DEF DataOK
  <1> QED BY <1>1, <1>5, <1>6, <1>3, <1>4 DEF DataOK, rooms

LEMMA UserData == DataOK /\ UserActs => DataOK'
  <1> SUFFICES ASSUME DataOK, UserActs PROVE DataOK'
    OBVIOUS
  <1>1. ASSUME NEW k \in Key, SidebarCreate(k) \/ CommandCreate(k) PROVE DataOK'
    <2> DEFINE m == [type |-> "CREATE", key |-> k]
    <2>1. m \in Request /\ m.key \in Key
      BY DEF Request
    <2> QED BY <1>1, <2>1, RequestData DEF SidebarCreate, CommandCreate
  <1>2. ASSUME NEW r \in Room, NEW k \in Key, SidebarJoin(r, k) \/ CommandJoin(r, k)
        PROVE  DataOK'
    <2> DEFINE m == [type |-> "JOIN", room |-> r, key |-> k]
    <2>1. m \in Request /\ m.key \in Key
      BY DEF Request
    <2> QED BY <1>2, <2>1, RequestData DEF SidebarJoin, CommandJoin
  <1>3. ASSUME NEW k \in Key, RotateKey(k) PROVE DataOK'
    <2> DEFINE m == [type |-> "ROTATE", key |-> k]
    <2>1. m \in Request
      BY DEF Request
    <2>2. /\ requests' = Append(requests, m) \/ UNCHANGED requests
          /\ saved' = SavedWithKey(k)
          /\ UNCHANGED <<sock, timers, roomId, role, lastKey, landing, summary, answers, member,
                         owned, rooms>>
      BY <1>3, Zenon DEF RotateKey
    <2> HIDE DEF m
    <2>3. requests \in Seq(Request)
      BY DEF DataOK
    <2>4. requests' \in Seq(Request)
      BY <2>1, <2>2, <2>3, QueueType, Zenon
    <2>5. saved' \in Session \cup {NoSession}
      BY <2>2, SavedWithKeyType
    <2> QED BY <2>2, <2>4, <2>5 DEF DataOK, rooms
  <1>4. CASE LeaveClicked \/ SummaryDismissed \/ LeaveAtOnce
    <2>1. /\ saved' \in {saved, NoSession} /\ roomId' \in {roomId, NoRoom}
          /\ sock' \in {sock, "closing"} /\ summary' \in {summary, "none", "shown"}
          /\ UNCHANGED <<timers, role, lastKey, landing, requests, answers, member, owned, rooms>>
      BY <1>4 DEF LeaveClicked, SummaryDismissed, LeaveAtOnce, Leave, SocketAfterLeaving
    <2> QED BY <2>1 DEF DataOK, rooms
  <1>5. CASE Reconnect \/ Restart
    <2>1. /\ sock' = "connecting" /\ NewWire /\ timers' \in {0, timers}
          /\ roomId' \in {roomId, NoRoom} /\ role' \in {role, "viewer"}
          /\ lastKey' \in {lastKey, NoKey} /\ landing' \in {landing, << >>}
          /\ summary' \in {summary, "none"} /\ UNCHANGED <<saved, rooms>>
      BY <1>5 DEF Reconnect, Restart
    <2>2. landing \in Seq(Room) /\ << >> \in Seq(Room)
      BY DEF DataOK
    <2>3. landing' \in Seq(Room)
      BY <2>1, <2>2, Zenon
    <2> QED BY <2>1, <2>3, NewWireType DEF DataOK, rooms
  <1> QED BY <1>1, <1>2, <1>3, <1>4, <1>5 DEF UserActs

LEMMA DataOKNext == DataOK /\ [Next]_vars => DataOK'
  <1> SUFFICES ASSUME DataOK, [Next]_vars PROVE DataOK'
    OBVIOUS
  <1>1. CASE UserActs
    BY <1>1, UserData
  <1>2. ASSUME NEW r \in Room, RoomEnds(r) PROVE DataOK'
    <2> DEFINE m == [type |-> "ROOM_TERMINATED"]
    <2>1. m \in Answer
      BY DEF Answer
    <2>2. answers' = Append(answers, m) \/ UNCHANGED answers
      BY <1>2 DEF RoomEnds, Answered
    <2> HIDE DEF m
    <2>3. answers \in Seq(Answer)
      BY DEF DataOK
    <2>4. answers' \in Seq(Answer)
      BY <2>1, <2>2, <2>3, QueueType, Zenon
    <2> QED BY <1>2, <2>4 DEF RoomEnds, DataOK, client
  <1>3. ASSUME NEW r \in Room, NEW k \in Key, RotatedByItsHost(r, k) PROVE DataOK'
    <2> DEFINE m == [type |-> "KEY_ROTATED", key |-> k]
    <2>1. m \in Answer
      BY DEF Answer
    <2>2. answers' = Append(answers, m) \/ UNCHANGED answers
      BY <1>3 DEF RotatedByItsHost, Answered
    <2> HIDE DEF m
    <2>3. answers \in Seq(Answer)
      BY DEF DataOK
    <2>4. answers' \in Seq(Answer)
      BY <2>1, <2>2, <2>3, QueueType, Zenon
    <2> QED BY <1>3, <2>4 DEF RotatedByItsHost, DataOK, client
  <1>4. CASE SocketOpens
    <2>1. Rejoin \in Seq(Request)
      <3>1. CASE saved \in Session
        <4> DEFINE m == [type |-> "JOIN", room |-> saved.room, key |-> saved.key]
        <4>1. m \in Request
          BY <3>1 DEF Session, Request
        <4>2. Rejoin = << >> \/ Rejoin = <<m>>
          BY DEF Rejoin
        <4> HIDE DEF m
        <4>3. << >> \in Seq(Request)
          OBVIOUS
        <4> QED BY <4>1, <4>2, <4>3, QueueType, Zenon
      <3>2. CASE saved = NoSession
        BY <3>2 DEF Rejoin
      <3> QED BY <3>1, <3>2 DEF DataOK
    <2> QED BY <1>4, <2>1 DEF SocketOpens, DataOK, rooms
  <1>5. CASE ConnectionEnds
    BY <1>5 DEF ConnectionEnds, DataOK, rooms
  <1>6. CASE SocketClosed
    <2>1. Retries \in Nat
      BY DEF Retries
    <2> QED BY <1>6, <2>1, NewWireType DEF SocketClosed, DataOK, rooms
  <1>7. CASE TimerFires
    <2>1. /\ timers > 0 /\ timers' = timers - 1
          /\ \/ sock' = "connecting" /\ NewWire
             \/ UNCHANGED <<sock, requests, answers, member, owned>>
          /\ UNCHANGED <<roomId, role, lastKey, saved, landing, summary, rooms>>
      BY <1>7, ConnectData, Zenon DEF TimerFires
    <2>2. timers' \in Nat
      BY <2>1 DEF DataOK
    <2> QED BY <2>1, <2>2, NewWireType DEF DataOK, rooms
  <1>8. CASE Receive
    BY <1>8, ReceiveData
  <1>9. CASE Serve
    BY <1>9, ServeData
  <1>10. ASSUME NEW i \in 1 .. MaxLanding, Lands(i) PROVE DataOK'
    <2>1. i \in 1 .. Len(landing) /\ landing \in Seq(Room)
      BY <1>10 DEF Lands, DataOK
    <2>2. landing[i] \in Room
      BY <2>1
    <2>3. saved' \in Session \cup {NoSession}
      BY <1>10, <2>2 DEF Lands, SessionIn, Session, DataOK
    <2>4. /\ SubSeq(landing, 1, i - 1) \in Seq(Room)
          /\ SubSeq(landing, i + 1, Len(landing)) \in Seq(Room)
      BY <2>1
    <2>5. landing' \in Seq(Room)
      BY <1>10, <2>4 DEF Lands
    <2> QED BY <1>10, <2>3, <2>5 DEF Lands, DataOK, rooms
  <1>11. CASE UNCHANGED vars
    BY <1>11 DEF vars, client, rooms, DataOK
  <1> QED
    BY <1>1, <1>2, <1>3, <1>4, <1>5, <1>6, <1>7, <1>8, <1>9, <1>10, <1>11
       DEF Next, OthersAct, Network

LEMMA ManualNext == manual \in BOOLEAN /\ [Next]_vars => (manual \in BOOLEAN)'
  <1> SUFFICES ASSUME manual \in BOOLEAN, [Next]_vars PROVE manual' \in BOOLEAN
    OBVIOUS
  <1>1. CASE manual' \in {TRUE, FALSE}
    BY <1>1, Zenon
  <1>2. CASE UNCHANGED manual
    BY <1>2, Zenon
  <1> QED
    BY <1>1, <1>2, Zenon
       DEF Next, UserActs, OthersAct, Network, SidebarCreate, SidebarJoin, CommandCreate,
           CommandJoin, SidebarRequest, CommandRequest, Connect, RotateKey, LeaveClicked,
           SummaryDismissed, LeaveAtOnce, Leave, Reconnect, Restart, RoomEnds, RotatedByItsHost,
           Receive, Serve, SocketOpens, ConnectionEnds, SocketClosed, TimerFires, Lands, client,
           vars

\* Every variable of the extension host and its server keeps its type.
THEOREM TypeCorrect == Spec => []TypeOK
  <1>1. Init => manual \in BOOLEAN
    BY Zenon DEF Init
  <1> QED BY <1>1, DataOKInit, DataOKNext, ManualNext, PTL DEF Spec, TypeOK

-----------------------------------------------------------------------------
(* No step leaves the client off line without a timer: the only step that  *)
(* closes the socket sets one, the only one that takes a timer away        *)
(* connects, and only a leave, which raises manualDisconnect, does neither.*)

LEMMA NeverStrandedNext == DataOK /\ NeverStranded /\ [Next]_vars => NeverStranded'
  <1> SUFFICES ASSUME DataOK, NeverStranded, [Next]_vars PROVE NeverStranded'
    OBVIOUS
  <1> USE DEF NeverStranded
  <1>1. CASE SocketClosed
    BY <1>1 DEF SocketClosed, Retries, DataOK
  <1>2. CASE TimerFires
    BY <1>2 DEF TimerFires, Connect, Connecting
  <1>3. CASE SocketOpens \/ ConnectionEnds
    BY <1>3 DEF SocketOpens, ConnectionEnds
  <1>4. CASE LeaveClicked \/ SummaryDismissed \/ LeaveAtOnce
    BY <1>4 DEF LeaveClicked, SummaryDismissed, LeaveAtOnce, Leave
  <1>5. CASE Reconnect \/ Restart
    BY <1>5 DEF Reconnect, Restart
  <1>6. ASSUME NEW m, SidebarRequest(m) PROVE NeverStranded'
    BY <1>6 DEF SidebarRequest, Connect
  <1>7. ASSUME UNCHANGED <<sock, timers, manual>> PROVE NeverStranded'
    BY <1>7
  <1> QED
    BY <1>1, <1>2, <1>3, <1>4, <1>5, <1>6, <1>7
       DEF Next, UserActs, OthersAct, Network, SidebarCreate, SidebarJoin, CommandCreate,
           CommandJoin, CommandRequest, RotateKey, RoomEnds, RotatedByItsHost, Receive, Serve,
           Lands, client, vars

\* Whatever the order of closes, clicks, timers and leaves, a client that is off
\* line and was not taken off by its user will connect again.
THEOREM ClientIsNeverStranded == Spec => []NeverStranded
  <1>1. Init => NeverStranded
    BY DEF Init, NeverStranded
  <1> QED BY <1>1, NeverStrandedNext, TypeCorrect, PTL DEF Spec, TypeOK

-----------------------------------------------------------------------------
(* What a client will believe once it has read every answer: the last      *)
(* answer under way that says where it is, or else what it believes now.   *)

Decides(m) == m.type \in {"JOIN_RESULT", "ROOM_TERMINATED"}

\* The last of the answers q that decides puts the client into r; without one,
\* the client is there, in "believed", already.
Leads(q, believed, r) ==
    \/ \E i \in 1 .. Len(q) :
           /\ q[i].type = "JOIN_RESULT" /\ q[i].room = r
           /\ \A j \in i + 1 .. Len(q) : ~Decides(q[j])
    \/ (\A j \in 1 .. Len(q) : ~Decides(q[j])) /\ believed = r

\* A connection on its way is in no room yet, and on an open one the answers
\* lead to the room the server has it in.
KnowledgeUnderWay ==
    /\ sock = "connecting" => member = NoRoom
    /\ sock = "open" /\ member # NoRoom => Leads(answers, roomId, member)

\* An answer that decides nothing leads nowhere else.
LEMMA LeadsSame ==
    ASSUME NEW q \in Seq(Answer), NEW b, NEW r, Leads(q, b, r),
           NEW m \in Answer, ~Decides(m)
    PROVE  Leads(Append(q, m), b, r)
  <1> DEFINE p == Append(q, m)
  <1>1. /\ Len(q) \in Nat /\ Len(p) = Len(q) + 1 /\ p[Len(q) + 1] = m
        /\ \A j \in 1 .. Len(q) : p[j] = q[j]
    OBVIOUS
  <1> HIDE DEF p
  <1>2. CASE \E i \in 1 .. Len(q) :
               /\ q[i].type = "JOIN_RESULT" /\ q[i].room = r
               /\ \A j \in i + 1 .. Len(q) : ~Decides(q[j])
    <2>1. PICK i \in 1 .. Len(q) :
               /\ q[i].type = "JOIN_RESULT" /\ q[i].room = r
               /\ \A j \in i + 1 .. Len(q) : ~Decides(q[j])
      BY <1>2
    <2>2. ASSUME NEW j \in i + 1 .. Len(p) PROVE ~Decides(p[j])
      <3>1. j = Len(q) + 1 \/ (j \in i + 1 .. Len(q) /\ j \in 1 .. Len(q))
        BY <1>1
      <3> QED BY <1>1, <2>1, <3>1
    <2>3. i \in 1 .. Len(p) /\ p[i] = q[i]
      BY <1>1
    <2> QED BY <2>1, <2>2, <2>3 DEF Leads, p
  <1>3. CASE (\A j \in 1 .. Len(q) : ~Decides(q[j])) /\ b = r
    <2>1. ASSUME NEW j \in 1 .. Len(p) PROVE ~Decides(p[j])
      <3>1. j = Len(q) + 1 \/ j \in 1 .. Len(q)
        BY <1>1
      <3> QED BY <1>1, <1>3, <3>1
    <2> QED BY <1>3, <2>1 DEF Leads, p
  <1> QED BY <1>2, <1>3 DEF Leads

\* A JOIN_RESULT leads to its room, whatever came before it.
LEMMA LeadsToRoom ==
    ASSUME NEW q \in Seq(Answer), NEW b, NEW m \in Answer, m.type = "JOIN_RESULT"
    PROVE  Leads(Append(q, m), b, m.room)
  <1> DEFINE p == Append(q, m)
  <1>1. Len(q) \in Nat /\ Len(p) = Len(q) + 1 /\ p[Len(q) + 1] = m
    OBVIOUS
  <1> HIDE DEF p
  <1>2. Len(p) \in 1 .. Len(p) /\ Len(p) + 1 .. Len(p) = {}
    BY <1>1
  <1>3. p[Len(p)].type = "JOIN_RESULT" /\ p[Len(p)].room = m.room
    BY <1>1
  <1>4. \A j \in Len(p) + 1 .. Len(p) : ~Decides(p[j])
    BY <1>2
  <1> QED BY <1>2, <1>3, <1>4 DEF Leads, p

\* Reading an answer (RoomAfter) brings the client one answer closer.
LEMMA LeadsOn ==
    ASSUME NEW q \in Seq(Answer), q # << >>, NEW r, Leads(q, roomId, r)
    PROVE  Leads(Tail(q), RoomAfter(Head(q)), r)
  <1> DEFINE p == Tail(q)
             b == RoomAfter(Head(q))
  <1>1. /\ Len(q) \in Nat \ {0} /\ Len(p) = Len(q) - 1 /\ Head(q) = q[1]
        /\ \A j \in 1 .. Len(p) : p[j] = q[j + 1]
    OBVIOUS
  <1>2. ~Decides(q[1]) => b = roomId
    BY <1>1 DEF RoomAfter, Decides
  <1>3. q[1].type = "JOIN_RESULT" => b = q[1].room
    BY <1>1 DEF RoomAfter
  <1> HIDE DEF p, b
  <1>4. ASSUME NEW i \in 1 .. Len(q), \A j \in i + 1 .. Len(q) : ~Decides(q[j])
        PROVE  \A j \in i .. Len(p) : ~Decides(p[j])
    <2> SUFFICES ASSUME NEW j \in i .. Len(p) PROVE ~Decides(p[j])
      OBVIOUS
    <2>1. j + 1 \in i + 1 .. Len(q) /\ j \in 1 .. Len(p)
      BY <1>1
    <2> QED BY <1>1, <1>4, <2>1
  <1>5. ASSUME NEW i \in 1 .. Len(q), q[i].type = "JOIN_RESULT", q[i].room = r,
               \A j \in i + 1 .. Len(q) : ~Decides(q[j])
        PROVE  Leads(p, b, r)
    <2>1. \A j \in i .. Len(p) : ~Decides(p[j])
      BY <1>4, <1>5
    <2>2. CASE i = 1
      BY <1>3, <1>5, <2>1, <2>2 DEF Leads
    <2>3. CASE i # 1
      <3>1. i - 1 \in 1 .. Len(p) /\ (i - 1) + 1 = i
        BY <1>1, <2>3
      <3>2. p[i - 1] = q[i]
        BY <1>1, <3>1
      <3>3. \A j \in (i - 1) + 1 .. Len(p) : ~Decides(p[j])
        BY <2>1, <3>1
      <3> QED BY <1>5, <3>1, <3>2, <3>3 DEF Leads
    <2> QED BY <2>2, <2>3
  <1>6. ASSUME \A j \in 1 .. Len(q) : ~Decides(q[j]), roomId = r PROVE Leads(p, b, r)
    <2>1. \A j \in 1 .. Len(p) : j + 1 \in 1 .. Len(q)
      BY <1>1
    <2>2. \A j \in 1 .. Len(p) : ~Decides(p[j])
      BY <1>1, <1>6, <2>1
    <2>3. b = r
      BY <1>1, <1>2, <1>6
    <2> QED BY <2>2, <2>3 DEF Leads
  <1> QED BY <1>5, <1>6 DEF Leads, p, b

\* What the server does leaves the answers leading to the room it has the
\* connection in.
LEMMA ServeLeads ==
    ASSUME DataOK, KnowledgeUnderWay, Serve PROVE KnowledgeUnderWay'
  <1> DEFINE m == Head(requests)
  <1>1. /\ m \in Request /\ answers \in Seq(Answer)
        /\ sock \in {"open", "closing"} /\ sock' = sock /\ roomId' = roomId
    BY DEF Serve, DataOK, client
  <1>2. CASE ServeJoin(m)
    <2> DEFINE n == [type |-> "JOIN_RESULT", room |-> m.room, role |-> RoleIn(m.room)]
               no == [type |-> "REFUSED"]
    <2>1. CASE member' = m.room /\ answers' = Append(answers, n)
      <3>1. m.room \in Room /\ RoleIn(m.room) \in {"host", "editor"}
        BY <1>1, <1>2 DEF ServeJoin, Request, RoleIn
      <3>2. n \in Answer /\ n.type = "JOIN_RESULT" /\ n.room = m.room
        BY <3>1 DEF Answer
      <3> HIDE DEF n, m
      <3>3. Leads(answers', roomId', member')
        BY <1>1, <2>1, <3>2, LeadsToRoom
      <3> QED BY <1>1, <3>3 DEF KnowledgeUnderWay
    <2>2. CASE member' = member /\ answers' = Append(answers, no)
      <3>1. no \in Answer /\ ~Decides(no)
        BY DEF Answer, Decides
      <3> HIDE DEF no
      <3>2. Leads(answers, roomId, member) => Leads(answers', roomId', member')
        BY <1>1, <2>2, <3>1, LeadsSame
      <3> QED BY <1>1, <2>2, <3>2 DEF KnowledgeUnderWay
    <2> QED BY <1>2, <2>1, <2>2 DEF ServeJoin, Answered
  <1>3. ASSUME NEW r \in Room, ServeCreate(m, r) PROVE KnowledgeUnderWay'
    <2> DEFINE n == [type |-> "JOIN_RESULT", room |-> r, role |-> "host"]
    <2>1. n \in Answer /\ n.type = "JOIN_RESULT" /\ n.room = r
      BY DEF Answer
    <2>2. member' = r /\ answers' = Append(answers, n)
      BY <1>3 DEF ServeCreate, Answered
    <2> HIDE DEF n, m
    <2>3. Leads(answers', roomId', member')
      BY <1>1, <2>1, <2>2, LeadsToRoom
    <2> QED BY <1>1, <2>3 DEF KnowledgeUnderWay
  <1>4. CASE ServeRotate(m)
    <2> DEFINE n == [type |-> "KEY_ROTATED", key |-> m.key]
    <2>1. m.key \in Key /\ member' = member
      BY <1>1, <1>4 DEF ServeRotate, Request
    <2>2. n \in Answer /\ ~Decides(n)
      BY <2>1 DEF Answer, Decides
    <2>3. answers' = Append(answers, n) \/ answers' = answers
      BY <1>4 DEF ServeRotate, Answered
    <2> HIDE DEF n, m
    <2>4. Leads(answers, roomId, member) => Leads(answers', roomId', member')
      BY <1>1, <2>1, <2>2, <2>3, LeadsSame
    <2> QED BY <1>1, <2>1, <2>4 DEF KnowledgeUnderWay
  <1> QED BY <1>2, <1>3, <1>4 DEF Serve

LEMMA KnowledgeNext == DataOK /\ KnowledgeUnderWay /\ [Next]_vars => KnowledgeUnderWay'
  <1> SUFFICES ASSUME DataOK, KnowledgeUnderWay, [Next]_vars PROVE KnowledgeUnderWay'
    OBVIOUS
  <1>1. ASSUME UNCHANGED <<sock, roomId, answers, member>> PROVE KnowledgeUnderWay'
    BY <1>1 DEF KnowledgeUnderWay
  <1>2. ASSUME sock' \notin {"connecting", "open"} PROVE KnowledgeUnderWay'
    BY <1>2 DEF KnowledgeUnderWay
  <1>3. ASSUME sock' = "connecting", NewWire PROVE KnowledgeUnderWay'
    BY <1>3 DEF KnowledgeUnderWay, NewWire
  <1>4. ASSUME NEW m, SidebarRequest(m) \/ CommandRequest(m) PROVE KnowledgeUnderWay'
    <2>1. \/ UNCHANGED <<sock, roomId, answers, member>>
          \/ sock' = "connecting" /\ NewWire
      BY <1>4, ConnectData, Zenon DEF SidebarRequest, CommandRequest, client
    <2> QED BY <1>1, <1>3, <2>1
  <1>5. CASE LeaveClicked \/ SummaryDismissed \/ LeaveAtOnce
    <2>1. \/ UNCHANGED <<sock, roomId, answers, member>>
          \/ sock' \notin {"connecting", "open"}
      BY <1>5 DEF LeaveClicked, SummaryDismissed, LeaveAtOnce, Leave, SocketAfterLeaving, Connecting
    <2> QED BY <1>1, <1>2, <2>1
  <1>6. CASE Reconnect \/ Restart
    BY <1>3, <1>6 DEF Reconnect, Restart
  <1>7. ASSUME NEW k \in Key, RotateKey(k) PROVE KnowledgeUnderWay'
    BY <1>1, <1>7 DEF RotateKey
  <1>8. ASSUME NEW r \in Room, RoomEnds(r) PROVE KnowledgeUnderWay'
    <2>1. CASE member = r
      BY <1>8, <2>1 DEF RoomEnds, KnowledgeUnderWay, client
    <2>2. CASE member # r
      BY <1>1, <1>8, <2>2 DEF RoomEnds, client
    <2> QED BY <2>1, <2>2
  <1>9. ASSUME NEW r \in Room, NEW k \in Key, RotatedByItsHost(r, k) PROVE KnowledgeUnderWay'
    <2> DEFINE n == [type |-> "KEY_ROTATED", key |-> k]
    <2>1. n \in Answer /\ ~Decides(n)
      BY DEF Answer, Decides
    <2>2. /\ sock' = sock /\ roomId' = roomId /\ member' = member
          /\ answers' = Append(answers, n) \/ answers' = answers
      BY <1>9 DEF RotatedByItsHost, Answered, client
    <2> HIDE DEF n
    <2>3. Leads(answers, roomId, member) => Leads(answers', roomId', member')
      BY <2>1, <2>2, LeadsSame DEF DataOK
    <2> QED BY <2>2, <2>3 DEF KnowledgeUnderWay
  <1>10. CASE SocketOpens
    BY <1>10 DEF SocketOpens, KnowledgeUnderWay
  <1>11. CASE ConnectionEnds \/ SocketClosed
    BY <1>2, <1>11 DEF ConnectionEnds, SocketClosed
  <1>12. CASE TimerFires
    <2>1. \/ sock' = "connecting" /\ NewWire
          \/ UNCHANGED <<sock, roomId, answers, member>>
      BY <1>12, ConnectData, Zenon DEF TimerFires
    <2> QED BY <1>1, <1>3, <2>1
  <1>13. CASE Receive
    <2>1. /\ sock' = sock /\ member' = member /\ answers # << >>
          /\ answers' = Tail(answers) /\ roomId' = RoomAfter(Head(answers))
      BY <1>13 DEF Receive
    <2>2. Leads(answers, roomId, member) => Leads(answers', roomId', member')
      BY <2>1, LeadsOn DEF DataOK
    <2>3. sock \in {"open", "closing"}
      BY <1>13 DEF Receive
    <2> QED BY <2>1, <2>2, <2>3 DEF KnowledgeUnderWay
  <1>14. CASE Serve
    BY <1>14, ServeLeads
  <1>15. ASSUME NEW i \in 1 .. MaxLanding, Lands(i) PROVE KnowledgeUnderWay'
    BY <1>1, <1>15 DEF Lands
  <1>16. CASE UNCHANGED vars
    BY <1>1, <1>16 DEF vars, client
  <1> QED
    BY <1>4, <1>5, <1>6, <1>7, <1>8, <1>9, <1>10, <1>11, <1>12, <1>13, <1>14, <1>15, <1>16
       DEF Next, UserActs, OthersAct, Network, SidebarCreate, SidebarJoin, CommandCreate,
           CommandJoin

\* However often a client switched rooms, and whatever it left or lost in between,
\* once it has read every answer it is in the room the server has its connection
\* in.
THEOREM ClientKnowsItsRoom == Spec => []KnowsItsRoom
  <1>1. Init => KnowledgeUnderWay
    BY Zenon DEF Init, KnowledgeUnderWay
  <1>2. DataOK /\ KnowledgeUnderWay => KnowsItsRoom
    <2> SUFFICES ASSUME DataOK, KnowledgeUnderWay, sock = "open", answers = << >>, member # NoRoom
                 PROVE  roomId = member
      BY DEF KnowsItsRoom
    <2>1. Leads(answers, roomId, member) /\ Len(answers) = 0
      BY DEF KnowledgeUnderWay
    <2> QED BY <2>1 DEF Leads
  <1> QED BY <1>1, <1>2, KnowledgeNext, TypeCorrect, PTL DEF Spec, TypeOK

=============================================================================
