---------------------------- MODULE ClientSession ----------------------------
(***************************************************************************)
(* One extension host and the signaling server as it sees it: the current  *)
(* WebSocket, the reconnect timers, the room it believes it is in, the     *)
(* session it saved, and the sidebar's memory of the last key typed in.    *)
(* handleIncoming is async: a JOIN_RESULT sets the room, awaits the        *)
(* workspace scan, and only then reaches the handler that saves the        *)
(* session, so other frames, closes and leaves come in between.            *)
(* Of earlier connections nothing is kept: their listeners are removed.    *)
(***************************************************************************)
EXTENDS Integers, Sequences, FiniteSets

CONSTANTS
    Room, Key,
    NoRoom, NoKey, NoSession,
    MaxTimers,   \* bound: the user makes new connections only while fewer timers are set
    MaxWire,     \* bound: requests the user has on the wire, answers likewise
    MaxLanding   \* bound: JOIN_RESULTs whose workspace scan is under way

ASSUME NoRoomAssumption == NoRoom \notin Room
ASSUME NoKeyAssumption == NoKey \notin Key
Session == [room : Room, key : Key]
ASSUME NoSessionAssumption == NoSession \notin Session
ASSUME BoundsAssumption == MaxTimers \in Nat /\ MaxWire \in Nat /\ MaxLanding \in Nat

VARIABLES
    \* the extension host
    sock,        \* readyState of this.socket
    timers,      \* how many 5 s reconnect timers are set
    manual,      \* manualDisconnect
    roomId,      \* SocketManager.roomId
    role,        \* PermissionManager's role, which a leave does not reset
    lastKey,     \* provider.lastRoomKey, NoKey when empty
    saved,       \* the session in globalState, which outlives the process
    landing,     \* rooms of the JOIN_RESULTs waiting for bootstrapWorkspace
    summary,     \* "shown" while Leave waits for its session summary
    \* the wire and the server
    requests, answers,
    member,      \* the room the server has this connection in
    owned,       \* rooms this connection created
    roomKey,     \* key of a live room
    phase        \* of a room: "unused", "live", "ended"

client == <<sock, timers, manual, roomId, role, lastKey, saved, landing, summary>>
rooms == <<roomKey, phase>>
vars == <<client, requests, answers, member, owned, rooms>>

Request ==
    [type : {"JOIN"}, room : Room, key : Key] \cup [type : {"CREATE", "ROTATE"}, key : Key]
Answer ==
    [type : {"JOIN_RESULT"}, room : Room, role : {"host", "editor"}]
        \cup [type : {"KEY_ROTATED"}, key : Key]
        \cup [type : {"REFUSED", "ROOM_TERMINATED"}]

Live(r) == phase[r] = "live"
Opens(s) == Live(s.room) /\ roomKey[s.room] = s.key     \* what REJOIN_ROOM checks

Init ==
    /\ sock = "connecting" /\ timers = 0 /\ manual = FALSE
    /\ roomId = NoRoom /\ role = "viewer" /\ lastKey = NoKey
    /\ saved \in Session \cup {NoSession}
    /\ landing = << >> /\ summary = "none"
    /\ requests = << >> /\ answers = << >> /\ member = NoRoom /\ owned = {}
    /\ phase \in [Room -> {"unused", "live"}]
    /\ roomKey \in [Room -> Key \cup {NoKey}]
    /\ \A r \in Room : roomKey[r] = NoKey <=> phase[r] = "unused"

-----------------------------------------------------------------------------
(* The connection.                                                         *)

\* The current socket has no server side, or none any more.
NewWire ==
    /\ requests' = << >> /\ answers' = << >> /\ member' = NoRoom /\ owned' = {}

\* connect(): nothing when the socket is open or on its way; else a new one.
Connecting == sock \in {"open", "connecting"}
Connect ==
    /\ ~Connecting
    /\ sock' = "connecting" /\ manual' = FALSE
    /\ NewWire

\* (A definition named X_... is X with a bug put in, for the mutation runs; no
\* other definition uses it.)
Rejoin_asIfInRoom ==
    IF saved = NoSession \/ roomId = NoRoom THEN << >>
    ELSE <<[type |-> "JOIN", room |-> saved.room, key |-> saved.key]>>

\* attemptRejoin, when the socket opens.
Rejoin ==
    IF saved = NoSession \/ roomId # NoRoom THEN << >>
    ELSE <<[type |-> "JOIN", room |-> saved.room, key |-> saved.key]>>

SocketOpens ==
    /\ sock = "connecting"
    /\ sock' = "open"
    /\ requests' = Rejoin
    /\ UNCHANGED <<timers, manual, roomId, role, lastKey, saved, landing, summary, answers,
                   member, owned, rooms>>

\* The server, or the network, ends the connection or refuses it.
ConnectionEnds ==
    /\ Connecting
    /\ sock' = "closing"
    /\ UNCHANGED <<timers, manual, roomId, role, lastKey, saved, landing, summary, requests,
                   answers, member, owned, rooms>>

Retries_inRoom == IF manual \/ roomId = NoRoom THEN 0 ELSE 1
Retries == IF manual THEN 0 ELSE 1

\* The close event.
SocketClosed ==
    /\ sock = "closing"
    /\ sock' = "closed"
    /\ timers' = timers + Retries
    /\ NewWire
    /\ UNCHANGED <<manual, roomId, role, lastKey, saved, landing, summary, rooms>>

\* A reconnect timer: connect(), whether or not the user has left meanwhile.
TimerFires ==
    /\ timers > 0
    /\ timers' = timers - 1
    /\ \/ Connect
       \/ Connecting /\ UNCHANGED <<sock, manual, requests, answers, member, owned>>
    /\ UNCHANGED <<roomId, role, lastKey, saved, landing, summary, rooms>>

\* reconnect(), on a change of syncscript.signalingUrl.
Reconnect ==
    /\ timers < MaxTimers
    /\ sock' = "connecting" /\ manual' = FALSE
    /\ NewWire
    /\ UNCHANGED <<timers, roomId, role, lastKey, saved, landing, summary, rooms>>

\* The window reloads: what is not in globalState is gone.
Restart ==
    /\ sock' = "connecting" /\ timers' = 0 /\ manual' = FALSE
    /\ roomId' = NoRoom /\ role' = "viewer" /\ lastKey' = NoKey
    /\ landing' = << >> /\ summary' = "none"
    /\ NewWire
    /\ UNCHANGED <<saved, rooms>>

-----------------------------------------------------------------------------
(* The user.                                                               *)

MaySend == Len(requests) < MaxWire /\ Len(answers) < MaxWire

\* Create, join and rejoin-from-history in the sidebar.  When not connected the
\* click only reconnects: send() drops the request.
SidebarRequest(m) ==
    /\ lastKey' = m.key
    /\ \/ /\ sock = "open" /\ MaySend
          /\ requests' = Append(requests, m)
          /\ UNCHANGED <<sock, manual, answers, member, owned>>
       \/ Connect /\ timers < MaxTimers
       \/ sock = "connecting" /\ UNCHANGED <<sock, manual, requests, answers, member, owned>>
    /\ UNCHANGED <<timers, roomId, role, saved, landing, summary, rooms>>

SidebarJoin(r, k) == SidebarRequest([type |-> "JOIN", room |-> r, key |-> k])
SidebarCreate(k) == SidebarRequest([type |-> "CREATE", key |-> k])

\* The same from the command palette or an invite link: the key is not kept.
CommandRequest(m) ==
    /\ sock = "open" /\ MaySend
    /\ requests' = Append(requests, m)
    /\ UNCHANGED <<client, answers, member, owned, rooms>>

CommandJoin(r, k) == CommandRequest([type |-> "JOIN", room |-> r, key |-> k])
CommandCreate(k) == CommandRequest([type |-> "CREATE", key |-> k])

SavedWithKey(k) == IF saved = NoSession THEN saved ELSE [saved EXCEPT !.key = k]

\* rotateRoomKey: the new key is saved before the server has seen it.
RotateKey(k) ==
    /\ role = "host"
    /\ \/ /\ sock = "open" /\ MaySend
          /\ requests' = Append(requests, [type |-> "ROTATE", key |-> k])
       \/ sock # "open" /\ UNCHANGED requests
    /\ saved' = SavedWithKey(k)
    /\ UNCHANGED <<sock, timers, manual, roomId, role, lastKey, landing, summary, answers,
                   member, owned, rooms>>

SocketAfterLeaving_open == sock
SocketAfterLeaving == IF Connecting THEN "closing" ELSE sock

\* clearSession and disconnect().
Leave ==
    /\ saved' = NoSession
    /\ manual' = TRUE /\ roomId' = NoRoom
    /\ sock' = SocketAfterLeaving
    /\ UNCHANGED <<timers, role, lastKey, landing, requests, answers, member, owned, rooms>>

\* Leave in the sidebar puts up the session summary when there is a session to
\* sum up, and goes on when it is dismissed; the command does not wait.
LeaveClicked ==
    /\ summary = "none" /\ summary' = "shown"
    /\ UNCHANGED <<sock, timers, manual, roomId, role, lastKey, saved, landing, requests,
                   answers, member, owned, rooms>>
SummaryDismissed == summary = "shown" /\ summary' = "none" /\ Leave
LeaveAtOnce == UNCHANGED summary /\ Leave

-----------------------------------------------------------------------------
(* What the server sends.                                                  *)

RoomAfter(m) ==
    CASE m.type = "JOIN_RESULT" -> m.room
      [] m.type = "ROOM_TERMINATED" -> NoRoom
      [] OTHER -> roomId

\* handleIncoming up to its first await.  Frames are still read from a socket
\* that is closing.
Receive ==
    LET m == Head(answers)
    IN  /\ sock \in {"open", "closing"} /\ answers # << >>
        /\ m.type = "JOIN_RESULT" => Len(landing) < MaxLanding
        /\ answers' = Tail(answers)
        /\ roomId' = RoomAfter(m)
        /\ role' = IF m.type = "JOIN_RESULT" THEN m.role ELSE role
        /\ saved' = CASE m.type = "KEY_ROTATED" -> SavedWithKey(m.key)
                      [] m.type = "ROOM_TERMINATED" -> NoSession
                      [] OTHER -> saved
        /\ landing' = IF m.type = "JOIN_RESULT" THEN Append(landing, m.room) ELSE landing
        /\ UNCHANGED <<sock, timers, manual, lastKey, summary, requests, member, owned, rooms>>

SessionIn_unchecked(r) == [room |-> r, key |-> lastKey]
SessionIn(r) == IF lastKey = NoKey THEN saved ELSE [room |-> r, key |-> lastKey]

\* bootstrapWorkspace is done: ROOM_READY saves the session, with the key the
\* sidebar saw last.  Scans end in any order.
Lands(i) ==
    /\ i \in 1 .. Len(landing)
    /\ saved' = SessionIn(landing[i])
    /\ landing' = SubSeq(landing, 1, i - 1) \o SubSeq(landing, i + 1, Len(landing))
    /\ UNCHANGED <<sock, timers, manual, roomId, role, lastKey, summary, requests, answers,
                   member, owned, rooms>>

-----------------------------------------------------------------------------
(* The server.                                                             *)

Answered(m) == answers' = Append(answers, m)

RoleIn(r) == IF r \in owned THEN "host" ELSE "editor"

ServeJoin(m) ==
    /\ m.type = "JOIN"
    /\ \/ /\ Opens(m)
          /\ member' = m.room
          /\ Answered([type |-> "JOIN_RESULT", room |-> m.room, role |-> RoleIn(m.room)])
       \/ /\ ~Opens(m)
          /\ Answered([type |-> "REFUSED"]) /\ UNCHANGED member
    /\ UNCHANGED <<owned, rooms>>

ServeCreate(m, r) ==
    /\ m.type = "CREATE" /\ phase[r] = "unused"
    /\ phase' = [phase EXCEPT ![r] = "live"]
    /\ roomKey' = [roomKey EXCEPT ![r] = m.key]
    /\ member' = r /\ owned' = owned \cup {r}
    /\ Answered([type |-> "JOIN_RESULT", room |-> r, role |-> "host"])

ServeRotate(m) ==
    /\ m.type = "ROTATE"
    /\ \/ /\ member \in owned /\ Live(member)
          /\ roomKey' = [roomKey EXCEPT ![member] = m.key]
          /\ Answered([type |-> "KEY_ROTATED", key |-> m.key])
       \/ member \notin owned /\ UNCHANGED <<roomKey, answers>>
    /\ UNCHANGED <<member, owned, phase>>

Serve ==
    LET m == Head(requests)
    IN  /\ sock \in {"open", "closing"} /\ requests # << >>
        /\ \/ ServeJoin(m)
           \/ \E r \in Room : ServeCreate(m, r)
           \/ ServeRotate(m)
        /\ requests' = Tail(requests)
        /\ UNCHANGED client

\* Another host rotates the key of its room; everybody in it is told.
RotatedByItsHost(r, k) ==
    /\ Live(r) /\ r \notin owned
    /\ member = r => Len(answers) < MaxWire
    /\ roomKey' = [roomKey EXCEPT ![r] = k]
    /\ IF member = r THEN Answered([type |-> "KEY_ROTATED", key |-> k]) ELSE UNCHANGED answers
    /\ UNCHANGED <<client, requests, member, owned, phase>>

\* The server deletes a room.
RoomEnds(r) ==
    /\ Live(r)
    /\ member = r => Len(answers) < MaxWire
    /\ phase' = [phase EXCEPT ![r] = "ended"]
    /\ roomKey' = [roomKey EXCEPT ![r] = NoKey]
    /\ IF member = r
       THEN member' = NoRoom /\ Answered([type |-> "ROOM_TERMINATED"])
       ELSE UNCHANGED <<member, answers>>
    /\ UNCHANGED <<client, requests, owned>>

-----------------------------------------------------------------------------
UserActs ==
    \/ \E k \in Key : SidebarCreate(k) \/ CommandCreate(k) \/ RotateKey(k)
    \/ \E r \in Room, k \in Key : SidebarJoin(r, k) \/ CommandJoin(r, k)
    \/ LeaveClicked \/ SummaryDismissed \/ LeaveAtOnce
    \/ Reconnect \/ Restart

OthersAct == \E r \in Room : RoomEnds(r) \/ \E k \in Key : RotatedByItsHost(r, k)

\* The steps that happen by themselves.
Network ==
    \/ SocketOpens \/ ConnectionEnds \/ SocketClosed \/ TimerFires
    \/ Receive \/ Serve
    \/ \E i \in 1 .. MaxLanding : Lands(i)

Next == UserActs \/ OthersAct \/ Network

Spec == Init /\ [][Next]_vars

\* Timers and close events come; a server that can be reached time and again
\* is reached in the end, and so is the answer to what it is asked.
Fairness ==
    /\ WF_vars(SocketClosed) /\ WF_vars(TimerFires)
    /\ SF_vars(SocketOpens) /\ SF_vars(Serve) /\ SF_vars(Receive)
    /\ WF_vars(\E i \in 1 .. MaxLanding : Lands(i))

\* Nobody touches anything: only the network fails and recovers.
UndisturbedSpec == Init /\ [][Network]_vars /\ Fairness

-----------------------------------------------------------------------------
(* Properties.                                                             *)

DataOK ==
    /\ sock \in {"connecting", "open", "closing", "closed"}
    /\ timers \in Nat
    /\ role \in {"host", "editor", "viewer"} /\ summary \in {"none", "shown"}
    /\ roomId \in Room \cup {NoRoom} /\ member \in Room \cup {NoRoom}
    /\ lastKey \in Key \cup {NoKey}
    /\ saved \in Session \cup {NoSession}
    /\ landing \in Seq(Room)
    /\ requests \in Seq(Request) /\ answers \in Seq(Answer)
    /\ owned \in SUBSET Room
    /\ roomKey \in [Room -> Key \cup {NoKey}]
    /\ phase \in [Room -> {"unused", "live", "ended"}]

\* The type invariant of the extension host and its server.
TypeOK == DataOK /\ manual \in BOOLEAN

\* A client whose socket is closed, not by its user, has a timer set that will
\* connect it again: no order of closes, clicks, timers, leaves and changes of
\* server leaves it off line for good.
NeverStranded == sock = "closed" /\ ~manual => timers > 0

\* A client that has read every answer is in the room the server has its
\* connection in, whatever it asked for and however often it switched.
KnowsItsRoom == sock = "open" /\ answers = << >> /\ member # NoRoom => roomId = member

\* A client that lost its connection gets it back, unless its user leaves.
Reconnects == sock = "closed" /\ ~manual ~> sock = "open" \/ manual

\* With a saved session that still opens its room, a client that starts up is
\* in that room in the end, through refused and broken connections.
RejoinsAfterReload ==
    roomId = NoRoom /\ saved # NoSession /\ (saved # NoSession => Opens(saved))
        ~> saved # NoSession /\ roomId = saved.room

\* A network that fails and comes back costs neither the connection nor, at a
\* start, the room.
NetworkHeals == Reconnects /\ RejoinsAfterReload

Settled == sock = "open" /\ requests = << >> /\ answers = << >> /\ landing = << >>

\* ReadMe.md's "Auto-rejoin after disconnect": a client that is back on line,
\* with nothing under way and a saved session that still opens its room, is a
\* member of that room.
RejoinsAfterDisconnect ==
    Settled /\ saved # NoSession => (Opens(saved) => member = saved.room)

=============================================================================
