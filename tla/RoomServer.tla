----------------------------- MODULE RoomServer -----------------------------
(***************************************************************************)
(* One signaling node with the in-memory store (no REDIS_URL).  Every      *)
(* await of a handler is then a microtask, so a handler runs to its end    *)
(* before the next socket event or timer: one action per handler.  Frames  *)
(* of one client that arrive in one segment may be read without a break    *)
(* (ws, allowSynchronousEvents); here a client sends when the node has     *)
(* handled what it sent before.                                            *)
(* The node's sockets, its store, its room manager and, per connection,    *)
(* the frames under way to the client and what the client made of them.    *)
(* Time is kept as two flags per room: past its TTL, past its deadline.    *)
(***************************************************************************)
EXTENDS Integers, Sequences, FiniteSets

CONSTANTS
    Socket,      \* connections; a socketId is a fresh UUID, never reused
    Room,        \* room ids the node may hand out
    Key,         \* security keys
    Grants,      \* the roles a host hands out
    Claims,      \* roles a guest names when it joins (the browser viewer does)
    NoSocket, NoRoom, NoKey,
    MaxPending,  \* bound: requests to join one socket may have waiting in a room
    MaxWire      \* bound: a client acts only while fewer frames wait on each wire

Role == {"host", "co-host", "editor", "viewer", "presenter"}

ASSUME NoRoomAssumption == NoRoom \notin Room
ASSUME NoSocketAssumption == NoSocket \notin Socket
ASSUME NoKeyAssumption == NoKey \notin Key
ASSUME GrantsAssumption == Grants \subseteq Role
ASSUME BoundsAssumption == MaxPending \in Nat /\ MaxWire \in Nat

VARIABLES
    conn,          \* readyState of the socket, "gone" once its close event has run
    responsive,    \* the peer is there: it sends, reads and answers pings
    isAlive,       \* socket.isAlive, the heartbeat's flag
    roomOf,        \* socket.roomId, the binding broadcasts go by
    roomState,     \* "unused", then "live" while the store has a record, then "deleted"
    adminId, securityKey,   \* of a live room's record
    idle,          \* lastActivity is older than the room TTL
    deactivation,  \* deactivationEndsAt: "none", "running" (ahead), "due" (passed)
    users,         \* the store's user records: socket -> room
    userRoles,     \* the room manager's role map
    pending,       \* pendingJoins: how many requests of a socket wait in a room
    wire,          \* frames sent to a client and not yet processed by it
    view           \* what the client holds: its room, participant list and role

sockets == <<conn, responsive, isAlive>>
records == <<roomState, adminId, securityKey, idle, deactivation>>
vars == <<sockets, roomOf, records, users, userRoles, pending, wire, view>>

NoRole == "none"

Message ==
    [type : {"JOIN_RESULT"}, room : Room, users : SUBSET Socket, role : Role]
        \cup [type : {"USER_LIST"}, users : SUBSET Socket]
        \cup [type : {"RELAY", "DIRECT"}, room : Room]
        \cup [type : {"ROLE_CHANGED"}, role : Role]
        \cup [type : {"ROOM_TERMINATED"}]

View == [room : Room \cup {NoRoom}, participants : SUBSET Socket,
         role : Role \cup {NoRole}]

BlankView == [room |-> NoRoom, participants |-> {}, role |-> NoRole]

-----------------------------------------------------------------------------
(* Sockets, members and the frames a handler sends.                        *)

Open(s) == conn[s] = "open"
Connected(s) == conn[s] \in {"open", "closing"}       \* still in wss.clients
Live(r) == r \in Room /\ roomState[r] = "live"

UsersOf(rec, r) == {s \in Socket : rec[s] = r}

\* (A definition named X_... is X with a bug put in, for the mutation runs; no
\* other definition uses it.)
Recipients_anyRoom(binding, r, sender) == {t \in Socket : Open(t) /\ t # sender}

\* The sockets broadcastToRoom reaches: open, bound to the room, not the sender.
Recipients(binding, r, sender) ==
    {t \in Socket : Open(t) /\ binding[t] = r /\ t # sender}

Sent(targets, m) ==
    [t \in Socket |-> IF t \in targets THEN Append(wire[t], m) ELSE wire[t]]

JoinResult(r, us, role) ==
    [type |-> "JOIN_RESULT", room |-> r, users |-> us, role |-> role]
UserList(us) == [type |-> "USER_LIST", users |-> us]
Relayed(r) == [type |-> "RELAY", room |-> r]        \* to the room of the sender
Direct(r) == [type |-> "DIRECT", room |-> r]        \* to a target, from a sender in r
RoleChanged(role) == [type |-> "ROLE_CHANGED", role |-> role]
Terminated == [type |-> "ROOM_TERMINATED"]

Welcomed_untold(s, r, us, binding, role) ==
    Sent({t \in {s} : Open(t)}, JoinResult(r, us, role))

\* s enters r: the answer to s, then USER_JOINED to the others bound to r.
Welcomed(s, r, us, binding, role) ==
    [t \in Socket |->
        IF t = s /\ Open(s) THEN Append(wire[t], JoinResult(r, us, role))
        ELSE IF t \in Recipients(binding, r, s) THEN Append(wire[t], UserList(us))
        ELSE wire[t]]

\* A frame of s reaches its handler: s is there and the instance has room.
CanAct(s) ==
    /\ Connected(s) /\ responsive[s]
    /\ \A t \in Socket : Len(wire[t]) < MaxWire

InRoom(s) == CanAct(s) /\ roomOf[s] # NoRoom

\* The guard of the handlers only a room's admin may use.
Admin(s) == InRoom(s) /\ Live(roomOf[s]) /\ adminId[roomOf[s]] = s

-----------------------------------------------------------------------------
Init ==
    /\ conn = [s \in Socket |-> "new"]
    /\ responsive = [s \in Socket |-> TRUE]
    /\ isAlive = [s \in Socket |-> FALSE]
    /\ roomOf = [s \in Socket |-> NoRoom]
    /\ roomState = [r \in Room |-> "unused"]
    /\ adminId = [r \in Room |-> NoSocket]
    /\ securityKey = [r \in Room |-> NoKey]
    /\ idle = [r \in Room |-> FALSE]
    /\ deactivation = [r \in Room |-> "none"]
    /\ users = [s \in Socket |-> NoRoom]
    /\ userRoles = [s \in Socket |-> NoRole]
    /\ pending = [r \in Room |-> [s \in Socket |-> 0]]
    /\ wire = [s \in Socket |-> << >>]
    /\ view = [s \in Socket |-> BlankView]

-----------------------------------------------------------------------------
(* The life of a connection.                                               *)

Connect(s) ==
    /\ conn[s] = "new"
    /\ conn' = [conn EXCEPT ![s] = "open"]
    /\ isAlive' = [isAlive EXCEPT ![s] = TRUE]
    /\ UNCHANGED <<responsive, roomOf, records, users, userRoles, pending, wire, view>>

\* The client leaves; the close event comes later.
ClientClose(s) ==
    /\ Open(s) /\ responsive[s]
    /\ conn' = [conn EXCEPT ![s] = "closing"]
    /\ UNCHANGED <<responsive, isAlive, roomOf, records, users, userRoles, pending, wire, view>>

\* The client's machine or network is gone and no close frame was sent.
ClientDies(s) ==
    /\ Open(s) /\ responsive[s]
    /\ responsive' = [responsive EXCEPT ![s] = FALSE]
    /\ UNCHANGED <<conn, isAlive, roomOf, records, users, userRoles, pending, wire, view>>

Pong(s) ==
    /\ Open(s) /\ responsive[s] /\ ~isAlive[s]
    /\ isAlive' = [isAlive EXCEPT ![s] = TRUE]
    /\ UNCHANGED <<conn, responsive, roomOf, records, users, userRoles, pending, wire, view>>

Heartbeat_neverClears ==
    /\ \E s \in Socket : Connected(s)
    /\ conn' = [s \in Socket |->
                    IF Connected(s) /\ ~isAlive[s] THEN "closing" ELSE conn[s]]
    /\ UNCHANGED <<responsive, isAlive, roomOf, records, users, userRoles, pending, wire, view>>

\* One tick of the heartbeat: silent since the last one, terminate; else ping.
Heartbeat ==
    /\ \E s \in Socket : Connected(s)
    /\ conn' = [s \in Socket |->
                    IF Connected(s) /\ ~isAlive[s] THEN "closing" ELSE conn[s]]
    /\ isAlive' = [s \in Socket |-> isAlive[s] /\ ~Connected(s)]
    /\ UNCHANGED <<responsive, roomOf, records, users, userRoles, pending, wire, view>>

UsersWithout_keeps(s) == users
UsersWithout(s) == [users EXCEPT ![s] = NoRoom]

\* The close event.  roomManager.removeUser drops the role first, whatever
\* the store knows of the socket; the peers are told only when it was a user.
SocketClosed(s) ==
    LET r == users[s]
        left == UsersWithout(s)
    IN  /\ conn[s] = "closing"
        /\ conn' = [conn EXCEPT ![s] = "gone"]
        /\ users' = left
        /\ userRoles' = [userRoles EXCEPT ![s] = NoRole]
        /\ wire' = [Sent(IF r = NoRoom THEN {} ELSE Recipients(roomOf, r, s),
                         UserList(UsersOf(left, r)))
                        EXCEPT ![s] = << >>]
        /\ view' = [view EXCEPT ![s] = BlankView]
        /\ UNCHANGED <<responsive, isAlive, roomOf, records, pending>>

-----------------------------------------------------------------------------
(* Entering a room.                                                        *)

\* createRoom takes eight digits of a fresh UUID: an id no room has had.
Unused_forNow(r) == roomState[r] # "live"
Unused(r) == roomState[r] = "unused"

\* CREATE_ROOM.  The record keeps no requireApproval.  A socket that was in
\* another room is not taken out of it first: its record is overwritten.
CreateRoom(s, r, k) ==
    /\ CanAct(s)
    /\ Unused(r)
    /\ roomState' = [roomState EXCEPT ![r] = "live"]
    /\ adminId' = [adminId EXCEPT ![r] = s]
    /\ securityKey' = [securityKey EXCEPT ![r] = k]
    /\ roomOf' = [roomOf EXCEPT ![s] = r]
    /\ users' = [users EXCEPT ![s] = r]
    /\ userRoles' = [userRoles EXCEPT ![s] = "host"]
    /\ wire' = Welcomed(s, r, UsersOf(users', r), roomOf', "host")
    /\ UNCHANGED <<sockets, idle, deactivation, pending, view>>

\* What JOIN_ROOM and REJOIN_ROOM check first.
MayJoin(s, r, k) == CanAct(s) /\ Live(r) /\ securityKey[r] = k

RolesOnJoin(s, r) == IF adminId[r] = s THEN {"host"} ELSE {"editor"} \cup Claims

\* JOIN_ROOM or REJOIN_ROOM by a socket that does not have to wait.
JoinRoom(s, r, k, role) ==
    /\ MayJoin(s, r, k) /\ role \in RolesOnJoin(s, r)
    /\ idle' = [idle EXCEPT ![r] = FALSE]
    /\ roomOf' = [roomOf EXCEPT ![s] = r]
    /\ users' = [users EXCEPT ![s] = r]
    /\ userRoles' = [userRoles EXCEPT ![s] = role]
    /\ wire' = Welcomed(s, r, UsersOf(users', r), roomOf', role)
    /\ UNCHANGED <<sockets, roomState, adminId, securityKey, deactivation, pending, view>>

\* The same with requireApproval in the joiner's message: it waits instead.
AskToJoin(s, r, k) ==
    /\ MayJoin(s, r, k) /\ adminId[r] # s
    /\ pending[r][s] < MaxPending
    /\ idle' = [idle EXCEPT ![r] = FALSE]
    /\ pending' = [pending EXCEPT ![r][s] = @ + 1]
    /\ UNCHANGED <<sockets, roomOf, roomState, adminId, securityKey, deactivation, users,
                   userRoles, wire, view>>

RemovePendingJoin_forgets(r, t) == pending
RemovePendingJoin(r, t) == [pending EXCEPT ![r][t] = @ - 1]

\* APPROVE_JOIN.  The record is written before the target is looked up, and
\* whether or not it is found.
ApproveJoin(s, t, role) ==
    LET r == roomOf[s]
    IN  /\ Admin(s)
        /\ pending[r][t] > 0
        /\ pending' = RemovePendingJoin(r, t)
        /\ idle' = [idle EXCEPT ![r] = FALSE]
        /\ users' = [users EXCEPT ![t] = r]
        /\ userRoles' = [userRoles EXCEPT ![t] = role]
        /\ roomOf' = IF Connected(t) THEN [roomOf EXCEPT ![t] = r] ELSE roomOf
        /\ wire' = Welcomed(t, r, UsersOf(users', r), roomOf', role)
        /\ UNCHANGED <<sockets, roomState, adminId, securityKey, deactivation, view>>

DenyJoin_unchecked(s, t) ==
    /\ Admin(s)
    /\ pending' = RemovePendingJoin(roomOf[s], t)
    /\ UNCHANGED <<sockets, roomOf, records, users, userRoles, wire, view>>

DenyJoin(s, t) ==
    /\ Admin(s)
    /\ pending[roomOf[s]][t] > 0
    /\ pending' = RemovePendingJoin(roomOf[s], t)
    /\ UNCHANGED <<sockets, roomOf, records, users, userRoles, wire, view>>

-----------------------------------------------------------------------------
(* In a room.                                                              *)

\* SET_ROLE, of any socket.  USER_ROLE_CHANGED, which also goes to the room, is
\* left off the wire: like other notices it changes nothing in a view.
SetRole(s, t, role) ==
    /\ Admin(s) /\ conn[t] # "new"
    /\ userRoles' = [userRoles EXCEPT ![t] = role]
    /\ wire' = Sent({u \in {t} : Open(u)}, RoleChanged(role))
    /\ UNCHANGED <<sockets, roomOf, records, users, pending, view>>

Touched(r) == IF Live(r) THEN [idle EXCEPT ![r] = FALSE] ELSE idle

\* A relayed message to everybody else bound to the room.
Relay(s) ==
    /\ InRoom(s)
    /\ idle' = Touched(roomOf[s])
    /\ wire' = Sent(Recipients(roomOf, roomOf[s], s), Relayed(roomOf[s]))
    /\ UNCHANGED <<sockets, roomOf, roomState, adminId, securityKey, deactivation, users,
                   userRoles, pending, view>>

\* A relayed message with a target: sendToSocket, whatever room that is in.
RelayTo(s, t) ==
    /\ InRoom(s) /\ Open(t)
    /\ idle' = Touched(roomOf[s])
    /\ wire' = Sent({t}, Direct(roomOf[s]))
    /\ UNCHANGED <<sockets, roomOf, roomState, adminId, securityKey, deactivation, users,
                   userRoles, pending, view>>

DeactivateRoom(s) ==
    /\ Admin(s)
    /\ deactivation' = [deactivation EXCEPT ![roomOf[s]] = "running"]
    /\ idle' = [idle EXCEPT ![roomOf[s]] = FALSE]
    /\ UNCHANGED <<sockets, roomOf, roomState, adminId, securityKey, users, userRoles,
                   pending, wire, view>>

CancelDeactivation(s) ==
    /\ Admin(s)
    /\ deactivation' = [deactivation EXCEPT ![roomOf[s]] = "none"]
    /\ idle' = [idle EXCEPT ![roomOf[s]] = FALSE]
    /\ UNCHANGED <<sockets, roomOf, roomState, adminId, securityKey, users, userRoles,
                   pending, wire, view>>

RotateKey(s, k) ==
    /\ Admin(s)
    /\ securityKey' = [securityKey EXCEPT ![roomOf[s]] = k]
    /\ idle' = [idle EXCEPT ![roomOf[s]] = FALSE]
    /\ UNCHANGED <<sockets, roomOf, roomState, adminId, deactivation, users, userRoles,
                   pending, wire, view>>

-----------------------------------------------------------------------------
(* Time and the cleanup timer.                                             *)

RoomGoesIdle(r) ==
    /\ Live(r) /\ ~idle[r]
    /\ idle' = [idle EXCEPT ![r] = TRUE]
    /\ UNCHANGED <<sockets, roomOf, roomState, adminId, securityKey, deactivation, users,
                   userRoles, pending, wire, view>>

DeadlinePasses(r) ==
    /\ Live(r) /\ deactivation[r] = "running"
    /\ deactivation' = [deactivation EXCEPT ![r] = "due"]
    /\ UNCHANGED <<sockets, roomOf, roomState, adminId, securityKey, idle, users,
                   userRoles, pending, wire, view>>

Expired_idleOnly == {r \in Room : Live(r) /\ idle[r]}
Expired == {r \in Room : Live(r) /\ (idle[r] \/ deactivation[r] = "due")}

\* What deleteRoom and, after the broadcast, resetRoomBindings leave.
Surviving(f, none) == [r \in Room |-> IF r \in Expired THEN none ELSE f[r]]
PendingLeft_all == pending
PendingLeft == Surviving(pending, [s \in Socket |-> 0])
UsersLeft == [s \in Socket |-> IF users[s] \in Expired THEN NoRoom ELSE users[s]]
BindingsLeft_all == roomOf
BindingsLeft ==
    [s \in Socket |->
        IF Connected(s) /\ roomOf[s] \in Expired THEN NoRoom ELSE roomOf[s]]

\* Bindings are reset after the broadcast, which goes by them.
ToldOfTheEnd_afterReset == {s \in Socket : Open(s) /\ BindingsLeft[s] \in Expired}
ToldOfTheEnd == {s \in Socket : Open(s) /\ roomOf[s] \in Expired}

\* processRoomCleanup: the inactive rooms, then the expired deactivations.
Cleanup ==
    /\ Expired # {}
    /\ roomState' = Surviving(roomState, "deleted")
    /\ adminId' = Surviving(adminId, NoSocket)
    /\ securityKey' = Surviving(securityKey, NoKey)
    /\ idle' = Surviving(idle, FALSE)
    /\ deactivation' = Surviving(deactivation, "none")
    /\ pending' = PendingLeft
    /\ users' = UsersLeft
    /\ wire' = Sent(ToldOfTheEnd, Terminated)
    /\ roomOf' = BindingsLeft
    /\ UNCHANGED <<sockets, userRoles, view>>

-----------------------------------------------------------------------------
(* The client's end of the wire: SocketManager.handleIncoming, which has a *)
(* branch for neither ROLE_CHANGED nor USER_ROLE_CHANGED.                  *)

AfterMessage(v, m) ==
    CASE m.type = "JOIN_RESULT" ->
            [room |-> m.room, participants |-> m.users, role |-> m.role]
      [] m.type = "USER_LIST" -> [v EXCEPT !.participants = m.users]
      [] m.type = "ROOM_TERMINATED" -> [v EXCEPT !.room = NoRoom, !.participants = {}]
      [] OTHER -> v

Deliver(s) ==
    /\ Connected(s) /\ responsive[s] /\ wire[s] # << >>
    /\ view' = [view EXCEPT ![s] = AfterMessage(@, Head(wire[s]))]
    /\ wire' = [wire EXCEPT ![s] = Tail(@)]
    /\ UNCHANGED <<sockets, roomOf, records, users, userRoles, pending>>

-----------------------------------------------------------------------------
Connection(s) ==
    Connect(s) \/ ClientClose(s) \/ ClientDies(s) \/ Pong(s) \/ SocketClosed(s)

Entering(s) ==
    \/ \E r \in Room, k \in Key : CreateRoom(s, r, k) \/ AskToJoin(s, r, k)
    \/ \E r \in Room, k \in Key, role \in Role : JoinRoom(s, r, k, role)
    \/ \E t \in Socket, role \in Grants : ApproveJoin(s, t, role)
    \/ \E t \in Socket : DenyJoin(s, t)

Acting(s) ==
    \/ \E t \in Socket, role \in Grants : SetRole(s, t, role)
    \/ \E t \in Socket \ {s} : RelayTo(s, t)
    \/ Relay(s) \/ DeactivateRoom(s) \/ CancelDeactivation(s)
    \/ \E k \in Key : RotateKey(s, k)

Next ==
    \/ \E s \in Socket : Connection(s) \/ Entering(s) \/ Acting(s) \/ Deliver(s)
    \/ \E r \in Room : RoomGoesIdle(r) \/ DeadlinePasses(r)
    \/ Heartbeat
    \/ Cleanup

Spec == Init /\ [][Next]_vars

\* The two setInterval timers, the close event of a socket that is closing,
\* and a responsive client reading what was sent to it.
Fairness ==
    /\ WF_vars(Heartbeat)
    /\ WF_vars(Cleanup)
    /\ \A s \in Socket : WF_vars(SocketClosed(s)) /\ WF_vars(Deliver(s))

FairSpec == Spec /\ Fairness

-----------------------------------------------------------------------------
(* Invariants.                                                             *)

\* The type invariant of the node, its store and its clients' views.
TypeOK ==
    /\ conn \in [Socket -> {"new", "open", "closing", "gone"}]
    /\ responsive \in [Socket -> BOOLEAN]
    /\ isAlive \in [Socket -> BOOLEAN]
    /\ roomOf \in [Socket -> Room \cup {NoRoom}]
    /\ roomState \in [Room -> {"unused", "live", "deleted"}]
    /\ adminId \in [Room -> Socket \cup {NoSocket}]
    /\ securityKey \in [Room -> Key \cup {NoKey}]
    /\ idle \in [Room -> BOOLEAN]
    /\ deactivation \in [Room -> {"none", "running", "due"}]
    /\ users \in [Socket -> Room \cup {NoRoom}]
    /\ userRoles \in [Socket -> Role \cup {NoRole}]
    /\ pending \in [Room -> [Socket -> Nat]]
    /\ wire \in [Socket -> Seq(Message)]
    /\ view \in [Socket -> View]

\* A socket of the node is bound to a room exactly when the store has its
\* user record in that room: broadcasts and participant lists agree, through
\* joins, room switches, approvals of sockets that are elsewhere, and the
\* deletion of rooms.
BindingMatchesRecord ==
    \A s \in Socket : Connected(s) => roomOf[s] = users[s]

\* Nobody is a user of a room that is gone, and nobody waits at its door:
\* deleting a room takes its users and its pending joins with it.
OnlyLiveRoomsHavePeople ==
    \A s \in Socket :
        /\ users[s] # NoRoom => Live(users[s])
        /\ \A r \in Room : pending[r][s] > 0 => Live(r)

\* getUserRole's default is never what a participant list shows.
EveryUserHasRole == \A s \in Socket : users[s] # NoRoom => userRoles[s] # NoRole

\* Nothing is known of a socket before it connects.
NewSocketsAreBlank ==
    \A s \in Socket : conn[s] = "new" =>
        /\ roomOf[s] = NoRoom /\ users[s] = NoRoom /\ userRoles[s] = NoRole
        /\ \A r \in Room : pending[r][s] = 0

Drained(s) == Open(s) /\ wire[s] = << >>

\* A client that has read everything sent to it is in the room the server
\* has it in, or in none when the server has it in none.
DrainedClientKnowsItsRoom == \A s \in Socket : Drained(s) => view[s].room = roomOf[s]

\* ... and it lists every user of its room.  (It may still list one who moved
\* to another room: a switch announces nothing to the room left behind.)
DrainedClientKnowsItsPeers ==
    \A s \in Socket : Drained(s) /\ roomOf[s] # NoRoom =>
        UsersOf(users, roomOf[s]) \subseteq view[s].participants

Moves(m) == m.type \in {"JOIN_RESULT", "ROOM_TERMINATED"}

MovesTo(m, r) ==
    \/ m.type = "JOIN_RESULT" /\ m.room = r
    \/ m.type = "ROOM_TERMINATED" /\ r = NoRoom

\* A client that is in room "here" is in r once it has processed the first n
\* frames of q: the last of them that moves it moves it there.
RoomAfter(here, q, n, r) ==
    \/ here = r /\ \A j \in 1 .. n : ~Moves(q[j])
    \/ \E j \in 1 .. n : MovesTo(q[j], r) /\ \A k \in j + 1 .. n : ~Moves(q[k])

\* An edit, a chat line or a cursor relayed to a room is processed by a client
\* that is, by then, in that room: a client that switches rooms, is moved by an
\* approval or loses its room never applies what was meant for the old one.
RelaysReachTheirRoom ==
    \A s \in Socket : \A i \in 1 .. Len(wire[s]) :
        wire[s][i].type = "RELAY" => RoomAfter(view[s].room, wire[s], i - 1, wire[s][i].room)

-----------------------------------------------------------------------------
(* Action and liveness properties.                                         *)

\* Once a socket's close event has removed its user, only an approval of a
\* request it still has waiting can write a record for it again.
OnlyApprovalRevivesGone ==
    [][\A s \in Socket :
        conn[s] = "gone" /\ users[s] = NoRoom /\ users'[s] # NoRoom
            => pending'[users'[s]][s] < pending[users'[s]][s]]_vars

\* A peer that died without a close frame is found out by the heartbeat and
\* its user record goes.
DeadPeerIsForgotten ==
    \A s \in Socket : Connected(s) /\ ~responsive[s] ~> conn[s] = "gone" /\ users[s] = NoRoom

\* A room past its TTL or its deadline does not stay so, and every client that was
\* in a deleted room learns it, for good.
ExpiredRoomEnds ==
    \A r \in Room :
        /\ idle[r] ~> ~idle[r]
        /\ deactivation[r] = "due" ~> deactivation[r] # "due"
        /\ roomState[r] = "deleted" ~>
               [](\A s \in Socket : Open(s) /\ responsive[s] => view[s].room # r)

-----------------------------------------------------------------------------
(* The node implements RoomMembership: its store's user records are the    *)
(* membership, its rooms' records the phases.                              *)

Membership == INSTANCE RoomMembership WITH phase <- roomState, member <- users

\* Whatever arrives, and whichever timers fire, rooms open and close once,
\* users enter only open rooms and leave with the room or one by one.
KeepsMembership == Membership!Spec

=============================================================================
