----------------------------- MODULE RedisRooms -----------------------------
(***************************************************************************)
(* Rooms with REDIS_URL set: several pods over one Redis.  Each store call *)
(* of a handler is an await, so handlers interleave, within a pod and      *)
(* across pods.  A pod has one connection for its store calls: its         *)
(* commands are executed in the order of the calls and answered in that    *)
(* order, which is the order its handlers go on in.  A command is executed *)
(* here when it is called: until then only the pod itself, which sends     *)
(* everything after it on the same connection, could tell the difference.  *)
(* A client makes of what it is sent what it reads last, and nothing it    *)
(* does depends on it: frames are handed over as they are sent.  Left out  *)
(* are the host's requests (approvals, roles, keys, deactivation), which   *)
(* write other fields of a room, and joins with a wrong key.               *)
(***************************************************************************)
EXTENDS Integers, Sequences, FiniteSets, Functions

CONSTANTS
    Pod, Socket, Room, NoRoom,
    PodOf,       \* the pod a socket is connected to
    MaxReplies,  \* bound: work comes in only while fewer handlers wait for a reply
    MaxEvents    \* bound: a pod publishes only while fewer events wait at the others

ASSUME NoRoomAssumption == NoRoom \notin Room
ASSUME PodAssumption == PodOf \in [Socket -> Pod]
ASSUME BoundAssumption == MaxReplies \in Nat /\ MaxEvents \in Nat

VARIABLES
    \* Redis
    hash,        \* room:<id>, a hash: "unused", "full", "deleted", or "partial"
    members,     \* room:<id>:users, a set
    user,        \* user:<id>, the room in it, NoRoom when there is no such key
    \* the pods
    conn,        \* "new", "open", "gone" (its close event has run)
    bound,       \* socket.roomId
    replies,     \* handlers waiting for a reply, in the order of the replies
    ending,      \* rooms whose end is broadcast, the bindings still to be reset
    bus,         \* events published by other pods and not yet handled
    \* the clients
    view         \* the participant list a client was sent last

store == <<hash, members, user>>
vars == <<store, conn, bound, replies, ending, bus, view>>

\* What a handler goes on to do with its reply: for a socket, for one that closed,
\* or to end a room.  "list" and "answer" come after the two halves of getRoomUsers.
SocketReply ==
    [step : {"join", "enter", "added", "left", "list", "answer"},
     socket : Socket, room : Room, why : {"created", "joined", "left"}, ids : SUBSET Socket]
CloseReply ==
    [step : {"leave"},
     socket : Socket, room : Room \cup {NoRoom}, why : {"left"}, ids : SUBSET Socket]
CleanupReply ==
    [step : {"expired", "delete", "deleted"}, room : Room, ids : SUBSET Socket]
Reply == SocketReply \cup CloseReply \cup CleanupReply

Event ==
    [type : {"USERS"}, room : Room, sender : Socket, ids : SUBSET Socket]
        \cup [type : {"ROOM_TERMINATED"}, room : Room]

Init ==
    /\ hash = [r \in Room |-> "unused"]
    /\ members = [r \in Room |-> {}]
    /\ user = [s \in Socket |-> NoRoom]
    /\ conn = [s \in Socket |-> "new"]
    /\ bound = [s \in Socket |-> NoRoom]
    /\ replies = [p \in Pod |-> << >>]
    /\ ending = [p \in Pod |-> {}]
    /\ bus = [p \in Pod |-> << >>]
    /\ view = [s \in Socket |-> {}]

-----------------------------------------------------------------------------
(* Redis commands.                                                         *)

\* (A definition named X_... is X with a bug put in, for the mutation runs; no
\* other definition uses it.)

Found(r) == hash[r] = "full"      \* deserializeRoom wants the field roomId

Touched_restores(r) == [hash EXCEPT ![r] = "full"]

\* HSET of lastActivity: makes a hash of that field alone where there is none.
Touched(r) == [hash EXCEPT ![r] = IF @ = "deleted" THEN "partial" ELSE @]

AddUser_swapped(s, r) ==
    /\ user' = [user EXCEPT ![s] = s]
    /\ members' = [members EXCEPT ![r] = @ \cup {s}]
    /\ hash' = Touched(r)
\* addUser.  The set of the room the socket was in before is left as it is.
AddUser(s, r) ==
    /\ user' = [user EXCEPT ![s] = r]
    /\ members' = [members EXCEPT ![r] = @ \cup {s}]
    /\ hash' = Touched(r)

RemoveUser_setOnly(s, r) ==
    /\ members' = [members EXCEPT ![r] = @ \ {s}]
    /\ UNCHANGED <<hash, user>>
\* removeUser, with the room read before.
RemoveUser(s, r) ==
    /\ user' = [user EXCEPT ![s] = NoRoom]
    /\ members' = [members EXCEPT ![r] = @ \ {s}]
    /\ UNCHANGED hash

\* deleteRoom, with the ids read before: whatever room these users are in now.
DeleteRoom(r, ids) ==
    /\ user' = [s \in Socket |-> IF s \in ids THEN NoRoom ELSE user[s]]
    /\ members' = [members EXCEPT ![r] = {}]
    /\ hash' = [hash EXCEPT ![r] = "deleted"]

\* The second half of getRoomUsers.
Present(ids) == {s \in ids : user[s] # NoRoom}

-----------------------------------------------------------------------------
(* The pods.                                                               *)

Open(s) == conn[s] = "open"
Connect(s) ==
    /\ conn[s] = "new" /\ conn' = [conn EXCEPT ![s] = "open"]
    /\ UNCHANGED <<store, bound, replies, ending, bus, view>>

Waiting == FoldFunctionOnSet(LAMBDA q, n : Len(q) + n, 0, replies, Pod)

\* The first call of a new handler; the next call of the handler at the head.
Calls(p, c) ==
    /\ Waiting < MaxReplies
    /\ replies' = [replies EXCEPT ![p] = Append(@, c)]
CallsNext(p, c) == replies' = [replies EXCEPT ![p] = Append(Tail(@), c)]
Ends(p) == replies' = [replies EXCEPT ![p] = Tail(@)]

Handler(step, s, r, why) ==
    [step |-> step, socket |-> s, room |-> r, why |-> why, ids |-> {}]

\* CREATE_ROOM: createRoom, with an id no room has had.
CreateRoom(s, r) ==
    /\ Open(s) /\ hash[r] = "unused"
    /\ hash' = [hash EXCEPT ![r] = "full"]
    /\ Calls(PodOf[s], Handler("enter", s, r, "created"))
    /\ UNCHANGED <<members, user, conn, bound, ending, bus, view>>

\* The id of a room is told by ROOM_CREATED, which ends the handler.
Announced(r) ==
    \A p \in Pod : \A i \in DOMAIN replies[p] :
        LET c == replies[p][i] IN c.room = r /\ "why" \in DOMAIN c => c.why # "created"

\* JOIN_ROOM, REJOIN_ROOM: getRoom, which finds the room, with the right key.
JoinRoom(s, r) ==
    /\ Open(s) /\ Found(r) /\ Announced(r)
    /\ Calls(PodOf[s], Handler("join", s, r, "joined"))
    /\ UNCHANGED <<store, conn, bound, ending, bus, view>>

\* relayRoomMessage records activity; nothing else it does is seen here.
Relay(s) ==
    /\ Open(s) /\ bound[s] # NoRoom
    /\ hash' = Touched(bound[s])
    /\ UNCHANGED <<members, user, conn, bound, replies, ending, bus, view>>

\* The close event: removeUser reads the user first.  No client is left to see a list.
SocketClosed(s) ==
    /\ Open(s)
    /\ conn' = [conn EXCEPT ![s] = "gone"]
    /\ Calls(PodOf[s], Handler("leave", s, user[s], "left"))
    /\ view' = [view EXCEPT ![s] = {}]
    /\ UNCHANGED <<store, bound, ending, bus>>

\* The cleanup timer of any pod: it reads a room that has expired.  (Of several
\* it deletes one after the other and tells of their end after that.)
Cleanup(p, r) ==
    /\ Found(r)
    /\ Calls(p, [step |-> "expired", room |-> r, ids |-> {}])
    /\ UNCHANGED <<store, conn, bound, ending, bus, view>>

-----------------------------------------------------------------------------
(* A reply arrives and its handler goes on.                                *)

Resumes(p, step) == replies[p] # << >> /\ Head(replies[p]).step = step

\* joinRoom found the room: updateActivity.
Join(p) ==
    LET c == Head(replies[p])
    IN  /\ Resumes(p, "join")
        /\ hash' = Touched(c.room)
        /\ CallsNext(p, [c EXCEPT !.step = "enter"])
        /\ UNCHANGED <<members, user, conn, bound, ending, bus, view>>

\* The socket is bound, open or not, and its user added.
Enter(p) ==
    LET c == Head(replies[p])
    IN  /\ Resumes(p, "enter")
        /\ bound' = [bound EXCEPT ![c.socket] = c.room]
        /\ AddUser(c.socket, c.room)
        /\ CallsNext(p, [c EXCEPT !.step = "added"])
        /\ UNCHANGED <<conn, ending, bus, view>>

\* listUsers, first half: the ids, for a socket that joined or left.
ReadIds(p, step) ==
    LET c == Head(replies[p])
    IN  /\ Resumes(p, step)
        /\ CallsNext(p, [c EXCEPT !.step = "list", !.ids = members[c.room]])
        /\ UNCHANGED <<store, conn, bound, ending, bus, view>>

\* ... and second half: the users of these ids.
ReadUsers(p) ==
    LET c == Head(replies[p])
    IN  /\ Resumes(p, "list") /\ c.ids # {}
        /\ CallsNext(p, [c EXCEPT !.step = "answer", !.ids = Present(c.ids)])
        /\ UNCHANGED <<store, conn, bound, ending, bus, view>>

\* Sockets of p a broadcast reaches.
Reached(p, r, sender) ==
    {s \in Socket : PodOf[s] = p /\ Open(s) /\ bound[s] = r /\ s # sender}

Publishes(p, e) ==
    /\ \A q \in Pod \ {p} : Len(bus[q]) < MaxEvents
    /\ bus' = [q \in Pod |-> IF q = p THEN bus[q] ELSE Append(bus[q], e)]

Told_othersOnly(p, c) == Reached(p, c.room, c.socket)
\* Who reads the list right away: the others in the room, and one that came.
Told(p, c) ==
    Reached(p, c.room, c.socket)
        \cup {s \in {c.socket} : c.why # "left" /\ Open(s)}

\* The answer and the broadcast.  Without ids there was no second half.  (A
\* creator waits for the room count as well; nobody can have joined by then.)
SendUsers(p) ==
    LET c == Head(replies[p])
    IN  /\ Resumes(p, "answer") \/ (Resumes(p, "list") /\ c.ids = {})
        /\ view' = [s \in Socket |-> IF s \in Told(p, c) THEN c.ids ELSE view[s]]
        /\ Publishes(p, [type |-> "USERS", room |-> c.room,
                         sender |-> c.socket, ids |-> c.ids])
        /\ Ends(p)
        /\ UNCHANGED <<store, conn, bound, ending>>

\* removeUser goes on when there was a user.
Leave(p) ==
    LET c == Head(replies[p])
    IN  /\ Resumes(p, "leave")
        /\ \/ /\ c.room # NoRoom
              /\ RemoveUser(c.socket, c.room)
              /\ CallsNext(p, [c EXCEPT !.step = "left"])
           \/ c.room = NoRoom /\ Ends(p) /\ UNCHANGED store
        /\ UNCHANGED <<conn, bound, ending, bus, view>>

\* deleteRoom reads the ids, whatever has become of the room meanwhile ...
Expire(p) ==
    LET c == Head(replies[p])
    IN  /\ Resumes(p, "expired")
        /\ CallsNext(p, [c EXCEPT !.step = "delete", !.ids = members[c.room]])
        /\ UNCHANGED <<store, conn, bound, ending, bus, view>>

\* ... and deletes the keys.
Delete(p) ==
    LET c == Head(replies[p])
    IN  /\ Resumes(p, "delete")
        /\ DeleteRoom(c.room, c.ids)
        /\ CallsNext(p, [c EXCEPT !.step = "deleted", !.ids = {}])
        /\ UNCHANGED <<conn, bound, ending, bus, view>>

\* Without a room there is no list of participants.
Closed(p, r) == [s \in Socket |-> IF s \in Reached(p, r, NoRoom) THEN {} ELSE view[s]]

\* ROOM_TERMINATED is broadcast and published.
Deleted(p) ==
    LET c == Head(replies[p])
    IN  /\ Resumes(p, "deleted")
        /\ view' = Closed(p, c.room)
        /\ Publishes(p, [type |-> "ROOM_TERMINATED", room |-> c.room])
        /\ ending' = [ending EXCEPT ![p] = @ \cup {c.room}]
        /\ Ends(p)
        /\ UNCHANGED <<store, conn, bound>>

Unbound(p, r) ==
    [s \in Socket |-> IF PodOf[s] = p /\ bound[s] = r /\ conn[s] # "gone"
                      THEN NoRoom ELSE bound[s]]

\* The reply to the publish, on a connection of its own: resetRoomBindings.
ResetBindings(p, r) ==
    /\ r \in ending[p]
    /\ ending' = [ending EXCEPT ![p] = @ \ {r}]
    /\ bound' = Unbound(p, r)
    /\ UNCHANGED <<store, conn, replies, bus, view>>

\* An event of another pod.
Hear(p) ==
    LET e == Head(bus[p])
    IN  /\ bus[p] # << >>
        /\ bus' = [bus EXCEPT ![p] = Tail(@)]
        /\ \/ /\ e.type = "USERS"
              /\ view' = [s \in Socket |->
                              IF s \in Reached(p, e.room, e.sender) THEN e.ids ELSE view[s]]
              /\ UNCHANGED bound
           \/ /\ e.type = "ROOM_TERMINATED"
              /\ view' = Closed(p, e.room)
              /\ bound' = Unbound(p, e.room)
        /\ UNCHANGED <<store, conn, replies, ending>>

-----------------------------------------------------------------------------
Arrive ==
    \/ \E s \in Socket : Connect(s) \/ Relay(s) \/ SocketClosed(s)
    \/ \E s \in Socket, r \in Room : CreateRoom(s, r) \/ JoinRoom(s, r)
    \/ \E p \in Pod, r \in Room : Cleanup(p, r)

Resume(p) ==
    \/ Join(p) \/ Enter(p)
    \/ ReadIds(p, "added") \/ ReadIds(p, "left") \/ ReadUsers(p) \/ SendUsers(p)
    \/ Leave(p) \/ Expire(p) \/ Delete(p) \/ Deleted(p) \/ Hear(p)
    \/ \E r \in Room : ResetBindings(p, r)

Next == Arrive \/ \E p \in Pod : Resume(p)

Spec == Init /\ [][Next]_vars

-----------------------------------------------------------------------------
(* Properties.                                                             *)

\* The type invariant of Redis, the pods and their clients.
TypeOK ==
    /\ hash \in [Room -> {"unused", "full", "deleted", "partial"}]
    /\ members \in [Room -> SUBSET Socket]
    /\ user \in [Socket -> Room \cup {NoRoom}]
    /\ conn \in [Socket -> {"new", "open", "gone"}]
    /\ bound \in [Socket -> Room \cup {NoRoom}]
    /\ replies \in [Pod -> Seq(Reply)]
    /\ ending \in [Pod -> SUBSET Room]
    /\ bus \in [Pod -> Seq(Event)]
    /\ view \in [Socket -> SUBSET Socket]

Settled == \A p \in Pod : replies[p] = << >> /\ ending[p] = {} /\ bus[p] = << >>

In(s, r) == Open(s) /\ bound[s] = r /\ Found(r)
UsersOf(r) == {s \in Socket : user[s] = r}

\* docs/GITHUB-CODESPACES.md's "Both sides show 2 participants": once every handler
\* has ended, a client in a room that is there lists every user Redis has in it.
\* Two reads and an overlapping handler come between a join and its broadcast.
ClientsKnowTheirPeers ==
    Settled => \A s \in Socket, r \in Room : In(s, r) => UsersOf(r) \subseteq view[s]

\* That, as long as only one pod has had clients: with one pod the connection
\* puts the lists in the order of the reads, and nobody is left with an older one.
PeersOnOnePodAgree ==
    (\E p \in Pod : \A s \in Socket : conn[s] = "new" \/ PodOf[s] = p) => ClientsKnowTheirPeers

\* A user of a room that is there is in the set of the room, from which lists are
\* made, although it is deleted and left on what was read before others wrote.
UsersAreInTheirSets == \A r \in Room : Found(r) => UsersOf(r) \subseteq members[r]

\* A deleted room stays so, although activity is recorded without a look.
DeletedRoomsStayDeleted ==
    [][\A r \in Room : hash[r] \in {"deleted", "partial"} => hash'[r] # "full"]_vars

=============================================================================
