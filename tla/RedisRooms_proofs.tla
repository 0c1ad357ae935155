-------------------------- MODULE RedisRooms_proofs --------------------------
(***************************************************************************)
(* Theorems about RedisRooms for any pods, sockets, rooms and bounds, so   *)
(* for any number of handlers under way.                                   *)
(***************************************************************************)
EXTENDS RedisRooms, TLAPS

-----------------------------------------------------------------------------
(* What the handlers wait for.                                             *)

\* The step of a reply tells its kind.
LEMMA ReplyKinds ==
    ASSUME NEW c \in Reply
    PROVE  /\ c.step \in {"join", "enter", "added", "left", "list", "answer"} => c \in SocketReply
           /\ c.step = "leave" => c \in CloseReply
           /\ c.step \in {"expired", "delete", "deleted"} => c \in CleanupReply
  BY DEF Reply, SocketReply, CloseReply, CleanupReply

LEMMA HeadType ==
    ASSUME TypeOK, NEW p \in Pod, replies[p] # << >>
    PROVE  Head(replies[p]) \in Reply
  BY DEF TypeOK

LEMMA SeqGrows ==
    ASSUME NEW S, NEW q \in Seq(S), NEW x \in S
    PROVE  /\ Append(q, x) \in Seq(S)
           /\ q # << >> => Tail(q) \in Seq(S) /\ Append(Tail(q), x) \in Seq(S)
  OBVIOUS

LEMMA RepliesType ==
    ASSUME TypeOK, NEW p \in Pod, NEW c \in Reply
    PROVE  /\ Calls(p, c) => replies' \in [Pod -> Seq(Reply)]
           /\ replies[p] # << >> /\ CallsNext(p, c) => replies' \in [Pod -> Seq(Reply)]
           /\ replies[p] # << >> /\ Ends(p) => replies' \in [Pod -> Seq(Reply)]
  <1>1. replies[p] \in Seq(Reply) /\ replies \in [Pod -> Seq(Reply)]
    BY DEF TypeOK
  <1>2. Append(replies[p], c) \in Seq(Reply)
    BY <1>1, SeqGrows
  <1>3. replies[p] # << >> =>
            Tail(replies[p]) \in Seq(Reply) /\ Append(Tail(replies[p]), c) \in Seq(Reply)
    BY <1>1, SeqGrows
  <1> QED BY <1>1, <1>2, <1>3 DEF Calls, CallsNext, Ends

LEMMA BusType ==
    ASSUME TypeOK, NEW p \in Pod, NEW e \in Event
    PROVE  Publishes(p, e) => bus' \in [Pod -> Seq(Event)]
  <1>1. \A q \in Pod : bus[q] \in Seq(Event) /\ Append(bus[q], e) \in Seq(Event)
    BY SeqGrows DEF TypeOK
  <1> QED BY <1>1 DEF Publishes

LEMMA ViewType ==
    ASSUME TypeOK, NEW us \in SUBSET Socket, NEW T
    PROVE  [s \in Socket |-> IF s \in T THEN us ELSE view[s]] \in [Socket -> SUBSET Socket]
  BY DEF TypeOK

LEMMA StoreType ==
    ASSUME TypeOK, NEW s \in Socket, NEW r \in Room, NEW ids
    PROVE  LET Hashes == [Room -> {"unused", "full", "deleted", "partial"}]
               Members == [Room -> SUBSET Socket]
               Users == [Socket -> Room \cup {NoRoom}]
           IN  /\ Touched(r) \in Hashes
               /\ AddUser(s, r) => hash' \in Hashes /\ members' \in Members /\ user' \in Users
               /\ RemoveUser(s, r) => hash' = hash /\ members' \in Members /\ user' \in Users
               /\ DeleteRoom(r, ids) => hash' \in Hashes /\ members' \in Members /\ user' \in Users
  <1> DEFINE Hashes == [Room -> {"unused", "full", "deleted", "partial"}]
             Members == [Room -> SUBSET Socket]
             Users == [Socket -> Room \cup {NoRoom}]
  <1>1. Touched(r) \in Hashes
    BY DEF TypeOK, Touched
  <1>2. members[r] \in SUBSET Socket
    BY DEF TypeOK
  <1>3. \A m \in SUBSET Socket : [members EXCEPT ![r] = m] \in Members
    BY DEF TypeOK
  <1>4. \A x \in Room \cup {NoRoom} : [user EXCEPT ![s] = x] \in Users
    BY DEF TypeOK
  <1>5. AddUser(s, r) => hash' \in Hashes /\ members' \in Members /\ user' \in Users
    <2>1. members[r] \cup {s} \in SUBSET Socket
      BY <1>2
    <2> QED BY <1>1, <1>3, <1>4, <2>1 DEF AddUser
  <1>6. RemoveUser(s, r) => hash' = hash /\ members' \in Members /\ user' \in Users
    <2>1. members[r] \ {s} \in SUBSET Socket
      BY <1>2
    <2> QED BY <1>3, <1>4, <2>1 DEF RemoveUser
  <1>7. DeleteRoom(r, ids) => hash' \in Hashes /\ members' \in Members /\ user' \in Users
    <2>1. [hash EXCEPT ![r] = "deleted"] \in Hashes
      BY DEF TypeOK
    <2>2. [x \in Socket |-> IF x \in ids THEN NoRoom ELSE user[x]] \in Users
      BY DEF TypeOK
    <2> QED BY <1>3, <2>1, <2>2 DEF DeleteRoom
  <1> QED BY <1>1, <1>5, <1>6, <1>7

-----------------------------------------------------------------------------
(* Type correctness.                                                       *)

LEMMA TypeOKInit == Init => TypeOK
  BY DEF Init, TypeOK

LEMMA TypeOKArrive == TypeOK /\ Arrive => TypeOK'
  <1> SUFFICES ASSUME TypeOK, Arrive PROVE TypeOK'
    OBVIOUS
  <1>1. ASSUME NEW s \in Socket, Connect(s) PROVE TypeOK'
    BY <1>1 DEF Connect, store, TypeOK
  <1>2. ASSUME NEW s \in Socket, Relay(s) PROVE TypeOK'
    <2>1. bound[s] \in Room
      BY <1>2 DEF Relay, TypeOK
    <2> QED BY <1>2, <2>1, StoreType DEF Relay, TypeOK
  <1>3. ASSUME NEW s \in Socket, SocketClosed(s) PROVE TypeOK'
    <2>1. Handler("leave", s, user[s], "left") \in Reply
      BY DEF Handler, Reply, CloseReply, TypeOK
    <2>2. replies' \in [Pod -> Seq(Reply)]
      BY <1>3, <2>1, RepliesType, PodAssumption DEF SocketClosed
    <2> QED BY <1>3, <2>2 DEF SocketClosed, store, TypeOK
  <1>4. ASSUME NEW s \in Socket, NEW r \in Room, CreateRoom(s, r) PROVE TypeOK'
    <2>1. Handler("enter", s, r, "created") \in Reply
      BY DEF Handler, Reply, SocketReply
    <2>2. replies' \in [Pod -> Seq(Reply)]
      BY <1>4, <2>1, RepliesType, PodAssumption DEF CreateRoom
    <2> QED BY <1>4, <2>2 DEF CreateRoom, TypeOK
  <1>5. ASSUME NEW s \in Socket, NEW r \in Room, JoinRoom(s, r) PROVE TypeOK'
    <2>1. Handler("join", s, r, "joined") \in Reply
      BY DEF Handler, Reply, SocketReply
    <2>2. replies' \in [Pod -> Seq(Reply)]
      BY <1>5, <2>1, RepliesType, PodAssumption DEF JoinRoom
    <2> QED BY <1>5, <2>2 DEF JoinRoom, store, TypeOK
  <1>6. ASSUME NEW p \in Pod, NEW r \in Room, Cleanup(p, r) PROVE TypeOK'
    <2>1. [step |-> "expired", room |-> r, ids |-> {}] \in Reply
      BY DEF Reply, CleanupReply
    <2>2. replies' \in [Pod -> Seq(Reply)]
      BY <1>6, <2>1, RepliesType DEF Cleanup
    <2> QED BY <1>6, <2>2 DEF Cleanup, store, TypeOK
  <1> QED BY <1>1, <1>2, <1>3, <1>4, <1>5, <1>6 DEF Arrive

LEMMA NextReplies ==
    ASSUME NEW c \in SocketReply, NEW us \in SUBSET Socket,
           NEW st \in {"join", "enter", "added", "left", "list", "answer"}
    PROVE  [c EXCEPT !.step = st] \in Reply /\ [c EXCEPT !.step = st, !.ids = us] \in Reply
  BY DEF Reply, SocketReply

LEMMA NextCleanups ==
    ASSUME NEW c \in CleanupReply, NEW us \in SUBSET Socket, NEW st \in {"delete", "deleted"}
    PROVE  [c EXCEPT !.step = st] \in Reply /\ [c EXCEPT !.step = st, !.ids = us] \in Reply
  BY DEF Reply, CleanupReply

LEMMA TypeOKSocketReplies ==
    ASSUME TypeOK, NEW p \in Pod,
           Join(p) \/ Enter(p) \/ ReadIds(p, "added") \/ ReadIds(p, "left")
               \/ ReadUsers(p) \/ SendUsers(p)
    PROVE  TypeOK'
  <1> DEFINE c == Head(replies[p])
  <1>1. replies[p] # << >>
    BY DEF Join, Enter, ReadIds, ReadUsers, SendUsers, Resumes
  <1>2. c.step \in {"join", "enter", "added", "left", "list", "answer"}
    BY DEF Join, Enter, ReadIds, ReadUsers, SendUsers, Resumes
  <1>3. c \in SocketReply
    BY <1>1, <1>2, HeadType, ReplyKinds
  <1>4. c \in Reply /\ c.socket \in Socket /\ c.room \in Room /\ c.ids \in SUBSET Socket
    BY <1>3 DEF Reply, SocketReply
  <1>5. members[c.room] \in SUBSET Socket /\ Present(c.ids) \in SUBSET Socket
    BY <1>4 DEF TypeOK, Present
  <1>6. CASE Join(p)
    <2>1. replies' \in [Pod -> Seq(Reply)]
      BY <1>1, <1>3, <1>6, NextReplies, RepliesType DEF Join
    <2> QED BY <1>4, <1>6, <2>1, StoreType DEF Join, TypeOK
  <1>7. CASE Enter(p)
    <2>1. replies' \in [Pod -> Seq(Reply)]
      BY <1>1, <1>3, <1>7, NextReplies, RepliesType DEF Enter
    <2>2. AddUser(c.socket, c.room) /\ bound' = [bound EXCEPT ![c.socket] = c.room]
          /\ UNCHANGED <<conn, ending, bus, view>>
      BY <1>7 DEF Enter
    <2>3. /\ hash' \in [Room -> {"unused", "full", "deleted", "partial"}]
          /\ members' \in [Room -> SUBSET Socket]
          /\ user' \in [Socket -> Room \cup {NoRoom}]
      BY <1>4, <2>2, StoreType
    <2>4. bound' \in [Socket -> Room \cup {NoRoom}]
      BY <1>4, <2>2 DEF TypeOK
    <2> QED BY <2>1, <2>2, <2>3, <2>4 DEF TypeOK
  <1>8. CASE ReadIds(p, "added") \/ ReadIds(p, "left")
    <2>1. replies' \in [Pod -> Seq(Reply)]
      BY <1>1, <1>3, <1>5, <1>8, NextReplies, RepliesType DEF ReadIds
    <2> QED BY <1>8, <2>1 DEF ReadIds, TypeOK, store
  <1>9. CASE ReadUsers(p)
    <2>1. replies' \in [Pod -> Seq(Reply)]
      BY <1>1, <1>3, <1>5, <1>9, NextReplies, RepliesType DEF ReadUsers
    <2> QED BY <1>9, <2>1 DEF ReadUsers, TypeOK, store
  <1>10. CASE SendUsers(p)
    <2>1. replies' \in [Pod -> Seq(Reply)]
      BY <1>1, <1>4, <1>10, RepliesType DEF SendUsers
    <2>2. [type |-> "USERS", room |-> c.room, sender |-> c.socket, ids |-> c.ids] \in Event
      BY <1>4 DEF Event
    <2>3. bus' \in [Pod -> Seq(Event)]
      BY <1>10, <2>2, BusType DEF SendUsers
    <2>4. view' \in [Socket -> SUBSET Socket]
      BY <1>4, <1>10, ViewType DEF SendUsers
    <2> QED BY <1>10, <2>1, <2>3, <2>4 DEF SendUsers, TypeOK, store
  <1> QED BY <1>6, <1>7, <1>8, <1>9, <1>10

LEMMA TypeOKLeave ==
    ASSUME TypeOK, NEW p \in Pod, Leave(p) PROVE TypeOK'
  <1> DEFINE c == Head(replies[p])
  <1>1. replies[p] # << >> /\ c.step = "leave"
    BY DEF Leave, Resumes
  <1>2. c \in CloseReply
    BY <1>1, HeadType, ReplyKinds
  <1>3. CASE c.room # NoRoom
    <2>1. c.socket \in Socket /\ c.room \in Room /\ [c EXCEPT !.step = "left"] \in Reply
      BY <1>2, <1>3 DEF Reply, SocketReply, CloseReply
    <2>2. replies' \in [Pod -> Seq(Reply)]
      BY <1>1, <1>3, <2>1, RepliesType DEF Leave
    <2> QED BY <1>3, <2>1, <2>2, StoreType DEF Leave, TypeOK
  <1>4. CASE c.room = NoRoom
    <2>1. c \in Reply
      BY <1>2 DEF Reply
    <2>2. replies' \in [Pod -> Seq(Reply)]
      BY <1>1, <1>4, <2>1, RepliesType DEF Leave
    <2> QED BY <1>4, <2>2 DEF Leave, TypeOK, store
  <1> QED BY <1>3, <1>4

\* What resetting bindings and clearing lists return.
LEMMA TerminatedType ==
    ASSUME TypeOK, NEW p, NEW r
    PROVE  /\ Closed(p, r) \in [Socket -> SUBSET Socket]
           /\ Unbound(p, r) \in [Socket -> Room \cup {NoRoom}]
  BY DEF TypeOK, Closed, Unbound

LEMMA TypeOKCleanupReplies ==
    ASSUME TypeOK, NEW p \in Pod, Expire(p) \/ Delete(p) \/ Deleted(p) PROVE TypeOK'
  <1> DEFINE c == Head(replies[p])
  <1>1. replies[p] # << >> /\ c.step \in {"expired", "delete", "deleted"}
    BY DEF Expire, Delete, Deleted, Resumes
  <1>2. c \in CleanupReply
    BY <1>1, HeadType, ReplyKinds
  <1>3. c \in Reply /\ c.room \in Room
    BY <1>2 DEF Reply, CleanupReply
  <1>4. members[c.room] \in SUBSET Socket
    BY <1>3 DEF TypeOK
  <1>5. CASE Expire(p)
    <2>1. replies' \in [Pod -> Seq(Reply)]
      BY <1>1, <1>2, <1>4, <1>5, NextCleanups, RepliesType DEF Expire
    <2> QED BY <1>5, <2>1 DEF Expire, TypeOK, store
  <1>6. CASE Delete(p)
    <2>1. replies' \in [Pod -> Seq(Reply)]
      BY <1>1, <1>2, <1>6, NextCleanups, RepliesType DEF Delete
    <2>2. /\ hash' \in [Room -> {"unused", "full", "deleted", "partial"}]
          /\ members' \in [Room -> SUBSET Socket]
          /\ user' \in [Socket -> Room \cup {NoRoom}]
      <3>1. DeleteRoom(c.room, c.ids)
        BY <1>6 DEF Delete
      <3>2. CASE Socket = {}
        BY <1>3, <3>1, <3>2 DEF DeleteRoom, TypeOK
      <3>3. CASE \E s \in Socket : TRUE
        BY <1>3, <3>1, <3>3, StoreType
      <3> QED BY <3>2, <3>3
    <2> QED BY <1>6, <2>1, <2>2 DEF Delete, TypeOK
  <1>7. CASE Deleted(p)
    <2>1. replies' \in [Pod -> Seq(Reply)]
      BY <1>1, <1>3, <1>7, RepliesType DEF Deleted
    <2>2. [type |-> "ROOM_TERMINATED", room |-> c.room] \in Event
      BY <1>3 DEF Event
    <2>3. bus' \in [Pod -> Seq(Event)]
      BY <1>7, <2>2, BusType DEF Deleted
    <2>4. ending' \in [Pod -> SUBSET Room]
      BY <1>3, <1>7 DEF Deleted, TypeOK
    <2> QED BY <1>7, <2>1, <2>3, <2>4, TerminatedType DEF Deleted, TypeOK, store
  <1> QED BY <1>5, <1>6, <1>7

LEMMA TypeOKHear ==
    ASSUME TypeOK, NEW p \in Pod, Hear(p) PROVE TypeOK'
  <1> DEFINE e == Head(bus[p])
  <1>1. bus[p] \in Seq(Event) /\ bus[p] # << >>
    BY DEF Hear, TypeOK
  <1>2. e \in Event /\ Tail(bus[p]) \in Seq(Event)
    BY <1>1
  <1>3. bus' \in [Pod -> Seq(Event)]
    BY <1>2 DEF Hear, TypeOK
  <1>4. CASE e.type = "USERS"
    <2>1. e.ids \in SUBSET Socket
      BY <1>2, <1>4 DEF Event
    <2> DEFINE T == Reached(p, e.room, e.sender)
    <2>2. view' = [s \in Socket |-> IF s \in T THEN e.ids ELSE view[s]] /\ bound' = bound
      BY <1>4 DEF Hear
    <2> HIDE DEF T
    <2>3. view' \in [Socket -> SUBSET Socket]
      BY <2>1, <2>2, ViewType
    <2> QED BY <1>3, <2>2, <2>3 DEF Hear, TypeOK, store
  <1>5. CASE e.type = "ROOM_TERMINATED"
    BY <1>3, <1>5, TerminatedType DEF Hear, TypeOK, store
  <1> QED BY <1>4, <1>5 DEF Hear

LEMMA TypeOKNext == TypeOK /\ [Next]_vars => TypeOK'
  <1> SUFFICES ASSUME TypeOK, [Next]_vars PROVE TypeOK'
    OBVIOUS
  <1>1. CASE Arrive
    BY <1>1, TypeOKArrive
  <1>2. ASSUME NEW p \in Pod, Resume(p) PROVE TypeOK'
    <2>1. ASSUME NEW r \in Room, ResetBindings(p, r) PROVE TypeOK'
      BY <2>1, TerminatedType DEF ResetBindings, TypeOK, store
    <2> QED BY <1>2, <2>1, TypeOKSocketReplies, TypeOKLeave, TypeOKCleanupReplies,
               TypeOKHear DEF Resume
  <1>3. CASE UNCHANGED vars
    BY <1>3 DEF vars, store, TypeOK
  <1> QED BY <1>1, <1>2, <1>3 DEF Next

\* Every key, binding, event and waiting handler keeps its type, however many
\* handlers overlap.
THEOREM TypeCorrect == Spec => []TypeOK
  BY TypeOKInit, TypeOKNext, PTL DEF Spec

-----------------------------------------------------------------------------
(* Deleted rooms.                                                          *)

Undeleted(r) == hash[r] \in {"unused", "full"}

\* The commands that write a hash make none whole again, whatever was read before.
LEMMA HashStaysDeleted ==
    ASSUME TypeOK, NEW r \in Room, ~Undeleted(r), NEW q
    PROVE  /\ hash' = Touched(q) => ~Undeleted(r)'
           /\ \A ids : DeleteRoom(q, ids) => ~Undeleted(r)'
           /\ \A s \in Socket : AddUser(s, q) => ~Undeleted(r)'
  BY DEF TypeOK, Touched, DeleteRoom, AddUser, Undeleted

LEMMA DeletedNext ==
    ASSUME TypeOK, [Next]_vars, NEW r \in Room, ~Undeleted(r) PROVE ~Undeleted(r)'
  <1>1. CASE hash' = hash
    BY <1>1 DEF Undeleted
  <1>2. ASSUME NEW s \in Socket, Relay(s) PROVE ~Undeleted(r)'
    BY <1>2, HashStaysDeleted DEF Relay
  <1>3. ASSUME NEW s \in Socket, NEW q \in Room, CreateRoom(s, q) PROVE ~Undeleted(r)'
    BY <1>3 DEF CreateRoom, TypeOK, Undeleted
  <1>4. ASSUME NEW p \in Pod, Join(p) PROVE ~Undeleted(r)'
    BY <1>4, HashStaysDeleted DEF Join
  <1>5. ASSUME NEW p \in Pod, Enter(p) PROVE ~Undeleted(r)'
    BY <1>5, HashStaysDeleted DEF Enter, AddUser
  <1>6. ASSUME NEW p \in Pod, Delete(p) PROVE ~Undeleted(r)'
    BY <1>6, HashStaysDeleted DEF Delete
  <1>7. ASSUME NEW p \in Pod, Leave(p) PROVE hash' = hash
    BY <1>7 DEF Leave, RemoveUser, store
  <1>8. CASE Arrive
    BY <1>1, <1>2, <1>3, <1>8
       DEF Arrive, Connect, SocketClosed, JoinRoom, Cleanup, store
  <1>9. ASSUME NEW p \in Pod, Resume(p) PROVE ~Undeleted(r)'
    BY <1>1, <1>4, <1>5, <1>6, <1>7, <1>9
       DEF Resume, ReadIds, ReadUsers, SendUsers, Expire, Deleted, ResetBindings, Hear, store
  <1> QED BY <1>1, <1>8, <1>9 DEF Next, vars, store

\* No handler that read a room before its deletion, and goes on after it, brings
\* the room back: all it leaves is a hash without an id.
THEOREM DeletedRoomsStay == Spec => DeletedRoomsStayDeleted
  <1> DEFINE Stays == \A r \in Room : hash[r] \in {"deleted", "partial"} => hash'[r] # "full"
  <1>1. TypeOK /\ [Next]_vars => [Stays]_vars
    BY DeletedNext DEF Undeleted
  <1> QED BY <1>1, TypeCorrect, PTL DEF Spec, DeletedRoomsStayDeleted

-----------------------------------------------------------------------------
(* Users and sets.  A set may be written while its room is not there, so   *)
(* the invariant speaks of rooms that have not been deleted, not of rooms  *)
(* that can be found: a room just made must find its set in order.         *)

ListsInOrder ==
    \A r \in Room : hash[r] \in {"unused", "full"} => UsersOf(r) \subseteq members[r]

LEMMA ListsInOrderNext == TypeOK /\ ListsInOrder /\ [Next]_vars => ListsInOrder'
  <1> SUFFICES ASSUME TypeOK, ListsInOrder, [Next]_vars,
                      NEW r \in Room, hash'[r] \in {"unused", "full"},
                      NEW s \in Socket, user'[s] = r
               PROVE  s \in members'[r]
    BY DEF ListsInOrder, UsersOf
  <1>1. hash[r] \in {"unused", "full"} /\ user[s] = r => s \in members[r]
    BY DEF ListsInOrder, UsersOf
  <1>2. r # NoRoom
    BY NoRoomAssumption
  <1>3. \A q : Touched(q)[r] = hash[r] \/ Touched(q)[r] = "partial"
    BY DEF Touched, TypeOK
  <1>4. CASE UNCHANGED store
    BY <1>1, <1>4 DEF store
  <1>5. ASSUME NEW t \in Socket, Relay(t) PROVE s \in members'[r]
    BY <1>1, <1>3, <1>5 DEF Relay
  <1>6. ASSUME NEW t \in Socket, NEW q \in Room, CreateRoom(t, q) PROVE s \in members'[r]
    BY <1>1, <1>6 DEF CreateRoom, TypeOK
  <1>7. ASSUME NEW p \in Pod, Join(p) PROVE s \in members'[r]
    BY <1>1, <1>3, <1>7 DEF Join
  <1>8. ASSUME NEW p \in Pod, Enter(p) PROVE s \in members'[r]
    <2> DEFINE c == Head(replies[p])
    <2>1. user' = [user EXCEPT ![c.socket] = c.room] /\ hash' = Touched(c.room)
          /\ members' = [members EXCEPT ![c.room] = @ \cup {c.socket}]
      BY <1>8 DEF Enter, AddUser
    <2> HIDE DEF c
    <2>2. CASE s = c.socket
      BY <2>1, <2>2 DEF TypeOK
    <2>3. CASE s # c.socket
      BY <1>1, <1>3, <2>1, <2>3 DEF TypeOK
    <2> QED BY <2>2, <2>3
  <1>9. ASSUME NEW p \in Pod, Leave(p) PROVE s \in members'[r]
    <2> DEFINE c == Head(replies[p])
    <2>1. CASE c.room # NoRoom
      <3>1. user' = [user EXCEPT ![c.socket] = NoRoom] /\ hash' = hash
            /\ members' = [members EXCEPT ![c.room] = @ \ {c.socket}]
        BY <1>9, <2>1 DEF Leave, RemoveUser
      <3> HIDE DEF c
      <3>2. s # c.socket /\ user[s] = r
        BY <1>2, <3>1 DEF TypeOK
      <3> QED BY <1>1, <3>1, <3>2 DEF TypeOK
    <2>2. CASE c.room = NoRoom
      BY <1>4, <1>9, <2>2 DEF Leave
    <2> QED BY <2>1, <2>2
  <1>10. ASSUME NEW p \in Pod, Delete(p) PROVE s \in members'[r]
    <2> DEFINE c == Head(replies[p])
    <2>1. /\ user' = [t \in Socket |-> IF t \in c.ids THEN NoRoom ELSE user[t]]
          /\ members' = [members EXCEPT ![c.room] = {}]
          /\ hash' = [hash EXCEPT ![c.room] = "deleted"]
      BY <1>10 DEF Delete, DeleteRoom
    <2> HIDE DEF c
    <2>2. user[s] = r
      BY <1>2, <2>1
    <2>3. r # c.room
      BY <2>1 DEF TypeOK
    <2> QED BY <1>1, <2>1, <2>2, <2>3 DEF TypeOK
  <1>11. CASE Arrive
    BY <1>4, <1>5, <1>6, <1>11 DEF Arrive, Connect, SocketClosed, JoinRoom, Cleanup
  <1>12. ASSUME NEW p \in Pod, Resume(p) PROVE s \in members'[r]
    BY <1>4, <1>7, <1>8, <1>9, <1>10, <1>12
       DEF Resume, ReadIds, ReadUsers, SendUsers, Expire, Deleted, ResetBindings, Hear
  <1> QED BY <1>4, <1>11, <1>12 DEF Next, vars

\* The set a list is made from has every user of the room, for any pods that add,
\* remove and delete on what they read before.
THEOREM UsersAlwaysInTheirSets == Spec => []UsersAreInTheirSets
  <1>1. Init => ListsInOrder
    BY NoRoomAssumption DEF Init, ListsInOrder, UsersOf
  <1>2. ListsInOrder => UsersAreInTheirSets
    BY DEF ListsInOrder, UsersAreInTheirSets, Found
  <1> QED BY <1>1, <1>2, ListsInOrderNext, TypeCorrect, PTL DEF Spec

-----------------------------------------------------------------------------
(* Where work comes from.  A handler that serves a socket runs on the pod  *)
(* of that socket, one that clears up after a socket follows its close, an *)
(* event about a list comes from another pod, and the end of a room is     *)
(* told only of a room that was deleted.                                   *)

Expected(p) ==
    {c \in Reply :
        /\ c.step \notin {"expired", "delete", "deleted"} =>
               /\ PodOf[c.socket] = p /\ conn[c.socket] # "new"
               /\ c.step \in {"leave", "left"} \/ c.why = "left" => conn[c.socket] = "gone"
        /\ c.step = "deleted" => ~Undeleted(c.room)}

Foreign(p) ==
    {e \in Event :
        /\ e.type = "USERS" => PodOf[e.sender] # p /\ conn[e.sender] # "new"
        /\ e.type = "ROOM_TERMINATED" => ~Undeleted(e.room)}

WorkInOrder ==
    /\ \A p \in Pod : replies[p] \in Seq(Expected(p)) /\ bus[p] \in Seq(Foreign(p))
    /\ \A p \in Pod : \A r \in ending[p] : ~Undeleted(r)
    /\ \A s \in Socket : conn[s] = "new" => bound[s] = NoRoom

LEMMA SeqOfMore == ASSUME NEW S, NEW T, S \subseteq T, NEW q \in Seq(S) PROVE q \in Seq(T)
  OBVIOUS

\* What a pod has to do stays in order while sockets connect and close and rooms
\* are deleted.
LEMMA WorkStays ==
    ASSUME TypeOK, TypeOK', [Next]_vars
    PROVE  /\ \A s \in Socket : (conn[s] # "new" => conn'[s] # "new")
                                 /\ (conn[s] = "gone" => conn'[s] = "gone")
           /\ \A p \in Pod : Expected(p) \subseteq Expected(p)' /\ Foreign(p) \subseteq Foreign(p)'
  <1>1. ASSUME NEW s \in Socket
        PROVE  /\ conn[s] # "new" => conn'[s] # "new"
               /\ conn[s] = "gone" => conn'[s] = "gone"
    <2>1. \/ conn' = conn
          \/ \E t \in Socket : conn[t] = "new" /\ conn' = [conn EXCEPT ![t] = "open"]
          \/ \E t \in Socket : conn' = [conn EXCEPT ![t] = "gone"]
      BY DEF Next, Arrive, Resume, Connect, Relay, SocketClosed, CreateRoom, JoinRoom, Cleanup,
             Join, Enter, ReadIds, ReadUsers, SendUsers, Leave, Expire, Delete, Deleted, Hear,
             ResetBindings, vars
    <2> QED BY <2>1 DEF TypeOK
  <1>2. \A r \in Room : ~Undeleted(r) => ~Undeleted(r)'
    BY DeletedNext
  <1>3. ASSUME NEW p \in Pod, NEW c \in Expected(p) PROVE c \in Expected(p)'
    <2>1. c \in Reply
      BY DEF Expected
    <2>2. c.step \notin {"expired", "delete", "deleted"} => c.socket \in Socket
      BY <2>1 DEF Reply, SocketReply, CloseReply, CleanupReply
    <2>3. c.step = "deleted" => c.room \in Room
      BY <2>1 DEF Reply, SocketReply, CloseReply, CleanupReply
    <2> QED BY <1>1, <1>2, <2>1, <2>2, <2>3 DEF Expected
  <1>4. ASSUME NEW p \in Pod, NEW e \in Foreign(p) PROVE e \in Foreign(p)'
    <2>1. e \in Event
      BY DEF Foreign
    <2>2. /\ e.type = "USERS" => e.sender \in Socket
          /\ e.type = "ROOM_TERMINATED" => e.room \in Room
      BY <2>1 DEF Event
    <2> QED BY <1>1, <1>2, <2>1, <2>2 DEF Foreign
  <1> QED BY <1>1, <1>3, <1>4

\* The replies of a pod after one of its handlers went on, and those of the others.
LEMMA RepliesInOrder ==
    ASSUME TypeOK, WorkInOrder, \A q \in Pod : Expected(q) \subseteq Expected(q)',
           NEW p \in Pod,
           \/ replies' = replies
           \/ replies[p] # << >> /\ Ends(p)
           \/ \E c \in Expected(p)' : Calls(p, c) \/ (replies[p] # << >> /\ CallsNext(p, c))
    PROVE  \A q \in Pod : replies'[q] \in Seq(Expected(q)')
  <1> SUFFICES ASSUME NEW q \in Pod PROVE replies'[q] \in Seq(Expected(q)')
    OBVIOUS
  <1>1. replies[q] \in Seq(Expected(q)') /\ replies[p] \in Seq(Expected(p)')
    BY SeqOfMore DEF WorkInOrder
  <1>2. replies[p] # << >> => Tail(replies[p]) \in Seq(Expected(p)')
    BY <1>1
  <1>3. CASE replies' = replies
    BY <1>1, <1>3
  <1>4. CASE replies[p] # << >> /\ Ends(p)
    BY <1>1, <1>2, <1>4 DEF Ends, TypeOK
  <1>5. ASSUME NEW c \in Expected(p)', Calls(p, c) PROVE replies'[q] \in Seq(Expected(q)')
    <2>1. Append(replies[p], c) \in Seq(Expected(p)')
      BY <1>1, <1>5, SeqGrows
    <2> QED BY <1>1, <1>5, <2>1 DEF Calls, TypeOK
  <1>6. ASSUME NEW c \in Expected(p)', replies[p] # << >>, CallsNext(p, c)
        PROVE  replies'[q] \in Seq(Expected(q)')
    <2>1. Append(Tail(replies[p]), c) \in Seq(Expected(p)')
      BY <1>1, <1>6, SeqGrows
    <2> QED BY <1>1, <1>6, <2>1 DEF CallsNext, TypeOK
  <1> QED BY <1>3, <1>4, <1>5, <1>6

LEMMA BusInOrder ==
    ASSUME TypeOK, WorkInOrder, \A q \in Pod : Foreign(q) \subseteq Foreign(q)',
           NEW p \in Pod,
           \/ bus' = bus
           \/ bus[p] # << >> /\ bus' = [bus EXCEPT ![p] = Tail(@)]
           \/ \E e : Publishes(p, e) /\ \A q \in Pod \ {p} : e \in Foreign(q)'
    PROVE  \A q \in Pod : bus'[q] \in Seq(Foreign(q)')
  <1> SUFFICES ASSUME NEW q \in Pod PROVE bus'[q] \in Seq(Foreign(q)')
    OBVIOUS
  <1>1. bus[q] \in Seq(Foreign(q)')
    BY SeqOfMore DEF WorkInOrder
  <1>2. bus[q] # << >> => Tail(bus[q]) \in Seq(Foreign(q)')
    BY <1>1
  <1>3. CASE bus' = bus \/ (bus[p] # << >> /\ bus' = [bus EXCEPT ![p] = Tail(@)])
    BY <1>1, <1>2, <1>3 DEF TypeOK
  <1>4. ASSUME NEW e, Publishes(p, e), \A x \in Pod \ {p} : e \in Foreign(x)'
        PROVE  bus'[q] \in Seq(Foreign(q)')
    <2>1. q # p => Append(bus[q], e) \in Seq(Foreign(q)')
      BY <1>1, <1>4, SeqGrows
    <2> QED BY <1>1, <1>4, <2>1 DEF Publishes
  <1> QED BY <1>3, <1>4

\* The handler at the head.
LEMMA HeadExpected ==
    ASSUME WorkInOrder, NEW p \in Pod, replies[p] # << >>
    PROVE  Head(replies[p]) \in Expected(p)
  BY DEF WorkInOrder

\* Steps that begin a handler.
LEMMA ArriveInOrder ==
    ASSUME TypeOK, TypeOK', WorkInOrder, Arrive, Next PROVE WorkInOrder'
  <1>1. /\ \A s \in Socket : conn[s] # "new" => conn'[s] # "new"
        /\ \A p \in Pod : Expected(p) \subseteq Expected(p)' /\ Foreign(p) \subseteq Foreign(p)'
    BY WorkStays, Zenon
  <1>2. \A r \in Room : ~Undeleted(r) => ~Undeleted(r)'
    BY DeletedNext
  <1>3. /\ \A p \in Pod : \A r \in ending'[p] : ~Undeleted(r)'
        /\ \A s \in Socket : conn'[s] = "new" => bound'[s] = NoRoom
        /\ bus' = bus
    <2>1. UNCHANGED <<bound, ending, bus>>
      BY DEF Arrive, Connect, Relay, SocketClosed, CreateRoom, JoinRoom, Cleanup
    <2>2. \A p \in Pod : ending[p] \subseteq Room
      BY DEF TypeOK
    <2> QED BY <1>1, <1>2, <2>1, <2>2 DEF WorkInOrder
  <1>4. \A p \in Pod : bus'[p] \in Seq(Foreign(p)')
    BY <1>1, <1>3, BusInOrder
  <1>5. \A p \in Pod : replies'[p] \in Seq(Expected(p)')
    <2>1. ASSUME NEW s \in Socket, Connect(s) \/ Relay(s)
          PROVE  \A p \in Pod : replies'[p] \in Seq(Expected(p)')
      <3>1. replies' = replies /\ PodOf[s] \in Pod
        BY <2>1, PodAssumption DEF Connect, Relay
      <3> QED BY <1>1, <3>1, RepliesInOrder
    <2>2. ASSUME NEW s \in Socket, SocketClosed(s)
          PROVE  \A p \in Pod : replies'[p] \in Seq(Expected(p)')
      <3> DEFINE c == Handler("leave", s, user[s], "left")
      <3>1. c \in Reply /\ c.step = "leave" /\ c.socket = s /\ PodOf[s] \in Pod
        BY PodAssumption DEF Handler, Reply, CloseReply, TypeOK
      <3>2. conn'[s] = "gone" /\ Calls(PodOf[s], c)
        BY <2>2 DEF SocketClosed, TypeOK
      <3> HIDE DEF c
      <3>3. c \in Expected(PodOf[s])'
        BY <3>1, <3>2 DEF Expected
      <3> QED BY <1>1, <3>1, <3>2, <3>3, RepliesInOrder
    <2>3. ASSUME NEW s \in Socket, NEW r \in Room, CreateRoom(s, r) \/ JoinRoom(s, r)
          PROVE  \A p \in Pod : replies'[p] \in Seq(Expected(p)')
      <3>1. PICK st \in {"enter", "join"}, w \in {"created", "joined"} :
                Calls(PodOf[s], Handler(st, s, r, w))
        BY <2>3 DEF CreateRoom, JoinRoom
      <3> DEFINE c == Handler(st, s, r, w)
      <3>2. /\ c \in Reply /\ c.step = st /\ c.why = w /\ c.socket = s
            /\ PodOf[s] \in Pod /\ Calls(PodOf[s], c)
        BY <3>1, PodAssumption DEF Handler, Reply, SocketReply
      <3>3. conn'[s] # "new"
        BY <1>1, <2>3 DEF CreateRoom, JoinRoom, Open
      <3> HIDE DEF c
      <3>4. c \in Expected(PodOf[s])'
        BY <3>2, <3>3 DEF Expected
      <3> QED BY <1>1, <3>2, <3>4, RepliesInOrder
    <2>4. ASSUME NEW p \in Pod, NEW r \in Room, Cleanup(p, r)
          PROVE  \A q \in Pod : replies'[q] \in Seq(Expected(q)')
      <3> DEFINE c == [step |-> "expired", room |-> r, ids |-> {}]
      <3>1. c \in Reply /\ c.step = "expired" /\ Calls(p, c)
        BY <2>4 DEF Reply, CleanupReply, Cleanup
      <3> HIDE DEF c
      <3>2. c \in Expected(p)'
        BY <3>1 DEF Expected
      <3> QED BY <1>1, <3>1, <3>2, RepliesInOrder
    <2> QED BY <2>1, <2>2, <2>3, <2>4 DEF Arrive
  <1> QED BY <1>3, <1>4, <1>5 DEF WorkInOrder

\* Steps of a handler that serves a socket.
LEMMA SocketWorkInOrder ==
    ASSUME TypeOK, TypeOK', WorkInOrder, Next, NEW p \in Pod,
           \/ Join(p) \/ Enter(p) \/ ReadIds(p, "added") \/ ReadIds(p, "left")
           \/ ReadUsers(p) \/ SendUsers(p) \/ Leave(p)
    PROVE  WorkInOrder'
  <1> DEFINE c == Head(replies[p])
  <1>1. /\ \A s \in Socket : conn[s] # "new" => conn'[s] # "new"
        /\ \A q \in Pod : Expected(q) \subseteq Expected(q)' /\ Foreign(q) \subseteq Foreign(q)'
    BY WorkStays, Zenon
  <1>2. \A r \in Room : ~Undeleted(r) => ~Undeleted(r)'
    BY DeletedNext
  <1>3. /\ replies[p] # << >> /\ conn' = conn /\ ending' = ending
        /\ c.step \in {"join", "enter", "added", "left", "list", "answer", "leave"}
    BY DEF Join, Enter, ReadIds, ReadUsers, SendUsers, Leave, Resumes
  <1>4. c \in Expected(p) /\ c \in Reply
    BY <1>3, HeadExpected DEF Expected
  <1>5. /\ c.socket \in Socket /\ PodOf[c.socket] = p /\ conn[c.socket] # "new"
        /\ c.step \in {"leave", "left"} \/ c.why = "left" => conn[c.socket] = "gone"
    BY <1>3, <1>4 DEF Expected, Reply, SocketReply, CloseReply, CleanupReply
  <1>6. \A q \in Pod : \A r \in ending'[q] : ~Undeleted(r)'
    <2>1. \A q \in Pod : ending[q] \subseteq Room
      BY DEF TypeOK
    <2> QED BY <1>2, <1>3, <2>1 DEF WorkInOrder
  <1>7. \A s \in Socket : conn'[s] = "new" => bound'[s] = NoRoom
    <2>1. bound' = bound \/ bound' = [bound EXCEPT ![c.socket] = c.room]
      BY DEF Join, Enter, ReadIds, ReadUsers, SendUsers, Leave
    <2> QED BY <1>3, <1>5, <2>1 DEF WorkInOrder, TypeOK
  <1>8. \A q \in Pod : bus'[q] \in Seq(Foreign(q)')
    <2>1. CASE SendUsers(p)
      <3> DEFINE e == [type |-> "USERS", room |-> c.room, sender |-> c.socket, ids |-> c.ids]
      <3>1. Publishes(p, e) /\ c.step \in {"answer", "list"}
        BY <2>1 DEF SendUsers, Resumes
      <3>2. e \in Event
        BY <1>4, <3>1 DEF Event, Reply, SocketReply, CloseReply, CleanupReply
      <3>3. \A q \in Pod \ {p} : e \in Foreign(q)'
        BY <1>3, <1>5, <3>2 DEF Foreign
      <3> HIDE DEF e
      <3> QED BY <1>1, <3>1, <3>3, BusInOrder
    <2>2. CASE bus' = bus
      BY <1>1, <2>2, BusInOrder
    <2> QED BY <2>1, <2>2 DEF Join, Enter, ReadIds, ReadUsers, SendUsers, Leave
  <1>9. \A q \in Pod : replies'[q] \in Seq(Expected(q)')
    <2>1. ASSUME NEW d, CallsNext(p, d), d \in Reply, d.socket = c.socket, d.why = c.why,
                 d.step \notin {"leave", "expired", "delete", "deleted"},
                 d.step = "left" => c.why = "left"
          PROVE  \A q \in Pod : replies'[q] \in Seq(Expected(q)')
      <3>1. d \in Expected(p)'
        BY <1>3, <1>5, <2>1 DEF Expected
      <3> QED BY <1>1, <1>3, <2>1, <3>1, RepliesInOrder
    <2>2. ASSUME NEW st \in {"enter", "added", "list", "answer"}, NEW us \in SUBSET Socket,
                 c \in SocketReply,
                 CallsNext(p, [c EXCEPT !.step = st]) \/ CallsNext(p, [c EXCEPT !.step = st, !.ids = us])
          PROVE  \A q \in Pod : replies'[q] \in Seq(Expected(q)')
      <3>1. [c EXCEPT !.step = st] \in Reply /\ [c EXCEPT !.step = st, !.ids = us] \in Reply
        BY <2>2, NextReplies
      <3>2. PICK d : /\ CallsNext(p, d) /\ d \in Reply
                     /\ d = [c EXCEPT !.step = st] \/ d = [c EXCEPT !.step = st, !.ids = us]
        BY <2>2, <3>1
      <3>3. d.socket = c.socket /\ d.why = c.why /\ d.step = st
        BY <2>2, <3>2 DEF SocketReply
      <3> QED BY <2>1, <3>2, <3>3
    <2>3. CASE c \in SocketReply
      <3>1. members[c.room] \in SUBSET Socket /\ Present(c.ids) \in SUBSET Socket
            /\ {} \in SUBSET Socket
        BY <2>3 DEF SocketReply, TypeOK, Present
      <3>2. CASE Join(p) \/ Enter(p)
        BY <2>2, <2>3, <3>1, <3>2, Zenon DEF Join, Enter
      <3>3. CASE ReadIds(p, "added") \/ ReadIds(p, "left")
        BY <2>2, <2>3, <3>1, <3>3, Zenon DEF ReadIds
      <3>4. CASE ReadUsers(p)
        BY <2>2, <2>3, <3>1, <3>4, Zenon DEF ReadUsers
      <3>5. CASE SendUsers(p)
        BY <1>1, <1>3, <3>5, RepliesInOrder DEF SendUsers
      <3>6. CASE Leave(p)
        BY <2>3, <3>6 DEF Leave, Resumes, SocketReply
      <3> QED BY <3>2, <3>3, <3>4, <3>5, <3>6
    <2>4. CASE c \in CloseReply
      <3>1. Leave(p)
        BY <2>4 DEF CloseReply, Join, Enter, ReadIds, ReadUsers, SendUsers, Resumes
      <3>2. CASE c.room = NoRoom
        BY <1>1, <1>3, <3>1, <3>2, RepliesInOrder DEF Leave
      <3>3. CASE c.room # NoRoom
        <4> DEFINE d == [c EXCEPT !.step = "left"]
        <4>1. d \in Reply /\ d.socket = c.socket /\ d.why = c.why /\ c.why = "left" /\ d.step = "left"
          BY <2>4, <3>3 DEF Reply, SocketReply, CloseReply
        <4>2. CallsNext(p, d)
          BY <3>1, <3>3 DEF Leave
        <4> HIDE DEF d, c
        <4> QED BY <2>1, <4>1, <4>2
      <3> QED BY <3>2, <3>3
    <2> QED BY <1>3, <1>4, <2>3, <2>4, ReplyKinds
  <1> QED BY <1>6, <1>7, <1>8, <1>9 DEF WorkInOrder

\* Steps that end a room, and events.
LEMMA OtherWorkInOrder ==
    ASSUME TypeOK, TypeOK', WorkInOrder, Next, NEW p \in Pod,
           \/ Expire(p) \/ Delete(p) \/ Deleted(p) \/ Hear(p)
           \/ \E r \in Room : ResetBindings(p, r)
    PROVE  WorkInOrder'
  <1> DEFINE c == Head(replies[p])
  <1>1. \A q \in Pod : Expected(q) \subseteq Expected(q)' /\ Foreign(q) \subseteq Foreign(q)'
    BY WorkStays, Zenon
  <1>2. \A r \in Room : ~Undeleted(r) => ~Undeleted(r)'
    BY DeletedNext
  <1>3. conn' = conn /\ \A s \in Socket : bound'[s] \in {bound[s], NoRoom}
    BY DEF Expire, Delete, Deleted, Hear, ResetBindings, Unbound
  <1>4. \A s \in Socket : conn'[s] = "new" => bound'[s] = NoRoom
    BY <1>3 DEF WorkInOrder
  <1>5. ASSUME Expire(p) \/ Delete(p) \/ Deleted(p)
        PROVE  /\ replies[p] # << >> /\ c \in CleanupReply /\ c \in Expected(p)
               /\ c.room \in Room /\ members[c.room] \in SUBSET Socket
    <2>1. replies[p] # << >> /\ c.step \in {"expired", "delete", "deleted"}
      BY <1>5 DEF Expire, Delete, Deleted, Resumes
    <2>2. c \in CleanupReply
      BY <2>1, HeadType, ReplyKinds
    <2> QED BY <2>1, <2>2, HeadExpected DEF CleanupReply, TypeOK
  <1>6. \A q \in Pod : replies'[q] \in Seq(Expected(q)')
    <2>1. CASE Expire(p)
      <3> DEFINE d == [c EXCEPT !.step = "delete", !.ids = members[c.room]]
      <3>1. d \in Reply /\ d.step = "delete"
        BY <1>5, <2>1, NextCleanups DEF CleanupReply
      <3>2. CallsNext(p, d)
        BY <2>1 DEF Expire
      <3> HIDE DEF d
      <3>3. d \in Expected(p)'
        BY <3>1 DEF Expected
      <3> QED BY <1>1, <1>5, <2>1, <3>2, <3>3, RepliesInOrder
    <2>2. CASE Delete(p)
      <3> DEFINE d == [c EXCEPT !.step = "deleted", !.ids = {}]
      <3>1. {} \in SUBSET Socket
        OBVIOUS
      <3>2. d \in Reply /\ d.step = "deleted" /\ d.room = c.room
        BY <1>5, <2>2, <3>1, NextCleanups DEF CleanupReply
      <3>3. CallsNext(p, d) /\ hash' = [hash EXCEPT ![c.room] = "deleted"]
        BY <2>2 DEF Delete, DeleteRoom
      <3> HIDE DEF d
      <3>4. hash'[d.room] \notin {"unused", "full"}
        BY <1>5, <2>2, <3>2, <3>3 DEF TypeOK
      <3> HIDE DEF c
      <3>5. d \in Expected(p)'
        BY <3>2, <3>4 DEF Expected, Undeleted
      <3> QED BY <1>1, <1>5, <2>2, <3>3, <3>5, RepliesInOrder
    <2>3. CASE Deleted(p)
      BY <1>1, <1>5, <2>3, RepliesInOrder DEF Deleted
    <2>4. CASE replies' = replies
      BY <1>1, <2>4, RepliesInOrder
    <2> QED BY <2>1, <2>2, <2>3, <2>4 DEF Hear, ResetBindings
  <1>7. ASSUME Deleted(p) PROVE hash'[c.room] \notin {"unused", "full"}
    <2>1. c.step = "deleted"
      BY <1>7 DEF Deleted, Resumes
    <2>2. ~Undeleted(c.room) /\ c.room \in Room
      BY <1>5, <1>7, <2>1 DEF Expected
    <2> HIDE DEF c
    <2> QED BY <1>2, <2>2 DEF Undeleted
  <1>8. \A q \in Pod : bus'[q] \in Seq(Foreign(q)')
    <2>1. CASE Deleted(p)
      <3> DEFINE e == [type |-> "ROOM_TERMINATED", room |-> c.room]
      <3>1. e \in Event /\ Publishes(p, e)
        BY <1>5, <2>1 DEF Event, Deleted
      <3>2. \A q \in Pod \ {p} : e \in Foreign(q)'
        BY <1>7, <2>1, <3>1 DEF Foreign, Undeleted
      <3> HIDE DEF e
      <3> QED BY <1>1, <3>1, <3>2, BusInOrder
    <2>2. CASE Hear(p)
      BY <1>1, <2>2, BusInOrder DEF Hear
    <2>3. CASE bus' = bus
      BY <1>1, <2>3, BusInOrder
    <2> QED BY <2>1, <2>2, <2>3 DEF Expire, Delete, ResetBindings
  <1>9. \A q \in Pod : \A r \in ending'[q] : ~Undeleted(r)'
    <2>1. \A q \in Pod : ending[q] \subseteq Room
      BY DEF TypeOK
    <2>2. CASE Deleted(p)
      <3>1. ending' = [ending EXCEPT ![p] = @ \cup {c.room}]
        BY <2>2 DEF Deleted
      <3> HIDE DEF c
      <3> QED BY <1>2, <1>7, <2>1, <2>2, <3>1 DEF WorkInOrder, TypeOK, Undeleted
    <2>3. CASE \A q \in Pod : ending'[q] \subseteq ending[q]
      BY <1>2, <2>1, <2>3 DEF WorkInOrder
    <2>4. \A q \in Pod : \A r : [ending EXCEPT ![p] = @ \ {r}][q] \subseteq ending[q]
      BY DEF TypeOK
    <2> QED BY <2>2, <2>3, <2>4 DEF Expire, Delete, Hear, ResetBindings
  <1> QED BY <1>4, <1>6, <1>8, <1>9 DEF WorkInOrder

LEMMA WorkInit == Init => WorkInOrder
  BY DEF Init, WorkInOrder

LEMMA WorkNext == TypeOK /\ WorkInOrder /\ [Next]_vars => WorkInOrder'
  <1> SUFFICES ASSUME TypeOK, WorkInOrder, [Next]_vars PROVE WorkInOrder'
    OBVIOUS
  <1>1. TypeOK'
    BY TypeOKNext
  <1>2. CASE Arrive
    BY <1>1, <1>2, ArriveInOrder DEF Next
  <1>3. ASSUME NEW p \in Pod, Resume(p) PROVE WorkInOrder'
    BY <1>1, <1>3, SocketWorkInOrder, OtherWorkInOrder DEF Next, Resume
  <1>4. CASE UNCHANGED vars
    BY <1>4 DEF vars, store, WorkInOrder, Expected, Foreign, Undeleted
  <1> QED BY <1>2, <1>3, <1>4 DEF Next

-----------------------------------------------------------------------------
(* The lists.  A handler that has added its user or has read a list will   *)
(* tell its room of it, and its own socket if that has gone elsewhere      *)
(* meanwhile.  What is told last counts: replies come in the order of the  *)
(* calls, so of two handlers the one with fewer calls to go tells first,   *)
(* and of two with as many the one that waits ahead.                       *)

OnlyPod(p) == \A s \in Socket : conn[s] = "new" \/ PodOf[s] = p

Tells(c, s, r) == c.step \in {"added", "list", "answer"} /\ (c.room = r \/ c.socket = s)

\* What c will tell of has the user u of r: it has read so, or reads that set yet.
Brings(c, r, u) == IF c.step = "added" THEN c.room = r ELSE u \in c.ids

Before(q, i, j) ==
    \/ q[i].step # "added" /\ q[j].step = "added"
    \/ q[i].step = "answer" /\ q[j].step = "list"
    \/ q[i].step = q[j].step /\ i < j

\* The client of s, told "known" last, lists u once the handlers q have ended.
Learns(q, known, s, r, u) ==
    \/ /\ u \in known
       /\ \A i \in 1 .. Len(q) : Tells(q[i], s, r) => Brings(q[i], r, u)
    \/ \E j \in 1 .. Len(q) :
          /\ Tells(q[j], s, r) /\ Brings(q[j], r, u)
          /\ \A i \in 1 .. Len(q) : Tells(q[i], s, r) /\ ~Brings(q[i], r, u) => Before(q, i, j)

EveryoneLearns ==
    \A p \in Pod, r \in Room, s \in Socket, u \in Socket :
        OnlyPod(p) /\ Undeleted(r) /\ Open(s) /\ bound[s] = r /\ user[u] = r
            => Learns(replies[p], view[s], s, r, u)

\* A handler that tells nothing, or tells of u, begins.
LEMMA LearnsAppended ==
    ASSUME NEW q \in Seq(Reply), NEW c \in Reply, NEW known, NEW s, NEW r, NEW u,
           Learns(q, known, s, r, u), Tells(c, s, r) => Brings(c, r, u)
    PROVE  Learns(Append(q, c), known, s, r, u)
  <1> DEFINE t == Append(q, c)
  <1>1. /\ Len(t) = Len(q) + 1 /\ t[Len(q) + 1] = c /\ Len(q) \in Nat
        /\ \A i \in 1 .. Len(q) : t[i] = q[i]
    OBVIOUS
  <1> HIDE DEF t
  <1>2. \A i \in 1 .. Len(t) : i \in 1 .. Len(q) \/ i = Len(q) + 1
    BY <1>1
  <1>3. ASSUME NEW i \in 1 .. Len(t), Tells(t[i], s, r), ~Brings(t[i], r, u)
        PROVE  i \in 1 .. Len(q) /\ t[i] = q[i]
    BY <1>1, <1>2, <1>3
  <1>4. CASE u \in known /\ \A i \in 1 .. Len(q) : Tells(q[i], s, r) => Brings(q[i], r, u)
    BY <1>3, <1>4, Zenon DEF Learns, t
  <1>5. ASSUME NEW j \in 1 .. Len(q), Tells(q[j], s, r), Brings(q[j], r, u),
               \A i \in 1 .. Len(q) : Tells(q[i], s, r) /\ ~Brings(q[i], r, u) => Before(q, i, j)
        PROVE  Learns(t, known, s, r, u)
    <2>1. j \in 1 .. Len(t) /\ t[j] = q[j]
      BY <1>1
    <2>2. ASSUME NEW i \in 1 .. Len(t), Tells(t[i], s, r), ~Brings(t[i], r, u)
          PROVE  Before(t, i, j)
      <3>1. i \in 1 .. Len(q) /\ t[i] = q[i]
        BY <1>3, <2>2
      <3>2. Before(q, i, j)
        BY <1>5, <2>2, <3>1
      <3> QED BY <2>1, <3>1, <3>2 DEF Before
    <2> QED BY <1>5, <2>1, <2>2, Zenon DEF Learns
  <1> QED BY <1>4, <1>5, Zenon DEF Learns, t

\* A handler that tells nothing leaves the head.
LEMMA LearnsTail ==
    ASSUME NEW q \in Seq(Reply), q # << >>, NEW known, NEW s, NEW r, NEW u,
           Learns(q, known, s, r, u), ~Tells(Head(q), s, r)
    PROVE  Learns(Tail(q), known, s, r, u)
  <1> DEFINE t == Tail(q)
  <1>1. /\ Len(q) \in Nat /\ Len(t) = Len(q) - 1 /\ Head(q) = q[1]
        /\ \A i \in 1 .. Len(t) : t[i] = q[i + 1] /\ i + 1 \in 1 .. Len(q)
    OBVIOUS
  <1> HIDE DEF t
  <1>2. CASE u \in known /\ \A i \in 1 .. Len(q) : Tells(q[i], s, r) => Brings(q[i], r, u)
    BY <1>1, <1>2 DEF Learns, t
  <1>3. ASSUME NEW j \in 1 .. Len(q), Tells(q[j], s, r), Brings(q[j], r, u),
               \A i \in 1 .. Len(q) : Tells(q[i], s, r) /\ ~Brings(q[i], r, u) => Before(q, i, j)
        PROVE  Learns(t, known, s, r, u)
    <2>1. j # 1
      BY <1>1, <1>3
    <2>2. j - 1 \in 1 .. Len(t) /\ (j - 1) + 1 = j
      BY <1>1, <2>1
    <2>3. t[j - 1] = q[j]
      BY <1>1, <2>2
    <2>4. ASSUME NEW i \in 1 .. Len(t), Tells(t[i], s, r), ~Brings(t[i], r, u)
          PROVE  Before(t, i, j - 1)
      <3>1. t[i] = q[i + 1] /\ i + 1 \in 1 .. Len(q)
        BY <1>1
      <3>2. Before(q, i + 1, j)
        BY <1>3, <2>4, <3>1
      <3>3. i + 1 < j => i < j - 1
        OBVIOUS
      <3> QED BY <2>3, <3>1, <3>2, <3>3 DEF Before
    <2> QED BY <1>3, <2>2, <2>3, <2>4, Zenon DEF Learns
  <1> QED BY <1>2, <1>3, Zenon DEF Learns, t

\* A user was added: its handler will read the set after all that have read it.
LEMMA LearnsFromAdded ==
    ASSUME NEW q \in Seq(Reply), NEW c \in Reply, NEW known, NEW s, NEW r, NEW u,
           c.step = "added", c.room = r
    PROVE  Learns(Append(q, c), known, s, r, u)
  <1> DEFINE t == Append(q, c)
  <1>1. Len(t) = Len(q) + 1 /\ t[Len(q) + 1] = c /\ Len(q) \in Nat
    OBVIOUS
  <1> HIDE DEF t
  <1>2. Len(t) \in 1 .. Len(t) /\ t[Len(t)] = c
    BY <1>1
  <1>3. Tells(t[Len(t)], s, r) /\ Brings(t[Len(t)], r, u)
    BY <1>2 DEF Tells, Brings
  <1>4. \A i \in 1 .. Len(t) : Before(t, i, Len(t)) \/ i = Len(t)
    BY <1>1, <1>2 DEF Before
  <1> QED BY <1>2, <1>3, <1>4, Zenon DEF Learns, t

\* A handler reads and waits for its next reply, behind all others.
LEMMA LearnsRead ==
    ASSUME NEW q \in Seq(Reply), q # << >>, NEW c \in Reply, NEW known, NEW s, NEW r, NEW u,
           Learns(q, known, s, r, u), Tells(Head(q), s, r),
           \/ Head(q).step = "added" /\ c.step = "list"
           \/ Head(q).step = "list" /\ c.step = "answer",
           Brings(Head(q), r, u) => Brings(c, r, u),
           c.room = Head(q).room, c.socket = Head(q).socket
    PROVE  Learns(Append(Tail(q), c), known, s, r, u)
  <1> DEFINE t == Append(Tail(q), c)
             n == Len(q)
  <1>1. /\ n \in Nat \ {0} /\ Len(t) = n /\ t[n] = c /\ Head(q) = q[1]
        /\ \A i \in 1 .. n - 1 : t[i] = q[i + 1]
    OBVIOUS
  <1> HIDE DEF t
  <1>2. \A i \in 1 .. n : i = n \/ (i \in 1 .. n - 1 /\ i + 1 \in 1 .. n /\ t[i] = q[i + 1])
    BY <1>1
  <1>3. n \in 1 .. n /\ 1 \in 1 .. n
    BY <1>1
  <1>4. Tells(c, s, r)
    BY DEF Tells
  <1>5. CASE u \in known /\ \A i \in 1 .. n : Tells(q[i], s, r) => Brings(q[i], r, u)
    <2>1. ASSUME NEW i \in 1 .. Len(t), Tells(t[i], s, r) PROVE Brings(t[i], r, u)
      BY <1>1, <1>2, <1>3, <1>5, <2>1
    <2> QED BY <1>5, <2>1 DEF Learns, t
  <1>6. ASSUME NEW j \in 1 .. n, Tells(q[j], s, r), Brings(q[j], r, u),
               \A i \in 1 .. n : Tells(q[i], s, r) /\ ~Brings(q[i], r, u) => Before(q, i, j)
        PROVE  Learns(t, known, s, r, u)
    <2>1. CASE j = 1
      <3>1. Tells(t[n], s, r) /\ Brings(t[n], r, u)
        BY <1>1, <1>4, <1>6, <2>1
      <3>2. ASSUME NEW i \in 1 .. n, Tells(t[i], s, r), ~Brings(t[i], r, u)
            PROVE  Before(t, i, n)
        <4>1. i \in 1 .. n - 1 /\ i + 1 \in 1 .. n /\ t[i] = q[i + 1]
          BY <1>2, <3>1, <3>2
        <4>2. Before(q, i + 1, 1)
          BY <1>6, <2>1, <3>2, <4>1
        <4>3. ~(i + 1 < 1) /\ i < n
          BY <1>1, <4>1
        <4> QED BY <1>1, <3>2, <4>1, <4>2, <4>3 DEF Before, Tells
      <3> QED BY <1>1, <1>3, <3>1, <3>2 DEF Learns
    <2>2. CASE j # 1
      <3>1. j - 1 \in 1 .. n - 1 /\ j - 1 \in 1 .. n /\ (j - 1) + 1 = j
        BY <1>1, <2>2
      <3>2. t[j - 1] = q[j]
        BY <1>1, <3>1
      <3>3. ASSUME NEW i \in 1 .. n, Tells(t[i], s, r), ~Brings(t[i], r, u)
            PROVE  Before(t, i, j - 1)
        <4>1. CASE i = n
          <5>1. ~Brings(q[1], r, u) /\ Tells(q[1], s, r)
            BY <1>1, <3>3, <4>1
          <5>2. Before(q, 1, j)
            BY <1>3, <1>6, <5>1
          <5>3. q[j].step # "answer" /\ (q[j].step = "list" => c.step = "answer")
            BY <1>1, <1>6, <5>2 DEF Before, Tells
          <5> QED BY <1>1, <1>6, <3>2, <4>1, <5>3 DEF Before, Tells
        <4>2. CASE i # n
          <5>1. i \in 1 .. n - 1 /\ i + 1 \in 1 .. n /\ t[i] = q[i + 1]
            BY <1>2, <4>2
          <5>2. Before(q, i + 1, j)
            BY <1>6, <3>3, <5>1
          <5>3. i + 1 < j => i < j - 1
            BY <1>1
          <5> QED BY <3>2, <5>1, <5>2, <5>3 DEF Before
        <4> QED BY <4>1, <4>2
      <3> QED BY <1>1, <1>6, <3>1, <3>2, <3>3 DEF Learns
    <2> QED BY <2>1, <2>2
  <1> QED BY <1>5, <1>6, Zenon DEF Learns, t

\* A handler tells what it has read.
LEMMA LearnsTold ==
    ASSUME NEW q \in Seq(Reply), q # << >>, NEW known, NEW s, NEW r, NEW u,
           Learns(q, known, s, r, u), Tells(Head(q), s, r),
           Head(q).step = "answer" \/ (Head(q).step = "list" /\ Head(q).ids = {})
    PROVE  Learns(Tail(q), Head(q).ids, s, r, u)
  <1> DEFINE t == Tail(q)
             n == Len(q)
  <1>1. /\ n \in Nat \ {0} /\ Len(t) = n - 1 /\ Head(q) = q[1]
        /\ \A i \in 1 .. n - 1 : t[i] = q[i + 1] /\ i + 1 \in 1 .. n
    OBVIOUS
  <1>2. 1 \in 1 .. n /\ (Brings(q[1], r, u) <=> u \in Head(q).ids)
    BY <1>1 DEF Brings
  <1> HIDE DEF t
  <1>3. CASE u \in known /\ \A i \in 1 .. n : Tells(q[i], s, r) => Brings(q[i], r, u)
    <2>1. u \in Head(q).ids
      BY <1>1, <1>2, <1>3
    <2>2. \A i \in 1 .. Len(t) : Tells(t[i], s, r) => Brings(t[i], r, u)
      BY <1>1, <1>3
    <2> QED BY <2>1, <2>2 DEF Learns, t
  <1>4. ASSUME NEW j \in 1 .. n, Tells(q[j], s, r), Brings(q[j], r, u),
               \A i \in 1 .. n : Tells(q[i], s, r) /\ ~Brings(q[i], r, u) => Before(q, i, j)
        PROVE  Learns(t, Head(q).ids, s, r, u)
    <2>1. CASE j = 1
      <3>1. u \in Head(q).ids /\ q[1].step = "answer"
        BY <1>1, <1>2, <1>4, <2>1
      <3>2. ASSUME NEW i \in 1 .. n, i # 1 PROVE ~Before(q, i, 1)
        BY <1>1, <3>1, <3>2 DEF Before
      <3>3. ASSUME NEW i \in 1 .. Len(t), Tells(t[i], s, r) PROVE Brings(t[i], r, u)
        <4>1. i + 1 \in 1 .. n /\ i + 1 # 1 /\ t[i] = q[i + 1]
          BY <1>1
        <4> QED BY <1>4, <2>1, <3>2, <3>3, <4>1
      <3> QED BY <3>1, <3>3 DEF Learns
    <2>2. CASE j # 1
      <3>1. j - 1 \in 1 .. Len(t) /\ (j - 1) + 1 = j
        BY <1>1, <2>2
      <3>2. t[j - 1] = q[j]
        BY <1>1, <3>1
      <3>3. ASSUME NEW i \in 1 .. Len(t), Tells(t[i], s, r), ~Brings(t[i], r, u)
            PROVE  Before(t, i, j - 1)
        <4>1. t[i] = q[i + 1] /\ i + 1 \in 1 .. n
          BY <1>1
        <4>2. Before(q, i + 1, j)
          BY <1>4, <3>3, <4>1
        <4>3. i + 1 < j => i < j - 1
          OBVIOUS
        <4> QED BY <3>2, <4>1, <4>2, <4>3 DEF Before
      <3> QED BY <1>4, <3>1, <3>2, <3>3, Zenon DEF Learns
    <2> QED BY <2>1, <2>2
  <1> QED BY <1>3, <1>4, Zenon DEF Learns, t

\* What a step leaves of the premises of EveryoneLearns held before it, the room a
\* socket is bound to and the room of a user apart.
LEMMA LearnersBefore ==
    ASSUME TypeOK, TypeOK', WorkInOrder, [Next]_vars,
           NEW p \in Pod, NEW r \in Room, NEW s \in Socket,
           OnlyPod(p)', Undeleted(r)', Open(s)'
    PROVE  OnlyPod(p) /\ Undeleted(r) /\ r # NoRoom /\ (bound[s] = r => Open(s) /\ PodOf[s] = p)
  <1>1. /\ \A t \in Socket : conn[t] # "new" => conn'[t] # "new"
        /\ \A t \in Socket : conn[t] = "gone" => conn'[t] = "gone"
    BY WorkStays
  <1>2. OnlyPod(p)
    BY <1>1 DEF OnlyPod
  <1>3. Undeleted(r)
    BY DeletedNext
  <1>4. r # NoRoom
    BY NoRoomAssumption
  <1>5. bound[s] = r => Open(s)
    BY <1>1, <1>4 DEF Open, WorkInOrder, TypeOK
  <1> QED BY <1>2, <1>3, <1>4, <1>5 DEF OnlyPod, Open

\* A step after which the handlers of p are the same, one more that tells nothing
\* yet, or the same with such a one gone or gone on, and that changes neither the
\* list of s nor the rooms of s and u.
LEMMA NothingTold ==
    ASSUME TypeOK, TypeOK', WorkInOrder, EveryoneLearns, [Next]_vars,
           NEW p \in Pod, NEW r \in Room, NEW s \in Socket, NEW u \in Socket,
           OnlyPod(p)', Undeleted(r)', Open(s)',
           bound[s] = r, user[u] = r, view'[s] = view[s],
           \/ replies'[p] = replies[p]
           \/ \E c : /\ replies'[p] = Append(replies[p], c)
                     /\ Tells(c, s, r) => Brings(c, r, u)
           \/ /\ replies[p] # << >> /\ ~Tells(Head(replies[p]), s, r)
              /\ \/ replies'[p] = Tail(replies[p])
                 \/ \E c : /\ replies'[p] = Append(Tail(replies[p]), c)
                           /\ Tells(c, s, r) => Brings(c, r, u)
    PROVE  Learns(replies'[p], view'[s], s, r, u)
  <1>1. Learns(replies[p], view'[s], s, r, u)
    BY LearnersBefore DEF EveryoneLearns
  <1>2. replies[p] \in Seq(Reply) /\ replies'[p] \in Seq(Reply)
    BY DEF TypeOK
  <1>3. ASSUME NEW q \in Seq(Reply), NEW c, replies'[p] = Append(q, c) PROVE c \in Reply
    <2>1. Len(replies'[p]) = Len(q) + 1 /\ replies'[p][Len(q) + 1] = c
      BY <1>3
    <2>2. Len(q) + 1 \in 1 .. Len(replies'[p])
      BY <1>2, <2>1
    <2> QED BY <1>2, <2>1, <2>2
  <1>4. ASSUME NEW c, replies'[p] = Append(replies[p], c), Tells(c, s, r) => Brings(c, r, u)
        PROVE  Learns(replies'[p], view'[s], s, r, u)
    BY <1>1, <1>2, <1>3, <1>4, LearnsAppended
  <1>5. ASSUME replies[p] # << >>, ~Tells(Head(replies[p]), s, r)
        PROVE  /\ Learns(Tail(replies[p]), view'[s], s, r, u)
               /\ Tail(replies[p]) \in Seq(Reply)
    BY <1>1, <1>2, <1>5, LearnsTail
  <1>6. ASSUME NEW c, replies[p] # << >>, ~Tells(Head(replies[p]), s, r),
               replies'[p] = Append(Tail(replies[p]), c), Tells(c, s, r) => Brings(c, r, u)
        PROVE  Learns(replies'[p], view'[s], s, r, u)
    BY <1>3, <1>5, <1>6, LearnsAppended
  <1> QED BY <1>1, <1>4, <1>5, <1>6

LEMMA ArriveLearns ==
    ASSUME TypeOK, TypeOK', WorkInOrder, EveryoneLearns, Arrive, [Next]_vars,
           NEW p \in Pod, NEW r \in Room, NEW s \in Socket, NEW u \in Socket,
           OnlyPod(p)', Undeleted(r)', Open(s)', bound'[s] = r, user'[u] = r
    PROVE  Learns(replies'[p], view'[s], s, r, u)
  <1>1. bound[s] = r /\ user[u] = r
    BY DEF Arrive, Connect, Relay, SocketClosed, CreateRoom, JoinRoom, Cleanup, store
  <1>2. view'[s] = view[s]
    <2>1. view' = view \/ \E q \in Socket : SocketClosed(q)
      BY Zenon DEF Arrive, Connect, Relay, CreateRoom, JoinRoom, Cleanup
    <2>2. ASSUME NEW q \in Socket, SocketClosed(q) PROVE view'[s] = view[s]
      BY <2>2 DEF SocketClosed, Open, TypeOK
    <2> QED BY <2>1, <2>2
  <1>3. \/ replies'[p] = replies[p]
        \/ \E c : /\ replies'[p] = Append(replies[p], c)
                  /\ c.step \notin {"added", "list", "answer"}
    <2>1. ASSUME NEW q, NEW c, Calls(q, c), c.step \notin {"added", "list", "answer"}
          PROVE  \/ replies'[p] = replies[p]
                 \/ \E d : /\ replies'[p] = Append(replies[p], d)
                           /\ d.step \notin {"added", "list", "answer"}
      BY <2>1 DEF Calls, TypeOK
    <2>2. CASE replies' = replies
      BY <2>2
    <2> QED BY <2>1, <2>2
        DEF Arrive, Connect, Relay, SocketClosed, CreateRoom, JoinRoom, Cleanup, Handler
  <1> QED BY <1>1, <1>2, <1>3, NothingTold DEF Tells

LEMMA HeadsStep ==
    ASSUME TypeOK, WorkInOrder, NEW p \in Pod, replies[p] # << >>
    PROVE  LET c == Head(replies[p])
           IN  /\ c.step \in {"join", "enter", "added", "left", "list", "answer"} =>
                      /\ c \in SocketReply /\ c.socket \in Socket /\ c.room \in Room
                      /\ PodOf[c.socket] = p /\ conn[c.socket] # "new"
                      /\ c.step = "left" \/ c.why = "left" => conn[c.socket] = "gone"
               /\ c.step = "leave" =>
                      c \in CloseReply /\ c.socket \in Socket
                          /\ PodOf[c.socket] = p /\ conn[c.socket] # "new"
               /\ c.step = "deleted" => ~Undeleted(c.room)
  <1> DEFINE c == Head(replies[p])
  <1>1. c \in Expected(p) /\ c \in Reply
    BY HeadExpected, HeadType
  <1> QED BY <1>1, ReplyKinds DEF Expected, SocketReply, CloseReply

LEMMA SocketWorkLearns ==
    ASSUME TypeOK, TypeOK', ListsInOrder, WorkInOrder, EveryoneLearns, [Next]_vars,
           NEW p \in Pod, NEW r \in Room, NEW s \in Socket, NEW u \in Socket,
           OnlyPod(p)', Undeleted(r)', Open(s)', bound'[s] = r, user'[u] = r,
           \/ Join(p) \/ Enter(p) \/ ReadIds(p, "added") \/ ReadIds(p, "left")
           \/ ReadUsers(p) \/ SendUsers(p) \/ Leave(p)
    PROVE  Learns(replies'[p], view'[s], s, r, u)
  <1> DEFINE c == Head(replies[p])
  <1>1. replies[p] # << >> /\ conn' = conn
    BY DEF Join, Enter, ReadIds, ReadUsers, SendUsers, Leave, Resumes
  <1>2. /\ replies[p] \in Seq(Reply) /\ Tail(replies[p]) \in Seq(Reply)
        /\ replies'[p] \in Seq(Reply) /\ c \in Reply
    BY <1>1, HeadType DEF TypeOK
  <1>3. OnlyPod(p) /\ Undeleted(r) /\ r # NoRoom /\ (bound[s] = r => Open(s) /\ PodOf[s] = p)
    BY LearnersBefore
  <1>4. bound[s] = r /\ user[u] = r => Learns(replies[p], view[s], s, r, u)
    BY <1>3 DEF EveryoneLearns
  <1>5. user[u] = r => u \in members[r]
    BY <1>3 DEF ListsInOrder, Undeleted, UsersOf
  <1>6. \A d : CallsNext(p, d) => replies'[p] = Append(Tail(replies[p]), d)
    BY DEF CallsNext, TypeOK
  <1>7. CASE Join(p) \/ Leave(p)
    <2>1. bound[s] = r /\ user[u] = r /\ view'[s] = view[s]
      BY <1>3, <1>7 DEF Join, Leave, RemoveUser, store, TypeOK
    <2>2. c.step \in {"join", "leave"}
      BY <1>7 DEF Join, Leave, Resumes
    <2>3. ~Tells(c, s, r)
      BY <2>2 DEF Tells
    <2>4. \/ replies'[p] = Tail(replies[p])
          \/ \E st \in {"enter", "left"} : replies'[p] = Append(Tail(replies[p]), [c EXCEPT !.step = st])
      BY <1>6, <1>7 DEF Join, Leave, Ends, TypeOK
    <2>5. \A st \in {"enter", "left"} : ~Tells([c EXCEPT !.step = st], s, r)
      BY <1>2 DEF Tells, Reply, SocketReply, CloseReply, CleanupReply
    <2> HIDE DEF c
    <2> QED BY <1>1, <2>1, <2>3, <2>4, <2>5, NothingTold DEF c
  <1>8. CASE Enter(p)
    <2> DEFINE d == [c EXCEPT !.step = "added"]
    <2>1. /\ bound' = [bound EXCEPT ![c.socket] = c.room]
          /\ user' = [user EXCEPT ![c.socket] = c.room]
          /\ view' = view /\ replies'[p] = Append(Tail(replies[p]), d)
          /\ c.step = "enter"
      BY <1>6, <1>8 DEF Enter, AddUser, Resumes
    <2>2. c \in SocketReply /\ c.socket \in Socket
      BY <1>1, <2>1, HeadsStep
    <2>3. d \in Reply /\ d.step = "added" /\ d.room = c.room /\ d.socket = c.socket
      BY <2>2 DEF SocketReply, Reply
    <2>4. ~Tells(c, s, r)
      BY <2>1 DEF Tells
    <2> HIDE DEF c, d
    <2>5. CASE c.room = r
      BY <1>2, <2>1, <2>3, <2>5, LearnsFromAdded
    <2>6. CASE c.room # r
      <3>1. bound[s] = r /\ user[u] = r /\ c.socket # s
        BY <2>1, <2>2, <2>6 DEF TypeOK
      <3>2. ~Tells(d, s, r)
        BY <2>3, <2>6, <3>1 DEF Tells
      <3> QED BY <1>1, <2>1, <2>4, <3>1, <3>2, NothingTold DEF c
    <2> QED BY <2>5, <2>6
  <1>9. ASSUME ~Enter(p), ~Join(p), ~Leave(p)
        PROVE  bound[s] = r /\ user[u] = r /\ PodOf[s] = p /\ Open(s)
    BY <1>3, <1>9 DEF ReadIds, ReadUsers, SendUsers, store
  <1>10. CASE ReadIds(p, "left") \/ ReadIds(p, "added")
    <2> DEFINE d == [c EXCEPT !.step = "list", !.ids = members[c.room]]
    <2>1. bound[s] = r /\ user[u] = r /\ Open(s) /\ view'[s] = view[s]
      BY <1>3, <1>10 DEF ReadIds, store
    <2>2. /\ replies'[p] = Append(Tail(replies[p]), d) /\ c.step \in {"left", "added"}
      BY <1>6, <1>10 DEF ReadIds, Resumes
    <2>3. c \in SocketReply /\ (c.step = "left" => c.socket # s)
      BY <1>1, <2>1, <2>2, HeadsStep DEF Open
    <2>4. /\ d \in Reply /\ d.step = "list" /\ d.room = c.room /\ d.socket = c.socket
          /\ d.ids = members[c.room]
      <3>1. members[c.room] \in SUBSET Socket
        BY <2>3 DEF SocketReply, TypeOK
      <3> QED BY <2>3, <3>1 DEF SocketReply, Reply
    <2> HIDE DEF c, d
    <2>5. CASE Tells(c, s, r)
      <3>1. c.step = "added"
        BY <2>2, <2>5 DEF Tells
      <3>2. Brings(c, r, u) => Brings(d, r, u)
        BY <1>5, <2>1, <2>4, <3>1 DEF Brings
      <3> QED BY <1>1, <1>2, <1>4, <2>1, <2>2, <2>4, <2>5, <3>1, <3>2, LearnsRead DEF c
    <2>6. CASE ~Tells(c, s, r)
      <3>1. Tells(d, s, r) => Brings(d, r, u)
        BY <1>5, <2>1, <2>2, <2>3, <2>4, <2>6 DEF Tells, Brings
      <3> QED BY <1>1, <2>1, <2>2, <2>6, <3>1, NothingTold DEF c
    <2> QED BY <2>5, <2>6
  <1>11. CASE ReadUsers(p)
    <2> DEFINE d == [c EXCEPT !.step = "answer", !.ids = Present(c.ids)]
    <2>1. bound[s] = r /\ user[u] = r /\ Open(s) /\ view'[s] = view[s]
      BY <1>3, <1>11 DEF ReadUsers, store
    <2>2. /\ replies'[p] = Append(Tail(replies[p]), d) /\ c.step = "list"
      BY <1>6, <1>11 DEF ReadUsers, Resumes
    <2>3. c \in SocketReply
      BY <1>1, <2>2, HeadsStep
    <2>4. /\ d \in Reply /\ d.step = "answer" /\ d.room = c.room /\ d.socket = c.socket
          /\ d.ids = Present(c.ids)
      <3>1. Present(c.ids) \in SUBSET Socket
        BY <2>3 DEF SocketReply, Present
      <3> QED BY <2>3, <3>1 DEF SocketReply, Reply
    <2>5. u \in c.ids => u \in Present(c.ids)
      BY <1>3, <2>1 DEF Present
    <2> HIDE DEF c, d
    <2>6. CASE Tells(c, s, r)
      <3>1. Brings(c, r, u) => Brings(d, r, u)
        BY <2>2, <2>4, <2>5 DEF Brings
      <3> QED BY <1>1, <1>2, <1>4, <2>1, <2>2, <2>4, <2>6, <3>1, LearnsRead DEF c
    <2>7. CASE ~Tells(c, s, r)
      <3>1. ~Tells(d, s, r)
        BY <2>2, <2>4, <2>7 DEF Tells
      <3> QED BY <1>1, <2>1, <2>2, <2>7, <3>1, NothingTold DEF c
    <2> QED BY <2>6, <2>7
  <1>12. CASE SendUsers(p)
    <2>1. bound[s] = r /\ user[u] = r /\ Open(s) /\ PodOf[s] = p
      BY <1>3, <1>12 DEF SendUsers, store
    <2>2. /\ view' = [x \in Socket |-> IF x \in Told(p, c) THEN c.ids ELSE view[x]]
          /\ replies'[p] = Tail(replies[p])
          /\ c.step = "answer" \/ (c.step = "list" /\ c.ids = {})
      BY <1>12 DEF SendUsers, Ends, Resumes, TypeOK
    <2>3. c.socket \in Socket /\ (c.why = "left" => c.socket # s)
      BY <1>1, <2>1, <2>2, HeadsStep DEF Open
    <2> HIDE DEF c
    <2>4. s \in Told(p, c) <=> Tells(c, s, r)
      BY <2>1, <2>2, <2>3 DEF Told, Reached, Tells, Open
    <2>5. CASE Tells(c, s, r)
      <3>1. view'[s] = c.ids
        BY <2>2, <2>4, <2>5
      <3> QED BY <1>1, <1>2, <1>4, <2>1, <2>2, <2>5, <3>1, LearnsTold DEF c
    <2>6. CASE ~Tells(c, s, r)
      <3>1. view'[s] = view[s]
        BY <2>2, <2>4, <2>6
      <3> QED BY <1>1, <2>1, <2>2, <2>6, <3>1, NothingTold DEF c
    <2> QED BY <2>5, <2>6
  <1> QED BY <1>7, <1>8, <1>10, <1>11, <1>12

\* Steps that end a room, and events, on the pod itself.
LEMMA OtherWorkLearns ==
    ASSUME TypeOK, TypeOK', WorkInOrder, EveryoneLearns, [Next]_vars,
           NEW p \in Pod, NEW r \in Room, NEW s \in Socket, NEW u \in Socket,
           OnlyPod(p)', Undeleted(r)', Open(s)', bound'[s] = r, user'[u] = r,
           \/ Expire(p) \/ Delete(p) \/ Deleted(p) \/ Hear(p)
           \/ \E x \in Room : ResetBindings(p, x)
    PROVE  Learns(replies'[p], view'[s], s, r, u)
  <1> DEFINE c == Head(replies[p])
  <1>1. OnlyPod(p) /\ Undeleted(r) /\ r # NoRoom
    BY LearnersBefore
  <1>2. bound[s] = r
    BY <1>1 DEF Expire, Delete, Deleted, Hear, ResetBindings, Unbound
  <1>3. user[u] = r
    BY <1>1 DEF Expire, Delete, Deleted, Hear, ResetBindings, DeleteRoom, store
  <1>4. CASE Expire(p) \/ Delete(p)
    <2>1. c.step \in {"expired", "delete"} /\ replies[p] # << >> /\ view'[s] = view[s]
      BY <1>4 DEF Expire, Delete, Resumes
    <2>2. c \in CleanupReply /\ ~Tells(c, s, r)
      BY <2>1, HeadType, ReplyKinds DEF Tells
    <2>3. \E st \in {"delete", "deleted"} :
            \E ids : CallsNext(p, [c EXCEPT !.step = st, !.ids = ids])
      BY <1>4 DEF Expire, Delete
    <2>4. PICK st \in {"delete", "deleted"} :
            \E ids : CallsNext(p, [c EXCEPT !.step = st, !.ids = ids])
      BY <2>3
    <2>5. PICK ids : CallsNext(p, [c EXCEPT !.step = st, !.ids = ids])
      BY <2>4
    <2> DEFINE d == [c EXCEPT !.step = st, !.ids = ids]
    <2>6. d.step = st
      BY <2>2 DEF CleanupReply
    <2>7. ~Tells(d, s, r)
      BY <2>6 DEF Tells
    <2>8. replies'[p] = Append(Tail(replies[p]), d)
      BY <2>5 DEF CallsNext, TypeOK
    <2> HIDE DEF d, c
    <2> QED BY <1>2, <1>3, <2>1, <2>2, <2>7, <2>8, NothingTold DEF c
  <1>5. CASE Deleted(p)
    <2>1. c.step = "deleted" /\ replies[p] # << >>
      BY <1>5 DEF Deleted, Resumes
    <2>2. ~Tells(c, s, r) /\ c.room # r
      BY <1>1, <2>1, HeadsStep DEF Tells
    <2>3. replies'[p] = Tail(replies[p]) /\ view' = Closed(p, c.room)
      BY <1>5 DEF Deleted, Ends, TypeOK
    <2>4. view'[s] = view[s]
      BY <1>2, <2>2, <2>3 DEF Closed, Reached
    <2> QED BY <1>2, <1>3, <2>1, <2>2, <2>3, <2>4, NothingTold
  <1>6. CASE Hear(p)
    <2> DEFINE e == Head(bus[p])
    <2>1. bus[p] # << >> /\ replies' = replies
      BY <1>6 DEF Hear
    <2>2. e \in Foreign(p)
      BY <2>1 DEF WorkInOrder
    <2>3. e.type # "USERS"
      BY <1>1, <2>2 DEF Foreign, Event, OnlyPod
    <2>4. view' = Closed(p, e.room) /\ e.room # r
      BY <1>1, <1>6, <2>2, <2>3 DEF Hear, Foreign
    <2>5. view'[s] = view[s]
      BY <1>2, <2>4 DEF Closed, Reached
    <2> QED BY <1>2, <1>3, <2>1, <2>5, NothingTold
  <1>7. ASSUME NEW x \in Room, ResetBindings(p, x) PROVE Learns(replies'[p], view'[s], s, r, u)
    <2>1. replies' = replies /\ view' = view
      BY <1>7 DEF ResetBindings
    <2> QED BY <1>2, <1>3, <2>1, NothingTold
  <1> QED BY <1>4, <1>5, <1>6, <1>7

\* Another pod has no clients to serve: it can only end rooms and hear of events.
LEMMA ElsewhereLearns ==
    ASSUME TypeOK, TypeOK', WorkInOrder, EveryoneLearns, [Next]_vars,
           NEW p \in Pod, NEW q \in Pod, q # p, Resume(q),
           NEW r \in Room, NEW s \in Socket, NEW u \in Socket,
           OnlyPod(p)', Undeleted(r)', Open(s)', bound'[s] = r, user'[u] = r
    PROVE  Learns(replies'[p], view'[s], s, r, u)
  <1> DEFINE c == Head(replies[q])
  <1>1. OnlyPod(p) /\ r # NoRoom /\ (bound[s] = r => Open(s) /\ PodOf[s] = p)
    BY LearnersBefore
  <1>2. ASSUME replies[q] # << >> PROVE c.step \in {"expired", "delete", "deleted"}
    <2>1. c \in Reply
      BY <1>2, HeadType
    <2>2. c.step \in {"join", "enter", "added", "left", "list", "answer", "leave",
                      "expired", "delete", "deleted"}
      BY <2>1 DEF Reply, SocketReply, CloseReply, CleanupReply
    <2> QED BY <1>1, <1>2, <2>2, HeadsStep DEF OnlyPod
  <1>3. \/ Expire(q) \/ Delete(q) \/ Deleted(q) \/ Hear(q)
        \/ \E x \in Room : ResetBindings(q, x)
    BY <1>2 DEF Resume, Join, Enter, ReadIds, ReadUsers, SendUsers, Leave, Resumes
  <1>4. bound[s] = r
    BY <1>1, <1>3 DEF Expire, Delete, Deleted, Hear, ResetBindings, Unbound
  <1>5. user[u] = r
    BY <1>1, <1>3 DEF Expire, Delete, Deleted, Hear, ResetBindings, DeleteRoom, store
  <1>6. replies'[p] = replies[p]
    BY <1>3 DEF Expire, Delete, Deleted, Hear, ResetBindings, CallsNext, Ends, TypeOK
  <1>7. view'[s] = view[s]
    <2>1. \A x, y : s \notin Reached(q, x, y)
      BY <1>1, <1>4 DEF Reached
    <2> QED BY <1>3, <2>1 DEF Expire, Delete, Deleted, Hear, ResetBindings, Closed
  <1> QED BY <1>4, <1>5, <1>6, <1>7, NothingTold

LEMMA LearnsNext ==
    TypeOK /\ ListsInOrder /\ WorkInOrder /\ EveryoneLearns /\ [Next]_vars => EveryoneLearns'
  <1> SUFFICES ASSUME TypeOK, ListsInOrder, WorkInOrder, EveryoneLearns, [Next]_vars
               PROVE  EveryoneLearns'
    OBVIOUS
  <1>1. ASSUME NEW p \in Pod, NEW r \in Room, NEW s \in Socket, NEW u \in Socket,
               OnlyPod(p)', Undeleted(r)', Open(s)', bound'[s] = r, user'[u] = r
        PROVE  Learns(replies'[p], view'[s], s, r, u)
    <2>1. TypeOK'
      BY TypeOKNext
    <2>2. CASE Arrive
      BY <1>1, <2>1, <2>2, ArriveLearns
    <2>3. CASE Resume(p)
      BY <1>1, <2>1, <2>3, SocketWorkLearns, OtherWorkLearns DEF Resume
    <2>4. ASSUME NEW q \in Pod, q # p, Resume(q) PROVE Learns(replies'[p], view'[s], s, r, u)
      BY <1>1, <2>1, <2>4, ElsewhereLearns
    <2>5. CASE UNCHANGED vars
      <3>1. bound[s] = r /\ user[u] = r /\ view'[s] = view[s] /\ replies'[p] = replies[p]
        BY <1>1, <2>5 DEF vars, store
      <3> QED BY <1>1, <2>1, <3>1, NothingTold
    <2>6. Arrive \/ (\E q \in Pod : Resume(q)) \/ UNCHANGED vars
      BY Zenon DEF Next
    <2>7. CASE \E q \in Pod : Resume(q)
      BY <2>3, <2>4, <2>7, Zenon
    <2> QED BY <2>2, <2>5, <2>6, <2>7, Zenon
  <1>2. ASSUME NEW p \in Pod, NEW r \in Room, NEW s \in Socket, NEW u \in Socket,
               OnlyPod(p)', Undeleted(r)', Open(s)', bound'[s] = r, user'[u] = r
        PROVE  Learns(replies[p], view[s], s, r, u)'
    <2>1. Learns(replies'[p], view'[s], s, r, u)
      BY <1>1, <1>2
    <2> QED BY <2>1, Zenon DEF Learns
  <1> QED BY <1>2, Zenon DEF EveryoneLearns

\* On one pod, however joins, leaves, relays and the ends of rooms overlap between
\* their store calls, nobody is left with a list that lacks a user of its room.
THEOREM OnOnePodPeersAgree == Spec => []PeersOnOnePodAgree
  <1>1. Init => ListsInOrder /\ EveryoneLearns
    BY NoRoomAssumption DEF Init, ListsInOrder, UsersOf, EveryoneLearns, Open
  <1>2. EveryoneLearns => PeersOnOnePodAgree
    <2> SUFFICES ASSUME EveryoneLearns, NEW p \in Pod, OnlyPod(p), Settled,
                        NEW s \in Socket, NEW r \in Room, In(s, r), NEW u \in Socket, user[u] = r
                 PROVE  u \in view[s]
      BY DEF PeersOnOnePodAgree, ClientsKnowTheirPeers, UsersOf, OnlyPod
    <2>1. Learns(replies[p], view[s], s, r, u) /\ replies[p] = << >>
      BY DEF EveryoneLearns, In, Found, Undeleted, Settled
    <2> QED BY <2>1 DEF Learns
  <1> QED BY <1>1, <1>2, LearnsNext, ListsInOrderNext, WorkInit, WorkNext, TypeCorrect, PTL DEF Spec

=============================================================================
