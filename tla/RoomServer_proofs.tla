-------------------------- MODULE RoomServer_proofs --------------------------
(***************************************************************************)
(* Theorems about RoomServer for any sets of sockets, rooms and keys.      *)
(* The inductive invariant is the conjunction of the type invariant, the   *)
(* agreement of bindings with records, the liveness of every room that has *)
(* people, a role for every user, and the blankness of sockets that have   *)
(* not connected yet, without which the first step of a socket could bind  *)
(* it to a room that an approval has put it in.                            *)
(***************************************************************************)
EXTENDS RoomServer, TLAPS

-----------------------------------------------------------------------------
(* What the helpers that build frames return.                              *)

LEMMA MessageTypes ==
    ASSUME NEW r \in Room, NEW us \in SUBSET Socket, NEW role \in Role
    PROVE  /\ JoinResult(r, us, role) \in Message
           /\ UserList(us) \in Message
           /\ Relayed(r) \in Message
           /\ Direct(r) \in Message
           /\ RoleChanged(role) \in Message
           /\ Terminated \in Message
  BY DEF Message, JoinResult, UserList, Relayed, Direct, RoleChanged, Terminated

LEMMA SentType ==
    ASSUME TypeOK, NEW targets, NEW m \in Message
    PROVE  Sent(targets, m) \in [Socket -> Seq(Message)]
  BY DEF TypeOK, Sent

LEMMA UsersOfType ==
    ASSUME NEW rec, NEW r PROVE UsersOf(rec, r) \in SUBSET Socket
  BY DEF UsersOf

LEMMA WelcomedType ==
    ASSUME TypeOK, NEW s \in Socket, NEW r \in Room, NEW us \in SUBSET Socket,
           NEW binding, NEW role \in Role
    PROVE  Welcomed(s, r, us, binding, role) \in [Socket -> Seq(Message)]
  <1>1. JoinResult(r, us, role) \in Message /\ UserList(us) \in Message
    BY MessageTypes
  <1> QED BY <1>1 DEF TypeOK, Welcomed

LEMMA AfterMessageType ==
    ASSUME NEW v \in View, NEW m \in Message
    PROVE  AfterMessage(v, m) \in View
  <1>1. CASE m.type = "JOIN_RESULT"
    BY <1>1 DEF AfterMessage, Message, View
  <1>2. CASE m.type = "USER_LIST"
    BY <1>2 DEF AfterMessage, Message, View
  <1>3. CASE m.type = "ROOM_TERMINATED"
    BY <1>3 DEF AfterMessage, View
  <1>4. CASE m.type \notin {"JOIN_RESULT", "USER_LIST", "ROOM_TERMINATED"}
    BY <1>4 DEF AfterMessage
  <1> QED BY <1>1, <1>2, <1>3, <1>4

-----------------------------------------------------------------------------
(* Type correctness.                                                       *)

LEMMA TypeOKInit == Init => TypeOK
  BY DEF Init, TypeOK, BlankView, View, NoRole

LEMMA TypeOKNext == TypeOK /\ [Next]_vars => TypeOK'
  <1> SUFFICES ASSUME TypeOK, [Next]_vars PROVE TypeOK'
    OBVIOUS
  <1> USE GrantsAssumption
  <1>1. ASSUME NEW s \in Socket, Connect(s) PROVE TypeOK'
    BY <1>1 DEF Connect, TypeOK, records
  <1>2. ASSUME NEW s \in Socket, ClientClose(s) PROVE TypeOK'
    BY <1>2 DEF ClientClose, TypeOK, records
  <1>3. ASSUME NEW s \in Socket, ClientDies(s) PROVE TypeOK'
    BY <1>3 DEF ClientDies, TypeOK, records
  <1>4. ASSUME NEW s \in Socket, Pong(s) PROVE TypeOK'
    BY <1>4 DEF Pong, TypeOK, records
  <1>5. ASSUME NEW s \in Socket, SocketClosed(s) PROVE TypeOK'
    <2> DEFINE us == UsersOf([users EXCEPT ![s] = NoRoom], users[s])
               targets == IF users[s] = NoRoom THEN {} ELSE Recipients(roomOf, users[s], s)
    <2>1. UserList(us) \in Message
      BY UsersOfType DEF UserList, Message
    <2>2. Sent(targets, UserList(us)) \in [Socket -> Seq(Message)]
      BY <2>1, SentType
    <2>3. wire' = [Sent(targets, UserList(us)) EXCEPT ![s] = << >>]
      BY <1>5 DEF SocketClosed, UsersWithout
    <2> HIDE DEF us, targets
    <2>4. << >> \in Seq(Message)
      OBVIOUS
    <2>5. wire' \in [Socket -> Seq(Message)]
      BY <2>2, <2>3, <2>4
    <2> QED BY <1>5, <2>5 DEF SocketClosed, UsersWithout, TypeOK, records, View, BlankView, NoRole
  <1>6. ASSUME NEW s \in Socket, NEW r \in Room, NEW k \in Key, CreateRoom(s, r, k)
        PROVE  TypeOK'
    <2>1. wire' \in [Socket -> Seq(Message)]
      BY <1>6, WelcomedType, UsersOfType DEF CreateRoom, Unused, Role
    <2> QED BY <1>6, <2>1 DEF CreateRoom, Unused, TypeOK, sockets, Role
  <1>7. ASSUME NEW s \in Socket, NEW r \in Room, NEW k \in Key, NEW role \in Role,
               JoinRoom(s, r, k, role)
        PROVE  TypeOK'
    <2>1. wire' \in [Socket -> Seq(Message)]
      BY <1>7, WelcomedType, UsersOfType DEF JoinRoom, Role
    <2> QED BY <1>7, <2>1 DEF JoinRoom, TypeOK, sockets, Role
  <1>8. ASSUME NEW s \in Socket, NEW r \in Room, NEW k \in Key, AskToJoin(s, r, k)
        PROVE  TypeOK'
    BY <1>8 DEF AskToJoin, TypeOK, sockets
  <1>9. ASSUME NEW s \in Socket, NEW t \in Socket, NEW role \in Grants, ApproveJoin(s, t, role)
        PROVE  TypeOK'
    <2>1. roomOf[s] \in Room
      BY <1>9 DEF ApproveJoin, RemovePendingJoin, Admin, Live
    <2>2. wire' \in [Socket -> Seq(Message)]
      BY <1>9, <2>1, WelcomedType, UsersOfType DEF ApproveJoin, RemovePendingJoin
    <2>3. pending' \in [Room -> [Socket -> Nat]]
      BY <1>9, <2>1 DEF ApproveJoin, RemovePendingJoin, TypeOK
    <2> QED BY <1>9, <2>1, <2>2, <2>3 DEF ApproveJoin, RemovePendingJoin, TypeOK, sockets
  <1>10. ASSUME NEW s \in Socket, NEW t \in Socket, DenyJoin(s, t) PROVE TypeOK'
    <2>1. roomOf[s] \in Room
      BY <1>10 DEF DenyJoin, RemovePendingJoin, Admin, Live
    <2> QED BY <1>10, <2>1 DEF DenyJoin, RemovePendingJoin, TypeOK, sockets, records
  <1>11. ASSUME NEW s \in Socket, NEW t \in Socket, NEW role \in Grants, SetRole(s, t, role)
         PROVE  TypeOK'
    <2>1. RoleChanged(role) \in Message
      BY DEF RoleChanged, Message
    <2>2. wire' \in [Socket -> Seq(Message)]
      BY <1>11, <2>1, SentType DEF SetRole
    <2> QED BY <1>11, <2>2 DEF SetRole, TypeOK, sockets, records
  <1>12. ASSUME NEW s \in Socket, NEW t \in Socket, RelayTo(s, t) PROVE TypeOK'
    <2>1. roomOf[s] \in Room
      BY <1>12 DEF RelayTo, InRoom, TypeOK
    <2>2. wire' \in [Socket -> Seq(Message)]
      BY <1>12, <2>1, SentType DEF RelayTo, Direct, Message
    <2> QED BY <1>12, <2>1, <2>2 DEF RelayTo, Touched, TypeOK, sockets
  <1>13. ASSUME NEW s \in Socket, Relay(s) PROVE TypeOK'
    <2>1. roomOf[s] \in Room
      BY <1>13 DEF Relay, InRoom, TypeOK
    <2>2. wire' \in [Socket -> Seq(Message)]
      BY <1>13, <2>1, SentType DEF Relay, Relayed, Message
    <2> QED BY <1>13, <2>1, <2>2 DEF Relay, Touched, TypeOK, sockets
  <1>14. ASSUME NEW s \in Socket, DeactivateRoom(s) PROVE TypeOK'
    BY <1>14 DEF DeactivateRoom, TypeOK, sockets
  <1>15. ASSUME NEW s \in Socket, CancelDeactivation(s) PROVE TypeOK'
    BY <1>15 DEF CancelDeactivation, TypeOK, sockets
  <1>16. ASSUME NEW s \in Socket, NEW k \in Key, RotateKey(s, k) PROVE TypeOK'
    BY <1>16 DEF RotateKey, TypeOK, sockets
  <1>17. ASSUME NEW s \in Socket, Deliver(s) PROVE TypeOK'
    <2>1. Head(wire[s]) \in Message /\ Tail(wire[s]) \in Seq(Message)
      BY <1>17 DEF Deliver, TypeOK
    <2>2. AfterMessage(view[s], Head(wire[s])) \in View
      BY <2>1, AfterMessageType DEF TypeOK
    <2> QED BY <1>17, <2>1, <2>2 DEF Deliver, TypeOK, sockets, records
  <1>18. ASSUME NEW r \in Room, RoomGoesIdle(r) PROVE TypeOK'
    BY <1>18 DEF RoomGoesIdle, TypeOK, sockets
  <1>19. ASSUME NEW r \in Room, DeadlinePasses(r) PROVE TypeOK'
    BY <1>19 DEF DeadlinePasses, TypeOK, sockets
  <1>20. CASE Heartbeat
    BY <1>20 DEF Heartbeat, TypeOK, records
  <1>21. CASE Cleanup
    <2>1. wire' \in [Socket -> Seq(Message)]
      BY <1>21, SentType DEF Cleanup, Surviving, PendingLeft, UsersLeft, BindingsLeft, ToldOfTheEnd, Terminated, Message
    <2>2. pending' \in [Room -> [Socket -> Nat]]
      BY <1>21 DEF Cleanup, Surviving, PendingLeft, UsersLeft, BindingsLeft, ToldOfTheEnd, TypeOK
    <2> QED BY <1>21, <2>1, <2>2 DEF Cleanup, Surviving, PendingLeft, UsersLeft, BindingsLeft, ToldOfTheEnd, TypeOK, sockets
  <1>22. CASE UNCHANGED vars
    BY <1>22 DEF vars, sockets, records, TypeOK
  <1> QED
    BY <1>1, <1>2, <1>3, <1>4, <1>5, <1>6, <1>7, <1>8, <1>9, <1>10, <1>11, <1>12, <1>13,
       <1>14, <1>15, <1>16, <1>17, <1>18, <1>19, <1>20, <1>21, <1>22
       DEF Next, Connection, Entering, Acting

\* Every variable of the node, its store and its clients' views keeps its type.
THEOREM TypeCorrect == Spec => []TypeOK
  BY TypeOKInit, TypeOKNext, PTL DEF Spec

-----------------------------------------------------------------------------
(* Bindings, records, rooms and roles.                                     *)

IInv ==
    /\ TypeOK
    /\ NewSocketsAreBlank
    /\ BindingMatchesRecord
    /\ OnlyLiveRoomsHavePeople
    /\ EveryUserHasRole

LEMMA IInvInit == Init => IInv
  <1> SUFFICES ASSUME Init PROVE IInv
    OBVIOUS
  <1>1. TypeOK
    BY TypeOKInit
  <1> QED
    BY <1>1 DEF Init, IInv, NewSocketsAreBlank, BindingMatchesRecord, OnlyLiveRoomsHavePeople,
                EveryUserHasRole, Connected

LEMMA NewBlankNext == IInv /\ [Next]_vars => NewSocketsAreBlank'
  <1> SUFFICES ASSUME IInv, [Next]_vars PROVE NewSocketsAreBlank'
    OBVIOUS
  <1> USE DEF IInv, NewSocketsAreBlank, Connected, Open
  <1>1. ASSUME NEW s \in Socket, Connect(s)
        PROVE  NewSocketsAreBlank'
    BY <1>1 DEF Connect, TypeOK, sockets, records
  <1>2. ASSUME NEW s \in Socket, ClientClose(s)
        PROVE  NewSocketsAreBlank'
    BY <1>2 DEF ClientClose, TypeOK, sockets, records
  <1>3. ASSUME NEW s \in Socket, ClientDies(s)
        PROVE  NewSocketsAreBlank'
    BY <1>3 DEF ClientDies, TypeOK, sockets, records
  <1>4. ASSUME NEW s \in Socket, Pong(s)
        PROVE  NewSocketsAreBlank'
    BY <1>4 DEF Pong, TypeOK, sockets, records
  <1>5. ASSUME NEW s \in Socket, SocketClosed(s)
        PROVE  NewSocketsAreBlank'
    BY <1>5 DEF SocketClosed, UsersWithout, TypeOK, sockets, records
  <1>6. ASSUME NEW s \in Socket, NEW r \in Room, NEW k \in Key, CreateRoom(s, r, k)
        PROVE  NewSocketsAreBlank'
    BY <1>6 DEF CreateRoom, Unused, CanAct, TypeOK, sockets, records
  <1>7. ASSUME NEW s \in Socket, NEW r \in Room, NEW k \in Key, NEW role \in Role,
               JoinRoom(s, r, k, role)
        PROVE  NewSocketsAreBlank'
    BY <1>7 DEF JoinRoom, MayJoin, CanAct, TypeOK, sockets, records
  <1>8. ASSUME NEW s \in Socket, NEW r \in Room, NEW k \in Key, AskToJoin(s, r, k)
        PROVE  NewSocketsAreBlank'
    BY <1>8 DEF AskToJoin, MayJoin, CanAct, TypeOK, sockets, records
  <1>9. ASSUME NEW s \in Socket, NEW t \in Socket, NEW role \in Grants, ApproveJoin(s, t, role)
        PROVE  NewSocketsAreBlank'
    BY <1>9 DEF ApproveJoin, RemovePendingJoin, Admin, Live, TypeOK, sockets, records
  <1>10. ASSUME NEW s \in Socket, NEW t \in Socket, DenyJoin(s, t)
        PROVE  NewSocketsAreBlank'
    BY <1>10 DEF DenyJoin, RemovePendingJoin, TypeOK, sockets, records
  <1>11. ASSUME NEW s \in Socket, NEW t \in Socket, NEW role \in Grants, SetRole(s, t, role)
        PROVE  NewSocketsAreBlank'
    BY <1>11 DEF SetRole, TypeOK, sockets, records
  <1>12. ASSUME NEW s \in Socket, NEW t \in Socket, RelayTo(s, t)
        PROVE  NewSocketsAreBlank'
    BY <1>12 DEF RelayTo, TypeOK, sockets, records
  <1>13. ASSUME NEW s \in Socket, Relay(s)
        PROVE  NewSocketsAreBlank'
    BY <1>13 DEF Relay, TypeOK, sockets, records
  <1>14. ASSUME NEW s \in Socket, DeactivateRoom(s)
        PROVE  NewSocketsAreBlank'
    BY <1>14 DEF DeactivateRoom, TypeOK, sockets, records
  <1>15. ASSUME NEW s \in Socket, CancelDeactivation(s)
        PROVE  NewSocketsAreBlank'
    BY <1>15 DEF CancelDeactivation, TypeOK, sockets, records
  <1>16. ASSUME NEW s \in Socket, NEW k \in Key, RotateKey(s, k)
        PROVE  NewSocketsAreBlank'
    BY <1>16 DEF RotateKey, TypeOK, sockets, records
  <1>17. ASSUME NEW s \in Socket, Deliver(s)
        PROVE  NewSocketsAreBlank'
    BY <1>17 DEF Deliver, TypeOK, sockets, records
  <1>18. ASSUME NEW r \in Room, RoomGoesIdle(r)
        PROVE  NewSocketsAreBlank'
    BY <1>18 DEF RoomGoesIdle, TypeOK, sockets, records
  <1>19. ASSUME NEW r \in Room, DeadlinePasses(r)
        PROVE  NewSocketsAreBlank'
    BY <1>19 DEF DeadlinePasses, TypeOK, sockets, records
  <1>20. CASE Heartbeat
    BY <1>20 DEF Heartbeat, TypeOK, sockets, records
  <1>21. CASE Cleanup
    BY <1>21 DEF Cleanup, Surviving, PendingLeft, UsersLeft, BindingsLeft, ToldOfTheEnd, TypeOK, sockets, records
  <1>22. CASE UNCHANGED vars
    BY <1>22 DEF vars, sockets, records
  <1> QED
    BY <1>1, <1>2, <1>3, <1>4, <1>5, <1>6, <1>7, <1>8, <1>9, <1>10, <1>11, <1>12, <1>13, <1>14, <1>15, <1>16, <1>17, <1>18, <1>19, <1>20, <1>21, <1>22
       DEF Next, Connection, Entering, Acting

LEMMA BindingNext == IInv /\ [Next]_vars => BindingMatchesRecord'
  <1> SUFFICES ASSUME IInv, [Next]_vars PROVE BindingMatchesRecord'
    OBVIOUS
  <1> USE DEF IInv, BindingMatchesRecord, Connected, Open
  <1>1. ASSUME NEW s \in Socket, Connect(s)
        PROVE  BindingMatchesRecord'
    BY <1>1 DEF Connect, NewSocketsAreBlank, TypeOK, sockets, records
  <1>2. ASSUME NEW s \in Socket, ClientClose(s)
        PROVE  BindingMatchesRecord'
    BY <1>2 DEF ClientClose, TypeOK, sockets, records
  <1>3. ASSUME NEW s \in Socket, ClientDies(s)
        PROVE  BindingMatchesRecord'
    BY <1>3 DEF ClientDies, TypeOK, sockets, records
  <1>4. ASSUME NEW s \in Socket, Pong(s)
        PROVE  BindingMatchesRecord'
    BY <1>4 DEF Pong, TypeOK, sockets, records
  <1>5. ASSUME NEW s \in Socket, SocketClosed(s)
        PROVE  BindingMatchesRecord'
    BY <1>5 DEF SocketClosed, UsersWithout, TypeOK, sockets, records
  <1>6. ASSUME NEW s \in Socket, NEW r \in Room, NEW k \in Key, CreateRoom(s, r, k)
        PROVE  BindingMatchesRecord'
    BY <1>6 DEF CreateRoom, Unused, TypeOK, sockets, records
  <1>7. ASSUME NEW s \in Socket, NEW r \in Room, NEW k \in Key, NEW role \in Role,
               JoinRoom(s, r, k, role)
        PROVE  BindingMatchesRecord'
    BY <1>7 DEF JoinRoom, TypeOK, sockets, records
  <1>8. ASSUME NEW s \in Socket, NEW r \in Room, NEW k \in Key, AskToJoin(s, r, k)
        PROVE  BindingMatchesRecord'
    BY <1>8 DEF AskToJoin, TypeOK, sockets, records
  <1>9. ASSUME NEW s \in Socket, NEW t \in Socket, NEW role \in Grants, ApproveJoin(s, t, role)
        PROVE  BindingMatchesRecord'
    BY <1>9 DEF ApproveJoin, RemovePendingJoin, TypeOK, sockets, records
  <1>10. ASSUME NEW s \in Socket, NEW t \in Socket, DenyJoin(s, t)
        PROVE  BindingMatchesRecord'
    BY <1>10 DEF DenyJoin, RemovePendingJoin, TypeOK, sockets, records
  <1>11. ASSUME NEW s \in Socket, NEW t \in Socket, NEW role \in Grants, SetRole(s, t, role)
        PROVE  BindingMatchesRecord'
    BY <1>11 DEF SetRole, TypeOK, sockets, records
  <1>12. ASSUME NEW s \in Socket, NEW t \in Socket, RelayTo(s, t)
        PROVE  BindingMatchesRecord'
    BY <1>12 DEF RelayTo, TypeOK, sockets, records
  <1>13. ASSUME NEW s \in Socket, Relay(s)
        PROVE  BindingMatchesRecord'
    BY <1>13 DEF Relay, TypeOK, sockets, records
  <1>14. ASSUME NEW s \in Socket, DeactivateRoom(s)
        PROVE  BindingMatchesRecord'
    BY <1>14 DEF DeactivateRoom, TypeOK, sockets, records
  <1>15. ASSUME NEW s \in Socket, CancelDeactivation(s)
        PROVE  BindingMatchesRecord'
    BY <1>15 DEF CancelDeactivation, TypeOK, sockets, records
  <1>16. ASSUME NEW s \in Socket, NEW k \in Key, RotateKey(s, k)
        PROVE  BindingMatchesRecord'
    BY <1>16 DEF RotateKey, TypeOK, sockets, records
  <1>17. ASSUME NEW s \in Socket, Deliver(s)
        PROVE  BindingMatchesRecord'
    BY <1>17 DEF Deliver, TypeOK, sockets, records
  <1>18. ASSUME NEW r \in Room, RoomGoesIdle(r)
        PROVE  BindingMatchesRecord'
    BY <1>18 DEF RoomGoesIdle, TypeOK, sockets, records
  <1>19. ASSUME NEW r \in Room, DeadlinePasses(r)
        PROVE  BindingMatchesRecord'
    BY <1>19 DEF DeadlinePasses, TypeOK, sockets, records
  <1>20. CASE Heartbeat
    BY <1>20 DEF Heartbeat, TypeOK, sockets, records
  <1>21. CASE Cleanup
    BY <1>21 DEF Cleanup, Surviving, PendingLeft, UsersLeft, BindingsLeft, ToldOfTheEnd, TypeOK, sockets, records
  <1>22. CASE UNCHANGED vars
    BY <1>22 DEF vars, sockets, records
  <1> QED
    BY <1>1, <1>2, <1>3, <1>4, <1>5, <1>6, <1>7, <1>8, <1>9, <1>10, <1>11, <1>12, <1>13, <1>14, <1>15, <1>16, <1>17, <1>18, <1>19, <1>20, <1>21, <1>22
       DEF Next, Connection, Entering, Acting

LEMMA LiveRoomsNext == IInv /\ [Next]_vars => OnlyLiveRoomsHavePeople'
  <1> SUFFICES ASSUME IInv, [Next]_vars PROVE OnlyLiveRoomsHavePeople'
    OBVIOUS
  <1> USE DEF IInv, OnlyLiveRoomsHavePeople, Live
  <1>1. ASSUME NEW s \in Socket, Connect(s)
        PROVE  OnlyLiveRoomsHavePeople'
    BY <1>1 DEF Connect, TypeOK, sockets, records
  <1>2. ASSUME NEW s \in Socket, ClientClose(s)
        PROVE  OnlyLiveRoomsHavePeople'
    BY <1>2 DEF ClientClose, TypeOK, sockets, records
  <1>3. ASSUME NEW s \in Socket, ClientDies(s)
        PROVE  OnlyLiveRoomsHavePeople'
    BY <1>3 DEF ClientDies, TypeOK, sockets, records
  <1>4. ASSUME NEW s \in Socket, Pong(s)
        PROVE  OnlyLiveRoomsHavePeople'
    BY <1>4 DEF Pong, TypeOK, sockets, records
  <1>5. ASSUME NEW s \in Socket, SocketClosed(s)
        PROVE  OnlyLiveRoomsHavePeople'
    BY <1>5 DEF SocketClosed, UsersWithout, TypeOK, sockets, records
  <1>6. ASSUME NEW s \in Socket, NEW r \in Room, NEW k \in Key, CreateRoom(s, r, k)
        PROVE  OnlyLiveRoomsHavePeople'
    BY <1>6 DEF CreateRoom, Unused, TypeOK, sockets, records
  <1>7. ASSUME NEW s \in Socket, NEW r \in Room, NEW k \in Key, NEW role \in Role,
               JoinRoom(s, r, k, role)
        PROVE  OnlyLiveRoomsHavePeople'
    BY <1>7 DEF JoinRoom, MayJoin, TypeOK, sockets, records
  <1>8. ASSUME NEW s \in Socket, NEW r \in Room, NEW k \in Key, AskToJoin(s, r, k)
        PROVE  OnlyLiveRoomsHavePeople'
    BY <1>8 DEF AskToJoin, MayJoin, TypeOK, sockets, records
  <1>9. ASSUME NEW s \in Socket, NEW t \in Socket, NEW role \in Grants, ApproveJoin(s, t, role)
        PROVE  OnlyLiveRoomsHavePeople'
    BY <1>9 DEF ApproveJoin, RemovePendingJoin, TypeOK, sockets, records
  <1>10. ASSUME NEW s \in Socket, NEW t \in Socket, DenyJoin(s, t)
        PROVE  OnlyLiveRoomsHavePeople'
    BY <1>10 DEF DenyJoin, RemovePendingJoin, TypeOK, sockets, records
  <1>11. ASSUME NEW s \in Socket, NEW t \in Socket, NEW role \in Grants, SetRole(s, t, role)
        PROVE  OnlyLiveRoomsHavePeople'
    BY <1>11 DEF SetRole, TypeOK, sockets, records
  <1>12. ASSUME NEW s \in Socket, NEW t \in Socket, RelayTo(s, t)
        PROVE  OnlyLiveRoomsHavePeople'
    BY <1>12 DEF RelayTo, TypeOK, sockets, records
  <1>13. ASSUME NEW s \in Socket, Relay(s)
        PROVE  OnlyLiveRoomsHavePeople'
    BY <1>13 DEF Relay, TypeOK, sockets, records
  <1>14. ASSUME NEW s \in Socket, DeactivateRoom(s)
        PROVE  OnlyLiveRoomsHavePeople'
    BY <1>14 DEF DeactivateRoom, TypeOK, sockets, records
  <1>15. ASSUME NEW s \in Socket, CancelDeactivation(s)
        PROVE  OnlyLiveRoomsHavePeople'
    BY <1>15 DEF CancelDeactivation, TypeOK, sockets, records
  <1>16. ASSUME NEW s \in Socket, NEW k \in Key, RotateKey(s, k)
        PROVE  OnlyLiveRoomsHavePeople'
    BY <1>16 DEF RotateKey, TypeOK, sockets, records
  <1>17. ASSUME NEW s \in Socket, Deliver(s)
        PROVE  OnlyLiveRoomsHavePeople'
    BY <1>17 DEF Deliver, TypeOK, sockets, records
  <1>18. ASSUME NEW r \in Room, RoomGoesIdle(r)
        PROVE  OnlyLiveRoomsHavePeople'
    BY <1>18 DEF RoomGoesIdle, TypeOK, sockets, records
  <1>19. ASSUME NEW r \in Room, DeadlinePasses(r)
        PROVE  OnlyLiveRoomsHavePeople'
    BY <1>19 DEF DeadlinePasses, TypeOK, sockets, records
  <1>20. CASE Heartbeat
    BY <1>20 DEF Heartbeat, TypeOK, sockets, records
  <1>21. CASE Cleanup
    BY <1>21 DEF Cleanup, Surviving, PendingLeft, UsersLeft, BindingsLeft, ToldOfTheEnd, TypeOK, sockets, records
  <1>22. CASE UNCHANGED vars
    BY <1>22 DEF vars, sockets, records
  <1> QED
    BY <1>1, <1>2, <1>3, <1>4, <1>5, <1>6, <1>7, <1>8, <1>9, <1>10, <1>11, <1>12, <1>13, <1>14, <1>15, <1>16, <1>17, <1>18, <1>19, <1>20, <1>21, <1>22
       DEF Next, Connection, Entering, Acting

LEMMA RolesNext == IInv /\ [Next]_vars => EveryUserHasRole'
  <1> SUFFICES ASSUME IInv, [Next]_vars PROVE EveryUserHasRole'
    OBVIOUS
  <1> USE DEF IInv, EveryUserHasRole, Role, NoRole
  <1>1. ASSUME NEW s \in Socket, Connect(s)
        PROVE  EveryUserHasRole'
    BY <1>1 DEF Connect, TypeOK, sockets, records
  <1>2. ASSUME NEW s \in Socket, ClientClose(s)
        PROVE  EveryUserHasRole'
    BY <1>2 DEF ClientClose, TypeOK, sockets, records
  <1>3. ASSUME NEW s \in Socket, ClientDies(s)
        PROVE  EveryUserHasRole'
    BY <1>3 DEF ClientDies, TypeOK, sockets, records
  <1>4. ASSUME NEW s \in Socket, Pong(s)
        PROVE  EveryUserHasRole'
    BY <1>4 DEF Pong, TypeOK, sockets, records
  <1>5. ASSUME NEW s \in Socket, SocketClosed(s)
        PROVE  EveryUserHasRole'
    BY <1>5 DEF SocketClosed, UsersWithout, TypeOK, sockets, records
  <1>6. ASSUME NEW s \in Socket, NEW r \in Room, NEW k \in Key, CreateRoom(s, r, k)
        PROVE  EveryUserHasRole'
    BY <1>6 DEF CreateRoom, Unused, TypeOK, sockets, records
  <1>7. ASSUME NEW s \in Socket, NEW r \in Room, NEW k \in Key, NEW role \in Role,
               JoinRoom(s, r, k, role)
        PROVE  EveryUserHasRole'
    BY <1>7 DEF JoinRoom, TypeOK, sockets, records
  <1>8. ASSUME NEW s \in Socket, NEW r \in Room, NEW k \in Key, AskToJoin(s, r, k)
        PROVE  EveryUserHasRole'
    BY <1>8 DEF AskToJoin, TypeOK, sockets, records
  <1>9. ASSUME NEW s \in Socket, NEW t \in Socket, NEW role \in Grants, ApproveJoin(s, t, role)
        PROVE  EveryUserHasRole'
    BY <1>9, GrantsAssumption DEF ApproveJoin, RemovePendingJoin, TypeOK, sockets, records
  <1>10. ASSUME NEW s \in Socket, NEW t \in Socket, DenyJoin(s, t)
        PROVE  EveryUserHasRole'
    BY <1>10 DEF DenyJoin, RemovePendingJoin, TypeOK, sockets, records
  <1>11. ASSUME NEW s \in Socket, NEW t \in Socket, NEW role \in Grants, SetRole(s, t, role)
        PROVE  EveryUserHasRole'
    BY <1>11, GrantsAssumption DEF SetRole, TypeOK, sockets, records
  <1>12. ASSUME NEW s \in Socket, NEW t \in Socket, RelayTo(s, t)
        PROVE  EveryUserHasRole'
    BY <1>12 DEF RelayTo, TypeOK, sockets, records
  <1>13. ASSUME NEW s \in Socket, Relay(s)
        PROVE  EveryUserHasRole'
    BY <1>13 DEF Relay, TypeOK, sockets, records
  <1>14. ASSUME NEW s \in Socket, DeactivateRoom(s)
        PROVE  EveryUserHasRole'
    BY <1>14 DEF DeactivateRoom, TypeOK, sockets, records
  <1>15. ASSUME NEW s \in Socket, CancelDeactivation(s)
        PROVE  EveryUserHasRole'
    BY <1>15 DEF CancelDeactivation, TypeOK, sockets, records
  <1>16. ASSUME NEW s \in Socket, NEW k \in Key, RotateKey(s, k)
        PROVE  EveryUserHasRole'
    BY <1>16 DEF RotateKey, TypeOK, sockets, records
  <1>17. ASSUME NEW s \in Socket, Deliver(s)
        PROVE  EveryUserHasRole'
    BY <1>17 DEF Deliver, TypeOK, sockets, records
  <1>18. ASSUME NEW r \in Room, RoomGoesIdle(r)
        PROVE  EveryUserHasRole'
    BY <1>18 DEF RoomGoesIdle, TypeOK, sockets, records
  <1>19. ASSUME NEW r \in Room, DeadlinePasses(r)
        PROVE  EveryUserHasRole'
    BY <1>19 DEF DeadlinePasses, TypeOK, sockets, records
  <1>20. CASE Heartbeat
    BY <1>20 DEF Heartbeat, TypeOK, sockets, records
  <1>21. CASE Cleanup
    BY <1>21 DEF Cleanup, Surviving, PendingLeft, UsersLeft, BindingsLeft, ToldOfTheEnd, TypeOK, sockets, records
  <1>22. CASE UNCHANGED vars
    BY <1>22 DEF vars, sockets, records
  <1> QED
    BY <1>1, <1>2, <1>3, <1>4, <1>5, <1>6, <1>7, <1>8, <1>9, <1>10, <1>11, <1>12, <1>13, <1>14, <1>15, <1>16, <1>17, <1>18, <1>19, <1>20, <1>21, <1>22
       DEF Next, Connection, Entering, Acting

LEMMA IInvNext == IInv /\ [Next]_vars => IInv'
  <1> SUFFICES ASSUME IInv, [Next]_vars PROVE IInv'
    OBVIOUS
  <1>1. TypeOK'
    BY TypeOKNext DEF IInv
  <1> QED
    BY <1>1, NewBlankNext, BindingNext, LiveRoomsNext, RolesNext DEF IInv

LEMMA Invariance == Spec => []IInv
  BY IInvInit, IInvNext, PTL DEF Spec

\* A connected socket is bound to exactly the room its user record is in.
THEOREM BindingsAgree == Spec => []BindingMatchesRecord
  <1>1. IInv => BindingMatchesRecord
    BY DEF IInv
  <1> QED BY <1>1, Invariance, PTL

\* Users and waiting requests exist only in rooms that exist.
THEOREM PeopleOnlyInLiveRooms == Spec => []OnlyLiveRoomsHavePeople
  <1>1. IInv => OnlyLiveRoomsHavePeople
    BY DEF IInv
  <1> QED BY <1>1, Invariance, PTL

\* Every user has a role of its own in the room manager.
THEOREM UsersHaveRoles == Spec => []EveryUserHasRole
  <1>1. IInv => EveryUserHasRole
    BY DEF IInv
  <1> QED BY <1>1, Invariance, PTL

-----------------------------------------------------------------------------
(* Approvals and sockets that are gone.                                    *)

LEMMA RevivalStep ==
    ASSUME IInv, [Next]_vars, NEW s \in Socket,
           conn[s] = "gone", users[s] = NoRoom, users'[s] # NoRoom
    PROVE  pending'[users'[s]][s] < pending[users'[s]][s]
  <1> USE DEF IInv, TypeOK
  <1>1. ASSUME NEW u \in Socket, NEW role \in Grants, ApproveJoin(u, s, role)
        PROVE  pending'[users'[s]][s] < pending[users'[s]][s]
    <2>1. roomOf[u] \in Room
      BY <1>1 DEF ApproveJoin, RemovePendingJoin, Admin, Live
    <2>2. users'[s] = roomOf[u]
      BY <1>1 DEF ApproveJoin, RemovePendingJoin
    <2>3. pending'[roomOf[u]][s] = pending[roomOf[u]][s] - 1
      BY <1>1, <2>1 DEF ApproveJoin, RemovePendingJoin
    <2>4. pending[roomOf[u]][s] \in Nat
      BY <2>1
    <2> QED BY <2>2, <2>3, <2>4
  <1>2. ASSUME NEW u \in Socket, NEW t \in Socket, NEW role \in Grants,
               ApproveJoin(u, t, role), t # s
        PROVE  FALSE
    BY <1>2 DEF ApproveJoin, RemovePendingJoin
  <1>3. ASSUME NEW u \in Socket, NEW r \in Room, NEW k \in Key, CreateRoom(u, r, k)
        PROVE  FALSE
    BY <1>3 DEF CreateRoom, Unused, CanAct, Connected
  <1>7. ASSUME NEW u \in Socket, NEW r \in Room, NEW k \in Key, NEW role \in Role,
               JoinRoom(u, r, k, role)
        PROVE  FALSE
    BY <1>7 DEF JoinRoom, MayJoin, CanAct, Connected
  <1>4. ASSUME NEW u \in Socket, SocketClosed(u) PROVE FALSE
    BY <1>4 DEF SocketClosed, UsersWithout
  <1>5. CASE Cleanup
    BY <1>5 DEF Cleanup, Surviving, PendingLeft, UsersLeft, BindingsLeft, ToldOfTheEnd
  <1>6. ASSUME UNCHANGED users PROVE FALSE
    BY <1>6
  <1> QED
    BY <1>1, <1>2, <1>3, <1>4, <1>5, <1>6, <1>7
       DEF Next, Connection, Entering, Acting, Connect, ClientClose, ClientDies, Pong,
           AskToJoin, DenyJoin, SetRole, RelayTo, Relay, DeactivateRoom, CancelDeactivation,
           RotateKey, Deliver, RoomGoesIdle, DeadlinePasses, Heartbeat, vars

\* After its close event, a socket becomes a user again only by an approval of
\* a request of its own that was still waiting.
THEOREM GhostsComeFromApprovals == Spec => OnlyApprovalRevivesGone
  <1>1. IInv /\ [Next]_vars =>
            [\A s \in Socket :
                conn[s] = "gone" /\ users[s] = NoRoom /\ users'[s] # NoRoom
                    => pending'[users'[s]][s] < pending[users'[s]][s]]_vars
    BY RevivalStep
  <1> QED BY <1>1, Invariance, PTL DEF Spec, OnlyApprovalRevivesGone

-----------------------------------------------------------------------------
(* The node implements RoomMembership.                                     *)

LEMMA MembershipInit == Init => Membership!Init
  BY DEF Init, Membership!Init

LEMMA MembershipStep == IInv /\ [Next]_vars => [Membership!Next]_(Membership!vars)
  <1> SUFFICES ASSUME IInv, [Next]_vars PROVE [Membership!Next]_(Membership!vars)
    OBVIOUS
  <1> USE DEF Membership!vars
  <1>1. ASSUME NEW s \in Socket, SocketClosed(s) PROVE [Membership!Next]_(Membership!vars)
    <2>1. CASE users[s] = NoRoom
      BY <1>1, <2>1 DEF SocketClosed, UsersWithout, records, IInv, TypeOK
    <2>2. CASE users[s] # NoRoom
      <3>1. Membership!Leave(s)
        BY <1>1, <2>2 DEF SocketClosed, UsersWithout, records, Membership!Leave
      <3> QED BY <3>1 DEF Membership!Next
    <2> QED BY <2>1, <2>2
  <1>2. ASSUME NEW s \in Socket, NEW r \in Room, NEW k \in Key, CreateRoom(s, r, k)
        PROVE  Membership!Next
    <2>1. Membership!OpenRoom(s, r)
      BY <1>2 DEF CreateRoom, Unused, Membership!OpenRoom
    <2> QED BY <2>1 DEF Membership!Next
  <1>3. ASSUME NEW s \in Socket, NEW r \in Room, NEW k \in Key, NEW role \in Role,
               JoinRoom(s, r, k, role)
        PROVE  Membership!Next
    <2>1. Membership!Enter(s, r)
      BY <1>3 DEF JoinRoom, MayJoin, Live, Membership!Enter
    <2> QED BY <2>1 DEF Membership!Next
  <1>4. ASSUME NEW s \in Socket, NEW t \in Socket, NEW role \in Grants,
               ApproveJoin(s, t, role)
        PROVE  Membership!Next
    <2>1. roomOf[s] \in Room /\ Membership!Enter(t, roomOf[s])
      BY <1>4 DEF ApproveJoin, RemovePendingJoin, Admin, Live, Membership!Enter
    <2> QED BY <2>1 DEF Membership!Next
  <1>5. CASE Cleanup
    <2>1. Membership!CloseRooms(Expired)
      BY <1>5 DEF Cleanup, Surviving, PendingLeft, UsersLeft, BindingsLeft, ToldOfTheEnd, Expired, Live, Membership!CloseRooms
    <2>2. Expired \in SUBSET Room
      BY DEF Expired
    <2> QED BY <2>1, <2>2 DEF Membership!Next
  <1>6. ASSUME UNCHANGED <<roomState, users>> PROVE [Membership!Next]_(Membership!vars)
    BY <1>6
  <1>7. ASSUME NEW s \in Socket, Connection(s) PROVE [Membership!Next]_(Membership!vars)
    BY <1>1, <1>6, <1>7 DEF Connection, Connect, ClientClose, ClientDies, Pong, records
  <1>8. ASSUME NEW s \in Socket, Entering(s) PROVE [Membership!Next]_(Membership!vars)
    BY <1>2, <1>3, <1>4, <1>6, <1>8 DEF Entering, AskToJoin, DenyJoin, records
  <1>9. ASSUME NEW s \in Socket, Acting(s) PROVE [Membership!Next]_(Membership!vars)
    BY <1>6, <1>9 DEF Acting, SetRole, RelayTo, Relay, DeactivateRoom, CancelDeactivation, RotateKey, records
  <1>10. ASSUME NEW s \in Socket, Deliver(s) PROVE UNCHANGED <<roomState, users>>
    BY <1>10 DEF Deliver, records
  <1>11. ASSUME NEW r \in Room, RoomGoesIdle(r) \/ DeadlinePasses(r) PROVE UNCHANGED <<roomState, users>>
    BY <1>11 DEF RoomGoesIdle, DeadlinePasses
  <1>12. CASE Heartbeat \/ UNCHANGED vars
    <2>1. UNCHANGED <<roomState, users>>
      BY <1>12 DEF Heartbeat, vars, records
    <2> QED BY <1>6, <2>1
  <1> QED BY <1>5, <1>6, <1>7, <1>8, <1>9, <1>10, <1>11, <1>12, Zenon DEF Next

\* The node's records and rooms behave as RoomMembership says.
THEOREM ImplementsMembership == Spec => KeepsMembership
  BY MembershipInit, MembershipStep, Invariance, PTL
     DEF Spec, KeepsMembership, Membership!Spec

-----------------------------------------------------------------------------
(* What a client knows once it has read everything sent to it.  A property *)
(* of drained wires is not inductive: the invariants here speak of the     *)
(* frames under way, and say where the whole of a wire leads its client.   *)

-----------------------------------------------------------------------------
(* Reading a wire.                                                         *)

LEMMA PrefixOfAppend ==
    ASSUME NEW q \in Seq(Message), NEW m \in Message, NEW n \in Nat, n <= Len(q),
           NEW here, NEW r, RoomAfter(here, q, n, r)
    PROVE  RoomAfter(here, Append(q, m), n, r)
  BY DEF RoomAfter

LEMMA StaysOnAppend ==
    ASSUME NEW q \in Seq(Message), NEW m \in Message, ~Moves(m), NEW here, NEW r,
           RoomAfter(here, q, Len(q), r)
    PROVE  RoomAfter(here, Append(q, m), Len(Append(q, m)), r)
  BY DEF RoomAfter

LEMMA MovesOnAppend ==
    ASSUME NEW q \in Seq(Message), NEW m \in Message, NEW here, NEW r, MovesTo(m, r)
    PROVE  RoomAfter(here, Append(q, m), Len(Append(q, m)), r)
  <1>1. Append(q, m)[Len(q) + 1] = m /\ Len(Append(q, m)) = Len(q) + 1 /\ Len(q) \in Nat
    OBVIOUS
  <1> QED BY <1>1 DEF RoomAfter

LEMMA RoomAfterDelivery ==
    ASSUME NEW q \in Seq(Message), q # << >>, NEW v \in View, NEW r,
           NEW n \in Nat, n + 1 <= Len(q), RoomAfter(v.room, q, n + 1, r)
    PROVE  RoomAfter(AfterMessage(v, Head(q)).room, Tail(q), n, r)
  <1> DEFINE here == AfterMessage(v, Head(q)).room
  <1>1. Tail(q) \in Seq(Message) /\ Len(Tail(q)) = Len(q) - 1 /\ Head(q) = q[1] /\ q[1] \in Message
    OBVIOUS
  <1>2. \A j \in 1 .. n : Tail(q)[j] = q[j + 1]
    OBVIOUS
  <1>3. ~Moves(q[1]) => here = v.room
    BY <1>1 DEF Moves, AfterMessage, View
  <1>4. MovesTo(q[1], r) => here = r
    BY <1>1 DEF MovesTo, AfterMessage, View
  <1> HIDE DEF here
  <1>5. CASE v.room = r /\ \A j \in 1 .. n + 1 : ~Moves(q[j])
    <2>1. here = r
      BY <1>3, <1>5
    <2>2. \A j \in 1 .. n : ~Moves(Tail(q)[j])
      BY <1>2, <1>5
    <2> QED BY <2>1, <2>2 DEF RoomAfter, here
  <1>6. ASSUME NEW j \in 1 .. n + 1, MovesTo(q[j], r), \A k \in j + 1 .. n + 1 : ~Moves(q[k])
        PROVE  RoomAfter(here, Tail(q), n, r)
    <2>1. CASE j = 1
      <3>1. here = r
        BY <1>4, <1>6, <2>1
      <3>2. \A k \in 1 .. n : ~Moves(Tail(q)[k])
        BY <1>2, <1>6, <2>1
      <3> QED BY <3>1, <3>2 DEF RoomAfter
    <2>2. CASE j # 1
      <3>1. j - 1 \in 1 .. n /\ MovesTo(Tail(q)[j - 1], r)
        BY <1>2, <1>6, <2>2
      <3>2. \A k \in (j - 1) + 1 .. n : ~Moves(Tail(q)[k])
        BY <1>2, <1>6, <2>2
      <3> QED BY <3>1, <3>2 DEF RoomAfter
    <2> QED BY <2>1, <2>2
  <1> QED BY <1>5, <1>6 DEF RoomAfter, here

-----------------------------------------------------------------------------
(* Where the wires lead.                                                   *)

\* The wire of an open socket leads its client to the room it is bound to,
\* every relayed frame on a wire is met in its room, and nothing was sent to
\* a socket before it connected.
Home(s) ==
    /\ conn[s] = "new" => wire[s] = << >> /\ view[s] = BlankView
    /\ Open(s) => RoomAfter(view[s].room, wire[s], Len(wire[s]), roomOf[s])
    /\ \A i \in 1 .. Len(wire[s]) :
        wire[s][i].type = "RELAY" => RoomAfter(view[s].room, wire[s], i - 1, wire[s][i].room)

EveryoneHome == \A s \in Socket : Home(s)

\* A frame added to the wire of an open socket: a relay from the room it is
\* bound to, a move to the room it is bound to from now on, or neither.
FrameAdded(s) ==
    \E m \in Message :
        /\ Open(s) /\ wire'[s] = Append(wire[s], m)
        /\ \/ MovesTo(m, roomOf'[s])
           \/ ~Moves(m) /\ roomOf'[s] = roomOf[s]
        /\ m.type = "RELAY" => m.room = roomOf[s]

\* All that a step other than its own connecting and reading may do to s.
WireStep(s) ==
    /\ view'[s] = view[s]
    /\ Open(s)' => Open(s)
    /\ conn'[s] = "new" => conn[s] = "new"
    /\ \/ wire'[s] = wire[s] /\ (roomOf'[s] = roomOf[s] \/ ~Open(s)')
       \/ FrameAdded(s)

LEMMA HomeInit == Init => EveryoneHome
  <1> SUFFICES ASSUME Init, NEW s \in Socket PROVE Home(s)
    BY DEF EveryoneHome
  <1> QED BY DEF Init, Home, Open

LEMMA HomeKept ==
    ASSUME TypeOK, TypeOK', NEW s \in Socket, Home(s), WireStep(s) PROVE Home(s)'
  <1>1. CASE wire'[s] = wire[s] /\ (roomOf'[s] = roomOf[s] \/ ~Open(s)')
    BY <1>1 DEF Home, WireStep
  <1>2. ASSUME NEW m \in Message,
               Open(s), wire'[s] = Append(wire[s], m),
               MovesTo(m, roomOf'[s]) \/ (~Moves(m) /\ roomOf'[s] = roomOf[s]),
               m.type = "RELAY" => m.room = roomOf[s]
        PROVE  Home(s)'
    <2> DEFINE q == wire[s]
               here == view[s].room
    <2>1. q \in Seq(Message) /\ Len(q) \in Nat /\ Len(Append(q, m)) = Len(q) + 1
      BY DEF TypeOK
    <2>2. RoomAfter(here, q, Len(q), roomOf[s])
      BY <1>2 DEF Home
    <2>3. conn'[s] # "new"
      BY <1>2 DEF WireStep, Open
    <2>4. RoomAfter(here, Append(q, m), Len(Append(q, m)), roomOf'[s])
      BY <1>2, <2>1, <2>2, StaysOnAppend, MovesOnAppend
    <2>5. ASSUME NEW i \in 1 .. Len(Append(q, m)), Append(q, m)[i].type = "RELAY"
          PROVE  RoomAfter(here, Append(q, m), i - 1, Append(q, m)[i].room)
      <3>1. CASE i \in 1 .. Len(q)
        <4>1. Append(q, m)[i] = q[i]
          BY <2>1, <3>1
        <4>2. RoomAfter(here, q, i - 1, q[i].room)
          BY <2>5, <3>1, <4>1 DEF Home
        <4>3. i - 1 \in Nat /\ i - 1 <= Len(q)
          BY <2>1, <3>1
        <4> HIDE DEF q, here
        <4> QED BY <2>1, <4>1, <4>2, <4>3, PrefixOfAppend
      <3>2. CASE i = Len(q) + 1
        <4>1. Append(q, m)[i] = m
          BY <2>1, <3>2
        <4>2. m.room = roomOf[s]
          BY <1>2, <2>5, <4>1
        <4>3. RoomAfter(here, q, Len(q), m.room)
          BY <2>2, <4>2
        <4> HIDE DEF q, here
        <4>4. RoomAfter(here, Append(q, m), Len(q), m.room)
          BY <2>1, <4>3, PrefixOfAppend
        <4>5. i - 1 = Len(q)
          BY <2>1, <3>2
        <4> QED BY <4>1, <4>4, <4>5
      <3> QED BY <2>1, <3>1, <3>2
    <2>6. wire'[s] = Append(q, m) /\ view'[s].room = here
      BY <1>2 DEF WireStep
    <2> HIDE DEF q, here
    <2> QED BY <2>3, <2>4, <2>5, <2>6 DEF Home
  <1> QED BY <1>1, <1>2 DEF WireStep, FrameAdded

LEMMA HomeDelivered ==
    ASSUME TypeOK, NEW s \in Socket, Home(s), Deliver(s) PROVE Home(s)'
  <1> DEFINE q == wire[s]
             here == AfterMessage(view[s], Head(q)).room
  <1>1. q \in Seq(Message) /\ q # << >> /\ Len(q) \in Nat \ {0} /\ view[s] \in View
    BY DEF TypeOK, Deliver
  <1>2. wire'[s] = Tail(q) /\ view'[s].room = here /\ conn' = conn /\ roomOf' = roomOf
    BY DEF Deliver, TypeOK, sockets
  <1>3. Tail(q) \in Seq(Message) /\ Len(Tail(q)) = Len(q) - 1
    BY <1>1
  <1>4. ASSUME Open(s) PROVE RoomAfter(here, Tail(q), Len(Tail(q)), roomOf[s])
    <2>1. RoomAfter(view[s].room, q, Len(q), roomOf[s])
      BY <1>4 DEF Home
    <2>2. Len(q) - 1 \in Nat /\ (Len(q) - 1) + 1 = Len(q)
      BY <1>1
    <2>3. RoomAfter(view[s].room, q, (Len(q) - 1) + 1, roomOf[s])
      BY <2>1, <2>2
    <2>4. (Len(q) - 1) + 1 <= Len(q)
      BY <1>1
    <2> HIDE DEF q
    <2>5. RoomAfter(here, Tail(q), Len(q) - 1, roomOf[s])
      BY <1>1, <2>2, <2>3, <2>4, RoomAfterDelivery
    <2> QED BY <1>3, <2>5
  <1>5. ASSUME NEW i \in 1 .. Len(Tail(q)), Tail(q)[i].type = "RELAY"
        PROVE  RoomAfter(here, Tail(q), i - 1, Tail(q)[i].room)
    <2>1. i + 1 \in 1 .. Len(q) /\ Tail(q)[i] = q[i + 1]
      BY <1>1, <1>3
    <2>2. RoomAfter(view[s].room, q, i, q[i + 1].room)
      <3>1. RoomAfter(view[s].room, q, (i + 1) - 1, q[i + 1].room)
        BY <1>5, <2>1 DEF Home
      <3>2. (i + 1) - 1 = i
        OBVIOUS
      <3> QED BY <3>1, <3>2
    <2>3. i - 1 \in Nat /\ (i - 1) + 1 = i /\ i <= Len(q)
      BY <1>1, <2>1
    <2> HIDE DEF q
    <2> QED BY <1>1, <2>1, <2>2, <2>3, RoomAfterDelivery
  <1>6. conn[s] # "new"
    BY DEF Deliver, Connected
  <1> HIDE DEF q, here
  <1> QED BY <1>2, <1>4, <1>5, <1>6 DEF Home, Open

-----------------------------------------------------------------------------
(* How the handlers write to the wires.                                    *)

\* The frames an entering socket and its new room are sent.
LEMMA WelcomeStep ==
    ASSUME TypeOK, NEW s \in Socket, NEW r \in Room, NEW role \in Role,
           NEW t \in Socket, conn[s] # "new",
           conn' = conn, view' = view,
           roomOf' = IF Connected(s) THEN [roomOf EXCEPT ![s] = r] ELSE roomOf,
           wire' = Welcomed(s, r, UsersOf(users', r), roomOf', role)
    PROVE  WireStep(t)
  <1> DEFINE us == UsersOf(users', r)
  <1>1. JoinResult(r, us, role) \in Message /\ UserList(us) \in Message
    BY MessageTypes, UsersOfType
  <1>2. CASE t = s /\ Open(s)
    <2>1. wire'[t] = Append(wire[t], JoinResult(r, us, role)) /\ roomOf'[t] = r
      BY <1>2 DEF Welcomed, Open, Connected, TypeOK
    <2>2. MovesTo(JoinResult(r, us, role), r) /\ JoinResult(r, us, role).type # "RELAY"
      BY DEF MovesTo, JoinResult
    <2> HIDE DEF us
    <2>3. FrameAdded(t)
      BY <1>1, <1>2, <2>1, <2>2 DEF FrameAdded
    <2> QED BY <2>3 DEF WireStep, Open
  <1>3. CASE ~(t = s /\ Open(s)) /\ t \in Recipients(roomOf', r, s)
    <2>1. Open(t) /\ wire'[t] = Append(wire[t], UserList(us)) /\ roomOf'[t] = roomOf[t]
      BY <1>3 DEF Welcomed, Recipients
    <2>2. ~Moves(UserList(us)) /\ UserList(us).type # "RELAY"
      BY DEF Moves, UserList
    <2> HIDE DEF us
    <2>3. FrameAdded(t)
      BY <1>1, <2>1, <2>2 DEF FrameAdded
    <2> QED BY <2>3 DEF WireStep, Open
  <1>4. CASE ~(t = s /\ Open(s)) /\ t \notin Recipients(roomOf', r, s)
    <2>1. wire'[t] = wire[t]
      BY <1>4 DEF Welcomed
    <2>2. roomOf'[t] = roomOf[t] \/ ~Open(t)
      BY <1>4
    <2> QED BY <2>1, <2>2 DEF WireStep, Open
  <1> QED BY <1>2, <1>3, <1>4

\* One frame, moving nobody, to open sockets that stay where they are.
LEMMA SendStep ==
    ASSUME TypeOK, NEW targets, NEW m \in Message, NEW t \in Socket,
           ~Moves(m), \A u \in targets : Open(u),
           m.type = "RELAY" => \A u \in targets : roomOf[u] = m.room,
           conn' = conn, view' = view, roomOf' = roomOf, wire' = Sent(targets, m)
    PROVE  WireStep(t)
  <1>1. CASE t \in targets
    <2>1. wire'[t] = Append(wire[t], m)
      BY <1>1 DEF Sent
    <2>2. FrameAdded(t)
      BY <1>1, <2>1 DEF FrameAdded
    <2> QED BY <2>2 DEF WireStep, Open
  <1>2. CASE t \notin targets
    BY <1>2 DEF Sent, WireStep, Open
  <1> QED BY <1>1, <1>2

LEMMA HomeNext == IInv /\ EveryoneHome /\ [Next]_vars => EveryoneHome'
  <1> SUFFICES ASSUME IInv, EveryoneHome, [Next]_vars, NEW t \in Socket PROVE Home(t)'
    BY DEF EveryoneHome
  <1>1. TypeOK /\ TypeOK' /\ Home(t)
    BY TypeOKNext DEF IInv, EveryoneHome
  <1>2. ASSUME WireStep(t) PROVE Home(t)'
    BY <1>1, <1>2, HomeKept
  <1>3. ASSUME NEW s \in Socket, Connect(s) PROVE Home(t)'
    <2>1. CASE t = s
      <3>1. wire'[s] = << >> /\ view'[s] = BlankView /\ roomOf'[s] = NoRoom
        BY <1>1, <1>3, <2>1 DEF Connect, Home, IInv, NewSocketsAreBlank
      <3>2. conn'[s] # "new"
        BY <1>1, <1>3 DEF Connect, TypeOK
      <3> QED BY <2>1, <3>1, <3>2 DEF Home, RoomAfter, BlankView
    <2>2. CASE t # s
      BY <1>1, <1>2, <1>3, <2>2 DEF Connect, WireStep, Open, TypeOK
    <2> QED BY <2>1, <2>2
  <1>4. ASSUME NEW s \in Socket, SocketClosed(s) PROVE Home(t)'
    <2> DEFINE r == users[s]
               us == UsersOf([users EXCEPT ![s] = NoRoom], r)
               targets == IF r = NoRoom THEN {} ELSE Recipients(roomOf, r, s)
    <2>1. CASE t = s
      <3>1. wire'[s] = << >> /\ conn'[s] = "gone"
        BY <1>1, <1>4 DEF SocketClosed, UsersWithout, TypeOK, Sent
      <3> QED BY <2>1, <3>1 DEF Home, Open
    <2>2. CASE t # s
      <3>1. /\ wire'[t] = Sent(targets, UserList(us))[t]
            /\ conn'[t] = conn[t] /\ view'[t] = view[t] /\ roomOf'[t] = roomOf[t]
        BY <1>1, <1>4, <2>2 DEF SocketClosed, UsersWithout, TypeOK, Sent
      <3>2. UserList(us) \in Message /\ ~Moves(UserList(us)) /\ UserList(us).type # "RELAY"
        BY UsersOfType DEF UserList, Message, Moves
      <3>3. t \in targets => Open(t)
        BY DEF Recipients
      <3> HIDE DEF us, targets
      <3>4. CASE t \in targets
        <4>1. FrameAdded(t)
          BY <3>1, <3>2, <3>3, <3>4 DEF FrameAdded, Sent
        <4> QED BY <1>2, <3>1, <4>1 DEF WireStep, Open
      <3>5. CASE t \notin targets
        BY <1>2, <3>1, <3>5 DEF WireStep, Open, Sent
      <3> QED BY <3>4, <3>5
    <2> QED BY <2>1, <2>2
  <1>5. ASSUME NEW s \in Socket, NEW r \in Room, NEW k \in Key, CreateRoom(s, r, k)
        PROVE  Home(t)'
    <2>1. /\ conn' = conn /\ view' = view /\ conn[s] # "new" /\ Connected(s)
          /\ roomOf' = [roomOf EXCEPT ![s] = r]
          /\ wire' = Welcomed(s, r, UsersOf(users', r), roomOf', "host")
      BY <1>5 DEF CreateRoom, Unused, CanAct, Connected, sockets
    <2> QED BY <1>1, <1>2, <2>1, WelcomeStep DEF Role
  <1>6. ASSUME NEW s \in Socket, NEW r \in Room, NEW k \in Key, NEW role \in Role,
               JoinRoom(s, r, k, role)
        PROVE  Home(t)'
    <2>1. /\ conn' = conn /\ view' = view /\ conn[s] # "new" /\ Connected(s)
          /\ roomOf' = [roomOf EXCEPT ![s] = r]
          /\ wire' = Welcomed(s, r, UsersOf(users', r), roomOf', role)
      BY <1>6 DEF JoinRoom, MayJoin, CanAct, Connected, sockets
    <2> QED BY <1>1, <1>2, <2>1, WelcomeStep
  <1>7. ASSUME NEW s \in Socket, NEW u \in Socket, NEW role \in Grants, ApproveJoin(s, u, role)
        PROVE  Home(t)'
    <2> DEFINE r == roomOf[s]
    <2>1. r \in Room /\ role \in Role
      BY <1>7, GrantsAssumption DEF ApproveJoin, RemovePendingJoin, Admin, Live
    <2>2. conn[u] # "new"
      BY <1>1, <1>7, <2>1 DEF ApproveJoin, RemovePendingJoin, IInv, NewSocketsAreBlank
    <2>3. /\ conn' = conn /\ view' = view
          /\ roomOf' = IF Connected(u) THEN [roomOf EXCEPT ![u] = r] ELSE roomOf
          /\ wire' = Welcomed(u, r, UsersOf(users', r), roomOf', role)
      BY <1>7 DEF ApproveJoin, RemovePendingJoin, sockets
    <2> HIDE DEF r
    <2> QED BY <1>1, <1>2, <2>1, <2>2, <2>3, WelcomeStep
  <1>8. ASSUME NEW s \in Socket, NEW u \in Socket, NEW role \in Grants, SetRole(s, u, role)
        PROVE  Home(t)'
    <2>1. RoleChanged(role) \in Message /\ ~Moves(RoleChanged(role))
              /\ RoleChanged(role).type # "RELAY"
      BY GrantsAssumption DEF RoleChanged, Message, Moves
    <2> QED BY <1>1, <1>2, <1>8, <2>1, SendStep DEF SetRole, sockets
  <1>9. ASSUME NEW s \in Socket, NEW u \in Socket, RelayTo(s, u) PROVE Home(t)'
    <2>1. Direct(roomOf[s]) \in Message /\ ~Moves(Direct(roomOf[s]))
              /\ Direct(roomOf[s]).type # "RELAY"
      BY <1>1, <1>9 DEF RelayTo, InRoom, TypeOK, Direct, Message, Moves
    <2> QED BY <1>1, <1>2, <1>9, <2>1, SendStep DEF RelayTo, sockets
  <1>10. ASSUME NEW s \in Socket, Relay(s) PROVE Home(t)'
    <2>1. Relayed(roomOf[s]) \in Message /\ ~Moves(Relayed(roomOf[s]))
      BY <1>1, <1>10 DEF Relay, InRoom, TypeOK, Relayed, Message, Moves
    <2>2. \A u \in Recipients(roomOf, roomOf[s], s) :
              Open(u) /\ roomOf[u] = Relayed(roomOf[s]).room
      BY DEF Recipients, Relayed
    <2> QED BY <1>1, <1>2, <1>10, <2>1, <2>2, SendStep DEF Relay, sockets
  <1>11. ASSUME NEW s \in Socket, Deliver(s) PROVE Home(t)'
    <2>1. CASE t = s
      BY <1>1, <1>11, <2>1, HomeDelivered
    <2>2. CASE t # s
      BY <1>1, <1>2, <1>11, <2>2 DEF Deliver, WireStep, Open, TypeOK, sockets
    <2> QED BY <2>1, <2>2
  <1>12. CASE Cleanup
    <2> DEFINE bound == {s \in Socket : Connected(s) /\ roomOf[s] \in Expired}
    <2>1. /\ conn' = conn /\ view' = view
          /\ wire' = Sent(ToldOfTheEnd, Terminated)
          /\ roomOf'[t] = IF t \in bound THEN NoRoom ELSE roomOf[t]
          /\ t \in ToldOfTheEnd <=> t \in bound /\ Open(t)
      BY <1>12 DEF Cleanup, BindingsLeft, ToldOfTheEnd, Open, Connected, sockets
    <2>2. Terminated \in Message /\ MovesTo(Terminated, NoRoom) /\ Terminated.type # "RELAY"
      BY DEF Terminated, Message, MovesTo
    <2>3. CASE t \in bound /\ Open(t)
      <3>1. FrameAdded(t)
        BY <2>1, <2>2, <2>3 DEF FrameAdded, Sent
      <3> QED BY <1>2, <2>1, <3>1 DEF WireStep, Open
    <2>4. CASE ~(t \in bound /\ Open(t))
      <3>1. wire'[t] = wire[t] /\ (roomOf'[t] = roomOf[t] \/ ~Open(t))
        BY <2>1, <2>4 DEF Sent
      <3> QED BY <1>2, <2>1, <3>1 DEF WireStep, Open
    <2> QED BY <2>3, <2>4
  <1>13. CASE Heartbeat
    <2>1. wire' = wire /\ view' = view /\ roomOf' = roomOf
      BY <1>13 DEF Heartbeat
    <2>2. (Open(t)' => Open(t)) /\ (conn'[t] = "new" => conn[t] = "new")
      BY <1>13 DEF Heartbeat, Open
    <2> QED BY <1>2, <2>1, <2>2 DEF WireStep
  <1>14. ASSUME NEW s \in Socket, ClientClose(s) PROVE Home(t)'
    <2>1. wire' = wire /\ view' = view /\ roomOf' = roomOf
      BY <1>14 DEF ClientClose
    <2>2. (Open(t)' => Open(t)) /\ (conn'[t] = "new" => conn[t] = "new")
      BY <1>1, <1>14 DEF ClientClose, Open, TypeOK
    <2> QED BY <1>2, <2>1, <2>2 DEF WireStep
  <1>15. ASSUME UNCHANGED <<conn, roomOf, wire, view>> PROVE Home(t)'
    BY <1>2, <1>15 DEF WireStep, Open
  <1> QED
    BY <1>3, <1>4, <1>5, <1>6, <1>7, <1>8, <1>9, <1>10, <1>11, <1>12, <1>13, <1>14, <1>15
       DEF Next, Connection, Entering, Acting, ClientDies, Pong, AskToJoin, DenyJoin,
           DeactivateRoom, CancelDeactivation, RotateKey, RoomGoesIdle, DeadlinePasses,
           vars, sockets

LEMMA AlwaysHome == Spec => []EveryoneHome
  BY HomeInit, HomeNext, Invariance, PTL DEF Spec

\* Whatever was relayed to a room is processed by clients that are in it.
THEOREM RelaysArriveHome == Spec => []RelaysReachTheirRoom
  <1>1. EveryoneHome => RelaysReachTheirRoom
    BY DEF EveryoneHome, Home, RelaysReachTheirRoom
  <1> QED BY <1>1, AlwaysHome, PTL

\* A client with nothing left to read is where the server has it.
THEOREM DrainedClientsAreHome == Spec => []DrainedClientKnowsItsRoom
  <1>1. EveryoneHome => DrainedClientKnowsItsRoom
    BY DEF EveryoneHome, Home, RoomAfter, DrainedClientKnowsItsRoom, Drained
  <1> QED BY <1>1, AlwaysHome, PTL

-----------------------------------------------------------------------------
(* Whom the clients know.                                                  *)

\* A frame that replaces the participant list, and what it replaces it by.
Lists(m) == m.type \in {"JOIN_RESULT", "USER_LIST", "ROOM_TERMINATED"}
Listed(m) == IF m.type = "ROOM_TERMINATED" THEN {} ELSE m.users

\* A client that lists "known" lists all of us once it has processed q: the last
\* list in q has them.
Covers(known, q, us) ==
    \/ us \subseteq known /\ \A j \in 1 .. Len(q) : ~Lists(q[j])
    \/ \E j \in 1 .. Len(q) :
          /\ Lists(q[j]) /\ us \subseteq Listed(q[j])
          /\ \A k \in j + 1 .. Len(q) : ~Lists(q[k])

\* The users of the room an open socket is bound to are those, or some of those,
\* that its client lists once it has read its wire.
Informed(s) ==
    Open(s) /\ roomOf[s] # NoRoom =>
        Covers(view[s].participants, wire[s], UsersOf(users, roomOf[s]))
EveryoneInformed == \A s \in Socket : Informed(s)

LEMMA CoversFewer ==
    ASSUME NEW known, NEW q, NEW us, NEW fewer, fewer \subseteq us, Covers(known, q, us)
    PROVE  Covers(known, q, fewer)
  BY DEF Covers

LEMMA CoversAppended ==
    ASSUME NEW q \in Seq(Message), NEW m \in Message, ~Lists(m), NEW known, NEW us,
           Covers(known, q, us)
    PROVE  Covers(known, Append(q, m), us)
  <1>1. /\ Len(q) \in Nat /\ Len(Append(q, m)) = Len(q) + 1
        /\ Append(q, m)[Len(q) + 1] = m
        /\ \A j \in 1 .. Len(q) : Append(q, m)[j] = q[j]
    OBVIOUS
  <1> QED BY <1>1 DEF Covers

LEMMA CoversListAppended ==
    ASSUME NEW q \in Seq(Message), NEW m \in Message, Lists(m), NEW known, NEW us,
           us \subseteq Listed(m)
    PROVE  Covers(known, Append(q, m), us)
  <1>1. Len(q) \in Nat /\ Len(Append(q, m)) = Len(q) + 1 /\ Append(q, m)[Len(q) + 1] = m
    OBVIOUS
  <1> QED BY <1>1 DEF Covers

LEMMA CoversDelivered ==
    ASSUME NEW q \in Seq(Message), q # << >>, NEW v \in View, NEW us,
           Covers(v.participants, q, us)
    PROVE  Covers(AfterMessage(v, Head(q)).participants, Tail(q), us)
  <1> DEFINE known == AfterMessage(v, Head(q)).participants
  <1>1. /\ Len(q) \in Nat \ {0} /\ Len(Tail(q)) = Len(q) - 1
        /\ Head(q) = q[1] /\ q[1] \in Message
        /\ \A j \in 1 .. Len(q) - 1 : Tail(q)[j] = q[j + 1]
    OBVIOUS
  <1>2. ~Lists(q[1]) => known = v.participants
    BY <1>1 DEF Lists, AfterMessage
  <1>3. Lists(q[1]) => known = Listed(q[1])
    BY <1>1 DEF Lists, Listed, AfterMessage, View
  <1> HIDE DEF known
  <1>4. CASE us \subseteq v.participants /\ \A j \in 1 .. Len(q) : ~Lists(q[j])
    <2>1. us \subseteq known
      BY <1>1, <1>2, <1>4
    <2>2. \A j \in 1 .. Len(Tail(q)) : ~Lists(Tail(q)[j])
      BY <1>1, <1>4
    <2> QED BY <2>1, <2>2 DEF Covers, known
  <1>5. ASSUME NEW j \in 1 .. Len(q), Lists(q[j]), us \subseteq Listed(q[j]),
               \A k \in j + 1 .. Len(q) : ~Lists(q[k])
        PROVE  Covers(known, Tail(q), us)
    <2>1. CASE j = 1
      <3>1. us \subseteq known
        BY <1>3, <1>5, <2>1
      <3>2. \A k \in 1 .. Len(Tail(q)) : ~Lists(Tail(q)[k])
        BY <1>1, <1>5, <2>1
      <3> QED BY <3>1, <3>2 DEF Covers
    <2>2. CASE j # 1
      <3>1. /\ j - 1 \in 1 .. Len(Tail(q)) /\ Lists(Tail(q)[j - 1])
            /\ us \subseteq Listed(Tail(q)[j - 1])
        BY <1>1, <1>5, <2>2
      <3>2. \A k \in (j - 1) + 1 .. Len(Tail(q)) : ~Lists(Tail(q)[k])
        BY <1>1, <1>5, <2>2
      <3> QED BY <3>1, <3>2 DEF Covers
    <2> QED BY <2>1, <2>2
  <1> QED BY <1>4, <1>5 DEF Covers, known

\* All that a step other than its own connecting and reading may do to what s
\* knows: nobody new in its room and no list for it, or a list with all of them.
NewsStep(s) ==
    /\ view'[s] = view[s]
    /\ Open(s)' => Open(s)
    /\ \/ wire'[s] = wire[s]
       \/ \E m \in Message : ~Lists(m) /\ wire'[s] = Append(wire[s], m)
       \/ \E m \in Message :
             Lists(m) /\ wire'[s] = Append(wire[s], m)
               /\ (roomOf'[s] # NoRoom => UsersOf(users', roomOf'[s]) \subseteq Listed(m))
    /\ \/ ~Open(s)' \/ roomOf'[s] = NoRoom
       \/ roomOf'[s] = roomOf[s] /\ UsersOf(users', roomOf'[s]) \subseteq UsersOf(users, roomOf[s])
       \/ \E m \in Message : Lists(m) /\ wire'[s] = Append(wire[s], m)

LEMMA InformedKept ==
    ASSUME TypeOK, NEW s \in Socket, Informed(s), NewsStep(s) PROVE Informed(s)'
  <1> SUFFICES ASSUME Open(s)', roomOf'[s] # NoRoom
               PROVE  Covers(view[s].participants, wire'[s], UsersOf(users', roomOf'[s]))
    BY DEF Informed, NewsStep
  <1> DEFINE q == wire[s]
             now == UsersOf(users', roomOf'[s])
             known == view[s].participants
  <1>1. q \in Seq(Message) /\ Open(s)
    BY DEF TypeOK, NewsStep
  <1>2. CASE \E m \in Message : Lists(m) /\ wire'[s] = Append(q, m) /\ now \subseteq Listed(m)
    <2> HIDE DEF q, now, known
    <2> QED BY <1>1, <1>2, CoversListAppended DEF now, known
  <1>3. CASE roomOf'[s] = roomOf[s] /\ now \subseteq UsersOf(users, roomOf[s])
    <2>1. Covers(known, q, now)
      BY <1>1, <1>3, CoversFewer DEF Informed
    <2>2. CASE wire'[s] = q
      BY <2>1, <2>2
    <2>3. CASE \E m \in Message : ~Lists(m) /\ wire'[s] = Append(q, m)
      <3> HIDE DEF q, now, known
      <3> QED BY <1>1, <2>1, <2>3, CoversAppended DEF now, known
    <2> QED BY <1>2, <2>2, <2>3 DEF NewsStep
  <1>4. CASE \E m \in Message : Lists(m) /\ wire'[s] = Append(q, m)
    <2>1. PICK m \in Message : Lists(m) /\ wire'[s] = Append(q, m)
      BY <1>4
    <2>2. \A n \in Message : Append(q, n) = Append(q, m) => n = m
      <3>1. \A n \in Message : Append(q, n)[Len(q) + 1] = n
        BY <1>1
      <3> QED BY <3>1
    <2>3. wire'[s] # q
      <3>1. Len(Append(q, m)) = Len(q) + 1 /\ Len(q) \in Nat
        BY <1>1
      <3> QED BY <2>1, <3>1
    <2> HIDE DEF q
    <2> QED BY <1>2, <2>1, <2>2, <2>3 DEF NewsStep, q
  <1> QED BY <1>3, <1>4 DEF NewsStep

LEMMA WelcomeNews ==
    ASSUME TypeOK, NEW s \in Socket, NEW r \in Room, NEW role \in Role, NEW t \in Socket,
           conn' = conn, view' = view,
           roomOf' = IF Connected(s) THEN [roomOf EXCEPT ![s] = r] ELSE roomOf,
           users' = [users EXCEPT ![s] = r],
           wire' = Welcomed(s, r, UsersOf(users', r), roomOf', role)
    PROVE  NewsStep(t)
  <1> DEFINE us == UsersOf(users', r)
  <1>1. JoinResult(r, us, role) \in Message /\ UserList(us) \in Message
    BY MessageTypes, UsersOfType
  <1>2. /\ Lists(JoinResult(r, us, role)) /\ Listed(JoinResult(r, us, role)) = us
        /\ Lists(UserList(us)) /\ Listed(UserList(us)) = us
    BY DEF Lists, Listed, JoinResult, UserList
  <1>3. view'[t] = view[t] /\ (Open(t)' => Open(t))
    BY DEF Open
  <1>4. CASE t = s /\ Open(s)
    <2>1. wire'[t] = Append(wire[t], JoinResult(r, us, role)) /\ roomOf'[t] = r
      BY <1>4 DEF Welcomed, Open, Connected, TypeOK
    <2>2. UsersOf(users', roomOf'[t]) \subseteq Listed(JoinResult(r, us, role))
      BY <1>2, <2>1
    <2> HIDE DEF us
    <2> QED BY <1>1, <1>2, <1>3, <2>1, <2>2 DEF NewsStep
  <1>5. CASE ~(t = s /\ Open(s)) /\ t \in Recipients(roomOf', r, s)
    <2>1. wire'[t] = Append(wire[t], UserList(us)) /\ roomOf'[t] = r
      BY <1>5 DEF Welcomed, Recipients
    <2>2. UsersOf(users', roomOf'[t]) \subseteq Listed(UserList(us))
      BY <1>2, <2>1
    <2> HIDE DEF us
    <2> QED BY <1>1, <1>2, <1>3, <2>1, <2>2 DEF NewsStep
  <1>6. CASE ~(t = s /\ Open(s)) /\ t \notin Recipients(roomOf', r, s)
    <2>1. wire'[t] = wire[t]
      BY <1>6 DEF Welcomed
    \* An open socket that is told nothing is in another room, which at most loses s.
    <2>2. Open(t)' => roomOf'[t] = roomOf[t] /\ roomOf[t] # r
      BY <1>6, <1>3 DEF Recipients, Open, TypeOK
    <2>3. roomOf[t] # r => UsersOf(users', roomOf[t]) \subseteq UsersOf(users, roomOf[t])
      BY DEF UsersOf, TypeOK
    <2> QED BY <1>3, <2>1, <2>2, <2>3 DEF NewsStep
  <1> QED BY <1>4, <1>5, <1>6

\* A frame that is no list, while no user comes or goes.
LEMMA SendNews ==
    ASSUME TypeOK, NEW targets, NEW m \in Message, NEW t \in Socket, ~Lists(m),
           conn' = conn, view' = view, roomOf' = roomOf, users' = users,
           wire' = Sent(targets, m)
    PROVE  NewsStep(t)
  <1>1. view'[t] = view[t] /\ (Open(t)' => Open(t)) /\ roomOf'[t] = roomOf[t]
    BY DEF Open
  <1>2. UsersOf(users', roomOf'[t]) \subseteq UsersOf(users, roomOf[t])
    OBVIOUS
  <1>3. wire'[t] = wire[t] \/ wire'[t] = Append(wire[t], m)
    BY DEF Sent
  <1> QED BY <1>1, <1>2, <1>3 DEF NewsStep

LEMMA InformedNext == IInv /\ EveryoneInformed /\ [Next]_vars => EveryoneInformed'
  <1> SUFFICES ASSUME IInv, EveryoneInformed, [Next]_vars, NEW t \in Socket PROVE Informed(t)'
    BY DEF EveryoneInformed
  <1>1. TypeOK /\ Informed(t)
    BY DEF IInv, EveryoneInformed
  <1>2. ASSUME NewsStep(t) PROVE Informed(t)'
    BY <1>1, <1>2, InformedKept
  <1>3. ASSUME NEW s \in Socket, Connect(s) PROVE Informed(t)'
    <2>1. CASE t = s
      BY <1>3, <2>1 DEF Connect, Informed, IInv, NewSocketsAreBlank
    <2>2. CASE t # s
      <3>1. view' = view /\ wire' = wire /\ roomOf' = roomOf /\ users' = users
        BY <1>3 DEF Connect
      <3>2. Open(t)' => Open(t)
        BY <1>1, <1>3, <2>2 DEF Connect, Open, TypeOK
      <3> QED BY <1>2, <3>1, <3>2 DEF NewsStep
    <2> QED BY <2>1, <2>2
  <1>4. ASSUME NEW s \in Socket, SocketClosed(s) PROVE Informed(t)'
    <2> DEFINE r == users[s]
               us == UsersOf(users', r)
               targets == IF r = NoRoom THEN {} ELSE Recipients(roomOf, r, s)
    <2>1. CASE t = s
      BY <1>1, <1>4, <2>1 DEF SocketClosed, Informed, Open, TypeOK
    <2>2. CASE t # s
      <3>1. /\ wire'[t] = Sent(targets, UserList(us))[t]
            /\ conn'[t] = conn[t] /\ view'[t] = view[t] /\ roomOf'[t] = roomOf[t]
            /\ users' = [users EXCEPT ![s] = NoRoom]
        BY <1>1, <1>4, <2>2 DEF SocketClosed, UsersWithout, TypeOK, Sent
      <3>2. UserList(us) \in Message /\ Lists(UserList(us)) /\ Listed(UserList(us)) = us
        <4>1. us \in SUBSET Socket
          BY DEF UsersOf
        <4> HIDE DEF us
        <4> QED BY <4>1 DEF UserList, Message, Lists, Listed
      <3>3. Open(t)' => Open(t)
        BY <3>1 DEF Open
      <3>4. CASE t \in targets
        <4>1. roomOf'[t] = r /\ wire'[t] = Append(wire[t], UserList(us))
          BY <3>1, <3>4 DEF Recipients, Sent
        <4>2. UsersOf(users', roomOf'[t]) \subseteq Listed(UserList(us))
          BY <3>2, <4>1
        <4> HIDE DEF us
        <4>3. NewsStep(t)
          BY <3>1, <3>2, <3>3, <4>1, <4>2 DEF NewsStep
        <4> QED BY <1>2, <4>3
      <3>5. CASE t \notin targets
        <4>1. wire'[t] = wire[t]
          BY <3>1, <3>5 DEF Sent
        <4>2. roomOf[t] # NoRoom =>
                  UsersOf(users', roomOf'[t]) \subseteq UsersOf(users, roomOf[t])
          BY <1>1, <3>1 DEF UsersOf, TypeOK
        <4>3. NewsStep(t)
          BY <3>1, <3>3, <4>1, <4>2 DEF NewsStep
        <4> QED BY <1>2, <4>3
      <3> QED BY <3>4, <3>5
    <2> QED BY <2>1, <2>2
  <1>5. ASSUME NEW s \in Socket, NEW r \in Room, NEW k \in Key, CreateRoom(s, r, k)
        PROVE  Informed(t)'
    <2>1. /\ conn' = conn /\ view' = view /\ Connected(s)
          /\ roomOf' = [roomOf EXCEPT ![s] = r] /\ users' = [users EXCEPT ![s] = r]
          /\ wire' = Welcomed(s, r, UsersOf(users', r), roomOf', "host")
      BY <1>5 DEF CreateRoom, Unused, CanAct, sockets
    <2> QED BY <1>1, <1>2, <2>1, WelcomeNews DEF Role
  <1>6. ASSUME NEW s \in Socket, NEW r \in Room, NEW k \in Key, NEW role \in Role,
               JoinRoom(s, r, k, role)
        PROVE  Informed(t)'
    <2>1. /\ conn' = conn /\ view' = view /\ Connected(s)
          /\ roomOf' = [roomOf EXCEPT ![s] = r] /\ users' = [users EXCEPT ![s] = r]
          /\ wire' = Welcomed(s, r, UsersOf(users', r), roomOf', role)
      BY <1>6 DEF JoinRoom, MayJoin, CanAct, sockets
    <2> QED BY <1>1, <1>2, <2>1, WelcomeNews
  <1>7. ASSUME NEW s \in Socket, NEW u \in Socket, NEW role \in Grants, ApproveJoin(s, u, role)
        PROVE  Informed(t)'
    <2> DEFINE r == roomOf[s]
    <2>1. r \in Room /\ role \in Role
      BY <1>7, GrantsAssumption DEF ApproveJoin, Admin, Live
    <2>2. /\ conn' = conn /\ view' = view
          /\ roomOf' = IF Connected(u) THEN [roomOf EXCEPT ![u] = r] ELSE roomOf
          /\ users' = [users EXCEPT ![u] = r]
          /\ wire' = Welcomed(u, r, UsersOf(users', r), roomOf', role)
      BY <1>7 DEF ApproveJoin, sockets
    <2> HIDE DEF r
    <2> QED BY <1>1, <1>2, <2>1, <2>2, WelcomeNews
  <1>8. ASSUME NEW s \in Socket, NEW u \in Socket, NEW role \in Grants, SetRole(s, u, role)
        PROVE  Informed(t)'
    <2>1. RoleChanged(role) \in Message /\ ~Lists(RoleChanged(role))
      BY GrantsAssumption DEF RoleChanged, Message, Lists
    <2> QED BY <1>1, <1>2, <1>8, <2>1, SendNews DEF SetRole, sockets
  <1>9. ASSUME NEW s \in Socket, NEW u \in Socket, RelayTo(s, u) PROVE Informed(t)'
    <2>1. Direct(roomOf[s]) \in Message /\ ~Lists(Direct(roomOf[s]))
      BY <1>1, <1>9 DEF RelayTo, InRoom, TypeOK, Direct, Message, Lists
    <2> QED BY <1>1, <1>2, <1>9, <2>1, SendNews DEF RelayTo, sockets
  <1>10. ASSUME NEW s \in Socket, Relay(s) PROVE Informed(t)'
    <2>1. Relayed(roomOf[s]) \in Message /\ ~Lists(Relayed(roomOf[s]))
      BY <1>1, <1>10 DEF Relay, InRoom, TypeOK, Relayed, Message, Lists
    <2> QED BY <1>1, <1>2, <1>10, <2>1, SendNews DEF Relay, sockets
  <1>11. ASSUME NEW s \in Socket, Deliver(s) PROVE Informed(t)'
    <2>1. CASE t = s
      <3> DEFINE q == wire[s]
                 known == AfterMessage(view[s], Head(q)).participants
      <3>1. q \in Seq(Message) /\ q # << >> /\ view[s] \in View
        BY <1>1, <1>11 DEF TypeOK, Deliver
      <3>2. /\ wire'[s] = Tail(q) /\ view'[s].participants = known
            /\ conn' = conn /\ roomOf' = roomOf /\ users' = users
        BY <1>1, <1>11 DEF Deliver, TypeOK, sockets
      <3> SUFFICES ASSUME Open(s), roomOf[s] # NoRoom
                   PROVE  Covers(known, Tail(q), UsersOf(users, roomOf[s]))
        BY <2>1, <3>2 DEF Informed, Open
      <3>3. Covers(view[s].participants, q, UsersOf(users, roomOf[s]))
        BY <1>1, <2>1 DEF Informed
      <3> HIDE DEF q
      <3> QED BY <3>1, <3>3, CoversDelivered
    <2>2. CASE t # s
      <3>1. /\ wire'[t] = wire[t] /\ view'[t] = view[t]
            /\ conn' = conn /\ roomOf' = roomOf /\ users' = users
        BY <1>1, <1>11, <2>2 DEF Deliver, TypeOK, sockets
      <3> QED BY <1>2, <3>1 DEF NewsStep, Open
    <2> QED BY <2>1, <2>2
  <1>12. CASE Cleanup
    <2>1. /\ conn' = conn /\ view' = view /\ users' = UsersLeft
          /\ wire' = Sent(ToldOfTheEnd, Terminated) /\ roomOf' = BindingsLeft
      BY <1>12 DEF Cleanup, sockets
    <2>2. Terminated \in Message /\ Lists(Terminated)
      BY DEF Terminated, Message, Lists
    <2>3. CASE t \in ToldOfTheEnd
      <3>1. roomOf'[t] = NoRoom /\ wire'[t] = Append(wire[t], Terminated)
        BY <2>1, <2>3 DEF ToldOfTheEnd, BindingsLeft, Sent, Open, Connected
      <3> QED BY <1>2, <2>1, <2>2, <3>1 DEF NewsStep, Open
    <2>4. CASE t \notin ToldOfTheEnd
      <3>1. wire'[t] = wire[t] /\ (Open(t) => roomOf'[t] = roomOf[t])
        BY <2>1, <2>4 DEF ToldOfTheEnd, BindingsLeft, Sent, Open, Connected
      <3>2. roomOf[t] # NoRoom => UsersOf(users', roomOf[t]) \subseteq UsersOf(users, roomOf[t])
        BY <2>1 DEF UsersLeft, UsersOf
      <3> QED BY <1>2, <2>1, <3>1, <3>2 DEF NewsStep, Open
    <2> QED BY <2>3, <2>4
  <1>13. CASE Heartbeat
    <2>1. wire' = wire /\ view' = view /\ roomOf' = roomOf /\ users' = users
      BY <1>13 DEF Heartbeat
    <2>2. Open(t)' => Open(t)
      BY <1>13 DEF Heartbeat, Open
    <2> QED BY <1>2, <2>1, <2>2 DEF NewsStep
  <1>14. ASSUME NEW s \in Socket, ClientClose(s) PROVE Informed(t)'
    <2>1. wire' = wire /\ view' = view /\ roomOf' = roomOf /\ users' = users
      BY <1>14 DEF ClientClose
    <2>2. Open(t)' => Open(t)
      BY <1>1, <1>14 DEF ClientClose, Open, TypeOK
    <2> QED BY <1>2, <2>1, <2>2 DEF NewsStep
  <1>15. ASSUME UNCHANGED <<conn, roomOf, users, wire, view>> PROVE Informed(t)'
    BY <1>2, <1>15 DEF NewsStep, Open
  <1> QED
    BY <1>3, <1>4, <1>5, <1>6, <1>7, <1>8, <1>9, <1>10, <1>11, <1>12, <1>13, <1>14, <1>15
       DEF Next, Connection, Entering, Acting, ClientDies, Pong, AskToJoin, DenyJoin,
           DeactivateRoom, CancelDeactivation, RotateKey, RoomGoesIdle, DeadlinePasses,
           vars, sockets

LEMMA AlwaysInformed == Spec => []EveryoneInformed
  <1>1. Init => EveryoneInformed
    BY DEF Init, EveryoneInformed, Informed
  <1> QED BY <1>1, InformedNext, Invariance, PTL DEF Spec

\* A client that has read everything lists every user of its room, in whatever
\* order joins, switches, approvals, closes and the ends of rooms were told to it.
THEOREM DrainedClientsKnowTheirPeers == Spec => []DrainedClientKnowsItsPeers
  <1>1. EveryoneInformed => DrainedClientKnowsItsPeers
    BY DEF EveryoneInformed, Informed, Covers, DrainedClientKnowsItsPeers, Drained
  <1> QED BY <1>1, AlwaysInformed, PTL

=============================================================================
