--------------------------- MODULE RoomMembership ---------------------------
(***************************************************************************)
(* What a signaling node promises about rooms, whoever asks and however    *)
(* sockets come and go: a room is opened once and closed once; a socket is *)
(* a user of at most one room, and enters only a room that is open; when   *)
(* rooms close, all their users are out in the same step.                  *)
(***************************************************************************)
CONSTANTS Socket, Room, NoRoom

VARIABLES
    phase,   \* of a room: "unused", "live", "deleted"
    member   \* of a socket: the room it is a user of, or NoRoom

vars == <<phase, member>>

Init ==
    /\ phase = [r \in Room |-> "unused"]
    /\ member = [s \in Socket |-> NoRoom]

\* s opens a room and is its first user.
OpenRoom(s, r) ==
    /\ phase[r] = "unused"
    /\ phase' = [phase EXCEPT ![r] = "live"]
    /\ member' = [member EXCEPT ![s] = r]

\* s enters an open room, from nowhere or from another room.
Enter(s, r) ==
    /\ phase[r] = "live"
    /\ member' = [member EXCEPT ![s] = r]
    /\ UNCHANGED phase

Leave(s) ==
    /\ member[s] # NoRoom
    /\ member' = [member EXCEPT ![s] = NoRoom]
    /\ UNCHANGED phase

\* Rooms close together with the membership of everybody in them.
CloseRooms(R) ==
    /\ \A r \in R : phase[r] = "live"
    /\ phase' = [r \in Room |-> IF r \in R THEN "deleted" ELSE phase[r]]
    /\ member' = [s \in Socket |-> IF member[s] \in R THEN NoRoom ELSE member[s]]

Next ==
    \/ \E s \in Socket, r \in Room : OpenRoom(s, r) \/ Enter(s, r)
    \/ \E s \in Socket : Leave(s)
    \/ \E R \in SUBSET Room : CloseRooms(R)

Spec == Init /\ [][Next]_vars
=============================================================================
