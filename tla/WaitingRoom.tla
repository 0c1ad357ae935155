---------------------------- MODULE WaitingRoom ----------------------------
(***************************************************************************)
(* The waiting room: RoomServer watched from outside.  Which rooms the     *)
(* creator asked to be gated (the box in the sidebar; CREATE_ROOM carries  *)
(* requireApproval, and createRoom keeps no trace of it), and whom a host  *)
(* has approved for which room.  A guest that takes part in the waiting    *)
(* sends requireApproval itself (AskToJoin); the extension and the browser *)
(* viewer never do (JoinRoom).                                             *)
(***************************************************************************)
EXTENDS RoomServer

VARIABLES
    gated,       \* rooms whose creator asked for approval
    approved     \* pairs of a socket and a room it was approved for

gateVars == <<vars, gated, approved>>

GateInit == Init /\ gated = {} /\ approved = {}

Opened == {r \in Room : roomState[r] = "unused" /\ roomState'[r] = "live"}

\* An approval takes one of a socket's requests away and makes it a user.
Approvals ==
    {a \in Socket \X Room :
        pending'[a[2]][a[1]] < pending[a[2]][a[1]] /\ users'[a[1]] = a[2]}

GateNext ==
    /\ Next
    /\ gated' \in {gated, gated \cup Opened}
    /\ approved' = approved \cup Approvals

GateSpec == GateInit /\ [][GateNext]_gateVars

\* docs/DECENTRALIZED-OPERATION.md's "Host approves guests (waiting room)":
\* everybody in a gated room, its creator apart, was approved by its host.
GuestsWereApproved ==
    \A r \in gated : \A s \in UsersOf(users, r) :
        s # adminId[r] => <<s, r>> \in approved

=============================================================================
