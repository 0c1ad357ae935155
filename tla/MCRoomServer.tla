---------------------------- MODULE MCRoomServer ----------------------------
(***************************************************************************)
(* TLC instances of RoomServer.  A CONSTRAINT bounds only how far a state  *)
(* is explored; none is used with a liveness property.                     *)
(***************************************************************************)
EXTENDS RoomServer, TLC

Symmetry == Permutations(Socket) \cup Permutations(Room)

FramesOf(types) ==
    {f \in UNION {{<<s, i>> : i \in 1 .. Len(wire[s])} : s \in Socket} :
        wire[f[1]][f[2]].type \in types}

\* Membership: one room clock running and one dead peer at a time, and no frame
\* under way that leaves every record and view as it is.
FewTimers ==
    /\ Cardinality({r \in Room : idle[r]})
        + Cardinality({r \in Room : deactivation[r] # "none"}) <= 1
    /\ Cardinality({s \in Socket : ~responsive[s]}) <= 1
    /\ FramesOf({"RELAY", "DIRECT", "ROLE_CHANGED"}) = {}

\* Messaging: no heartbeat ticks, no dead peers, rooms end by deactivation
\* only, one at a time, and one relayed frame is under way at a time.
Calm ==
    /\ \A s \in Socket : responsive[s] /\ (Open(s) => isAlive[s])
    /\ \A r \in Room : ~idle[r]
    /\ Cardinality({r \in Room : deactivation[r] # "none"}) <= 1
    /\ FramesOf({"DIRECT", "ROLE_CHANGED"}) = {}
    /\ Cardinality(FramesOf({"RELAY"})) <= 1
=============================================================================
