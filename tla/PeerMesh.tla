------------------------------ MODULE PeerMesh ------------------------------
(***************************************************************************)
(* The mesh of WebRTC data channels between the participants of a room:    *)
(* who offers, how offers and answers travel over the signaling node, and  *)
(* which way an edit goes (SocketManager.send): over the data channels as  *)
(* soon as one is open, else over the node.  It exists where the extension *)
(* host has an RTCPeerConnection.  Participants are numbers, as socket ids *)
(* are compared to choose who offers; one who comes back has a new id.     *)
(* (A definition named X_... is X with a bug put in, for the mutation      *)
(* runs; no other definition uses it.)                                     *)
(***************************************************************************)
EXTENDS Integers, Sequences, FiniteSets

CONSTANTS
    Participant,
    Editors,        \* participants that edit
    MaxEdits,       \* bound: edits of one of them
    MaxFailures     \* bound: channels that fail

ASSUME ParticipantAssumption == Participant \subseteq Nat
ASSUME MeshBounds == MaxEdits \in Nat /\ MaxFailures \in Nat

VARIABLES
    meshRoom,       \* who is in the room, for the node
    meshGone,       \* who has been there
    meshPeers,      \* peers: what i has for j
    meshSignals,    \* offers and answers under way to i
    meshEdits,      \* edits of i so far
    meshDirect,     \* edits under way from i to j over their channel
    meshRelayed,    \* edits under way to i over the node
    meshGot,        \* edits that arrived at i
    meshMissed,     \* edits that were not sent to somebody in the room
    meshFailures

meshEditVars == <<meshEdits, meshDirect, meshRelayed, meshGot, meshMissed>>
meshVars == <<meshRoom, meshGone, meshPeers, meshSignals, meshEditVars, meshFailures>>

EntryStates == {"none", "offering", "offered", "answering", "answered", "connected", "open", "closed"}

MeshInit ==
    /\ meshRoom = {} /\ meshGone = {}
    /\ meshPeers = [i \in Participant |-> [j \in Participant |-> "none"]]
    /\ meshSignals = [i \in Participant |-> << >>]
    /\ meshEdits = [i \in Participant |-> 0]
    /\ meshDirect = [i \in Participant |-> [j \in Participant |-> << >>]]
    /\ meshRelayed = [i \in Participant |-> << >>]
    /\ meshGot = [i \in Participant |-> << >>]
    /\ meshMissed = {} /\ meshFailures = 0

Entry(i, j) == meshPeers[i][j]
Become(i, j, state) == meshPeers' = [meshPeers EXCEPT ![i][j] = state]
Signal(i, type, j) ==
    meshSignals' = IF j \in meshRoom
                   THEN [meshSignals EXCEPT ![j] = Append(@, [type |-> type, from |-> i])]
                   ELSE meshSignals

\* connectToPeers, started by JOIN_RESULT and USER_JOINED: of two participants
\* that do not have each other the one with the lower id offers.
Initiates_both(i, j) == i # j /\ Entry(i, j) = "none"
Initiates(i, j) == i < j /\ Entry(i, j) = "none"

Join(i) ==
    /\ i \notin meshRoom \cup meshGone
    /\ meshRoom' = meshRoom \cup {i}
    /\ UNCHANGED <<meshGone, meshPeers, meshSignals, meshEditVars, meshFailures>>

\* createPeerConnection; the offer is created and set before it is sent.
StartAsInitiator(i, j) ==
    /\ {i, j} \subseteq meshRoom /\ Initiates(i, j)
    /\ Become(i, j, "offering")
    /\ UNCHANGED <<meshRoom, meshGone, meshSignals, meshEditVars, meshFailures>>

OfferReady(i, j) ==
    /\ i \in meshRoom /\ Entry(i, j) = "offering"
    /\ Become(i, j, "offered") /\ Signal(i, "offer", j)
    /\ UNCHANGED <<meshRoom, meshGone, meshEditVars, meshFailures>>

\* handleSignal.  An offer makes a new connection whatever was there; an answer
\* is for the connection there is.
Incoming(i, type) ==
    /\ i \in meshRoom /\ meshSignals[i] # << >> /\ Head(meshSignals[i]).type = type
Took(i) == [meshSignals EXCEPT ![i] = Tail(@)]

HandleOffer(i) ==
    /\ Incoming(i, "offer")
    /\ LET j == Head(meshSignals[i]).from
       IN  Become(i, j, "answering")
    /\ meshSignals' = Took(i)
    /\ UNCHANGED <<meshRoom, meshGone, meshEditVars, meshFailures>>

AnswerReady(i, j) ==
    /\ i \in meshRoom /\ Entry(i, j) = "answering"
    /\ Become(i, j, "answered") /\ Signal(i, "answer", j)
    /\ UNCHANGED <<meshRoom, meshGone, meshEditVars, meshFailures>>

HandleAnswer(i) ==
    /\ Incoming(i, "answer")
    /\ LET j == Head(meshSignals[i]).from
       IN  IF Entry(i, j) # "none" THEN Become(i, j, "connected") ELSE UNCHANGED meshPeers
    /\ meshSignals' = Took(i)
    /\ UNCHANGED <<meshRoom, meshGone, meshEditVars, meshFailures>>

\* onopen at one end, once both have both descriptions.
ChannelOpens(i, j) ==
    /\ i \in meshRoom /\ Entry(i, j) \in {"answered", "connected"}
    /\ \/ Entry(i, j) = "connected" /\ Entry(j, i) \in {"answered", "open"}
       \/ Entry(i, j) = "answered" /\ Entry(j, i) \in {"connected", "open"}
    /\ Become(i, j, "open")
    /\ UNCHANGED <<meshRoom, meshGone, meshSignals, meshEditVars, meshFailures>>

\* A channel fails or the other end was closed; the entry stays in the map.
ChannelCloses(i, j) ==
    /\ i \in meshRoom /\ Entry(i, j) \in {"answered", "connected", "open"}
    /\ \/ Entry(j, i) \in {"closed", "none"} /\ UNCHANGED meshFailures
       \/ meshFailures < MaxFailures /\ meshFailures' = meshFailures + 1
    /\ Become(i, j, "closed")
    /\ meshDirect' = [meshDirect EXCEPT ![j][i] = << >>]
    /\ UNCHANGED <<meshRoom, meshGone, meshSignals, meshEdits, meshRelayed, meshGot, meshMissed>>

\* disconnect(): close() of the mesh; the node takes i out of the room.
LeaveMesh(i) ==
    /\ i \in meshRoom
    /\ meshRoom' = meshRoom \ {i} /\ meshGone' = meshGone \cup {i}
    /\ meshPeers' = [meshPeers EXCEPT ![i] = [j \in Participant |-> "none"]]
    /\ meshSignals' = [meshSignals EXCEPT ![i] = << >>]
    /\ meshDirect' = [j \in Participant |-> [meshDirect[j] EXCEPT ![i] = << >>]]
    /\ meshRelayed' = [meshRelayed EXCEPT ![i] = << >>]
    /\ UNCHANGED <<meshEdits, meshGot, meshMissed, meshFailures>>

\* send() of an edit.
Open(i) == {j \in Participant : Entry(i, j) = "open"}
ByMesh(i) == Open(i) # {}
AlsoRelayed(i) == ~ByMesh(i)

SendEdit(i) ==
    LET edit == [from |-> i, number |-> meshEdits[i] + 1]
        others == meshRoom \ {i}
        reached == IF ByMesh(i) THEN Open(i) ELSE others
    IN  /\ i \in meshRoom \cap Editors /\ meshEdits[i] < MaxEdits
        /\ meshEdits' = [meshEdits EXCEPT ![i] = @ + 1]
        /\ meshDirect' = [meshDirect EXCEPT ![i] = [j \in Participant |->
               IF ByMesh(i) /\ j \in Open(i) /\ Entry(j, i) # "none" THEN Append(@[j], edit) ELSE @[j]]]
        /\ meshRelayed' = [j \in Participant |->
               IF AlsoRelayed(i) /\ j \in others THEN Append(meshRelayed[j], edit)
               ELSE meshRelayed[j]]
        /\ meshMissed' = meshMissed \cup {<<edit, j>> : j \in others \ reached}
        /\ UNCHANGED <<meshRoom, meshGone, meshPeers, meshSignals, meshGot, meshFailures>>

ReceiveEdit(i) ==
    /\ i \in meshRoom
    /\ \/ /\ meshRelayed[i] # << >>
          /\ meshGot' = [meshGot EXCEPT ![i] = Append(@, Head(meshRelayed[i]))]
          /\ meshRelayed' = [meshRelayed EXCEPT ![i] = Tail(@)] /\ UNCHANGED meshDirect
       \/ \E j \in Participant :
             /\ Entry(i, j) = "open" /\ meshDirect[j][i] # << >>
             /\ meshGot' = [meshGot EXCEPT ![i] = Append(@, Head(meshDirect[j][i]))]
             /\ meshDirect' = [meshDirect EXCEPT ![j][i] = Tail(@)] /\ UNCHANGED meshRelayed
    /\ UNCHANGED <<meshRoom, meshGone, meshPeers, meshSignals, meshEdits, meshMissed, meshFailures>>

Negotiate(i) ==
    \/ HandleOffer(i) \/ HandleAnswer(i)
    \/ \E j \in Participant : \/ StartAsInitiator(i, j) \/ OfferReady(i, j) \/ AnswerReady(i, j)
                              \/ ChannelOpens(i, j)

MeshNext ==
    \E i \in Participant : \/ Join(i) \/ LeaveMesh(i) \/ Negotiate(i) \/ SendEdit(i) \/ ReceiveEdit(i)
                           \/ \E j \in Participant : ChannelCloses(i, j)

MeshSpec == MeshInit /\ [][MeshNext]_meshVars

\* Promises resolve and the node hands signals on; nobody has to edit or leave.
MeshFairness == WF_meshVars(\E i \in Participant : Negotiate(i))
MeshFairSpec == MeshSpec /\ MeshFairness

-----------------------------------------------------------------------------
(* Properties.                                                             *)

EditRecord == [from : Participant, number : 1 .. MaxEdits]
MeshTypeOK ==
    /\ meshRoom \subseteq Participant /\ meshGone \subseteq Participant
    /\ meshPeers \in [Participant -> [Participant -> EntryStates]]
    /\ \A i \in Participant : Entry(i, i) = "none"
    /\ meshSignals \in [Participant -> Seq([type : {"offer", "answer"}, from : Participant])]
    /\ meshEdits \in [Participant -> 0 .. MaxEdits]
    /\ meshDirect \in [Participant -> [Participant -> Seq(EditRecord)]]
    /\ meshRelayed \in [Participant -> Seq(EditRecord)]
    /\ meshGot \in [Participant -> Seq(EditRecord)]
    /\ meshMissed \subseteq EditRecord \X Participant
    /\ meshFailures \in 0 .. MaxFailures

\* Two participants never offer to each other at once, which would make each
\* throw away the connection it has begun; nobody answers what was not offered.
NoCrossedOffers ==
    \A i, j \in Participant :
        /\ Entry(i, j) \in {"offering", "offered", "connected"} => i < j
        /\ Entry(i, j) \in {"answering", "answered"} => j < i

\* An edit that changes its way while channels open and close comes once.
NoEditTwice ==
    \A i \in Participant : \A k, l \in 1 .. Len(meshGot[i]) :
        k # l => meshGot[i][k] # meshGot[i][l]

\* While only two have ever met, every edit is sent to the other, over the channel
\* or the node.  With three this is false: one open channel is enough for an
\* edit not to go over the node, to whom else it may concern.
TwoMissNothing == Cardinality(meshRoom \cup meshGone) <= 2 => meshMissed = {}

\* Any two participants that stay get their channel, unless it fails.
PairsConnect ==
    []<>(\A i, j \in meshRoom : i # j =>
            \/ Entry(i, j) = "open" /\ Entry(j, i) = "open"
            \/ "closed" \in {Entry(i, j), Entry(j, i)})

\* The mesh comes up without crossed offers, and an edit that finds it half up is
\* neither doubled nor, between two, lost.
MeshDelivers == [](NoCrossedOffers /\ NoEditTwice /\ TwoMissNothing) /\ PairsConnect
=============================================================================
