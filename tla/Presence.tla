------------------------------ MODULE Presence ------------------------------
(***************************************************************************)
(* The cursors of the others as one participant shows them                 *)
(* (presenceService.ts): a cursor comes over the node or over a data       *)
(* channel, typing is shown until a timer of two seconds ends it, and a    *)
(* USER_LEFT takes both away.  Colours, positions and paths are left out.  *)
(* (A definition named X_... is X with a bug put in, for the mutation      *)
(* runs; no other definition uses it.)                                     *)
(***************************************************************************)
EXTENDS Naturals, Sequences

CONSTANTS
    Typist,          \* the other participants
    MaxKeys,         \* bound: frames each of them sends
    MaxResets        \* bound: disconnects of the one that looks on

ASSUME PresenceAssumption == MaxKeys \in [Typist -> Nat] /\ MaxResets \in Nat

VARIABLES
    presenceRoom,    \* who is in the room
    presenceSent,    \* frames a typist has sent
    presenceNode,    \* frames under way over the node
    presenceMesh,    \* typists with a cursor under way over their channel
    cursors,         \* "none", or whether the cursor is shown typing
    typingTimers,    \* "none", "running", or "fired" and still in the map
    presenceLate,    \* whose cursor came over the channel after they had left
    presenceResets

presenceRoomVars == <<presenceRoom, presenceSent>>
presenceVars == <<presenceRoomVars, presenceNode, presenceMesh, cursors, typingTimers, presenceLate, presenceResets>>

PresenceInit ==
    /\ presenceRoom = Typist
    /\ presenceSent = [u \in Typist |-> 0]
    /\ presenceNode = << >> /\ presenceMesh = {}
    /\ cursors = [u \in Typist |-> "none"]
    /\ typingTimers = [u \in Typist |-> "none"]
    /\ presenceLate = {} /\ presenceResets = 0

\* A typist moves its cursor (sent over an open channel, or else over the node),
\* types, or leaves.
SendPresence(u) ==
    /\ u \in presenceRoom /\ presenceSent[u] < MaxKeys[u]
    /\ presenceSent' = [presenceSent EXCEPT ![u] = @ + 1]
    /\ \/ presenceMesh' = presenceMesh \cup {u} /\ UNCHANGED presenceNode
       \/ \E type \in {"CURSOR_UPDATE", "TYPING_INDICATOR"} :
             presenceNode' = Append(presenceNode, <<type, u>>) /\ UNCHANGED presenceMesh
    /\ UNCHANGED <<presenceRoom, cursors, typingTimers, presenceLate, presenceResets>>

LeaveRoom(u) ==
    /\ u \in presenceRoom
    /\ presenceRoom' = presenceRoom \ {u}
    /\ presenceNode' = Append(presenceNode, <<"USER_LEFT", u>>)
    /\ UNCHANGED <<presenceSent, presenceMesh, cursors, typingTimers, presenceLate, presenceResets>>

\* applyRemoteCursor: the sender never says that it is typing.
ApplyRemoteCursor(u) == cursors' = [cursors EXCEPT ![u] = "still"]

SetTyping(u) ==
    /\ cursors' = [cursors EXCEPT ![u] = IF @ = "none" THEN @ ELSE "typing"]
    /\ typingTimers' = [typingTimers EXCEPT ![u] = "running"]

RemoveUser(u) ==
    /\ cursors' = [cursors EXCEPT ![u] = "none"]
    /\ typingTimers' = [typingTimers EXCEPT ![u] = "none"]

HearNode ==
    /\ presenceNode # << >>
    /\ LET type == Head(presenceNode)[1]
           u == Head(presenceNode)[2]
       IN  \/ type = "CURSOR_UPDATE" /\ ApplyRemoteCursor(u) /\ UNCHANGED typingTimers
           \/ type = "TYPING_INDICATOR" /\ SetTyping(u)
           \/ type = "USER_LEFT" /\ RemoveUser(u)
    /\ presenceNode' = Tail(presenceNode)
    /\ UNCHANGED <<presenceRoomVars, presenceMesh, presenceLate, presenceResets>>

HasLeft(u) == u \notin presenceRoom /\ <<"USER_LEFT", u>> \notin {presenceNode[i] : i \in 1 .. Len(presenceNode)}

HearMesh(u) ==
    /\ u \in presenceMesh
    /\ ApplyRemoteCursor(u)
    /\ presenceMesh' = presenceMesh \ {u}
    /\ presenceLate' = IF HasLeft(u) THEN presenceLate \cup {u} ELSE presenceLate
    /\ UNCHANGED <<presenceRoomVars, presenceNode, typingTimers, presenceResets>>

TypingTimerFires(u) ==
    /\ typingTimers[u] = "running"
    /\ typingTimers' = [typingTimers EXCEPT ![u] = "fired"]
    /\ cursors' = [cursors EXCEPT ![u] = IF @ = "none" THEN @ ELSE "still"]
    /\ UNCHANGED <<presenceRoomVars, presenceNode, presenceMesh, presenceLate, presenceResets>>

\* disconnect() of the one that looks on, who joins again; frames under way and
\* channels are gone.
ResetPresence_keepsCursors ==
    /\ presenceResets < MaxResets /\ presenceResets' = presenceResets + 1
    /\ typingTimers' = [u \in Typist |-> "none"]
    /\ presenceNode' = << >> /\ presenceMesh' = {} /\ presenceLate' = {}
    /\ UNCHANGED <<presenceRoomVars, cursors>>
ResetPresence ==
    /\ presenceResets < MaxResets /\ presenceResets' = presenceResets + 1
    /\ cursors' = [u \in Typist |-> "none"]
    /\ typingTimers' = [u \in Typist |-> "none"]
    /\ presenceNode' = << >> /\ presenceMesh' = {} /\ presenceLate' = {}
    /\ UNCHANGED presenceRoomVars

PresenceNext ==
    \/ HearNode \/ ResetPresence
    \/ \E u \in Typist : SendPresence(u) \/ LeaveRoom(u) \/ HearMesh(u) \/ TypingTimerFires(u)

PresenceSpec == PresenceInit /\ [][PresenceNext]_presenceVars

\* Frames of the node are delivered and timers fire.
PresenceFairness ==
    /\ WF_presenceVars(HearNode)
    /\ \A u \in Typist : WF_presenceVars(TypingTimerFires(u))
PresenceFairSpec == PresenceSpec /\ PresenceFairness

-----------------------------------------------------------------------------
(* Properties.                                                             *)

\* The state of cursors, timers and frames is what the code can hold.
PresenceTypeOK ==
    /\ presenceRoom \subseteq Typist /\ presenceMesh \subseteq Typist /\ presenceLate \subseteq Typist
    /\ \A u \in Typist : presenceSent[u] \in 0 .. MaxKeys[u]
    /\ presenceNode \in Seq({"CURSOR_UPDATE", "TYPING_INDICATOR", "USER_LEFT"} \X Typist)
    /\ cursors \in [Typist -> {"none", "still", "typing"}]
    /\ typingTimers \in [Typist -> {"none", "running", "fired"}]
    /\ presenceResets \in 0 .. MaxResets

\* Whoever is shown typing has a timer that will end it, through renewed timers,
\* cursors that replace each other, departures and disconnects.
TypingIsTimed == \A u \in Typist : cursors[u] = "typing" => typingTimers[u] = "running"

\* No cursor stays behind of one who has left, but for one that came over a data
\* channel after the node had told of the departure.
OnlyLateGhosts == \A u \in Typist : HasLeft(u) /\ cursors[u] # "none" => u \in presenceLate

\* Someone shown typing stops being shown so, once no more keys are pressed.
TypingStops == []<>(\A u \in Typist : cursors[u] # "typing")

\* What is shown of the others goes when they stop or leave.
PresenceIsCurrent == [](TypingIsTimed /\ OnlyLateGhosts) /\ TypingStops
=============================================================================
