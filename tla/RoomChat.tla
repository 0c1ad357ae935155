------------------------------ MODULE RoomChat ------------------------------
(***************************************************************************)
(* The lines of the room chat (chatService.ts): the one who speaks shows   *)
(* its line at once, the others when the node relays it, and each leaves   *)
(* out by itself what looks like a line it has.  A line carries the time   *)
(* of its sender.  Members that stay in the room; names are left out.      *)
(* (A definition named X_... is X with a bug put in, for the mutation      *)
(* runs; no other definition uses it.)                                     *)
(***************************************************************************)
EXTENDS Integers, Sequences, SequencesExt, Functions

CONSTANTS
    Speaker,
    ChatText,
    Window,          \* lines closer than this count as the same
    KeepLines,       \* lines a member keeps
    MaxLines,        \* bound: lines said
    MaxChatTime      \* bound: ticks of the clock

ASSUME ChatAssumption ==
    Window \in Nat \ {0} /\ KeepLines \in Nat \ {0} /\ MaxLines \in Nat /\ MaxChatTime \in Nat

VARIABLES
    chatMessages,    \* what a member shows
    chatWire,        \* lines under way to a member
    chatSaid,        \* how many lines were said
    chatTime

chatVars == <<chatMessages, chatWire, chatSaid, chatTime>>

ChatLine == [socketId : Speaker, text : ChatText, timestamp : 0 .. MaxChatTime]

ChatInit ==
    /\ chatMessages = [s \in Speaker |-> << >>]
    /\ chatWire = [s \in Speaker |-> << >>]
    /\ chatSaid = 0 /\ chatTime = 0

Apart(a, b) == IF a < b THEN b - a ELSE a - b

IsDuplicate_lastOnly(lines, line) ==
    /\ lines # << >> /\ Last(lines).text = line.text
    /\ Apart(Last(lines).timestamp, line.timestamp) < Window
IsDuplicate(lines, line) ==
    \E old \in ToSet(lines) :
        /\ old.socketId = line.socketId /\ old.text = line.text
        /\ Apart(old.timestamp, line.timestamp) < Window

\* trim() keeps the last lines.
Trimmed(lines) == IF Len(lines) > KeepLines THEN Tail(lines) ELSE lines

\* addOptimistic and receive
WithLine(lines, line) == IF IsDuplicate(lines, line) THEN lines ELSE Trimmed(Append(lines, line))

\* sendChat: a line that looks like an earlier one is sent all the same.
SendChat(s, text) ==
    LET line == [socketId |-> s, text |-> text, timestamp |-> chatTime]
    IN  /\ chatSaid < MaxLines /\ chatSaid' = chatSaid + 1
        /\ chatMessages' = [chatMessages EXCEPT ![s] = WithLine(@, line)]
        /\ chatWire' = [m \in Speaker |-> IF m = s THEN chatWire[m] ELSE Append(chatWire[m], line)]
        /\ UNCHANGED chatTime

ReceiveChat(m) ==
    /\ chatWire[m] # << >>
    /\ chatMessages' = [chatMessages EXCEPT ![m] = WithLine(@, Head(chatWire[m]))]
    /\ chatWire' = [chatWire EXCEPT ![m] = Tail(@)]
    /\ UNCHANGED <<chatSaid, chatTime>>

ChatTicks ==
    /\ chatTime < MaxChatTime /\ chatTime' = chatTime + 1
    /\ UNCHANGED <<chatMessages, chatWire, chatSaid>>

ChatNext ==
    \/ ChatTicks
    \/ \E s \in Speaker : ReceiveChat(s) \/ \E text \in ChatText : SendChat(s, text)

ChatSpec == ChatInit /\ [][ChatNext]_chatVars

-----------------------------------------------------------------------------
(* Properties.                                                             *)

\* Members keep a bounded list of lines.
ChatTypeOK ==
    /\ chatMessages \in [Speaker -> Seq(ChatLine)]
    /\ \A s \in Speaker : Len(chatMessages[s]) <= KeepLines
    /\ chatWire \in [Speaker -> Seq(ChatLine)]
    /\ chatSaid \in 0 .. MaxLines /\ chatTime \in 0 .. MaxChatTime

\* The places of a speaker's lines, and that two show the same lines of it.
LinesBy(m, s) == {i \in DOMAIN chatMessages[m] : chatMessages[m][i].socketId = s}
SameLines(m, n, s) ==
    \E f \in Bijection(LinesBy(m, s), LinesBy(n, s)) :
        /\ \A i \in LinesBy(m, s) : chatMessages[n][f[i]] = chatMessages[m][i]
        /\ \A i, j \in LinesBy(m, s) : i < j => f[i] < f[j]

\* Though each member decides by itself what is a repetition, and sees the lines
\* of the others in an order of its own, two members that have heard all show the
\* same lines of every speaker, while none has begun to drop old lines.
SameLinesForAll ==
    \A m, n \in Speaker :
        (\A x \in {m, n} : chatWire[x] = << >> /\ Len(chatMessages[x]) < KeepLines)
            => \A s \in Speaker : SameLines(m, n, s)
=============================================================================
