---------------------------- MODULE OrderedChannel ----------------------------
(***************************************************************************)
(* What the extension and the node take a WebSocket connection to be: two  *)
(* ends that come up and close once each, and between them two queues.     *)
(* Messages 1, 2, ... posted at one end come out at the other in order,    *)
(* without gaps, only while that end is up; closing may lose the rest.     *)
(* RoomServer's and ClientSession's wires are such queues.                 *)
(***************************************************************************)
EXTENDS Integers, Sequences

CONSTANT MaxSent   \* messages an end posts at most

VARIABLES
    phase,      \* of an end: "new", "up", "closed"
    posted,     \* messages posted by an end
    got         \* messages that came out at an end

channelVars == <<phase, posted, got>>
Ends == {"client", "server"}
Peer(e) == IF e = "client" THEN "server" ELSE "client"

ChannelInit ==
    /\ phase = [e \in Ends |-> "new"]
    /\ posted = [e \in Ends |-> 0] /\ got = [e \in Ends |-> << >>]

ComeUp(e) ==
    /\ phase[e] = "new" /\ phase' = [phase EXCEPT ![e] = "up"]
    /\ UNCHANGED <<posted, got>>

\* A message that is too large ends what an end posts.
Post(e) ==
    /\ phase[e] = "up"
    /\ \E n \in {posted[e] + 1, MaxSent[e]} : posted' = [posted EXCEPT ![e] = n]
    /\ UNCHANGED <<phase, got>>

\* Several come out at once where a paused socket had read ahead.
UpTo(n) == [i \in 1 .. n |-> i]
ComeOut(e) ==
    /\ phase[e] = "up"
    /\ \E n \in Len(got[e]) .. posted[Peer(e)] : got' = [got EXCEPT ![e] = UpTo(n)]
    /\ UNCHANGED <<phase, posted>>

Shut(e) ==
    /\ phase[e] \in {"new", "up"} /\ phase' = [phase EXCEPT ![e] = "closed"]
    /\ UNCHANGED <<posted, got>>

ChannelNext == \E e \in Ends : ComeUp(e) \/ Post(e) \/ ComeOut(e) \/ Shut(e)
ChannelSpec == ChannelInit /\ [][ChannelNext]_channelVars
=============================================================================
