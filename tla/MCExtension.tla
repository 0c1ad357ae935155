---------------------------- MODULE MCExtension ----------------------------
(***************************************************************************)
(* Extension for TLC: the values of its constants, DiffMatchPatch as the   *)
(* engine's library, and the fairness of the parts.                        *)
(***************************************************************************)
EXTENDS Extension, DiffMatchPatch, TLC

CONSTANTS m1, m2, q1, q2, u1, u2

\* FileTree: one member has a file, and one in the folder left out; the other
\* may make the latter, alike or not.
FirstFiles == [m \in Member |-> IF m = 1 THEN {"f", "out"} ELSE {}]

\* Presence: what the two may type.
Keystrokes == (u1 :> 3) @@ (u2 :> 1)

\* OTEngine: texts of one word, of one letter, of two lines and of blank lines;
\* changes of ranges of the first two lines.
Documents ==
    {<<"a", "b">>, [i \in 1 .. 8 |-> "a"],
     <<"a", "b", "a", "b", "a", "b", "\n", "a", "b", "a">>,
     <<"a", "a", "a", ".", "\n", "\n", "b", "\n">>,
     <<"a", "b", "c", " ", "a", "b", "c", "\n", "a", "b", "c">>}
Positions == [line : {0, 1}, character : {0, 2, 5}]
InOrder(p, q) == p.line < q.line \/ (p.line = q.line /\ p.character <= q.character)
Replacements(texts) ==
    {c \in [start : Positions, end : Positions, text : texts] : InOrder(c.start, c.end)}
Insertions(c) == {[start |-> p, end |-> p, text |-> <<c>>] : p \in Positions}
Lists(changes) == {<<c>> : c \in changes} \cup {<< >>}
PeerChanges == Lists(Replacements({<< >>, <<"b", "\n", "a">>}) \cup Insertions("y"))
OwnChanges == Lists(Insertions("x"))

-----------------------------------------------------------------------------
\* The fairness of each part, or less; that of FileSync is left out.  As only one
\* part moves in a behaviour, fairness of a disjunction of moves of different
\* parts is fairness of each, and a move that stays enabled until it is made may
\* stand under SF for WF.
LoopMoves ==
    \/ Moves("session", SocketClosed \/ TimerFires \/ \E i \in 1 .. MaxLanding : Lands(i))
    \/ Moves("mesh", \E i \in Participant : Negotiate(i))
    \/ Moves("tree", (\E m \in Member : TreeTask(m)) \/ EndPull)
    \/ Moves("tunnel", TunnelHears(m1))
    \/ Moves("presence", HearNode \/ \E u \in Typist : TypingTimerFires(u))

ExtensionFairSpec ==
    /\ ExtensionSpec
    /\ WF_extensionVars(LoopMoves)
    /\ SF_extensionVars(Moves("session", SocketOpens) \/ Moves("tunnel", TunnelHears(m2)))
    /\ SF_extensionVars(\/ Moves("session", Serve)
                        \/ Moves("tunnel", \E r \in TunnelRequest : RequestEvent(r) \/ ProxyTimeout(r)))
    /\ SF_extensionVars(Moves("session", Receive))
=============================================================================
