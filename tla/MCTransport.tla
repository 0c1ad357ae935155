---------------------------- MODULE MCTransport ----------------------------
(***************************************************************************)
(* The connection's library, for one run of TLC: WebSocket, WsReceiver,    *)
(* WsSender and WsHandshake are independent machines.  `part' says which   *)
(* of them moves in a behaviour; the others stay in one initial state.     *)
(***************************************************************************)
EXTENDS WebSocket, WsReceiver, WsSender, WsHandshake, TLC

CONSTANTS s1, s2, x1, x2

VARIABLE part

Parts == {"link", "receiver", "sender", "handshake"}

-----------------------------------------------------------------------------
(* WebSocket: the client sends two messages, the server closes or pauses.  *)

ClientSends == [e \in End |-> IF e = "client" THEN 2 ELSE 0]

(* WsReceiver: frames and what a peer may get wrong about them.            *)

Frame(op, fin, len) ==
    [op |-> op, fin |-> fin, len |-> len, rsv1 |-> FALSE, rsv23 |-> FALSE,
     mask |-> "right", good |-> TRUE, out |-> 0]
Compressed(op, fin, len, out) == [Frame(op, fin, len) EXCEPT !.rsv1 = TRUE, !.out = out]

UsualFrames ==
    {Frame("text", TRUE, 1), Frame("text", FALSE, 1), Frame("continuation", TRUE, 1),
     Frame("ping", TRUE, 0), Frame("close", TRUE, 0), Frame("binary", FALSE, 2),
     Compressed("text", TRUE, 1, 1), Compressed("binary", FALSE, 1, 2),
     [Frame("continuation", TRUE, 1) EXCEPT !.out = 1]}
OddFrames ==
    {Frame("binary", TRUE, 4), Frame("text", TRUE, 5), Frame("pong", FALSE, 0),
     Frame("reserved", TRUE, 0), [Frame("text", TRUE, 1) EXCEPT !.good = FALSE],
     [Frame("text", TRUE, 0) EXCEPT !.mask = "wrong"]}
FrameSequences ==
    {<< >>, <<Frame("binary", TRUE, 2), Frame("binary", TRUE, 2)>>}
        \cup {<<a, b>> : a \in UsualFrames, b \in UsualFrames}
        \cup {<<a, b>> : a \in {Frame("text", FALSE, 1), Compressed("text", TRUE, 1, 1)}, b \in OddFrames}
        \cup {<<a, b, c>> : a \in {f \in UsualFrames : ~f.fin},
                            b \in {Frame("ping", TRUE, 0), Frame("continuation", FALSE, 1)},
                            c \in {Frame("close", TRUE, 0), Frame("continuation", TRUE, 1),
                                   Frame("continuation", TRUE, 2)}}
ReceiverConfigs ==
    {[server |-> TRUE, sync |-> TRUE, deflate |-> TRUE], [server |-> FALSE, sync |-> FALSE, deflate |-> TRUE]}

(* WsSender: two connections that share the limiter.                       *)

Kind(blob, compress) == [blob |-> blob, compress |-> compress]
TwoKinds ==
    (s1 :> {Kind(b, c) : b \in BOOLEAN, c \in BOOLEAN}) @@ (s2 :> {Kind(FALSE, TRUE)})
TwoPosts == (s1 :> 2) @@ (s2 :> 1)

(* WsHandshake: options that ask for limits, and options that leave them.  *)

Demanding ==
    [deflate : {TRUE}, snct : {"yes", "no"}, cnct : {"no"}, smwb : {9, 12}, cmwb : {9, 12}]
Lax ==
    [deflate : {TRUE}, snct : {"unset"}, cnct : {"unset"}, smwb : {Unset, Bare, 12}, cmwb : {Unset, Never, 9}]
DeflateOptions == {NoDeflate} \cup Demanding \cup Lax

-----------------------------------------------------------------------------
\* A part that does not move has nothing to read and no options.
AtRest(p) ==
    CASE p = "receiver" -> rxFrames = << >> /\ rxCfg = CHOOSE c \in ReceiverConfigs : TRUE
      [] p = "handshake" -> hsClientOptions = NoDeflate /\ hsServerOptions = NoDeflate
      [] OTHER -> TRUE

TransportInit ==
    /\ part \in Parts
    /\ part # "receiver" => AtRest("receiver")
    /\ part # "handshake" => AtRest("handshake")
    /\ LinkInit /\ RxInit /\ TxInit /\ HsInit

LinkMoves(A) == part = "link" /\ A /\ UNCHANGED <<part, rxVars, txVars, hsVars>>
ReceiverMoves(A) == part = "receiver" /\ A /\ UNCHANGED <<part, linkVars, txVars, hsVars>>
SenderMoves(A) == part = "sender" /\ A /\ UNCHANGED <<part, linkVars, rxVars, hsVars>>
HandshakeMoves(A) == part = "handshake" /\ A /\ UNCHANGED <<part, linkVars, rxVars, txVars>>

TransportNext ==
    \/ LinkMoves(LinkNext) \/ ReceiverMoves(RxNext)
    \/ SenderMoves(TxNext) \/ HandshakeMoves(HsNext)

transportVars == <<part, linkVars, rxVars, txVars, hsVars>>

\* What the event loop of a part does by itself.
LoopMoves ==
    \/ LinkMoves(EventLoop) \/ ReceiverMoves(RxNext /\ ~PauseReading)
    \/ SenderMoves(\E s \in Sender : Completes(s)) \/ HandshakeMoves(EmitServerClose)

\* The fairness of each part.  As only one part moves in a behaviour, fairness of
\* a disjunction of moves of different parts is fairness of each.
TransportSpec ==
    /\ TransportInit /\ [][TransportNext]_transportVars
    /\ WF_transportVars(LoopMoves)

\* The type invariants of the four.
TransportTypeOK == LinkTypeOK /\ RxTypeOK /\ TxTypeOK /\ HsTypeOK
=============================================================================
