------------------------------ MODULE WebSocket ------------------------------
(***************************************************************************)
(* One WebSocket connection as the ws library keeps it: the opening        *)
(* request, messages and pings, the closing handshake with its timer, and  *)
(* everything that can end a connection otherwise.  Two ends, the          *)
(* extension and the node, each with a WebSocket object, its receiver and  *)
(* a socket of Node's; a queue of frames in each direction.                *)
(* No extension is negotiated (the node does not offer one), so frames are *)
(* parsed and written in the same turn.  Errors of the receiver and the    *)
(* finish of a stream are emitted on the next tick: before the next event  *)
(* of a socket or timer, but possibly after calls made by listeners.       *)
(***************************************************************************)
EXTENDS Integers, Sequences, FiniteSets

CONSTANTS
    Code,       \* status codes the ends may close with
    MaxSent,    \* bound: messages an end sends, a function of the end
    MaxPings,   \* bound: pings of the node
    Pausing     \* ends that are paused at times

NoStatus == 1005
Abnormal == 1006
TooBig == 1009

ASSUME CodeAssumption == Code \subseteq Nat \ {NoStatus, Abnormal, TooBig}

End == {"client", "server"}

ASSUME MaxAssumption == MaxSent \in [End -> Nat] /\ MaxPings \in Nat
ASSUME PausingAssumption == Pausing \subseteq End

VARIABLES
    opening,    \* the client's request: under way, answered, and how it ended
    ready,      \* readyState
    stream,     \* the socket: "ended" after end(), "destroyed" until its close event
    finRead,    \* the socket's 'end' event was emitted
    flowing,    \* the socket is read from (not paused)
    wire,       \* frames under way to an end
    cut,        \* the network is gone and says nothing
    frameSent,  \* the close frame: not sent, handed to the socket, written
    frameRecv,  \* _closeFrameReceived
    closeCode,  \* _closeCode
    timer,      \* the close timer runs
    receiver,   \* the receiver, a writable stream
    sent, delivered,        \* messages sent and 'message' events
    pings, pongs,           \* pings sent and 'pong' events
    closes, errors          \* 'close' and 'error' events

handshake == <<frameSent, frameRecv, closeCode, timer>>
traffic == <<sent, delivered, pings, pongs>>
linkVars == <<opening, ready, stream, finRead, flowing, wire, cut, handshake,
              receiver, traffic, closes, errors>>

Other(e) == IF e = "client" THEN "server" ELSE "client"

Message(n) == [type |-> "message", value |-> n]
CloseFrame(c) == [type |-> "close", value |-> c]
Signal(type) == [type |-> type, value |-> 0]    \* "ping", "pong", "fin", "oversized"

Numbers == 1 .. MaxSent["client"] + MaxSent["server"]
WireFrame ==
    [type : {"message"}, value : Numbers]
        \cup [type : {"close"}, value : Code \cup {NoStatus, TooBig}]
        \cup [type : {"ping", "pong", "fin", "oversized"}, value : {0}]

LinkInit ==
    /\ opening = "request"
    /\ ready = [e \in End |-> "CONNECTING"]
    /\ stream = [e \in End |-> "none"]
    /\ finRead = [e \in End |-> FALSE]
    /\ flowing = [e \in End |-> TRUE]
    /\ wire = [e \in End |-> << >>]
    /\ cut = FALSE
    /\ frameSent = [e \in End |-> "no"]
    /\ frameRecv = [e \in End |-> FALSE]
    /\ closeCode = [e \in End |-> Abnormal]
    /\ timer = [e \in End |-> FALSE]
    /\ receiver = [e \in End |-> "running"]
    /\ sent = [e \in End |-> 0] /\ delivered = [e \in End |-> << >>]
    /\ pings = 0 /\ pongs = 0
    /\ closes = [e \in End |-> 0] /\ errors = [e \in End |-> 0]

-----------------------------------------------------------------------------
(* Sockets.  (A definition named X_... is X with a bug put in, for the     *)
(* mutation runs; no other definition uses it.)                            *)

Alive(e) == stream[e] \in {"open", "ended"}

\* Somebody still takes what arrives at e; before the client has seen the
\* answer to its request its socket belongs to the request.
Takes(e) == ~cut /\ (Alive(e) \/ (e = "client" /\ opening = "answered"))

Put(w, e, f) == IF Takes(Other(e)) THEN [w EXCEPT ![Other(e)] = Append(@, f)] ELSE w

\* socket.end() once all is written: a FIN behind what was written before.
Ended(e) == IF stream[e] = "open" THEN [stream EXCEPT ![e] = "ended"] ELSE stream
WithFin_none(w, e) == w
WithFin(w, e) == IF stream[e] = "open" THEN Put(w, e, Signal("fin")) ELSE w

\* socket.destroy().  Of what had arrived only what a paused socket had read
\* ahead (k frames) is kept.
Destroy(e, k) ==
    /\ k \in 0 .. Len(wire[e]) /\ (flowing[e] => k = 0)
    /\ stream' = [stream EXCEPT ![e] = "destroyed"]
    /\ wire' = [WithFin(wire, e) EXCEPT ![e] = SubSeq(@, 1, k)]

\* The next tick of e has something to do, ahead of any event of its socket.
Ticking(e) ==
    \/ receiver[e] \in {"erroring", "ending"}
    \/ e = "client" /\ opening = "aborted"

\* receiver.end(): 'finish' is emitted later, never after an error.
EndReceiver(r) == IF r = "running" THEN "ending" ELSE r

-----------------------------------------------------------------------------
(* The opening handshake.                                                  *)

\* setSocket
Established(e) ==
    /\ ready' = [ready EXCEPT ![e] = "OPEN"]
    /\ stream' = [stream EXCEPT ![e] = "open"]

Accept ==
    /\ opening = "request" /\ ~cut
    /\ opening' = "answered" /\ Established("server")
    /\ UNCHANGED <<finRead, flowing, wire, cut, handshake, receiver, traffic, closes, errors>>

\* Frames that came with the answer are read first.
Upgraded ==
    /\ opening = "answered" /\ ready["client"] = "CONNECTING" /\ ~cut
    /\ opening' = "done" /\ Established("client")
    /\ UNCHANGED <<finRead, flowing, wire, cut, handshake, receiver, traffic, closes, errors>>

\* The request fails: emitErrorAndClose.
RequestFails ==
    /\ opening \in {"request", "answered"}
    /\ opening' = "done"
    /\ ready' = [ready EXCEPT !["client"] = "CLOSED"]
    /\ errors' = [errors EXCEPT !["client"] = @ + 1]
    /\ closes' = [closes EXCEPT !["client"] = @ + 1]
    /\ wire' = [e \in End |-> IF opening = "answered" /\ ~cut /\ e = "server"
                              THEN Append(wire[e], Signal("fin")) ELSE << >>]
    /\ UNCHANGED <<stream, finRead, flowing, cut, handshake, receiver, traffic>>

\* abortHandshake: another answer than a good 101, or close() or terminate()
\* before it.  Error and close come together, later.
AbortRequest ==
    /\ opening' = "aborted"
    /\ ready' = [ready EXCEPT !["client"] = "CLOSING"]
    /\ wire' = [e \in End |-> IF opening = "answered" /\ ~cut /\ e = "server"
                              THEN Append(wire[e], Signal("fin")) ELSE << >>]
    /\ UNCHANGED <<stream, finRead, flowing, cut, handshake, receiver, traffic, closes, errors>>

Refused == opening \in {"request", "answered"} /\ ~cut /\ AbortRequest

Aborted ==
    /\ opening = "aborted"
    /\ opening' = "done"
    /\ ready' = [ready EXCEPT !["client"] = "CLOSED"]
    /\ errors' = [errors EXCEPT !["client"] = @ + 1]
    /\ closes' = [closes EXCEPT !["client"] = @ + 1]
    /\ UNCHANGED <<stream, finRead, flowing, wire, cut, handshake, receiver, traffic>>

-----------------------------------------------------------------------------
(* Calls of the program.                                                   *)

Send(e) ==
    /\ ready[e] = "OPEN" /\ sent[e] < MaxSent[e]
    /\ \/ /\ sent' = [sent EXCEPT ![e] = @ + 1]
          /\ wire' = Put(wire, e, Message(sent'[e]))
       \/ /\ e = "client" /\ sent' = [sent EXCEPT ![e] = MaxSent[e]]
          /\ wire' = Put(wire, e, Signal("oversized"))   \* more than maxPayload
    /\ UNCHANGED <<opening, ready, stream, finRead, flowing, cut, handshake, receiver,
                   delivered, pings, pongs, closes, errors>>

Ping ==
    /\ ready["server"] = "OPEN" /\ pings < MaxPings
    /\ \A e \in End : flowing[e]     \* bound: who is pinged is not paused
    /\ pings' = pings + 1
    /\ wire' = Put(wire, "server", Signal("ping"))
    /\ UNCHANGED <<opening, ready, stream, finRead, flowing, cut, handshake, receiver,
                   sent, delivered, pongs, closes, errors>>

\* close() of an OPEN socket: the frame is handed over and the timer set.
StartClose(e, c) ==
    /\ ready' = [ready EXCEPT ![e] = "CLOSING"]
    /\ frameSent' = [frameSent EXCEPT ![e] = "handed"]
    /\ timer' = [timer EXCEPT ![e] = TRUE]
    /\ wire' = Put(wire, e, CloseFrame(c))

\* close() again: ends the socket if both frames have gone, which otherwise
\* the callback of the write does.
Close(e, c) ==
    \/ e = "client" /\ ready[e] = "CONNECTING" /\ AbortRequest
    \/ /\ ready[e] = "OPEN"
       /\ StartClose(e, c)
       /\ UNCHANGED <<opening, stream, finRead, flowing, cut, frameRecv, closeCode,
                      receiver, traffic, closes, errors>>
    \/ /\ ready[e] = "CLOSING" /\ frameSent[e] = "written"
       /\ frameRecv[e] \/ receiver[e] = "errored"
       /\ stream' = Ended(e) /\ wire' = WithFin(wire, e)
       /\ UNCHANGED <<opening, ready, finRead, flowing, cut, handshake, receiver,
                      traffic, closes, errors>>

Terminate(e) ==
    \/ e = "client" /\ ready[e] = "CONNECTING" /\ AbortRequest
    \/ /\ ready[e] \in {"OPEN", "CLOSING"} /\ Alive(e)
       /\ ready' = [ready EXCEPT ![e] = "CLOSING"]
       /\ \E k \in 0 .. Len(wire[e]) : Destroy(e, k)
       /\ UNCHANGED <<opening, finRead, flowing, cut, handshake, receiver, traffic,
                      closes, errors>>

Pause(e) ==
    /\ e \in Pausing /\ pings = 0
    /\ ready[e] \in {"OPEN", "CLOSING"} /\ flowing[e] /\ stream[e] # "none"
    /\ flowing' = [flowing EXCEPT ![e] = FALSE]
    /\ UNCHANGED <<opening, ready, stream, finRead, wire, cut, handshake, receiver,
                   traffic, closes, errors>>
Resume(e) ==
    /\ ready[e] \in {"OPEN", "CLOSING"} /\ ~flowing[e]
    /\ flowing' = [flowing EXCEPT ![e] = TRUE]
    /\ UNCHANGED <<opening, ready, stream, finRead, wire, cut, handshake, receiver,
                   traffic, closes, errors>>

-----------------------------------------------------------------------------
(* Events of the sockets, the receivers and the timer.                     *)

Listening_afterError(e) == ~frameRecv[e]
Listening(e) == ~frameRecv[e] /\ receiver[e] \notin {"erroring", "errored"}
Arriving(e) == Head(wire[e])
Consumed(e) == [wire EXCEPT ![e] = Tail(@)]

Reads(e, type) ==
    /\ Alive(e) /\ flowing[e] /\ ~Ticking(e)
    /\ wire[e] # << >> /\ Arriving(e).type = type

\* A message, ping or pong; what comes after the other's close frame or after
\* an error is read and thrown away.
AnsweredPings(e) ==
    IF ready[e] = "OPEN" THEN Put(Consumed(e), e, Signal("pong")) ELSE Consumed(e)

ReadFrame(e) ==
    /\ \/ /\ Reads(e, "message")
          /\ delivered' = IF Listening(e)
                          THEN [delivered EXCEPT ![e] = Append(@, Arriving(e).value)]
                          ELSE delivered
          /\ wire' = Consumed(e) /\ UNCHANGED pongs
       \/ /\ Reads(e, "ping")
          /\ wire' = IF Listening(e) THEN AnsweredPings(e) ELSE Consumed(e)
          /\ UNCHANGED <<delivered, pongs>>
       \/ /\ Reads(e, "pong")
          /\ pongs' = IF Listening(e) THEN pongs + 1 ELSE pongs
          /\ wire' = Consumed(e) /\ UNCHANGED delivered
    /\ UNCHANGED <<opening, ready, stream, finRead, flowing, cut, handshake, receiver,
                   sent, pings, closes, errors>>

\* receiverOnConclude: the close frame of the other; it is answered with the
\* same code, and the receiver is ended.
Echo(c) == c
Concluded(e, c) ==
    /\ frameRecv' = [frameRecv EXCEPT ![e] = TRUE]
    /\ closeCode' = [closeCode EXCEPT ![e] = c]
    /\ receiver' = [receiver EXCEPT ![e] = EndReceiver(@)]

ReadClose(e) ==
    /\ Reads(e, "close")
    /\ \/ /\ ~Listening(e)
          /\ wire' = Consumed(e)
          /\ UNCHANGED <<ready, stream, handshake, receiver, flowing>>
       \/ /\ Listening(e) /\ Concluded(e, Arriving(e).value)
          /\ flowing' = [flowing EXCEPT ![e] = TRUE]
          /\ \/ /\ ready[e] = "OPEN"
                /\ ready' = [ready EXCEPT ![e] = "CLOSING"]
                /\ frameSent' = [frameSent EXCEPT ![e] = "handed"]
                /\ timer' = [timer EXCEPT ![e] = TRUE]
                /\ wire' = Put(Consumed(e), e, CloseFrame(Echo(Arriving(e).value)))
                /\ UNCHANGED stream
             \/ /\ ready[e] = "CLOSING" /\ frameSent[e] = "written"
                /\ stream' = Ended(e) /\ wire' = WithFin(Consumed(e), e)
                /\ UNCHANGED <<ready, frameSent, timer>>
             \/ /\ ready[e] = "CLOSING" /\ frameSent[e] # "written"
                /\ wire' = Consumed(e)
                /\ UNCHANGED <<ready, stream, frameSent, timer>>
    /\ UNCHANGED <<opening, finRead, cut, traffic, closes, errors>>

\* A message over maxPayload: the receiver fails, its 'error' comes next tick.
ReadOversized(e) ==
    /\ Reads(e, "oversized")
    /\ wire' = Consumed(e)
    /\ receiver' = IF Listening(e) THEN [receiver EXCEPT ![e] = "erroring"] ELSE receiver
    /\ UNCHANGED <<opening, ready, stream, finRead, flowing, cut, handshake, traffic,
                   closes, errors>>

ErrorOnce(e) == [errors EXCEPT ![e] = IF @ = 0 THEN 1 ELSE @]

ClearTimer_not(e) == timer' = timer
ClearTimer(e) == timer' = [timer EXCEPT ![e] = FALSE]

EmitClose(e) ==
    /\ ready' = [ready EXCEPT ![e] = "CLOSED"]
    /\ closes' = [closes EXCEPT ![e] = @ + 1]

\* receiverOnError: close with the status of the error, unless the socket is
\* gone; then the close event, which waited for the receiver.
ReceiverFails(e) ==
    /\ receiver[e] = "erroring"
    /\ receiver' = [receiver EXCEPT ![e] = "errored"]
    /\ errors' = ErrorOnce(e)
    /\ \/ /\ stream[e] = "closed" /\ EmitClose(e)
          /\ UNCHANGED <<stream, flowing, frameSent, timer, wire>>
       \/ /\ stream[e] # "closed"
          /\ flowing' = [flowing EXCEPT ![e] = TRUE]
          /\ \/ /\ ready[e] = "OPEN" /\ StartClose(e, TooBig) /\ UNCHANGED stream
             \/ /\ ready[e] = "CLOSING" /\ frameSent[e] = "written"
                /\ stream' = Ended(e) /\ wire' = WithFin(wire, e)
                /\ UNCHANGED <<ready, frameSent, timer>>
             \/ /\ ready[e] = "CLOSING" /\ frameSent[e] # "written"
                /\ UNCHANGED <<ready, stream, frameSent, timer, wire>>
          /\ UNCHANGED closes
    /\ UNCHANGED <<opening, finRead, cut, frameRecv, closeCode, traffic>>

\* The receiver has finished; a close event may wait for it.
ReceiverFinishes(e) ==
    /\ receiver[e] = "ending"
    /\ receiver' = [receiver EXCEPT ![e] = "finished"]
    /\ IF stream[e] = "closed" THEN EmitClose(e) ELSE UNCHANGED <<ready, closes>>
    /\ UNCHANGED <<opening, stream, finRead, flowing, wire, cut, handshake, traffic, errors>>

\* The callback of the write of the close frame.
FrameWritten(e) ==
    /\ frameSent[e] = "handed" /\ Alive(e)
    /\ frameSent' = [frameSent EXCEPT ![e] = "written"]
    /\ IF frameRecv[e] \/ receiver[e] = "errored"
       THEN stream' = Ended(e) /\ wire' = WithFin(wire, e)
       ELSE UNCHANGED <<stream, wire>>
    /\ UNCHANGED <<opening, ready, finRead, flowing, cut, frameRecv, closeCode, timer,
                   receiver, traffic, closes, errors>>

\* socketOnEnd: the other's FIN.
ReadFin(e) ==
    /\ Reads(e, "fin")
    /\ finRead' = [finRead EXCEPT ![e] = TRUE]
    /\ ready' = [ready EXCEPT ![e] = "CLOSING"]
    /\ receiver' = [receiver EXCEPT ![e] = EndReceiver(@)]
    /\ stream' = Ended(e) /\ wire' = WithFin(Consumed(e), e)
    /\ UNCHANGED <<opening, flowing, cut, handshake, traffic, closes, errors>>

\* socketOnError: the connection was reset, or given up by TCP.
SocketError(e) ==
    /\ Alive(e) /\ ~Ticking(e)
    /\ cut \/ ~Takes(Other(e))
    /\ ready' = [ready EXCEPT ![e] = "CLOSING"]
    /\ \E k \in 0 .. Len(wire[e]) : Destroy(e, k)
    /\ UNCHANGED <<opening, finRead, flowing, cut, handshake, receiver, traffic, closes, errors>>

CloseTimerFires(e) ==
    /\ timer[e] /\ ~Ticking(e)
    /\ ClearTimer(e)
    /\ IF Alive(e) THEN \E k \in 0 .. Len(wire[e]) : Destroy(e, k) ELSE UNCHANGED <<stream, wire>>
    /\ UNCHANGED <<opening, ready, finRead, flowing, cut, frameSent, frameRecv, closeCode,
                   receiver, traffic, closes, errors>>

\* What a paused socket had read ahead goes to the receiver as one chunk, which
\* is parsed up to a close frame or an error.
Leftover(e) ==
    LET stops == {i \in 1 .. Len(wire[e]) : wire[e][i].type \in {"close", "oversized", "fin"}}
    IN  IF stops = {} THEN [frames |-> wire[e], stop |-> Signal("fin")]
        ELSE LET i == CHOOSE j \in stops : \A k \in stops : j <= k
             IN  [frames |-> SubSeq(wire[e], 1, i - 1), stop |-> wire[e][i]]

\* The values of the messages among frames, in their order.
Messages(frames) == {i \in 1 .. Len(frames) : frames[i].type = "message"}
Nth(frames, n) ==
    CHOOSE i \in Messages(frames) : Cardinality({j \in Messages(frames) : j <= i}) = n

Values_backwards(frames) ==
    LET n == Cardinality(Messages(frames))
    IN  [i \in 1 .. n |-> frames[Nth(frames, n + 1 - i)].value]
Values(frames) ==
    [i \in 1 .. Cardinality(Messages(frames)) |-> frames[Nth(frames, i)].value]

\* socketOnClose.
SocketOnClose(e) ==
    LET rest == Leftover(e)
        reads == ~finRead[e] /\ Listening(e)
    IN  /\ stream[e] = "destroyed" \/ (stream[e] = "ended" /\ finRead[e])
        /\ ~Ticking(e)
        /\ stream' = [stream EXCEPT ![e] = "closed"]
        /\ ClearTimer(e)
        /\ wire' = [wire EXCEPT ![e] = << >>]
        /\ delivered' = IF reads THEN [delivered EXCEPT ![e] = @ \o Values(rest.frames)]
                        ELSE delivered
        /\ IF reads /\ rest.stop.type = "close"
           THEN Concluded(e, rest.stop.value)
           ELSE /\ receiver' = [receiver EXCEPT ![e] =
                        IF reads /\ rest.stop.type = "oversized" THEN "erroring" ELSE EndReceiver(@)]
                /\ UNCHANGED <<frameRecv, closeCode>>
        /\ IF receiver[e] \in {"finished", "errored"}
           THEN EmitClose(e)
           ELSE ready' = [ready EXCEPT ![e] = "CLOSING"] /\ UNCHANGED closes
        /\ UNCHANGED <<opening, finRead, flowing, cut, frameSent, sent, pings, pongs, errors>>

\* The network goes, and with it what is under way.
Cut ==
    /\ ~cut /\ cut' = TRUE
    /\ wire' = [e \in End |-> << >>]
    /\ UNCHANGED <<opening, ready, stream, finRead, flowing, handshake, receiver, traffic,
                   closes, errors>>

-----------------------------------------------------------------------------
Read(e) == ReadFrame(e) \/ ReadClose(e) \/ ReadOversized(e) \/ ReadFin(e)
Tick(e) == ReceiverFails(e) \/ ReceiverFinishes(e)

LinkNext ==
    \/ Accept \/ Upgraded \/ RequestFails \/ Refused \/ Aborted \/ Ping \/ Cut
    \/ \E e \in End :
        \/ Send(e) \/ \E c \in Code \cup {NoStatus} : Close(e, c)
        \/ Terminate(e) \/ Pause(e) \/ Resume(e)
        \/ Read(e) \/ Tick(e) \/ FrameWritten(e) \/ SocketError(e)
        \/ CloseTimerFires(e) \/ SocketOnClose(e)

LinkSpec == LinkInit /\ [][LinkNext]_linkVars

\* Ticks run, timers fire, sockets that flow are read and closed sockets say so:
\* the event loop goes on while it has anything to do.  Nobody has to answer a
\* request, to close, to resume a paused socket or to report a lost network.
EventLoop ==
    \/ opening = "answered" /\ (Upgraded \/ RequestFails)
    \/ Aborted
    \/ \E e \in End : Read(e) \/ Tick(e) \/ FrameWritten(e) \/ CloseTimerFires(e) \/ SocketOnClose(e)

LinkFairSpec == LinkSpec /\ WF_linkVars(EventLoop)

-----------------------------------------------------------------------------
(* Properties.                                                             *)

\* The state of the two ends; the close timer runs only while there is a socket
\* to destroy.
LinkTypeOK ==
    /\ opening \in {"request", "answered", "aborted", "done"}
    /\ ready \in [End -> {"CONNECTING", "OPEN", "CLOSING", "CLOSED"}]
    /\ stream \in [End -> {"none", "open", "ended", "destroyed", "closed"}]
    /\ finRead \in [End -> BOOLEAN] /\ flowing \in [End -> BOOLEAN] /\ cut \in BOOLEAN
    /\ wire \in [End -> Seq(WireFrame)]
    /\ frameSent \in [End -> {"no", "handed", "written"}] /\ frameRecv \in [End -> BOOLEAN]
    /\ closeCode \in [End -> Code \cup {NoStatus, Abnormal, TooBig}]
    /\ \A e \in End : timer[e] => ready[e] = "CLOSING" /\ stream[e] # "closed"
    /\ timer \in [End -> BOOLEAN]
    /\ receiver \in [End -> {"running", "erroring", "errored", "ending", "finished"}]
    /\ sent \in [End -> Numbers \cup {0}] /\ delivered \in [End -> Seq(Numbers)]
    /\ pings \in 0 .. MaxPings /\ pongs \in 0 .. MaxPings
    /\ closes \in [End -> Nat] /\ errors \in [End -> Nat]

\* A connection says 'close' once, exactly when it is CLOSED, and 'error' at
\* most once: reconnects are scheduled on each (socketManager.ts:77-101).
ClosesOnce ==
    \A e \in End : closes[e] = (IF ready[e] = "CLOSED" THEN 1 ELSE 0) /\ errors[e] <= 1

\* A close status other than 1006 is one the other end sent, and nothing it had
\* sent before was lost, however the connection ended.
StatusMeansDelivered ==
    \A e \in End : closeCode[e] # Abnormal =>
        frameSent[Other(e)] # "no" /\ Len(delivered[e]) = sent[Other(e)]

\* No frame is written behind a close frame or the end of the stream, so OPEN
\* means that what is sent can still arrive.
OpenMeansWritable ==
    \A e \in End : ready[e] = "OPEN" =>
        /\ stream[e] = "open" /\ frameSent[e] = "no" /\ ~frameRecv[e] /\ ~finRead[e]
        /\ receiver[e] \in {"running", "erroring"}

\* What a connection says of itself, by its events, its close status and its
\* readyState, is true, in whatever order close frames, ends of the stream,
\* errors, terminations and timers meet at its two ends.
SaysWhatIs == ClosesOnce /\ StatusMeansDelivered /\ OpenMeansWritable

\* What a connection is to the program (OrderedChannel).
Phase == [e \in End |-> CASE ready[e] = "CONNECTING" -> "new" [] ready[e] = "CLOSED" -> "closed"
                          [] OTHER -> "up"]
Channel == INSTANCE OrderedChannel WITH phase <- Phase, posted <- sent, got <- delivered
IsOrderedChannel == Channel!ChannelSpec

\* A connection that is closing ends by itself, whatever the other end does:
\* with a timer, by the other's FIN, or because its socket is destroyed.
ClosingEnds == (\E e \in End : ready[e] = "CLOSING") ~> \A e \in End : ready[e] # "CLOSING"

\* When one end has closed, so does the other, unless the network was lost or it
\* stopped reading.
BothEndsClose ==
    (\E e \in End : ready[e] = "CLOSED" /\ stream[Other(e)] # "none")
        ~> cut \/ \A e \in End : ready[e] = "CLOSED" \/ ~flowing[e]

\* A ping is answered while both ends are up: the node terminates those that
\* do not answer (server.ts:635-647).
PingsAreAnswered ==
    pings = MaxPings ~> pongs = pings \/ cut \/ ready["server"] \in {"CLOSING", "CLOSED"}

\* No end waits for ever: not for the end of a close, not for the other end's
\* close, and not for a pong.
NoEndHangs == ClosingEnds /\ BothEndsClose /\ PingsAreAnswered
=============================================================================
