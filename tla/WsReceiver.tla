----------------------------- MODULE WsReceiver -----------------------------
(***************************************************************************)
(* The receiver of a WebSocket: a writable stream that is given the bytes  *)
(* of a socket in chunks of any size and says 'message', 'ping', 'pong',   *)
(* 'conclude' or 'error'.  Bytes are kept as the fields of frames (units): *)
(* the two bytes of info, an extended length, the mask, the payload.       *)
(* Payload lengths keep their order relative to MaxPayload and to the two  *)
(* lengths from which 16 and 64 bits are used.                             *)
(* (A definition named X_... is X with a bug put in, for the mutation      *)
(* runs; no other definition uses it.)                                     *)
(***************************************************************************)
EXTENDS Integers, Sequences, SequencesExt

CONSTANTS
    RxInputs,       \* sequences of frames the other end may send
    RxConfigs,      \* [server, sync, deflate]: options of the receiver
    MaxPayload,     \* maxPayload, 0 for no limit
    Long16, Long64, Unsafe,  \* first lengths of 16 and 64 bits, first above 2^53 - 1
    HighWater,      \* highWaterMark of the stream, in units
    MaxRxPauses     \* bound: calls of pause()

Control == {"close", "ping", "pong"}

\* A frame as the other end sends it: `out' is what its payload inflates to, and a
\* payload is good if it is valid text or a valid close code.
RxFrame ==
    [op : Control \cup {"text", "binary", "continuation", "reserved"}, fin : BOOLEAN, len : Nat,
     rsv1 : BOOLEAN, rsv23 : BOOLEAN, mask : {"right", "wrong"}, good : BOOLEAN, out : Nat]

\* Lengths of 16 bits are the shorter ones, and unsafe ones take 64 bits.
ASSUME ReceiverAssumption ==
    /\ RxInputs \subseteq Seq(RxFrame)
    /\ RxConfigs \subseteq [server : BOOLEAN, sync : BOOLEAN, deflate : BOOLEAN]
    /\ {MaxPayload, Long16, Long64, Unsafe} \subseteq Nat
    /\ Long16 <= Long64 /\ Long64 <= Unsafe

VARIABLES
    rxFrames, rxCfg,
    rxRest,         \* units not read from the socket yet
    rxQueue,        \* chunks written while an earlier write was not done
    rxBuffers,      \* _buffers, in units
    rxBusy,         \* the callback of a _write is due
    rxState, rxLoop,
    rx,             \* registers of the frame and of the message
    rxEvents,       \* events emitted
    rxErrored, rxEnded, rxFinished,
    rxNeedDrain, rxFlowing,     \* of the stream; of the socket
    rxPaused, rxPauses          \* isPaused, and calls of pause()

rxInput == <<rxFrames, rxCfg>>
rxFlow == <<rxNeedDrain, rxFlowing, rxPaused, rxPauses>>
rxVars == <<rxInput, rxRest, rxQueue, rxBuffers, rxBusy, rxState, rxLoop, rx, rxEvents,
            rxErrored, rxEnded, rxFinished, rxFlow>>

IsMasked(f, cfg) == cfg.server = (f.mask = "right")
Masked(i) == IsMasked(rxFrames[i], rxCfg)

\* The units of frame i as they are on the wire.
Unit(name, i, present) == IF present THEN << [part |-> name, frame |-> i] >> ELSE << >>
Units(i, f, masked) ==
    Unit("info", i, TRUE) \o Unit("length", i, f.len >= Long16)
        \o Unit("mask", i, masked) \o Unit("data", i, f.len > 0)

\* The units of the last n frames.
Wire(frames, cfg) ==
    LET last[n \in 0 .. Len(frames)] ==
            IF n = 0 THEN << >>
            ELSE LET i == Len(frames) - n + 1
                 IN  Units(i, frames[i], IsMasked(frames[i], cfg)) \o last[n - 1]
    IN  last

Registers == [frame |-> 0, op |-> "none", fin |-> FALSE, len |-> 0, fragmented |-> "no",
              compressed |-> FALSE, masked |-> FALSE,
              total |-> 0, message |-> 0, fragments |-> << >>, later |-> << >>]

RxInit ==
    /\ rxFrames \in RxInputs /\ rxCfg \in RxConfigs
    /\ rxRest = Wire(rxFrames, rxCfg)[Len(rxFrames)]
    /\ rxQueue = << >> /\ rxBuffers = << >> /\ rxBusy = FALSE
    /\ rxState = "GET_INFO" /\ rxLoop = FALSE /\ rx = Registers
    /\ rxEvents = << >>
    /\ rxErrored = FALSE /\ rxEnded = FALSE /\ rxFinished = FALSE
    /\ rxNeedDrain = FALSE /\ rxFlowing = TRUE /\ rxPaused = FALSE /\ rxPauses = 0

-----------------------------------------------------------------------------
(* The stream and the socket that is read into it.                         *)

QueuedUnits == FoldLeft(LAMBDA n, c : n + Len(c), 0, rxQueue)
InProgress == IF rxBusy THEN Len(rxBuffers) ELSE 0

\* _write; what comes behind a close frame is thrown away.
StartWrite(chunk) ==
    IF rx.op = "close" /\ rxState = "GET_INFO"
    THEN UNCHANGED <<rxBuffers, rxBusy, rxLoop>>
    ELSE rxBuffers' = rxBuffers \o chunk /\ rxBusy' = TRUE /\ rxLoop' = TRUE

\* socketOnData
Data ==
    /\ rxFlowing /\ rxRest # << >> /\ ~rxLoop /\ ~rxErrored /\ ~rxEnded
    /\ \E n \in 1 .. Len(rxRest) :
        LET chunk == SubSeq(rxRest, 1, n)
            full == QueuedUnits + InProgress + n >= HighWater
        IN  /\ rxRest' = SubSeq(rxRest, n + 1, Len(rxRest))
            /\ rxNeedDrain' = (rxNeedDrain \/ full) /\ rxFlowing' = ~full
            /\ IF rxBusy \/ rxQueue # << >>
               THEN rxQueue' = Append(rxQueue, chunk) /\ UNCHANGED <<rxBuffers, rxBusy, rxLoop>>
               ELSE StartWrite(chunk) /\ UNCHANGED rxQueue
    /\ UNCHANGED <<rxInput, rxState, rx, rxEvents, rxErrored, rxEnded, rxFinished,
                   rxPaused, rxPauses>>

\* A queued chunk, once the write before it is done.
NextChunk ==
    /\ rxQueue # << >> /\ ~rxBusy /\ ~rxErrored
    /\ rxQueue' = Tail(rxQueue) /\ StartWrite(Head(rxQueue))
    /\ UNCHANGED <<rxInput, rxRest, rxState, rx, rxEvents, rxErrored, rxEnded, rxFinished, rxFlow>>

\* receiverOnDrain
Drain ==
    /\ rxNeedDrain /\ ~rxBusy /\ rxQueue = << >> /\ ~rxErrored /\ ~rxEnded
    /\ rxNeedDrain' = FALSE /\ rxFlowing' = (rxFlowing \/ ~rxPaused)
    /\ UNCHANGED <<rxInput, rxRest, rxQueue, rxBuffers, rxBusy, rxState, rxLoop, rx, rxEvents,
                   rxErrored, rxEnded, rxFinished, rxPaused, rxPauses>>

PauseReading ==
    /\ rxPauses < MaxRxPauses /\ ~rxPaused /\ ~rxLoop /\ ~rxErrored /\ ~rxEnded
    /\ rxPaused' = TRUE /\ rxPauses' = rxPauses + 1 /\ rxFlowing' = FALSE
    /\ UNCHANGED <<rxInput, rxRest, rxQueue, rxBuffers, rxBusy, rxState, rxLoop, rx, rxEvents,
                   rxErrored, rxEnded, rxFinished, rxNeedDrain>>

ResumeReading_needsNoDrain ==
    /\ rxPaused /\ ~rxLoop /\ ~rxErrored /\ ~rxEnded
    /\ rxPaused' = FALSE
    /\ UNCHANGED <<rxInput, rxRest, rxQueue, rxBuffers, rxBusy, rxState, rxLoop, rx, rxEvents,
                   rxErrored, rxEnded, rxFinished, rxNeedDrain, rxFlowing, rxPauses>>
ResumeReading ==
    /\ rxPaused /\ ~rxLoop /\ ~rxErrored /\ ~rxEnded
    /\ rxPaused' = FALSE /\ rxFlowing' = (rxFlowing \/ ~rxNeedDrain)
    /\ UNCHANGED <<rxInput, rxRest, rxQueue, rxBuffers, rxBusy, rxState, rxLoop, rx, rxEvents,
                   rxErrored, rxEnded, rxFinished, rxNeedDrain, rxPauses>>

\* socketOnEnd: nothing more will come.
EndOfSocket ==
    /\ rxRest = << >> /\ rxFlowing /\ ~rxLoop /\ ~rxErrored /\ ~rxEnded
    /\ rxEnded' = TRUE
    /\ UNCHANGED <<rxInput, rxRest, rxQueue, rxBuffers, rxBusy, rxState, rxLoop, rx, rxEvents,
                   rxErrored, rxFinished, rxFlow>>

Finish ==
    /\ rxEnded /\ ~rxBusy /\ rxQueue = << >> /\ ~rxErrored /\ ~rxFinished
    /\ rxFinished' = TRUE
    /\ UNCHANGED <<rxInput, rxRest, rxQueue, rxBuffers, rxBusy, rxState, rxLoop, rx, rxEvents,
                   rxErrored, rxEnded, rxFlow>>

-----------------------------------------------------------------------------
(* The loop: one action per turn of startLoop.                             *)

Turn(state) ==
    /\ rxLoop /\ rxState = state
    /\ UNCHANGED <<rxInput, rxRest, rxQueue, rxFinished, rxFlow>>

Has(part) == rxBuffers # << >> /\ Head(rxBuffers).part = part
Emit(e) == rxEvents' = Append(rxEvents, e)

\* Not enough is buffered: the loop ends and the write is done.
Wait(part) ==
    /\ ~Has(part)
    /\ rxLoop' = FALSE /\ rxBusy' = FALSE
    /\ UNCHANGED <<rxBuffers, rxState, rx, rxEvents, rxErrored, rxEnded>>

\* createError and cb(error): the stream fails.
Fail(status) ==
    /\ rxErrored' = TRUE /\ rxLoop' = FALSE
    /\ Emit([kind |-> "error", status |-> status])
    /\ UNCHANGED <<rxState, rxBusy, rxEnded>>

Goto(state) ==
    /\ rxState' = state
    /\ UNCHANGED <<rxBusy, rxLoop, rxEvents, rxErrored, rxEnded>>

\* haveLength: an uncompressed or compressed payload counts before it is read.
Counted(r) == IF r.len > 0 /\ r.op \notin Control THEN [r EXCEPT !.total = @ + r.len] ELSE r
TooLong(r) == r.op \notin Control /\ r.len > 0 /\ MaxPayload > 0 /\ Counted(r).total > MaxPayload
HaveLength(r) ==
    /\ rx' = Counted(r)
    /\ IF TooLong(r) THEN Fail(1009) ELSE Goto(IF r.masked THEN "GET_MASK" ELSE "GET_DATA")

\* What is wrong with the two bytes of info; a continuation takes the opcode of
\* the message it continues.
BadInfo(f, masked) ==
    \/ f.rsv23
    \/ f.rsv1 /\ (~rxCfg.deflate \/ f.op \notin {"text", "binary"})
    \/ f.op = "continuation" /\ rx.fragmented = "no"
    \/ f.op \in {"text", "binary"} /\ rx.fragmented # "no"
    \/ f.op \in Control /\ (~f.fin \/ f.len >= Long16)
    \/ f.op = "reserved"
    \/ rxCfg.server # masked

OpcodeOf(f) == IF f.op = "continuation" THEN rx.fragmented ELSE f.op
Info(i, f) ==
    LET op == OpcodeOf(f)
    IN  [rx EXCEPT !.frame = i, !.op = op, !.fin = f.fin, !.len = f.len, !.masked = Masked(i),
            !.fragmented = IF ~f.fin /\ @ = "no" THEN op ELSE @,
            !.compressed = IF f.op \in {"text", "binary"} THEN f.rsv1 ELSE @]

GetInfo ==
    /\ Turn("GET_INFO")
    /\ \/ Wait("info")
       \/ /\ Has("info")
          /\ LET i == Head(rxBuffers).frame
                 f == rxFrames[i]
             IN  /\ rxBuffers' = Tail(rxBuffers)
                 /\ \/ BadInfo(f, Masked(i)) /\ Fail(1002) /\ UNCHANGED rx
                    \/ /\ ~BadInfo(f, Masked(i))
                       /\ IF f.len >= Long16
                          THEN /\ rx' = Info(i, f)
                               /\ Goto(IF f.len < Long64 THEN "GET_PAYLOAD_LENGTH_16"
                                       ELSE "GET_PAYLOAD_LENGTH_64")
                          ELSE HaveLength(Info(i, f))

GetPayloadLength16 ==
    /\ Turn("GET_PAYLOAD_LENGTH_16")
    /\ \/ Wait("length")
       \/ Has("length") /\ rxBuffers' = Tail(rxBuffers) /\ HaveLength(rx)

GetPayloadLength64 ==
    /\ Turn("GET_PAYLOAD_LENGTH_64")
    /\ \/ Wait("length")
       \/ /\ Has("length") /\ rxBuffers' = Tail(rxBuffers)
          /\ IF rx.len >= Unsafe THEN Fail(1009) /\ UNCHANGED rx ELSE HaveLength(rx)

GetMask ==
    /\ Turn("GET_MASK")
    /\ \/ Wait("mask")
       \/ Has("mask") /\ rxBuffers' = Tail(rxBuffers) /\ Goto("GET_DATA") /\ UNCHANGED rx

\* An event is emitted at once or, without allowSynchronousEvents, later.
EmitOrDefer(r, e, atOnce) ==
    IF atOnce
    THEN /\ Emit(e) /\ rx' = r /\ rxState' = "GET_INFO" /\ rxLoop' = TRUE
         /\ UNCHANGED <<rxBusy, rxErrored, rxEnded>>
    ELSE /\ rx' = [r EXCEPT !.later = <<e>>] /\ rxState' = "DEFER_EVENT" /\ rxLoop' = FALSE
         /\ UNCHANGED <<rxEvents, rxBusy, rxErrored, rxEnded>>

Reset(r) == [r EXCEPT !.total = 0, !.message = 0, !.fragmented = "no", !.fragments = << >>]

\* dataMessage, from the loop or from the callback of an inflation, after which
\* the loop goes on.
DataMessage(r, inflated) ==
    \/ /\ ~r.fin
       /\ rx' = r /\ rxState' = "GET_INFO" /\ rxLoop' = TRUE
       /\ UNCHANGED <<rxEvents, rxBusy, rxErrored, rxEnded>>
    \/ /\ r.fin /\ r.op = "text" /\ \E i \in ToSet(r.fragments) : ~rxFrames[i].good
       /\ rx' = Reset(r) /\ Fail(1007)
    \/ /\ r.fin /\ (r.op = "text" => \A i \in ToSet(r.fragments) : rxFrames[i].good)
       /\ EmitOrDefer(Reset(r), [kind |-> "message", op |-> r.op, fragments |-> r.fragments],
                      rxCfg.sync \/ (inflated /\ r.op = "text"))

\* controlMessage
ControlMessage ==
    \/ /\ rx.op = "close" /\ ~rxFrames[rx.frame].good
       /\ Fail(1002) /\ UNCHANGED rx
    \/ /\ rx.op = "close" /\ rxFrames[rx.frame].good
       /\ Emit([kind |-> "conclude", frame |-> rx.frame])
       /\ rxLoop' = FALSE /\ rxBusy' = FALSE /\ rxEnded' = TRUE /\ rxState' = "GET_INFO"
       /\ UNCHANGED <<rx, rxErrored>>
    \/ /\ rx.op # "close"
       /\ EmitOrDefer(rx, [kind |-> rx.op, frame |-> rx.frame], rxCfg.sync)

Collected(r, n) ==
    IF n > 0 THEN [r EXCEPT !.message = n, !.fragments = Append(@, r.frame)] ELSE r

GetData ==
    /\ Turn("GET_DATA")
    /\ \/ rx.len > 0 /\ Wait("data")
       \/ /\ rx.len > 0 => Has("data")
          /\ rxBuffers' = IF rx.len > 0 THEN Tail(rxBuffers) ELSE rxBuffers
          /\ \/ rx.op \in Control /\ ControlMessage
             \/ /\ rx.op \notin Control /\ rx.compressed
                /\ rxState' = "INFLATING" /\ rxLoop' = FALSE
                /\ UNCHANGED <<rx, rxBusy, rxEvents, rxErrored, rxEnded>>
             \/ /\ rx.op \notin Control /\ ~rx.compressed
                /\ DataMessage(IF rx.len > 0 THEN Collected(rx, rx.total) ELSE rx, FALSE)

\* decompress: the inflated payload counts too.
Inflated ==
    LET f == rxFrames[rx.frame]
        length == rx.message + f.out
    IN  /\ rxState = "INFLATING" /\ ~rxErrored
        /\ \/ f.out > 0 /\ MaxPayload > 0 /\ length > MaxPayload /\ Fail(1009) /\ UNCHANGED rx
           \/ /\ f.out > 0 => MaxPayload = 0 \/ length <= MaxPayload
              /\ DataMessage(IF f.out > 0 THEN Collected(rx, length) ELSE rx, TRUE)
        /\ UNCHANGED <<rxInput, rxRest, rxQueue, rxBuffers, rxFinished, rxFlow>>

\* The setImmediate of a deferred event.
Deferred ==
    /\ rxState = "DEFER_EVENT"
    /\ Emit(rx.later[1]) /\ rx' = [rx EXCEPT !.later = << >>]
    /\ rxState' = "GET_INFO" /\ rxLoop' = TRUE
    /\ UNCHANGED <<rxInput, rxRest, rxQueue, rxBuffers, rxBusy, rxErrored, rxEnded, rxFinished, rxFlow>>

LoopTurn ==
    GetInfo \/ GetPayloadLength16 \/ GetPayloadLength64 \/ GetMask \/ GetData

RxNext ==
    \/ Data \/ NextChunk \/ Drain \/ PauseReading \/ ResumeReading \/ EndOfSocket \/ Finish
    \/ LoopTurn \/ Inflated \/ Deferred

RxSpec == RxInit /\ [][RxNext]_rxVars

\* All but pause() is done by the event loop; who paused the socket resumes it.
RxFairness == WF_rxVars(RxNext /\ ~PauseReading)
RxFairSpec == RxSpec /\ RxFairness

-----------------------------------------------------------------------------
(* Properties.                                                             *)

RxTypeOK ==
    /\ rxFrames \in RxInputs /\ rxCfg \in RxConfigs
    /\ rxState \in {"GET_INFO", "GET_PAYLOAD_LENGTH_16", "GET_PAYLOAD_LENGTH_64", "GET_MASK",
                    "GET_DATA", "INFLATING", "DEFER_EVENT"}
    /\ rx.op \in Control \cup {"none", "text", "binary"}
    /\ rx.fragmented \in {"no", "text", "binary"}
    /\ rxLoop => rxBusy
    /\ rxState \in {"INFLATING", "DEFER_EVENT"} => rxBusy /\ ~rxLoop

\* What the protocol says these frames mean, whole frames at a time: the events
\* of a stream of frames, up to the close frame or the first thing wrong, and of
\* the message that is not complete its first frame, the bytes read, its size,
\* and the frames that carry a part of it.
NothingMeant ==
    [events |-> << >>, first |-> 0, read |-> 0, size |-> 0, filled |-> << >>, over |-> FALSE]

Legal(s, f, cfg) ==
    /\ ~f.rsv23 /\ f.op # "reserved" /\ f.mask = "right"
    /\ f.op = "continuation" <=> (s.first # 0 /\ f.op \notin Control)
    /\ f.rsv1 => cfg.deflate /\ f.op \in {"text", "binary"}
    /\ f.op \in Control => f.fin /\ f.len < Long16

Says(s, e) == [s EXCEPT !.events = Append(@, e)]
Stops(s, e) == [Says(s, e) EXCEPT !.over = TRUE]
Mistake(status) == [kind |-> "error", status |-> status]

WithPart(s, frames, i) ==
    LET first == IF s.first = 0 THEN i ELSE s.first
        length == IF frames[first].rsv1 THEN frames[i].out ELSE frames[i].len
    IN  [s EXCEPT !.first = first, !.read = @ + frames[i].len, !.size = @ + length,
            !.filled = IF length > 0 THEN Append(@, i) ELSE @]

MeansData(s, frames, i) ==
    LET t == WithPart(s, frames, i)
        op == frames[t.first].op
    IN  IF frames[i].len >= Unsafe \/ (MaxPayload > 0 /\ (t.read > MaxPayload \/ t.size > MaxPayload))
        THEN Stops(s, Mistake(1009))
        ELSE IF ~frames[i].fin THEN t
        ELSE IF op = "text" /\ \E j \in ToSet(t.filled) : ~frames[j].good
        THEN Stops(s, Mistake(1007))
        ELSE [NothingMeant EXCEPT
                 !.events = Append(s.events, [kind |-> "message", op |-> op, fragments |-> t.filled])]

Means(s, frames, cfg, i) ==
    LET f == frames[i]
    IN  IF s.over THEN s
        ELSE IF ~Legal(s, f, cfg) THEN Stops(s, Mistake(1002))
        ELSE IF f.op \notin Control THEN MeansData(s, frames, i)
        ELSE IF f.op # "close" THEN Says(s, [kind |-> f.op, frame |-> i])
        ELSE IF f.good THEN Stops(s, [kind |-> "conclude", frame |-> i])
        ELSE Stops(s, Mistake(1002))

Meant(frames, cfg) ==
    LET upTo[k \in 0 .. Len(frames)] ==
            IF k = 0 THEN NothingMeant ELSE Means(upTo[k - 1], frames, cfg, k)
    IN  upTo
Meaning(frames, cfg) == Meant(frames, cfg)[Len(frames)].events

\* However the bytes are cut into chunks, whatever arrives while a payload is
\* being inflated or an event is put off, the events are those of the frames:
\* control frames between fragments do not disturb a message, nothing comes
\* twice, out of order, or behind a close frame or an error.
EventsAreTheFrames == IsPrefix(rxEvents, Meaning(rxFrames, rxCfg))

\* A message that is not complete never takes more than the limit allows
\* (maxPayload is MAX_MESSAGE_BYTES at the node, server.ts:565).
KeptWithinLimit ==
    MaxPayload > 0 => rx.message <= MaxPayload /\ (~rxErrored => rx.total <= MaxPayload)

\* All that was sent is read and made known, and the stream comes to its end,
\* however often the socket was paused: no wake-up is lost between a pause, a
\* full stream and its drain.
AllIsMadeKnown ==
    rxRest # << >> ~> []((rxErrored \/ rxFinished) /\ rxEvents = Meaning(rxFrames, rxCfg))

\* The receiver turns chunks into just the events of their frames, keeps no more
\* than the limit for it, and leaves none of them unread.
ReceiverDelivers == [](EventsAreTheFrames /\ KeptWithinLimit) /\ AllIsMadeKnown
=============================================================================
