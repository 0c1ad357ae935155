------------------------------ MODULE WsSender ------------------------------
(***************************************************************************)
(* The senders of several WebSockets and what they share: a limiter of the *)
(* jobs given to zlib.  A message that is compressed, or a blob that is    *)
(* read first, holds up what is sent behind it.  Receivers inflate through *)
(* the same limiter, one payload at a time; a socket may be destroyed and  *)
(* its deflate stream closed while a job runs or waits.                    *)
(* (A definition named X_... is X with a bug put in, for the mutation      *)
(* runs; no other definition uses it.)                                     *)
(***************************************************************************)
EXTENDS Integers, Sequences, FiniteSets, SequencesExt

CONSTANTS
    Sender,         \* WebSockets of one process
    Concurrency,    \* concurrencyLimit
    Kinds,          \* [blob, compress]: what is given to a sender
    MaxPosted,      \* bound: frames given to a sender; both functions of it
    MaxInflated     \* bound: payloads a receiver inflates

ASSUME ConcurrencyAssumption ==
    /\ Concurrency \in Nat \ {0} /\ MaxInflated \in Nat
    /\ \A s \in Sender : MaxPosted[s] \in Nat /\ Kinds[s] \subseteq [blob : BOOLEAN, compress : BOOLEAN]

VARIABLES
    txQueue,    \* _queue of a sender
    txState,    \* _state: DEFAULT, DEFLATING, GET_BLOB_DATA
    txCurrent,  \* the entry being read or compressed
    txBuffered, \* _bufferedBytes, one per frame
    txPosted,   \* frames given to send(), ping(), pong() and close()
    txClosing,  \* no more is given: close() was called or the socket ends
    txWritten,  \* frames written to the socket
    txCalled,   \* callbacks called, by frame
    txLink,     \* the socket: "up", "destroyed", and "cleaned" by emitClose
    txInflating, txInflated,    \* the receiver waits for zlib; payloads so far
    jobs,       \* of the limiter: waiting, in order
    running     \* jobs of the limiter that have not called done()

txVars == <<txQueue, txState, txCurrent, txBuffered, txPosted, txClosing, txWritten, txCalled,
            txLink, txInflating, txInflated, jobs, running>>

Numbered(s) == 1 .. MaxPosted[s]
Entry(s) == [number : Numbered(s), blob : BOOLEAN, compress : BOOLEAN]
Job(kind, s) == [kind |-> kind, sender |-> s]

TxInit ==
    /\ txQueue = [s \in Sender |-> << >>] /\ txState = [s \in Sender |-> "DEFAULT"]
    /\ txCurrent = [s \in Sender |-> << >>]
    /\ txBuffered = [s \in Sender |-> 0] /\ txPosted = [s \in Sender |-> 0]
    /\ txClosing = [s \in Sender |-> FALSE]
    /\ txWritten = [s \in Sender |-> << >>] /\ txCalled = [s \in Sender |-> << >>]
    /\ txLink = [s \in Sender |-> "up"]
    /\ txInflating = [s \in Sender |-> FALSE] /\ txInflated = [s \in Sender |-> 0]
    /\ jobs = << >> /\ running = {}

-----------------------------------------------------------------------------
(* The limiter.  Its state goes through the steps of one call as a record. *)

Limiter == [jobs |-> jobs, running |-> running]

\* kRun
Run(l) == IF Cardinality(l.running) = Concurrency \/ l.jobs = << >> THEN l
          ELSE [jobs |-> Tail(l.jobs), running |-> l.running \cup {Head(l.jobs)}]
Add(l, job) == Run([l EXCEPT !.jobs = Append(@, job)])
Done(l, job) == Run([l EXCEPT !.running = @ \ {job}])
Keep(l) == jobs' = l.jobs /\ running' = l.running

-----------------------------------------------------------------------------
(* A sender, as a record that the steps of one call hand on.               *)

SenderOf(s) == [queue |-> txQueue[s], state |-> txState[s], current |-> txCurrent[s],
                buffered |-> txBuffered[s], written |-> txWritten[s], called |-> txCalled[s],
                limiter |-> Limiter]

\* sendFrame; the callback of the write comes with it.
SendFrame(x, entry) ==
    [x EXCEPT !.written = Append(@, entry.number), !.called = Append(@, entry.number)]

\* dispatch
Dispatch(x, s, entry) ==
    IF ~entry.compress THEN SendFrame(x, entry)
    ELSE [x EXCEPT !.buffered = @ + 1, !.state = "DEFLATING", !.current = <<entry>>,
                   !.limiter = Add(@, Job("deflate", s))]

\* getBlobData
GetBlobData(x, entry) ==
    [x EXCEPT !.buffered = @ + 1, !.state = "GET_BLOB_DATA", !.current = <<entry>>]

Start(x, s, entry) == IF entry.blob THEN GetBlobData(x, entry) ELSE Dispatch(x, s, entry)
Enqueue(x, entry) == [x EXCEPT !.buffered = @ + 1, !.queue = Append(@, entry)]

\* dequeue: entries are sent until one has to wait, which is started, or none
\* is left.
Waits(entry) == entry.blob \/ entry.compress
Dequeue(x, s) ==
    LET first == SelectInSeq(x.queue, Waits)
        sent == IF first = 0 THEN Len(x.queue) ELSE first - 1
        numbers == [i \in 1 .. sent |-> x.queue[i].number]
        y == [x EXCEPT !.queue = SubSeq(@, sent + 1, Len(@)), !.buffered = @ - sent,
                       !.written = @ \o numbers, !.called = @ \o numbers]
    IN  IF y.queue = << >> THEN y
        ELSE Start([y EXCEPT !.queue = Tail(@), !.buffered = @ - 1], s, Head(y.queue))

\* callCallbacks: the socket is gone; who waits is told.
CallCallbacks(x) ==
    [x EXCEPT !.called = Append(@, x.current[1].number) \o
                         [i \in 1 .. Len(x.queue) |-> x.queue[i].number]]

\* What the call leaves behind (bound by \E: TLC evaluates it once, not in each line).
Store(sender, s) ==
    \E x \in {sender} :
        /\ txQueue' = [txQueue EXCEPT ![s] = x.queue] /\ txState' = [txState EXCEPT ![s] = x.state]
        /\ txCurrent' = [txCurrent EXCEPT ![s] = x.current]
        /\ txBuffered' = [txBuffered EXCEPT ![s] = x.buffered]
        /\ txWritten' = [txWritten EXCEPT ![s] = x.written]
        /\ txCalled' = [txCalled EXCEPT ![s] = x.called]
        /\ Keep(x.limiter)

-----------------------------------------------------------------------------
(* send(), ping(), pong() and close() of an open WebSocket: what is given  *)
(* behind something that waits, waits too.                                 *)

Post(s, entry) ==
    LET x == SenderOf(s)
    IN  IF x.state # "DEFAULT" THEN Enqueue(x, entry) ELSE Start(x, s, entry)

SendEntry(s) ==
    /\ txLink[s] = "up" /\ ~txClosing[s] /\ txPosted[s] < MaxPosted[s]
    /\ \E k \in Kinds[s] :
        Store(Post(s, [number |-> txPosted[s] + 1, blob |-> k.blob, compress |-> k.compress]), s)
    /\ txPosted' = [txPosted EXCEPT ![s] = @ + 1]
    /\ UNCHANGED <<txClosing, txLink, txInflating, txInflated>>

CloseSender(s) ==
    /\ txLink[s] = "up" /\ ~txClosing[s] /\ txPosted[s] < MaxPosted[s]
    /\ Store(Post(s, [number |-> txPosted[s] + 1, blob |-> FALSE, compress |-> FALSE]), s)
    /\ txPosted' = [txPosted EXCEPT ![s] = @ + 1]
    /\ txClosing' = [txClosing EXCEPT ![s] = TRUE]
    /\ UNCHANGED <<txLink, txInflating, txInflated>>

\* The blob was read.
BlobRead(s) ==
    LET x == SenderOf(s)
        entry == x.current[1]
        ready == [x EXCEPT !.buffered = @ - 1, !.current = << >>]
    IN  /\ txState[s] = "GET_BLOB_DATA" /\ txCurrent[s] # << >>
        /\ Store(CASE txLink[s] # "up" -> [CallCallbacks(x) EXCEPT !.current = << >>]
                   [] txLink[s] = "up" /\ entry.compress -> Dispatch(ready, s, entry)
                   [] OTHER -> Dequeue(SendFrame([ready EXCEPT !.state = "DEFAULT"], entry), s), s)
        /\ UNCHANGED <<txPosted, txClosing, txLink, txInflating, txInflated>>

\* The blob could not be read: senderOnError ends the socket.
BlobFails(s) ==
    /\ txState[s] = "GET_BLOB_DATA" /\ txCurrent[s] # << >>
    /\ Store([CallCallbacks(SenderOf(s)) EXCEPT !.current = << >>], s)
    /\ txClosing' = [txClosing EXCEPT ![s] = TRUE]
    /\ UNCHANGED <<txPosted, txLink, txInflating, txInflated>>

\* What is behind a compressed entry: done() of the limiter comes first.
AfterDeflate(x, s) ==
    LET entry == x.current[1]
        freed == [x EXCEPT !.limiter = Done(@, Job("deflate", s))]
    IN  IF txLink[s] # "up" THEN [CallCallbacks(freed) EXCEPT !.current = << >>]
        ELSE Dequeue(SendFrame([freed EXCEPT !.buffered = @ - 1, !.state = "DEFAULT",
                                             !.current = << >>], entry), s)

Deflated(s) ==
    /\ Job("deflate", s) \in running
    /\ Store(AfterDeflate(SenderOf(s), s), s)
    /\ UNCHANGED <<txPosted, txClosing, txLink, txInflating, txInflated>>

-----------------------------------------------------------------------------
(* The receiver's use of the limiter, and the end of a connection.         *)

Decompress(s) ==
    /\ txLink[s] = "up" /\ ~txInflating[s] /\ txInflated[s] < MaxInflated
    /\ txInflating' = [txInflating EXCEPT ![s] = TRUE]
    /\ txInflated' = [txInflated EXCEPT ![s] = @ + 1]
    /\ Keep(Add(Limiter, Job("inflate", s)))
    /\ UNCHANGED <<txQueue, txState, txCurrent, txBuffered, txPosted, txClosing, txWritten,
                   txCalled, txLink>>

InflateDone(s) ==
    /\ Job("inflate", s) \in running
    /\ txInflating' = [txInflating EXCEPT ![s] = FALSE]
    /\ Keep(Done(Limiter, Job("inflate", s)))
    /\ UNCHANGED <<txQueue, txState, txCurrent, txBuffered, txPosted, txClosing, txWritten,
                   txCalled, txLink, txInflated>>

DestroySocket(s) ==
    /\ txLink[s] = "up"
    /\ txLink' = [txLink EXCEPT ![s] = "destroyed"]
    /\ txClosing' = [txClosing EXCEPT ![s] = TRUE]
    /\ UNCHANGED <<txQueue, txState, txCurrent, txBuffered, txPosted, txWritten, txCalled,
                   txInflating, txInflated, jobs, running>>

\* emitClose, which waits for the receiver, and cleanup: a deflation under way
\* is ended with an error, which frees its place in the limiter.
Cleanup_forgetsCallback(s) ==
    /\ txLink[s] = "destroyed" /\ ~txInflating[s]
    /\ txLink' = [txLink EXCEPT ![s] = "cleaned"]
    /\ running' = {IF j = Job("deflate", s) THEN Job("never done", s) ELSE j : j \in running}
    /\ UNCHANGED <<txQueue, txState, txCurrent, txBuffered, txWritten, txCalled, jobs>>
    /\ UNCHANGED <<txPosted, txClosing, txInflating, txInflated>>
Cleanup(s) ==
    /\ txLink[s] = "destroyed" /\ ~txInflating[s]
    /\ txLink' = [txLink EXCEPT ![s] = "cleaned"]
    /\ IF Job("deflate", s) \in running
       THEN Store(AfterDeflate(SenderOf(s), s), s)
       ELSE UNCHANGED <<txQueue, txState, txCurrent, txBuffered, txWritten, txCalled, jobs, running>>
    /\ UNCHANGED <<txPosted, txClosing, txInflating, txInflated>>

Completes(s) == BlobRead(s) \/ BlobFails(s) \/ Deflated(s) \/ InflateDone(s)

TxNext ==
    \E s \in Sender : \/ SendEntry(s) \/ CloseSender(s) \/ Decompress(s)
                      \/ DestroySocket(s) \/ Cleanup(s) \/ Completes(s)

TxSpec == TxInit /\ [][TxNext]_txVars

\* zlib and the reading of blobs come to an end; nothing else has to happen.
TxFairness == WF_txVars(\E s \in Sender : Completes(s))
TxFairSpec == TxSpec /\ TxFairness

-----------------------------------------------------------------------------
(* Properties.                                                             *)

TxTypeOK ==
    \A s \in Sender :
        /\ txQueue[s] \in Seq(Entry(s)) /\ txCurrent[s] \in Seq(Entry(s))
        /\ txState[s] \in {"DEFAULT", "DEFLATING", "GET_BLOB_DATA"}
        /\ txQueue[s] # << >> => txState[s] # "DEFAULT"
        /\ txBuffered[s] \in Nat /\ txPosted[s] \in Numbered(s) \cup {0}
        /\ txClosing[s] \in BOOLEAN /\ txInflating[s] \in BOOLEAN
        /\ txWritten[s] \in Seq(Numbered(s)) /\ txCalled[s] \in Seq(Numbered(s))
        /\ txLink[s] \in {"up", "destroyed", "cleaned"} /\ txInflated[s] \in 0 .. MaxInflated

\* Frames are written in the order they were given, without gaps, whichever of
\* them had to be read or compressed: the close frame comes behind everything.
FramesInOrder ==
    \A s \in Sender : \A i \in 1 .. Len(txWritten[s]) : txWritten[s][i] = i

\* bufferedAmount counts just what was not handed to the socket.
BufferedIsWaiting ==
    \A s \in Sender : txLink[s] = "up" /\ ~txClosing[s] =>
        txBuffered[s] = Len(txQueue[s]) + Len(txCurrent[s])

\* The limiter is never over its limit, and no job waits beside a free place.
PlacesAreUsed ==
    Cardinality(running) <= Concurrency /\ (jobs # << >> => Cardinality(running) = Concurrency)

\* Each callback is called once at most, whether the frame was written, its
\* compression was cut short or the socket went while it waited.
CalledOnce == \A s \in Sender : IsInjective(txCalled[s])

\* Every callback is called: one connection that goes does not take a place of
\* the limiter along, so the others are served.
EveryFrameIsAnswered ==
    <>[](\A s \in Sender : Len(txCalled[s]) = txPosted[s])

\* Every frame is written in its turn or given up, and answered once, although the
\* senders share the places of the limiter and any of them may end in the middle
\* of a call.
SenderDelivers ==
    /\ [](FramesInOrder /\ BufferedIsWaiting /\ PlacesAreUsed /\ CalledOnce)
    /\ EveryFrameIsAnswered
=============================================================================
