--------------------------- MODULE WebSocket_proofs ---------------------------
(***************************************************************************)
(* Theorems about WebSocket for any codes, numbers of messages and pings,  *)
(* and ends that pause; about WsHandshake for any sockets and options;     *)
(* about WsSender for any senders and any limit of the jobs; about         *)
(* WsReceiver for any frames, limits and cuts of the wire; and about the   *)
(* four together, as MCTransport puts them.                                *)
(***************************************************************************)
EXTENDS MCTransport, SequenceTheorems, FiniteSetTheorems, WellFoundedInduction, TLAPS

-----------------------------------------------------------------------------
(* The invariant.                                                          *)

\* What an end knows of itself agrees: its readyState, its socket, its receiver,
\* its half of the closing handshake and the events it emitted.
EndOK(e) ==
    /\ ready[e] = "CONNECTING" =>
           stream[e] = "none" /\ sent[e] = 0 /\ closes[e] = 0 /\ errors[e] = 0
    /\ stream[e] = "none" =>
           /\ frameSent[e] = "no" /\ ~frameRecv[e] /\ ~finRead[e] /\ ~timer[e]
           /\ receiver[e] = "running" /\ ready[e] # "OPEN"
    /\ Alive(e) \/ stream[e] = "destroyed" => ready[e] \in {"OPEN", "CLOSING"}
    /\ stream[e] = "closed" =>
           /\ receiver[e] # "running"
           /\ ready[e] = (IF receiver[e] \in {"finished", "errored"} THEN "CLOSED" ELSE "CLOSING")
    /\ receiver[e] \in {"ending", "finished"} =>
           frameRecv[e] \/ finRead[e] \/ stream[e] = "closed"
    /\ timer[e] => ready[e] = "CLOSING" /\ stream[e] # "closed"

\* The request is under way as long as the client is CONNECTING; the server has
\* no socket before it answers it.
OpeningOK ==
    /\ opening \in {"request", "answered"} <=> ready["client"] = "CONNECTING"
    /\ opening = "aborted" =>
           ready["client"] = "CLOSING" /\ stream["client"] = "none" /\ errors["client"] = 0
                /\ closes["client"] = 0
    /\ stream["server"] = "none" <=> ready["server"] = "CONNECTING"
    /\ opening = "request" => ready["server"] = "CONNECTING"

EndsOK == OpeningOK /\ (\A e \in End : EndOK(e)) /\ ClosesOnce /\ OpenMeansWritable

\* Messages d+1, d+2, ..., at most n, in their order.
InOrder(w, d, n) ==
    /\ \A i \in Messages(w) :
           /\ w[i].value \in d + 1 .. n
           /\ \A m \in d + 1 .. w[i].value : \E j \in Messages(w) : j <= i /\ w[j].value = m
    /\ \A i, j \in Messages(w) : i < j => w[i].value < w[j].value

\* All of d+1 .. n are among the first k frames, or a message that was too large is.
AllBefore(w, k, d, n) ==
    \/ \E i \in 1 .. Len(w) : i < k /\ w[i].type = "oversized"
    \/ \A m \in d + 1 .. n : \E i \in Messages(w) : i < k /\ w[i].value = m

\* What is under way to an end that listens: of the messages up to n those that
\* follow the d delivered, a close frame behind all that was sent, and, if what
\* is sent still arrives, all of them.
FlowsAt(w, d, n, arrives) ==
    /\ InOrder(w, d, n)
    /\ \A i \in 1 .. Len(w) : w[i].type = "close" => AllBefore(w, i, d, n)
    /\ arrives => AllBefore(w, Len(w) + 1, d, n)
Flows(x) == FlowsAt(wire[x], Len(delivered[x]), sent[Other(x)], Takes(x))

\* A frame tells what the sender has done.
FramesOK(x) ==
    LET w == wire[x]  o == Other(x)
    IN  \A i \in 1 .. Len(w) :
            /\ w[i].type = "fin" =>
                   i = Len(w) /\ ready[o] \in {"CLOSING", "CLOSED"} /\ stream[o] # "open"
            /\ w[i].type = "close" => frameSent[o] # "no"
            /\ w[i].type = "oversized" => sent[o] = MaxSent[o]

DeliveredOK(x) ==
    /\ Len(delivered[x]) <= sent[Other(x)]
    /\ delivered[x] = [i \in 1 .. Len(delivered[x]) |-> i]
    /\ closeCode[x] # Abnormal =>
           /\ frameRecv[x] /\ frameSent[Other(x)] # "no"
           /\ Len(delivered[x]) = sent[Other(x)]

WiresOK == \A x \in End : FramesOK(x) /\ DeliveredOK(x) /\ (Listening(x) => Flows(x))

\* Pongs that came, and pongs and pings that are under way, are at most the pings.
Count(w, type) == Cardinality({i \in 1 .. Len(w) : w[i].type = type})
PongsOK ==
    /\ \A i \in 1 .. Len(wire["server"]) : wire["server"][i].type # "ping"
    /\ \A i \in 1 .. Len(wire["client"]) : wire["client"][i].type # "pong"
    /\ pongs + Count(wire["server"], "pong") + Count(wire["client"], "ping") <= pings

SentOK == \A e \in End : sent[e] <= MaxSent[e]

LinkInv == LinkTypeOK /\ EndsOK /\ WiresOK /\ PongsOK /\ SentOK

-----------------------------------------------------------------------------
(* Queues of frames.                                                       *)

LEMMA FrameType ==
    ASSUME NEW f \in WireFrame
    PROVE  /\ f.type \in {"message", "close", "ping", "pong", "fin", "oversized"}
           /\ f.type = "message" => f.value \in Numbers /\ f = Message(f.value)
           /\ f.type = "close" =>
                  f.value \in Code \cup {NoStatus, TooBig} /\ f = CloseFrame(f.value)
  BY DEF WireFrame, Message, CloseFrame

LEMMA FrameMakes ==
    /\ \A n \in Numbers : Message(n) \in WireFrame /\ Message(n).type = "message"
                              /\ Message(n).value = n
    /\ \A c \in Code \cup {NoStatus, TooBig} :
           CloseFrame(c) \in WireFrame /\ CloseFrame(c).type = "close" /\ CloseFrame(c).value = c
    /\ \A t \in {"ping", "pong", "fin", "oversized"} : Signal(t) \in WireFrame /\ Signal(t).type = t
  BY DEF WireFrame, Message, CloseFrame, Signal

LEMMA NumbersAreNat ==
    /\ Numbers \subseteq Nat /\ \A n \in Numbers : n >= 1
    /\ \A n \in Numbers \cup {0} : n \in Nat
  BY MaxAssumption DEF Numbers, End

LEMMA QueueAppends ==
    ASSUME NEW w \in Seq(WireFrame), NEW f \in WireFrame
    PROVE  /\ Append(w, f) \in Seq(WireFrame) /\ Len(Append(w, f)) = Len(w) + 1
           /\ \A i \in 1 .. Len(w) : Append(w, f)[i] = w[i]
           /\ Append(w, f)[Len(w) + 1] = f
  BY AppendProperties

LEMMA QueueTail ==
    ASSUME NEW w \in Seq(WireFrame), w # << >>
    PROVE  /\ Tail(w) \in Seq(WireFrame) /\ Len(Tail(w)) = Len(w) - 1 /\ Len(w) >= 1
           /\ Head(w) = w[1] /\ Head(w) \in WireFrame
           /\ \A i \in 1 .. Len(w) - 1 : Tail(w)[i] = w[i + 1]
  BY HeadTailProperties, EmptySeq

LEMMA QueuePrefix ==
    ASSUME NEW w \in Seq(WireFrame), NEW k \in 0 .. Len(w)
    PROVE  /\ SubSeq(w, 1, k) \in Seq(WireFrame) /\ Len(SubSeq(w, 1, k)) = k
           /\ \A i \in 1 .. k : SubSeq(w, 1, k)[i] = w[i]
  <1>1. \A i \in 1 .. k : w[i] \in WireFrame
    OBVIOUS
  <1> QED BY <1>1, SubSeqProperties

-----------------------------------------------------------------------------
(* Messages in order.                                                      *)

LEMMA MessagesOfAppend ==
    ASSUME NEW w \in Seq(WireFrame), NEW f \in WireFrame
    PROVE  Messages(Append(w, f)) =
               IF f.type = "message" THEN Messages(w) \cup {Len(w) + 1} ELSE Messages(w)
  BY QueueAppends DEF Messages

LEMMA MessagesOfPrefix ==
    ASSUME NEW w \in Seq(WireFrame), NEW k \in 0 .. Len(w)
    PROVE  Messages(SubSeq(w, 1, k)) = {i \in Messages(w) : i <= k}
  BY QueuePrefix DEF Messages

\* Nothing is under way.
LEMMA NoneInOrder ==
    ASSUME NEW d \in Nat, NEW n \in Nat
    PROVE  InOrder(<< >>, d, n) /\ \A k : AllBefore(<< >>, k, d, d)
  <1>1. Messages(<< >>) = {} /\ d + 1 .. d = {}
    BY DEF Messages
  <1> QED BY <1>1 DEF InOrder, AllBefore

\* A frame behind the others that is not a message; the next message.
LEMMA AppendsInOrder ==
    ASSUME NEW w \in Seq(WireFrame), NEW f \in WireFrame, NEW d \in Nat, NEW n \in Nat,
           InOrder(w, d, n), f.type # "message"
    PROVE  InOrder(Append(w, f), d, n)
  <1>1. Messages(Append(w, f)) = Messages(w) /\ \A i \in Messages(w) : Append(w, f)[i] = w[i]
    BY MessagesOfAppend, QueueAppends DEF Messages
  <1>2. ASSUME NEW v, Messages(v) = Messages(w), \A i \in Messages(w) : v[i] = w[i]
        PROVE  InOrder(v, d, n)
    <2>1. \A i \in Messages(w) :
              /\ v[i].value \in d + 1 .. n
              /\ \A m \in d + 1 .. v[i].value : \E j \in Messages(w) : j <= i /\ v[j].value = m
      BY <1>2 DEF InOrder
    <2>2. \A i, j \in Messages(w) : i < j => v[i].value < v[j].value
      BY <1>2 DEF InOrder
    <2> QED BY <1>2, <2>1, <2>2, ZenonT(40) DEF InOrder
  <1> QED BY <1>1, <1>2, Zenon

LEMMA MessageInOrder ==
    ASSUME NEW w \in Seq(WireFrame), NEW d \in Nat, NEW n \in Nat, d <= n, n + 1 \in Numbers,
           InOrder(w, d, n), \A m \in d + 1 .. n : \E i \in Messages(w) : w[i].value = m
    PROVE  InOrder(Append(w, Message(n + 1)), d, n + 1)
  <1> DEFINE v == Append(w, Message(n + 1))
  <1>1. /\ Messages(v) = Messages(w) \cup {Len(w) + 1}
        /\ \A i \in Messages(w) : v[i] = w[i] /\ i < Len(w) + 1 /\ i \in Nat
        /\ v[Len(w) + 1].value = n + 1 /\ Len(w) \in Nat
    BY MessagesOfAppend, QueueAppends, FrameMakes DEF Messages
  <1>2. \A i \in Messages(w) :
            /\ v[i].value \in d + 1 .. n
            /\ \A m \in d + 1 .. v[i].value : \E j \in Messages(w) : j <= i /\ v[j].value = m
    <2>1. \A i \in Messages(w) : v[i] = w[i]
      BY <1>1
    <2> HIDE DEF v
    <2>2. \A i \in Messages(w) :
              /\ w[i].value \in d + 1 .. n
              /\ \A m \in d + 1 .. w[i].value : \E j \in Messages(w) : j <= i /\ w[j].value = m
      BY DEF InOrder
    <2>3. \A i \in Messages(w) : v[i].value = w[i].value
      BY <2>1
    <2> SUFFICES ASSUME NEW i \in Messages(w)
                 PROVE  /\ v[i].value \in d + 1 .. n
                        /\ \A m \in d + 1 .. v[i].value : \E j \in Messages(w) : j <= i /\ v[j].value = m
      OBVIOUS
    <2>4. w[i].value \in d + 1 .. n /\ v[i].value = w[i].value
      BY <2>2, <2>3
    <2>5. ASSUME NEW m \in d + 1 .. w[i].value PROVE \E j \in Messages(w) : j <= i /\ v[j].value = m
      <3>1. PICK j \in Messages(w) : j <= i /\ w[j].value = m
        BY <2>2
      <3>2. v[j].value = m
        BY <2>3, <3>1
      <3> QED BY <3>1, <3>2
    <2> QED BY <2>4, <2>5
  <1> HIDE DEF v
  <1>3. ASSUME NEW i \in Messages(v)
        PROVE  /\ v[i].value \in d + 1 .. n + 1
               /\ \A m \in d + 1 .. v[i].value : \E j \in Messages(v) : j <= i /\ v[j].value = m
    <2>1. CASE i \in Messages(w)
      <3>1. Messages(w) \subseteq Messages(v)
        BY <1>1
      <3>2. v[i].value \in d + 1 .. n + 1
        BY <1>2, <2>1
      <3> QED BY <1>2, <2>1, <3>1, <3>2
    <2>2. CASE i = Len(w) + 1
      <3>1. v[i].value = n + 1
        BY <1>1, <2>2
      <3>2. ASSUME NEW m \in d + 1 .. n + 1 PROVE \E j \in Messages(v) : j <= i /\ v[j].value = m
        <4>1. CASE m = n + 1
          BY <1>1, <2>2, <3>1, <4>1
        <4>2. CASE m \in d + 1 .. n
          <5>1. PICK j \in Messages(w) : w[j].value = m
            BY <4>2
          <5>2. j \in Messages(v) /\ v[j] = w[j] /\ j <= i
            BY <1>1, <2>2
          <5> QED BY <5>1, <5>2
        <4> QED BY <4>1, <4>2
      <3> QED BY <3>1, <3>2
    <2> QED BY <1>1, <2>1, <2>2
  <1>4. ASSUME NEW i \in Messages(v), NEW j \in Messages(v), i < j
        PROVE  v[i].value < v[j].value
    <2>1. i \in Messages(w) /\ v[i] = w[i]
      BY <1>1, <1>4
    <2>2. CASE j \in Messages(w)
      <3>1. v[j] = w[j]
        BY <1>1, <2>2
      <3> QED BY <1>4, <2>1, <2>2, <3>1 DEF InOrder
    <2>3. CASE j = Len(w) + 1
      BY <1>1, <1>2, <2>1, <2>3
    <2> QED BY <1>1, <2>2, <2>3
  <1>5. InOrder(v, d, n + 1)
    BY <1>3, <1>4 DEF InOrder
  <1> QED BY <1>5 DEF v

LEMMA PrefixInOrder ==
    ASSUME NEW w \in Seq(WireFrame), NEW k \in 0 .. Len(w), NEW d \in Nat, NEW n \in Nat,
           InOrder(w, d, n)
    PROVE  InOrder(SubSeq(w, 1, k), d, n)
  <1> DEFINE v == SubSeq(w, 1, k)
  <1>1. /\ Messages(v) = {i \in Messages(w) : i <= k}
        /\ \A i \in Messages(v) : v[i] = w[i] /\ i \in Nat
    BY MessagesOfPrefix, QueuePrefix DEF Messages
  <1>2. Messages(w) \subseteq Nat
    BY DEF Messages
  <1> HIDE DEF v
  <1>3. ASSUME NEW i \in Messages(v)
        PROVE  /\ v[i].value \in d + 1 .. n
               /\ \A m \in d + 1 .. v[i].value : \E j \in Messages(v) : j <= i /\ v[j].value = m
    <2>1. i \in Messages(w) /\ i <= k /\ v[i] = w[i]
      BY <1>1
    <2>2. v[i].value \in d + 1 .. n
      BY <2>1 DEF InOrder
    <2>3. ASSUME NEW m \in d + 1 .. v[i].value PROVE \E j \in Messages(v) : j <= i /\ v[j].value = m
      <3>1. PICK j \in Messages(w) : j <= i /\ w[j].value = m
        BY <2>1 DEF InOrder
      <3>2. j <= k
        BY <1>2, <2>1, <3>1
      <3>3. j \in Messages(v) /\ v[j] = w[j]
        BY <1>1, <3>2
      <3> QED BY <3>1, <3>3
    <2> QED BY <2>2, <2>3
  <1>4. ASSUME NEW i \in Messages(v), NEW j \in Messages(v), i < j PROVE v[i].value < v[j].value
    <2>1. i \in Messages(w) /\ j \in Messages(w) /\ v[i] = w[i] /\ v[j] = w[j]
      BY <1>1
    <2> QED BY <1>4, <2>1 DEF InOrder
  <1>5. InOrder(v, d, n)
    BY <1>3, <1>4 DEF InOrder
  <1> QED BY <1>5 DEF v

LEMMA MessagesOfTail ==
    ASSUME NEW w \in Seq(WireFrame), w # << >>
    PROVE  /\ \A i \in Messages(Tail(w)) : i + 1 \in Messages(w) /\ Tail(w)[i] = w[i + 1] /\ i \in Nat \ {0}
           /\ \A i \in Messages(w) : i = 1 \/ (i - 1 \in Messages(Tail(w)) /\ Tail(w)[i - 1] = w[i])
           /\ Messages(w) \subseteq Nat \ {0}
           /\ 1 \in Messages(w) <=> w[1].type = "message"
  BY QueueTail DEF Messages

\* The head is the message after those delivered, or no message.
LEMMA HeadInOrder ==
    ASSUME NEW w \in Seq(WireFrame), w # << >>, NEW d \in Nat, NEW n \in Nat,
           InOrder(w, d, n), w[1].type = "message"
    PROVE  w[1].value = d + 1 /\ d + 1 <= n
  <1>1. 1 \in Messages(w) /\ Messages(w) \subseteq Nat \ {0}
    BY MessagesOfTail
  <1>2. w[1].value \in d + 1 .. n
    BY <1>1 DEF InOrder
  <1>3. PICK j \in Messages(w) : j <= 1 /\ w[j].value = d + 1
    BY <1>1, <1>2 DEF InOrder
  <1> QED BY <1>1, <1>2, <1>3

LEMMA TailInOrder ==
    ASSUME NEW w \in Seq(WireFrame), w # << >>, NEW d \in Nat, NEW n \in Nat, InOrder(w, d, n)
    PROVE  InOrder(Tail(w), IF w[1].type = "message" THEN d + 1 ELSE d, n)
  <1> DEFINE v == Tail(w)
             c == IF w[1].type = "message" THEN d + 1 ELSE d
  <1>1. /\ \A i \in Messages(v) : i + 1 \in Messages(w) /\ v[i] = w[i + 1] /\ i \in Nat \ {0}
        /\ \A i \in Messages(w) : i = 1 \/ (i - 1 \in Messages(v) /\ v[i - 1] = w[i])
        /\ Messages(w) \subseteq Nat \ {0}
        /\ 1 \in Messages(w) <=> w[1].type = "message"
    BY MessagesOfTail
  <1>2. w[1].type = "message" => w[1].value = d + 1
    BY HeadInOrder
  <1>3. \A i \in Messages(w) : w[i].value \in d + 1 .. n
    BY DEF InOrder
  <1> HIDE DEF v
  <1>4. ASSUME NEW i \in Messages(v)
        PROVE  /\ v[i].value \in c + 1 .. n
               /\ \A m \in c + 1 .. v[i].value : \E j \in Messages(v) : j <= i /\ v[j].value = m
    <2>1. i + 1 \in Messages(w) /\ v[i] = w[i + 1] /\ i + 1 > 1 /\ i \in Nat
      <3>1. i + 1 \in Messages(w) /\ v[i] = w[i + 1] /\ i \in Nat \ {0}
        BY <1>1
      <3> QED BY <3>1
    <2>2. v[i].value \in c + 1 .. n
      BY <1>1, <1>2, <1>3, <2>1 DEF InOrder
    <2>3. ASSUME NEW m \in c + 1 .. v[i].value
          PROVE  \E j \in Messages(v) : j <= i /\ v[j].value = m
      <3>1. m \in d + 1 .. w[i + 1].value
        BY <2>1, <2>2, <2>3
      <3>2. PICK j \in Messages(w) : j <= i + 1 /\ w[j].value = m
        BY <2>1, <3>1 DEF InOrder
      <3>3. j # 1
        BY <1>1, <1>2, <2>3, <3>2
      <3>4. j - 1 \in Messages(v) /\ v[j - 1] = w[j] /\ j \in Nat
        BY <1>1, <3>3
      <3>5. j - 1 <= i /\ v[j - 1].value = m
        BY <2>1, <3>2, <3>4
      <3> QED BY <3>4, <3>5
    <2> QED BY <2>2, <2>3
  <1>5. ASSUME NEW i \in Messages(v), NEW j \in Messages(v), i < j
        PROVE  v[i].value < v[j].value
    <2>1. i + 1 \in Messages(w) /\ j + 1 \in Messages(w) /\ v[i] = w[i + 1] /\ v[j] = w[j + 1]
      BY <1>1
    <2>2. i \in Nat /\ j \in Nat /\ i + 1 < j + 1
      BY <1>1, <1>5
    <2> QED BY <2>1, <2>2 DEF InOrder
  <1>6. InOrder(v, c, n)
    BY <1>4, <1>5 DEF InOrder
  <1> QED BY <1>6 DEF v

-----------------------------------------------------------------------------
(* All that was sent is before a place in the queue.                       *)

LEMMA BeforeAppend ==
    ASSUME NEW w \in Seq(WireFrame), NEW f \in WireFrame, NEW k \in Int, NEW l \in Int, k <= l,
           NEW d \in Nat, NEW n \in Nat, AllBefore(w, k, d, n)
    PROVE  AllBefore(Append(w, f), l, d, n)
  <1> DEFINE v == Append(w, f)
  <1>1. /\ Messages(w) \subseteq Messages(v) /\ Messages(w) \subseteq 1 .. Len(w)
        /\ \A i \in 1 .. Len(w) : v[i] = w[i] /\ i \in 1 .. Len(v) /\ (i < k => i < l)
    BY MessagesOfAppend, QueueAppends DEF Messages
  <1> HIDE DEF v
  <1>2. AllBefore(v, l, d, n)
    <2>1. CASE \E i \in 1 .. Len(w) : i < k /\ w[i].type = "oversized"
      <3>1. \E i \in 1 .. Len(v) : i < l /\ v[i].type = "oversized"
        BY <1>1, <2>1
      <3> QED BY <3>1 DEF AllBefore
    <2>2. CASE \A m \in d + 1 .. n : \E i \in Messages(w) : i < k /\ w[i].value = m
      <3>1. \A m \in d + 1 .. n : \E i \in Messages(v) : i < l /\ v[i].value = m
        BY <1>1, <2>2
      <3> QED BY <3>1 DEF AllBefore
    <2> QED BY <2>1, <2>2 DEF AllBefore
  <1> QED BY <1>2 DEF v

LEMMA BeforeMessage ==
    ASSUME NEW w \in Seq(WireFrame), NEW d \in Nat, NEW n \in Nat, n + 1 \in Numbers,
           \A m \in d + 1 .. n : \E i \in Messages(w) : w[i].value = m
    PROVE  AllBefore(Append(w, Message(n + 1)), Len(w) + 2, d, n + 1)
  <1> DEFINE v == Append(w, Message(n + 1))
  <1>1. /\ Messages(v) = Messages(w) \cup {Len(w) + 1} /\ Len(w) \in Nat
        /\ \A i \in Messages(w) : v[i] = w[i] /\ i < Len(w) + 2
        /\ v[Len(w) + 1].value = n + 1
    BY MessagesOfAppend, QueueAppends, FrameMakes DEF Messages
  <1> HIDE DEF v
  <1>2. ASSUME NEW m \in d + 1 .. n + 1
        PROVE  \E i \in Messages(v) : i < Len(w) + 2 /\ v[i].value = m
    <2>1. CASE m = n + 1
      BY <1>1, <2>1
    <2>2. CASE m \in d + 1 .. n
      <3>1. PICK i \in Messages(w) : w[i].value = m
        BY <2>2
      <3> QED BY <1>1, <3>1
    <2> QED BY <2>1, <2>2
  <1>3. AllBefore(v, Len(w) + 2, d, n + 1)
    BY <1>2 DEF AllBefore
  <1> QED BY <1>3 DEF v

LEMMA BeforePrefix ==
    ASSUME NEW w \in Seq(WireFrame), NEW l \in 0 .. Len(w), NEW k \in Int, k <= l + 1,
           NEW d \in Nat, NEW n \in Nat, AllBefore(w, k, d, n)
    PROVE  AllBefore(SubSeq(w, 1, l), k, d, n)
  <1> DEFINE v == SubSeq(w, 1, l)
  <1>1. /\ Messages(v) = {i \in Messages(w) : i <= l} /\ Len(v) = l
        /\ \A i \in 1 .. l : v[i] = w[i]
        /\ \A i \in 1 .. Len(w) : i < k => i \in 1 .. l
        /\ Messages(w) \subseteq 1 .. Len(w)
    BY MessagesOfPrefix, QueuePrefix DEF Messages
  <1> HIDE DEF v
  <1>2. AllBefore(v, k, d, n)
    <2>1. CASE \E i \in 1 .. Len(w) : i < k /\ w[i].type = "oversized"
      <3>1. \E i \in 1 .. Len(v) : i < k /\ v[i].type = "oversized"
        BY <1>1, <2>1
      <3> QED BY <3>1 DEF AllBefore
    <2>2. CASE \A m \in d + 1 .. n : \E i \in Messages(w) : i < k /\ w[i].value = m
      <3>1. ASSUME NEW m \in d + 1 .. n PROVE \E i \in Messages(v) : i < k /\ v[i].value = m
        <4>1. PICK i \in Messages(w) : i < k /\ w[i].value = m
          BY <2>2
        <4>2. i \in Messages(v) /\ v[i] = w[i]
          BY <1>1, <4>1
        <4> QED BY <4>1, <4>2
      <3> QED BY <3>1 DEF AllBefore
    <2> QED BY <2>1, <2>2 DEF AllBefore
  <1> QED BY <1>2 DEF v

LEMMA BeforeTail ==
    ASSUME NEW w \in Seq(WireFrame), w # << >>, NEW d \in Nat, NEW n \in Nat, InOrder(w, d, n),
           w[1].type # "oversized", NEW k \in Int, AllBefore(w, k, d, n)
    PROVE  AllBefore(Tail(w), k - 1, IF w[1].type = "message" THEN d + 1 ELSE d, n)
  <1> DEFINE v == Tail(w)
             c == IF w[1].type = "message" THEN d + 1 ELSE d
  <1>1. /\ \A i \in Messages(w) : i = 1 \/ (i - 1 \in Messages(v) /\ v[i - 1] = w[i])
        /\ Messages(w) \subseteq Nat \ {0}
        /\ 1 \in Messages(w) <=> w[1].type = "message"
    BY MessagesOfTail
  <1>0. /\ Len(v) = Len(w) - 1 /\ \A i \in 1 .. Len(w) - 1 : v[i] = w[i + 1]
        /\ Len(w) \in Nat
    BY QueueTail
  <1>2. w[1].type = "message" => w[1].value = d + 1
    BY HeadInOrder
  <1> HIDE DEF v
  <1>3. AllBefore(v, k - 1, c, n)
    <2>1. CASE \E i \in 1 .. Len(w) : i < k /\ w[i].type = "oversized"
      <3>1. PICK i \in 1 .. Len(w) : i < k /\ w[i].type = "oversized"
        BY <2>1
      <3>2. i # 1 /\ i - 1 \in 1 .. Len(v) /\ i - 1 < k - 1
        BY <1>0, <3>1
      <3>3. v[i - 1] = w[i]
        BY <1>0, <3>2
      <3> QED BY <3>1, <3>2, <3>3 DEF AllBefore
    <2>2. CASE \A m \in d + 1 .. n : \E i \in Messages(w) : i < k /\ w[i].value = m
      <3>1. ASSUME NEW m \in c + 1 .. n PROVE \E i \in Messages(v) : i < k - 1 /\ v[i].value = m
        <4>1. PICK i \in Messages(w) : i < k /\ w[i].value = m
          BY <2>2
        <4>2. i # 1
          BY <1>1, <1>2, <4>1
        <4>3. i - 1 \in Messages(v) /\ v[i - 1] = w[i] /\ i - 1 < k - 1
          BY <1>1, <4>1, <4>2
        <4> QED BY <4>1, <4>3
      <3> QED BY <3>1 DEF AllBefore
    <2> QED BY <2>1, <2>2 DEF AllBefore
  <1> QED BY <1>3 DEF v

-----------------------------------------------------------------------------
(* What is read at once.                                                   *)

\* Messages in order are as many as the numbers they have.
LEMMA AsManyAsNumbers ==
    ASSUME NEW w \in Seq(WireFrame), NEW d \in Nat, NEW n \in Nat, InOrder(w, d, n),
           NEW b \in Nat, d <= b,
           NEW S \in SUBSET Messages(w), \A i \in S : w[i].value \in d + 1 .. b
    PROVE  /\ IsFiniteSet(S) /\ Cardinality(S) \in Nat /\ Cardinality(S) <= b - d
           /\ Cardinality(S) = b - d <=> \A m \in d + 1 .. b : \E i \in S : w[i].value = m
  <1> DEFINE f == [i \in S |-> w[i].value]
  <1>1. S \subseteq Nat
    BY DEF Messages
  <1>2. f \in [S -> d + 1 .. b]
    OBVIOUS
  <1>3. \A i, j \in S : f[i] = f[j] => i = j
    <2> SUFFICES ASSUME NEW i \in S, NEW j \in S, i # j PROVE f[i] # f[j]
      OBVIOUS
    <2>1. i < j \/ j < i
      BY <1>1
    <2>2. w[i].value < w[j].value \/ w[j].value < w[i].value
      BY <2>1 DEF InOrder
    <2>3. w[i].value \in Int /\ w[j].value \in Int
      OBVIOUS
    <2> QED BY <2>2, <2>3
  <1>4. f \in Injection(S, d + 1 .. b)
    BY <1>2, <1>3 DEF Injection, IsInjective
  <1>5. IsFiniteSet(d + 1 .. b) /\ Cardinality(d + 1 .. b) = b - d
    <2>1. d + 1 \in Int /\ b \in Int
      OBVIOUS
    <2>2. /\ IsFiniteSet(d + 1 .. b)
          /\ Cardinality(d + 1 .. b) = IF d + 1 > b THEN 0 ELSE b - (d + 1) + 1
      BY <2>1, FS_Interval
    <2> QED BY <2>2
  <1>6. /\ IsFiniteSet(S) /\ Cardinality(S) <= Cardinality(d + 1 .. b)
        /\ Cardinality(S) = Cardinality(d + 1 .. b) <=> f \in Surjection(S, d + 1 .. b)
    BY <1>4, <1>5, FS_Injection
  <1>7. f \in Surjection(S, d + 1 .. b) <=> \A m \in d + 1 .. b : \E i \in S : w[i].value = m
    BY <1>2 DEF Surjection
  <1>8. Cardinality(S) \in Nat
    BY <1>6, FS_CardinalityType
  <1> QED BY <1>5, <1>6, <1>7, <1>8

\* The values that a chunk of frames gives: the numbers that follow.
LEMMA ValuesFollow ==
    ASSUME NEW w \in Seq(WireFrame), NEW d \in Nat, NEW n \in Nat, d <= n, InOrder(w, d, n)
    PROVE  \E c \in 0 .. n - d :
               /\ Values(w) = [i \in 1 .. c |-> d + i]
               /\ (\A m \in d + 1 .. n : \E i \in Messages(w) : w[i].value = m) => c = n - d
  <1> DEFINE c == Cardinality(Messages(w))
             Upto(i) == {j \in Messages(w) : j <= i}
  <1>1. /\ \A i \in Messages(w) : w[i].value \in d + 1 .. n
        /\ Messages(w) \subseteq Nat
    BY DEF InOrder, Messages
  <1>2. /\ IsFiniteSet(Messages(w)) /\ c \in Nat /\ c <= n - d
        /\ c = n - d <=> \A m \in d + 1 .. n : \E i \in Messages(w) : w[i].value = m
    BY <1>1, AsManyAsNumbers
  \* The rank of a message is its number, counted from those delivered.
  <1>3. ASSUME NEW i \in Messages(w) PROVE Cardinality(Upto(i)) = w[i].value - d
    <2>1. w[i].value \in Nat /\ d <= w[i].value /\ Upto(i) \in SUBSET Messages(w)
      BY <1>1
    <2>2. \A j \in Upto(i) : w[j].value \in d + 1 .. w[i].value
      <3> SUFFICES ASSUME NEW j \in Messages(w), j <= i PROVE w[j].value \in d + 1 .. w[i].value
        OBVIOUS
      <3>1. j = i \/ w[j].value < w[i].value
        BY <1>1 DEF InOrder
      <3> QED BY <1>1, <3>1
    <2>3. \A m \in d + 1 .. w[i].value : \E j \in Upto(i) : w[j].value = m
      BY DEF InOrder
    <2> HIDE DEF Upto
    <2>4. Cardinality(Upto(i)) = w[i].value - d <=>
              \A m \in d + 1 .. w[i].value : \E j \in Upto(i) : w[j].value = m
      BY <2>1, <2>2, AsManyAsNumbers
    <2> QED BY <2>3, <2>4
  \* Each number up to c is there: fewer numbers than messages there are not.
  <1>4. ASSUME NEW k \in 1 .. c PROVE \E i \in Messages(w) : w[i].value = d + k
    <2> SUFFICES ASSUME \A i \in Messages(w) : w[i].value # d + k PROVE FALSE
      OBVIOUS
    <2>1. ASSUME NEW i \in Messages(w) PROVE w[i].value \in d + 1 .. d + k - 1
      <3>1. w[i].value \in d + 1 .. n
        BY <1>1
      <3>2. ~(d + k \in d + 1 .. w[i].value)
        BY DEF InOrder
      <3> QED BY <1>2, <3>1, <3>2
    <2>2. d + k - 1 \in Nat /\ d <= d + k - 1 /\ Messages(w) \in SUBSET Messages(w)
      BY <1>2
    <2>3. c <= d + k - 1 - d
      BY <2>1, <2>2, AsManyAsNumbers
    <2> QED BY <1>2, <2>3
  <1>5. ASSUME NEW k \in 1 .. c PROVE w[Nth(w, k)].value = d + k
    <2>1. PICK i \in Messages(w) : w[i].value = d + k
      BY <1>4
    <2>2. Cardinality(Upto(i)) = k
      BY <1>2, <1>3, <2>1
    <2>3. Nth(w, k) \in Messages(w) /\ Cardinality(Upto(Nth(w, k))) = k
      BY <2>2 DEF Nth
    <2> HIDE DEF Upto
    <2>4. w[Nth(w, k)].value - d = k
      BY <1>3, <2>3
    <2>5. w[Nth(w, k)].value \in Nat
      BY <1>1, <2>3
    <2>6. k \in Nat /\ \A x \in Nat : x - d = k => x = d + k
      BY <1>2
    <2> QED BY <2>4, <2>5, <2>6
  <1>6. Values(w) = [i \in 1 .. c |-> d + i]
    BY <1>5 DEF Values
  <1>7. c \in 0 .. n - d
    BY <1>2
  <1> HIDE DEF c
  <1> QED BY <1>2, <1>6, <1>7

LEMMA NumbersJoin ==
    ASSUME NEW d \in Nat, NEW c \in Nat
    PROVE  /\ [i \in 1 .. d |-> i] \o [i \in 1 .. c |-> d + i] = [i \in 1 .. d + c |-> i]
           /\ Append([i \in 1 .. d |-> i], d + 1) = [i \in 1 .. d + 1 |-> i]
           /\ Len([i \in 1 .. d |-> i]) = d
  <1> DEFINE s == [i \in 1 .. d |-> i]  t == [i \in 1 .. c |-> d + i]  r == [i \in 1 .. d + c |-> i]
  <1>1. s \in Seq(Nat) /\ Len(s) = d /\ t \in Seq(Nat) /\ Len(t) = c /\ r \in Seq(Nat) /\ Len(r) = d + c
    OBVIOUS
  <1>2. s \o t \in Seq(Nat) /\ Len(s \o t) = d + c
    BY <1>1, ConcatProperties
  <1>3. ASSUME NEW i \in 1 .. d + c PROVE (s \o t)[i] = r[i]
    <2>1. (s \o t)[i] = IF i <= Len(s) THEN s[i] ELSE t[i - Len(s)]
      BY <1>1, ConcatProperties
    <2> QED BY <1>1, <2>1
  <1>4. s \o t = r
    BY <1>1, <1>2, <1>3, SeqEqual
  <1>5. Append(s, d + 1) = [i \in 1 .. d + 1 |-> i]
    <2> DEFINE q == Append(s, d + 1)  p == [i \in 1 .. d + 1 |-> i]
    <2>1. q \in Seq(Nat) /\ Len(q) = d + 1 /\ p \in Seq(Nat) /\ Len(p) = d + 1
      BY <1>1, AppendProperties
    <2>2. ASSUME NEW i \in 1 .. d + 1 PROVE q[i] = p[i]
      OBVIOUS
    <2> HIDE DEF p, q
    <2>3. q = p
      BY <2>1, <2>2, SeqEqual
    <2> QED BY <2>3 DEF p, q
  <1> QED BY <1>1, <1>4, <1>5

-----------------------------------------------------------------------------
(* What an action does to the queues.                                      *)

LEMMA Ends ==
    ASSUME NEW e \in End
    PROVE  /\ Other(e) \in End /\ Other(e) # e /\ Other(Other(e)) = e
           /\ \A x \in End : x = e \/ x = Other(e)
  BY DEF End, Other

LEMMA PutAt ==
    ASSUME NEW w \in [End -> Seq(WireFrame)], NEW e \in End, NEW f \in WireFrame
    PROVE  /\ Put(w, e, f) \in [End -> Seq(WireFrame)]
           /\ Put(w, e, f)[e] = w[e]
           /\ Put(w, e, f)[Other(e)] =
                  IF Takes(Other(e)) THEN Append(w[Other(e)], f) ELSE w[Other(e)]
  <1>1. Append(w[Other(e)], f) \in Seq(WireFrame)
    BY Ends
  <1> QED BY <1>1, Ends DEF Put

LEMMA FinAt ==
    ASSUME NEW w \in [End -> Seq(WireFrame)], NEW e \in End
    PROVE  /\ WithFin(w, e) \in [End -> Seq(WireFrame)]
           /\ WithFin(w, e)[e] = w[e]
           /\ WithFin(w, e)[Other(e)] =
                  IF stream[e] = "open" /\ Takes(Other(e)) THEN Append(w[Other(e)], Signal("fin"))
                                                           ELSE w[Other(e)]
  <1>1. Signal("fin") \in WireFrame
    BY FrameMakes
  <1>2. CASE stream[e] = "open"
    BY <1>1, <1>2, PutAt, Zenon DEF WithFin
  <1>3. CASE stream[e] # "open"
    BY <1>3, Zenon DEF WithFin
  <1> QED BY <1>2, <1>3

LEMMA ConsumedAt ==
    ASSUME wire \in [End -> Seq(WireFrame)], NEW e \in End, wire[e] # << >>
    PROVE  /\ Consumed(e) \in [End -> Seq(WireFrame)]
           /\ Consumed(e)[e] = Tail(wire[e]) /\ Consumed(e)[Other(e)] = wire[Other(e)]
           /\ Arriving(e) \in WireFrame /\ Arriving(e) = wire[e][1]
  <1>1. Tail(wire[e]) \in Seq(WireFrame) /\ Head(wire[e]) = wire[e][1] /\ Head(wire[e]) \in WireFrame
    BY QueueTail
  <1> QED BY <1>1, Ends DEF Consumed, Arriving

LEMMA DestroyAt ==
    ASSUME wire \in [End -> Seq(WireFrame)], NEW e \in End, NEW k, Destroy(e, k)
    PROVE  /\ k \in 0 .. Len(wire[e])
           /\ wire' \in [End -> Seq(WireFrame)]
           /\ wire'[e] = SubSeq(wire[e], 1, k) /\ wire'[Other(e)] = WithFin(wire, e)[Other(e)]
           /\ stream' = [stream EXCEPT ![e] = "destroyed"]
  <1>1. k \in 0 .. Len(wire[e]) /\ wire[e] \in Seq(WireFrame)
    BY DEF Destroy
  <1>2. SubSeq(wire[e], 1, k) \in Seq(WireFrame)
    BY <1>1, QueuePrefix
  <1> QED BY <1>1, <1>2, FinAt, Ends DEF Destroy

-----------------------------------------------------------------------------
(* The two ends.                                                           *)

LEMMA EndsNext == LinkTypeOK /\ EndsOK /\ [LinkNext]_linkVars => EndsOK'
  <1> SUFFICES ASSUME LinkTypeOK, EndsOK, [LinkNext]_linkVars PROVE EndsOK'
    OBVIOUS
  <1> DEFINE T == /\ ready \in [End -> {"CONNECTING", "OPEN", "CLOSING", "CLOSED"}]
                  /\ stream \in [End -> {"none", "open", "ended", "destroyed", "closed"}]
                  /\ finRead \in [End -> BOOLEAN]
                  /\ frameSent \in [End -> {"no", "handed", "written"}]
                  /\ frameRecv \in [End -> BOOLEAN] /\ timer \in [End -> BOOLEAN]
                  /\ receiver \in [End -> {"running", "erroring", "errored", "ending", "finished"}]
                  /\ sent \in [End -> Numbers \cup {0}]
                  /\ closes \in [End -> Nat] /\ errors \in [End -> Nat]
                  /\ opening \in {"request", "answered", "aborted", "done"}
  <1>0. T
    BY DEF LinkTypeOK
  <1> USE DEF End, EndsOK, OpeningOK, EndOK, ClosesOnce, OpenMeansWritable, Alive, handshake, traffic
  <1>1. CASE Accept
    BY <1>0, <1>1 DEF Accept, Established
  <1>2. CASE Upgraded
    BY <1>0, <1>2 DEF Upgraded, Established
  <1>3. CASE RequestFails
    BY <1>0, <1>3 DEF RequestFails
  <1>4. ASSUME AbortRequest, opening \in {"request", "answered"} PROVE EndsOK'
    BY <1>0, <1>4 DEF AbortRequest
  <1>5. CASE Aborted
    BY <1>0, <1>5 DEF Aborted
  <1>6. CASE Ping \/ Cut
    BY <1>0, <1>6 DEF Ping, Cut
  <1>7. ASSUME NEW e \in End, Send(e) PROVE EndsOK'
    BY <1>0, <1>7 DEF Send
  <1>8. ASSUME NEW e \in End, NEW c \in Code \cup {NoStatus}, Close(e, c) PROVE EndsOK'
    <2>1. CASE e = "client" /\ ready[e] = "CONNECTING" /\ AbortRequest
      BY <1>4, <2>1
    <2>2. CASE /\ ready[e] = "OPEN" /\ StartClose(e, c)
               /\ UNCHANGED <<opening, stream, finRead, receiver, sent, closes, errors, frameRecv>>
      BY <1>0, <2>2 DEF StartClose
    <2>3. CASE /\ ready[e] = "CLOSING" /\ frameSent[e] = "written" /\ stream' = Ended(e)
               /\ UNCHANGED <<opening, ready, finRead, handshake, receiver, sent, closes, errors>>
      BY <1>0, <2>3 DEF Ended
    <2> QED BY <1>8, <2>1, <2>2, <2>3 DEF Close
  <1>9. ASSUME NEW e \in End, Terminate(e) PROVE EndsOK'
    <2>1. CASE e = "client" /\ ready[e] = "CONNECTING" /\ AbortRequest
      BY <1>4, <2>1
    <2>2. CASE /\ Alive(e) /\ ready' = [ready EXCEPT ![e] = "CLOSING"]
               /\ stream' = [stream EXCEPT ![e] = "destroyed"]
               /\ UNCHANGED <<opening, finRead, handshake, receiver, sent, closes, errors>>
      BY <1>0, <2>2
    <2> QED BY <1>9, <2>1, <2>2 DEF Terminate, Destroy
  <1>10. ASSUME NEW e \in End, Pause(e) \/ Resume(e) PROVE EndsOK'
    BY <1>0, <1>10 DEF Pause, Resume
  <1>11. ASSUME NEW e \in End, ReadFrame(e) PROVE EndsOK'
    BY <1>0, <1>11 DEF ReadFrame
  <1>12. ASSUME NEW e \in End, ReadClose(e) PROVE EndsOK'
    BY <1>0, <1>12 DEF ReadClose, Reads, Listening, Concluded, EndReceiver, Ended
  <1>13. ASSUME NEW e \in End, ReadOversized(e) PROVE EndsOK'
    BY <1>0, <1>13 DEF ReadOversized, Reads, Listening
  <1>14. ASSUME NEW e \in End, ReadFin(e) PROVE EndsOK'
    BY <1>0, <1>14 DEF ReadFin, Reads, EndReceiver, Ended
  <1>15. ASSUME NEW e \in End, ReceiverFails(e) PROVE EndsOK'
    BY <1>0, <1>15 DEF ReceiverFails, ErrorOnce, EmitClose, StartClose, Ended
  <1>16. ASSUME NEW e \in End, ReceiverFinishes(e) PROVE EndsOK'
    BY <1>0, <1>16 DEF ReceiverFinishes, EmitClose
  <1>17. ASSUME NEW e \in End, FrameWritten(e) PROVE EndsOK'
    BY <1>0, <1>17 DEF FrameWritten, Ended
  <1>18. ASSUME NEW e \in End, SocketError(e) PROVE EndsOK'
    BY <1>0, <1>18 DEF SocketError, Destroy
  <1>19. ASSUME NEW e \in End, CloseTimerFires(e) PROVE EndsOK'
    BY <1>0, <1>19 DEF CloseTimerFires, ClearTimer, Destroy
  <1>20. ASSUME NEW e \in End, SocketOnClose(e) PROVE EndsOK'
    BY <1>0, <1>20 DEF SocketOnClose, Ticking, Listening, ClearTimer, Concluded, EndReceiver, EmitClose
  <1>21. CASE UNCHANGED linkVars
    BY <1>0, <1>21 DEF linkVars
  <1> QED BY <1>1, <1>2, <1>3, <1>4, <1>5, <1>6, <1>7, <1>8, <1>9, <1>10, <1>11, <1>12, <1>13,
             <1>14, <1>15, <1>16, <1>17, <1>18, <1>19, <1>20, <1>21 DEF LinkNext, Refused, Read, Tick

-----------------------------------------------------------------------------
(* The kinds of steps, seen from the queue to one end.                     *)

\* What the sender has sent and the receiver delivered and concluded stays.
Settled(x) ==
    /\ sent'[Other(x)] = sent[Other(x)]
    /\ delivered'[x] = delivered[x] /\ closeCode'[x] = closeCode[x]

Untouched(x) == Settled(x) /\ wire'[x] = wire[x]

\* Nothing arrives any more, and of what was under way only the first k frames may.
Shortened(x) ==
    /\ Settled(x) /\ ~Takes(x)'
    /\ \E k \in 0 .. Len(wire[x]) : wire'[x] = SubSeq(wire[x], 1, k)

\* A close frame, a ping or a pong is sent while the sender is OPEN, a FIN once.
Adds(x, f) ==
    /\ Settled(x) /\ wire'[x] = Append(wire[x], f)
    /\ \/ f.type = "close" /\ ready[Other(x)] = "OPEN" /\ frameSent'[Other(x)] # "no" /\ Takes(x)
       \/ f.type \in {"ping", "pong"} /\ ready[Other(x)] = "OPEN" /\ (Ping \/ ReadFrame(Other(x)))
       \/ /\ f.type = "fin"
          /\ stream[Other(x)] = "open" \/ ready[Other(x)] = "CONNECTING"
          /\ stream'[Other(x)] # "open" /\ ready'[Other(x)] \in {"CLOSING", "CLOSED"}

Sends(x, f) ==
    /\ ready[Other(x)] = "OPEN" /\ sent[Other(x)] < MaxSent[Other(x)]
    /\ delivered'[x] = delivered[x] /\ closeCode'[x] = closeCode[x]
    /\ \/ sent'[Other(x)] = sent[Other(x)] + 1 /\ f = Message(sent'[Other(x)])
       \/ sent'[Other(x)] = MaxSent[Other(x)] /\ f = Signal("oversized")
    /\ wire'[x] = IF Takes(x) THEN Append(wire[x], f) ELSE wire[x]

Takes1(x) ==
    LET f == wire[x][1]
    IN  /\ wire[x] # << >> /\ Alive(x) /\ wire'[x] = Tail(wire[x])
        /\ sent'[Other(x)] = sent[Other(x)]
        /\ delivered'[x] = IF f.type = "message" /\ Listening(x) THEN Append(delivered[x], f.value)
                                                                 ELSE delivered[x]
        /\ \/ /\ f.type = "close" /\ Listening(x)
              /\ frameRecv'[x] /\ closeCode'[x] = f.value
           \/ /\ ~(f.type = "close" /\ Listening(x)) /\ closeCode'[x] = closeCode[x]
        /\ f.type = "oversized" => ~Listening(x)'

WireStep(x) ==
    \/ Untouched(x) \/ Shortened(x) \/ Takes1(x) \/ SocketOnClose(x)
    \/ \E f \in WireFrame : Adds(x, f) \/ Sends(x, f)

LEMMA Growth ==
    ASSUME wire \in [End -> Seq(WireFrame)], NEW e \in End, NEW f \in WireFrame,
           NEW w \in [End -> Seq(WireFrame)], w[Other(e)] = wire[Other(e)],
           wire' = Put(w, e, f), Settled(Other(e)),
           \/ f.type = "close" /\ ready[e] = "OPEN" /\ frameSent'[e] # "no"
           \/ f.type \in {"ping", "pong"} /\ ready[e] = "OPEN" /\ (Ping \/ ReadFrame(e))
    PROVE  WireStep(Other(e))
  <1>0. Put(w, e, f)[Other(e)] = IF Takes(Other(e)) THEN Append(w[Other(e)], f) ELSE w[Other(e)]
    BY PutAt, Zenon
  <1>1. wire'[Other(e)] = IF Takes(Other(e)) THEN Append(wire[Other(e)], f) ELSE wire[Other(e)]
    BY <1>0, Zenon
  <1>2. CASE Takes(Other(e))
    <2>1. Adds(Other(e), f)
      BY <1>1, <1>2, Ends DEF Adds
    <2> QED BY <2>1, Ends DEF WireStep
  <1>3. CASE ~Takes(Other(e))
    BY <1>1, <1>3 DEF WireStep, Untouched
  <1> QED BY <1>2, <1>3

\* The socket of e is ended or destroyed: a FIN goes to the other, once.
LEMMA Farewell ==
    ASSUME wire \in [End -> Seq(WireFrame)], NEW e \in End,
           NEW w \in [End -> Seq(WireFrame)], w[Other(e)] = wire[Other(e)],
           wire'[Other(e)] = WithFin(w, e)[Other(e)], Settled(Other(e)),
           stream'[e] # "open", ready'[e] \in {"CLOSING", "CLOSED"}
    PROVE  WireStep(Other(e))
  <1>1. wire'[Other(e)] = IF stream[e] = "open" /\ Takes(Other(e))
                          THEN Append(wire[Other(e)], Signal("fin")) ELSE wire[Other(e)]
    BY FinAt
  <1>2. CASE stream[e] = "open" /\ Takes(Other(e))
    <2>1. Adds(Other(e), Signal("fin"))
      BY <1>1, <1>2, Ends, FrameMakes DEF Adds
    <2> QED BY <2>1, FrameMakes DEF WireStep
  <1>3. CASE ~(stream[e] = "open" /\ Takes(Other(e)))
    BY <1>1, <1>3 DEF WireStep, Untouched
  <1> QED BY <1>2, <1>3

\* The socket of e is destroyed, nothing else happens to the queues.
LEMMA Destruction ==
    ASSUME LinkTypeOK, EndsOK, NEW e \in End, NEW k, Destroy(e, k), ready'[e] = "CLOSING",
           UNCHANGED <<sent, delivered, closeCode>>, opening' = opening, Alive(e)
    PROVE  \A x \in End : WireStep(x)
  <1>1. wire \in [End -> Seq(WireFrame)] /\ stream \in [End -> {"none", "open", "ended", "destroyed", "closed"}]
    BY DEF LinkTypeOK
  <1>2. /\ k \in 0 .. Len(wire[e])
        /\ wire'[e] = SubSeq(wire[e], 1, k) /\ wire'[Other(e)] = WithFin(wire, e)[Other(e)]
        /\ stream' = [stream EXCEPT ![e] = "destroyed"]
    BY <1>1, DestroyAt
  <1>3. stream'[e] = "destroyed"
    BY <1>1, <1>2
  <1>4. ~Takes(e)'
    <2>1. e = "client" => opening # "answered"
      BY DEF EndsOK, OpeningOK, EndOK, Alive, End
    <2> QED BY <1>3, <2>1 DEF Takes, Alive
  <1>5. WireStep(e)
    BY <1>2, <1>4 DEF WireStep, Shortened, Settled
  <1>6. WireStep(Other(e))
    BY <1>1, <1>2, <1>3, Farewell DEF Settled
  <1> QED BY <1>5, <1>6, Ends

\* What each action is for the queues.
LEMMA StepsOfWires ==
    ASSUME LinkTypeOK, EndsOK, [LinkNext]_linkVars, NEW x \in End
    PROVE  WireStep(x)
  <1> DEFINE T == /\ wire \in [End -> Seq(WireFrame)]
                  /\ stream \in [End -> {"none", "open", "ended", "destroyed", "closed"}]
                  /\ ready \in [End -> {"CONNECTING", "OPEN", "CLOSING", "CLOSED"}]
                  /\ receiver \in [End -> {"running", "erroring", "errored", "ending", "finished"}]
                  /\ frameSent \in [End -> {"no", "handed", "written"}]
                  /\ frameRecv \in [End -> BOOLEAN]
                  /\ sent \in [End -> Numbers \cup {0}] /\ delivered \in [End -> Seq(Numbers)]
                  /\ closeCode \in [End -> Code \cup {NoStatus, Abnormal, TooBig}]
  <1>0. T
    BY DEF LinkTypeOK
  <1> USE DEF handshake, traffic
  <1> DEFINE Still == UNCHANGED <<wire, sent, delivered, closeCode>>
  <1>1. Still => WireStep(x)
    BY DEF WireStep, Untouched, Settled
  \* The request ends: the client gets nothing, the server a FIN.
  <1>2. ASSUME opening \in {"request", "answered"}, ready' = [ready EXCEPT !["client"] = "CLOSING"]
                   \/ ready' = [ready EXCEPT !["client"] = "CLOSED"],
               wire' = [e \in End |-> IF opening = "answered" /\ ~cut /\ e = "server"
                                      THEN Append(wire[e], Signal("fin")) ELSE << >>],
               opening' \in {"done", "aborted"},
               UNCHANGED <<stream, cut, sent, delivered, closeCode>>
        PROVE  WireStep(x)
    <2>1. stream["client"] = "none" /\ (opening = "request" => stream["server"] = "none")
          /\ ready["client"] = "CONNECTING"
      BY <1>2 DEF EndsOK, OpeningOK, EndOK, End
    <2>2. ASSUME NEW e \in End, wire'[e] = << >>, ~Takes(e)' PROVE WireStep(e)
      <3>1. << >> = SubSeq(wire[e], 1, 0) /\ 0 \in 0 .. Len(wire[e])
        BY <1>0, SubSeqEmpty
      <3> QED BY <1>2, <2>2, <3>1 DEF WireStep, Shortened, Settled
    <2>3. CASE x = "client"
      <3>1. ~Takes(x)' /\ wire'[x] = << >>
        BY <1>2, <2>1, <2>3 DEF Takes, Alive, End
      <3> QED BY <2>2, <3>1
    <2>4. CASE x = "server" /\ ~(opening = "answered" /\ ~cut)
      <3>1. ~Takes(x)' /\ wire'[x] = << >>
        BY <1>2, <2>1, <2>4 DEF Takes, Alive, End
      <3> QED BY <2>2, <3>1
    <2>5. CASE x = "server" /\ opening = "answered" /\ ~cut
      <3>1. wire'[x] = Append(wire[x], Signal("fin"))
        BY <1>2, <2>5
      <3>2. Adds(x, Signal("fin"))
        BY <1>0, <1>2, <2>1, <2>5, <3>1, FrameMakes DEF Adds, Settled, Other, End
      <3> QED BY <3>2, FrameMakes DEF WireStep
    <2> QED BY <2>3, <2>4, <2>5 DEF End
  <1>3. CASE Accept \/ Upgraded
    BY <1>1, <1>3 DEF Accept, Upgraded
  <1>4. CASE RequestFails
    BY <1>2, <1>4 DEF RequestFails
  <1>5. ASSUME AbortRequest, opening \in {"request", "answered"} PROVE WireStep(x)
    BY <1>2, <1>5 DEF AbortRequest
  <1>6. CASE Aborted
    BY <1>1, <1>6 DEF Aborted
  \* The queue from e, if the queue to e is not touched by what e writes.
  <1>7. ASSUME NEW e \in End, WireStep(e), WireStep(Other(e)) PROVE WireStep(x)
    BY <1>7, Ends
  <1>8. CASE Ping
    <2>1. /\ ready["server"] = "OPEN" /\ wire' = Put(wire, "server", Signal("ping"))
          /\ UNCHANGED <<sent, delivered, closeCode>>
      BY <1>8 DEF Ping
    <2>2. WireStep(Other("server"))
      BY <1>0, <1>8, <2>1, Growth, FrameMakes DEF Settled, End
    <2>3. WireStep("server")
      BY <1>0, <2>1, PutAt, FrameMakes DEF WireStep, Untouched, Settled, End
    <2> QED BY <1>7, <2>2, <2>3 DEF End
  <1>9. CASE Cut
    <2>1. wire'[x] = SubSeq(wire[x], 1, 0) /\ 0 \in 0 .. Len(wire[x])
      BY <1>0, <1>9, SubSeqEmpty DEF Cut
    <2> QED BY <1>9, <2>1 DEF Cut, WireStep, Shortened, Settled, Takes
  <1>10. ASSUME NEW e \in End, Send(e) PROVE WireStep(x)
    <2>1. PICK f \in WireFrame :
              /\ wire' = Put(wire, e, f) /\ ready[e] = "OPEN" /\ sent[e] < MaxSent[e]
              /\ \/ sent' = [sent EXCEPT ![e] = @ + 1] /\ f = Message(sent'[e])
                 \/ sent' = [sent EXCEPT ![e] = MaxSent[e]] /\ f = Signal("oversized")
              /\ UNCHANGED <<delivered, closeCode>>
      <3>1. sent[e] + 1 \in Numbers
        <4>1. MaxSent["client"] \in Nat /\ MaxSent["server"] \in Nat /\ MaxSent[e] \in Nat
          BY MaxAssumption DEF End
        <4>2. sent[e] \in Nat /\ sent[e] < MaxSent[e]
          <5>1. sent[e] \in Numbers \cup {0}
            BY <1>0
          <5>2. sent[e] \in Nat
            BY <5>1, NumbersAreNat
          <5>3. sent[e] < MaxSent[e]
            BY <1>10, Zenon DEF Send
          <5> QED BY <5>2, <5>3
        <4>3. MaxSent[e] <= MaxSent["client"] + MaxSent["server"]
          BY <4>1 DEF End
        <4>4. \A s, m, n \in Nat : s < m /\ m <= n => s + 1 \in 1 .. n
          OBVIOUS
        <4>5. MaxSent["client"] + MaxSent["server"] \in Nat
          BY <4>1
        <4>6. sent[e] + 1 \in 1 .. MaxSent["client"] + MaxSent["server"]
          BY <4>1, <4>2, <4>3, <4>4, <4>5
        <4> QED BY <4>6 DEF Numbers
      <3>2. Message(sent[e] + 1) \in WireFrame /\ Signal("oversized") \in WireFrame
        BY <3>1, FrameMakes
      <3>3. sent' = [sent EXCEPT ![e] = @ + 1] => sent'[e] = sent[e] + 1
        BY <1>0
      <3> QED BY <1>10, <3>2, <3>3 DEF Send
    <2>2. /\ wire'[e] = wire[e]
          /\ wire'[Other(e)] = IF Takes(Other(e)) THEN Append(wire[Other(e)], f) ELSE wire[Other(e)]
      <3>1. /\ Put(wire, e, f)[e] = wire[e]
            /\ Put(wire, e, f)[Other(e)] =
                   IF Takes(Other(e)) THEN Append(wire[Other(e)], f) ELSE wire[Other(e)]
        BY <1>0, PutAt
      <3>2. wire' = Put(wire, e, f)
        BY <2>1
      <3> QED BY <3>1, <3>2, Zenon
    <2>3. WireStep(e)
      BY <1>0, <2>1, <2>2, Ends DEF WireStep, Untouched, Settled
    <2>4. Sends(Other(e), f)
      BY <1>0, <2>1, <2>2, Ends DEF Sends
    <2>5. WireStep(Other(e))
      BY <2>4 DEF WireStep
    <2> QED BY <1>7, <2>3, <2>5
  \* A close frame is handed over.
  <1>11. ASSUME NEW e \in End, NEW c \in Code \cup {NoStatus, TooBig}, ready[e] = "OPEN", StartClose(e, c),
                UNCHANGED <<sent, delivered, closeCode>>
         PROVE  WireStep(x)
    <2>1. CloseFrame(c) \in WireFrame /\ CloseFrame(c).type = "close"
      BY FrameMakes
    <2>2. frameSent'[e] # "no"
      BY <1>0, <1>11 DEF StartClose
    <2>3. WireStep(e)
      BY <1>0, <1>11, <2>1, PutAt DEF StartClose, WireStep, Untouched, Settled
    <2>4. WireStep(Other(e))
      BY <1>0, <1>11, <2>1, <2>2, Growth DEF StartClose, Settled
    <2> QED BY <1>7, <2>3, <2>4
  \* The socket is ended.
  <1>12. ASSUME NEW e \in End, stream' = Ended(e), wire' = WithFin(wire, e), ready[e] = "CLOSING",
                UNCHANGED <<ready, sent, delivered, closeCode>>
         PROVE  WireStep(x)
    <2>1. stream'[e] # "open"
      BY <1>0, <1>12 DEF Ended
    <2>2. WireStep(e)
      BY <1>0, <1>12, FinAt DEF WireStep, Untouched, Settled
    <2>3. WireStep(Other(e))
      BY <1>0, <1>12, <2>1, Farewell DEF Settled
    <2> QED BY <1>7, <2>2, <2>3
  <1>13. ASSUME NEW e \in End, NEW c \in Code \cup {NoStatus}, Close(e, c) PROVE WireStep(x)
    <2>1. CASE e = "client" /\ ready[e] = "CONNECTING" /\ AbortRequest
      BY <1>5, <2>1 DEF EndsOK, OpeningOK
    <2>2. CASE ready[e] = "OPEN" /\ StartClose(e, c) /\ UNCHANGED <<traffic, closeCode>>
      BY <1>11, <2>2
    <2>3. CASE /\ ready[e] = "CLOSING" /\ stream' = Ended(e) /\ wire' = WithFin(wire, e)
               /\ UNCHANGED <<ready, traffic, closeCode>>
      BY <1>12, <2>3
    <2> QED BY <1>13, <2>1, <2>2, <2>3 DEF Close
  <1>14. ASSUME NEW e \in End, Terminate(e) PROVE WireStep(x)
    <2>1. CASE e = "client" /\ ready[e] = "CONNECTING" /\ AbortRequest
      BY <1>5, <2>1 DEF EndsOK, OpeningOK
    <2>2. CASE /\ Alive(e) /\ ready' = [ready EXCEPT ![e] = "CLOSING"]
               /\ \E k \in 0 .. Len(wire[e]) : Destroy(e, k)
               /\ UNCHANGED <<opening, traffic, closeCode>>
      <3>1. ready'[e] = "CLOSING"
        BY <1>0, <2>2
      <3> QED BY <2>2, <3>1, Destruction
    <2> QED BY <1>14, <2>1, <2>2 DEF Terminate
  <1>15. ASSUME NEW e \in End, Pause(e) \/ Resume(e) PROVE WireStep(x)
    BY <1>1, <1>15 DEF Pause, Resume
  <1>16. ASSUME NEW e \in End, ReceiverFinishes(e) PROVE WireStep(x)
    BY <1>1, <1>16 DEF ReceiverFinishes
  <1>17. ASSUME NEW e \in End, ReceiverFails(e) PROVE WireStep(x)
    BY <1>1, <1>11, <1>12, <1>17 DEF ReceiverFails
  <1>18. ASSUME NEW e \in End, FrameWritten(e) PROVE WireStep(x)
    <2>1. ready[e] = "CLOSING"
      BY <1>18 DEF FrameWritten, EndsOK, EndOK, OpenMeansWritable
    <2> QED BY <1>1, <1>12, <1>18, <2>1 DEF FrameWritten
  <1>19. ASSUME NEW e \in End, SocketError(e) PROVE WireStep(x)
    <2>1. ready'[e] = "CLOSING"
      BY <1>0, <1>19 DEF SocketError
    <2> QED BY <1>19, <2>1, Destruction DEF SocketError
  <1>20. ASSUME NEW e \in End, CloseTimerFires(e) PROVE WireStep(x)
    <2>1. ready'[e] = "CLOSING"
      BY <1>20 DEF CloseTimerFires, EndsOK, EndOK
    <2>2. CASE Alive(e)
      BY <1>20, <2>1, <2>2, Destruction DEF CloseTimerFires
    <2>3. CASE ~Alive(e)
      BY <1>1, <1>20, <2>3 DEF CloseTimerFires
    <2> QED BY <2>2, <2>3
  <1>21. ASSUME NEW e \in End, SocketOnClose(e) PROVE WireStep(x)
    <2>1. WireStep(e)
      BY <1>21 DEF WireStep
    <2>2. Untouched(Other(e))
      BY <1>0, <1>21, Ends DEF SocketOnClose, Concluded, Untouched, Settled
    <2> QED BY <1>7, <2>1, <2>2 DEF WireStep
  <1>22. CASE UNCHANGED linkVars
    BY <1>1, <1>22 DEF linkVars
  <1>23. ASSUME NEW e \in End, Read(e) PROVE WireStep(x)
    <2> DEFINE f == wire[e][1]
    <2>1. /\ wire[e] # << >> /\ Alive(e) /\ f \in WireFrame /\ f = Arriving(e)
          /\ Consumed(e) \in [End -> Seq(WireFrame)]
          /\ Consumed(e)[e] = Tail(wire[e]) /\ Consumed(e)[Other(e)] = wire[Other(e)]
      <3>1. wire[e] # << >> /\ Alive(e)
        BY <1>23 DEF Read, ReadFrame, ReadClose, ReadOversized, ReadFin, Reads
      <3> QED BY <1>0, <3>1, ConsumedAt
    <2> HIDE DEF f
    <2>2. ASSUME Takes1(e) PROVE WireStep(e)
      BY <2>2 DEF WireStep
    <2>3. ASSUME wire' = Consumed(e), Settled(Other(e)) PROVE WireStep(Other(e))
      BY <2>1, <2>3 DEF WireStep, Untouched
    <2>4. CASE ReadFrame(e)
      <3>1. UNCHANGED <<sent, closeCode, frameRecv, receiver, ready, frameSent>> /\ f.type \in {"message", "ping", "pong"}
        BY <1>0, <2>1, <2>4 DEF ReadFrame, Reads
      <3>2. delivered' = IF f.type = "message" /\ Listening(e)
                         THEN [delivered EXCEPT ![e] = Append(@, f.value)] ELSE delivered
        BY <1>0, <2>1, <2>4 DEF ReadFrame, Reads
      <3>3. delivered'[Other(e)] = delivered[Other(e)]
            /\ delivered'[e] = IF f.type = "message" /\ Listening(e) THEN Append(delivered[e], f.value)
                                                                     ELSE delivered[e]
        BY <1>0, <3>2, Ends
      <3>4. wire' = Consumed(e) \/ (ready[e] = "OPEN" /\ wire' = Put(Consumed(e), e, Signal("pong")))
        BY <2>4 DEF ReadFrame, AnsweredPings
      <3>5. wire'[e] = Tail(wire[e])
        <4>0. Signal("pong") \in WireFrame
          BY FrameMakes
        <4>1. Put(Consumed(e), e, Signal("pong"))[e] = Consumed(e)[e]
          BY <2>1, <4>0, PutAt, Zenon
        <4> QED BY <2>1, <3>4, <4>1
      <3>6. Takes1(e)
        BY <2>1, <3>1, <3>3, <3>5 DEF Takes1, f
      <3>7. WireStep(Other(e))
        <4>1. Settled(Other(e))
          BY <3>1, <3>3 DEF Settled
        <4>2. CASE wire' = Consumed(e)
          BY <2>3, <4>1, <4>2
        <4>3. CASE ready[e] = "OPEN" /\ wire' = Put(Consumed(e), e, Signal("pong"))
          BY <1>0, <2>1, <2>4, <4>1, <4>3, Growth, FrameMakes
        <4> QED BY <3>4, <4>2, <4>3
      <3> QED BY <1>7, <2>2, <3>6, <3>7
    <2>5. CASE ReadClose(e)
      <3>1. /\ UNCHANGED <<sent, delivered>> /\ f.type = "close"
            /\ closeCode'[Other(e)] = closeCode[Other(e)]
            /\ IF Listening(e) THEN frameRecv'[e] /\ closeCode'[e] = f.value
                               ELSE closeCode'[e] = closeCode[e]
        BY <1>0, <2>1, <2>5, Ends DEF ReadClose, Reads, Concluded
      <3>2. \/ wire' = Consumed(e)
            \/ /\ ready[e] = "OPEN" /\ wire' = Put(Consumed(e), e, CloseFrame(f.value))
               /\ frameSent'[e] # "no"
            \/ ready[e] = "CLOSING" /\ wire' = WithFin(Consumed(e), e) /\ stream'[e] # "open"
                   /\ ready'[e] = "CLOSING"
        BY <1>0, <2>1, <2>5 DEF ReadClose, Ended, Echo
      <3>3. CloseFrame(f.value) \in WireFrame /\ CloseFrame(f.value).type = "close"
        BY <2>1, <3>1, FrameType, FrameMakes
      <3>4. wire'[e] = Tail(wire[e])
        <4>1. Put(Consumed(e), e, CloseFrame(f.value))[e] = Consumed(e)[e]
          BY <2>1, <3>3, PutAt
        <4>2. WithFin(Consumed(e), e)[e] = Consumed(e)[e]
          BY <2>1, FinAt
        <4> QED BY <2>1, <3>2, <4>1, <4>2
      <3>5. Takes1(e)
        BY <2>1, <3>1, <3>4 DEF Takes1, f
      <3>6. WireStep(Other(e))
        <4>1. Settled(Other(e))
          BY <3>1 DEF Settled
        <4>2. CASE wire' = Consumed(e)
          BY <2>3, <4>1, <4>2
        <4>3. CASE ready[e] = "OPEN" /\ wire' = Put(Consumed(e), e, CloseFrame(f.value)) /\ frameSent'[e] # "no"
          BY <1>0, <2>1, <3>3, <4>1, <4>3, Growth
        <4>4. CASE wire' = WithFin(Consumed(e), e) /\ stream'[e] # "open" /\ ready'[e] = "CLOSING"
          BY <1>0, <2>1, <4>1, <4>4, Farewell
        <4> QED BY <3>2, <4>2, <4>3, <4>4
      <3> QED BY <1>7, <2>2, <3>5, <3>6
    <2>6. CASE ReadOversized(e)
      <3>1. /\ UNCHANGED <<sent, delivered, closeCode>> /\ f.type = "oversized" /\ wire' = Consumed(e)
            /\ ~Listening(e)'
        BY <1>0, <2>1, <2>6 DEF ReadOversized, Reads, Listening
      <3>2. Takes1(e)
        BY <2>1, <3>1 DEF Takes1, f
      <3> QED BY <1>7, <2>2, <2>3, <3>1, <3>2 DEF Settled
    <2>7. CASE ReadFin(e)
      <3>1. /\ UNCHANGED <<sent, delivered, closeCode>> /\ f.type = "fin"
            /\ wire' = WithFin(Consumed(e), e) /\ stream'[e] # "open" /\ ready'[e] = "CLOSING"
        BY <1>0, <2>1, <2>7 DEF ReadFin, Reads, Ended
      <3>2. wire'[e] = Tail(wire[e])
        BY <2>1, <3>1, FinAt
      <3>3. Takes1(e)
        BY <2>1, <3>1, <3>2 DEF Takes1, f
      <3>4. WireStep(Other(e))
        BY <1>0, <2>1, <3>1, Farewell DEF Settled
      <3> QED BY <1>7, <2>2, <3>3, <3>4
    <2> QED BY <1>23, <2>4, <2>5, <2>6, <2>7 DEF Read
  <1> QED BY <1>3, <1>4, <1>5, <1>6, <1>8, <1>9, <1>10, <1>13, <1>14, <1>15, <1>16, <1>17,
             <1>18, <1>19, <1>20, <1>21, <1>22, <1>23 DEF LinkNext, Refused, Tick

-----------------------------------------------------------------------------
(* What is under way, after each kind of step.                             *)

LEMMA NothingBefore ==
    ASSUME NEW w, NEW k, NEW d \in Nat, NEW n \in Nat, n <= d
    PROVE  AllBefore(w, k, d, n)
  <1>1. d + 1 .. n = {}
    OBVIOUS
  <1> QED BY <1>1 DEF AllBefore

LEMMA FlowStays ==
    ASSUME NEW w, NEW d \in Nat, NEW n \in Nat, NEW t \in BOOLEAN, NEW u \in BOOLEAN,
           FlowsAt(w, d, n, t), u => t \/ n = 0
    PROVE  FlowsAt(w, d, n, u)
  <1>1. n = 0 => AllBefore(w, Len(w) + 1, d, n)
    BY NothingBefore
  <1> QED BY <1>1 DEF FlowsAt

LEMMA FlowShortens ==
    ASSUME NEW w \in Seq(WireFrame), NEW d \in Nat, NEW n \in Nat, NEW t \in BOOLEAN,
           FlowsAt(w, d, n, t), NEW k \in 0 .. Len(w)
    PROVE  FlowsAt(SubSeq(w, 1, k), d, n, FALSE)
  <1> DEFINE v == SubSeq(w, 1, k)
  <1>1. InOrder(v, d, n)
    BY PrefixInOrder DEF FlowsAt
  <1>2. Len(v) = k /\ \A i \in 1 .. k : v[i] = w[i]
    BY QueuePrefix
  <1>3. ASSUME NEW i \in 1 .. Len(v), v[i].type = "close" PROVE AllBefore(v, i, d, n)
    <2>1. i \in 1 .. Len(w) /\ w[i].type = "close" /\ i \in Int /\ i <= k + 1
      BY <1>2, <1>3
    <2>2. AllBefore(w, i, d, n)
      BY <2>1 DEF FlowsAt
    <2> QED BY <2>1, <2>2, BeforePrefix
  <1> QED BY <1>1, <1>3 DEF FlowsAt

LEMMA FlowAdds ==
    ASSUME NEW w \in Seq(WireFrame), NEW d \in Nat, NEW n \in Nat, NEW t \in BOOLEAN, NEW u \in BOOLEAN,
           FlowsAt(w, d, n, t), u => t \/ n = 0,
           NEW f \in WireFrame, f.type \in {"close", "ping", "pong", "fin"}, f.type = "close" => t
    PROVE  FlowsAt(Append(w, f), d, n, u)
  <1> DEFINE v == Append(w, f)
  <1>1. InOrder(v, d, n)
    BY AppendsInOrder DEF FlowsAt
  <1>2. /\ Len(v) = Len(w) + 1 /\ Len(w) \in Nat
        /\ \A i \in 1 .. Len(w) : v[i] = w[i]
        /\ v[Len(w) + 1] = f
    BY QueueAppends
  <1>3. ASSUME NEW k \in Int, NEW l \in Int, k <= l, AllBefore(w, k, d, n) PROVE AllBefore(v, l, d, n)
    BY <1>3, BeforeAppend
  <1> HIDE DEF v
  <1>4. ASSUME NEW i \in 1 .. Len(v), v[i].type = "close" PROVE AllBefore(v, i, d, n)
    <2>1. CASE i \in 1 .. Len(w)
      BY <1>2, <1>3, <1>4, <2>1 DEF FlowsAt
    <2>2. CASE i = Len(w) + 1
      BY <1>2, <1>3, <1>4, <2>2 DEF FlowsAt
    <2> QED BY <1>2, <2>1, <2>2
  <1>5. u => AllBefore(v, Len(v) + 1, d, n)
    <2>1. CASE n = 0
      BY <2>1, NothingBefore
    <2>2. CASE t
      <3>1. AllBefore(w, Len(w) + 1, d, n) /\ Len(w) + 1 <= Len(v) + 1
        BY <1>2, <2>2 DEF FlowsAt
      <3> QED BY <1>2, <1>3, <3>1
    <2> QED BY <2>1, <2>2
  <1>6. FlowsAt(v, d, n, u)
    BY <1>1, <1>4, <1>5 DEF FlowsAt, v
  <1> QED BY <1>6 DEF v

LEMMA InOrderMore ==
    ASSUME NEW w, NEW d \in Nat, NEW n \in Nat, NEW m \in Nat, n <= m, InOrder(w, d, n)
    PROVE  InOrder(w, d, m)
  <1>1. \A i \in Messages(w) : w[i].value \in d + 1 .. m
    BY DEF InOrder
  <1> QED BY <1>1 DEF InOrder

\* A message that does not arrive, or one that is too large.
LEMMA FlowLoses ==
    ASSUME NEW w \in Seq(WireFrame), NEW d \in Nat, NEW n \in Nat, NEW m \in Nat, n <= m,
           NEW t \in BOOLEAN, FlowsAt(w, d, n, t),
           \A i \in 1 .. Len(w) : w[i].type # "close"
    PROVE  FlowsAt(w, d, m, FALSE) /\ FlowsAt(Append(w, Signal("oversized")), d, m, t)
  <1> DEFINE f == Signal("oversized")  v == Append(w, f)
  <1>1. InOrder(w, d, m)
    BY InOrderMore DEF FlowsAt
  <1>2. FlowsAt(w, d, m, FALSE)
    BY <1>1 DEF FlowsAt
  <1>3. f \in WireFrame /\ f.type = "oversized"
    BY FrameMakes
  <1> HIDE DEF f
  <1>4. InOrder(v, d, m)
    BY <1>1, <1>3, AppendsInOrder
  <1>5. /\ Len(v) = Len(w) + 1 /\ Len(w) \in Nat
        /\ \A i \in 1 .. Len(w) : v[i] = w[i]
        /\ v[Len(w) + 1] = f
    BY <1>3, QueueAppends
  <1> HIDE DEF v
  <1>6. \A i \in 1 .. Len(v) : v[i].type # "close"
    BY <1>3, <1>5
  <1>7. AllBefore(v, Len(v) + 1, d, m)
    <2>1. Len(w) + 1 \in 1 .. Len(v) /\ Len(w) + 1 < Len(v) + 1
      BY <1>5
    <2> QED BY <1>3, <1>5, <2>1 DEF AllBefore
  <1>8. FlowsAt(v, d, m, t)
    BY <1>4, <1>6, <1>7 DEF FlowsAt
  <1> QED BY <1>2, <1>8 DEF v, f

LEMMA FlowSends ==
    ASSUME NEW w \in Seq(WireFrame), NEW d \in Nat, NEW n \in Nat, d <= n, n + 1 \in Numbers,
           FlowsAt(w, d, n, TRUE),
           \A i \in 1 .. Len(w) : w[i].type \notin {"close", "oversized"}
    PROVE  FlowsAt(Append(w, Message(n + 1)), d, n + 1, TRUE)
  <1> DEFINE f == Message(n + 1)  v == Append(w, f)
  <1>1. f \in WireFrame /\ f.type = "message"
    BY FrameMakes
  <1>2. \A m \in d + 1 .. n : \E i \in Messages(w) : w[i].value = m
    BY DEF FlowsAt, AllBefore
  <1>3. InOrder(v, d, n + 1)
    BY <1>2, MessageInOrder DEF FlowsAt
  <1>4. AllBefore(v, Len(w) + 2, d, n + 1)
    BY <1>2, BeforeMessage
  <1>5. /\ Len(v) = Len(w) + 1 /\ Len(w) \in Nat
        /\ \A i \in 1 .. Len(w) : v[i] = w[i]
        /\ v[Len(w) + 1] = f
    BY <1>1, QueueAppends
  <1> HIDE DEF v, f
  <1>6. \A i \in 1 .. Len(v) : v[i].type # "close"
    BY <1>1, <1>5
  <1>7. Len(v) + 1 = Len(w) + 2
    BY <1>5
  <1>8. FlowsAt(v, d, n + 1, TRUE)
    BY <1>3, <1>4, <1>6, <1>7 DEF FlowsAt
  <1> QED BY <1>8 DEF v, f

LEMMA FlowTaken ==
    ASSUME NEW w \in Seq(WireFrame), w # << >>, NEW d \in Nat, NEW n \in Nat,
           NEW t \in BOOLEAN, NEW u \in BOOLEAN, FlowsAt(w, d, n, t), u => t \/ n = 0,
           w[1].type # "oversized"
    PROVE  FlowsAt(Tail(w), IF w[1].type = "message" THEN d + 1 ELSE d, n, u)
  <1> DEFINE v == Tail(w)
             c == IF w[1].type = "message" THEN d + 1 ELSE d
  <1>1. InOrder(v, c, n)
    BY TailInOrder DEF FlowsAt
  <1>2. Len(v) = Len(w) - 1 /\ Len(w) \in Nat /\ \A i \in 1 .. Len(w) - 1 : v[i] = w[i + 1]
    BY QueueTail
  <1>3. ASSUME NEW k \in Int, AllBefore(w, k + 1, d, n) PROVE AllBefore(v, k, c, n)
    <2>1. k + 1 - 1 = k /\ k + 1 \in Int
      OBVIOUS
    <2> QED BY <1>3, <2>1, BeforeTail DEF FlowsAt
  <1> HIDE DEF v
  <1>4. ASSUME NEW i \in 1 .. Len(v), v[i].type = "close" PROVE AllBefore(v, i, c, n)
    <2>1. i + 1 \in 1 .. Len(w) /\ w[i + 1].type = "close" /\ i \in Int
      BY <1>2, <1>4
    <2> QED BY <1>3, <2>1 DEF FlowsAt
  <1>5. u => AllBefore(v, Len(v) + 1, c, n)
    <2>1. CASE n = 0
      BY <2>1, NothingBefore
    <2>2. CASE t
      <3>1. AllBefore(w, Len(v) + 1 + 1, d, n) /\ Len(v) + 1 \in Int
        BY <1>2, <2>2 DEF FlowsAt
      <3> QED BY <1>3, <3>1
    <2> QED BY <2>1, <2>2
  <1> HIDE DEF c
  <1>6. FlowsAt(v, c, n, u)
    BY <1>1, <1>4, <1>5 DEF FlowsAt
  <1> QED BY <1>6 DEF v, c

\* Of a set of numbers there is a smallest.
LEMMA LeastOf ==
    ASSUME NEW T \in SUBSET Nat, T # {}
    PROVE  \E m \in T : \A k \in T : m <= k
  <1> DEFINE R == OpToRel(<, Nat)
  <1>1. \A x, y \in Nat : x < y => <<x, y>> \in R
    BY DEF OpToRel
  <1>2. IsWellFoundedOn(R, Nat)
    BY NatLessThanWellFounded
  <1> HIDE DEF R
  <1>3. PICK m \in T : \A k \in T : <<k, m>> \notin R
    BY <1>2, WFMin
  <1>4. \A k \in T : ~(k < m)
    BY <1>1, <1>3
  <1>5. ASSUME NEW k \in T PROVE m <= k
    <2>1. m \in Nat /\ k \in Nat
      OBVIOUS
    <2> QED BY <1>4, <2>1
  <1> QED BY <1>5

\* What a paused socket had read ahead, up to the first frame that stops.
LEMMA LeftoverIs ==
    ASSUME LinkTypeOK, NEW x \in End
    PROVE  \E i \in 1 .. Len(wire[x]) + 1 :
               /\ Leftover(x).frames = SubSeq(wire[x], 1, i - 1)
               /\ \A j \in 1 .. i - 1 : wire[x][j].type # "oversized"
               /\ Leftover(x).stop.type = "close" =>
                      i \in 1 .. Len(wire[x]) /\ Leftover(x).stop = wire[x][i]
  <1> DEFINE w == wire[x]
             stops == {i \in 1 .. Len(w) : w[i].type \in {"close", "oversized", "fin"}}
  <1>1. w \in Seq(WireFrame) /\ Len(w) \in Nat
    BY DEF LinkTypeOK
  <1>2. CASE stops = {}
    <2>1. Leftover(x) = [frames |-> w, stop |-> Signal("fin")]
      BY <1>2 DEF Leftover
    <2>2. w = SubSeq(w, 1, Len(w) + 1 - 1) /\ Len(w) + 1 \in 1 .. Len(w) + 1
      BY <1>1, SubSeqFull
    <2>3. \A j \in 1 .. Len(w) + 1 - 1 : w[j].type # "oversized"
      BY <1>1, <1>2
    <2>4. Signal("fin").type # "close"
      BY FrameMakes
    <2> HIDE DEF w
    <2> QED BY <2>1, <2>2, <2>3, <2>4 DEF w
  <1>3. CASE stops # {}
    <2> DEFINE i == CHOOSE j \in stops : \A k \in stops : j <= k
    <2>1. i \in stops /\ \A k \in stops : i <= k
      <3>1. stops \in SUBSET Nat
        BY <1>1
      <3> HIDE DEF stops
      <3> QED BY <1>3, <3>1, LeastOf
    <2>2. Leftover(x) = [frames |-> SubSeq(w, 1, i - 1), stop |-> w[i]]
      BY <1>3 DEF Leftover
    <2> HIDE DEF i
    <2>3. i \in 1 .. Len(w) /\ i \in 1 .. Len(w) + 1
      BY <1>1, <2>1
    <2>4. \A j \in 1 .. i - 1 : w[j].type # "oversized"
      <3> SUFFICES ASSUME NEW j \in 1 .. i - 1, w[j].type = "oversized" PROVE FALSE
        OBVIOUS
      <3>1. j \in stops
        BY <1>1, <2>3
      <3> QED BY <2>1, <2>3, <3>1
    <2>5. Leftover(x).frames = SubSeq(w, 1, i - 1) /\ Leftover(x).stop = w[i]
      <3> DEFINE a == SubSeq(w, 1, i - 1)  b == w[i]
      <3>1. Leftover(x) = [frames |-> a, stop |-> b]
        BY <2>2
      <3> HIDE DEF a, b
      <3>2. Leftover(x).frames = a /\ Leftover(x).stop = b
        BY <3>1
      <3> QED BY <3>2 DEF a, b
    <2> HIDE DEF w
    <2> DEFINE StopsAt(j) ==
                   /\ Leftover(x).frames = SubSeq(w, 1, j - 1)
                   /\ \A k \in 1 .. j - 1 : w[k].type # "oversized"
                   /\ Leftover(x).stop.type = "close" => j \in 1 .. Len(w) /\ Leftover(x).stop = w[j]
    <2>6. StopsAt(i)
      BY <2>3, <2>4, <2>5
    <2>7. \E j \in 1 .. Len(w) + 1 : StopsAt(j)
      <3> HIDE DEF StopsAt
      <3> QED BY <2>3, <2>6
    <2> QED BY <2>7 DEF w
  <1> QED BY <1>2, <1>3

\* What is read at once when the socket closes continues what was delivered; all
\* of it, if a close frame ends it.
LEMMA LeftoverFollows ==
    ASSUME LinkTypeOK, NEW x \in End, DeliveredOK(x), Flows(x)
    PROVE  LET d == Len(delivered[x])  n == sent[Other(x)]
           IN  \E c \in 0 .. n - d :
                   /\ delivered[x] \o Values(Leftover(x).frames) = [i \in 1 .. d + c |-> i]
                   /\ Leftover(x).stop.type = "close" => c = n - d
  <1> DEFINE w == wire[x]  d == Len(delivered[x])  n == sent[Other(x)]
  <1>1. w \in Seq(WireFrame) /\ Len(w) \in Nat /\ d \in Nat /\ n \in Nat /\ d <= n
    <2>1. n \in Numbers \cup {0} /\ delivered[x] \in Seq(Numbers) /\ w \in Seq(WireFrame)
      BY Ends DEF LinkTypeOK
    <2>2. n \in Nat
      BY <2>1, NumbersAreNat, Zenon
    <2>4. Len(w) \in Nat /\ d \in Nat
      BY <2>1
    <2>3. d <= n
      BY DEF DeliveredOK
    <2> QED BY <2>1, <2>2, <2>3, <2>4
  <1>2. PICK i \in 1 .. Len(w) + 1 :
            /\ Leftover(x).frames = SubSeq(w, 1, i - 1)
            /\ \A j \in 1 .. i - 1 : w[j].type # "oversized"
            /\ Leftover(x).stop.type = "close" => i \in 1 .. Len(w) /\ Leftover(x).stop = w[i]
    BY LeftoverIs
  <1> DEFINE v == SubSeq(w, 1, i - 1)
  <1>3. InOrder(w, d, n) /\ \A k \in 1 .. Len(w) : w[k].type = "close" => AllBefore(w, k, d, n)
    BY DEF Flows, FlowsAt
  <1>4. delivered[x] = [k \in 1 .. d |-> k]
    BY DEF DeliveredOK
  <1> HIDE DEF w, d, n
  <1>5. i - 1 \in 0 .. Len(w) /\ i \in Int
    BY <1>1
  <1>6. v \in Seq(WireFrame) /\ InOrder(v, d, n)
    <2>1. SubSeq(w, 1, i - 1) \in Seq(WireFrame)
      BY <1>1, <1>5, QueuePrefix
    <2>2. InOrder(SubSeq(w, 1, i - 1), d, n)
      BY <1>1, <1>3, <1>5, PrefixInOrder
    <2> QED BY <2>1, <2>2
  <1> HIDE DEF v
  <1>7. PICK c \in 0 .. n - d :
            /\ Values(v) = [k \in 1 .. c |-> d + k]
            /\ (\A m \in d + 1 .. n : \E k \in Messages(v) : v[k].value = m) => c = n - d
    BY <1>1, <1>6, ValuesFollow
  <1>8. Leftover(x).stop.type = "close" => c = n - d
    <2> SUFFICES ASSUME Leftover(x).stop.type = "close"
                 PROVE  \A m \in d + 1 .. n : \E k \in Messages(v) : v[k].value = m
      BY <1>7
    <2>1. AllBefore(w, i, d, n)
      BY <1>2, <1>3
    <2>2. \A j \in 1 .. Len(w) : j < i => w[j].type # "oversized"
      BY <1>1, <1>2
    <2>3. \A m \in d + 1 .. n : \E k \in Messages(w) : k < i /\ w[k].value = m
      BY <2>1, <2>2 DEF AllBefore
    <2>4. /\ Messages(v) = {k \in Messages(w) : k <= i - 1}
          /\ \A k \in 1 .. i - 1 : v[k] = w[k]
      BY <1>1, <1>5, MessagesOfPrefix, QueuePrefix DEF v
    <2>5. Messages(w) \subseteq Nat \ {0}
      BY DEF Messages
    <2>6. ASSUME NEW k \in Messages(w), k < i PROVE k \in Messages(v) /\ v[k] = w[k]
      BY <1>5, <2>4, <2>5, <2>6
    <2> QED BY <2>3, <2>6
  <1>9. delivered[x] \o Values(v) = [k \in 1 .. d + c |-> k]
    <2>1. c \in Nat
      BY <1>1
    <2> QED BY <1>1, <1>4, <1>7, <2>1, NumbersJoin
  <1>10. Leftover(x).frames = v
    BY <1>2 DEF v
  <1> QED BY <1>8, <1>9, <1>10 DEF d, n

-----------------------------------------------------------------------------
(* Ends only ever go on.                                                   *)

Down(e) == ready[e] \in {"CLOSING", "CLOSED"}

Onward(x) ==
    /\ Down(x) => Down(x)'
    /\ Down(x) /\ stream[x] # "open" => stream'[x] # "open"
    /\ frameSent[x] # "no" => frameSent'[x] # "no"
    /\ frameRecv[x] => frameRecv'[x]
    /\ Listening(x)' => Listening(x)
    /\ Takes(x)' => Takes(x) \/ sent'[Other(x)] = 0

LEMMA EndsGoOn ==
    ASSUME LinkTypeOK, EndsOK, [LinkNext]_linkVars, NEW x \in End
    PROVE  Onward(x)
  <1> DEFINE T == /\ ready \in [End -> {"CONNECTING", "OPEN", "CLOSING", "CLOSED"}]
                  /\ stream \in [End -> {"none", "open", "ended", "destroyed", "closed"}]
                  /\ frameSent \in [End -> {"no", "handed", "written"}]
                  /\ frameRecv \in [End -> BOOLEAN]
                  /\ receiver \in [End -> {"running", "erroring", "errored", "ending", "finished"}]
                  /\ opening \in {"request", "answered", "aborted", "done"} /\ cut \in BOOLEAN
  <1>0. T
    BY DEF LinkTypeOK
  <1> USE DEF Onward, Down, Listening, Takes, Alive, handshake, traffic
  <1>1. ASSUME UNCHANGED <<opening, ready, stream, cut, frameSent, frameRecv, receiver>> PROVE Onward(x)
    BY <1>0, <1>1
  <1>2. CASE Accept \/ Upgraded
    \* Nothing was sent to an end that comes up.
    <2>1. opening = "request" =>
              sent["client"] = 0 /\ sent["server"] = 0 /\ ready["server"] = "CONNECTING"
      BY DEF EndsOK, OpeningOK, EndOK, End
    <2>2. UNCHANGED sent
      BY <1>2 DEF Accept, Upgraded
    <2> QED BY <1>0, <1>2, <2>1, <2>2 DEF Accept, Upgraded, Established, Other, End
  <1>3. ASSUME AbortRequest \/ RequestFails PROVE Onward(x)
    BY <1>0, <1>3 DEF AbortRequest, RequestFails
  <1>4. CASE Aborted
    BY <1>0, <1>4 DEF Aborted
  <1>5. CASE Ping
    BY <1>1, <1>5 DEF Ping
  <1>6. CASE Cut
    BY <1>0, <1>6 DEF Cut
  <1>7. ASSUME NEW e \in End, Send(e) \/ Pause(e) \/ Resume(e) \/ ReadFrame(e) PROVE Onward(x)
    BY <1>1, <1>7 DEF Send, Pause, Resume, ReadFrame
  <1>8. ASSUME NEW e \in End, NEW c \in Code \cup {NoStatus}, Close(e, c) PROVE Onward(x)
    <2>1. CASE AbortRequest
      BY <1>3, <2>1
    <2>2. CASE StartClose(e, c) /\ UNCHANGED <<opening, stream, cut, frameRecv, receiver>>
      BY <1>0, <2>2 DEF StartClose
    <2>3. CASE stream' = Ended(e) /\ UNCHANGED <<opening, ready, cut, frameSent, frameRecv, receiver>>
      BY <1>0, <2>3 DEF Ended
    <2> QED BY <1>8, <2>1, <2>2, <2>3 DEF Close
  <1>9. ASSUME NEW e \in End, Terminate(e) PROVE Onward(x)
    BY <1>0, <1>3, <1>9 DEF Terminate, Destroy
  <1>10. ASSUME NEW e \in End, ReadClose(e) PROVE Onward(x)
    BY <1>0, <1>10 DEF ReadClose, Concluded, EndReceiver, Ended
  <1>11. ASSUME NEW e \in End, ReadOversized(e) PROVE Onward(x)
    BY <1>0, <1>11 DEF ReadOversized
  <1>12. ASSUME NEW e \in End, ReadFin(e) PROVE Onward(x)
    BY <1>0, <1>12 DEF ReadFin, EndReceiver, Ended
  <1>13. ASSUME NEW e \in End, ReceiverFails(e) PROVE Onward(x)
    BY <1>0, <1>13 DEF ReceiverFails, EmitClose, StartClose, Ended
  <1>14. ASSUME NEW e \in End, ReceiverFinishes(e) PROVE Onward(x)
    BY <1>0, <1>14 DEF ReceiverFinishes, EmitClose
  <1>15. ASSUME NEW e \in End, FrameWritten(e) PROVE Onward(x)
    BY <1>0, <1>15 DEF FrameWritten, Ended
  <1>16. ASSUME NEW e \in End, SocketError(e) PROVE Onward(x)
    BY <1>0, <1>16 DEF SocketError, Destroy
  <1>17. ASSUME NEW e \in End, CloseTimerFires(e) PROVE Onward(x)
    BY <1>0, <1>17 DEF CloseTimerFires, ClearTimer, Destroy
  <1>18. ASSUME NEW e \in End, SocketOnClose(e) PROVE Onward(x)
    BY <1>0, <1>18 DEF SocketOnClose, Concluded, EndReceiver, EmitClose
  <1>19. CASE UNCHANGED linkVars
    BY <1>1, <1>19 DEF linkVars
  <1> QED BY <1>2, <1>3, <1>4, <1>5, <1>6, <1>7, <1>8, <1>9, <1>10, <1>11, <1>12, <1>13,
             <1>14, <1>15, <1>16, <1>17, <1>18, <1>19 DEF LinkNext, Refused, Read, Tick

-----------------------------------------------------------------------------
(* The queues.                                                             *)

LEMMA QueueTypes ==
    ASSUME LinkTypeOK, NEW x \in End
    PROVE  /\ wire[x] \in Seq(WireFrame) /\ Len(wire[x]) \in Nat
           /\ delivered[x] \in Seq(Numbers) /\ Len(delivered[x]) \in Nat
           /\ sent[x] \in Nat /\ sent[Other(x)] \in Nat /\ MaxSent[x] \in Nat
           /\ Takes(x) \in BOOLEAN /\ Takes(x)' \in BOOLEAN
  <1>1. sent[x] \in Numbers \cup {0} /\ sent[Other(x)] \in Numbers \cup {0}
    BY Ends DEF LinkTypeOK
  <1>2. sent[x] \in Nat /\ sent[Other(x)] \in Nat
    BY <1>1, NumbersAreNat, Zenon
  <1>3. wire[x] \in Seq(WireFrame) /\ delivered[x] \in Seq(Numbers)
    BY DEF LinkTypeOK
  <1>4. Takes(x) \in BOOLEAN /\ Takes(x)' \in BOOLEAN
    BY DEF Takes
  <1>5. MaxSent[x] \in Nat
    BY MaxAssumption
  <1> QED BY <1>2, <1>3, <1>4, <1>5

WireOK(x) == FramesOK(x) /\ DeliveredOK(x) /\ (Listening(x) => Flows(x))

\* The wires agree if their frames, the deliveries and the flow of messages do.
LEMMA WireHolds ==
    ASSUME NEW x,
           /\ \A i \in 1 .. Len(wire'[x]) :
                 /\ wire'[x][i].type = "fin" =>
                        i = Len(wire'[x]) /\ Down(Other(x))' /\ stream'[Other(x)] # "open"
                 /\ wire'[x][i].type = "close" => frameSent'[Other(x)] # "no"
                 /\ wire'[x][i].type = "oversized" => sent'[Other(x)] = MaxSent[Other(x)]
           /\ Len(delivered'[x]) <= sent'[Other(x)]
           /\ delivered'[x] = [i \in 1 .. Len(delivered'[x]) |-> i]
           /\ closeCode'[x] # Abnormal =>
                  /\ frameRecv'[x] /\ frameSent'[Other(x)] # "no"
                  /\ Len(delivered'[x]) = sent'[Other(x)]
           /\ Listening(x)' => FlowsAt(wire'[x], Len(delivered'[x]), sent'[Other(x)], Takes(x)')
    PROVE  FramesOK(x)' /\ DeliveredOK(x)' /\ (Listening(x) => Flows(x))'
  <1>1. FramesOK(x)'
    BY DEF FramesOK, Down
  <1>2. DeliveredOK(x)'
    BY DEF DeliveredOK
  <1>3. (Listening(x) => Flows(x))'
    BY Zenon DEF Flows
  <1> QED BY <1>1, <1>2, <1>3

LEMMA WireUntouched ==
    ASSUME LinkTypeOK, NEW x \in End, WireOK(x), Onward(x), Onward(Other(x)), Untouched(x)
    PROVE  WireOK(x)'
  <1> DEFINE w == wire[x]  d == Len(delivered[x])  n == sent[Other(x)]  o == Other(x)
  <1>1. wire'[x] = w /\ delivered'[x] = delivered[x] /\ sent'[o] = n /\ closeCode'[x] = closeCode[x]
    BY DEF Untouched, Settled
  <1>2. Listening(x)' => FlowsAt(w, d, n, Takes(x)')
    <2> SUFFICES ASSUME Listening(x)' PROVE FlowsAt(w, d, n, Takes(x)')
      OBVIOUS
    <2>1. FlowsAt(w, d, n, Takes(x)) /\ (Takes(x)' => Takes(x) \/ n = 0)
      BY <1>1 DEF WireOK, Flows, Onward
    <2> HIDE DEF w, d, n
    <2>2. d \in Nat /\ n \in Nat /\ Takes(x) \in BOOLEAN /\ Takes(x)' \in BOOLEAN
      BY QueueTypes DEF d, n
    <2> QED BY <2>1, <2>2, FlowStays
  <1>3. \A i \in 1 .. Len(w) :
            /\ w[i].type = "fin" => i = Len(w) /\ Down(o)' /\ stream'[o] # "open"
            /\ w[i].type = "close" => frameSent'[o] # "no"
            /\ w[i].type = "oversized" => n = MaxSent[o]
    BY DEF WireOK, FramesOK, Onward, Down
  <1>4. closeCode[x] # Abnormal => frameRecv'[x] /\ frameSent'[o] # "no" /\ d = n
    BY DEF WireOK, DeliveredOK, Onward
  <1>5. d <= n /\ delivered[x] = [i \in 1 .. d |-> i]
    BY DEF WireOK, DeliveredOK
  <1>6. FramesOK(x)'
    BY <1>1, <1>3 DEF FramesOK, Down
  <1>7. DeliveredOK(x)'
    BY <1>1, <1>4, <1>5 DEF DeliveredOK
  <1>8. Listening(x)' => FlowsAt(wire'[x], Len(delivered'[x]), sent'[o], Takes(x)')
    BY <1>1, <1>2
  <1>9. (Listening(x) => Flows(x))'
    BY <1>8, Zenon DEF Flows
  <1> QED BY <1>6, <1>7, <1>9 DEF WireOK

LEMMA WireShortened ==
    ASSUME LinkTypeOK, NEW x \in End, WireOK(x), Onward(x), Onward(Other(x)), Shortened(x)
    PROVE  WireOK(x)'
  <1> DEFINE w == wire[x]  d == Len(delivered[x])  n == sent[Other(x)]  o == Other(x)
  <1>1. PICK k \in 0 .. Len(w) : wire'[x] = SubSeq(w, 1, k)
    BY DEF Shortened
  <1> DEFINE v == SubSeq(w, 1, k)
  <1>2. /\ delivered'[x] = delivered[x] /\ sent'[o] = n /\ closeCode'[x] = closeCode[x]
        /\ Takes(x)' = FALSE
    BY DEF Shortened, Settled, Takes
  <1>3. Len(v) = k /\ k \in Nat /\ k <= Len(w) /\ Len(w) \in Nat /\ \A i \in 1 .. k : v[i] = w[i]
    BY QueuePrefix, QueueTypes
  <1>4. Listening(x)' => FlowsAt(v, d, n, FALSE)
    <2> SUFFICES ASSUME Listening(x)' PROVE FlowsAt(v, d, n, FALSE)
      OBVIOUS
    <2>1. FlowsAt(w, d, n, Takes(x))
      BY DEF WireOK, Flows, Onward
    <2>2. w \in Seq(WireFrame) /\ d \in Nat /\ n \in Nat /\ Takes(x) \in BOOLEAN
      BY QueueTypes
    <2> HIDE DEF w, d, n
    <2> QED BY <2>1, <2>2, FlowShortens
  <1>5. \A i \in 1 .. Len(w) :
            /\ w[i].type = "fin" => i = Len(w) /\ Down(o)' /\ stream'[o] # "open"
            /\ w[i].type = "close" => frameSent'[o] # "no"
            /\ w[i].type = "oversized" => n = MaxSent[o]
    BY DEF WireOK, FramesOK, Onward, Down
  <1>6. closeCode[x] # Abnormal => frameRecv'[x] /\ frameSent'[o] # "no" /\ d = n
    BY DEF WireOK, DeliveredOK, Onward
  <1>7. d <= n /\ delivered[x] = [i \in 1 .. d |-> i]
    BY DEF WireOK, DeliveredOK
  <1> HIDE DEF v, w
  <1>8. \A i \in 1 .. Len(v) :
            /\ v[i].type = "fin" => i = Len(v) /\ Down(o)' /\ stream'[o] # "open"
            /\ v[i].type = "close" => frameSent'[o] # "no"
            /\ v[i].type = "oversized" => n = MaxSent[o]
    BY <1>3, <1>5
  <1>9. wire'[x] = v
    BY <1>1 DEF v, w
  <1> QED BY <1>2, <1>4, <1>6, <1>7, <1>8, <1>9, WireHolds DEF WireOK

LEMMA WireAdds ==
    ASSUME LinkTypeOK, EndsOK, NEW x \in End, WireOK(x), Onward(x), Onward(Other(x)),
           NEW f \in WireFrame, Adds(x, f)
    PROVE  WireOK(x)'
  <1> DEFINE w == wire[x]  d == Len(delivered[x])  n == sent[Other(x)]  o == Other(x)
             v == Append(w, f)
  <1>1. /\ delivered'[x] = delivered[x] /\ sent'[o] = n /\ closeCode'[x] = closeCode[x]
        /\ wire'[x] = v /\ f.type \in {"close", "ping", "pong", "fin"} /\ (f.type = "close" => Takes(x))
    BY DEF Adds, Settled
  <1>2. w \in Seq(WireFrame) /\ d \in Nat /\ n \in Nat /\ Takes(x) \in BOOLEAN /\ Takes(x)' \in BOOLEAN
    BY QueueTypes
  <1>3. /\ Len(v) = Len(w) + 1 /\ Len(w) \in Nat
        /\ \A i \in 1 .. Len(w) : v[i] = w[i]
        /\ v[Len(w) + 1] = f
    BY <1>2, QueueAppends
  <1>4. Listening(x)' => FlowsAt(v, d, n, Takes(x)')
    <2> SUFFICES ASSUME Listening(x)' PROVE FlowsAt(v, d, n, Takes(x)')
      OBVIOUS
    <2>1. FlowsAt(w, d, n, Takes(x)) /\ (Takes(x)' => Takes(x) \/ n = 0)
      BY <1>1 DEF WireOK, Flows, Onward
    <2> HIDE DEF w, d, n
    <2> QED BY <1>1, <1>2, <2>1, FlowAdds
  <1>5. \A i \in 1 .. Len(w) :
            /\ w[i].type = "fin" => i = Len(w) /\ Down(o) /\ stream[o] # "open"
            /\ w[i].type = "close" => frameSent'[o] # "no"
            /\ w[i].type = "oversized" => n = MaxSent[o]
    BY DEF WireOK, FramesOK, Onward, Down
  \* Who adds a frame has sent no FIN.
  <1>6. \A i \in 1 .. Len(w) : w[i].type # "fin"
    <2>1. ~Down(o) \/ stream[o] = "open"
      BY DEF Adds, Down
    <2> QED BY <1>5, <2>1
  <1>7. f.type = "fin" => Down(o)' /\ stream'[o] # "open"
    BY DEF Adds, Down
  <1>8. f.type = "close" => frameSent'[o] # "no"
    BY DEF Adds
  <1>9. closeCode[x] # Abnormal => frameRecv'[x] /\ frameSent'[o] # "no" /\ d = n
    BY DEF WireOK, DeliveredOK, Onward
  <1>10. d <= n /\ delivered[x] = [i \in 1 .. d |-> i]
    BY DEF WireOK, DeliveredOK
  <1> HIDE DEF v, w
  <1>11. \A i \in 1 .. Len(v) :
            /\ v[i].type = "fin" => i = Len(v) /\ Down(o)' /\ stream'[o] # "open"
            /\ v[i].type = "close" => frameSent'[o] # "no"
            /\ v[i].type = "oversized" => n = MaxSent[o]
    <2> SUFFICES ASSUME NEW i \in 1 .. Len(v)
                 PROVE  /\ v[i].type = "fin" => i = Len(v) /\ Down(o)' /\ stream'[o] # "open"
                        /\ v[i].type = "close" => frameSent'[o] # "no"
                        /\ v[i].type = "oversized" => n = MaxSent[o]
      OBVIOUS
    <2>1. CASE i \in 1 .. Len(w)
      BY <1>3, <1>5, <1>6, <2>1
    <2>2. CASE i = Len(w) + 1
      BY <1>1, <1>3, <1>7, <1>8, <2>2
    <2> QED BY <1>3, <2>1, <2>2
  <1> QED BY <1>1, <1>4, <1>9, <1>10, <1>11, WireHolds DEF WireOK

LEMMA WireSends ==
    ASSUME LinkTypeOK, EndsOK, SentOK, NEW x \in End, WireOK(x), Onward(x), Onward(Other(x)),
           NEW f \in WireFrame, Sends(x, f)
    PROVE  WireOK(x)'
  <1> DEFINE w == wire[x]  d == Len(delivered[x])  n == sent[Other(x)]  o == Other(x)
             m == sent'[Other(x)]  v == wire'[x]
  <1>1. /\ delivered'[x] = delivered[x] /\ closeCode'[x] = closeCode[x]
        /\ v = IF Takes(x) THEN Append(w, f) ELSE w
        /\ n < MaxSent[o] /\ ready[o] = "OPEN"
        /\ (m = n + 1 /\ f = Message(m)) \/ (m = MaxSent[o] /\ f = Signal("oversized"))
    BY DEF Sends
  <1>2. w \in Seq(WireFrame) /\ d \in Nat /\ n \in Nat /\ Takes(x) \in BOOLEAN /\ Takes(x)' \in BOOLEAN
        /\ MaxSent[o] \in Nat
    BY QueueTypes, Ends
  <1>3. m \in Nat /\ n < m
    BY <1>1, <1>2
  <1>4. /\ Len(Append(w, f)) = Len(w) + 1 /\ Len(w) \in Nat
        /\ \A i \in 1 .. Len(w) : Append(w, f)[i] = w[i]
        /\ Append(w, f)[Len(w) + 1] = f
    BY <1>2, QueueAppends
  \* Who is OPEN has sent neither a close frame nor a FIN nor too large a message.
  <1>5. \A i \in 1 .. Len(w) : w[i].type \notin {"fin", "close", "oversized"}
    <2>1. ~Down(o) /\ frameSent[o] = "no" /\ n # MaxSent[o]
      BY <1>1, <1>2, Ends DEF EndsOK, OpenMeansWritable, Down
    <2> QED BY <2>1 DEF WireOK, FramesOK, Down
  <1>6. d <= n /\ delivered[x] = [i \in 1 .. d |-> i]
    BY DEF WireOK, DeliveredOK
  <1>7. closeCode[x] = Abnormal
    <2>1. frameSent[o] = "no"
      BY <1>1, Ends DEF EndsOK, OpenMeansWritable
    <2> QED BY <2>1 DEF WireOK, DeliveredOK
  <1>8. Listening(x)' => FlowsAt(v, d, m, Takes(x)')
    <2> SUFFICES ASSUME Listening(x)' PROVE FlowsAt(v, d, m, Takes(x)')
      OBVIOUS
    <2>1. FlowsAt(w, d, n, Takes(x)) /\ (Takes(x)' => Takes(x))
      <3>1. m # 0
        BY <1>2, <1>3
      <3> QED BY <3>1 DEF WireOK, Flows, Onward
    <2> HIDE DEF w, d, n, m, v
    <2>2. \A i \in 1 .. Len(w) : w[i].type # "close"
      BY <1>5
    <2>3. n <= m
      BY <1>2, <1>3
    <2>4. FlowsAt(w, d, m, FALSE) /\ FlowsAt(Append(w, Signal("oversized")), d, m, Takes(x))
      BY <1>2, <1>3, <2>1, <2>2, <2>3, FlowLoses
    <2>5. CASE ~Takes(x)
      <3>1. v = w /\ Takes(x)' = FALSE
        BY <1>1, <1>2, <2>1, <2>5
      <3> QED BY <2>4, <3>1
    <2>6. CASE Takes(x) /\ f = Signal("oversized")
      <3>1. FlowsAt(v, d, m, Takes(x))
        BY <1>1, <2>4, <2>6
      <3> QED BY <1>2, <1>3, <2>1, <3>1, FlowStays
    <2>7. CASE Takes(x) /\ m = n + 1 /\ f = Message(m)
      <3>1. Takes(x) = TRUE
        BY <1>2, <2>7
      <3>2. FlowsAt(w, d, n, TRUE) /\ v = Append(w, Message(n + 1))
        BY <1>1, <2>1, <2>7, <3>1
      <3>3. n + 1 \in Numbers
        <4>1. f.type = "message" /\ f.value = n + 1
          BY <2>7 DEF Message
        <4> QED BY <4>1, FrameType
      <3>4. FlowsAt(v, d, n + 1, TRUE)
        BY <1>2, <1>5, <1>6, <3>2, <3>3, FlowSends DEF d, n
      <3> QED BY <1>2, <1>3, <2>7, <3>4, FlowStays
    <2> QED BY <1>1, <2>5, <2>6, <2>7
  <1> HIDE DEF v, w, m
  <1>9. \A i \in 1 .. Len(v) :
            /\ v[i].type = "fin" => i = Len(v) /\ Down(o)' /\ stream'[o] # "open"
            /\ v[i].type = "close" => frameSent'[o] # "no"
            /\ v[i].type = "oversized" => m = MaxSent[o]
    <2> SUFFICES ASSUME NEW i \in 1 .. Len(v)
                 PROVE  v[i].type \notin {"fin", "close"} /\ (v[i].type = "oversized" => m = MaxSent[o])
      OBVIOUS
    <2>1. CASE v = w
      BY <1>5, <2>1
    <2>2. CASE v = Append(w, f) /\ i \in 1 .. Len(w)
      BY <1>4, <1>5, <2>2
    <2>3. CASE v = Append(w, f) /\ i = Len(w) + 1
      <3>1. v[i] = f
        BY <1>4, <2>3
      <3> QED BY <1>1, <3>1 DEF Message, Signal
    <2> QED BY <1>1, <1>4, <2>1, <2>2, <2>3
  <1>10. d <= m
    BY <1>2, <1>3, <1>6
  <1> QED BY <1>1, <1>6, <1>7, <1>8, <1>9, <1>10, WireHolds DEF WireOK, v, m

LEMMA WireTakes ==
    ASSUME LinkTypeOK, NEW x \in End, WireOK(x), Onward(x), Onward(Other(x)), Takes1(x)
    PROVE  WireOK(x)'
  <1> DEFINE w == wire[x]  d == Len(delivered[x])  n == sent[Other(x)]  o == Other(x)
             f == wire[x][1]  v == wire'[x]  e == Len(delivered'[x])
  <1>1. /\ w # << >> /\ v = Tail(w) /\ sent'[o] = n
        /\ delivered'[x] = IF f.type = "message" /\ Listening(x) THEN Append(delivered[x], f.value)
                                                                 ELSE delivered[x]
        /\ \/ f.type = "close" /\ Listening(x) /\ frameRecv'[x]
           \/ closeCode'[x] = closeCode[x]
        /\ f.type = "oversized" => ~Listening(x)'
    BY DEF Takes1
  <1>2. /\ w \in Seq(WireFrame) /\ d \in Nat /\ n \in Nat
        /\ Takes(x) \in BOOLEAN /\ Takes(x)' \in BOOLEAN
    BY QueueTypes
  <1>3. Len(v) = Len(w) - 1 /\ Len(w) \in Nat /\ Len(w) >= 1 /\ \A i \in 1 .. Len(v) : v[i] = w[i + 1]
    <2>1. Len(Tail(w)) = Len(w) - 1 /\ Len(w) >= 1 /\ \A i \in 1 .. Len(w) - 1 : Tail(w)[i] = w[i + 1]
      BY <1>1, <1>2, QueueTail
    <2> QED BY <1>1, <1>2, <2>1
  <1>4. Listening(x) => FlowsAt(w, d, n, Takes(x)) /\ (Takes(x)' => Takes(x) \/ n = 0)
    BY <1>1 DEF WireOK, Flows, Onward
  <1>5. d <= n /\ delivered[x] = [i \in 1 .. d |-> i]
    BY DEF WireOK, DeliveredOK
  <1>6. closeCode[x] # Abnormal => frameRecv'[x] /\ frameSent'[o] # "no" /\ d = n /\ ~Listening(x)
    BY DEF WireOK, DeliveredOK, Onward, Listening
  <1>7. \A i \in 1 .. Len(w) :
            /\ w[i].type = "fin" => i = Len(w) /\ Down(o)' /\ stream'[o] # "open"
            /\ w[i].type = "close" => frameSent'[o] # "no"
            /\ w[i].type = "oversized" => n = MaxSent[o]
    BY DEF WireOK, FramesOK, Onward, Down
  <1>8. \A i \in 1 .. Len(v) :
            /\ v[i].type = "fin" => i = Len(v) /\ Down(o)' /\ stream'[o] # "open"
            /\ v[i].type = "close" => frameSent'[o] # "no"
            /\ v[i].type = "oversized" => n = MaxSent[o]
    <2> HIDE DEF w, v
    <2> SUFFICES ASSUME NEW i \in 1 .. Len(v)
                 PROVE  /\ v[i].type = "fin" => i = Len(v) /\ Down(o)' /\ stream'[o] # "open"
                        /\ v[i].type = "close" => frameSent'[o] # "no"
                        /\ v[i].type = "oversized" => n = MaxSent[o]
      OBVIOUS
    <2>1. i + 1 \in 1 .. Len(w) /\ v[i] = w[i + 1] /\ (i + 1 = Len(w) => i = Len(v))
      BY <1>3
    <2> QED BY <1>7, <2>1
  \* What is delivered are still the first numbers.
  <1>9. /\ e <= n /\ delivered'[x] = [i \in 1 .. e |-> i]
        /\ e = IF f.type = "message" /\ Listening(x) THEN d + 1 ELSE d
    <2>1. CASE f.type = "message" /\ Listening(x)
      <3>1. InOrder(w, d, n)
        BY <1>4, <2>1 DEF FlowsAt
      <3>2. f.value = d + 1 /\ d + 1 <= n
        <4> HIDE DEF d, n
        <4> QED BY <1>1, <1>2, <2>1, <3>1, HeadInOrder
      <3>3. delivered'[x] = [i \in 1 .. d + 1 |-> i]
        <4>1. Append([i \in 1 .. d |-> i], d + 1) = [i \in 1 .. d + 1 |-> i]
          <5> HIDE DEF d
          <5>1. 0 \in Nat /\ d \in Nat
            BY <1>2
          <5> QED BY <5>1, NumbersJoin
        <4> QED BY <1>1, <1>5, <2>1, <3>2, <4>1
      <3>4. e = d + 1
        <4> HIDE DEF d
        <4>1. d + 1 \in Nat /\ Len([i \in 1 .. d + 1 |-> i]) = d + 1
          BY <1>2
        <4> QED BY <3>3, <4>1
      <3> QED BY <2>1, <3>2, <3>3, <3>4
    <2>2. CASE ~(f.type = "message" /\ Listening(x))
      BY <1>1, <1>5, <2>2
    <2> QED BY <2>1, <2>2
  \* Behind a close frame there is nothing to wait for.
  <1>10. closeCode'[x] # Abnormal => frameRecv'[x] /\ frameSent'[o] # "no" /\ e = n
    <2>1. CASE f.type = "close" /\ Listening(x) /\ frameRecv'[x]
      <3>1. 1 \in 1 .. Len(w) /\ w[1].type = "close"
        BY <1>3, <2>1
      <3>2. AllBefore(w, 1, d, n)
        BY <1>4, <2>1, <3>1 DEF FlowsAt
      <3>3. d = n
        <4>1. \A i \in 1 .. Len(w) : ~(i < 1)
          BY <1>3
        <4>2. \A i \in Messages(w) : ~(i < 1)
          BY <4>1 DEF Messages
        <4>3. d + 1 \notin d + 1 .. n
          BY <1>2, <3>2, <4>1, <4>2 DEF AllBefore
        <4> QED BY <1>2, <1>5, <4>3
      <3>4. frameSent'[o] # "no"
        BY <1>7, <3>1
      <3>5. e = d
        BY <1>9, <2>1
      <3> QED BY <2>1, <3>3, <3>4, <3>5
    <2>2. CASE closeCode'[x] = closeCode[x]
      BY <1>6, <1>9, <2>2
    <2> QED BY <1>1, <2>1, <2>2
  <1>11. Listening(x)' => FlowsAt(v, e, n, Takes(x)')
    <2> SUFFICES ASSUME Listening(x)' PROVE FlowsAt(v, e, n, Takes(x)')
      OBVIOUS
    <2>1. Listening(x) /\ f.type # "oversized"
      BY <1>1 DEF Onward
    <2>2. FlowsAt(w, d, n, Takes(x)) /\ (Takes(x)' => Takes(x) \/ n = 0)
      BY <1>4, <2>1
    <2>3. e = (IF w[1].type = "message" THEN d + 1 ELSE d) /\ v = Tail(w)
      BY <1>1, <1>9, <2>1
    <2>4. w # << >> /\ w[1].type # "oversized"
      BY <1>1, <2>1
    <2> HIDE DEF w, d, n, e, v
    <2> QED BY <1>2, <2>2, <2>3, <2>4, FlowTaken
  <1> QED BY <1>1, <1>8, <1>9, <1>10, <1>11, WireHolds DEF WireOK

LEMMA WireClosed ==
    ASSUME LinkTypeOK, EndsOK, NEW x \in End, WireOK(x), Onward(x), Onward(Other(x)), SocketOnClose(x),
           sent'[Other(x)] = sent[Other(x)]
    PROVE  WireOK(x)'
  <1> DEFINE d == Len(delivered[x])  n == sent[Other(x)]  o == Other(x)
             e == Len(delivered'[x])  r == Leftover(x)
             reads == ~finRead[x] /\ Listening(x)
  <1>1. wire'[x] = << >>
    BY DEF SocketOnClose, LinkTypeOK
  <1>2. /\ d \in Nat /\ n \in Nat
    BY QueueTypes
  <1>3. d <= n /\ delivered[x] = [i \in 1 .. d |-> i]
    BY DEF WireOK, DeliveredOK
  <1>4. closeCode[x] # Abnormal => frameRecv'[x] /\ frameSent'[o] # "no" /\ d = n
    BY DEF WireOK, DeliveredOK, Onward
  <1>5. delivered'[x] = IF reads THEN delivered[x] \o Values(r.frames) ELSE delivered[x]
    <2>1. delivered \in [End -> Seq(Numbers)]
      BY DEF LinkTypeOK
    <2>2. delivered' = IF reads THEN [delivered EXCEPT ![x] = @ \o Values(r.frames)] ELSE delivered
      BY Zenon DEF SocketOnClose
    <2> HIDE DEF r, reads
    <2> QED BY <2>1, <2>2
  <1>6. \/ reads /\ r.stop.type = "close" /\ Concluded(x, r.stop.value)
        \/ UNCHANGED <<frameRecv, closeCode>>
    BY Zenon DEF SocketOnClose
  <1>7. ~Takes(x)'
    <2>1. stream' = [stream EXCEPT ![x] = "closed"] /\ opening' = opening
      BY DEF SocketOnClose
    <2>2. stream'[x] = "closed"
      BY <2>1 DEF LinkTypeOK
    <2>3. x = "client" => opening # "answered"
      <3>1. stream[x] # "none"
        BY DEF SocketOnClose
      <3> QED BY <3>1 DEF EndsOK, OpeningOK, EndOK, End
    <2> QED BY <2>1, <2>2, <2>3 DEF Takes, Alive
  <1>8. PICK c \in 0 .. n - d :
            /\ reads => delivered[x] \o Values(r.frames) = [i \in 1 .. d + c |-> i]
            /\ reads /\ r.stop.type = "close" => c = n - d
    <2>1. CASE reads
      <3>1. DeliveredOK(x) /\ Flows(x)
        BY <2>1 DEF WireOK
      <3> QED BY <3>1, LeftoverFollows
    <2>2. CASE ~reads
      <3>1. 0 \in 0 .. n - d
        BY <1>2, <1>3
      <3> QED BY <2>2, <3>1
    <2> QED BY <2>1, <2>2
  <1>9. /\ e = IF reads THEN d + c ELSE d
        /\ e <= n /\ delivered'[x] = [i \in 1 .. e |-> i]
    <2>1. d + c \in Nat /\ Len([i \in 1 .. d + c |-> i]) = d + c /\ d + c <= n
      BY <1>2, <1>3
    <2> QED BY <1>3, <1>5, <1>8, <2>1
  <1>10. closeCode'[x] # Abnormal => frameRecv'[x] /\ frameSent'[o] # "no" /\ e = n
    <2>1. CASE UNCHANGED <<frameRecv, closeCode>>
      <3>1. closeCode[x] # Abnormal => ~reads
        BY DEF WireOK, DeliveredOK, Listening
      <3> QED BY <1>4, <1>9, <2>1, <3>1
    <2>2. CASE reads /\ r.stop.type = "close" /\ Concluded(x, r.stop.value)
      <3>1. frameRecv'[x]
        BY <2>2 DEF Concluded, LinkTypeOK
      <3>2. frameSent'[o] # "no"
        <4>1. PICK i \in 1 .. Len(wire[x]) + 1 :
                  r.stop.type = "close" => i \in 1 .. Len(wire[x]) /\ r.stop = wire[x][i]
          BY LeftoverIs, Zenon
        <4>2. i \in 1 .. Len(wire[x]) /\ wire[x][i].type = "close"
          BY <2>2, <4>1
        <4> QED BY <4>2 DEF WireOK, FramesOK, Onward
      <3>3. e = n
        BY <1>2, <1>8, <1>9, <2>2
      <3> QED BY <3>1, <3>2, <3>3
    <2> QED BY <1>6, <2>1, <2>2
  <1>11. FlowsAt(<< >>, e, n, Takes(x)')
    <2>1. InOrder(<< >>, e, n)
      BY <1>2, <1>9, NoneInOrder
    <2>2. \A i \in 1 .. Len(<< >>) : FALSE
      OBVIOUS
    <2> HIDE DEF e, n
    <2> QED BY <1>7, <2>1, <2>2 DEF FlowsAt
  <1>12. \A i \in 1 .. Len(wire'[x]) : FALSE
    BY <1>1
  <1> QED BY <1>1, <1>9, <1>10, <1>11, <1>12, WireHolds DEF WireOK

\* Every step keeps the wires.
LEMMA WiresNext ==
    ASSUME LinkTypeOK, EndsOK, WiresOK, SentOK, [LinkNext]_linkVars
    PROVE  WiresOK'
  <1> SUFFICES ASSUME NEW x \in End PROVE WireOK(x)'
    BY DEF WiresOK, WireOK
  <1>1. WireOK(x) /\ Other(x) \in End
    BY Ends DEF WiresOK, WireOK
  <1>2. WireStep(x) /\ Onward(x) /\ Onward(Other(x))
    BY <1>1, StepsOfWires, EndsGoOn
  <1>3. SocketOnClose(x) => sent'[Other(x)] = sent[Other(x)]
    BY DEF SocketOnClose
  <1> QED BY <1>1, <1>2, <1>3, WireUntouched, WireShortened, WireTakes, WireClosed, WireAdds, WireSends
       DEF WireStep

-----------------------------------------------------------------------------
(* Types.                                                                  *)

Maps(f) == f = [e \in End |-> f[e]]

\* What the ends and their sockets are, without what is under way.
ControlOK ==
    /\ opening \in {"request", "answered", "aborted", "done"}
    /\ ready \in [End -> {"CONNECTING", "OPEN", "CLOSING", "CLOSED"}]
    /\ stream \in [End -> {"none", "open", "ended", "destroyed", "closed"}]
    /\ finRead \in [End -> BOOLEAN] /\ flowing \in [End -> BOOLEAN] /\ cut \in BOOLEAN
    /\ frameSent \in [End -> {"no", "handed", "written"}] /\ frameRecv \in [End -> BOOLEAN]
    /\ timer \in [End -> BOOLEAN]
    /\ receiver \in [End -> {"running", "erroring", "errored", "ending", "finished"}]
    /\ closes \in [End -> Nat] /\ errors \in [End -> Nat]
    /\ Maps(wire) /\ Maps(sent) /\ Maps(delivered) /\ Maps(closeCode)

LEMMA MapsExcept ==
    ASSUME NEW f, Maps(f), NEW a, NEW b
    PROVE  Maps([f EXCEPT ![a] = b])
  BY DEF Maps

LEMMA MapsPut ==
    ASSUME NEW f, Maps(f), NEW e, NEW b
    PROVE  Maps(Put(f, e, b)) /\ Maps(WithFin(f, e))
  BY MapsExcept DEF Put, WithFin

LEMMA MapsConsumed ==
    ASSUME Maps(wire), NEW e
    PROVE  Maps(Consumed(e)) /\ Maps(AnsweredPings(e))
  BY MapsExcept, MapsPut DEF Consumed, AnsweredPings

LEMMA MapsDestroy ==
    ASSUME Maps(wire), NEW e, NEW k, Destroy(e, k)
    PROVE  Maps(wire)'
  <1>1. Maps(WithFin(wire, e))
    BY MapsPut
  <1> QED BY <1>1, MapsExcept DEF Destroy

LEMMA ControlNext ==
    ASSUME LinkTypeOK, [LinkNext]_linkVars
    PROVE  ControlOK'
  <1>0. ControlOK
    BY DEF LinkTypeOK, ControlOK, Maps
  <1> DEFINE Queues == Maps(wire) /\ Maps(sent) /\ Maps(delivered) /\ Maps(closeCode)
             Same == UNCHANGED <<sent, delivered, closeCode>>
  <1>q. Queues
    BY <1>0 DEF ControlOK
  <1> DEFINE Controls ==
          /\ opening \in {"request", "answered", "aborted", "done"}
          /\ ready \in [End -> {"CONNECTING", "OPEN", "CLOSING", "CLOSED"}]
          /\ stream \in [End -> {"none", "open", "ended", "destroyed", "closed"}]
          /\ finRead \in [End -> BOOLEAN] /\ flowing \in [End -> BOOLEAN] /\ cut \in BOOLEAN
          /\ frameSent \in [End -> {"no", "handed", "written"}] /\ frameRecv \in [End -> BOOLEAN]
          /\ timer \in [End -> BOOLEAN]
          /\ receiver \in [End -> {"running", "erroring", "errored", "ending", "finished"}]
          /\ closes \in [End -> Nat] /\ errors \in [End -> Nat]
  <1>c. Controls
    BY <1>0 DEF ControlOK
  <1>j. Controls' /\ Queues' => ControlOK'
    BY DEF ControlOK
  <1>m. ASSUME Maps(wire)', Same PROVE Queues'
    BY <1>q, <1>m DEF Maps
  <1> HIDE DEF Queues
  <1> USE DEF handshake, traffic
  <1>1. CASE Accept \/ Upgraded
    BY <1>c, <1>q, <1>1, <1>j DEF Accept, Upgraded, Established, Queues, Maps
  <1>2. CASE RequestFails
    <2>1. Maps(wire)'
      BY <1>2 DEF RequestFails, Maps
    <2> QED BY <1>c, <1>j, <1>m, <1>2, <2>1 DEF RequestFails, End
  <1>3. ASSUME AbortRequest PROVE ControlOK'
    <2>1. Maps(wire)'
      BY <1>3 DEF AbortRequest, Maps
    <2> QED BY <1>c, <1>j, <1>m, <1>3, <2>1 DEF AbortRequest, End
  <1>4. CASE Aborted
    <2>1. Queues'
      BY <1>q, <1>4 DEF Aborted, Queues, Maps
    <2> QED BY <1>c, <1>j, <1>4, <2>1 DEF Aborted, End
  <1>5. CASE Ping
    <2>1. Maps(wire)'
      BY <1>q, <1>5, MapsPut DEF Ping, Queues
    <2> QED BY <1>c, <1>j, <1>m, <1>5, <2>1 DEF Ping
  <1>6. CASE Cut
    <2>1. Maps(wire)'
      BY <1>6 DEF Cut, Maps
    <2> QED BY <1>c, <1>j, <1>m, <1>6, <2>1 DEF Cut
  <1>7. ASSUME NEW e \in End, Send(e) PROVE ControlOK'
    <2>1. Maps(wire)' /\ Maps(sent)'
      BY <1>q, <1>7, MapsPut, MapsExcept DEF Send, Queues
    <2>2. Queues'
      BY <1>q, <1>7, <2>1 DEF Send, Queues, Maps
    <2> QED BY <1>c, <1>j, <1>7, <2>2 DEF Send
  <1>8. ASSUME NEW e \in End, NEW c \in Code \cup {NoStatus}, Close(e, c) PROVE ControlOK'
    <2>1. CASE AbortRequest
      BY <1>3, <2>1
    <2>2. CASE StartClose(e, c) /\ UNCHANGED <<opening, stream, finRead, flowing, cut, frameRecv, closeCode,
                      receiver, traffic, closes, errors>>
      <3>1. Maps(wire)'
        BY <1>q, <2>2, MapsPut DEF StartClose, Queues
      <3> QED BY <1>c, <1>j, <1>m, <2>2, <3>1 DEF StartClose
    <2>3. CASE stream' = Ended(e) /\ wire' = WithFin(wire, e) /\ UNCHANGED <<opening, ready, finRead,
                      flowing, cut, handshake, receiver, traffic, closes, errors>>
      <3>1. Maps(wire)'
        BY <1>q, <2>3, MapsPut DEF Queues
      <3> QED BY <1>c, <1>j, <1>m, <2>3, <3>1 DEF Ended
    <2> QED BY <1>8, <2>1, <2>2, <2>3, Zenon DEF Close
  <1>9. ASSUME NEW e \in End, Terminate(e) PROVE ControlOK'
    <2>1. CASE AbortRequest
      BY <1>3, <2>1
    <2>2. CASE ~AbortRequest
      <3>1. Maps(wire)'
        BY <1>q, <1>9, <2>2, MapsDestroy DEF Terminate, Queues
      <3> QED BY <1>c, <1>j, <1>m, <1>9, <2>2, <3>1 DEF Terminate, Destroy
    <2> QED BY <2>1, <2>2
  <1>10. ASSUME NEW e \in End, Pause(e) \/ Resume(e) PROVE ControlOK'
    BY <1>c, <1>q, <1>10, <1>j DEF Pause, Resume, Queues, Maps
  <1>11. ASSUME NEW e \in End, ReadFrame(e) PROVE ControlOK'
    <2>1. Maps(wire)'
      BY <1>q, <1>11, MapsConsumed DEF ReadFrame, Queues
    <2>2. Maps(delivered)'
      BY <1>q, <1>11, MapsExcept DEF ReadFrame, Queues
    <2>3. Queues'
      BY <1>q, <1>11, <2>1, <2>2 DEF ReadFrame, Queues, Maps
    <2> QED BY <1>c, <1>j, <1>11, <2>3 DEF ReadFrame
  <1>12. ASSUME NEW e \in End, ReadClose(e) PROVE ControlOK'
    <2>1. Maps(wire)'
      BY <1>q, <1>12, MapsConsumed, MapsPut DEF ReadClose, Queues
    <2>2. Maps(closeCode)'
      <3>1. Concluded(e, Arriving(e).value) \/ UNCHANGED handshake
        BY <1>12, Zenon DEF ReadClose
      <3>2. closeCode' = [closeCode EXCEPT ![e] = Arriving(e).value] \/ closeCode' = closeCode
        BY <3>1 DEF Concluded
      <3> QED BY <1>q, <3>2, MapsExcept DEF Queues
    <2>3. Queues'
      BY <1>q, <1>12, <2>1, <2>2 DEF ReadClose, Queues, Maps
    <2> QED BY <1>c, <1>j, <1>12, <2>3 DEF ReadClose, Concluded, EndReceiver, Ended
  <1>13. ASSUME NEW e \in End, ReadOversized(e) PROVE ControlOK'
    <2>1. Maps(wire)'
      BY <1>q, <1>13, MapsConsumed DEF ReadOversized, Queues
    <2> QED BY <1>c, <1>j, <1>m, <1>13, <2>1 DEF ReadOversized
  <1>14. ASSUME NEW e \in End, ReadFin(e) PROVE ControlOK'
    <2>1. Maps(wire)'
      BY <1>q, <1>14, MapsConsumed, MapsPut DEF ReadFin, Queues
    <2> QED BY <1>c, <1>j, <1>m, <1>14, <2>1 DEF ReadFin, EndReceiver, Ended
  <1>15. ASSUME NEW e \in End, ReceiverFails(e) PROVE ControlOK'
    <2>1. Maps(wire)'
      <3>1. wire' = Put(wire, e, CloseFrame(TooBig)) \/ wire' = WithFin(wire, e) \/ wire' = wire
        BY <1>15, Zenon DEF ReceiverFails, StartClose
      <3> QED BY <1>q, <3>1, MapsPut DEF Queues
    <2>2. /\ receiver' = [receiver EXCEPT ![e] = "errored"] /\ errors' = ErrorOnce(e)
          /\ UNCHANGED <<opening, finRead, cut, frameRecv, closeCode, sent, delivered>>
      BY <1>15 DEF ReceiverFails
    <2>3. \/ EmitClose(e) /\ UNCHANGED <<stream, flowing, frameSent, timer>>
          \/ /\ flowing' = [flowing EXCEPT ![e] = TRUE] /\ closes' = closes
             /\ \/ StartClose(e, TooBig) /\ stream' = stream
                \/ stream' \in {stream, Ended(e)} /\ UNCHANGED <<ready, frameSent, timer>>
      BY <1>15 DEF ReceiverFails
    <2>4. Controls'
      <3>1. errors' \in [End -> Nat]
        BY <1>c, <2>2 DEF ErrorOnce
      <3>2. closes' \in [End -> Nat]
        BY <1>c, <2>3 DEF EmitClose
      <3>3. ready' \in [End -> {"CONNECTING", "OPEN", "CLOSING", "CLOSED"}]
        BY <1>c, <2>3 DEF EmitClose, StartClose
      <3>4. stream' \in [End -> {"none", "open", "ended", "destroyed", "closed"}]
        BY <1>c, <2>3 DEF Ended
      <3>5. /\ flowing' \in [End -> BOOLEAN] /\ timer' \in [End -> BOOLEAN]
            /\ frameSent' \in [End -> {"no", "handed", "written"}]
        BY <1>c, <2>3 DEF StartClose
      <3>6. receiver' \in [End -> {"running", "erroring", "errored", "ending", "finished"}]
        BY <1>c, <2>2
      <3> QED BY <1>c, <2>2, <3>1, <3>2, <3>3, <3>4, <3>5, <3>6
    <2> QED BY <1>j, <1>m, <2>1, <2>2, <2>4, Zenon
  <1>16. ASSUME NEW e \in End, ReceiverFinishes(e) PROVE ControlOK'
    BY <1>c, <1>q, <1>16, <1>j DEF ReceiverFinishes, EmitClose, Queues, Maps
  <1>17. ASSUME NEW e \in End, FrameWritten(e) PROVE ControlOK'
    <2>1. Maps(wire)'
      BY <1>q, <1>17, MapsPut DEF FrameWritten, Queues
    <2> QED BY <1>c, <1>j, <1>m, <1>17, <2>1 DEF FrameWritten, Ended
  <1>18. ASSUME NEW e \in End, SocketError(e) PROVE ControlOK'
    <2>1. Maps(wire)'
      BY <1>q, <1>18, MapsDestroy DEF SocketError, Queues
    <2> QED BY <1>c, <1>j, <1>m, <1>18, <2>1 DEF SocketError, Destroy
  <1>19. ASSUME NEW e \in End, CloseTimerFires(e) PROVE ControlOK'
    <2>1. Maps(wire)'
      BY <1>q, <1>19, MapsDestroy DEF CloseTimerFires, Queues
    <2> QED BY <1>c, <1>j, <1>m, <1>19, <2>1 DEF CloseTimerFires, ClearTimer, Destroy
  <1>20. ASSUME NEW e \in End, SocketOnClose(e) PROVE ControlOK'
    <2>1. wire' = [wire EXCEPT ![e] = << >>] /\ UNCHANGED sent
      BY <1>20, Zenon DEF SocketOnClose
    <2> DEFINE more == delivered[e] \o Values(Leftover(e).frames)  code == Leftover(e).stop.value
    <2>2. delivered' = [delivered EXCEPT ![e] = more] \/ delivered' = delivered
      BY <1>20, Zenon DEF SocketOnClose
    <2>3. closeCode' = [closeCode EXCEPT ![e] = code] \/ closeCode' = closeCode
      BY <1>20, Zenon DEF SocketOnClose, Concluded
    <2> HIDE DEF more, code
    <2>4. Queues'
      <3>1. Maps(wire)' /\ Maps(sent)'
        BY <1>q, <2>1, MapsExcept DEF Queues
      <3>2. Maps(delivered)'
        BY <1>q, <2>2, MapsExcept DEF Queues
      <3>3. Maps(closeCode)'
        BY <1>q, <2>3, MapsExcept DEF Queues
      <3> QED BY <3>1, <3>2, <3>3 DEF Queues
    <2>5. /\ stream' = [stream EXCEPT ![e] = "closed"] /\ timer' = [timer EXCEPT ![e] = FALSE]
          /\ UNCHANGED <<opening, finRead, flowing, cut, frameSent, errors>>
      BY <1>20 DEF SocketOnClose, ClearTimer
    <2>6. /\ \/ receiver' = [receiver EXCEPT ![e] = EndReceiver(@)]
             \/ receiver' = [receiver EXCEPT ![e] = "erroring"]
          /\ frameRecv' \in {frameRecv, [frameRecv EXCEPT ![e] = TRUE]}
      <3>1. \/ Concluded(e, Leftover(e).stop.value)
            \/ /\ receiver' = [receiver EXCEPT ![e] =
                       IF (~finRead[e] /\ Listening(e)) /\ Leftover(e).stop.type = "oversized"
                       THEN "erroring" ELSE EndReceiver(@)]
               /\ UNCHANGED <<frameRecv, closeCode>>
        BY <1>20, Zenon DEF SocketOnClose
      <3>2. CASE (~finRead[e] /\ Listening(e)) /\ Leftover(e).stop.type = "oversized"
        BY <3>1, <3>2, Zenon DEF Concluded
      <3>3. CASE ~((~finRead[e] /\ Listening(e)) /\ Leftover(e).stop.type = "oversized")
        BY <3>1, <3>3, Zenon DEF Concluded
      <3> QED BY <3>2, <3>3
    <2>7. EmitClose(e) \/ (ready' = [ready EXCEPT ![e] = "CLOSING"] /\ closes' = closes)
      BY <1>20, Zenon DEF SocketOnClose
    <2>8. Controls'
      <3>1. closes' \in [End -> Nat]
        BY <1>c, <2>7 DEF EmitClose
      <3>2. ready' \in [End -> {"CONNECTING", "OPEN", "CLOSING", "CLOSED"}]
        BY <1>c, <2>7 DEF EmitClose
      <3>3. receiver' \in [End -> {"running", "erroring", "errored", "ending", "finished"}]
        BY <1>c, <2>6 DEF EndReceiver
      <3>4. frameRecv' \in [End -> BOOLEAN]
        BY <1>c, <2>6
      <3> QED BY <1>c, <2>5, <3>1, <3>2, <3>3, <3>4
    <2> QED BY <1>j, <2>4, <2>8
  <1>21. CASE UNCHANGED linkVars
    BY <1>c, <1>q, <1>21, <1>j DEF linkVars, Queues, Maps
  <1> QED BY <1>1, <1>2, <1>3, <1>4, <1>5, <1>6, <1>7, <1>8, <1>9, <1>10, <1>11, <1>12, <1>13,
             <1>14, <1>15, <1>16, <1>17, <1>18, <1>19, <1>20, <1>21
        DEF LinkNext, Refused, Read, Tick

-----------------------------------------------------------------------------
(* Pings and pongs.                                                        *)

Of(w, type) == {i \in 1 .. Len(w) : w[i].type = type}

LEMMA CountIs ==
    ASSUME NEW w, Len(w) \in Nat, NEW type
    PROVE  /\ IsFiniteSet(Of(w, type)) /\ Count(w, type) = Cardinality(Of(w, type))
           /\ Count(w, type) \in Nat
  <1>1. IsFiniteSet(1 .. Len(w))
    <2>1. 1 \in Int /\ Len(w) \in Int
      OBVIOUS
    <2> QED BY <2>1, FS_Interval
  <1>2. Of(w, type) \subseteq 1 .. Len(w)
    BY DEF Of
  <1>3. IsFiniteSet(Of(w, type))
    BY <1>1, <1>2, FS_Subset
  <1> QED BY <1>3, FS_CardinalityType DEF Count, Of

LEMMA CountNone ==
    ASSUME NEW type
    PROVE  Count(<< >>, type) = 0
  <1>1. Of(<< >>, type) = {} /\ Len(<< >>) \in Nat
    BY DEF Of
  <1> QED BY <1>1, CountIs, FS_EmptySet

LEMMA CountAppend ==
    ASSUME NEW w \in Seq(WireFrame), NEW f \in WireFrame, NEW type
    PROVE  Count(Append(w, f), type) = Count(w, type) + (IF f.type = type THEN 1 ELSE 0)
  <1> DEFINE v == Append(w, f)
  <1>1. /\ Len(v) = Len(w) + 1 /\ Len(w) \in Nat
        /\ \A i \in 1 .. Len(w) : v[i] = w[i]
        /\ v[Len(w) + 1] = f
    BY QueueAppends
  <1> HIDE DEF v
  <1>2. /\ Of(v, type) = IF f.type = type THEN Of(w, type) \cup {Len(w) + 1} ELSE Of(w, type)
        /\ Len(w) + 1 \notin Of(w, type)
    BY <1>1 DEF Of
  <1>3. /\ IsFiniteSet(Of(w, type)) /\ Count(w, type) = Cardinality(Of(w, type))
        /\ Count(w, type) \in Nat /\ Count(v, type) = Cardinality(Of(v, type))
    BY <1>1, CountIs
  <1>4. Cardinality(Of(w, type) \cup {Len(w) + 1}) = Cardinality(Of(w, type)) + 1
    BY <1>2, <1>3, FS_AddElement
  <1> QED BY <1>2, <1>3, <1>4 DEF v

LEMMA CountTail ==
    ASSUME NEW w \in Seq(WireFrame), w # << >>, NEW type
    PROVE  Count(Tail(w), type) = Count(w, type) - (IF w[1].type = type THEN 1 ELSE 0)
  <1> DEFINE v == Tail(w)
             rest == Of(w, type) \ {1}
             shift == [i \in Of(v, type) |-> i + 1]
  <1>1. Len(v) = Len(w) - 1 /\ Len(w) \in Nat /\ Len(w) >= 1 /\ \A i \in 1 .. Len(w) - 1 : v[i] = w[i + 1]
    BY QueueTail
  <1> HIDE DEF v
  <1>2. shift \in [Of(v, type) -> rest]
    BY <1>1 DEF Of
  <1>3. \A i, j \in Of(v, type) : shift[i] = shift[j] => i = j
    BY DEF Of
  <1>4. ASSUME NEW k \in rest PROVE \E i \in Of(v, type) : shift[i] = k
    <2>1. k - 1 \in Of(v, type) /\ k = k - 1 + 1
      BY <1>1 DEF Of
    <2> QED BY <2>1
  <1>5. shift \in Bijection(Of(v, type), rest)
    BY <1>2, <1>3, <1>4 DEF Bijection, Injection, Surjection, IsInjective
  <1>6. ExistsBijection(Of(v, type), rest)
    BY <1>5 DEF ExistsBijection
  <1>7. /\ IsFiniteSet(Of(w, type)) /\ Count(w, type) = Cardinality(Of(w, type))
        /\ IsFiniteSet(Of(v, type)) /\ Count(v, type) = Cardinality(Of(v, type))
        /\ Count(w, type) \in Nat
    <2>1. Len(v) \in Nat
      BY <1>1
    <2> QED BY <1>1, <2>1, CountIs
  <1> HIDE DEF rest
  <1>8. Cardinality(rest) = Cardinality(Of(v, type))
    BY <1>6, <1>7, FS_Bijection
  <1>9. Cardinality(rest) = IF 1 \in Of(w, type) THEN Cardinality(Of(w, type)) - 1 ELSE Cardinality(Of(w, type))
    BY <1>7, FS_RemoveElement DEF rest
  <1>10. 1 \in Of(w, type) <=> w[1].type = type
    BY <1>1 DEF Of
  <1> QED BY <1>7, <1>8, <1>9, <1>10 DEF v

LEMMA CountPrefix ==
    ASSUME NEW w \in Seq(WireFrame), NEW k \in 0 .. Len(w), NEW type
    PROVE  Count(SubSeq(w, 1, k), type) <= Count(w, type)
  <1> DEFINE v == SubSeq(w, 1, k)
  <1>1. Len(v) = k /\ Len(w) \in Nat /\ k \in Nat /\ \A i \in 1 .. k : v[i] = w[i]
    BY QueuePrefix
  <1> HIDE DEF v
  <1>2. Of(v, type) \subseteq Of(w, type)
    BY <1>1 DEF Of
  <1>3. /\ IsFiniteSet(Of(w, type)) /\ Count(w, type) = Cardinality(Of(w, type))
        /\ Count(v, type) = Cardinality(Of(v, type))
    BY <1>1, CountIs
  <1> QED BY <1>2, <1>3, FS_Subset DEF v

\* Nothing that keeps a ping or pong alive is added to the queue to x.
Fewer(x) ==
    /\ \A type \in {"ping", "pong"} : Count(wire'[x], type) <= Count(wire[x], type)
    /\ \A i \in 1 .. Len(wire'[x]) : wire'[x][i].type \in {"ping", "pong"} =>
           \E j \in 1 .. Len(wire[x]) : wire[x][j].type = wire'[x][i].type

LEMMA FewerTail ==
    ASSUME LinkTypeOK, NEW x \in End, wire[x] # << >>, wire'[x] = Tail(wire[x])
    PROVE  Fewer(x)
  <1> DEFINE w == wire[x]
  <1>1. w \in Seq(WireFrame) /\ w # << >>
    BY DEF LinkTypeOK
  <1>2. Len(Tail(w)) = Len(w) - 1 /\ Len(w) \in Nat /\ \A i \in 1 .. Len(w) - 1 : Tail(w)[i] = w[i + 1]
    BY <1>1, QueueTail
  <1>3. \A type : Count(w, type) \in Nat
    BY <1>2, CountIs
  <1>4. \A type : Count(Tail(w), type) = Count(w, type) - (IF w[1].type = type THEN 1 ELSE 0)
    BY <1>1, CountTail
  <1>5. wire'[x] = Tail(w)
    OBVIOUS
  <1> HIDE DEF w
  <1>6. \A type : Count(Tail(w), type) <= Count(w, type)
    BY <1>3, <1>4
  <1>7. ASSUME NEW i \in 1 .. Len(Tail(w)) PROVE i + 1 \in 1 .. Len(w) /\ Tail(w)[i] = w[i + 1]
    BY <1>2
  <1> QED BY <1>5, <1>6, <1>7 DEF Fewer, w

LEMMA FewerOtherwise ==
    ASSUME LinkTypeOK, EndsOK, NEW x \in End, WireStep(x), ~Ping, ~ReadFrame(Other(x))
    PROVE  Fewer(x)
  <1> DEFINE w == wire[x]
  <1>1. w \in Seq(WireFrame) /\ Len(w) \in Nat
    BY DEF LinkTypeOK
  <1>2. \A type : Count(w, type) \in Nat
    BY <1>1, CountIs
  <1>3. CASE wire'[x] = w
    BY <1>2, <1>3 DEF Fewer
  <1>4. ASSUME NEW k \in 0 .. Len(w), wire'[x] = SubSeq(w, 1, k) PROVE Fewer(x)
    <2>1. \A type : Count(SubSeq(w, 1, k), type) <= Count(w, type)
      BY <1>1, CountPrefix
    <2>2. Len(SubSeq(w, 1, k)) = k /\ \A i \in 1 .. k : SubSeq(w, 1, k)[i] = w[i] /\ i \in 1 .. Len(w)
      BY <1>1, QueuePrefix
    <2> QED BY <1>4, <2>1, <2>2 DEF Fewer
  <1>5. ASSUME NEW f \in WireFrame, f.type \notin {"ping", "pong"}, wire'[x] = Append(w, f) PROVE Fewer(x)
    <2>1. \A type \in {"ping", "pong"} : Count(Append(w, f), type) <= Count(w, type)
      BY <1>1, <1>2, <1>5, CountAppend
    <2>2. /\ Len(Append(w, f)) = Len(w) + 1 /\ Append(w, f)[Len(w) + 1] = f
          /\ \A i \in 1 .. Len(w) : Append(w, f)[i] = w[i]
      BY <1>1, QueueAppends
    <2>3. ASSUME NEW i \in 1 .. Len(Append(w, f)), Append(w, f)[i].type \in {"ping", "pong"}
          PROVE  i \in 1 .. Len(w) /\ Append(w, f)[i] = w[i]
      BY <1>1, <1>5, <2>2, <2>3
    <2> QED BY <1>5, <2>1, <2>2, <2>3 DEF Fewer
  <1>6. CASE Takes1(x)
    BY <1>6, FewerTail DEF Takes1
  <1>7. CASE SocketOnClose(x)
    <2>1. wire'[x] = << >>
      BY <1>7 DEF SocketOnClose, LinkTypeOK
    <2>2. Len(<< >>) = 0 /\ \A type : Count(<< >>, type) = 0
      BY CountNone
    <2> QED BY <1>2, <2>1, <2>2 DEF Fewer
  <1>8. CASE Untouched(x)
    BY <1>3, <1>8 DEF Untouched
  <1>9. CASE Shortened(x)
    BY <1>4, <1>9 DEF Shortened
  <1>10. ASSUME NEW f \in WireFrame, Adds(x, f) PROVE Fewer(x)
    BY <1>5, <1>10 DEF Adds
  <1>11. ASSUME NEW f \in WireFrame, Sends(x, f) PROVE Fewer(x)
    <2>1. f.type \notin {"ping", "pong"}
      BY <1>11 DEF Sends, Message, Signal
    <2> QED BY <1>3, <1>5, <1>11, <2>1 DEF Sends
  <1> QED BY <1>6, <1>7, <1>8, <1>9, <1>10, <1>11 DEF WireStep

LEMMA WireTyped ==
    ASSUME LinkTypeOK, EndsOK, [LinkNext]_linkVars, NEW x \in End
    PROVE  wire'[x] \in Seq(WireFrame) /\ Len(wire'[x]) \in Nat
  <1>1. WireStep(x)
    BY StepsOfWires
  <1>2. wire[x] \in Seq(WireFrame)
    BY DEF LinkTypeOK
  <1>3. ASSUME NEW k \in 0 .. Len(wire[x]) PROVE SubSeq(wire[x], 1, k) \in Seq(WireFrame)
    BY <1>2, QueuePrefix
  <1>4. ASSUME NEW f \in WireFrame PROVE Append(wire[x], f) \in Seq(WireFrame)
    BY <1>2, QueueAppends
  <1>5. wire[x] # << >> => Tail(wire[x]) \in Seq(WireFrame)
    BY <1>2, QueueTail
  <1>6. SocketOnClose(x) => wire'[x] = << >>
    BY DEF SocketOnClose, LinkTypeOK
  <1>7. wire'[x] \in Seq(WireFrame)
    <2>1. CASE Shortened(x)
      BY <1>3, <2>1 DEF Shortened
    <2>2. ASSUME NEW f \in WireFrame, Adds(x, f) \/ Sends(x, f) PROVE wire'[x] \in Seq(WireFrame)
      BY <1>2, <1>4, <2>2 DEF Adds, Sends
    <2>3. CASE Untouched(x)
      BY <1>2, <2>3 DEF Untouched
    <2>4. CASE Takes1(x)
      BY <1>5, <2>4 DEF Takes1
    <2>5. CASE SocketOnClose(x)
      <3>1. << >> \in Seq(WireFrame)
        OBVIOUS
      <3> QED BY <1>6, <2>5, <3>1, Zenon
    <2> QED BY <1>1, <2>1, <2>2, <2>3, <2>4, <2>5 DEF WireStep
  <1> QED BY <1>7

\* Pings and pongs are counted by what sends and what reads them.
LEMMA OnlyPingsCount ==
    ASSUME [LinkNext]_linkVars, ~Ping, \A e \in End : ~ReadFrame(e)
    PROVE  UNCHANGED <<pings, pongs>>
  <1> USE DEF traffic
  <1>1. CASE Accept \/ Upgraded \/ RequestFails \/ Refused \/ Aborted \/ Cut
    BY <1>1 DEF Accept, Upgraded, RequestFails, Refused, AbortRequest, Aborted, Cut
  <1>2. ASSUME NEW e \in End, NEW c, Close(e, c) PROVE UNCHANGED <<pings, pongs>>
    BY <1>2 DEF Close, AbortRequest
  <1>3. ASSUME NEW e \in End, Send(e) \/ Terminate(e) \/ Pause(e) \/ Resume(e) PROVE UNCHANGED <<pings, pongs>>
    BY <1>3 DEF Send, Terminate, AbortRequest, Pause, Resume
  <1>4. ASSUME NEW e \in End, ReadClose(e) \/ ReadOversized(e) \/ ReadFin(e) PROVE UNCHANGED <<pings, pongs>>
    BY <1>4 DEF ReadClose, ReadOversized, ReadFin
  <1>5. ASSUME NEW e \in End, Tick(e) \/ FrameWritten(e) PROVE UNCHANGED <<pings, pongs>>
    BY <1>5 DEF Tick, ReceiverFails, ReceiverFinishes, FrameWritten
  <1>6. ASSUME NEW e \in End, SocketError(e) \/ CloseTimerFires(e) \/ SocketOnClose(e)
        PROVE  UNCHANGED <<pings, pongs>>
    BY <1>6, Zenon DEF SocketError, CloseTimerFires, SocketOnClose
  <1>7. CASE UNCHANGED linkVars
    BY <1>7 DEF linkVars
  <1> QED BY <1>1, <1>2, <1>3, <1>4, <1>5, <1>6, <1>7, Zenon DEF LinkNext, Read

LEMMA PongsNext ==
    ASSUME LinkTypeOK, EndsOK, PongsOK, [LinkNext]_linkVars
    PROVE  PongsOK' /\ pings' \in 0 .. MaxPings /\ pongs' \in 0 .. MaxPings
  <1> DEFINE A == Count(wire["server"], "pong")  B == Count(wire["client"], "ping")
             A1 == Count(wire'["server"], "pong")  B1 == Count(wire'["client"], "ping")
             NoPing == \A i \in 1 .. Len(wire["server"]) : wire["server"][i].type # "ping"
             NoPong == \A i \in 1 .. Len(wire["client"]) : wire["client"][i].type # "pong"
  <1>0. /\ NoPing /\ NoPong /\ pongs + A + B <= pings
        /\ pings \in Nat /\ pongs \in Nat /\ pings <= MaxPings /\ MaxPings \in Nat
        /\ "client" \in End /\ "server" \in End /\ wire \in [End -> Seq(WireFrame)]
    <2>1. pings \in 0 .. MaxPings /\ pongs \in 0 .. MaxPings /\ wire \in [End -> Seq(WireFrame)]
      BY DEF LinkTypeOK
    <2> QED BY <2>1, MaxAssumption DEF PongsOK, End
  <1>1. A \in Nat /\ B \in Nat
    BY <1>0, CountIs
  <1>2. A1 \in Nat /\ B1 \in Nat
    <2>2. \A x \in End : Len(wire'[x]) \in Nat
      BY WireTyped
    <2> QED BY <1>0, <2>2, CountIs
  <1>3. ASSUME NoPing', NoPong', pongs' + A1 + B1 <= pings', pings' \in {pings, pings + 1}, pings' <= MaxPings,
               pongs' \in {pongs, pongs + 1}
        PROVE  PongsOK' /\ pings' \in 0 .. MaxPings /\ pongs' \in 0 .. MaxPings
    <2>1. PongsOK'
      BY <1>3 DEF PongsOK
    <2>2. pongs' \in Nat /\ pings' \in Nat
      BY <1>0, <1>3
    <2> HIDE DEF A, B, A1, B1, NoPing, NoPong
    <2>3. pongs' <= MaxPings /\ pings' <= MaxPings /\ MaxPings \in Nat
      <3>1. pongs' + A1 + B1 <= pings' /\ pings' <= MaxPings
        BY <1>3
      <3>2. MaxPings \in Nat
        BY <1>0
      <3>3. \A p, a, b, q, m \in Nat : p + a + b <= q /\ q <= m => p <= m
        OBVIOUS
      <3> QED BY <1>2, <2>2, <3>1, <3>2, <3>3
    <2> QED BY <2>1, <2>2, <2>3
  <1>4. ASSUME Fewer("client") PROVE NoPong' /\ B1 <= B
    <2>1. B1 <= B
      BY <1>4 DEF Fewer
    <2> QED BY <1>0, <1>4, <2>1 DEF Fewer
  <1>5. ASSUME Fewer("server") PROVE NoPing' /\ A1 <= A
    <2>1. A1 <= A
      BY <1>5 DEF Fewer
    <2> QED BY <1>0, <1>5, <2>1 DEF Fewer
  <1>6. CASE ~Ping /\ \A e \in End : ~ReadFrame(e)
    <2>1. UNCHANGED <<pings, pongs>>
      BY <1>6, OnlyPingsCount
    <2>2. Fewer("client") /\ Fewer("server")
      BY <1>0, <1>6, StepsOfWires, FewerOtherwise, Ends
    <2>3. NoPong' /\ B1 <= B
      BY <1>4, <2>2
    <2>4. NoPing' /\ A1 <= A
      BY <1>5, <2>2
    <2>5. pongs + A + B <= pings /\ pings \in Nat /\ pongs \in Nat /\ pings <= MaxPings
      BY <1>0
    <2> HIDE DEF A, B, A1, B1, NoPing, NoPong
    <2>6. pongs' + A1 + B1 <= pings'
      BY <1>1, <1>2, <2>1, <2>3, <2>4, <2>5
    <2> QED BY <1>3, <2>1, <2>3, <2>4, <2>5, <2>6
  <1>7. CASE Ping
    <2>1. pings' = pings + 1 /\ pings' <= MaxPings /\ pongs' = pongs /\ wire' = Put(wire, "server", Signal("ping"))
      BY <1>0, <1>7 DEF Ping
    <2>2. Signal("ping") \in WireFrame /\ Signal("ping").type = "ping"
      BY FrameMakes
    <2>3. wire'["server"] = wire["server"]
          /\ \/ wire'["client"] = wire["client"]
             \/ wire'["client"] = Append(wire["client"], Signal("ping"))
      BY <1>0, <2>1, <2>2, PutAt DEF Other
    <2>4. A1 = A /\ NoPing'
      BY <1>0, <2>3
    <2>5. B1 <= B + 1
      <3>1. Count(Append(wire["client"], Signal("ping")), "ping") = Count(wire["client"], "ping") + 1
        BY <1>0, <2>2, CountAppend
      <3>2. CASE wire'["client"] = wire["client"]
        BY <1>1, <3>2
      <3>3. CASE wire'["client"] = Append(wire["client"], Signal("ping"))
        BY <1>1, <3>1, <3>3
      <3> QED BY <2>3, <3>2, <3>3
    <2>6. NoPong'
      <3>1. /\ Len(Append(wire["client"], Signal("ping"))) = Len(wire["client"]) + 1
            /\ Len(wire["client"]) \in Nat
            /\ \A i \in 1 .. Len(wire["client"]) : Append(wire["client"], Signal("ping"))[i] = wire["client"][i]
            /\ Append(wire["client"], Signal("ping"))[Len(wire["client"]) + 1] = Signal("ping")
        BY <1>0, <2>2, QueueAppends
      <3>2. CASE wire'["client"] = wire["client"]
        BY <1>0, <3>2
      <3>3. CASE wire'["client"] = Append(wire["client"], Signal("ping"))
        <4> DEFINE v == Append(wire["client"], Signal("ping"))
        <4>1. wire'["client"] = v
          BY <3>3
        <4>2. ASSUME NEW i \in 1 .. Len(v) PROVE v[i].type # "pong"
          BY <1>0, <2>2, <3>1
        <4> QED BY <4>1, <4>2
      <3> QED BY <2>3, <3>2, <3>3
    <2> HIDE DEF A, B, A1, B1
    <2> QED BY <1>0, <1>1, <1>2, <1>3, <2>1, <2>4, <2>5, <2>6
  <1>8. ASSUME NEW e \in End, ReadFrame(e) PROVE PongsOK' /\ pings' \in 0 .. MaxPings /\ pongs' \in 0 .. MaxPings
    <2> DEFINE f == wire[e][1]
    <2>1. wire[e] # << >> /\ f = Arriving(e) /\ Consumed(e) \in [End -> Seq(WireFrame)]
          /\ Consumed(e)[e] = Tail(wire[e]) /\ Consumed(e)[Other(e)] = wire[Other(e)]
          /\ 1 \in 1 .. Len(wire[e])
      <3>1. wire[e] # << >>
        BY <1>8 DEF ReadFrame, Reads
      <3>2. Len(wire[e]) \in Nat /\ Len(wire[e]) >= 1
        BY <1>0, <3>1, QueueTail
      <3> QED BY <1>0, <3>1, <3>2, ConsumedAt
    <2>2. /\ pings' = pings
          /\ \/ wire' = Consumed(e) /\ pongs' = pongs
             \/ wire' = Put(Consumed(e), e, Signal("pong")) /\ pongs' = pongs /\ f.type = "ping"
             \/ wire' = Consumed(e) /\ pongs' = pongs + 1 /\ f.type = "pong"
      BY <1>8, <2>1 DEF ReadFrame, Reads, AnsweredPings
    <2>3. CASE wire' = Consumed(e)
      <3>1. Fewer(e)
        BY <2>1, <2>3, FewerTail
      <3>2. Fewer(Other(e))
        <4>1. wire'[Other(e)] = wire[Other(e)] /\ wire[Other(e)] \in Seq(WireFrame)
          BY <1>0, <2>1, <2>3, Ends
        <4>2. \A type : Count(wire[Other(e)], type) \in Nat
          BY <4>1, CountIs
        <4> QED BY <4>1, <4>2 DEF Fewer
      <3>3. Fewer("client") /\ Fewer("server")
        BY <3>1, <3>2, Ends DEF End
      <3>4. f.type = "pong" => e = "server" /\ A1 = A - 1
        <4> SUFFICES ASSUME f.type = "pong" PROVE e = "server" /\ A1 = A - 1
          OBVIOUS
        <4>1. e = "server"
          BY <1>0, <2>1 DEF End
        <4>2. A1 = Count(Tail(wire["server"]), "pong")
          BY <2>1, <2>3, <4>1
        <4> QED BY <1>0, <2>1, <4>1, <4>2, CountTail
      <3> HIDE DEF A, B, A1, B1
      <3>5. pongs' + A1 + B1 <= pings' /\ pongs' \in {pongs, pongs + 1}
        <4>1. A1 <= A /\ B1 <= B
          BY <1>4, <1>5, <3>3
        <4>2. (pongs' = pongs \/ (pongs' = pongs + 1 /\ A1 = A - 1)) /\ pings' = pings
          BY <2>2, <3>4
        <4> QED BY <1>0, <1>1, <1>2, <4>1, <4>2
      <3> QED BY <1>0, <1>3, <1>4, <1>5, <2>2, <3>3, <3>5
    <2>4. CASE wire' = Put(Consumed(e), e, Signal("pong")) /\ pongs' = pongs /\ f.type = "ping"
      <3>1. e = "client" /\ Other(e) = "server"
        BY <1>0, <2>1, <2>4 DEF End, Other
      <3>2. Signal("pong") \in WireFrame /\ Signal("pong").type = "pong"
        BY FrameMakes
      <3>3. wire'["client"] = Tail(wire["client"])
            /\ \/ wire'["server"] = wire["server"]
               \/ wire'["server"] = Append(wire["server"], Signal("pong"))
        <4>1. /\ Put(Consumed(e), e, Signal("pong"))[e] = Consumed(e)[e]
              /\ Put(Consumed(e), e, Signal("pong"))[Other(e)] =
                     IF Takes(Other(e)) THEN Append(Consumed(e)[Other(e)], Signal("pong"))
                                        ELSE Consumed(e)[Other(e)]
          BY <2>1, <3>2, PutAt
        <4> QED BY <2>1, <2>4, <3>1, <4>1
      <3>4. Fewer("client")
        BY <1>0, <2>1, <3>1, <3>3, FewerTail
      <3>5. B1 = B - 1
        BY <1>0, <2>1, <2>4, <3>1, <3>3, CountTail
      <3>6. A1 <= A + 1
        <4>1. Count(Append(wire["server"], Signal("pong")), "pong") = Count(wire["server"], "pong") + 1
          BY <1>0, <3>2, CountAppend
        <4>2. CASE wire'["server"] = wire["server"]
          BY <1>1, <4>2
        <4>3. CASE wire'["server"] = Append(wire["server"], Signal("pong"))
          BY <1>1, <4>1, <4>3
        <4> QED BY <3>3, <4>2, <4>3
      <3>7. NoPing'
        <4>1. /\ Len(Append(wire["server"], Signal("pong"))) = Len(wire["server"]) + 1
              /\ Len(wire["server"]) \in Nat
              /\ \A i \in 1 .. Len(wire["server"]) : Append(wire["server"], Signal("pong"))[i] = wire["server"][i]
              /\ Append(wire["server"], Signal("pong"))[Len(wire["server"]) + 1] = Signal("pong")
          BY <1>0, <3>2, QueueAppends
        <4>2. CASE wire'["server"] = wire["server"]
          BY <1>0, <4>2
        <4>3. CASE wire'["server"] = Append(wire["server"], Signal("pong"))
          <5> DEFINE v == Append(wire["server"], Signal("pong"))
          <5>1. wire'["server"] = v
            BY <4>3
          <5>2. ASSUME NEW i \in 1 .. Len(v) PROVE v[i].type # "ping"
            BY <1>0, <3>2, <4>1
          <5> QED BY <5>1, <5>2
        <4> QED BY <3>3, <4>2, <4>3
      <3> HIDE DEF A, B, A1, B1
      <3> QED BY <1>0, <1>1, <1>2, <1>3, <1>4, <2>2, <2>4, <3>4, <3>5, <3>6, <3>7
    <2> QED BY <2>2, <2>3, <2>4
  <1> QED BY <1>6, <1>7, <1>8

-----------------------------------------------------------------------------
(* The invariant is inductive.                                             *)

LEMMA InvInit == LinkInit => LinkInv
  <1> SUFFICES ASSUME LinkInit PROVE LinkInv
    OBVIOUS
  <1>1. LinkTypeOK
    <2>1. << >> \in Seq(WireFrame) /\ << >> \in Seq(Numbers)
      OBVIOUS
    <2>2. /\ wire \in [End -> Seq(WireFrame)] /\ delivered \in [End -> Seq(Numbers)]
          /\ sent \in [End -> Numbers \cup {0}]
          /\ closeCode \in [End -> Code \cup {NoStatus, Abnormal, TooBig}]
      BY <2>1 DEF LinkInit
    <2>3. pings \in 0 .. MaxPings /\ pongs \in 0 .. MaxPings
      BY MaxAssumption DEF LinkInit
    <2>4. \A e \in End : timer[e] => ready[e] = "CLOSING" /\ stream[e] # "closed"
      BY DEF LinkInit
    <2>5. closes \in [End -> Nat] /\ errors \in [End -> Nat]
      BY DEF LinkInit
    <2> QED BY <2>2, <2>3, <2>4, <2>5 DEF LinkInit, LinkTypeOK
  <1>2. EndsOK
    BY DEF LinkInit, EndsOK, OpeningOK, EndOK, ClosesOnce, OpenMeansWritable, Alive, End
  <1>3. WiresOK
    <2> SUFFICES ASSUME NEW x \in End PROVE FramesOK(x) /\ DeliveredOK(x) /\ Flows(x)
      BY DEF WiresOK
    <2>1. wire[x] = << >> /\ delivered[x] = << >> /\ sent[Other(x)] = 0 /\ closeCode[x] = Abnormal
      BY Ends DEF LinkInit
    <2>2. << >> = [i \in 1 .. 0 |-> i] /\ Len(<< >>) = 0
      OBVIOUS
    <2>3. FramesOK(x) /\ DeliveredOK(x)
      BY <2>1, <2>2 DEF FramesOK, DeliveredOK
    <2>4. FlowsAt(<< >>, 0, 0, Takes(x))
      BY <2>2, NoneInOrder DEF FlowsAt
    <2> QED BY <2>1, <2>2, <2>3, <2>4 DEF Flows
  <1>4. PongsOK
    <2>1. wire["client"] = << >> /\ wire["server"] = << >> /\ pings = 0 /\ pongs = 0
      BY DEF LinkInit, End
    <2> QED BY <2>1, CountNone DEF PongsOK
  <1>5. SentOK
    BY MaxAssumption DEF LinkInit, SentOK
  <1> QED BY <1>1, <1>2, <1>3, <1>4, <1>5 DEF LinkInv

LEMMA SentNext ==
    ASSUME LinkTypeOK, EndsOK, SentOK, [LinkNext]_linkVars, NEW e \in End
    PROVE  sent'[e] <= MaxSent[e] /\ sent'[e] \in Numbers \cup {0}
  <1>1. Other(e) \in End /\ Other(Other(e)) = e
    BY Ends
  <1>2. WireStep(Other(e)) /\ sent[e] \in Numbers \cup {0} /\ sent[e] <= MaxSent[e]
    BY <1>1, StepsOfWires DEF LinkTypeOK, SentOK
  <1>3. CASE sent'[e] = sent[e]
    BY <1>2, <1>3
  <1>4. ASSUME NEW f \in WireFrame, Sends(Other(e), f) PROVE sent'[e] <= MaxSent[e] /\ sent'[e] \in Numbers \cup {0}
    <2>1. /\ sent[e] < MaxSent[e]
          /\ \/ sent'[e] = sent[e] + 1 /\ f = Message(sent'[e])
             \/ sent'[e] = MaxSent[e]
      BY <1>1, <1>4 DEF Sends
    <2>2. sent[e] \in Nat
      BY QueueTypes
    <2>3. MaxSent[e] \in Numbers
      <3>1. MaxSent[e] \in Nat /\ MaxSent[e] >= 1
        BY <2>1, <2>2, QueueTypes
      <3>2. MaxSent["client"] \in Nat /\ MaxSent["server"] \in Nat /\ (e = "client" \/ e = "server")
        BY MaxAssumption DEF End
      <3> QED BY <3>1, <3>2 DEF Numbers
    <2>4. CASE sent'[e] = sent[e] + 1 /\ f = Message(sent'[e])
      <3>1. f.type = "message" /\ f.value = sent'[e]
        BY <2>4 DEF Message
      <3>2. sent'[e] \in Numbers
        BY <3>1, FrameType
      <3>3. MaxSent[e] \in Nat
        BY QueueTypes
      <3> QED BY <2>1, <2>2, <2>4, <3>2, <3>3
    <2>5. CASE sent'[e] = MaxSent[e]
      <3>1. MaxSent[e] \in Nat
        BY QueueTypes
      <3> QED BY <2>3, <2>5, <3>1
    <2> QED BY <2>1, <2>4, <2>5
  <1>5. CASE SocketOnClose(Other(e))
    BY <1>3, <1>5 DEF SocketOnClose
  <1> QED BY <1>1, <1>2, <1>3, <1>4, <1>5 DEF WireStep, Untouched, Shortened, Adds, Settled, Takes1

LEMMA TypesNext ==
    ASSUME LinkInv, [LinkNext]_linkVars, EndsOK', WiresOK'
    PROVE  LinkTypeOK'
  <1> USE DEF LinkInv
  <1>1. ControlOK'
    BY ControlNext
  <1>2. wire' \in [End -> Seq(WireFrame)]
    BY <1>1, WireTyped DEF ControlOK, Maps
  <1>3. sent' \in [End -> Numbers \cup {0}]
    BY <1>1, SentNext DEF ControlOK, Maps
  <1>4. delivered' \in [End -> Seq(Numbers)]
    <2> SUFFICES ASSUME NEW x \in End PROVE delivered'[x] \in Seq(Numbers)
      BY <1>1 DEF ControlOK, Maps
    <2> DEFINE s == delivered'[x]  n == sent'[Other(x)]
    <2>1. s = [i \in 1 .. Len(s) |-> i] /\ Len(s) <= n
      BY DEF WiresOK, DeliveredOK
    <2>2. n \in Numbers \cup {0} /\ n \in Nat
      <3>1. n \in Numbers \cup {0}
        BY <1>3, Ends
      <3> HIDE DEF n
      <3> QED BY <3>1, NumbersAreNat
    <2>3. Len(s) \in Nat
      <3>1. WireStep(x) /\ delivered[x] \in Seq(Numbers)
        BY StepsOfWires DEF LinkTypeOK
      <3>2. CASE delivered'[x] = delivered[x]
        BY <3>1, <3>2
      <3>3. ASSUME NEW v, delivered'[x] = Append(delivered[x], v) PROVE Len(s) \in Nat
        BY <3>1, <3>3
      <3>4. CASE SocketOnClose(x)
        <4>1. CASE delivered' = delivered
          BY <3>2, <4>1
        <4>2. CASE ~finRead[x] /\ Listening(x)
          <5>1. DeliveredOK(x) /\ Flows(x)
            BY <4>2 DEF WiresOK
          <5> DEFINE d == Len(delivered[x])
          <5>2. PICK c \in 0 .. sent[Other(x)] - d :
                    delivered[x] \o Values(Leftover(x).frames) = [i \in 1 .. d + c |-> i]
            BY <5>1, LeftoverFollows
          <5>3. delivered' = [delivered EXCEPT ![x] = delivered[x] \o Values(Leftover(x).frames)]
            BY <3>4, <4>2, Zenon DEF SocketOnClose
          <5>4. s = [i \in 1 .. d + c |-> i]
            BY <5>2, <5>3 DEF LinkTypeOK
          <5>5. d + c \in Nat /\ Len([i \in 1 .. d + c |-> i]) = d + c
            BY <3>1, QueueTypes
          <5> QED BY <5>4, <5>5
        <4>3. delivered' = delivered \/ (~finRead[x] /\ Listening(x))
          BY <3>4, Zenon DEF SocketOnClose
        <4> QED BY <4>1, <4>2, <4>3
      <3> QED BY <3>1, <3>2, <3>3, <3>4 DEF WireStep, Untouched, Shortened, Adds, Sends, Settled, Takes1
    <2>4. 1 .. Len(s) \subseteq Numbers
      <3>1. n = 0 \/ n \in 1 .. MaxSent["client"] + MaxSent["server"]
        BY <2>2 DEF Numbers
      <3> HIDE DEF n, s
      <3>2. MaxSent["client"] + MaxSent["server"] \in Nat
        BY MaxAssumption DEF End
      <3> QED BY <2>1, <2>2, <2>3, <3>1, <3>2 DEF Numbers
    <2> HIDE DEF s, n
    <2>5. s \in Seq(Numbers)
      <3> DEFINE m == Len(s)
      <3>1. m \in Nat /\ s = [i \in 1 .. m |-> i] /\ \A i \in 1 .. m : i \in Numbers
        BY <2>1, <2>3, <2>4
      <3> HIDE DEF m
      <3> QED BY <3>1
    <2> QED BY <2>5 DEF s
  <1>5. closeCode' \in [End -> Code \cup {NoStatus, Abnormal, TooBig}]
    <2> SUFFICES ASSUME NEW x \in End PROVE closeCode'[x] \in Code \cup {NoStatus, Abnormal, TooBig}
      BY <1>1 DEF ControlOK, Maps
    <2>1. WireStep(x) /\ closeCode[x] \in Code \cup {NoStatus, Abnormal, TooBig} /\ wire[x] \in Seq(WireFrame)
      BY StepsOfWires DEF LinkTypeOK
    <2>2. ASSUME Takes1(x) PROVE closeCode'[x] \in Code \cup {NoStatus, Abnormal, TooBig}
      <3>1. wire[x][1] \in WireFrame
        BY <2>1, <2>2, QueueTail DEF Takes1
      <3>2. wire[x][1].type = "close" => wire[x][1].value \in Code \cup {NoStatus, TooBig}
        BY <3>1, FrameType
      <3> QED BY <2>1, <2>2, <3>2 DEF Takes1
    <2>3. ASSUME SocketOnClose(x) PROVE closeCode'[x] \in Code \cup {NoStatus, Abnormal, TooBig}
      <3>1. closeCode' = closeCode
                \/ (Leftover(x).stop.type = "close"
                    /\ closeCode' = [closeCode EXCEPT ![x] = Leftover(x).stop.value])
        BY <2>3, Zenon DEF SocketOnClose, Concluded
      <3>2. PICK i \in 1 .. Len(wire[x]) + 1 :
                Leftover(x).stop.type = "close" => i \in 1 .. Len(wire[x]) /\ Leftover(x).stop = wire[x][i]
        BY LeftoverIs, Zenon
      <3>3. Leftover(x).stop.type = "close" => Leftover(x).stop \in WireFrame
        BY <2>1, <3>2
      <3>4. Leftover(x).stop.type = "close" => Leftover(x).stop.value \in Code \cup {NoStatus, TooBig}
        BY <3>3, FrameType
      <3>5. closeCode \in [End -> Code \cup {NoStatus, Abnormal, TooBig}]
        BY DEF LinkTypeOK
      <3> DEFINE c == Leftover(x).stop.value
      <3> HIDE DEF c
      <3> QED BY <2>1, <3>1, <3>4, <3>5 DEF c
    <2> QED BY <2>1, <2>2, <2>3 DEF WireStep, Untouched, Shortened, Adds, Sends, Settled
  <1>6. \A e \in End : timer'[e] => ready'[e] = "CLOSING" /\ stream'[e] # "closed"
    BY DEF EndsOK, EndOK
  <1>7. pings' \in 0 .. MaxPings /\ pongs' \in 0 .. MaxPings
    BY PongsNext
  <1> QED BY <1>1, <1>2, <1>3, <1>4, <1>5, <1>6, <1>7 DEF LinkTypeOK, ControlOK

LEMMA InvNext == LinkInv /\ [LinkNext]_linkVars => LinkInv'
  <1> SUFFICES ASSUME LinkInv, [LinkNext]_linkVars PROVE LinkInv'
    OBVIOUS
  <1>1. LinkTypeOK /\ EndsOK /\ WiresOK /\ PongsOK /\ SentOK
    BY DEF LinkInv
  <1>2. EndsOK'
    BY <1>1, EndsNext
  <1>3. WiresOK'
    BY <1>1, WiresNext
  <1>4. PongsOK'
    BY <1>1, PongsNext
  <1>5. SentOK'
    BY <1>1, SentNext DEF SentOK
  <1>6. LinkTypeOK'
    BY <1>2, <1>3, TypesNext
  <1> QED BY <1>2, <1>3, <1>4, <1>5, <1>6 DEF LinkInv

LEMMA InvHolds == LinkSpec => []LinkInv
  BY InvInit, InvNext, PTL DEF LinkSpec

\* Every variable of a connection has its type: the close timer runs only while
\* there is a socket to destroy, no end sends, delivers or is answered more than
\* there is, and the status of a close is a code, 1005, 1006 or 1009.
THEOREM LinkTypeCorrect == LinkSpec => []LinkTypeOK
  <1>1. LinkInv => LinkTypeOK
    BY DEF LinkInv
  <1> QED BY InvHolds, <1>1, PTL

\* What a connection says of itself is true: 'close' comes once and exactly when
\* readyState is CLOSED, 'error' at most once; a close status other than 1006 was
\* sent by the other end, and all it had sent before was delivered; an end that
\* is OPEN has a socket that takes what it writes.
THEOREM SaysWhatIsTrue == LinkSpec => []SaysWhatIs
  <1>1. LinkInv => SaysWhatIs
    <2>1. LinkInv => ClosesOnce /\ OpenMeansWritable
      BY DEF LinkInv, EndsOK
    <2>2. LinkInv => StatusMeansDelivered
      BY DEF LinkInv, WiresOK, DeliveredOK, StatusMeansDelivered
    <2> QED BY <2>1, <2>2 DEF SaysWhatIs
  <1> QED BY InvHolds, <1>1, PTL

-----------------------------------------------------------------------------
(* A connection implements the ordered channel.                            *)

Up(e) == ready[e] \in {"OPEN", "CLOSING"}

LEMMA PhaseIs ==
    /\ Phase = [e \in End |-> Phase[e]]
    /\ \A e \in End :
           /\ ready[e] = "CONNECTING" => Phase[e] = "new"
           /\ ready[e] = "CLOSED" => Phase[e] = "closed"
           /\ Up(e) => Phase[e] = "up"
  BY DEF Phase, Up

\* A step after which an end is up, or is closed.
LEMMA PhaseMoves ==
    ASSUME ready \in [End -> {"CONNECTING", "OPEN", "CLOSING", "CLOSED"}], NEW e \in End,
           NEW r \in {"OPEN", "CLOSING", "CLOSED"}, ready' = [ready EXCEPT ![e] = r]
    PROVE  Phase' = [Phase EXCEPT ![e] = IF r = "CLOSED" THEN "closed" ELSE "up"]
  BY DEF Phase

LEMMA ChannelQuiet ==
    ASSUME ready \in [End -> {"CONNECTING", "OPEN", "CLOSING", "CLOSED"}],
           ready' = ready
               \/ (\E e \in End : Up(e) /\ ready' = [ready EXCEPT ![e] = "CLOSING"]),
           UNCHANGED <<sent, delivered>>
    PROVE  UNCHANGED Channel!channelVars
  <1>1. Phase' = Phase
    <2>1. CASE ready' = ready
      BY <2>1 DEF Phase
    <2>2. ASSUME NEW e \in End, Up(e), ready' = [ready EXCEPT ![e] = "CLOSING"] PROVE Phase' = Phase
      BY <2>2 DEF Phase, Up
    <2> QED BY <2>1, <2>2
  <1> QED BY <1>1 DEF Channel!channelVars

LEMMA ChannelComesUp ==
    ASSUME ready \in [End -> {"CONNECTING", "OPEN", "CLOSING", "CLOSED"}], NEW e \in End,
           NEW r \in {"OPEN", "CLOSING"}, ready' = [ready EXCEPT ![e] = r], ready[e] = "CONNECTING",
           UNCHANGED <<sent, delivered>>
    PROVE  Channel!ChannelNext
  <1>1. Phase[e] = "new" /\ Phase' = [Phase EXCEPT ![e] = "up"]
    BY PhaseIs, PhaseMoves
  <1>2. Channel!ComeUp(e)
    BY <1>1 DEF Channel!ComeUp
  <1> QED BY <1>2 DEF Channel!ChannelNext, Channel!Ends, End

LEMMA ChannelShuts ==
    ASSUME ready \in [End -> {"CONNECTING", "OPEN", "CLOSING", "CLOSED"}], NEW e \in End,
           ready' = [ready EXCEPT ![e] = "CLOSED"], ready[e] # "CLOSED", UNCHANGED <<sent, delivered>>
    PROVE  Channel!ChannelNext
  <1>1. Phase[e] \in {"new", "up"} /\ Phase' = [Phase EXCEPT ![e] = "closed"]
    BY PhaseIs, PhaseMoves DEF Up
  <1>2. Channel!Shut(e)
    BY <1>1 DEF Channel!Shut
  <1> QED BY <1>2 DEF Channel!ChannelNext, Channel!Ends, End

\* More comes out: the first n messages, as long as they were posted.
LEMMA ChannelDelivers ==
    ASSUME ready \in [End -> {"CONNECTING", "OPEN", "CLOSING", "CLOSED"}], NEW e \in End, Up(e),
           ready' = ready \/ ready' = [ready EXCEPT ![e] = "CLOSING"], sent' = sent,
           NEW n \in Len(delivered[e]) .. sent[Other(e)],
           delivered' = [delivered EXCEPT ![e] = [i \in 1 .. n |-> i]]
    PROVE  Channel!ChannelNext
  <1>1. Phase[e] = "up"
    BY PhaseIs
  <1>2. Phase' = Phase
    BY DEF Phase, Up
  <1>3. Channel!Peer(e) = Other(e)
    BY DEF Channel!Peer, Other
  <1>4. Channel!UpTo(n) = [i \in 1 .. n |-> i]
    BY DEF Channel!UpTo
  <1>5. Channel!ComeOut(e)
    BY <1>1, <1>2, <1>3, <1>4 DEF Channel!ComeOut
  <1> QED BY <1>5 DEF Channel!ChannelNext, Channel!Ends, End

LEMMA ChannelInits == LinkInit => Channel!ChannelInit
  BY DEF LinkInit, Channel!ChannelInit, Channel!Ends, End, Phase

LEMMA ChannelSteps ==
    LinkInv /\ [LinkNext]_linkVars => [Channel!ChannelNext]_(Channel!channelVars)
  <1> SUFFICES ASSUME LinkInv, [LinkNext]_linkVars
               PROVE  Channel!ChannelNext \/ UNCHANGED Channel!channelVars
    OBVIOUS
  <1> DEFINE Goal == Channel!ChannelNext \/ UNCHANGED Channel!channelVars
  <1>0. /\ LinkTypeOK /\ EndsOK /\ WiresOK
        /\ ready \in [End -> {"CONNECTING", "OPEN", "CLOSING", "CLOSED"}]
        /\ delivered \in [End -> Seq(Numbers)] /\ "client" \in End /\ "server" \in End
    BY DEF LinkInv, LinkTypeOK, End
  <1>1. ASSUME UNCHANGED <<ready, sent, delivered>> PROVE Goal
    BY <1>0, <1>1, ChannelQuiet
  <1>2. ASSUME NEW e \in End, Up(e), ready' = [ready EXCEPT ![e] = "CLOSING"], UNCHANGED <<sent, delivered>>
        PROVE  Goal
    BY <1>0, <1>2, ChannelQuiet
  <1>3. ASSUME NEW e \in End, Alive(e) \/ stream[e] = "destroyed" PROVE Up(e)
    BY <1>0, <1>3 DEF EndsOK, EndOK, Up
  <1>4. ASSUME NEW e \in End, stream[e] = "closed", receiver[e] \notin {"finished", "errored"}
        PROVE  ready[e] = "CLOSING"
    BY <1>0, <1>4 DEF EndsOK, EndOK
  <1> HIDE DEF Goal
  <1> SUFFICES Goal
    BY DEF Goal
  <1> USE DEF traffic
  <1>5. CASE Accept
    <2>1. ready["server"] = "CONNECTING"
      BY <1>0, <1>5 DEF Accept, EndsOK, OpeningOK
    <2> QED BY <1>0, <1>5, <2>1, ChannelComesUp DEF Accept, Established, Goal
  <1>6. CASE Upgraded
    BY <1>0, <1>6, ChannelComesUp DEF Upgraded, Established, Goal
  <1>7. CASE RequestFails
    <2>1. ready["client"] = "CONNECTING"
      BY <1>0, <1>7 DEF RequestFails, EndsOK, OpeningOK
    <2> QED BY <1>0, <1>7, <2>1, ChannelShuts DEF RequestFails, Goal
  <1>8. ASSUME AbortRequest, ready["client"] = "CONNECTING" PROVE Goal
    BY <1>0, <1>8, ChannelComesUp DEF AbortRequest, Goal
  <1>9. CASE Refused
    <2>1. ready["client"] = "CONNECTING"
      BY <1>0, <1>9 DEF Refused, EndsOK, OpeningOK
    <2> QED BY <1>8, <1>9, <2>1 DEF Refused
  <1>10. CASE Aborted
    <2>1. ready["client"] = "CLOSING"
      BY <1>0, <1>10 DEF Aborted, EndsOK, OpeningOK
    <2> QED BY <1>0, <1>10, <2>1, ChannelShuts DEF Aborted, Goal
  <1>11. CASE Ping \/ Cut
    BY <1>1, <1>11 DEF Ping, Cut
  <1>12. ASSUME NEW e \in End, Send(e) PROVE Goal
    <2>1. /\ ready[e] = "OPEN" /\ UNCHANGED <<ready, delivered>>
          /\ \E n \in {sent[e] + 1, MaxSent[e]} : sent' = [sent EXCEPT ![e] = n]
      BY <1>12 DEF Send
    <2>2. Phase[e] = "up" /\ Phase' = Phase
      BY <2>1, PhaseIs DEF Up, Phase
    <2>3. Channel!Post(e)
      BY <2>1, <2>2 DEF Channel!Post
    <2> QED BY <2>3 DEF Channel!ChannelNext, Channel!Ends, End, Goal
  <1>13. ASSUME NEW e \in End, NEW c \in Code \cup {NoStatus}, Close(e, c) PROVE Goal
    <2>1. CASE ready[e] = "OPEN" /\ StartClose(e, c) /\ UNCHANGED traffic
      BY <1>2, <2>1 DEF StartClose, Up
    <2>2. CASE UNCHANGED <<ready, traffic>>
      BY <1>1, <2>2
    <2> QED BY <1>8, <1>13, <2>1, <2>2 DEF Close
  <1>14. ASSUME NEW e \in End, Terminate(e) PROVE Goal
    BY <1>2, <1>8, <1>14 DEF Terminate, Up
  <1>15. ASSUME NEW e \in End, Pause(e) \/ Resume(e) \/ ReadOversized(e) \/ FrameWritten(e) \/ CloseTimerFires(e)
         PROVE  Goal
    BY <1>1, <1>15 DEF Pause, Resume, ReadOversized, FrameWritten, CloseTimerFires
  <1>16. ASSUME NEW e \in End, ReadFrame(e) PROVE Goal
    <2>1. Up(e) /\ wire[e] # << >> /\ UNCHANGED <<ready, sent>>
      BY <1>3, <1>16 DEF ReadFrame, Reads
    <2>2. CASE delivered' = delivered
      BY <1>1, <2>1, <2>2
    <2>3. CASE /\ Listening(e) /\ wire[e][1].type = "message"
               /\ delivered' = [delivered EXCEPT ![e] = Append(@, wire[e][1].value)]
      <3> DEFINE d == Len(delivered[e])  n == sent[Other(e)]  w == wire[e]
      <3>1. DeliveredOK(e) /\ InOrder(w, d, n)
        BY <1>0, <2>3 DEF WiresOK, Flows, FlowsAt
      <3>2. w \in Seq(WireFrame) /\ d \in Nat /\ n \in Nat
        BY <1>0, QueueTypes
      <3>3. w[1].value = d + 1 /\ d + 1 <= n
        <4>1. w # << >> /\ w[1].type = "message"
          BY <2>1, <2>3
        <4> HIDE DEF d, n, w
        <4> QED BY <3>1, <3>2, <4>1, HeadInOrder
      <3>4. delivered[e] = [i \in 1 .. d |-> i]
        BY <3>1 DEF DeliveredOK
      <3>5. Append([i \in 1 .. d |-> i], d + 1) = [i \in 1 .. d + 1 |-> i]
        <4> HIDE DEF d
        <4>1. 0 \in Nat /\ d \in Nat
          BY <3>2
        <4> QED BY <4>1, NumbersJoin
      <3>6. delivered' = [delivered EXCEPT ![e] = [i \in 1 .. d + 1 |-> i]]
        BY <2>3, <3>3, <3>4, <3>5
      <3>7. d + 1 \in d .. n
        BY <3>2, <3>3
      <3> QED BY <1>0, <2>1, <3>6, <3>7, ChannelDelivers DEF Goal
    <2>4. delivered' = delivered
              \/ (/\ Listening(e) /\ wire[e][1].type = "message"
                  /\ delivered' = [delivered EXCEPT ![e] = Append(@, wire[e][1].value)])
      <3>1. Head(wire[e]) = wire[e][1]
        BY <1>0, <2>1, QueueTail DEF LinkTypeOK
      <3> QED BY <1>16, <3>1 DEF ReadFrame, Reads, Arriving
    <2> QED BY <2>2, <2>3, <2>4
  <1>17. ASSUME NEW e \in End, ReadClose(e) PROVE Goal
    BY <1>1, <1>2, <1>17 DEF ReadClose, Up
  <1>18. ASSUME NEW e \in End, ReadFin(e) PROVE Goal
    BY <1>2, <1>3, <1>18 DEF ReadFin, Reads
  <1>19. ASSUME NEW e \in End, ReceiverFails(e) PROVE Goal
    <2>1. CASE stream[e] = "closed" /\ EmitClose(e)
      <3>1. ready[e] = "CLOSING"
        BY <1>4, <1>19, <2>1 DEF ReceiverFails
      <3> QED BY <1>0, <1>19, <2>1, <3>1, ChannelShuts DEF ReceiverFails, EmitClose, Goal
    <2>2. CASE ready[e] = "OPEN" /\ StartClose(e, TooBig)
      BY <1>2, <1>19, <2>2 DEF ReceiverFails, StartClose, Up
    <2>3. CASE UNCHANGED ready
      BY <1>1, <1>19, <2>3 DEF ReceiverFails
    <2> QED BY <1>19, <2>1, <2>2, <2>3 DEF ReceiverFails
  <1>20. ASSUME NEW e \in End, ReceiverFinishes(e) PROVE Goal
    <2>1. CASE stream[e] = "closed" /\ EmitClose(e)
      <3>1. ready[e] = "CLOSING"
        BY <1>4, <1>20, <2>1 DEF ReceiverFinishes
      <3> QED BY <1>0, <1>20, <2>1, <3>1, ChannelShuts DEF ReceiverFinishes, EmitClose, Goal
    <2>2. CASE UNCHANGED ready
      BY <1>1, <1>20, <2>2 DEF ReceiverFinishes
    <2> QED BY <1>20, <2>1, <2>2 DEF ReceiverFinishes
  <1>21. ASSUME NEW e \in End, SocketError(e) PROVE Goal
    BY <1>2, <1>3, <1>21 DEF SocketError
  <1>22. ASSUME NEW e \in End, SocketOnClose(e) PROVE Goal
    <2> DEFINE d == Len(delivered[e])  n == sent[Other(e)]
               reads == ~finRead[e] /\ Listening(e)
               rest == Values(Leftover(e).frames)
    <2>1. Up(e) /\ stream[e] # "closed"
      BY <1>3, <1>22 DEF SocketOnClose, Alive
    <2>2. /\ sent' = sent
          /\ delivered' = IF reads THEN [delivered EXCEPT ![e] = delivered[e] \o rest] ELSE delivered
          /\ IF receiver[e] \in {"finished", "errored"} THEN EmitClose(e)
                                                        ELSE ready' = [ready EXCEPT ![e] = "CLOSING"]
      BY <1>22, Zenon DEF SocketOnClose
    <2>3. CASE reads
      \* Who still listens has no receiver that is done: it does not close here.
      <3>1. receiver[e] \notin {"finished", "errored"}
        BY <1>0, <2>1, <2>3 DEF EndsOK, EndOK, Listening
      <3>2. DeliveredOK(e) /\ Flows(e)
        BY <1>0, <2>3 DEF WiresOK
      <3>3. PICK c \in 0 .. n - d : delivered[e] \o rest = [i \in 1 .. d + c |-> i]
        BY <1>0, <3>2, LeftoverFollows
      <3>4. d + c \in d .. n
        <4>1. d \in Nat /\ n \in Nat
          BY <1>0, QueueTypes
        <4> QED BY <4>1
      <3>5. delivered' = [delivered EXCEPT ![e] = [i \in 1 .. d + c |-> i]]
        BY <2>2, <2>3, <3>3
      <3>6. ready' = [ready EXCEPT ![e] = "CLOSING"] /\ sent' = sent
        BY <2>2, <3>1
      <3> HIDE DEF rest
      <3> QED BY <1>0, <2>1, <3>4, <3>5, <3>6, ChannelDelivers DEF Goal
    <2>4. CASE ~reads /\ EmitClose(e)
      BY <1>0, <2>1, <2>2, <2>4, ChannelShuts DEF EmitClose, Up, Goal
    <2>5. CASE ~reads /\ ready' = [ready EXCEPT ![e] = "CLOSING"]
      BY <1>2, <2>1, <2>2, <2>5
    <2> QED BY <2>2, <2>3, <2>4, <2>5
  <1>23. CASE UNCHANGED linkVars
    BY <1>1, <1>23 DEF linkVars
  <1> QED
    BY <1>5, <1>6, <1>7, <1>9, <1>10, <1>11, <1>12, <1>13, <1>14, <1>15, <1>16, <1>17, <1>18,
       <1>19, <1>20, <1>21, <1>22, <1>23 DEF LinkNext, Read, Tick

\* The connection is an ordered channel to the program: an end comes up and
\* closes once, and what comes out of it are the messages posted at the other
\* end, in order and without gaps, also where a paused socket gives up at its
\* close what it had read ahead.
THEOREM LinkIsAnOrderedChannel == LinkSpec => IsOrderedChannel
  BY InvHolds, ChannelInits, ChannelSteps, PTL DEF LinkSpec, IsOrderedChannel, Channel!ChannelSpec
-----------------------------------------------------------------------------
(* The handshake and the server.                                           *)

\* What the two ends make of the options, once and for all connections.
Accepted == AcceptAsServer(hsServerOptions, Offer(hsClientOptions))
Asked == AcceptAsClient(hsClientOptions, Accepted)

OptionsOK ==
    /\ hsClientOptions \in {NoDeflate} \cup DeflateOption
    /\ hsServerOptions \in {NoDeflate} \cup DeflateOption

\* What a connection may carry at each phase.
ParamsOf(s) ==
    /\ \/ hsServerParams[s] = << >>
       \/ /\ Negotiated /\ Acceptable(hsServerOptions, Offer(hsClientOptions))
          /\ hsServerParams[s] = <<Accepted>>
    /\ \/ hsClientParams[s] = << >>
       \/ /\ hsServerParams[s] = <<Accepted>> /\ ~Unexpected(hsClientOptions, Accepted)
          /\ hsClientParams[s] = <<Asked>>
    /\ hsPhase[s] \notin {"open", "closed"} => hsClientParams[s] = << >>
    /\ hsPhase[s] = "open" => (hsServerParams[s] = << >> <=> hsClientParams[s] = << >>)

HsPhase == {"new", "refused", "answered", "open", "aborted", "closed"}
HsTyped ==
    /\ hsPhase \in [HsSocket -> HsPhase]
    /\ hsServerParams = [s \in HsSocket |-> hsServerParams[s]]
    /\ hsClientParams = [s \in HsSocket |-> hsClientParams[s]]

\* The server says 'close' once, and is on its way to it from its own close or
\* from the last client on.
Closing ==
    /\ wssListening \in BOOLEAN /\ wssShouldEmit \in BOOLEAN
    /\ wssListening = (wssState = "RUNNING")
    /\ \/ /\ wssState = "RUNNING" /\ wssShouldEmit = FALSE /\ wssTicks = 0 /\ wssCloses = 0
       \/ /\ wssState = "CLOSING" /\ wssShouldEmit = TRUE /\ wssClients # {} /\ wssTicks = 0 /\ wssCloses = 0
       \/ /\ wssState = "CLOSING" /\ wssClients = {} /\ wssTicks = 1 /\ wssCloses = 0
       \/ /\ wssState = "CLOSED" /\ wssClients = {} /\ wssTicks = 0 /\ wssCloses = 1

HsInv == OptionsOK /\ HsTyped /\ (\A s \in HsSocket : ParamsOf(s)) /\ ClientsAreConnected /\ Closing

-----------------------------------------------------------------------------
(* What the negotiation makes of any two ends' options.                    *)

LEMMA WindowsFit ==
    ASSUME NEW co \in DeflateOption, NEW so \in DeflateOption, Acceptable(so, Offer(co))
    PROVE  LET v == AcceptAsServer(so, Offer(co))
               c == AcceptAsClient(co, v)
           IN  /\ v \in Params
               /\ ~Unexpected(co, v) =>
                      /\ c \in Params
                      /\ Compresses(c.cmwb, v.cmwb, co.cmwb)
                      /\ Compresses(v.smwb, c.smwb, co.smwb)
                      /\ Bits(c.cmwb) <= Bits(so.cmwb)
                      /\ Bits(v.smwb) <= Bits(so.smwb)
                      /\ c.cnct = v.cnct /\ c.snct = v.snct
  <1> DEFINE p == Offer(co)
  <1> DEFINE v == AcceptAsServer(so, p)
  <1> DEFINE c == AcceptAsClient(co, v)
  <1> USE DEF WindowOption, Bare, Never, Unset, Absent
  <1>1. /\ co.smwb \in WindowOption /\ co.cmwb \in WindowOption
        /\ so.smwb \in WindowOption /\ so.cmwb \in WindowOption
    BY DEF DeflateOption
  <1>2. /\ p.snct \in BOOLEAN /\ p.cnct \in BOOLEAN
        /\ p.smwb = (IF co.smwb >= Bare THEN co.smwb ELSE Absent)
        /\ p.cmwb = (IF co.cmwb >= Bare THEN co.cmwb ELSE IF co.cmwb = Unset THEN Bare ELSE Absent)
    BY DEF Offer
  <1>3. /\ v = [snct |-> v.snct, cnct |-> v.cnct, smwb |-> v.smwb, cmwb |-> v.cmwb]
        /\ v.snct \in BOOLEAN /\ v.cnct \in BOOLEAN
        /\ v.smwb = (IF IsNumber(so.smwb) THEN so.smwb ELSE p.smwb)
        /\ v.cmwb = (IF IsNumber(so.cmwb) THEN so.cmwb
                     ELSE IF p.cmwb = Bare \/ so.cmwb = Never THEN Absent ELSE p.cmwb)
    BY <1>2 DEF AcceptAsServer
  <1>4. /\ p.smwb # Bare
        /\ p.smwb # Absent => so.smwb # Never /\ ~(IsNumber(so.smwb) /\ Bits(so.smwb) > p.smwb)
        /\ ~(IsNumber(so.cmwb) /\ p.cmwb = Absent)
    BY DEF Acceptable
  <1> HIDE DEF p
  <1>5. v.smwb \in {Absent} \cup 8 .. 15 /\ v.cmwb \in {Absent} \cup 8 .. 15
    BY <1>1, <1>2, <1>3, <1>4 DEF IsNumber
  <1> HIDE DEF v
  <1>6. v \in Params
    BY <1>3, <1>5 DEF Params
  <1>7. ASSUME ~Unexpected(co, v)
        PROVE  /\ c \in Params
               /\ Compresses(c.cmwb, v.cmwb, co.cmwb)
               /\ Compresses(v.smwb, c.smwb, co.smwb)
               /\ Bits(c.cmwb) <= Bits(so.cmwb)
               /\ Bits(v.smwb) <= Bits(so.smwb)
               /\ c.cnct = v.cnct /\ c.snct = v.snct
    <2>1. v.cmwb # Absent => co.cmwb # Never /\ ~(IsNumber(co.cmwb) /\ v.cmwb > Bits(co.cmwb))
      BY <1>7 DEF Unexpected
    <2>2. /\ c.snct = v.snct /\ c.cnct = v.cnct /\ c.smwb = v.smwb
          /\ c.cmwb = (IF v.cmwb = Absent /\ IsNumber(co.cmwb) THEN co.cmwb ELSE v.cmwb)
          /\ c = [snct |-> c.snct, cnct |-> c.cnct, smwb |-> c.smwb, cmwb |-> c.cmwb]
      BY <1>3 DEF AcceptAsClient
    <2> HIDE DEF c
    <2>3. c.cmwb \in {Absent} \cup 8 .. 15
      BY <1>1, <1>5, <2>2 DEF IsNumber
    <2>4. c \in Params
      BY <1>3, <1>5, <2>2, <2>3 DEF Params
    <2>5. Compresses(c.cmwb, v.cmwb, co.cmwb) /\ Bits(c.cmwb) <= Bits(so.cmwb)
      BY <1>1, <1>2, <1>3, <1>4, <1>5, <2>1, <2>2 DEF Compresses, Bits, IsNumber
    <2>6. Compresses(v.smwb, c.smwb, co.smwb) /\ Bits(v.smwb) <= Bits(so.smwb)
      BY <1>1, <1>2, <1>3, <1>4, <1>5, <2>2 DEF Compresses, Bits, IsNumber
    <2> QED BY <2>2, <2>4, <2>5, <2>6
  <1> QED BY <1>6, <1>7 DEF v, p

LEMMA NegotiatedFits ==
    ASSUME OptionsOK, Negotiated, Acceptable(hsServerOptions, Offer(hsClientOptions))
    PROVE  /\ Accepted \in Params
           /\ ~Unexpected(hsClientOptions, Accepted) =>
                  /\ Asked \in Params
                  /\ Compresses(Asked.cmwb, Accepted.cmwb, hsClientOptions.cmwb)
                  /\ Compresses(Accepted.smwb, Asked.smwb, hsClientOptions.smwb)
                  /\ Bits(Asked.cmwb) <= Bits(hsServerOptions.cmwb)
                  /\ Bits(Accepted.smwb) <= Bits(hsServerOptions.smwb)
                  /\ Asked.cnct = Accepted.cnct /\ Asked.snct = Accepted.snct
  <1>1. hsClientOptions \in DeflateOption /\ hsServerOptions \in DeflateOption
    BY DEF OptionsOK, Negotiated, NoDeflate
  <1> QED BY <1>1, WindowsFit DEF Accepted, Asked

-----------------------------------------------------------------------------
(* The steps.                                                              *)

LEMMA HsInvHolds == HsInit => HsInv
  <1> SUFFICES ASSUME HsInit PROVE HsInv
    OBVIOUS
  <1>1. OptionsOK
    BY OptionsAssumption DEF HsInit, OptionsOK
  <1>2. HsTyped /\ ClientsAreConnected /\ Closing
    BY DEF HsInit, HsTyped, HsPhase, ClientsAreConnected, Closing
  <1>3. \A s \in HsSocket : ParamsOf(s)
    BY DEF HsInit, ParamsOf
  <1> QED BY <1>1, <1>2, <1>3 DEF HsInv

\* The step of one connection: the options and the others stay.
OthersAsTheyWere(s) ==
    /\ UNCHANGED hsOptions
    /\ \A t \in HsSocket : t # s =>
          /\ hsPhase'[t] = hsPhase[t]
          /\ hsServerParams'[t] = hsServerParams[t] /\ hsClientParams'[t] = hsClientParams[t]

LEMMA OptionsStay ==
    ASSUME UNCHANGED hsOptions
    PROVE  /\ OptionsOK => OptionsOK'
           /\ Accepted' = Accepted /\ Asked' = Asked /\ Negotiated' = Negotiated
           /\ Acceptable(hsServerOptions, Offer(hsClientOptions))' =
                  Acceptable(hsServerOptions, Offer(hsClientOptions))
           /\ Unexpected(hsClientOptions, Accepted)' = Unexpected(hsClientOptions, Accepted)
  BY DEF hsOptions, OptionsOK, Accepted, Asked, Negotiated

LEMMA OthersKeepParams ==
    ASSUME NEW s \in HsSocket, OthersAsTheyWere(s), \A t \in HsSocket : ParamsOf(t), ParamsOf(s)'
    PROVE  \A t \in HsSocket : ParamsOf(t)'
  <1>1. ASSUME NEW t \in HsSocket, t # s PROVE ParamsOf(t)'
    BY <1>1, OptionsStay DEF OthersAsTheyWere, ParamsOf
  <1> QED BY <1>1

LEMMA ConnectionSteps ==
    ASSUME HsInv, NEW s \in HsSocket,
           \/ BadRequest(s) \/ HandleUpgrade(s) \/ ClientUpgrade(s) \/ NobodyListens(s) \/ ClientClosed(s)
    PROVE  HsInv'
  <1>0. OptionsOK /\ HsTyped /\ (\A t \in HsSocket : ParamsOf(t)) /\ ClientsAreConnected /\ Closing
    BY DEF HsInv
  <1>1. UNCHANGED hsOptions
    BY DEF BadRequest, HandleUpgrade, ClientUpgrade, NobodyListens, ClientClosed, CompleteUpgrade
  <1>2. OptionsOK'
    BY <1>0, <1>1, OptionsStay
  <1> DEFINE Declined == /\ hsPhase[s] = "new" /\ hsPhase' = [hsPhase EXCEPT ![s] = "refused"]
                        /\ UNCHANGED <<hsServerParams, hsClientParams, wssVars>>
  <1> DEFINE Completed(ps) == /\ hsPhase[s] = "new" /\ wssListening /\ CompleteUpgrade(s, ps)
  <1>3. CASE Declined
    <2>1. HsTyped' /\ OthersAsTheyWere(s) /\ hsPhase'[s] = "refused"
      BY <1>0, <1>1, <1>3 DEF HsTyped, HsPhase, OthersAsTheyWere
    <2>2. ParamsOf(s)'
      BY <1>0, <1>1, <1>3, <2>1, OptionsStay DEF ParamsOf
    <2>3. ClientsAreConnected'
      BY <1>0, <1>3, <2>1 DEF ClientsAreConnected, wssVars, OthersAsTheyWere
    <2>4. Closing'
      BY <1>0, <1>3 DEF Closing, wssVars
    <2> QED BY <1>0, <1>2, <2>1, <2>2, <2>3, <2>4, OthersKeepParams DEF HsInv
  <1>4. ASSUME NEW ps, Completed(ps),
               \/ ps = << >>
               \/ /\ Negotiated /\ Acceptable(hsServerOptions, Offer(hsClientOptions))
                  /\ ps = <<Accepted>>
        PROVE  HsInv'
    <2>1. /\ hsPhase[s] = "new" /\ wssListening
          /\ hsPhase' = [hsPhase EXCEPT ![s] = "answered"]
          /\ hsServerParams' = [hsServerParams EXCEPT ![s] = ps]
          /\ wssClients' = wssClients \cup {s}
          /\ UNCHANGED <<hsOptions, hsClientParams, wssState, wssListening, wssShouldEmit, wssTicks, wssCloses>>
      BY <1>4 DEF CompleteUpgrade
    <2>2. HsTyped' /\ OthersAsTheyWere(s) /\ hsPhase'[s] = "answered" /\ hsServerParams'[s] = ps
      BY <1>0, <2>1 DEF HsTyped, HsPhase, OthersAsTheyWere
    <2>3. hsClientParams'[s] = << >>
      BY <1>0, <2>1 DEF ParamsOf
    <2>4. ParamsOf(s)'
      BY <1>1, <1>4, <2>2, <2>3, OptionsStay DEF ParamsOf
    <2>5. ClientsAreConnected'
      BY <1>0, <2>1, <2>2 DEF ClientsAreConnected, OthersAsTheyWere
    <2>6. Closing'
      BY <1>0, <2>1 DEF Closing
    <2> QED BY <1>0, <1>2, <2>2, <2>4, <2>5, <2>6, OthersKeepParams DEF HsInv
  <1>5. CASE HandleUpgrade(s)
    <2>1. \/ Completed(<< >>)
          \/ /\ Negotiated /\ Acceptable(hsServerOptions, Offer(hsClientOptions))
             /\ Completed(<<Accepted>>)
          \/ Declined
      BY <1>5, Zenon DEF HandleUpgrade, Accepted
    <2> HIDE DEF Declined, Completed
    <2> QED BY <1>3, <1>4, <2>1
  <1>6. CASE BadRequest(s) \/ NobodyListens(s)
    BY <1>3, <1>6 DEF BadRequest, NobodyListens
  <1>7. CASE ClientUpgrade(s)
    <2>1. /\ hsPhase[s] = "answered" /\ UNCHANGED <<hsServerParams, wssVars>>
          /\ \/ /\ hsServerParams[s] = << >>
                /\ hsPhase' = [hsPhase EXCEPT ![s] = "open"] /\ UNCHANGED hsClientParams
             \/ /\ hsServerParams[s] # << >>
                /\ hsPhase' = [hsPhase EXCEPT ![s] = "aborted"] /\ UNCHANGED hsClientParams
             \/ /\ hsServerParams[s] # << >> /\ ~Unexpected(hsClientOptions, hsServerParams[s][1])
                /\ hsPhase' = [hsPhase EXCEPT ![s] = "open"]
                /\ hsClientParams' = [hsClientParams EXCEPT ![s] =
                       <<AcceptAsClient(hsClientOptions, hsServerParams[s][1])>>]
      BY <1>7 DEF ClientUpgrade
    <2>2. /\ hsServerParams[s] # << >> => hsServerParams[s] = <<Accepted>> /\ hsServerParams[s][1] = Accepted
          /\ hsClientParams[s] = << >>
      BY <1>0, <2>1 DEF ParamsOf
    <2>3. /\ HsTyped' /\ OthersAsTheyWere(s) /\ hsServerParams'[s] = hsServerParams[s]
          /\ hsPhase'[s] \in {"open", "aborted"}
      BY <1>0, <1>1, <2>1 DEF HsTyped, HsPhase, OthersAsTheyWere
    <2>4. \/ /\ hsServerParams[s] = << >> /\ hsPhase'[s] = "open" /\ hsClientParams'[s] = << >>
          \/ /\ hsServerParams[s] = <<Accepted>> /\ hsPhase'[s] = "aborted" /\ hsClientParams'[s] = << >>
          \/ /\ hsServerParams[s] = <<Accepted>> /\ ~Unexpected(hsClientOptions, Accepted)
             /\ hsPhase'[s] = "open" /\ hsClientParams'[s] = <<Asked>>
      BY <1>0, <2>1, <2>2 DEF HsTyped, Asked
    <2>5. ParamsOf(s)'
      <3>1. <<Accepted>> # << >> /\ <<Asked>> # << >>
        OBVIOUS
      <3> QED BY <1>0, <1>1, <2>3, <2>4, <3>1, OptionsStay DEF ParamsOf
    <2>6. ClientsAreConnected'
      BY <1>0, <2>1, <2>3 DEF ClientsAreConnected, wssVars, OthersAsTheyWere
    <2>7. Closing'
      BY <1>0, <2>1 DEF Closing, wssVars
    <2> QED BY <1>0, <1>2, <2>3, <2>5, <2>6, <2>7, OthersKeepParams DEF HsInv
  <1>8. CASE ClientClosed(s)
    <2>1. /\ hsPhase[s] \in {"answered", "open", "aborted"}
          /\ hsPhase' = [hsPhase EXCEPT ![s] = "closed"]
          /\ wssClients' = wssClients \ {s}
          /\ wssTicks' = IF wssShouldEmit /\ wssClients' = {} THEN wssTicks + 1 ELSE wssTicks
          /\ UNCHANGED <<hsServerParams, hsClientParams, wssState, wssListening, wssShouldEmit, wssCloses>>
      BY <1>8 DEF ClientClosed, LastOne, Remaining
    <2>2. HsTyped' /\ OthersAsTheyWere(s) /\ hsPhase'[s] = "closed"
      BY <1>0, <1>1, <2>1 DEF HsTyped, HsPhase, OthersAsTheyWere
    <2>3. ParamsOf(s)'
      BY <1>0, <1>1, <2>1, <2>2, OptionsStay DEF ParamsOf
    <2>4. ClientsAreConnected' /\ s \in wssClients
      BY <1>0, <2>1, <2>2 DEF ClientsAreConnected, OthersAsTheyWere
    <2>5. Closing'
      BY <1>0, <2>1, <2>4 DEF Closing
    <2> QED BY <1>0, <1>2, <2>2, <2>3, <2>4, <2>5, OthersKeepParams DEF HsInv
  <1> QED BY <1>5, <1>6, <1>7, <1>8

LEMMA HsInvStays == HsInv /\ [HsNext]_hsVars => HsInv'
  <1> SUFFICES ASSUME HsInv, [HsNext]_hsVars PROVE HsInv'
    OBVIOUS
  <1>0. OptionsOK /\ HsTyped /\ (\A t \in HsSocket : ParamsOf(t)) /\ ClientsAreConnected /\ Closing
    BY DEF HsInv
  <1>a. ASSUME UNCHANGED <<hsOptions, hsPhase, hsServerParams, hsClientParams, wssClients>>, Closing' PROVE HsInv'
    <2>1. OptionsOK' /\ \A t \in HsSocket : ParamsOf(t)'
      BY <1>0, <1>a, OptionsStay DEF ParamsOf
    <2>2. HsTyped' /\ ClientsAreConnected'
      BY <1>0, <1>a DEF HsTyped, ClientsAreConnected
    <2> QED BY <1>a, <2>1, <2>2 DEF HsInv
  <1>1. CASE CloseServer
    <2>1. /\ wssState = "RUNNING" /\ wssState' = "CLOSING" /\ wssListening' = FALSE
          /\ wssClients = {} => wssTicks' = wssTicks + 1 /\ wssShouldEmit' = wssShouldEmit
          /\ wssClients # {} => wssShouldEmit' = TRUE /\ wssTicks' = wssTicks
          /\ wssClients' = wssClients /\ wssCloses' = wssCloses
      BY <1>1 DEF CloseServer
    <2>2. wssShouldEmit = FALSE /\ wssTicks = 0 /\ wssCloses = 0
      BY <1>0, <2>1 DEF Closing
    <2>3. /\ wssShouldEmit' \in BOOLEAN
          /\ \/ wssShouldEmit' = TRUE /\ wssClients' # {} /\ wssTicks' = 0 /\ wssCloses' = 0
             \/ wssClients' = {} /\ wssTicks' = 1 /\ wssCloses' = 0
      <3>1. CASE wssClients = {}
        <4>1. wssShouldEmit' = FALSE /\ wssClients' = {} /\ wssCloses' = 0
          BY <2>1, <2>2, <3>1, Zenon
        <4>2. wssTicks' = 1
          BY <2>1, <2>2, <3>1
        <4> QED BY <4>1, <4>2
      <3>2. CASE wssClients # {}
        BY <2>1, <2>2, <3>2, Zenon
      <3> QED BY <3>1, <3>2
    <2>4. wssListening' \in BOOLEAN /\ wssListening' = (wssState' = "RUNNING")
      BY <2>1
    <2>5. Closing'
      BY <2>1, <2>3, <2>4, Zenon DEF Closing
    <2> QED BY <1>a, <1>1, <2>5 DEF CloseServer
  <1>2. CASE EmitServerClose
    <2>1. Closing'
      BY <1>0, <1>2 DEF EmitServerClose, Closing
    <2> QED BY <1>a, <1>2, <2>1 DEF EmitServerClose
  <1>3. CASE UNCHANGED hsVars
    <2>1. Closing'
      BY <1>0, <1>3 DEF hsVars, wssVars, Closing
    <2> QED BY <1>a, <1>3, <2>1 DEF hsVars, wssVars
  <1> QED BY <1>1, <1>2, <1>3, ConnectionSteps DEF HsNext

LEMMA OneInSet == ToSet(<< >>) = {} /\ \A x : ToSet(<<x>>) = {x}
  <1>1. ASSUME NEW x PROVE ToSet(<<x>>) = {x}
    <2>1. DOMAIN <<x>> = {1} /\ <<x>>[1] = x
      OBVIOUS
    <2> DEFINE t == <<x>>
    <2>2. DOMAIN t = {1} /\ t[1] = x
      BY <2>1
    <2> HIDE DEF t
    <2>3. ToSet(t) = {x}
      BY <2>2 DEF ToSet
    <2> QED BY <2>3 DEF t
  <1>2. ToSet(<< >>) = {}
    BY DEF ToSet
  <1> QED BY <1>1, <1>2

\* The state of sockets, parameters and the server's close is what the code can
\* hold (websocket-server.js).
THEOREM HandshakeTypeCorrect == HsSpec => []HsTypeOK
  <1>1. HsInv => HsTypeOK
    <2> SUFFICES ASSUME HsInv PROVE HsTypeOK
      OBVIOUS
    <2>1. ASSUME NEW s \in HsSocket, NEW p \in ToSet(hsServerParams[s]) \cup ToSet(hsClientParams[s])
          PROVE  p \in Params
      <3>1. ToSet(<< >>) = {} /\ ToSet(<<Accepted>>) = {Accepted} /\ ToSet(<<Asked>>) = {Asked}
        BY OneInSet
      <3>2. ParamsOf(s) /\ OptionsOK
        BY DEF HsInv
      <3>3. <<Accepted>> # << >>
        OBVIOUS
      <3> QED BY <2>1, <3>1, <3>2, <3>3, NegotiatedFits DEF ParamsOf
    <2>2. wssClients \subseteq HsSocket
      BY DEF HsInv, ClientsAreConnected
    <2>3. /\ wssState \in {"RUNNING", "CLOSING", "CLOSED"}
          /\ wssListening \in BOOLEAN /\ wssShouldEmit \in BOOLEAN
          /\ wssTicks \in 0 .. 1 /\ wssCloses \in 0 .. 1
      BY DEF HsInv, Closing
    <2> QED BY <2>1, <2>2, <2>3 DEF HsInv, HsTyped, HsPhase, HsTypeOK
  <1>2. HsSpec => []HsInv
    BY HsInvHolds, HsInvStays, PTL DEF HsSpec
  <1> QED BY <1>1, <1>2, PTL

\* Whatever options the two ends have, a connection that opens compresses with
\* windows the other end can inflate and within what either asked for
\* (permessage-deflate.js); the server's set of clients is the connections there
\* are, and 'close' comes once, behind the last of them (websocket-server.js).
THEOREM EndsAndServerAgree ==
    HsSpec => [](EndsUnderstandEachOther /\ ClientsAreConnected /\ ServerCloseIsLast)
  <1>1. HsInv => EndsUnderstandEachOther /\ ClientsAreConnected /\ ServerCloseIsLast
    <2> SUFFICES ASSUME HsInv PROVE EndsUnderstandEachOther /\ ServerCloseIsLast
      BY DEF HsInv
    <2>1. ServerCloseIsLast
      BY DEF HsInv, Closing, ServerCloseIsLast
    <2>2. ASSUME NEW s \in HsSocket, hsPhase[s] = "open"
          PROVE  \/ hsServerParams[s] = << >> /\ hsClientParams[s] = << >>
                 \/ /\ hsServerParams[s] = <<Accepted>> /\ hsClientParams[s] = <<Asked>>
                    /\ ~Unexpected(hsClientOptions, Accepted)
                    /\ Negotiated /\ Acceptable(hsServerOptions, Offer(hsClientOptions))
      <3>1. ParamsOf(s)
        BY DEF HsInv
      <3>2. <<Accepted>> # << >>
        OBVIOUS
      <3> QED BY <2>2, <3>1, <3>2 DEF ParamsOf
    <2>3. /\ <<Asked>>[1] = Asked /\ <<Accepted>>[1] = Accepted
          /\ Len(<<Asked>>) = Len(<<Accepted>>)
      OBVIOUS
    <2>4. OptionsOK
      BY DEF HsInv
    <2>5. EndsUnderstandEachOther
      BY <2>2, <2>3, <2>4, NegotiatedFits DEF EndsUnderstandEachOther
    <2> QED BY <2>1, <2>5
  <1>2. HsSpec => []HsInv
    BY HsInvHolds, HsInvStays, PTL DEF HsSpec
  <1> QED BY <1>1, <1>2, PTL

-----------------------------------------------------------------------------
(* WsSender: the limiter.                                                  *)

AnyJob == [kind : {"deflate", "inflate"}, sender : Sender]
Occupied(l) == l.running \cup {l.jobs[i] : i \in 1 .. Len(l.jobs)}

\* The limiter is never over its limit, no job waits beside a free place, and
\* none is there twice.
Places(l) ==
    /\ l = [jobs |-> l.jobs, running |-> l.running]
    /\ l.jobs \in Seq(AnyJob) /\ l.running \in SUBSET AnyJob /\ IsFiniteSet(l.running)
    /\ Cardinality(l.running) <= Concurrency
    /\ l.jobs # << >> => Cardinality(l.running) = Concurrency
    /\ \A i \in 1 .. Len(l.jobs) : l.jobs[i] \notin l.running
    /\ \A i, j \in 1 .. Len(l.jobs) : l.jobs[i] = l.jobs[j] => i = j

LEMMA JobsAre ==
    ASSUME NEW s \in Sender
    PROVE  /\ Job("deflate", s) \in AnyJob /\ Job("inflate", s) \in AnyJob
           /\ \A t \in Sender : Job("deflate", s) # Job("inflate", t)
           /\ \A t \in Sender : Job("deflate", s) = Job("deflate", t) => s = t
           /\ \A t \in Sender : Job("inflate", s) = Job("inflate", t) => s = t
  BY DEF Job, AnyJob

LEMMA RunStarts ==
    ASSUME NEW l, l = [jobs |-> l.jobs, running |-> l.running],
           l.jobs \in Seq(AnyJob), l.running \in SUBSET AnyJob, IsFiniteSet(l.running),
           Cardinality(l.running) <= Concurrency,
           Cardinality(l.running) # Concurrency /\ l.jobs # << >> /\ Tail(l.jobs) # << >> =>
               Cardinality(l.running) + 1 = Concurrency,
           \A i \in 1 .. Len(l.jobs) : l.jobs[i] \notin l.running,
           \A i, j \in 1 .. Len(l.jobs) : l.jobs[i] = l.jobs[j] => i = j
    PROVE  Places(Run(l)) /\ Occupied(Run(l)) = Occupied(l)
  <1>1. Cardinality(l.running) \in Nat /\ Concurrency \in Nat
    BY FS_CardinalityType, ConcurrencyAssumption
  <1>2. CASE Cardinality(l.running) = Concurrency \/ l.jobs = << >>
    BY <1>2 DEF Run, Places
  <1>3. CASE Cardinality(l.running) # Concurrency /\ l.jobs # << >>
    <2> DEFINE q == l.jobs  h == Head(q)  t == Tail(q)  r == l.running \cup {h}
    <2>1. /\ q \in Seq(AnyJob) /\ q # << >> /\ h = q[1] /\ t \in Seq(AnyJob) /\ h \in AnyJob
          /\ Len(t) = Len(q) - 1 /\ Len(q) \in Nat /\ 1 \in 1 .. Len(q)
          /\ \A i \in 1 .. Len(t) : t[i] = q[i + 1] /\ i + 1 \in 1 .. Len(q)
      BY <1>3
    <2>2. h \notin l.running
      BY <2>1
    <2>3. IsFiniteSet(r) /\ Cardinality(r) = Cardinality(l.running) + 1
      BY <2>2, FS_AddElement
    <2>4. Run(l) = [jobs |-> t, running |-> r]
      BY <1>3 DEF Run
    <2>5. \A i \in 1 .. Len(t) : t[i] # h
      <3>1. \A i \in 1 .. Len(t) : i + 1 # 1
        BY <2>1
      <3> QED BY <2>1, <3>1
    <2>6. \A i \in 1 .. Len(t) : t[i] \notin r
      BY <2>1, <2>5
    <2>7. \A i, j \in 1 .. Len(t) : t[i] = t[j] => i = j
      <3> SUFFICES ASSUME NEW i \in 1 .. Len(t), NEW j \in 1 .. Len(t), t[i] = t[j] PROVE i = j
        OBVIOUS
      <3>1. i + 1 = j + 1
        BY <2>1
      <3> QED BY <2>1, <3>1
    <2>8. Occupied(l) = r \cup {t[i] : i \in 1 .. Len(t)}
      <3>1. \A j \in 1 .. Len(q) : j = 1 \/ \E i \in 1 .. Len(t) : j = i + 1
        <4> SUFFICES ASSUME NEW j \in 1 .. Len(q), j # 1 PROVE \E i \in 1 .. Len(t) : j = i + 1
          OBVIOUS
        <4>1. j - 1 \in 1 .. Len(t) /\ j = (j - 1) + 1
          BY <2>1
        <4> QED BY <4>1
      <3>2. \A j \in 1 .. Len(q) : q[j] = h \/ \E i \in 1 .. Len(t) : q[j] = t[i]
        BY <2>1, <3>1
      <3> HIDE DEF t, h
      <3>3. Occupied(l) = l.running \cup {q[i] : i \in 1 .. Len(q)}
        BY DEF Occupied
      <3>4. {q[i] : i \in 1 .. Len(q)} = {h} \cup {t[i] : i \in 1 .. Len(t)}
        <4> HIDE DEF q
        <4>1. \A y \in {q[i] : i \in 1 .. Len(q)} : y = h \/ y \in {t[i] : i \in 1 .. Len(t)}
          BY <3>2
        <4>2. h \in {q[i] : i \in 1 .. Len(q)}
          BY <2>1
        <4>3. \A y \in {t[i] : i \in 1 .. Len(t)} : y \in {q[i] : i \in 1 .. Len(q)}
          BY <2>1
        <4> QED BY <4>1, <4>2, <4>3
      <3> QED BY <3>3, <3>4
    <2>9. t # << >> => Cardinality(r) = Concurrency
      BY <1>3, <2>3
    <2>10. Cardinality(r) <= Concurrency
      BY <1>1, <1>3, <2>3
    <2> HIDE DEF q, h, t, r
    <2> DEFINE k == [jobs |-> t, running |-> r]
    <2>11. k.jobs = t /\ k.running = r /\ k = [jobs |-> k.jobs, running |-> k.running]
      OBVIOUS
    <2> HIDE DEF k
    <2>12. r \in SUBSET AnyJob
      BY <2>1 DEF r
    <2>13. Places(k)
      BY <2>1, <2>3, <2>6, <2>7, <2>9, <2>10, <2>11, <2>12 DEF Places
    <2>14. Occupied(k) = Occupied(l)
      BY <2>8, <2>11 DEF Occupied
    <2> QED BY <2>4, <2>13, <2>14 DEF k
  <1> QED BY <1>2, <1>3

LEMMA AddPlaces ==
    ASSUME NEW l, Places(l), NEW job \in AnyJob, job \notin Occupied(l)
    PROVE  Places(Add(l, job)) /\ Occupied(Add(l, job)) = Occupied(l) \cup {job}
  <1> DEFINE q == Append(l.jobs, job)  k == [l EXCEPT !.jobs = Append(@, job)]
  <1>0. Cardinality(l.running) \in Nat /\ Concurrency \in Nat
    BY FS_CardinalityType, ConcurrencyAssumption DEF Places
  <1>1. k = [jobs |-> q, running |-> l.running] /\ Add(l, job) = Run(k)
    <2>1. l = [jobs |-> l.jobs, running |-> l.running]
      BY DEF Places
    <2>2. k = [jobs |-> q, running |-> l.running]
      BY <2>1
    <2> QED BY <2>2 DEF Add
  <1>2. k.jobs = q /\ k.running = l.running
    BY <1>1
  <1>3. /\ q \in Seq(AnyJob) /\ Len(q) = Len(l.jobs) + 1 /\ Len(l.jobs) \in Nat
        /\ \A i \in 1 .. Len(l.jobs) : q[i] = l.jobs[i]
        /\ q[Len(l.jobs) + 1] = job
        /\ l.jobs = << >> => Tail(q) = << >>
    BY DEF Places
  <1> HIDE DEF q, k
  <1>4. \A i \in 1 .. Len(q) : i \in 1 .. Len(l.jobs) \/ i = Len(l.jobs) + 1
    BY <1>3
  <1>5. \A i \in 1 .. Len(q) : q[i] \notin l.running
    BY <1>3, <1>4 DEF Places, Occupied
  <1>6. \A i, j \in 1 .. Len(q) : q[i] = q[j] => i = j
    <2>1. \A i \in 1 .. Len(l.jobs) : l.jobs[i] # job
      BY DEF Occupied
    <2>2. \A i, j \in 1 .. Len(l.jobs) : l.jobs[i] = l.jobs[j] => i = j
      BY DEF Places
    <2> QED BY <1>3, <1>4, <2>1, <2>2
  <1>7. Places(Run(k)) /\ Occupied(Run(k)) = Occupied(k)
    <2>1. Cardinality(l.running) # Concurrency => Tail(q) = << >>
      BY <1>3 DEF Places
    <2>2. l.running \in SUBSET AnyJob /\ IsFiniteSet(l.running) /\ Cardinality(l.running) <= Concurrency
      BY DEF Places
    <2>3. k = [jobs |-> k.jobs, running |-> k.running]
      BY <1>1, <1>2
    <2> QED BY <1>2, <1>3, <1>5, <1>6, <2>1, <2>2, <2>3, RunStarts
  <1>8. Occupied(k) = Occupied(l) \cup {job}
    <2>1. {q[i] : i \in 1 .. Len(q)} = {l.jobs[i] : i \in 1 .. Len(l.jobs)} \cup {job}
      <3>1. \A y \in {q[i] : i \in 1 .. Len(q)} : y \in {l.jobs[i] : i \in 1 .. Len(l.jobs)} \/ y = job
        BY <1>3, <1>4
      <3>2. \A i \in 1 .. Len(l.jobs) : i \in 1 .. Len(q)
        BY <1>3
      <3>3. \A y \in {l.jobs[i] : i \in 1 .. Len(l.jobs)} : y \in {q[i] : i \in 1 .. Len(q)}
        BY <1>3, <3>2
      <3>4. job \in {q[i] : i \in 1 .. Len(q)}
        BY <1>3
      <3> QED BY <3>1, <3>3, <3>4
    <2> QED BY <1>2, <2>1 DEF Occupied
  <1> QED BY <1>1, <1>7, <1>8

LEMMA DonePlaces ==
    ASSUME NEW l, Places(l), NEW job \in l.running
    PROVE  Places(Done(l, job)) /\ Occupied(Done(l, job)) = Occupied(l) \ {job}
  <1> DEFINE r == l.running \ {job}  k == [l EXCEPT !.running = @ \ {job}]
  <1>0. Cardinality(l.running) \in Nat /\ Concurrency \in Nat
    BY FS_CardinalityType, ConcurrencyAssumption DEF Places
  <1>1. k = [jobs |-> l.jobs, running |-> r] /\ Done(l, job) = Run(k)
    <2>1. l = [jobs |-> l.jobs, running |-> l.running]
      BY DEF Places
    <2>2. k = [jobs |-> l.jobs, running |-> r]
      BY <2>1
    <2> QED BY <2>2 DEF Done
  <1>2. k.jobs = l.jobs /\ k.running = r /\ k = [jobs |-> k.jobs, running |-> k.running]
    BY <1>1
  <1>3. IsFiniteSet(r) /\ Cardinality(r) = Cardinality(l.running) - 1
    BY FS_RemoveElement DEF Places
  <1>4. r \in SUBSET AnyJob /\ l.jobs \in Seq(AnyJob)
    BY DEF Places
  <1>5. Cardinality(r) <= Concurrency /\ (l.jobs # << >> => Cardinality(r) + 1 = Concurrency)
    BY <1>0, <1>3 DEF Places
  <1>6. /\ \A i \in 1 .. Len(l.jobs) : l.jobs[i] \notin r
        /\ \A i, j \in 1 .. Len(l.jobs) : l.jobs[i] = l.jobs[j] => i = j
    BY DEF Places
  <1>7. Occupied(k) = Occupied(l) \ {job}
    <2>1. \A i \in 1 .. Len(l.jobs) : l.jobs[i] # job
      BY DEF Places
    <2> QED BY <1>2, <2>1 DEF Occupied
  <1> HIDE DEF r, k
  <1>8. Places(Run(k)) /\ Occupied(Run(k)) = Occupied(k)
    BY <1>2, <1>3, <1>4, <1>5, <1>6, RunStarts
  <1> QED BY <1>1, <1>7, <1>8

-----------------------------------------------------------------------------
(* WsSender: a sender between two calls.                                   *)

Limiters == [jobs : Seq(AnyJob), running : SUBSET AnyJob]
SenderStates == {"DEFAULT", "DEFLATING", "GET_BLOB_DATA"}
SenderRecord(s) ==
    [queue : Seq(Entry(s)), state : SenderStates, current : Seq(Entry(s)), buffered : Nat,
     written : Seq(Numbered(s)), called : Seq(Numbered(s)),
     limiter : Limiters]

InSequence(v) == \A i \in 1 .. Len(v) : v[i] = i
Lined(q, n) == \A i \in 1 .. Len(q) : q[i].number = n + i
Deflates(x, s) == Job("deflate", s) \in Occupied(x.limiter)

\* Nothing waits to be read or compressed; the queue is still to be sent.
Idle(x, s, p) ==
    /\ x \in SenderRecord(s) /\ Places(x.limiter) /\ ~Deflates(x, s)
    /\ x.state = "DEFAULT" /\ x.current = << >> /\ x.buffered = Len(x.queue)
    /\ x.called = x.written /\ InSequence(x.written) /\ Lined(x.queue, Len(x.written))
    /\ p = Len(x.written) + Len(x.queue)

\* The next entry was taken out and is not written yet.
Awaiting(x, s, p, entry) ==
    /\ x \in SenderRecord(s) /\ Places(x.limiter) /\ ~Deflates(x, s)
    /\ x.current = << >> /\ x.buffered = Len(x.queue)
    /\ x.called = x.written /\ InSequence(x.written)
    /\ entry \in Entry(s) /\ entry.number = Len(x.written) + 1
    /\ Lined(x.queue, Len(x.written) + 1)
    /\ p = Len(x.written) + 1 + Len(x.queue)

\* An entry is being read or compressed, the others wait behind it.
Held(x, s, p) ==
    /\ x \in SenderRecord(s) /\ Places(x.limiter)
    /\ x.state # "DEFAULT" /\ Len(x.current) = 1 /\ x.current[1].number = Len(x.written) + 1
    /\ x.buffered = Len(x.queue) + 1
    /\ x.called = x.written /\ InSequence(x.written)
    /\ Lined(x.queue, Len(x.written) + 1)
    /\ p = Len(x.written) + 1 + Len(x.queue)
Busy(x, s, p) == Held(x, s, p) /\ (Deflates(x, s) <=> x.state = "DEFLATING")

Fits(x, s, p) == (Idle(x, s, p) /\ x.queue = << >>) \/ Busy(x, s, p)

\* The callbacks of all that waited were called; nothing is given any more.
Given(x, s) ==
    /\ x \in SenderRecord(s) /\ Places(x.limiter) /\ ~Deflates(x, s)
    /\ x.state # "DEFAULT" /\ x.current = << >>
    /\ InSequence(x.written) /\ InSequence(x.called)

\* The jobs of other senders stay where they are.
OthersJobs(x, y, s) ==
    \A j \in AnyJob : j # Job("deflate", s) =>
        (j \in Occupied(x.limiter) <=> j \in Occupied(y.limiter))

LEMMA InSequenceOn ==
    ASSUME NEW s, NEW v \in Seq(Numbered(s)), InSequence(v), NEW k \in Numbered(s), k = Len(v) + 1
    PROVE  Append(v, k) \in Seq(Numbered(s)) /\ InSequence(Append(v, k)) /\ Len(Append(v, k)) = Len(v) + 1
  BY DEF InSequence

LEMMA OthersTrans ==
    ASSUME NEW s, NEW x, NEW y, NEW z, OthersJobs(x, y, s), OthersJobs(y, z, s)
    PROVE  OthersJobs(x, z, s)
  BY DEF OthersJobs

WithCurrent(x, t, c, l) == [x EXCEPT !.buffered = @ + 1, !.state = t, !.current = c, !.limiter = l]

LEMMA WaitingRecord ==
    ASSUME NEW s, NEW x \in SenderRecord(s), NEW c \in Seq(Entry(s)), NEW t \in SenderStates,
           NEW l \in Limiters,
           NEW y, y = WithCurrent(x, t, c, l)
    PROVE  /\ y \in SenderRecord(s) /\ y.written = x.written /\ y.called = x.called
           /\ y.queue = x.queue /\ y.state = t /\ y.current = c /\ y.buffered = x.buffered + 1
           /\ y.limiter = l
  <1> DEFINE E == Seq(Entry(s))  N == Seq(Numbered(s))
             R == [queue : E, state : SenderStates, current : E, buffered : Nat,
                   written : N, called : N, limiter : Limiters]
             b == x.buffered + 1
  <1>1. SenderRecord(s) = R
    BY DEF SenderRecord
  <1>2. x \in R /\ c \in E /\ l \in Limiters /\ b \in Nat
    BY <1>1
  <1> HIDE DEF E, N, b
  <1>3. y = [x EXCEPT !.buffered = b, !.state = t, !.current = c, !.limiter = l]
    BY DEF b, WithCurrent
  <1>4. x = [queue |-> x.queue, state |-> x.state, current |-> x.current, buffered |-> x.buffered,
             written |-> x.written, called |-> x.called, limiter |-> x.limiter]
    BY <1>2
  <1>5. y = [queue |-> x.queue, state |-> t, current |-> c, buffered |-> b,
             written |-> x.written, called |-> x.called, limiter |-> l]
    BY <1>3, <1>4
  <1>6. x.queue \in E /\ x.written \in N /\ x.called \in N
    BY <1>2
  <1>7. y \in R
    BY <1>2, <1>5, <1>6
  <1> QED BY <1>1, <1>5, <1>7 DEF b

LEMMA SendFrameIdle ==
    ASSUME NEW s \in Sender, NEW p, NEW x, NEW entry, Awaiting(x, s, p, entry), x.state = "DEFAULT"
    PROVE  /\ Idle(SendFrame(x, entry), s, p) /\ OthersJobs(x, SendFrame(x, entry), s)
           /\ SendFrame(x, entry).queue = x.queue
  <1> DEFINE v == Append(x.written, entry.number)  y == SendFrame(x, entry)
  <1>1. x \in SenderRecord(s) /\ entry.number \in Numbered(s) /\ x.written \in Seq(Numbered(s))
    BY DEF Awaiting, SenderRecord, Entry
  <1>2. v \in Seq(Numbered(s)) /\ InSequence(v) /\ Len(v) = Len(x.written) + 1
    BY <1>1, InSequenceOn DEF Awaiting
  <1>3. /\ y \in SenderRecord(s) /\ y.written = v /\ y.called = v /\ y.queue = x.queue
        /\ y.state = x.state /\ y.current = x.current /\ y.buffered = x.buffered
        /\ y.limiter = x.limiter
    BY <1>1, <1>2 DEF SendFrame, Awaiting, SenderRecord
  <1> HIDE DEF v, y
  <1>4. Idle(y, s, p)
    BY <1>2, <1>3 DEF Idle, Awaiting, Deflates
  <1>5. OthersJobs(x, y, s)
    BY <1>3 DEF OthersJobs
  <1> QED BY <1>3, <1>4, <1>5 DEF y

LEMMA GetBlobBusy ==
    ASSUME NEW s \in Sender, NEW p, NEW x, NEW entry, Awaiting(x, s, p, entry)
    PROVE  Busy(GetBlobData(x, entry), s, p) /\ OthersJobs(x, GetBlobData(x, entry), s)
  <1> DEFINE y == GetBlobData(x, entry)
  <1>1. x \in SenderRecord(s) /\ entry \in Entry(s) /\ <<entry>> \in Seq(Entry(s))
    BY DEF Awaiting
  <1>2. /\ y \in SenderRecord(s) /\ y.written = x.written /\ y.called = x.called /\ y.queue = x.queue
        /\ y.state = "GET_BLOB_DATA" /\ y.current = <<entry>> /\ y.buffered = x.buffered + 1
        /\ y.limiter = x.limiter
    <2>1. y = WithCurrent(x, "GET_BLOB_DATA", <<entry>>, x.limiter)
      BY <1>1 DEF GetBlobData, SenderRecord, WithCurrent
    <2>2. x.limiter \in Limiters
      BY <1>1 DEF SenderRecord
    <2>3. "GET_BLOB_DATA" \in SenderStates
      BY DEF SenderStates
    <2> DEFINE c == <<entry>>  st == "GET_BLOB_DATA"
    <2> HIDE DEF y, c, st
    <2>4. y = WithCurrent(x, st, c, x.limiter) /\ c \in Seq(Entry(s)) /\ st \in SenderStates
      BY <1>1, <2>1, <2>3 DEF c, st
    <2>5. /\ y \in SenderRecord(s) /\ y.written = x.written /\ y.called = x.called
          /\ y.queue = x.queue /\ y.state = st /\ y.current = c /\ y.buffered = x.buffered + 1
          /\ y.limiter = x.limiter
      BY <1>1, <2>2, <2>4, WaitingRecord
    <2> QED BY <2>5 DEF c, st
  <1> HIDE DEF y
  <1>3. Len(y.current) = 1 /\ y.current[1] = entry
    BY <1>2
  <1>4. Busy(y, s, p)
    BY <1>2, <1>3 DEF Busy, Held, Awaiting, Deflates
  <1>5. OthersJobs(x, y, s)
    BY <1>2 DEF OthersJobs
  <1> QED BY <1>4, <1>5 DEF y

LEMMA DispatchFits ==
    ASSUME NEW s \in Sender, NEW p, NEW x, NEW entry, Awaiting(x, s, p, entry),
           entry.compress \/ (x.state = "DEFAULT" /\ x.queue = << >>)
    PROVE  Fits(Dispatch(x, s, entry), s, p) /\ OthersJobs(x, Dispatch(x, s, entry), s)
  <1>1. CASE ~entry.compress
    BY <1>1, SendFrameIdle DEF Dispatch, Fits
  <1>2. CASE entry.compress
    <2> DEFINE l == Add(x.limiter, Job("deflate", s))  y == Dispatch(x, s, entry)
    <2>1. x \in SenderRecord(s) /\ entry \in Entry(s) /\ <<entry>> \in Seq(Entry(s))
      BY DEF Awaiting
    <2>2. Places(l) /\ Occupied(l) = Occupied(x.limiter) \cup {Job("deflate", s)}
      BY JobsAre, AddPlaces DEF Awaiting, Deflates
    <2>3. l \in Limiters
      <3> HIDE DEF l
      <3> QED BY <2>2 DEF Places, Limiters
    <2> HIDE DEF l
    <2>4. y = WithCurrent(x, "DEFLATING", <<entry>>, l)
      BY <1>2 DEF Dispatch, l, WithCurrent
    <2> HIDE DEF y
    <2>5. /\ y \in SenderRecord(s) /\ y.written = x.written /\ y.called = x.called /\ y.queue = x.queue
          /\ y.state = "DEFLATING" /\ y.current = <<entry>> /\ y.buffered = x.buffered + 1
          /\ y.limiter = l
      <3>1. "DEFLATING" \in SenderStates
        BY DEF SenderStates
      <3> DEFINE c == <<entry>>  st == "DEFLATING"
      <3> HIDE DEF c, st
      <3>2. y = WithCurrent(x, st, c, l) /\ c \in Seq(Entry(s)) /\ st \in SenderStates
        BY <2>1, <2>4, <3>1 DEF c, st
      <3>3. /\ y \in SenderRecord(s) /\ y.written = x.written /\ y.called = x.called
            /\ y.queue = x.queue /\ y.state = st /\ y.current = c /\ y.buffered = x.buffered + 1
            /\ y.limiter = l
        BY <2>1, <2>3, <3>2, WaitingRecord
      <3> QED BY <3>3 DEF c, st
    <2>6. Len(y.current) = 1 /\ y.current[1] = entry
      BY <2>5
    <2>7. Busy(y, s, p)
      BY <2>2, <2>5, <2>6 DEF Busy, Held, Awaiting, Deflates
    <2>8. OthersJobs(x, y, s)
      BY <2>2, <2>5 DEF OthersJobs
    <2> QED BY <2>7, <2>8 DEF y, Fits
  <1>3. entry.compress \in BOOLEAN
    BY DEF Awaiting, Entry
  <1> QED BY <1>1, <1>2, <1>3

LEMMA StartFits ==
    ASSUME NEW s \in Sender, NEW p, NEW x, NEW entry, Awaiting(x, s, p, entry),
           Waits(entry) \/ (x.state = "DEFAULT" /\ x.queue = << >>)
    PROVE  Fits(Start(x, s, entry), s, p) /\ OthersJobs(x, Start(x, s, entry), s)
  <1>1. CASE entry.blob
    BY <1>1, GetBlobBusy DEF Start, Fits
  <1>2. CASE ~entry.blob
    BY <1>2, DispatchFits DEF Start, Waits
  <1> QED BY <1>1, <1>2

\* The first of a queue that has to wait.
FirstWaiting(q) == SelectInSeq(q, Waits)
AtOnce(q) == IF FirstWaiting(q) = 0 THEN Len(q) ELSE FirstWaiting(q) - 1

LEMMA FirstWaits ==
    ASSUME NEW q, Len(q) \in Nat
    PROVE  AtOnce(q) \in 0 .. Len(q) /\ (AtOnce(q) < Len(q) => Waits(q[AtOnce(q) + 1]))
  <1> DEFINE I == {i \in 1 .. Len(q) : Waits(q[i])}
             first == FirstWaiting(q)
             count == AtOnce(q)
  <1>1. first = IF I # {} THEN Min(I) ELSE 0
    BY DEF SelectInSeq, FirstWaiting
  <1>2. CASE I = {}
    BY <1>1, <1>2 DEF AtOnce
  <1>3. CASE I # {}
    <2>1. I \in SUBSET Nat
      OBVIOUS
    <2>2. \E m \in I : \A k \in I : m <= k
      <3> HIDE DEF I
      <3> QED BY <1>3, <2>1, LeastOf
    <2>3. Min(I) \in I
      <3> HIDE DEF I
      <3> QED BY <2>2 DEF Min
    <2>4. first \in I
      BY <1>1, <1>3, <2>3
    <2>5. first \in Nat \ {0} /\ first <= Len(q) /\ Waits(q[first])
      BY <2>4
    <2>6. count = first - 1 /\ count + 1 = first
      BY <2>5 DEF AtOnce
    <2> QED BY <2>5, <2>6
  <1> QED BY <1>2, <1>3

NumbersOf(q, k) == [i \in 1 .. k |-> q[i].number]

\* Frames that stand in line go on where the last one stopped.
LEMMA InSequenceThrough ==
    ASSUME NEW s, NEW w \in Seq(Numbered(s)), InSequence(w), NEW q \in Seq(Entry(s)),
           Lined(q, Len(w)), NEW k \in 0 .. Len(q)
    PROVE  LET v == w \o NumbersOf(q, k)
           IN  v \in Seq(Numbered(s)) /\ Len(v) = Len(w) + k /\ InSequence(v)
  <1> DEFINE n == Len(w)  numbers == NumbersOf(q, k)  v == w \o numbers
  <1>1. n \in Nat /\ k \in Nat /\ Len(q) \in Nat /\ \A i \in 1 .. k : i \in 1 .. Len(q)
    OBVIOUS
  <1>2. ASSUME NEW i \in 1 .. k PROVE q[i].number \in Numbered(s) /\ q[i].number = n + i
    <2>1. q[i] \in Entry(s) /\ q[i].number = n + i
      BY <1>1 DEF Lined
    <2> QED BY <2>1 DEF Entry
  <1>3. numbers \in Seq(Numbered(s)) /\ Len(numbers) = k /\ \A i \in 1 .. k : numbers[i] = n + i
    <2> HIDE DEF n
    <2> QED BY <1>1, <1>2 DEF NumbersOf
  <1> HIDE DEF numbers
  <1>4. v \in Seq(Numbered(s)) /\ Len(v) = n + k
    BY <1>3, ConcatProperties
  <1>5. ASSUME NEW i \in 1 .. Len(v) PROVE v[i] = i
    <2>1. CASE i <= n
      <3>1. v[i] = w[i] /\ i \in 1 .. n
        BY <1>1, <1>3, <1>4, <2>1, ConcatProperties
      <3> QED BY <3>1 DEF InSequence
    <2>2. CASE ~(i <= n)
      <3>1. i \in 1 .. n + k /\ i - n \in 1 .. k
        BY <1>1, <1>4, <2>2
      <3>2. v[i] = numbers[i - n]
        BY <1>3, <2>2, <3>1, ConcatProperties
      <3>3. numbers[i - n] = n + (i - n)
        BY <1>3, <3>1
      <3> QED BY <1>1, <3>1, <3>2, <3>3
    <2> QED BY <2>1, <2>2
  <1> QED BY <1>4, <1>5 DEF InSequence, numbers

\* The first k of the queue are written.
Ahead(x, k) ==
    LET numbers == NumbersOf(x.queue, k)
    IN  [x EXCEPT !.queue = SubSeq(@, k + 1, Len(@)), !.buffered = @ - k,
                  !.written = @ \o numbers, !.called = @ \o numbers]

LEMMA AheadIdle ==
    ASSUME NEW s \in Sender, NEW p, NEW x, Idle(x, s, p), NEW k \in 0 .. Len(x.queue)
    PROVE  /\ Idle(Ahead(x, k), s, p) /\ OthersJobs(x, Ahead(x, k), s)
           /\ Len(Ahead(x, k).queue) = Len(x.queue) - k
           /\ k < Len(x.queue) => Ahead(x, k).queue[1] = x.queue[k + 1]
  <1> DEFINE q == x.queue  n == Len(x.written)  y == Ahead(x, k)
             r == SubSeq(q, k + 1, Len(q))
             numbers == NumbersOf(q, k)
             v == x.written \o numbers  b == x.buffered - k
  <1>1. /\ x \in SenderRecord(s) /\ q \in Seq(Entry(s)) /\ Len(q) \in Nat /\ n \in Nat /\ k \in Nat
        /\ x.written \in Seq(Numbered(s)) /\ x.called = x.written /\ x.buffered = Len(q)
        /\ k <= Len(q)
    BY DEF Idle, SenderRecord
  <1>2. r \in Seq(Entry(s)) /\ Len(r) = Len(q) - k /\ \A i \in 1 .. Len(r) : r[i] = q[k + i]
    <2> HIDE DEF q
    <2> QED BY <1>1
  <1>5. v \in Seq(Numbered(s)) /\ Len(v) = n + k /\ InSequence(v)
    <2>1. InSequence(x.written) /\ Lined(q, Len(x.written))
      BY DEF Idle
    <2>2. k \in 0 .. Len(q)
      OBVIOUS
    <2> HIDE DEF q
    <2> QED BY <1>1, <2>1, <2>2, InSequenceThrough
  <1>6. Lined(r, n + k)
    <2>1. \A i \in 1 .. Len(r) : k + i \in 1 .. Len(q)
      BY <1>1, <1>2
    <2>2. Lined(q, n)
      BY DEF Idle
    <2> SUFFICES ASSUME NEW i \in 1 .. Len(r) PROVE r[i].number = (n + k) + i
      BY DEF Lined
    <2> HIDE DEF q, n, r
    <2>3. r[i].number = n + (k + i)
      BY <1>2, <2>1, <2>2 DEF Lined
    <2> QED BY <1>1, <1>2, <2>3
  <1>7. /\ y \in SenderRecord(s) /\ y.written = v /\ y.called = v /\ y.queue = r /\ y.buffered = b
        /\ y.state = x.state /\ y.current = x.current /\ y.limiter = x.limiter
    <2>1. y = [x EXCEPT !.queue = r, !.buffered = b, !.written = v, !.called = v]
      BY <1>1 DEF Ahead
    <2>2. x = [queue |-> x.queue, state |-> x.state, current |-> x.current, buffered |-> x.buffered,
               written |-> x.written, called |-> x.called, limiter |-> x.limiter]
      BY <1>1 DEF SenderRecord
    <2>3. b \in Nat
      BY <1>1
    <2> HIDE DEF y, r, b, v
    <2>4. y = [queue |-> r, state |-> x.state, current |-> x.current, buffered |-> b,
               written |-> v, called |-> v, limiter |-> x.limiter]
      BY <2>1, <2>2
    <2>5. x.state \in SenderStates /\ x.current \in Seq(Entry(s)) /\ x.limiter \in Limiters
      BY <1>1 DEF SenderRecord
    <2>6. y \in SenderRecord(s)
      BY <1>2, <1>5, <2>3, <2>4, <2>5 DEF SenderRecord
    <2> QED BY <2>4, <2>6
  <1>8. b = Len(r) /\ p = Len(v) + Len(r)
    <2>1. p = n + Len(q)
      BY DEF Idle
    <2> HIDE DEF q, n, r, v
    <2> QED BY <1>1, <1>2, <1>5, <2>1
  <1> HIDE DEF y, r, v, b
  <1>9. Idle(y, s, p)
    BY <1>5, <1>6, <1>7, <1>8 DEF Idle, Deflates
  <1>10. OthersJobs(x, y, s)
    BY <1>7 DEF OthersJobs
  <1>11. k < Len(q) => r[1] = q[k + 1]
    BY <1>1, <1>2
  <1> QED BY <1>2, <1>7, <1>9, <1>10, <1>11 DEF y

\* The first of the queue is taken out.
TakenOut(x) == [x EXCEPT !.queue = Tail(@), !.buffered = @ - 1]

LEMMA TakenOutAwaiting ==
    ASSUME NEW s \in Sender, NEW p, NEW x, Idle(x, s, p), x.queue # << >>
    PROVE  Awaiting(TakenOut(x), s, p, Head(x.queue)) /\ OthersJobs(x, TakenOut(x), s)
  <1> DEFINE q == x.queue  n == Len(x.written)  y == TakenOut(x)  r == Tail(q)
             b == x.buffered - 1
  <1>1. /\ x \in SenderRecord(s) /\ q \in Seq(Entry(s)) /\ n \in Nat /\ x.buffered = Len(q)
        /\ q # << >> /\ Lined(q, n)
    BY DEF Idle, SenderRecord
  <1>2. /\ Len(q) \in Nat \ {0} /\ Head(q) = q[1] /\ Head(q) \in Entry(s)
        /\ r \in Seq(Entry(s)) /\ Len(r) = Len(q) - 1
        /\ \A i \in 1 .. Len(r) : r[i] = q[i + 1] /\ i + 1 \in 1 .. Len(q)
    <2> HIDE DEF q
    <2> QED BY <1>1
  <1>3. Head(q).number = n + 1 /\ Lined(r, n + 1)
    <2> HIDE DEF q, r, n
    <2>1. Head(q).number = n + 1
      BY <1>1, <1>2 DEF Lined
    <2>2. ASSUME NEW i \in 1 .. Len(r) PROVE r[i].number = (n + 1) + i
      <3>1. r[i].number = n + (i + 1)
        BY <1>1, <1>2 DEF Lined
      <3> QED BY <1>1, <1>2, <3>1
    <2> QED BY <2>1, <2>2 DEF Lined
  <1>4. b = Len(r) /\ b \in Nat
    BY <1>1, <1>2
  <1>5. /\ y \in SenderRecord(s) /\ y.queue = r /\ y.buffered = b /\ y.state = x.state
        /\ y.current = x.current /\ y.limiter = x.limiter /\ y.written = x.written /\ y.called = x.called
    <2>1. y = [x EXCEPT !.queue = r, !.buffered = b]
      BY DEF TakenOut
    <2> HIDE DEF y, b, r
    <2> QED BY <1>1, <1>2, <1>4, <2>1 DEF SenderRecord
  <1>6. p = n + 1 + Len(r)
    <2>1. p = n + Len(q)
      BY DEF Idle
    <2> HIDE DEF q, n, r
    <2> QED BY <1>1, <1>2, <2>1
  <1> HIDE DEF y, r, b
  <1>7. Awaiting(y, s, p, Head(q))
    BY <1>2, <1>3, <1>4, <1>5, <1>6 DEF Awaiting, Idle, Deflates
  <1>8. OthersJobs(x, y, s)
    BY <1>5 DEF OthersJobs
  <1> QED BY <1>7, <1>8 DEF y

LEMMA DequeueFits ==
    ASSUME NEW s \in Sender, NEW p, NEW x, Idle(x, s, p)
    PROVE  Fits(Dequeue(x, s), s, p) /\ OthersJobs(x, Dequeue(x, s), s)
  <1> DEFINE q == x.queue  count == AtOnce(q)
             y == Ahead(x, count)  z == TakenOut(y)  e == Head(y.queue)
  <1>1. Dequeue(x, s) = IF y.queue = << >> THEN y ELSE Start(z, s, e)
    BY DEF Dequeue, Ahead, NumbersOf, TakenOut, AtOnce, FirstWaiting
  <1>2. q \in Seq(Entry(s)) /\ Len(q) \in Nat
    BY DEF Idle, SenderRecord
  <1>3. count \in 0 .. Len(q) /\ (count < Len(q) => Waits(q[count + 1]))
    BY <1>2, FirstWaits
  <1> HIDE DEF count
  <1>4. /\ Idle(y, s, p) /\ OthersJobs(x, y, s) /\ Len(y.queue) = Len(q) - count
        /\ count < Len(q) => y.queue[1] = q[count + 1]
    BY <1>3, AheadIdle
  <1>5. CASE y.queue = << >>
    BY <1>1, <1>4, <1>5 DEF Fits
  <1>6. CASE y.queue # << >>
    <2>1. y.queue \in Seq(Entry(s))
      BY <1>4 DEF Idle, SenderRecord
    <2> HIDE DEF y
    <2>2. Len(y.queue) \in Nat \ {0} /\ e = y.queue[1]
      BY <1>6, <2>1
    <2>3. count < Len(q)
      BY <1>2, <1>3, <1>4, <2>2
    <2>4. Waits(e)
      BY <1>3, <1>4, <2>2, <2>3
    <2>5. Awaiting(z, s, p, e) /\ OthersJobs(y, z, s)
      BY <1>4, <1>6, TakenOutAwaiting
    <2> HIDE DEF z, e
    <2>6. Fits(Start(z, s, e), s, p) /\ OthersJobs(z, Start(z, s, e), s)
      BY <2>4, <2>5, StartFits
    <2>7. OthersJobs(x, Start(z, s, e), s)
      BY <1>4, <2>5, <2>6, OthersTrans
    <2> QED BY <1>1, <1>6, <2>6, <2>7
  <1> QED BY <1>5, <1>6

LEMMA EnqueueBusy ==
    ASSUME NEW s \in Sender, NEW p, NEW x, Busy(x, s, p),
           NEW entry \in Entry(s), entry.number = p + 1
    PROVE  Busy(Enqueue(x, entry), s, p + 1) /\ OthersJobs(x, Enqueue(x, entry), s)
  <1> DEFINE q == x.queue  n == Len(x.written)  y == Enqueue(x, entry)  r == Append(q, entry)
             b == x.buffered + 1
  <1>1. /\ x \in SenderRecord(s) /\ q \in Seq(Entry(s)) /\ Len(q) \in Nat /\ n \in Nat
        /\ x.buffered \in Nat /\ x.buffered = Len(q) + 1 /\ Lined(q, n + 1)
        /\ p = n + 1 + Len(q)
    BY DEF Busy, Held, SenderRecord
  <1>2. /\ r \in Seq(Entry(s)) /\ Len(r) = Len(q) + 1 /\ r[Len(q) + 1] = entry
        /\ \A i \in 1 .. Len(q) : r[i] = q[i]
    <2> HIDE DEF q
    <2> QED BY <1>1
  <1>3. Lined(r, n + 1)
    <2> HIDE DEF q, n, r
    <2> SUFFICES ASSUME NEW i \in 1 .. Len(r) PROVE r[i].number = (n + 1) + i
      BY DEF Lined
    <2>1. CASE i \in 1 .. Len(q)
      BY <1>1, <1>2, <2>1 DEF Lined
    <2>2. CASE i \notin 1 .. Len(q)
      <3>1. i = Len(q) + 1
        BY <1>1, <1>2, <2>2
      <3>2. r[i].number = p + 1
        BY <1>2, <3>1
      <3> QED BY <1>1, <3>1, <3>2
    <2> QED BY <2>1, <2>2
  <1>4. /\ y \in SenderRecord(s) /\ y.queue = r /\ y.buffered = b /\ y.state = x.state
        /\ y.current = x.current /\ y.limiter = x.limiter /\ y.written = x.written /\ y.called = x.called
    <2>1. y = [x EXCEPT !.queue = r, !.buffered = b]
      BY <1>1 DEF Enqueue, SenderRecord
    <2>2. b \in Nat
      BY <1>1
    <2> HIDE DEF y, b, r
    <2> QED BY <1>1, <1>2, <2>1, <2>2 DEF SenderRecord
  <1>5. b = Len(r) + 1 /\ p + 1 = n + 1 + Len(r)
    <2> HIDE DEF q, n, r
    <2> QED BY <1>1, <1>2
  <1> HIDE DEF y, r, b
  <1>6. Busy(y, s, p + 1)
    BY <1>3, <1>4, <1>5 DEF Busy, Held, Deflates
  <1>7. OthersJobs(x, y, s)
    BY <1>4 DEF OthersJobs
  <1> QED BY <1>6, <1>7 DEF y

LEMMA PostFits ==
    ASSUME NEW s \in Sender, NEW p, SenderOf(s) \in SenderRecord(s), Fits(SenderOf(s), s, p),
           NEW entry \in Entry(s), entry.number = p + 1
    PROVE  Fits(Post(s, entry), s, p + 1) /\ OthersJobs(SenderOf(s), Post(s, entry), s)
  <1> DEFINE x == SenderOf(s)
  <1>1. Post(s, entry) = IF x.state # "DEFAULT" THEN Enqueue(x, entry) ELSE Start(x, s, entry)
    BY DEF Post
  <1>2. x \in SenderRecord(s) /\ Fits(x, s, p)
    OBVIOUS
  <1> HIDE DEF x
  <1>3. CASE Busy(x, s, p)
    <2>1. x.state # "DEFAULT"
      BY <1>3 DEF Busy, Held
    <2> QED BY <1>1, <1>3, <2>1, EnqueueBusy DEF Fits, x
  <1>4. CASE Idle(x, s, p) /\ x.queue = << >>
    <2>1. Len(x.queue) = 0 /\ p = Len(x.written) /\ x.state = "DEFAULT"
      <3>1. Len(x.written) \in Nat
        BY <1>2 DEF SenderRecord
      <3> QED BY <1>4, <3>1 DEF Idle
    <2>2. Lined(x.queue, Len(x.written) + 1)
      BY <2>1 DEF Lined
    <2>3. p + 1 = Len(x.written) + 1 + Len(x.queue) /\ Len(x.written) \in Nat
      <3>1. Len(x.written) \in Nat
        BY <1>2 DEF SenderRecord
      <3> QED BY <2>1, <3>1
    <2>4. Awaiting(x, s, p + 1, entry)
      BY <1>2, <1>4, <2>1, <2>2, <2>3 DEF Awaiting, Idle
    <2> QED BY <1>1, <1>4, <2>1, <2>4, StartFits DEF x
  <1> QED BY <1>2, <1>3, <1>4 DEF Fits

\* What waited is taken out of `current'.
Ready(x, t) == [x EXCEPT !.buffered = @ - 1, !.state = t, !.current = << >>]

LEMMA ReadyAwaiting ==
    ASSUME NEW s \in Sender, NEW p, NEW x, Held(x, s, p), ~Deflates(x, s), NEW t \in SenderStates
    PROVE  /\ Awaiting(Ready(x, t), s, p, x.current[1]) /\ OthersJobs(x, Ready(x, t), s)
           /\ Ready(x, t).state = t
  <1> DEFINE y == Ready(x, t)  b == x.buffered - 1  c == << >>
  <1>1. x \in SenderRecord(s) /\ x.buffered = Len(x.queue) + 1 /\ Len(x.queue) \in Nat
    BY DEF Held, SenderRecord
  <1>2. b = Len(x.queue) /\ b \in Nat
    BY <1>1
  <1>3. x.current[1] \in Entry(s)
    BY DEF Held, SenderRecord
  <1>4. /\ y \in SenderRecord(s) /\ y.queue = x.queue /\ y.buffered = b /\ y.state = t
        /\ y.current = c /\ y.limiter = x.limiter /\ y.written = x.written /\ y.called = x.called
    <2>1. y = [x EXCEPT !.buffered = b, !.state = t, !.current = c]
      BY DEF Ready
    <2>2. c \in Seq(Entry(s))
      OBVIOUS
    <2> HIDE DEF y, b, c
    <2>3. x = [queue |-> x.queue, state |-> x.state, current |-> x.current, buffered |-> x.buffered,
               written |-> x.written, called |-> x.called, limiter |-> x.limiter]
      BY <1>1 DEF SenderRecord
    <2>4. y = [queue |-> x.queue, state |-> t, current |-> c, buffered |-> b,
               written |-> x.written, called |-> x.called, limiter |-> x.limiter]
      BY <2>1, <2>3
    <2>5. /\ x.queue \in Seq(Entry(s)) /\ x.written \in Seq(Numbered(s))
          /\ x.called \in Seq(Numbered(s)) /\ x.limiter \in Limiters
      BY <1>1 DEF SenderRecord
    <2>6. y \in SenderRecord(s)
      BY <1>2, <2>2, <2>4, <2>5 DEF SenderRecord
    <2> QED BY <2>4, <2>6
  <1>5. c = << >>
    OBVIOUS
  <1> HIDE DEF y, b, c
  <1>6. Awaiting(y, s, p, x.current[1])
    BY <1>2, <1>3, <1>4, <1>5 DEF Awaiting, Held, Deflates
  <1>7. OthersJobs(x, y, s)
    BY <1>4 DEF OthersJobs
  <1> QED BY <1>4, <1>6, <1>7 DEF y

\* What was read or compressed is written, and what can be of the queue.
LEMMA ReadySent ==
    ASSUME NEW s \in Sender, NEW p, NEW x, Held(x, s, p), ~Deflates(x, s)
    PROVE  LET y == Dequeue(SendFrame(Ready(x, "DEFAULT"), x.current[1]), s)
           IN  Fits(y, s, p) /\ OthersJobs(x, y, s)
  <1> DEFINE t == "DEFAULT"  e == x.current[1]  y == Ready(x, t)  z == SendFrame(y, e)
  <1>1. t \in SenderStates
    BY DEF SenderStates
  <1>2. Awaiting(y, s, p, e) /\ OthersJobs(x, y, s) /\ y.state = "DEFAULT"
    BY <1>1, ReadyAwaiting
  <1> HIDE DEF y, e
  <1>3. Idle(z, s, p) /\ OthersJobs(y, z, s)
    BY <1>2, SendFrameIdle
  <1> HIDE DEF z
  <1>4. Fits(Dequeue(z, s), s, p) /\ OthersJobs(z, Dequeue(z, s), s)
    BY <1>3, DequeueFits
  <1>5. OthersJobs(x, Dequeue(z, s), s)
    BY <1>2, <1>3, <1>4, OthersTrans
  <1> QED BY <1>4, <1>5 DEF y, z, e

\* The callbacks of all that wait are called.
LEMMA CallbacksGiven ==
    ASSUME NEW s \in Sender, NEW p, NEW x, Held(x, s, p), ~Deflates(x, s)
    PROVE  LET y == [CallCallbacks(x) EXCEPT !.current = << >>]
           IN  Given(y, s) /\ OthersJobs(x, y, s)
  <1> DEFINE w == x.called  e == x.current[1].number  a == Append(w, e)  q == x.queue
             v == a \o NumbersOf(q, Len(q))  c == << >>
             y == [CallCallbacks(x) EXCEPT !.current = << >>]
  <1>1. /\ x \in SenderRecord(s) /\ w \in Seq(Numbered(s)) /\ q \in Seq(Entry(s)) /\ InSequence(w)
        /\ e = Len(w) + 1 /\ Lined(q, Len(w) + 1)
    BY DEF Held, SenderRecord
  <1>2. e \in Numbered(s)
    <2>1. x.current \in Seq(Entry(s)) /\ Len(x.current) = 1
      BY DEF Held, SenderRecord
    <2>2. x.current[1] \in Entry(s)
      BY <2>1
    <2> QED BY <2>2 DEF Entry
  <1>3. a \in Seq(Numbered(s)) /\ InSequence(a) /\ Len(a) = Len(w) + 1
    <2> HIDE DEF w, e
    <2> QED BY <1>1, <1>2, InSequenceOn
  <1>4. v \in Seq(Numbered(s)) /\ InSequence(v)
    <2>1. Len(q) \in 0 .. Len(q)
      BY <1>1
    <2>2. Lined(q, Len(a))
      <3> HIDE DEF a, q, w
      <3> QED BY <1>1, <1>3
    <2> HIDE DEF a, q
    <2> QED BY <1>1, <1>3, <2>1, <2>2, InSequenceThrough
  <1>5. c = << >> /\ c \in Seq(Entry(s))
    OBVIOUS
  <1>6. y = [[x EXCEPT !.called = v] EXCEPT !.current = c]
    BY DEF CallCallbacks, NumbersOf
  <1> HIDE DEF y, v, c
  <1>7. /\ y \in SenderRecord(s) /\ y.called = v /\ y.current = c /\ y.limiter = x.limiter
        /\ y.state = x.state /\ y.written = x.written
    BY <1>1, <1>4, <1>5, <1>6 DEF SenderRecord
  <1>8. Given(y, s)
    BY <1>4, <1>5, <1>7 DEF Given, Held, Deflates
  <1>9. OthersJobs(x, y, s)
    BY <1>7 DEF OthersJobs
  <1> QED BY <1>8, <1>9 DEF y

\* The deflation of a sender gives its place back.
LEMMA FreedHeld ==
    ASSUME NEW s \in Sender, NEW p, NEW x, Held(x, s, p), Job("deflate", s) \in x.limiter.running
    PROVE  LET y == [x EXCEPT !.limiter = Done(@, Job("deflate", s))]
           IN  Held(y, s, p) /\ ~Deflates(y, s) /\ OthersJobs(x, y, s) /\ y.current = x.current
  <1> DEFINE l == Done(x.limiter, Job("deflate", s))
             y == [x EXCEPT !.limiter = Done(@, Job("deflate", s))]
  <1>1. x \in SenderRecord(s) /\ Places(x.limiter)
    BY DEF Held
  <1>2. Places(l) /\ Occupied(l) = Occupied(x.limiter) \ {Job("deflate", s)}
    BY <1>1, DonePlaces
  <1>3. l \in Limiters
    <2> HIDE DEF l
    <2> QED BY <1>2 DEF Places, Limiters
  <1>4. y = [x EXCEPT !.limiter = l]
    BY <1>1 DEF SenderRecord
  <1> HIDE DEF y, l
  <1>5. /\ y \in SenderRecord(s) /\ y.limiter = l /\ y.queue = x.queue /\ y.state = x.state
        /\ y.current = x.current /\ y.buffered = x.buffered /\ y.written = x.written
        /\ y.called = x.called
    BY <1>1, <1>3, <1>4 DEF SenderRecord
  <1>6. Held(y, s, p) /\ ~Deflates(y, s)
    BY <1>2, <1>5 DEF Held, Deflates
  <1>7. OthersJobs(x, y, s)
    BY <1>2, <1>5 DEF OthersJobs
  <1> QED BY <1>5, <1>6, <1>7 DEF y

LEMMA AfterDeflateIs ==
    ASSUME NEW s \in Sender, NEW p, NEW x, Busy(x, s, p), Job("deflate", s) \in x.limiter.running
    PROVE  /\ txLink[s] = "up" => Fits(AfterDeflate(x, s), s, p)
           /\ txLink[s] # "up" => Given(AfterDeflate(x, s), s)
           /\ OthersJobs(x, AfterDeflate(x, s), s)
  <1> DEFINE f == [x EXCEPT !.limiter = Done(@, Job("deflate", s))]
             g == [CallCallbacks(f) EXCEPT !.current = << >>]
             h == Dequeue(SendFrame(Ready(f, "DEFAULT"), f.current[1]), s)
  <1>1. Held(f, s, p) /\ ~Deflates(f, s) /\ OthersJobs(x, f, s) /\ f.current = x.current
    BY FreedHeld DEF Busy
  <1>2. AfterDeflate(x, s) = IF txLink[s] # "up" THEN g ELSE h
    <2>1. f.current = x.current
      BY <1>1
    <2> HIDE DEF f
    <2>2. AfterDeflate(x, s) = IF txLink[s] # "up" THEN g
                               ELSE Dequeue(SendFrame(Ready(f, "DEFAULT"), x.current[1]), s)
      BY DEF AfterDeflate, Ready, f
    <2> QED BY <2>1, <2>2
  <1> HIDE DEF f
  <1>3. Given(g, s) /\ OthersJobs(f, g, s)
    BY <1>1, CallbacksGiven
  <1>4. Fits(h, s, p) /\ OthersJobs(f, h, s)
    BY <1>1, ReadySent
  <1> HIDE DEF g, h
  <1>5. OthersJobs(x, g, s) /\ OthersJobs(x, h, s)
    BY <1>1, <1>3, <1>4, OthersTrans
  <1> QED BY <1>2, <1>3, <1>4, <1>5

-----------------------------------------------------------------------------
(* WsSender: all senders and what they share.                              *)

LinkStates == {"up", "destroyed", "cleaned"}

\* Every variable of the senders is a function of them.
IsFunction(f) == f = [t \in Sender |-> f[t]]
TxShape ==
    /\ IsFunction(txQueue) /\ IsFunction(txState) /\ IsFunction(txCurrent) /\ IsFunction(txBuffered)
    /\ IsFunction(txWritten) /\ IsFunction(txCalled)
    /\ IsFunction(txPosted) /\ IsFunction(txClosing) /\ IsFunction(txLink)
    /\ IsFunction(txInflating) /\ IsFunction(txInflated)

\* Who has a closed link is given nothing; a sender whose callbacks were all
\* called neither.
SenderInv(s) ==
    /\ txPosted[s] \in 0 .. MaxPosted[s] /\ txClosing[s] \in BOOLEAN /\ txLink[s] \in LinkStates
    /\ txInflating[s] \in BOOLEAN /\ txInflated[s] \in 0 .. MaxInflated
    /\ txLink[s] # "up" => txClosing[s]
    /\ Fits(SenderOf(s), s, txPosted[s]) \/ (Given(SenderOf(s), s) /\ txClosing[s])
    /\ Job("inflate", s) \in Occupied(Limiter) => txInflating[s]

TxInv == TxShape /\ Places(Limiter) /\ \A s \in Sender : SenderInv(s)

With(f, s, v) == [t \in Sender |-> IF t = s THEN v ELSE f[t]]

LEMMA WithIs ==
    ASSUME NEW f, IsFunction(f), NEW s \in Sender, NEW v
    PROVE  [f EXCEPT ![s] = v] = With(f, s, v) /\ f = With(f, s, f[s])
  BY DEF IsFunction, With

LEMMA WithAt ==
    ASSUME NEW f, NEW s \in Sender, NEW v
    PROVE  /\ IsFunction(With(f, s, v)) /\ With(f, s, v)[s] = v
           /\ \A t \in Sender : t # s => With(f, s, v)[t] = f[t]
  BY DEF IsFunction, With

\* What Store says, function by function.
LEMMA StoreIs ==
    ASSUME TxShape, NEW s \in Sender, NEW y, Store(y, s)
    PROVE  /\ txQueue' = With(txQueue, s, y.queue) /\ txState' = With(txState, s, y.state)
           /\ txCurrent' = With(txCurrent, s, y.current)
           /\ txBuffered' = With(txBuffered, s, y.buffered)
           /\ txWritten' = With(txWritten, s, y.written) /\ txCalled' = With(txCalled, s, y.called)
           /\ Keep(y.limiter)
  <1>1. \A f, v : IsFunction(f) => [f EXCEPT ![s] = v] = With(f, s, v)
    BY WithIs
  <1>2. [txQueue EXCEPT ![s] = y.queue] = With(txQueue, s, y.queue)
    BY <1>1 DEF TxShape
  <1>3. [txState EXCEPT ![s] = y.state] = With(txState, s, y.state)
    BY <1>1 DEF TxShape
  <1>4. [txCurrent EXCEPT ![s] = y.current] = With(txCurrent, s, y.current)
    BY <1>1 DEF TxShape
  <1>5. [txBuffered EXCEPT ![s] = y.buffered] = With(txBuffered, s, y.buffered)
    BY <1>1 DEF TxShape
  <1>6. [txWritten EXCEPT ![s] = y.written] = With(txWritten, s, y.written)
    BY <1>1 DEF TxShape
  <1>7. [txCalled EXCEPT ![s] = y.called] = With(txCalled, s, y.called)
    BY <1>1 DEF TxShape
  <1> QED BY <1>2, <1>3, <1>4, <1>5, <1>6, <1>7 DEF Store

\* A sender that does not move sees another limiter.
Shared(x, l) == [x EXCEPT !.limiter = l]

LEMMA SharedIs ==
    ASSUME NEW s \in Sender, NEW x \in SenderRecord(s), NEW l, Places(l),
           Job("deflate", s) \in Occupied(l) <=> Job("deflate", s) \in Occupied(x.limiter),
           NEW p
    PROVE  /\ Fits(x, s, p) => Fits(Shared(x, l), s, p)
           /\ Given(x, s) => Given(Shared(x, l), s)
  <1> DEFINE y == Shared(x, l)
  <1>1. l \in Limiters
    BY DEF Places, Limiters
  <1>2. /\ y \in SenderRecord(s) /\ y.limiter = l /\ y.queue = x.queue /\ y.state = x.state
        /\ y.current = x.current /\ y.buffered = x.buffered /\ y.written = x.written
        /\ y.called = x.called
    BY <1>1 DEF SenderRecord, Shared
  <1> HIDE DEF y
  <1>3. Fits(x, s, p) => Fits(y, s, p)
    BY <1>2 DEF Fits, Idle, Busy, Held, Deflates
  <1>4. Given(x, s) => Given(y, s)
    BY <1>2 DEF Given, Deflates
  <1> QED BY <1>3, <1>4 DEF y

\* The jobs of the senders but s are the same.
SameJobs(l, m, s) ==
    \A t \in Sender : t # s =>
        /\ Job("deflate", t) \in Occupied(l) <=> Job("deflate", t) \in Occupied(m)
        /\ Job("inflate", t) \in Occupied(l) <=> Job("inflate", t) \in Occupied(m)

\* A step of one sender: what has to be shown of it.
LEMMA Moves ==
    ASSUME TxInv, NEW s \in Sender, NEW y \in SenderRecord(s), Places(y.limiter), Store(y, s),
           NEW p \in 0 .. MaxPosted[s], NEW c \in BOOLEAN, NEW k \in LinkStates,
           NEW i \in BOOLEAN, NEW n \in 0 .. MaxInflated,
           txPosted' = With(txPosted, s, p), txClosing' = With(txClosing, s, c),
           txLink' = With(txLink, s, k), txInflating' = With(txInflating, s, i),
           txInflated' = With(txInflated, s, n),
           k # "up" => c,
           Fits(y, s, p) \/ (Given(y, s) /\ c),
           Job("inflate", s) \in Occupied(y.limiter) => i,
           SameJobs(Limiter, y.limiter, s)
    PROVE  TxInv'
  <1> DEFINE l == y.limiter
  <1>1. TxShape /\ \A t \in Sender : SenderInv(t)
    BY DEF TxInv
  <1>2. /\ txQueue' = With(txQueue, s, y.queue) /\ txState' = With(txState, s, y.state)
        /\ txCurrent' = With(txCurrent, s, y.current) /\ txBuffered' = With(txBuffered, s, y.buffered)
        /\ txWritten' = With(txWritten, s, y.written) /\ txCalled' = With(txCalled, s, y.called)
        /\ Keep(l)
    BY <1>1, StoreIs
  <1>3. TxShape'
    BY <1>2, WithAt DEF TxShape
  <1>4. Limiter' = l
    BY <1>2 DEF Limiter, Keep, SenderRecord, Limiters
  <1> HIDE DEF l
  <1>5. Places(Limiter)'
    BY <1>4 DEF l
  <1>6. SenderOf(s)' = y
    <2>1. y = [queue |-> y.queue, state |-> y.state, current |-> y.current, buffered |-> y.buffered,
               written |-> y.written, called |-> y.called, limiter |-> l]
      BY DEF SenderRecord, l
    <2>2. SenderOf(s)' = [queue |-> txQueue'[s], state |-> txState'[s], current |-> txCurrent'[s],
                          buffered |-> txBuffered'[s], written |-> txWritten'[s],
                          called |-> txCalled'[s], limiter |-> Limiter']
      BY DEF SenderOf
    <2>3. /\ txQueue'[s] = y.queue /\ txState'[s] = y.state /\ txCurrent'[s] = y.current
          /\ txBuffered'[s] = y.buffered /\ txWritten'[s] = y.written /\ txCalled'[s] = y.called
      BY <1>2 DEF With
    <2> QED BY <1>4, <2>1, <2>2, <2>3
  <1>7. SenderInv(s)'
    <2>1. /\ txPosted'[s] = p /\ txClosing'[s] = c /\ txLink'[s] = k /\ txInflating'[s] = i
          /\ txInflated'[s] = n
      BY DEF With
    <2> QED BY <1>4, <1>6, <2>1 DEF SenderInv, l
  <1>8. ASSUME NEW t \in Sender, t # s PROVE SenderInv(t)'
    <2>1. /\ txPosted'[t] = txPosted[t] /\ txClosing'[t] = txClosing[t] /\ txLink'[t] = txLink[t]
          /\ txInflating'[t] = txInflating[t] /\ txInflated'[t] = txInflated[t]
      BY <1>8, WithAt
    <2>2. /\ txQueue'[t] = txQueue[t] /\ txState'[t] = txState[t] /\ txCurrent'[t] = txCurrent[t]
          /\ txBuffered'[t] = txBuffered[t] /\ txWritten'[t] = txWritten[t]
          /\ txCalled'[t] = txCalled[t]
      BY <1>2, <1>8, WithAt
    <2>3. SenderOf(t)' = Shared(SenderOf(t), l)
      <3>1. SenderOf(t)' = [queue |-> txQueue'[t], state |-> txState'[t], current |-> txCurrent'[t],
                            buffered |-> txBuffered'[t], written |-> txWritten'[t],
                            called |-> txCalled'[t], limiter |-> Limiter']
        BY DEF SenderOf
      <3>2. Shared(SenderOf(t), l) =
                [queue |-> txQueue[t], state |-> txState[t], current |-> txCurrent[t],
                 buffered |-> txBuffered[t], written |-> txWritten[t],
                 called |-> txCalled[t], limiter |-> l]
        BY DEF SenderOf, Shared
      <3> QED BY <1>4, <2>2, <3>1, <3>2
    <2>4. SenderInv(t)
      BY <1>1
    <2>5. /\ Job("deflate", t) \in Occupied(Limiter) <=> Job("deflate", t) \in Occupied(l)
          /\ Job("inflate", t) \in Occupied(Limiter) <=> Job("inflate", t) \in Occupied(l)
      BY <1>8 DEF SameJobs, l
    <2>6. SenderOf(t).limiter = Limiter
      BY DEF SenderOf
    <2>7. Fits(SenderOf(t), t, txPosted[t]) \/ Given(SenderOf(t), t)
      BY <2>4 DEF SenderInv
    <2>8. SenderOf(t) \in SenderRecord(t)
      BY <2>7 DEF Fits, Idle, Busy, Held, Given
    <2>9. /\ Fits(SenderOf(t), t, txPosted[t]) => Fits(Shared(SenderOf(t), l), t, txPosted[t])
          /\ Given(SenderOf(t), t) => Given(Shared(SenderOf(t), l), t)
      <3>1. Places(l)
        BY DEF l
      <3> DEFINE x == SenderOf(t)  j == Job("deflate", t)
      <3>2. j \in Occupied(l) <=> j \in Occupied(x.limiter)
        BY <2>5, <2>6
      <3>3. x \in SenderRecord(t)
        BY <2>8
      <3> HIDE DEF x
      <3>4. /\ Fits(x, t, txPosted[t]) => Fits(Shared(x, l), t, txPosted[t])
            /\ Given(x, t) => Given(Shared(x, l), t)
        BY <3>1, <3>2, <3>3, SharedIs
      <3> QED BY <3>4 DEF x
    <2>10. Fits(SenderOf(t)', t, txPosted'[t]) \/ (Given(SenderOf(t)', t) /\ txClosing'[t])
      BY <2>1, <2>3, <2>4, <2>9 DEF SenderInv
    <2> QED BY <1>4, <2>1, <2>4, <2>5, <2>10 DEF SenderInv
  <1> QED BY <1>3, <1>5, <1>7, <1>8 DEF TxInv

LEMMA KeptIs ==
    ASSUME TxShape, NEW s \in Sender
    PROVE  /\ txPosted = With(txPosted, s, txPosted[s]) /\ txClosing = With(txClosing, s, txClosing[s])
           /\ txLink = With(txLink, s, txLink[s])
           /\ txInflating = With(txInflating, s, txInflating[s])
           /\ txInflated = With(txInflated, s, txInflated[s])
           /\ \A v : [txPosted EXCEPT ![s] = v] = With(txPosted, s, v)
           /\ \A v : [txClosing EXCEPT ![s] = v] = With(txClosing, s, v)
           /\ \A v : [txLink EXCEPT ![s] = v] = With(txLink, s, v)
           /\ \A v : [txInflating EXCEPT ![s] = v] = With(txInflating, s, v)
           /\ \A v : [txInflated EXCEPT ![s] = v] = With(txInflated, s, v)
  <1>1. \A f, v : IsFunction(f) => [f EXCEPT ![s] = v] = With(f, s, v) /\ f = With(f, s, f[s])
    BY WithIs
  <1>2. txPosted = With(txPosted, s, txPosted[s]) /\ \A v : [txPosted EXCEPT ![s] = v] = With(txPosted, s, v)
    BY <1>1 DEF TxShape
  <1>3. txClosing = With(txClosing, s, txClosing[s]) /\ \A v : [txClosing EXCEPT ![s] = v] = With(txClosing, s, v)
    BY <1>1 DEF TxShape
  <1>4. txLink = With(txLink, s, txLink[s]) /\ \A v : [txLink EXCEPT ![s] = v] = With(txLink, s, v)
    BY <1>1 DEF TxShape
  <1>5. txInflating = With(txInflating, s, txInflating[s]) /\ \A v : [txInflating EXCEPT ![s] = v] = With(txInflating, s, v)
    BY <1>1 DEF TxShape
  <1>6. txInflated = With(txInflated, s, txInflated[s]) /\ \A v : [txInflated EXCEPT ![s] = v] = With(txInflated, s, v)
    BY <1>1 DEF TxShape
  <1> QED BY <1>2, <1>3, <1>4, <1>5, <1>6

\* A call that changes a sender, and who else uses the limiter.
LEMMA CallKeeps ==
    ASSUME TxInv, NEW s \in Sender, NEW y, Store(y, s),
           NEW p \in 0 .. MaxPosted[s], NEW c \in BOOLEAN, NEW k \in LinkStates,
           txPosted' = With(txPosted, s, p), txClosing' = With(txClosing, s, c),
           txLink' = With(txLink, s, k), UNCHANGED <<txInflating, txInflated>>,
           k # "up" => c,
           Fits(y, s, p) \/ (Given(y, s) /\ c),
           OthersJobs(SenderOf(s), y, s)
    PROVE  TxInv'
  <1> DEFINE i == txInflating[s]  n == txInflated[s]
  <1>1. SenderInv(s) /\ TxShape
    BY DEF TxInv
  <1>2. y \in SenderRecord(s) /\ Places(y.limiter)
    BY DEF Fits, Idle, Busy, Held, Given
  <1>3. SenderOf(s).limiter = Limiter
    BY DEF SenderOf
  <1>4. SameJobs(Limiter, y.limiter, s) /\ (Job("inflate", s) \in Occupied(y.limiter) => i)
    <2>1. \A j \in AnyJob : j # Job("deflate", s) => (j \in Occupied(Limiter) <=> j \in Occupied(y.limiter))
      BY <1>3 DEF OthersJobs
    <2>2. \A t \in Sender : /\ Job("deflate", t) \in AnyJob /\ Job("inflate", t) \in AnyJob
                            /\ Job("inflate", t) # Job("deflate", s)
                            /\ t # s => Job("deflate", t) # Job("deflate", s)
      BY JobsAre
    <2>3. Job("inflate", s) \in Occupied(Limiter) => i
      BY <1>1 DEF SenderInv
    <2>4. SameJobs(Limiter, y.limiter, s)
      BY <2>1, <2>2 DEF SameJobs
    <2>5. Job("inflate", s) \in Occupied(Limiter) <=> Job("inflate", s) \in Occupied(y.limiter)
      BY <2>1, <2>2
    <2> QED BY <2>3, <2>4, <2>5
  <1>5. i \in BOOLEAN /\ n \in 0 .. MaxInflated
    BY <1>1 DEF SenderInv
  <1>6. txInflating' = With(txInflating, s, i) /\ txInflated' = With(txInflated, s, n)
    BY <1>1, KeptIs
  <1> HIDE DEF i, n
  <1> QED BY <1>2, <1>4, <1>5, <1>6, Moves

LEMMA SenderIs ==
    ASSUME TxInv, NEW s \in Sender
    PROVE  /\ SenderInv(s) /\ TxShape /\ SenderOf(s) \in SenderRecord(s) /\ Places(Limiter)
           /\ txPosted[s] \in Nat /\ MaxPosted[s] \in Nat
           /\ SenderOf(s).limiter = Limiter /\ SenderOf(s).state = txState[s]
           /\ SenderOf(s).current = txCurrent[s]
           /\ ~txClosing[s] => Fits(SenderOf(s), s, txPosted[s])
  <1>1. SenderInv(s) /\ TxShape /\ Places(Limiter)
    BY DEF TxInv
  <1>2. SenderOf(s) \in SenderRecord(s)
    BY <1>1 DEF SenderInv, Fits, Idle, Busy, Held, Given
  <1>3. MaxPosted[s] \in Nat
    BY ConcurrencyAssumption
  <1>4. txPosted[s] \in Nat /\ (~txClosing[s] => Fits(SenderOf(s), s, txPosted[s]))
    BY <1>1, <1>3 DEF SenderInv
  <1>5. /\ SenderOf(s).limiter = Limiter /\ SenderOf(s).state = txState[s]
        /\ SenderOf(s).current = txCurrent[s]
    BY DEF SenderOf
  <1> QED BY <1>1, <1>2, <1>3, <1>4, <1>5

LEMMA SendKeeps ==
    ASSUME TxInv, NEW s \in Sender, NEW b \in BOOLEAN, NEW z \in BOOLEAN, NEW c \in BOOLEAN,
           txLink[s] = "up", ~txClosing[s], txPosted[s] < MaxPosted[s],
           Store(Post(s, [number |-> txPosted[s] + 1, blob |-> b, compress |-> z]), s),
           txPosted' = [txPosted EXCEPT ![s] = @ + 1], txClosing' = With(txClosing, s, c),
           UNCHANGED <<txLink, txInflating, txInflated>>
    PROVE  TxInv'
  <1> DEFINE p == txPosted[s] + 1  e == [number |-> p, blob |-> b, compress |-> z]
             y == Post(s, e)  k == txLink[s]
  <1>1. /\ SenderInv(s) /\ TxShape /\ SenderOf(s) \in SenderRecord(s) /\ txPosted[s] \in Nat
        /\ MaxPosted[s] \in Nat /\ Fits(SenderOf(s), s, txPosted[s])
    BY SenderIs
  <1>2. p \in 1 .. MaxPosted[s] /\ p \in 0 .. MaxPosted[s]
    BY <1>1
  <1>3. e \in Entry(s) /\ e.number = txPosted[s] + 1
    BY <1>2 DEF Entry, Numbered
  <1>4. txPosted' = With(txPosted, s, p) /\ txLink' = With(txLink, s, k)
    BY <1>1, KeptIs
  <1>5. k = "up" /\ k \in LinkStates
    BY <1>1 DEF SenderInv
  <1>6. Store(y, s)
    OBVIOUS
  <1> HIDE DEF e, k, y
  <1>7. Fits(y, s, p) /\ OthersJobs(SenderOf(s), y, s)
    BY <1>1, <1>3, PostFits DEF y
  <1> HIDE DEF p
  <1> QED BY <1>2, <1>4, <1>5, <1>6, <1>7, CallKeeps

LEMMA SendEntryKeeps ==
    ASSUME TxInv, NEW s \in Sender, SendEntry(s)
    PROVE  TxInv'
  <1>1. PICK k \in Kinds[s] :
            Store(Post(s, [number |-> txPosted[s] + 1, blob |-> k.blob, compress |-> k.compress]), s)
    BY DEF SendEntry
  <1>2. k.blob \in BOOLEAN /\ k.compress \in BOOLEAN
    BY ConcurrencyAssumption
  <1>3. TxShape /\ txClosing[s] \in BOOLEAN
    BY SenderIs DEF SenderInv
  <1>4. txClosing' = With(txClosing, s, txClosing[s])
    BY <1>3, KeptIs DEF SendEntry
  <1> QED BY <1>1, <1>2, <1>3, <1>4, SendKeeps DEF SendEntry

LEMMA CloseSenderKeeps ==
    ASSUME TxInv, NEW s \in Sender, CloseSender(s)
    PROVE  TxInv'
  <1>1. TxShape
    BY SenderIs
  <1>2. txClosing' = With(txClosing, s, TRUE)
    BY <1>1, KeptIs DEF CloseSender
  <1> QED BY <1>2, SendKeeps DEF CloseSender

\* The same for a call that is given nothing and ends nothing.
LEMMA AnswerKeeps ==
    ASSUME TxInv, NEW s \in Sender, NEW y, Store(y, s),
           UNCHANGED <<txPosted, txClosing, txLink, txInflating, txInflated>>,
           Fits(y, s, txPosted[s]) \/ (Given(y, s) /\ txLink[s] # "up"),
           OthersJobs(SenderOf(s), y, s)
    PROVE  TxInv'
  <1> DEFINE p == txPosted[s]  c == txClosing[s]  k == txLink[s]
  <1>1. SenderInv(s) /\ TxShape
    BY SenderIs
  <1>2. p \in 0 .. MaxPosted[s] /\ c \in BOOLEAN /\ k \in LinkStates /\ (k # "up" => c)
    BY <1>1 DEF SenderInv
  <1>3. txPosted' = With(txPosted, s, p) /\ txClosing' = With(txClosing, s, c) /\ txLink' = With(txLink, s, k)
    BY <1>1, KeptIs
  <1>4. Fits(y, s, p) \/ (Given(y, s) /\ c)
    BY <1>2
  <1> HIDE DEF p, c, k
  <1> QED BY <1>2, <1>3, <1>4, CallKeeps

\* A sender that reads a blob or deflates.
LEMMA BusySender ==
    ASSUME TxInv, NEW s \in Sender,
           txCurrent[s] # << >> \/ Job("deflate", s) \in Occupied(Limiter)
    PROVE  Busy(SenderOf(s), s, txPosted[s])
  <1> DEFINE x == SenderOf(s)
  <1>1. SenderInv(s) /\ x.current = txCurrent[s] /\ x.limiter = Limiter
    BY SenderIs
  <1>2. Fits(x, s, txPosted[s]) \/ Given(x, s)
    BY <1>1 DEF SenderInv
  <1> HIDE DEF x
  <1>3. x.current # << >> \/ Deflates(x, s)
    BY <1>1 DEF Deflates
  <1>4. Busy(x, s, txPosted[s])
    BY <1>2, <1>3 DEF Fits, Idle, Given
  <1> QED BY <1>4 DEF x

LEMMA BlobReadKeeps ==
    ASSUME TxInv, NEW s \in Sender, BlobRead(s)
    PROVE  TxInv'
  <1> DEFINE x == SenderOf(s)  p == txPosted[s]  entry == x.current[1]
             taken == [x EXCEPT !.buffered = @ - 1, !.current = << >>]
             a == [CallCallbacks(x) EXCEPT !.current = << >>]
             b == Dispatch(taken, s, entry)
             d == Dequeue(SendFrame([taken EXCEPT !.state = "DEFAULT"], entry), s)
             y == CASE txLink[s] # "up" -> a
                    [] txLink[s] = "up" /\ entry.compress -> b
                    [] OTHER -> d
  <1>1. /\ Busy(x, s, p) /\ x.state = txState[s] /\ x \in SenderRecord(s)
        /\ txState[s] = "GET_BLOB_DATA"
    BY SenderIs, BusySender DEF BlobRead
  <1>2. Held(x, s, p) /\ ~Deflates(x, s)
    BY <1>1 DEF Busy
  <1>3. /\ Store(y, s) /\ UNCHANGED <<txPosted, txClosing, txLink, txInflating, txInflated>>
    BY DEF BlobRead
  <1>4. Given(a, s) /\ OthersJobs(x, a, s)
    <2> HIDE DEF x
    <2> QED BY <1>2, CallbacksGiven
  <1>5. entry.compress => Fits(b, s, p) /\ OthersJobs(x, b, s)
    <2> DEFINE t == x.state
    <2>1. taken = Ready(x, t)
      <3> HIDE DEF x
      <3> QED BY <1>1 DEF Ready, SenderRecord
    <2>2. t \in SenderStates
      BY <1>1 DEF SenderRecord
    <2> HIDE DEF x, t, taken
    <2>3. Awaiting(taken, s, p, entry) /\ OthersJobs(x, taken, s)
      BY <1>2, <2>1, <2>2, ReadyAwaiting
    <2> HIDE DEF entry
    <2>4. entry.compress => Fits(b, s, p) /\ OthersJobs(taken, b, s)
      BY <2>3, DispatchFits
    <2> QED BY <2>3, <2>4, OthersTrans
  <1>6. Fits(d, s, p) /\ OthersJobs(x, d, s)
    <2>1. [taken EXCEPT !.state = "DEFAULT"] = Ready(x, "DEFAULT")
      <3> HIDE DEF x
      <3> QED BY <1>1 DEF Ready, SenderRecord
    <2>2. d = Dequeue(SendFrame(Ready(x, "DEFAULT"), entry), s)
      BY <2>1
    <2> HIDE DEF x
    <2> QED BY <1>2, <2>2, ReadySent
  <1>7. \/ y = a /\ txLink[s] # "up"
        \/ y = b /\ entry.compress
        \/ y = d
    <2> HIDE DEF a, b, d, entry
    <2> QED OBVIOUS
  <1> HIDE DEF y, a, b, d, entry
  <1>8. /\ Fits(y, s, p) \/ (Given(y, s) /\ txLink[s] # "up")
        /\ OthersJobs(x, y, s)
    BY <1>4, <1>5, <1>6, <1>7
  <1> QED BY <1>3, <1>8, AnswerKeeps

LEMMA BlobFailsKeeps ==
    ASSUME TxInv, NEW s \in Sender, BlobFails(s)
    PROVE  TxInv'
  <1> DEFINE x == SenderOf(s)  p == txPosted[s]  k == txLink[s]
             a == [CallCallbacks(x) EXCEPT !.current = << >>]
  <1>1. /\ Busy(x, s, p) /\ x.state = txState[s] /\ txState[s] = "GET_BLOB_DATA"
        /\ SenderInv(s) /\ TxShape
    BY SenderIs, BusySender DEF BlobFails
  <1>2. Held(x, s, p) /\ ~Deflates(x, s)
    BY <1>1 DEF Busy
  <1>3. Given(a, s) /\ OthersJobs(x, a, s)
    <2> HIDE DEF x
    <2> QED BY <1>2, CallbacksGiven
  <1>4. Store(a, s) /\ UNCHANGED <<txPosted, txLink, txInflating, txInflated>>
        /\ txClosing' = [txClosing EXCEPT ![s] = TRUE]
    BY DEF BlobFails
  <1>5. /\ txPosted' = With(txPosted, s, p) /\ txClosing' = With(txClosing, s, TRUE)
        /\ txLink' = With(txLink, s, k)
    BY <1>1, <1>4, KeptIs
  <1>6. p \in 0 .. MaxPosted[s] /\ k \in LinkStates
    BY <1>1 DEF SenderInv
  <1> HIDE DEF a, p, k
  <1> QED BY <1>3, <1>4, <1>5, <1>6, CallKeeps

LEMMA InRunning ==
    ASSUME NEW j, j \in running
    PROVE  j \in Limiter.running /\ j \in Occupied(Limiter)
  BY DEF Limiter, Occupied

\* What a deflation leaves, whoever ends it.
LEMMA DeflationEnds ==
    ASSUME TxInv, NEW s \in Sender, Job("deflate", s) \in running
    PROVE  LET y == AfterDeflate(SenderOf(s), s)
           IN  /\ txLink[s] = "up" => Fits(y, s, txPosted[s])
               /\ txLink[s] # "up" => Given(y, s)
               /\ OthersJobs(SenderOf(s), y, s)
  <1>1. Job("deflate", s) \in Limiter.running /\ Job("deflate", s) \in Occupied(Limiter)
    BY InRunning
  <1>2. Busy(SenderOf(s), s, txPosted[s]) /\ SenderOf(s).limiter = Limiter
    BY <1>1, BusySender, SenderIs
  <1>3. Job("deflate", s) \in SenderOf(s).limiter.running
    BY <1>1, <1>2
  <1> QED BY <1>2, <1>3, AfterDeflateIs

LEMMA DeflatedKeeps ==
    ASSUME TxInv, NEW s \in Sender, Deflated(s)
    PROVE  TxInv'
  <1> DEFINE y == AfterDeflate(SenderOf(s), s)
  <1>1. /\ txLink[s] = "up" => Fits(y, s, txPosted[s])
        /\ txLink[s] # "up" => Given(y, s)
        /\ OthersJobs(SenderOf(s), y, s)
    BY DeflationEnds DEF Deflated
  <1>2. Store(y, s) /\ UNCHANGED <<txPosted, txClosing, txLink, txInflating, txInflated>>
    BY DEF Deflated
  <1> HIDE DEF y
  <1> QED BY <1>1, <1>2, AnswerKeeps

\* Of a sender nothing changes but what the limiter holds.
LEMMA StoreShared ==
    ASSUME TxShape, NEW s \in Sender, NEW l, Keep(l),
           UNCHANGED <<txQueue, txState, txCurrent, txBuffered, txWritten, txCalled>>
    PROVE  Store(Shared(SenderOf(s), l), s)
  <1> DEFINE y == Shared(SenderOf(s), l)
  <1>1. /\ y.queue = txQueue[s] /\ y.state = txState[s] /\ y.current = txCurrent[s]
        /\ y.buffered = txBuffered[s] /\ y.written = txWritten[s] /\ y.called = txCalled[s]
        /\ y.limiter = l
    BY DEF Shared, SenderOf
  <1> HIDE DEF y
  <1>2. \A f : IsFunction(f) => f = [f EXCEPT ![s] = f[s]]
    BY DEF IsFunction
  <1>3. txQueue' = [txQueue EXCEPT ![s] = y.queue] /\ txState' = [txState EXCEPT ![s] = y.state]
    BY <1>1, <1>2 DEF TxShape
  <1>4. txCurrent' = [txCurrent EXCEPT ![s] = y.current]
        /\ txBuffered' = [txBuffered EXCEPT ![s] = y.buffered]
    BY <1>1, <1>2 DEF TxShape
  <1>5. txWritten' = [txWritten EXCEPT ![s] = y.written]
        /\ txCalled' = [txCalled EXCEPT ![s] = y.called]
    BY <1>1, <1>2 DEF TxShape
  <1> QED BY <1>1, <1>3, <1>4, <1>5 DEF Store, y

LEMMA SharedFits ==
    ASSUME TxInv, NEW s \in Sender, NEW l, Places(l),
           Job("deflate", s) \in Occupied(l) <=> Job("deflate", s) \in Occupied(Limiter)
    PROVE  LET y == Shared(SenderOf(s), l)
           IN  /\ y \in SenderRecord(s) /\ y.limiter = l
               /\ Fits(y, s, txPosted[s]) \/ (Given(y, s) /\ txClosing[s])
  <1> DEFINE x == SenderOf(s)  y == Shared(x, l)
  <1>1. /\ x \in SenderRecord(s) /\ x.limiter = Limiter
        /\ Fits(x, s, txPosted[s]) \/ (Given(x, s) /\ txClosing[s])
    BY SenderIs DEF SenderInv
  <1> HIDE DEF x
  <1>2. /\ Fits(x, s, txPosted[s]) => Fits(y, s, txPosted[s])
        /\ Given(x, s) => Given(y, s)
    BY <1>1, SharedIs
  <1>3. y.limiter = l
    BY <1>1 DEF Shared, SenderRecord
  <1> HIDE DEF y
  <1>4. Fits(y, s, txPosted[s]) \/ (Given(y, s) /\ txClosing[s])
    BY <1>1, <1>2
  <1>5. y \in SenderRecord(s)
    BY <1>4 DEF Fits, Idle, Busy, Held, Given
  <1> QED BY <1>3, <1>4, <1>5 DEF y, x

\* The receiver's steps: only the limiter, and whether the receiver waits.
LEMMA InflationKeeps ==
    ASSUME TxInv, NEW s \in Sender, NEW l, Places(l), Keep(l),
           NEW i \in BOOLEAN, NEW n \in 0 .. MaxInflated,
           txInflating' = With(txInflating, s, i), txInflated' = With(txInflated, s, n),
           UNCHANGED <<txQueue, txState, txCurrent, txBuffered, txWritten, txCalled>>,
           UNCHANGED <<txPosted, txClosing, txLink>>,
           \A j \in AnyJob : j # Job("inflate", s) => (j \in Occupied(Limiter) <=> j \in Occupied(l)),
           Job("inflate", s) \in Occupied(l) => i
    PROVE  TxInv'
  <1> DEFINE y == Shared(SenderOf(s), l)  p == txPosted[s]  c == txClosing[s]  k == txLink[s]
  <1>1. SenderInv(s) /\ TxShape
    BY SenderIs
  <1>2. \A t \in Sender : /\ Job("deflate", t) \in AnyJob /\ Job("inflate", t) \in AnyJob
                          /\ Job("deflate", t) # Job("inflate", s)
                          /\ t # s => Job("inflate", t) # Job("inflate", s)
    BY JobsAre
  <1>3. SameJobs(Limiter, l, s) /\ (Job("deflate", s) \in Occupied(l) <=> Job("deflate", s) \in Occupied(Limiter))
    BY <1>2 DEF SameJobs
  <1>4. /\ y \in SenderRecord(s) /\ y.limiter = l
        /\ Fits(y, s, p) \/ (Given(y, s) /\ c)
    BY <1>3, SharedFits
  <1>5. Store(y, s)
    BY <1>1, StoreShared
  <1>6. p \in 0 .. MaxPosted[s] /\ c \in BOOLEAN /\ k \in LinkStates /\ (k # "up" => c)
    BY <1>1 DEF SenderInv
  <1>7. txPosted' = With(txPosted, s, p) /\ txClosing' = With(txClosing, s, c) /\ txLink' = With(txLink, s, k)
    BY <1>1, KeptIs
  <1> HIDE DEF y, p, c, k
  <1>8. Places(y.limiter) /\ SameJobs(Limiter, y.limiter, s) /\ (Job("inflate", s) \in Occupied(y.limiter) => i)
    BY <1>3, <1>4
  <1> QED BY <1>4, <1>5, <1>6, <1>7, <1>8, Moves

LEMMA DecompressKeeps ==
    ASSUME TxInv, NEW s \in Sender, Decompress(s)
    PROVE  TxInv'
  <1> DEFINE j == Job("inflate", s)  l == Add(Limiter, j)  n == txInflated[s] + 1
  <1>1. SenderInv(s) /\ TxShape /\ Places(Limiter)
    BY SenderIs
  <1>2. j \in AnyJob /\ j \notin Occupied(Limiter)
    BY <1>1, JobsAre DEF SenderInv, Decompress
  <1>3. Places(l) /\ Occupied(l) = Occupied(Limiter) \cup {j}
    <2> HIDE DEF j
    <2> QED BY <1>1, <1>2, AddPlaces
  <1>4. n \in 0 .. MaxInflated
    <2>1. MaxInflated \in Nat /\ txInflated[s] \in 0 .. MaxInflated /\ txInflated[s] < MaxInflated
      BY <1>1, ConcurrencyAssumption DEF SenderInv, Decompress
    <2> QED BY <2>1
  <1>5. txInflating' = With(txInflating, s, TRUE) /\ txInflated' = With(txInflated, s, n)
    BY <1>1, KeptIs DEF Decompress
  <1>6. /\ Keep(l) /\ UNCHANGED <<txQueue, txState, txCurrent, txBuffered, txWritten, txCalled>>
        /\ UNCHANGED <<txPosted, txClosing, txLink>>
    BY DEF Decompress
  <1> HIDE DEF l, n
  <1>7. \A h \in AnyJob : h # j => (h \in Occupied(Limiter) <=> h \in Occupied(l))
    BY <1>3
  <1> QED BY <1>3, <1>4, <1>5, <1>6, <1>7, InflationKeeps

LEMMA InflateDoneKeeps ==
    ASSUME TxInv, NEW s \in Sender, InflateDone(s)
    PROVE  TxInv'
  <1> DEFINE j == Job("inflate", s)  l == Done(Limiter, j)  n == txInflated[s]
  <1>1. SenderInv(s) /\ TxShape /\ Places(Limiter)
    BY SenderIs
  <1>2. j \in Limiter.running
    BY InRunning DEF InflateDone
  <1>3. Places(l) /\ Occupied(l) = Occupied(Limiter) \ {j}
    <2> HIDE DEF j
    <2> QED BY <1>1, <1>2, DonePlaces
  <1>4. n \in 0 .. MaxInflated
    BY <1>1 DEF SenderInv
  <1>5. txInflating' = With(txInflating, s, FALSE) /\ txInflated' = With(txInflated, s, n)
    BY <1>1, KeptIs DEF InflateDone
  <1>6. /\ Keep(l) /\ UNCHANGED <<txQueue, txState, txCurrent, txBuffered, txWritten, txCalled>>
        /\ UNCHANGED <<txPosted, txClosing, txLink>>
    BY DEF InflateDone
  <1> HIDE DEF l, n
  <1>7. /\ \A h \in AnyJob : h # j => (h \in Occupied(Limiter) <=> h \in Occupied(l))
        /\ j \notin Occupied(l)
    BY <1>3
  <1> QED BY <1>3, <1>4, <1>5, <1>6, <1>7, InflationKeeps

\* The link ends and nothing is called yet.
LEMMA LinkEndKeeps ==
    ASSUME TxInv, NEW s \in Sender, NEW k \in LinkStates, txLink' = [txLink EXCEPT ![s] = k],
           txClosing' = With(txClosing, s, TRUE),
           UNCHANGED <<txQueue, txState, txCurrent, txBuffered, txWritten, txCalled>>,
           UNCHANGED <<txPosted, txInflating, txInflated, jobs, running>>
    PROVE  TxInv'
  <1> DEFINE l == Limiter  y == Shared(SenderOf(s), l)  p == txPosted[s]
  <1>1. SenderInv(s) /\ TxShape /\ Places(l) /\ SenderOf(s).limiter = l
    BY SenderIs
  <1>2. Keep(l)
    BY DEF Keep, Limiter
  <1>3. Store(y, s)
    <2> HIDE DEF l
    <2> QED BY <1>1, <1>2, StoreShared
  <1>4. y.limiter = l /\ (Fits(y, s, p) \/ Given(y, s))
    BY <1>1, SharedFits
  <1>5. p \in 0 .. MaxPosted[s]
    BY <1>1 DEF SenderInv
  <1>6. txPosted' = With(txPosted, s, p) /\ txLink' = With(txLink, s, k)
    BY <1>1, KeptIs
  <1> HIDE DEF y, p, l
  <1>7. OthersJobs(SenderOf(s), y, s)
    BY <1>1, <1>4 DEF OthersJobs
  <1> QED BY <1>3, <1>4, <1>5, <1>6, <1>7, CallKeeps

LEMMA DestroySocketKeeps ==
    ASSUME TxInv, NEW s \in Sender, DestroySocket(s)
    PROVE  TxInv'
  <1>1. TxShape
    BY SenderIs
  <1>2. txClosing' = With(txClosing, s, TRUE) /\ "destroyed" \in LinkStates
    BY <1>1, KeptIs DEF DestroySocket, LinkStates
  <1> QED BY <1>2, LinkEndKeeps DEF DestroySocket

LEMMA CleanupKeeps ==
    ASSUME TxInv, NEW s \in Sender, Cleanup(s)
    PROVE  TxInv'
  <1> DEFINE k == "cleaned"  p == txPosted[s]
  <1>1. SenderInv(s) /\ TxShape /\ k \in LinkStates
    BY SenderIs DEF LinkStates
  <1>2. txLink[s] # "up" /\ txClosing[s] = TRUE
    BY <1>1 DEF Cleanup, SenderInv
  <1>3. /\ txClosing' = With(txClosing, s, TRUE) /\ txLink' = With(txLink, s, k)
        /\ txPosted' = With(txPosted, s, p)
    BY <1>1, <1>2, KeptIs DEF Cleanup
  <1>4. CASE Job("deflate", s) \in running
    <2> DEFINE y == AfterDeflate(SenderOf(s), s)
    <2>1. Given(y, s) /\ OthersJobs(SenderOf(s), y, s)
      BY <1>2, <1>4, DeflationEnds
    <2>2. Store(y, s) /\ UNCHANGED <<txInflating, txInflated>>
      BY <1>4 DEF Cleanup
    <2>3. p \in 0 .. MaxPosted[s]
      BY <1>1 DEF SenderInv
    <2> HIDE DEF y, p, k
    <2> QED BY <1>1, <1>3, <2>1, <2>2, <2>3, CallKeeps
  <1>5. CASE Job("deflate", s) \notin running
    BY <1>1, <1>3, <1>5, LinkEndKeeps DEF Cleanup
  <1> QED BY <1>4, <1>5

LEMMA TxInitInv == TxInit => TxInv
  <1> SUFFICES ASSUME TxInit PROVE TxInv
    OBVIOUS
  <1>1. TxShape
    BY DEF TxInit, TxShape, IsFunction
  <1>2. Places(Limiter) /\ Occupied(Limiter) = {}
    <2> DEFINE l == Limiter
    <2>1. l = [jobs |-> l.jobs, running |-> l.running] /\ l.jobs = << >> /\ l.running = {}
      BY DEF Limiter, TxInit
    <2> HIDE DEF l
    <2>2. IsFiniteSet(l.running) /\ Cardinality(l.running) = 0
      BY <2>1, FS_EmptySet
    <2>3. 0 <= Concurrency
      BY ConcurrencyAssumption
    <2>4. l.jobs \in Seq(AnyJob) /\ Len(l.jobs) = 0
      BY <2>1
    <2>5. Places(l)
      BY <2>1, <2>2, <2>3, <2>4 DEF Places
    <2>6. Occupied(l) = {}
      BY <2>1, <2>4 DEF Occupied
    <2> QED BY <2>5, <2>6 DEF l
  <1>3. ASSUME NEW s \in Sender PROVE SenderInv(s)
    <2> DEFINE x == SenderOf(s)  e == << >>
    <2>1. x = [queue |-> e, state |-> "DEFAULT", current |-> e, buffered |-> 0, written |-> e,
               called |-> e, limiter |-> Limiter]
      BY DEF TxInit, SenderOf
    <2>2. e \in Seq(Entry(s)) /\ e \in Seq(Numbered(s)) /\ Len(e) = 0 /\ e = << >>
      OBVIOUS
    <2>3. Limiter \in Limiters
      BY <1>2 DEF Places, Limiters
    <2> HIDE DEF x, e
    <2>4. x \in SenderRecord(s)
      BY <2>1, <2>2, <2>3 DEF SenderRecord, SenderStates
    <2>5. /\ x.queue = e /\ x.state = "DEFAULT" /\ x.current = e /\ x.buffered = 0 /\ x.written = e
          /\ x.called = e /\ x.limiter = Limiter
      BY <2>1
    <2>6. Fits(x, s, 0)
      BY <1>2, <2>2, <2>4, <2>5 DEF Fits, Idle, Deflates, InSequence, Lined
    <2>7. MaxPosted[s] \in Nat /\ MaxInflated \in Nat
      BY ConcurrencyAssumption
    <2>8. /\ txPosted[s] = 0 /\ txClosing[s] = FALSE /\ txLink[s] = "up" /\ txInflating[s] = FALSE
          /\ txInflated[s] = 0
      BY DEF TxInit
    <2>9. txPosted[s] \in 0 .. MaxPosted[s] /\ txInflated[s] \in 0 .. MaxInflated
      BY <2>7, <2>8
    <2>10. txClosing[s] \in BOOLEAN /\ txInflating[s] \in BOOLEAN /\ txLink[s] \in LinkStates
      BY <2>8 DEF LinkStates
    <2>11. Fits(x, s, txPosted[s])
      BY <2>6, <2>8
    <2>12. txLink[s] = "up" /\ Job("inflate", s) \notin Occupied(Limiter)
      BY <1>2, <2>8
    <2> QED BY <2>9, <2>10, <2>11, <2>12 DEF SenderInv, x
  <1> QED BY <1>1, <1>2, <1>3 DEF TxInv

LEMMA TxInvKept ==
    ASSUME UNCHANGED txVars, TxInv PROVE TxInv'
  BY DEF txVars, TxInv, TxShape, SenderInv, SenderOf, Limiter

LEMMA TxInductive == TxSpec => []TxInv
  <1>1. TxInit => TxInv
    BY TxInitInv
  <1>2. TxInv /\ [TxNext]_txVars => TxInv'
    <2> SUFFICES ASSUME TxInv, [TxNext]_txVars PROVE TxInv'
      OBVIOUS
    <2>1. CASE UNCHANGED txVars
      BY <2>1, TxInvKept
    <2>2. CASE TxNext
      <3>1. PICK s \in Sender : \/ SendEntry(s) \/ CloseSender(s) \/ Decompress(s)
                                \/ DestroySocket(s) \/ Cleanup(s) \/ Completes(s)
        BY <2>2 DEF TxNext
      <3>2. CASE SendEntry(s)
        BY <3>2, SendEntryKeeps
      <3>3. CASE CloseSender(s)
        BY <3>3, CloseSenderKeeps
      <3>4. CASE Decompress(s)
        BY <3>4, DecompressKeeps
      <3>5. CASE DestroySocket(s)
        BY <3>5, DestroySocketKeeps
      <3>6. CASE Cleanup(s)
        BY <3>6, CleanupKeeps
      <3>7. CASE BlobRead(s)
        BY <3>7, BlobReadKeeps
      <3>8. CASE BlobFails(s)
        BY <3>8, BlobFailsKeeps
      <3>9. CASE Deflated(s)
        BY <3>9, DeflatedKeeps
      <3>10. CASE InflateDone(s)
        BY <3>10, InflateDoneKeeps
      <3> QED BY <3>1, <3>2, <3>3, <3>4, <3>5, <3>6, <3>7, <3>8, <3>9, <3>10 DEF Completes
    <2> QED BY <2>1, <2>2
  <1> QED BY <1>1, <1>2, PTL DEF TxSpec

\* What a sender holds is of its types: a frame that waits stands behind one
\* that is read or compressed (enqueue(), dispatch(), getBlobData()).
THEOREM SenderTypeCorrect == TxSpec => []TxTypeOK
  <1>1. TxInv => TxTypeOK
    <2> SUFFICES ASSUME TxInv, NEW s \in Sender
                 PROVE  /\ txQueue[s] \in Seq(Entry(s)) /\ txCurrent[s] \in Seq(Entry(s))
                        /\ txState[s] \in SenderStates
                        /\ txQueue[s] # << >> => txState[s] # "DEFAULT"
                        /\ txBuffered[s] \in Nat /\ txPosted[s] \in Numbered(s) \cup {0}
                        /\ txClosing[s] \in BOOLEAN /\ txInflating[s] \in BOOLEAN
                        /\ txWritten[s] \in Seq(Numbered(s)) /\ txCalled[s] \in Seq(Numbered(s))
                        /\ txLink[s] \in LinkStates /\ txInflated[s] \in 0 .. MaxInflated
      BY DEF TxTypeOK, SenderStates, LinkStates
    <2> DEFINE x == SenderOf(s)
    <2>1. x \in SenderRecord(s) /\ SenderInv(s) /\ (Fits(x, s, txPosted[s]) \/ Given(x, s))
      BY SenderIs DEF SenderInv
    <2>2. /\ x.queue = txQueue[s] /\ x.state = txState[s] /\ x.current = txCurrent[s]
          /\ x.buffered = txBuffered[s] /\ x.written = txWritten[s] /\ x.called = txCalled[s]
      BY DEF SenderOf
    <2> HIDE DEF x
    <2>3. x.queue # << >> => x.state # "DEFAULT"
      BY <2>1 DEF Fits, Idle, Busy, Held, Given
    <2>4. /\ x.queue \in Seq(Entry(s)) /\ x.current \in Seq(Entry(s)) /\ x.state \in SenderStates
          /\ x.buffered \in Nat /\ x.written \in Seq(Numbered(s)) /\ x.called \in Seq(Numbered(s))
      BY <2>1 DEF SenderRecord
    <2>5. txPosted[s] \in Numbered(s) \cup {0}
      <3>1. MaxPosted[s] \in Nat /\ txPosted[s] \in 0 .. MaxPosted[s]
        BY <2>1, ConcurrencyAssumption DEF SenderInv
      <3> QED BY <3>1 DEF Numbered
    <2> QED BY <2>1, <2>2, <2>3, <2>4, <2>5 DEF SenderInv
  <1> QED BY <1>1, TxInductive, PTL

\* However many senders share the limiter, and wherever their sockets end: each
\* writes its frames in the order they were given, bufferedAmount is what waits,
\* no job waits beside a free place, and no callback is called twice.  This is
\* the safety of SenderDelivers.
THEOREM SendersKeepOrder ==
    TxSpec => [](FramesInOrder /\ BufferedIsWaiting /\ PlacesAreUsed /\ CalledOnce)
  <1>1. TxInv => FramesInOrder /\ BufferedIsWaiting /\ PlacesAreUsed /\ CalledOnce
    <2> SUFFICES ASSUME TxInv PROVE FramesInOrder /\ BufferedIsWaiting /\ PlacesAreUsed /\ CalledOnce
      OBVIOUS
    <2>1. ASSUME NEW s \in Sender
          PROVE  /\ InSequence(txWritten[s]) /\ InSequence(txCalled[s]) /\ txCalled[s] \in Seq(Numbered(s))
                 /\ ~txClosing[s] => txBuffered[s] = Len(txQueue[s]) + Len(txCurrent[s])
      <3> DEFINE x == SenderOf(s)
      <3>1. /\ x \in SenderRecord(s) /\ (Fits(x, s, txPosted[s]) \/ Given(x, s))
            /\ ~txClosing[s] => Fits(x, s, txPosted[s])
        BY <2>1, SenderIs DEF SenderInv
      <3>2. /\ x.queue = txQueue[s] /\ x.current = txCurrent[s] /\ x.buffered = txBuffered[s]
            /\ x.written = txWritten[s] /\ x.called = txCalled[s]
        BY DEF SenderOf
      <3> HIDE DEF x
      <3>3. InSequence(x.written) /\ InSequence(x.called)
        BY <3>1 DEF Fits, Idle, Busy, Held, Given
      <3>4. x \in SenderRecord(s)
        BY <3>1 DEF Fits, Idle, Busy, Held, Given
      <3>5. Fits(x, s, txPosted[s]) => x.buffered = Len(x.queue) + Len(x.current)
        <4>1. Len(x.queue) \in Nat /\ Len(x.current) \in Nat /\ (x.current = << >> => Len(x.current) = 0)
          BY <3>4 DEF SenderRecord
        <4> DEFINE a == Len(x.queue)  b == Len(x.current)
        <4>2. Idle(x, s, txPosted[s]) => x.buffered = a /\ b = 0
          BY <4>1 DEF Idle
        <4>3. Busy(x, s, txPosted[s]) => x.buffered = a + 1 /\ b = 1
          BY DEF Busy, Held
        <4> HIDE DEF a, b
        <4>4. a \in Nat /\ b \in Nat
          BY <4>1 DEF a, b
        <4>5. Fits(x, s, txPosted[s]) => x.buffered = a + b
          BY <4>2, <4>3, <4>4 DEF Fits
        <4> QED BY <4>5 DEF a, b
      <3>6. x.called \in Seq(Numbered(s))
        BY <3>4 DEF SenderRecord
      <3> QED BY <3>1, <3>2, <3>3, <3>5, <3>6
    <2>2. FramesInOrder
      BY <2>1 DEF FramesInOrder, InSequence
    <2>3. BufferedIsWaiting
      BY <2>1 DEF BufferedIsWaiting
    <2>4. PlacesAreUsed
      <3>1. Limiter.jobs = jobs /\ Limiter.running = running /\ Places(Limiter)
        BY DEF TxInv, Limiter
      <3> QED BY <3>1 DEF Places, PlacesAreUsed
    <2>5. CalledOnce
      <3> SUFFICES ASSUME NEW s \in Sender PROVE IsInjective(txCalled[s])
        BY DEF CalledOnce
      <3>1. InSequence(txCalled[s]) /\ DOMAIN txCalled[s] = 1 .. Len(txCalled[s])
        <4> DEFINE v == txCalled[s]
        <4>1. InSequence(v) /\ v \in Seq(Numbered(s))
          BY <2>1
        <4> HIDE DEF v
        <4>2. DOMAIN v = 1 .. Len(v)
          BY <4>1
        <4> QED BY <4>1, <4>2 DEF v
      <3> QED BY <3>1 DEF InSequence, IsInjective
    <2> QED BY <2>2, <2>3, <2>4, <2>5
  <1> QED BY <1>1, TxInductive, PTL

\* Induction over the natural numbers, for a set of them.
LEMMA NatSetInduction ==
    ASSUME NEW S, 0 \in S, \A n \in Nat : n \in S => n + 1 \in S
    PROVE  Nat \subseteq S
  <1> SUFFICES ASSUME Nat \ S # {} PROVE FALSE
    OBVIOUS
  <1>1. PICK m \in Nat \ S : \A k \in Nat \ S : m <= k
    BY LeastOf
  <1>2. m # 0 /\ m \in Nat /\ m - 1 \in Nat /\ ~(m <= m - 1)
    BY <1>1
  <1>3. m - 1 \in S
    BY <1>1, <1>2
  <1>4. (m - 1) + 1 \in S
    BY <1>2, <1>3
  <1> QED BY <1>2, <1>4

\* A function over the numbers up to N may be defined by what it is at 0 and how
\* it goes on.
IsStep(step, G, N) == step \in [G \X (1 .. N) -> G]
GoesOn(f, base, step, G, N) ==
    f \in [0 .. N -> G] /\ f[0] = base /\ \A k \in 1 .. N : f[k] = step[<<f[k - 1], k>>]

LEMMA RecursionUpTo ==
    ASSUME NEW N \in Nat, NEW G, NEW base \in G, NEW step, IsStep(step, G, N)
    PROVE  \E f : GoesOn(f, base, step, G, N)
  <1> DEFINE Good(n, g) == /\ g \in [0 .. n -> G] /\ g[0] = base
                           /\ \A k \in 1 .. n : g[k] = step[<<g[k - 1], k>>]
             S == {n \in Nat : n <= N => \E g : Good(n, g)}
  <1>1. 0 \in S
    <2>1. Good(0, [k \in 0 .. 0 |-> base])
      OBVIOUS
    <2> QED BY <2>1
  <1>2. ASSUME NEW n \in Nat, n \in S PROVE n + 1 \in S
    <2> SUFFICES ASSUME n + 1 <= N PROVE \E h : Good(n + 1, h)
      OBVIOUS
    <2>1. PICK g : Good(n, g)
      BY <1>2
    <2> DEFINE next == step[<<g[n], n + 1>>]
               h == [k \in 0 .. n + 1 |-> IF k = n + 1 THEN next ELSE g[k]]
    <2>2. g \in [0 .. n -> G] /\ g[0] = base /\ g[n] \in G /\ n + 1 \in 1 .. N
      BY <2>1
    <2>3. next \in G
      BY <2>2 DEF IsStep
    <2>4. /\ h[0] = base /\ h[n + 1] = next /\ \A k \in 0 .. n : h[k] = g[k]
          /\ h \in [0 .. n + 1 -> G]
      <3> HIDE DEF next
      <3>1. \A k \in 0 .. n : k \in 0 .. n + 1 /\ k # n + 1
        OBVIOUS
      <3>2. 0 \in 0 .. n + 1 /\ 0 # n + 1 /\ n + 1 \in 0 .. n + 1
        OBVIOUS
      <3>3. \A k \in 0 .. n + 1 : k = n + 1 \/ k \in 0 .. n
        OBVIOUS
      <3>4. \A k \in 0 .. n + 1 : (IF k = n + 1 THEN next ELSE g[k]) \in G
        BY <2>2, <2>3, <3>3
      <3> QED BY <2>2, <3>1, <3>2, <3>4
    <2>5. \A k \in 1 .. n : g[k] = step[<<g[k - 1], k>>]
      BY <2>1
    <2> HIDE DEF h
    <2>6. ASSUME NEW k \in 1 .. n + 1 PROVE h[k] = step[<<h[k - 1], k>>]
      <3>1. k - 1 \in 0 .. n /\ (k = n + 1 => k - 1 = n) /\ (k # n + 1 => k \in 1 .. n /\ k \in 0 .. n)
        OBVIOUS
      <3>2. h[k - 1] = g[k - 1]
        BY <2>4, <3>1
      <3> QED BY <2>4, <2>5, <3>1, <3>2
    <2>7. Good(n + 1, h)
      BY <2>4, <2>6
    <2> QED BY <2>7
  <1> HIDE DEF S
  <1>3. N \in S
    BY <1>1, <1>2, NatSetInduction
  <1> QED BY <1>3 DEF S, GoesOn


-----------------------------------------------------------------------------
(* WsReceiver: the units of the frames.                                    *)

RxOptions == [server : BOOLEAN, sync : BOOLEAN, deflate : BOOLEAN]
RxUnit == [part : {"info", "length", "mask", "data"}, frame : Nat]

\* What is left of frame i from a part of it on, and the units of all behind it.
FromData(frames, cfg, i) ==
    Unit("data", i, frames[i].len > 0) \o Wire(frames, cfg)[Len(frames) - i]
FromMask(frames, cfg, i) ==
    Unit("mask", i, IsMasked(frames[i], cfg)) \o FromData(frames, cfg, i)
FromLength(frames, cfg, i) ==
    Unit("length", i, frames[i].len >= Long16) \o FromMask(frames, cfg, i)

LEMMA UnitIs ==
    ASSUME NEW name \in {"info", "length", "mask", "data"}, NEW i \in Nat
    PROVE  /\ Unit(name, i, TRUE) = << [part |-> name, frame |-> i] >>
           /\ Unit(name, i, FALSE) = << >>
           /\ \A b \in BOOLEAN : Unit(name, i, b) \in Seq(RxUnit)
  <1>1. [part |-> name, frame |-> i] \in RxUnit
    BY DEF RxUnit
  <1>2. Unit(name, i, TRUE) = << [part |-> name, frame |-> i] >> /\ Unit(name, i, FALSE) = << >>
    BY DEF Unit
  <1>3. \A e \in RxUnit : << e >> \in Seq(RxUnit)
    OBVIOUS
  <1>4. Unit(name, i, TRUE) \in Seq(RxUnit) /\ Unit(name, i, FALSE) \in Seq(RxUnit)
    BY <1>1, <1>2, <1>3, EmptySeq, Zenon
  <1> QED BY <1>2, <1>4

LEMMA FrameFields ==
    ASSUME NEW frames \in Seq(RxFrame), NEW i \in 1 .. Len(frames)
    PROVE  /\ frames[i].op \in Control \cup {"text", "binary", "continuation", "reserved"}
           /\ frames[i].fin \in BOOLEAN /\ frames[i].rsv1 \in BOOLEAN /\ frames[i].rsv23 \in BOOLEAN
           /\ frames[i].good \in BOOLEAN /\ frames[i].len \in Nat /\ frames[i].out \in Nat
           /\ frames[i].mask \in {"right", "wrong"} /\ i \in Nat /\ Len(frames) \in Nat
  <1>1. frames[i] \in RxFrame
    OBVIOUS
  <1> QED BY <1>1 DEF RxFrame

Rejoins(s, t, u) == (s \o t) \o u = s \o (t \o u)
LEMMA Rejoin ==
    ASSUME NEW T, NEW s \in Seq(T), NEW t \in Seq(T), NEW u \in Seq(T)
    PROVE  Rejoins(s, t, u) /\ s \o t \in Seq(T) /\ t \o u \in Seq(T)
  BY ConcatAssociative, ConcatProperties DEF Rejoins

LEMMA UnitsAre ==
    ASSUME NEW frames \in Seq(RxFrame), NEW cfg \in RxOptions, NEW i \in 1 .. Len(frames),
           NEW u \in Seq(RxUnit)
    PROVE  LET f == frames[i]
               m == IsMasked(f, cfg)
               d == Unit("data", i, f.len > 0)
               k == Unit("mask", i, m)
               l == Unit("length", i, f.len >= Long16)
           IN  /\ Units(i, f, m) \o u = << [part |-> "info", frame |-> i] >> \o (l \o (k \o (d \o u)))
               /\ Units(i, f, m) \in Seq(RxUnit)
               /\ d \in Seq(RxUnit) /\ k \in Seq(RxUnit) /\ l \in Seq(RxUnit)
  <1> DEFINE f == frames[i]
             m == IsMasked(f, cfg)
             d == Unit("data", i, f.len > 0)
             k == Unit("mask", i, m)
             l == Unit("length", i, f.len >= Long16)
             o == Unit("info", i, TRUE)
  <1>1. m \in BOOLEAN /\ (f.len > 0) \in BOOLEAN /\ (f.len >= Long16) \in BOOLEAN
    BY FrameFields, ReceiverAssumption DEF IsMasked
  <1>2. i \in Nat
    OBVIOUS
  <1>3. o = << [part |-> "info", frame |-> i] >> /\ Units(i, f, m) = ((o \o l) \o k) \o d
    BY <1>2, UnitIs DEF Units
  <1>4. o \in Seq(RxUnit) /\ l \in Seq(RxUnit) /\ k \in Seq(RxUnit) /\ d \in Seq(RxUnit)
    BY <1>1, <1>2, UnitIs
  <1> HIDE DEF o, l, k, d, m, f
  <1> DEFINE ol == o \o l  olk == ol \o k  du == d \o u  kdu == k \o du
  <1>5. ol \in Seq(RxUnit) /\ du \in Seq(RxUnit)
    BY <1>4, Rejoin
  <1> HIDE DEF ol, du
  <1>6. olk \in Seq(RxUnit) /\ kdu \in Seq(RxUnit)
    BY <1>4, <1>5, Rejoin
  <1> HIDE DEF olk, kdu
  <1>7. olk \o d \in Seq(RxUnit) /\ Rejoins(olk, d, u) /\ Rejoins(ol, k, du) /\ Rejoins(o, l, kdu)
    BY <1>4, <1>5, <1>6, Rejoin
  <1>8. (olk \o d) \o u = o \o (l \o kdu) /\ olk \o d \in Seq(RxUnit)
    BY <1>7 DEF Rejoins, ol, olk, kdu, du
  <1>9. Units(i, f, m) \o u = << [part |-> "info", frame |-> i] >> \o (l \o (k \o (d \o u)))
    BY <1>3, <1>8 DEF ol, olk, kdu, du
  <1> QED BY <1>3, <1>4, <1>8, <1>9 DEF ol, olk, m, f, d, k, l

\* Wire is the function it is meant to be.
LEMMA WireIs ==
    ASSUME NEW frames \in Seq(RxFrame), NEW cfg \in RxOptions
    PROVE  /\ Wire(frames, cfg) \in [0 .. Len(frames) -> Seq(RxUnit)]
           /\ Wire(frames, cfg)[0] = << >>
           /\ \A n \in 1 .. Len(frames) :
                  LET i == Len(frames) - n + 1
                  IN  Wire(frames, cfg)[n] =
                          Units(i, frames[i], IsMasked(frames[i], cfg)) \o Wire(frames, cfg)[n - 1]
  <1> DEFINE N == Len(frames)
             at(n) == Units(N - n + 1, frames[N - n + 1], IsMasked(frames[N - n + 1], cfg))
             step == [p \in Seq(RxUnit) \X (1 .. N) |-> at(p[2]) \o p[1]]
  <1>1. N \in Nat /\ << >> \in Seq(RxUnit)
    OBVIOUS
  <1>2. ASSUME NEW n \in 1 .. N PROVE at(n) \in Seq(RxUnit)
    <2>1. N - n + 1 \in 1 .. Len(frames)
      BY <1>1
    <2> QED BY <2>1, UnitsAre, EmptySeq
  <1> HIDE DEF at
  <1>3. ASSUME NEW u \in Seq(RxUnit), NEW n \in 1 .. N
        PROVE  at(n) \o u \in Seq(RxUnit)
    BY <1>2, ConcatProperties
  <1>4. IsStep(step, Seq(RxUnit), N)
    BY <1>3 DEF IsStep
  <1>5. \A u \in Seq(RxUnit), n \in 1 .. N : step[<<u, n>>] = at(n) \o u
    OBVIOUS
  <1> HIDE DEF step
  <1>6. PICK g : GoesOn(g, << >>, step, Seq(RxUnit), N)
    BY <1>1, <1>4, RecursionUpTo
  <1>6a. g \in [0 .. N -> Seq(RxUnit)] /\ g[0] = << >> /\ \A k \in 1 .. N : g[k] = step[<<g[k - 1], k>>]
    BY <1>6 DEF GoesOn
  <1>7. ASSUME NEW n \in 1 .. N PROVE g[n] = at(n) \o g[n - 1]
    <2>1. n - 1 \in 0 .. N
      BY <1>1
    <2>2. g[n - 1] \in Seq(RxUnit)
      BY <1>6a, <2>1
    <2> QED BY <1>5, <1>6a, <2>2
  <1> DEFINE Defining(h) == h = [n \in 0 .. N |-> IF n = 0 THEN << >> ELSE at(n) \o h[n - 1]]
  <1>8. Defining(g)
    <2>1. ASSUME NEW n \in 0 .. N
          PROVE  g[n] = IF n = 0 THEN << >> ELSE at(n) \o g[n - 1]
      <3>1. n # 0 => n \in 1 .. N
        BY <1>1
      <3> QED BY <1>6a, <1>7, <3>1
    <2>2. g = [n \in 0 .. N |-> g[n]]
      BY <1>6a
    <2> QED BY <2>1, <2>2
  <1>9. Wire(frames, cfg) = CHOOSE h : Defining(h)
    BY DEF Wire, at
  <1>10. Defining(Wire(frames, cfg))
    <2> HIDE DEF Defining
    <2> QED BY <1>8, <1>9
  <1> DEFINE w == Wire(frames, cfg)
  <1> HIDE DEF w
  <1>11. w = [n \in 0 .. N |-> IF n = 0 THEN << >> ELSE at(n) \o w[n - 1]]
    BY <1>10 DEF w
  <1>12. w[0] = << >> /\ \A n \in 1 .. N : w[n] = at(n) \o w[n - 1]
    <2>1. 0 \in 0 .. N
      BY <1>1
    <2>2. w[0] = << >>
      BY <1>11, <2>1
    <2>3. ASSUME NEW n \in 1 .. N PROVE w[n] = at(n) \o w[n - 1]
      <3>1. n \in 0 .. N /\ n # 0
        BY <1>1
      <3> QED BY <1>11, <3>1
    <2> QED BY <2>2, <2>3
  <1> DEFINE S == {k \in Nat : k <= N => w[k] \in Seq(RxUnit)}
  <1>13. 0 \in S
    BY <1>1, <1>12
  <1>14. ASSUME NEW k \in Nat, k \in S PROVE k + 1 \in S
    <2> SUFFICES ASSUME k + 1 <= N PROVE w[k + 1] \in Seq(RxUnit)
      OBVIOUS
    <2>1. k + 1 \in 1 .. N /\ (k + 1) - 1 = k /\ k <= N
      BY <1>1
    <2>2. w[k] \in Seq(RxUnit)
      BY <1>14, <2>1
    <2> QED BY <1>3, <1>12, <2>1, <2>2
  <1> HIDE DEF S
  <1>15. Nat \subseteq S
    BY <1>13, <1>14, NatSetInduction
  <1>16. \A k \in 0 .. N : w[k] \in Seq(RxUnit)
    BY <1>1, <1>15 DEF S
  <1>17. w \in [0 .. N -> Seq(RxUnit)]
    <2>1. w = [n \in 0 .. N |-> w[n]]
      BY <1>11
    <2> QED BY <1>16, <2>1
  <1> QED BY <1>12, <1>17 DEF at, w


\* What one unit put before others makes of them.
LEMMA OneBefore ==
    ASSUME NEW e \in RxUnit, NEW u \in Seq(RxUnit)
    PROVE  /\ << e >> \o u \in Seq(RxUnit) /\ << e >> \o u # << >>
           /\ Head(<< e >> \o u) = e /\ Tail(<< e >> \o u) = u
  <1>2. /\ << e >> \o u \in Seq(RxUnit) /\ Len(<< e >> \o u) = Len(u) + 1 /\ (<< e >> \o u)[1] = e
        /\ \A j \in 1 .. Len(u) : (<< e >> \o u)[j + 1] = u[j]
    <2>1. << e >> \in Seq(RxUnit) /\ Len(<< e >>) = 1 /\ << e >>[1] = e /\ Len(u) \in Nat
      OBVIOUS
    <2> DEFINE p == << e >>
    <2> HIDE DEF p
    <2>2. /\ p \o u \in Seq(RxUnit) /\ Len(p \o u) = Len(p) + Len(u)
          /\ \A j \in 1 .. Len(p) + Len(u) : (p \o u)[j] = IF j <= Len(p) THEN p[j] ELSE u[j - Len(p)]
      BY <2>1, ConcatProperties DEF p
    <2>3. Len(p) = 1 /\ p[1] = e
      BY <2>1 DEF p
    <2>4. \A j \in 1 .. Len(u) : (p \o u)[j + 1] = u[j]
      BY <2>1, <2>2, <2>3
    <2>5. (p \o u)[1] = e /\ Len(p \o u) = Len(u) + 1
      BY <2>1, <2>2, <2>3
    <2> QED BY <2>2, <2>4, <2>5 DEF p
  <1> DEFINE v == << e >> \o u
  <1> HIDE DEF v
  <1>3. v \in Seq(RxUnit) /\ Len(v) = Len(u) + 1 /\ v[1] = e /\ \A j \in 1 .. Len(u) : v[j + 1] = u[j]
    BY <1>2 DEF v
  <1>4. v # << >> /\ Head(v) = e
    BY <1>3, EmptySeq
  <1>5. Tail(v) = u
    <2>1. /\ Tail(v) \in Seq(RxUnit) /\ Len(Tail(v)) = Len(u)
          /\ \A j \in 1 .. Len(Tail(v)) : Tail(v)[j] = v[j + 1]
      BY <1>3, <1>4, HeadTailProperties
    <2>2. \A j \in 1 .. Len(Tail(v)) : Tail(v)[j] = u[j]
      BY <1>3, <2>1
    <2> QED BY <2>1, <2>2, SeqEqual
  <1> QED BY <1>3, <1>4, <1>5 DEF v

LEMMA UnitBefore ==
    ASSUME NEW name \in {"info", "length", "mask", "data"}, NEW i \in Nat, NEW b \in BOOLEAN,
           NEW u \in Seq(RxUnit)
    PROVE  /\ Unit(name, i, b) \o u \in Seq(RxUnit)
           /\ b => /\ Unit(name, i, b) \o u # << >>
                   /\ Head(Unit(name, i, b) \o u) = [part |-> name, frame |-> i]
                   /\ Tail(Unit(name, i, b) \o u) = u
           /\ ~b => Unit(name, i, b) \o u = u
  <1> DEFINE e == [part |-> name, frame |-> i]
  <1>1. e \in RxUnit
    BY DEF RxUnit
  <1> HIDE DEF e
  <1>2. /\ << e >> \o u \in Seq(RxUnit) /\ << e >> \o u # << >>
        /\ Head(<< e >> \o u) = e /\ Tail(<< e >> \o u) = u
    BY <1>1, OneBefore
  <1>3. << >> \o u = u
    BY ConcatEmptySeq
  <1> QED BY <1>2, <1>3, UnitIs DEF e

LEMMA UnitTaken ==
    ASSUME NEW name \in {"info", "length", "mask", "data"}, NEW i \in Nat, NEW b \in BOOLEAN, b,
           NEW u \in Seq(RxUnit)
    PROVE  Tail(Unit(name, i, b) \o u) = u
  <1> DEFINE e == [part |-> name, frame |-> i]
  <1>1. e \in RxUnit
    BY DEF RxUnit
  <1>2. Unit(name, i, b) = << e >>
    BY DEF Unit
  <1> HIDE DEF e
  <1> QED BY <1>1, <1>2, OneBefore

LEMMA FromsAre ==
    ASSUME NEW frames \in Seq(RxFrame), NEW cfg \in RxOptions, NEW i \in 1 .. Len(frames)
    PROVE  LET N == Len(frames)
               f == frames[i]
           IN  /\ Wire(frames, cfg)[N - i] \in Seq(RxUnit)
               /\ FromData(frames, cfg, i) \in Seq(RxUnit) /\ FromMask(frames, cfg, i) \in Seq(RxUnit)
               /\ FromLength(frames, cfg, i) \in Seq(RxUnit)
               /\ Wire(frames, cfg)[N - (i - 1)] # << >>
               /\ Head(Wire(frames, cfg)[N - (i - 1)]) = [part |-> "info", frame |-> i]
               /\ Tail(Wire(frames, cfg)[N - (i - 1)]) = FromLength(frames, cfg, i)
  <1> DEFINE N == Len(frames)
             f == frames[i]
             u == Wire(frames, cfg)[N - i]
             n == N - i + 1
  <1>1. N - i \in 0 .. N /\ n \in 1 .. N /\ N - n + 1 = i /\ n - 1 = N - i /\ N - (i - 1) = n /\ i \in Nat
    OBVIOUS
  <1>2. u \in Seq(RxUnit)
    BY <1>1, WireIs
  <1>3. Wire(frames, cfg)[n] = Units(i, f, IsMasked(f, cfg)) \o u
    BY <1>1, WireIs
  <1>4. IsMasked(f, cfg) \in BOOLEAN /\ (f.len > 0) \in BOOLEAN /\ (f.len >= Long16) \in BOOLEAN
    BY FrameFields, ReceiverAssumption DEF IsMasked
  <1> HIDE DEF u
  <1>5. FromData(frames, cfg, i) \in Seq(RxUnit)
    BY <1>1, <1>2, <1>4, UnitBefore DEF FromData, u
  <1>6. FromMask(frames, cfg, i) \in Seq(RxUnit)
    BY <1>1, <1>4, <1>5, UnitBefore DEF FromMask
  <1>7. FromLength(frames, cfg, i) \in Seq(RxUnit)
    BY <1>1, <1>4, <1>6, UnitBefore DEF FromLength
  <1>8. Wire(frames, cfg)[n] = << [part |-> "info", frame |-> i] >> \o FromLength(frames, cfg, i)
    BY <1>2, <1>3, UnitsAre DEF FromLength, FromMask, FromData, u
  <1>9. << [part |-> "info", frame |-> i] >> = Unit("info", i, TRUE)
    BY <1>1, UnitIs
  <1>10. /\ Wire(frames, cfg)[n] # << >>
         /\ Head(Wire(frames, cfg)[n]) = [part |-> "info", frame |-> i]
         /\ Tail(Wire(frames, cfg)[n]) = FromLength(frames, cfg, i)
    BY <1>1, <1>7, <1>8, <1>9, UnitBefore
  <1> QED BY <1>1, <1>2, <1>5, <1>6, <1>7, <1>10 DEF u


-----------------------------------------------------------------------------
(* WsReceiver: what frames mean.                                           *)

Opcodes == Control \cup {"text", "binary", "continuation", "reserved"}
RxEvent ==
    [kind : {"message"}, op : Opcodes, fragments : Seq(Nat)]
        \cup [kind : Opcodes \cup {"conclude"}, frame : Nat] \cup [kind : {"error"}, status : Nat]

\* What k frames may mean: the message that is not complete began with a frame of
\* text or binary data and is within the limit.
RxMeaning(N) ==
    [events : Seq(RxEvent), first : 0 .. N, read : Nat, size : Nat, filled : Seq(1 .. N), over : BOOLEAN]
Sound(frames, s) ==
    /\ s \in RxMeaning(Len(frames))
    /\ ~s.over =>
           /\ s.first # 0 => frames[s.first].op \in {"text", "binary"}
           /\ s.first = 0 => s.read = 0 /\ s.size = 0 /\ s.filled = << >>
           /\ MaxPayload > 0 => s.read <= MaxPayload /\ s.size <= MaxPayload
           /\ s.first # 0 /\ ~frames[s.first].rsv1 => s.size = s.read

LEMMA EventsAre ==
    /\ \A status \in Nat : Mistake(status) \in RxEvent
    /\ \A kind \in Opcodes \cup {"conclude"}, i \in Nat : [kind |-> kind, frame |-> i] \in RxEvent
    /\ \A op \in Opcodes, fragments \in Seq(Nat) :
           [kind |-> "message", op |-> op, fragments |-> fragments] \in RxEvent
  BY DEF RxEvent, Mistake, Opcodes, Control

LEMMA NothingIsMeant ==
    ASSUME NEW frames \in Seq(RxFrame)
    PROVE  Sound(frames, NothingMeant) /\ ~NothingMeant.over
  <1>1. << >> \in Seq(RxEvent) /\ << >> \in Seq(1 .. Len(frames)) /\ 0 \in 0 .. Len(frames)
    OBVIOUS
  <1>2. MaxPayload \in Nat
    BY ReceiverAssumption
  <1> QED BY <1>1, <1>2 DEF Sound, RxMeaning, NothingMeant

LEMMA SaysIs ==
    ASSUME NEW N \in Nat, NEW s \in RxMeaning(N), NEW e \in RxEvent
    PROVE  /\ Says(s, e) \in RxMeaning(N)
           /\ Says(s, e).events = Append(s.events, e) /\ Says(s, e).first = s.first
           /\ Says(s, e).read = s.read /\ Says(s, e).size = s.size /\ Says(s, e).filled = s.filled
           /\ Says(s, e).over = s.over
           /\ Stops(s, e) \in RxMeaning(N)
           /\ Stops(s, e).events = Append(s.events, e) /\ Stops(s, e).over
  <1>1. Append(s.events, e) \in Seq(RxEvent)
    BY DEF RxMeaning
  <1>2. Says(s, e) = [s EXCEPT !.events = Append(s.events, e)]
    BY DEF Says
  <1>3. Says(s, e) \in RxMeaning(N) /\ Says(s, e).events = Append(s.events, e)
        /\ Says(s, e).first = s.first /\ Says(s, e).read = s.read /\ Says(s, e).size = s.size
        /\ Says(s, e).filled = s.filled /\ Says(s, e).over = s.over
    BY <1>1, <1>2 DEF RxMeaning
  <1> DEFINE t == Says(s, e)
  <1>4. Stops(s, e) = [t EXCEPT !.over = TRUE]
    BY DEF Stops
  <1> HIDE DEF t
  <1>5. t \in RxMeaning(N) /\ t.events = Append(s.events, e)
    BY <1>3 DEF t
  <1>6. Stops(s, e) \in RxMeaning(N) /\ Stops(s, e).events = t.events /\ Stops(s, e).over
    BY <1>4, <1>5 DEF RxMeaning
  <1> QED BY <1>3, <1>5, <1>6

FirstOf(s, i) == IF s.first = 0 THEN i ELSE s.first
Length(frames, first, i) == IF frames[first].rsv1 THEN frames[i].out ELSE frames[i].len

LEMMA WithPartIs ==
    ASSUME NEW frames \in Seq(RxFrame), NEW i \in 1 .. Len(frames), NEW s \in RxMeaning(Len(frames))
    PROVE  LET t == WithPart(s, frames, i)
               n == Length(frames, FirstOf(s, i), i)
           IN  /\ t \in RxMeaning(Len(frames)) /\ n \in Nat /\ FirstOf(s, i) \in 1 .. Len(frames)
               /\ t.events = s.events /\ t.first = FirstOf(s, i) /\ t.read = s.read + frames[i].len
               /\ t.size = s.size + n /\ t.over = s.over
               /\ t.filled = IF n > 0 THEN Append(s.filled, i) ELSE s.filled
  <1> DEFINE N == Len(frames)
             first == FirstOf(s, i)
             n == Length(frames, first, i)
             read == s.read + frames[i].len
             size == s.size + n
             filled == IF n > 0 THEN Append(s.filled, i) ELSE s.filled
  <1>1. /\ s.events \in Seq(RxEvent) /\ s.first \in 0 .. N /\ s.read \in Nat /\ s.size \in Nat
        /\ s.filled \in Seq(1 .. N) /\ s.over \in BOOLEAN
    BY DEF RxMeaning
  <1>2. first \in 1 .. N
    BY <1>1 DEF FirstOf
  <1>3. n \in Nat
    BY <1>2, FrameFields DEF Length
  <1>4. read \in Nat /\ size \in Nat /\ filled \in Seq(1 .. N)
    <2>1. frames[i].len \in Nat
      BY FrameFields
    <2>2. Append(s.filled, i) \in Seq(1 .. N)
      BY <1>1, AppendProperties
    <2>3. filled \in Seq(1 .. N)
      <3>1. CASE n > 0
        BY <2>2, <3>1
      <3>2. CASE ~(n > 0)
        BY <1>1, <3>2
      <3> QED BY <3>1, <3>2
    <2>4. s.read \in Nat /\ s.size \in Nat
      BY <1>1
    <2>5. read \in Nat
      BY <2>1, <2>4
    <2> HIDE DEF n, filled, read
    <2>6. size \in Nat
      BY <1>3, <2>4
    <2> QED BY <2>3, <2>5, <2>6
  <1>5. WithPart(s, frames, i) =
            [s EXCEPT !.first = first, !.read = read, !.size = size, !.filled = filled]
    BY DEF WithPart, FirstOf, Length
  <1> HIDE DEF first, n, read, size, filled
  <1>6. s = [events |-> s.events, first |-> s.first, read |-> s.read, size |-> s.size,
             filled |-> s.filled, over |-> s.over]
    BY DEF RxMeaning
  <1>7. WithPart(s, frames, i) = [events |-> s.events, first |-> first, read |-> read, size |-> size,
                                  filled |-> filled, over |-> s.over]
    BY <1>5, <1>6
  <1>8. WithPart(s, frames, i) \in RxMeaning(N)
    BY <1>1, <1>2, <1>4, <1>7 DEF RxMeaning
  <1> QED BY <1>2, <1>3, <1>7, <1>8 DEF first, n, read, size, filled

\* The four ways a frame of data goes.
TooMuch(t, f) ==
    f.len >= Unsafe \/ (MaxPayload > 0 /\ (t.read > MaxPayload \/ t.size > MaxPayload))
BadText(frames, t) == frames[t.first].op = "text" /\ \E j \in ToSet(t.filled) : ~frames[j].good
Told(op, fragments) == [kind |-> "message", op |-> op, fragments |-> fragments]
Complete(s, op, fragments) ==
    [NothingMeant EXCEPT !.events = Append(s.events, Told(op, fragments))]
Goes(m, s, t, frames, i) ==
    \/ TooMuch(t, frames[i]) /\ m = Stops(s, Mistake(1009))
    \/ ~TooMuch(t, frames[i]) /\ ~frames[i].fin /\ m = t
    \/ ~TooMuch(t, frames[i]) /\ frames[i].fin /\ BadText(frames, t) /\ m = Stops(s, Mistake(1007))
    \/ /\ ~TooMuch(t, frames[i]) /\ frames[i].fin /\ ~BadText(frames, t)
       /\ m = Complete(s, frames[t.first].op, t.filled)

LEMMA MeansDataGoes ==
    ASSUME NEW frames, NEW i, NEW s
    PROVE  Goes(MeansData(s, frames, i), s, WithPart(s, frames, i), frames, i)
  <1> DEFINE t == WithPart(s, frames, i)
             m == MeansData(s, frames, i)
  <1>1. m = IF TooMuch(t, frames[i]) THEN Stops(s, Mistake(1009))
            ELSE IF ~frames[i].fin THEN t
            ELSE IF BadText(frames, t) THEN Stops(s, Mistake(1007))
            ELSE Complete(s, frames[t.first].op, t.filled)
    BY DEF MeansData, TooMuch, Complete, BadText, Told
  <1> HIDE DEF t, m
  <1>2. Goes(m, s, t, frames, i)
    <2>1. CASE TooMuch(t, frames[i])
      BY <1>1, <2>1 DEF Goes
    <2>2. CASE ~TooMuch(t, frames[i]) /\ ~frames[i].fin
      BY <1>1, <2>2 DEF Goes
    <2>3. CASE ~TooMuch(t, frames[i]) /\ frames[i].fin /\ BadText(frames, t)
      BY <1>1, <2>3 DEF Goes
    <2>4. CASE ~TooMuch(t, frames[i]) /\ frames[i].fin /\ ~BadText(frames, t)
      BY <1>1, <2>4 DEF Goes
    <2> QED BY <2>1, <2>2, <2>3, <2>4
  <1> QED BY <1>2 DEF t, m

LEMMA CompleteIs ==
    ASSUME NEW N \in Nat, NEW s \in RxMeaning(N), NEW op \in Opcodes, NEW fragments \in Seq(1 .. N)
    PROVE  LET t == Complete(s, op, fragments)
               e == Told(op, fragments)
           IN  /\ t \in RxMeaning(N) /\ e \in RxEvent /\ t.events = Append(s.events, e) /\ t.first = 0
               /\ t.read = 0 /\ t.size = 0 /\ t.filled = << >> /\ t.over = FALSE
  <1> DEFINE e == Told(op, fragments)
  <1>1. fragments \in Seq(Nat)
    BY SeqMonotonic
  <1>2. e \in RxEvent
    BY <1>1, EventsAre DEF Told
  <1>3. Complete(s, op, fragments) = [NothingMeant EXCEPT !.events = Append(s.events, e)]
    BY DEF Complete
  <1> HIDE DEF e
  <1>4. Append(s.events, e) \in Seq(RxEvent)
    BY <1>2 DEF RxMeaning
  <1>5. Complete(s, op, fragments) =
            [events |-> Append(s.events, e), first |-> 0, read |-> 0, size |-> 0, filled |-> << >>,
             over |-> FALSE]
    BY <1>3 DEF NothingMeant
  <1>6. << >> \in Seq(1 .. N) /\ 0 \in 0 .. N
    OBVIOUS
  <1>7. Complete(s, op, fragments) \in RxMeaning(N)
    BY <1>4, <1>5, <1>6 DEF RxMeaning
  <1> QED BY <1>2, <1>5, <1>7 DEF e


\* One frame more means something sound again.
LEMMA MeansSound ==
    ASSUME NEW frames \in Seq(RxFrame), NEW cfg, NEW i \in 1 .. Len(frames), NEW s,
           Sound(frames, s)
    PROVE  Sound(frames, Means(s, frames, cfg, i))
  <1> DEFINE N == Len(frames)
             f == frames[i]
             t == WithPart(s, frames, i)
             first == FirstOf(s, i)
             op == frames[t.first].op
             m == Means(s, frames, cfg, i)
  <1>1. N \in Nat /\ s \in RxMeaning(N)
    BY DEF Sound
  <1>2. ASSUME NEW e \in RxEvent PROVE Sound(frames, Stops(s, e))
    BY <1>1, SaysIs DEF Sound
  <1>3. Mistake(1002) \in RxEvent /\ Mistake(1007) \in RxEvent /\ Mistake(1009) \in RxEvent
    BY EventsAre
  <1>4. CASE s.over
    BY <1>4 DEF Means
  <1>5. CASE ~s.over /\ ~Legal(s, f, cfg)
    BY <1>2, <1>3, <1>5 DEF Means
  <1>6. CASE ~s.over /\ Legal(s, f, cfg) /\ f.op \in Control
    <2>1. i \in Nat /\ f.op \in Opcodes
      BY <1>6 DEF Opcodes
    <2> DEFINE e == [kind |-> f.op, frame |-> i]
    <2>2. e \in RxEvent /\ [kind |-> "conclude", frame |-> i] \in RxEvent
      BY <2>1, EventsAre
    <2> HIDE DEF e
    <2>3. Sound(frames, Says(s, e))
      <3> DEFINE v == Says(s, e)
      <3>1. /\ v \in RxMeaning(N) /\ v.first = s.first /\ v.read = s.read /\ v.size = s.size
            /\ v.filled = s.filled /\ v.over = s.over
        BY <1>1, <2>2, SaysIs
      <3> HIDE DEF v
      <3>2. Sound(frames, v)
        BY <3>1 DEF Sound
      <3> QED BY <3>2 DEF v
    <2>4. m \in {Says(s, e), Stops(s, [kind |-> "conclude", frame |-> i]), Stops(s, Mistake(1002))}
      BY <1>6 DEF Means, e
    <2> QED BY <1>2, <1>3, <2>2, <2>3, <2>4
  <1>7. CASE ~s.over /\ Legal(s, f, cfg) /\ f.op \notin Control
    <2>1. m = MeansData(s, frames, i)
      BY <1>7 DEF Means
    <2>2. /\ f.op \in {"text", "binary", "continuation"}
          /\ (f.op = "continuation" <=> s.first # 0)
      BY <1>7, FrameFields DEF Legal
    <2>3. first \in 1 .. N /\ frames[first].op \in {"text", "binary"}
      BY <1>1, <1>7, <2>2 DEF FirstOf, Sound, RxMeaning
    <2>4. /\ t \in RxMeaning(N) /\ Length(frames, first, i) \in Nat
          /\ t.first = first /\ t.read = s.read + f.len /\ t.filled \in Seq(1 .. N)
          /\ t.size = s.size + Length(frames, first, i)
      BY <1>1, WithPartIs DEF RxMeaning
    <2>5. op \in {"text", "binary"} /\ op \in Opcodes
      BY <2>3, <2>4 DEF Opcodes
    <2>6. Goes(m, s, t, frames, i)
      BY <2>1, MeansDataGoes
    <2> HIDE DEF m, t, first
    <2>7. CASE m = Stops(s, Mistake(1009)) \/ m = Stops(s, Mistake(1007))
      BY <1>2, <1>3, <2>7 DEF m
    <2>8. CASE m = Complete(s, op, t.filled)
      <3>1. /\ m \in RxMeaning(N) /\ m.first = 0 /\ m.read = 0 /\ m.size = 0 /\ m.filled = << >>
        BY <1>1, <2>4, <2>5, <2>8, CompleteIs
      <3>2. MaxPayload > 0 => m.read <= MaxPayload /\ m.size <= MaxPayload
        BY <3>1, ReceiverAssumption
      <3>3. Sound(frames, m)
        BY <3>1, <3>2 DEF Sound
      <3> QED BY <3>3 DEF m
    <2>9. CASE m = t /\ ~TooMuch(t, f)
      <3>1. s.read \in Nat /\ s.size \in Nat /\ f.len \in Nat
        BY <1>1, FrameFields DEF RxMeaning
      <3>2. MaxPayload > 0 => ~(t.read > MaxPayload) /\ ~(t.size > MaxPayload)
        BY <2>9 DEF TooMuch
      <3>3. t.read \in Nat /\ t.size \in Nat /\ MaxPayload \in Nat
        BY <2>4, ReceiverAssumption DEF RxMeaning
      <3>4. MaxPayload > 0 => t.read <= MaxPayload /\ t.size <= MaxPayload
        BY <3>2, <3>3
      <3>5. ASSUME ~frames[first].rsv1 PROVE t.size = t.read
        <4>1. Length(frames, first, i) = f.len
          BY <3>5 DEF Length
        <4>2. s.first # 0 => first = s.first
          BY DEF FirstOf, first
        <4>3. s.size = s.read
          BY <1>7, <3>5, <4>2 DEF Sound
        <4> QED BY <2>4, <4>1, <4>3
      <3>6. t.first # 0
        BY <2>3, <2>4
      <3>7. Sound(frames, t)
        BY <2>3, <2>4, <3>4, <3>5, <3>6 DEF Sound
      <3> QED BY <2>9, <3>7 DEF m
    <2> QED BY <2>6, <2>7, <2>8, <2>9 DEF Goes
  <1> QED BY <1>4, <1>5, <1>6, <1>7

\* Frames only add to what was meant.
Extends(m, s) == m.events = s.events \/ \E e \in RxEvent : m.events = Append(s.events, e)

LEMMA MeansMore ==
    ASSUME NEW frames \in Seq(RxFrame), NEW cfg, NEW i \in 1 .. Len(frames), NEW s,
           Sound(frames, s)
    PROVE  Extends(Means(s, frames, cfg, i), s)
  <1> DEFINE N == Len(frames)
             f == frames[i]
             t == WithPart(s, frames, i)
             op == frames[t.first].op
             m == Means(s, frames, cfg, i)
  <1>1. N \in Nat /\ s \in RxMeaning(N)
    BY DEF Sound
  <1>2. ASSUME NEW e \in RxEvent
        PROVE  Stops(s, e).events = Append(s.events, e) /\ Says(s, e).events = Append(s.events, e)
    BY <1>1, SaysIs
  <1>3. Mistake(1002) \in RxEvent /\ Mistake(1007) \in RxEvent /\ Mistake(1009) \in RxEvent
    BY EventsAre
  <1>4. CASE s.over
    BY <1>4 DEF Means, Extends
  <1>5. CASE ~s.over /\ ~Legal(s, f, cfg)
    BY <1>2, <1>3, <1>5 DEF Means, Extends
  <1>6. CASE ~s.over /\ Legal(s, f, cfg) /\ f.op \in Control
    <2>1. i \in Nat /\ f.op \in Opcodes
      BY <1>6 DEF Opcodes
    <2> DEFINE e == [kind |-> f.op, frame |-> i]
               c == [kind |-> "conclude", frame |-> i]
    <2>2. e \in RxEvent /\ c \in RxEvent
      BY <2>1, EventsAre
    <2>3. m \in {Says(s, e), Stops(s, c), Stops(s, Mistake(1002))}
      BY <1>6 DEF Means
    <2> HIDE DEF e, c, m
    <2> QED BY <1>2, <1>3, <2>2, <2>3 DEF m, Extends
  <1>7. CASE ~s.over /\ Legal(s, f, cfg) /\ f.op \notin Control
    <2>1. m = MeansData(s, frames, i)
      BY <1>7 DEF Means
    <2>2. t.events = s.events /\ t.filled \in Seq(1 .. N) /\ t.first \in 1 .. N
      BY <1>1, WithPartIs DEF RxMeaning
    <2>3. op \in Opcodes
      BY <2>2, FrameFields DEF Opcodes
    <2>4. Goes(m, s, t, frames, i)
      BY <2>1, MeansDataGoes
    <2> HIDE DEF m, t
    <2>5. CASE m = Complete(s, op, t.filled)
      <3> HIDE DEF op
      <3>1. /\ Told(op, t.filled) \in RxEvent
            /\ Complete(s, op, t.filled).events = Append(s.events, Told(op, t.filled))
        BY <1>1, <2>2, <2>3, CompleteIs
      <3> QED BY <2>5, <3>1 DEF m, Extends
    <2>6. CASE m = t
      BY <2>2, <2>6 DEF m, Extends
    <2>7. CASE m = Stops(s, Mistake(1009)) \/ m = Stops(s, Mistake(1007))
      BY <1>2, <1>3, <2>7 DEF m, Extends
    <2> QED BY <2>4, <2>5, <2>6, <2>7 DEF Goes
  <1> QED BY <1>4, <1>5, <1>6, <1>7

LEMMA MeantIs ==
    ASSUME NEW frames \in Seq(RxFrame), NEW cfg
    PROVE  /\ \A k \in 0 .. Len(frames) : Sound(frames, Meant(frames, cfg)[k])
           /\ Meant(frames, cfg)[0] = NothingMeant
           /\ \A k \in 1 .. Len(frames) :
                  Meant(frames, cfg)[k] = Means(Meant(frames, cfg)[k - 1], frames, cfg, k)
  <1> DEFINE N == Len(frames)
             G == {s \in RxMeaning(N) : Sound(frames, s)}
             step == [p \in G \X (1 .. N) |-> Means(p[1], frames, cfg, p[2])]
  <1>1. N \in Nat
    OBVIOUS
  <1>2. \A s : Sound(frames, s) => s \in G
    BY DEF Sound
  <1>3. NothingMeant \in G /\ \A s \in G : Sound(frames, s)
    BY <1>2, NothingIsMeant
  <1> HIDE DEF G
  <1>4. ASSUME NEW s \in G, NEW k \in 1 .. N PROVE Means(s, frames, cfg, k) \in G
    BY <1>2, <1>3, MeansSound
  <1>5. IsStep(step, G, N)
    BY <1>4 DEF IsStep
  <1>6. \A s \in G, k \in 1 .. N : step[<<s, k>>] = Means(s, frames, cfg, k)
    OBVIOUS
  <1> HIDE DEF step
  <1>7. PICK g : GoesOn(g, NothingMeant, step, G, N)
    BY <1>1, <1>3, <1>5, RecursionUpTo
  <1>8. g \in [0 .. N -> G] /\ g[0] = NothingMeant /\ \A k \in 1 .. N : g[k] = step[<<g[k - 1], k>>]
    BY <1>7 DEF GoesOn
  <1>9. ASSUME NEW k \in 1 .. N PROVE g[k] = Means(g[k - 1], frames, cfg, k)
    <2>1. k - 1 \in 0 .. N
      BY <1>1
    <2>2. g[k - 1] \in G
      BY <1>8, <2>1
    <2> QED BY <1>6, <1>8, <2>2
  <1> DEFINE Defining(h) ==
        h = [k \in 0 .. N |-> IF k = 0 THEN NothingMeant ELSE Means(h[k - 1], frames, cfg, k)]
  <1>10. Defining(g)
    BY <1>1, <1>8, <1>9
  <1>11. Meant(frames, cfg) = CHOOSE h : Defining(h)
    BY DEF Meant
  <1> DEFINE h == Meant(frames, cfg)
  <1>12. Defining(h)
    <2> HIDE DEF Defining
    <2> QED BY <1>10, <1>11
  <1> HIDE DEF h
  <1>13. /\ h[0] = NothingMeant /\ DOMAIN h = 0 .. N
         /\ \A k \in 1 .. N : h[k] = Means(h[k - 1], frames, cfg, k)
    BY <1>1, <1>12
  <1> DEFINE S == {k \in Nat : k <= N => h[k] \in G}
  <1>14. 0 \in S
    BY <1>3, <1>13
  <1>15. ASSUME NEW k \in Nat, k \in S PROVE k + 1 \in S
    <2> SUFFICES ASSUME k + 1 <= N PROVE h[k + 1] \in G
      OBVIOUS
    <2>1. k + 1 \in 1 .. N /\ (k + 1) - 1 = k /\ k <= N
      BY <1>1
    <2>2. h[k] \in G
      BY <1>15, <2>1
    <2> QED BY <1>4, <1>13, <2>1, <2>2
  <1> HIDE DEF S
  <1>16. Nat \subseteq S
    BY <1>14, <1>15, NatSetInduction
  <1>17. \A k \in 0 .. N : h[k] \in G
    BY <1>1, <1>16 DEF S
  <1> QED BY <1>3, <1>13, <1>17 DEF h

StartsWith(b, a) == Len(a) <= Len(b) /\ \A j \in 1 .. Len(a) : a[j] = b[j]

LEMMA StartsAppended ==
    ASSUME NEW T, NEW a \in Seq(T), NEW b \in Seq(T), StartsWith(b, a), NEW e \in T
    PROVE  StartsWith(Append(b, e), a)
  BY AppendProperties DEF StartsWith

\* What the first frames mean is where it is in what all mean.
LEMMA MeantGrows ==
    ASSUME NEW frames \in Seq(RxFrame), NEW cfg, NEW k \in 0 .. Len(frames)
    PROVE  /\ Meant(frames, cfg)[k].events \in Seq(RxEvent) /\ Meaning(frames, cfg) \in Seq(RxEvent)
           /\ StartsWith(Meaning(frames, cfg), Meant(frames, cfg)[k].events)
  <1> DEFINE N == Len(frames)
             M == Meant(frames, cfg)
             S == {d \in Nat : k + d <= N => StartsWith(M[k + d].events, M[k].events)}
  <1>1. N \in Nat /\ k \in Nat /\ k <= N
    OBVIOUS
  <1>2. \A n \in 0 .. N : Sound(frames, M[n])
    BY MeantIs
  <1>3. \A n \in 1 .. N : M[n] = Means(M[n - 1], frames, cfg, n)
    BY MeantIs
  <1> HIDE DEF M
  <1>4. \A n \in 0 .. N : M[n].events \in Seq(RxEvent)
    BY <1>2 DEF Sound, RxMeaning
  <1>5. 0 \in S
    <2>1. Len(M[k].events) \in Nat
      BY <1>4
    <2> QED BY <1>1, <2>1 DEF StartsWith
  <1>6. ASSUME NEW d \in Nat, d \in S PROVE d + 1 \in S
    <2> SUFFICES ASSUME k + (d + 1) <= N PROVE StartsWith(M[k + (d + 1)].events, M[k].events)
      OBVIOUS
    <2> DEFINE n == k + d + 1
    <2>1. n \in 1 .. N /\ n - 1 \in 0 .. N /\ n - 1 = k + d /\ k + d <= N /\ k + (d + 1) = n
      BY <1>1
    <2>2. StartsWith(M[n - 1].events, M[k].events)
      BY <1>6, <2>1
    <2> HIDE DEF n
    <2>3. Sound(frames, M[n - 1]) /\ M[n] = Means(M[n - 1], frames, cfg, n)
      BY <1>2, <1>3, <2>1
    <2>4. Extends(M[n], M[n - 1])
      BY <2>1, <2>3, MeansMore
    <2>5. M[n - 1].events \in Seq(RxEvent) /\ M[k].events \in Seq(RxEvent)
      BY <1>4, <2>1
    <2>6. StartsWith(M[n].events, M[k].events)
      BY <2>2, <2>4, <2>5, StartsAppended DEF Extends
    <2> QED BY <2>1, <2>6
  <1> HIDE DEF S
  <1>7. N - k \in S
    <2>1. N - k \in Nat
      BY <1>1
    <2>2. Nat \subseteq S
      BY <1>5, <1>6, NatSetInduction
    <2> QED BY <2>1, <2>2
  <1>8. StartsWith(M[N].events, M[k].events)
    <2>1. k + (N - k) = N
      BY <1>1
    <2> QED BY <1>7, <2>1 DEF S
  <1>9. Meaning(frames, cfg) = M[N].events
    BY DEF Meaning, M
  <1> QED BY <1>1, <1>4, <1>8, <1>9 DEF M


-----------------------------------------------------------------------------
(* WsReceiver: the invariant.                                              *)

\* What is buffered, the queued chunks and what is not read are W cut up, from
\* behind the b units that are consumed.
DividesAt(W, cuts, buffers, queue, rest, b) ==
    /\ b <= cuts[1] /\ buffers = SubSeq(W, b + 1, cuts[1])
    /\ \A j \in 1 .. Len(queue) :
           cuts[j] <= cuts[j + 1] /\ queue[j] = SubSeq(W, cuts[j] + 1, cuts[j + 1])
    /\ rest = SubSeq(W, cuts[Len(queue) + 1] + 1, Len(W))
Divides(W, buffers, queue, rest, b) ==
    /\ queue \in Seq(Seq(RxUnit)) /\ b \in 0 .. Len(W)
    /\ \E cuts \in [1 .. Len(queue) + 1 -> 0 .. Len(W)] : DividesAt(W, cuts, buffers, queue, rest, b)

\* Between two frames the registers are those of what k frames mean.
Fragmented(frames, s) == IF s.first = 0 THEN "no" ELSE frames[s.first].op
Agrees(frames, s, r, events) ==
    /\ ~s.over /\ s.events = events
    /\ r.fragmented = Fragmented(frames, s)
    /\ s.first # 0 => r.compressed = frames[s.first].rsv1
    /\ r.total = s.read /\ r.message = s.size /\ r.fragments = s.filled /\ r.later = << >>

\* In the middle of frame i they are those of what was before it, and the frame's;
\* its length counts once it is known.
OpOf(frames, s, i) == IF frames[i].op = "continuation" THEN frames[s.first].op ELSE frames[i].op
Underway(frames, cfg, s, i, r, events, counted) ==
    LET f == frames[i]
        data == f.op \notin Control
    IN  /\ ~s.over /\ s.events = events /\ Legal(s, f, cfg)
        /\ r.frame = i /\ r.op = OpOf(frames, s, i) /\ r.fin = f.fin /\ r.len = f.len
        /\ r.masked = IsMasked(f, cfg)
        /\ r.fragmented = (IF s.first = 0 /\ ~f.fin THEN f.op ELSE Fragmented(frames, s))
        /\ data \/ s.first # 0 => r.compressed = frames[FirstOf(s, i)].rsv1
        /\ r.total = s.read + (IF counted /\ data THEN f.len ELSE 0)
        /\ r.message = s.size /\ r.fragments = s.filled /\ r.later = << >>
        /\ counted /\ data => f.len < Unsafe /\ (MaxPayload > 0 => r.total <= MaxPayload)

\* What is put off is as good as emitted.
Shown(r) == [r EXCEPT !.later = << >>]

\* The registers of a state fit what is ahead of it, p.
Between(frames, cfg, r, events, p) ==
    \E k \in 0 .. Len(frames) :
        Agrees(frames, Meant(frames, cfg)[k], r, events) /\ p = Wire(frames, cfg)[Len(frames) - k]
Within(frames, cfg, i, r, events, counted) ==
    Underway(frames, cfg, Meant(frames, cfg)[i - 1], i, r, events, counted)
InFrame(frames, cfg, state, i, r, events, p) ==
    \/ /\ state \in {"GET_PAYLOAD_LENGTH_16", "GET_PAYLOAD_LENGTH_64"}
       /\ Within(frames, cfg, i, r, events, FALSE) /\ frames[i].len >= Long16
       /\ state = "GET_PAYLOAD_LENGTH_16" <=> frames[i].len < Long64
       /\ p = FromLength(frames, cfg, i)
    \/ /\ state = "GET_MASK" /\ Within(frames, cfg, i, r, events, TRUE)
       /\ IsMasked(frames[i], cfg) /\ p = FromMask(frames, cfg, i)
    \/ /\ state = "GET_DATA" /\ Within(frames, cfg, i, r, events, TRUE)
       /\ p = FromData(frames, cfg, i)
    \/ /\ state = "INFLATING" /\ Within(frames, cfg, i, r, events, TRUE)
       /\ frames[i].op \notin Control /\ r.compressed
       /\ p = Wire(frames, cfg)[Len(frames) - i]
Fit(frames, cfg, state, r, events, p) ==
    \/ state = "GET_INFO" /\ Between(frames, cfg, r, events, p)
    \/ /\ state = "DEFER_EVENT" /\ r.op # "close" /\ r.later # << >>
       /\ Between(frames, cfg, Shown(r), Append(events, r.later[1]), p)
    \/ \E i \in 1 .. Len(frames) : InFrame(frames, cfg, state, i, r, events, p)

Whole == Wire(rxFrames, rxCfg)[Len(rxFrames)]
Coming(b) == SubSeq(Whole, b + 1, Len(Whole))
InStep ==
    \E b \in 0 .. Len(Whole) :
        /\ Divides(Whole, rxBuffers, rxQueue, rxRest, b)
        /\ Fit(rxFrames, rxCfg, rxState, rx, rxEvents, Coming(b))

\* Behind a close frame nothing is read.
Closed == rxState = "GET_INFO" /\ rx.op = "close"

RxStates == {"GET_INFO", "GET_PAYLOAD_LENGTH_16", "GET_PAYLOAD_LENGTH_64", "GET_MASK",
             "GET_DATA", "INFLATING", "DEFER_EVENT"}
RxRegisters ==
    [frame : Nat, op : Control \cup {"none", "text", "binary"}, fin : BOOLEAN, len : Nat,
     fragmented : {"no", "text", "binary"}, compressed : BOOLEAN, masked : BOOLEAN,
     total : Nat, message : Nat, fragments : Seq(Nat), later : Seq(RxEvent)]

RxTyped ==
    /\ rxFrames \in RxInputs /\ rxCfg \in RxConfigs /\ rx \in RxRegisters
    /\ rxEvents \in Seq(RxEvent) /\ rxState \in RxStates
    /\ rxBusy \in BOOLEAN /\ rxLoop \in BOOLEAN /\ rxErrored \in BOOLEAN
RxControlled ==
    /\ rxLoop => rxBusy /\ ~rxErrored /\ ~Closed
    /\ rxState \in {"INFLATING", "DEFER_EVENT"} => rxBusy /\ ~rxLoop
    /\ rxState = "DEFER_EVENT" => ~rxErrored
RxInv ==
    /\ RxTyped /\ RxControlled /\ KeptWithinLimit
    /\ StartsWith(Meaning(rxFrames, rxCfg), rxEvents)
    /\ rxErrored \/ Closed \/ InStep


-----------------------------------------------------------------------------
(* WsReceiver: chunks.                                                     *)

LEMMA PieceIs ==
    ASSUME NEW T, NEW w \in Seq(T), NEW a \in 0 .. Len(w), NEW b \in a .. Len(w)
    PROVE  /\ SubSeq(w, a + 1, b) \in Seq(T) /\ Len(SubSeq(w, a + 1, b)) = b - a
           /\ \A j \in 1 .. b - a : SubSeq(w, a + 1, b)[j] = w[a + j]
  <1>1. a + 1 \in Int /\ b \in Int /\ Len(w) \in Nat
    OBVIOUS
  <1>2. \A i \in a + 1 .. b : w[i] \in T
    OBVIOUS
  <1> QED BY <1>1, <1>2, SubSeqProperties

\* A piece of a piece, and two pieces that follow each other.
LEMMA PieceOfPiece ==
    ASSUME NEW T, NEW w \in Seq(T), NEW a \in 0 .. Len(w), NEW b \in a .. Len(w),
           NEW m \in 0 .. b - a, NEW n \in m .. b - a
    PROVE  SubSeq(SubSeq(w, a + 1, b), m + 1, n) = SubSeq(w, a + m + 1, a + n)
  <1> DEFINE p == SubSeq(w, a + 1, b)
  <1>1. p \in Seq(T) /\ Len(p) = b - a /\ \A j \in 1 .. b - a : p[j] = w[a + j]
    BY PieceIs
  <1> HIDE DEF p
  <1>2. m \in 0 .. Len(p) /\ n \in m .. Len(p)
    BY <1>1
  <1>3. /\ SubSeq(p, m + 1, n) \in Seq(T) /\ Len(SubSeq(p, m + 1, n)) = n - m
        /\ \A j \in 1 .. n - m : SubSeq(p, m + 1, n)[j] = p[m + j]
    BY <1>1, <1>2, PieceIs
  <1>4. a + m \in 0 .. Len(w) /\ a + n \in a + m .. Len(w) /\ (a + n) - (a + m) = n - m
    OBVIOUS
  <1>5. /\ SubSeq(w, a + m + 1, a + n) \in Seq(T) /\ Len(SubSeq(w, a + m + 1, a + n)) = n - m
        /\ \A j \in 1 .. n - m : SubSeq(w, a + m + 1, a + n)[j] = w[a + m + j]
    BY <1>4, PieceIs
  <1>6. ASSUME NEW j \in 1 .. n - m PROVE p[m + j] = w[a + m + j]
    <2>1. m + j \in 1 .. b - a /\ a + (m + j) = a + m + j
      OBVIOUS
    <2> QED BY <1>1, <2>1
  <1> DEFINE x == SubSeq(p, m + 1, n)
             y == SubSeq(w, a + m + 1, a + n)
  <1>7. x \in Seq(T) /\ y \in Seq(T) /\ Len(x) = Len(y) /\ \A j \in 1 .. Len(x) : x[j] = y[j]
    BY <1>3, <1>5, <1>6
  <1> HIDE DEF x, y
  <1>8. x = y
    BY <1>7, SeqEqual
  <1> QED BY <1>8 DEF x, y, p

LEMMA PiecesJoin ==
    ASSUME NEW T, NEW w \in Seq(T), NEW a \in 0 .. Len(w), NEW b \in a .. Len(w),
           NEW c \in b .. Len(w)
    PROVE  SubSeq(w, a + 1, b) \o SubSeq(w, b + 1, c) = SubSeq(w, a + 1, c)
  <1>1. a + 1 \in 1 .. Len(w) + 1 /\ b \in (a + 1) - 1 .. Len(w) /\ c \in b .. Len(w)
    OBVIOUS
  <1> QED BY <1>1, ConcatAdjacentSubSeq

LEMMA DividesTypes ==
    ASSUME NEW W \in Seq(RxUnit), NEW buffers, NEW queue, NEW rest, NEW b,
           Divides(W, buffers, queue, rest, b)
    PROVE  /\ buffers \in Seq(RxUnit) /\ rest \in Seq(RxUnit) /\ queue \in Seq(Seq(RxUnit))
           /\ queue # << >> => Head(queue) \in Seq(RxUnit)
  <1>1. PICK cuts \in [1 .. Len(queue) + 1 -> 0 .. Len(W)] : DividesAt(W, cuts, buffers, queue, rest, b)
    BY DEF Divides
  <1>2. queue \in Seq(Seq(RxUnit)) /\ b \in 0 .. Len(W) /\ Len(queue) \in Nat
    BY DEF Divides
  <1>3. 1 \in 1 .. Len(queue) + 1 /\ Len(queue) + 1 \in 1 .. Len(queue) + 1
    BY <1>2
  <1>4. cuts[1] \in b .. Len(W) /\ cuts[Len(queue) + 1] \in 0 .. Len(W)
        /\ Len(W) \in cuts[Len(queue) + 1] .. Len(W)
    <2>1. cuts[1] \in 0 .. Len(W) /\ cuts[Len(queue) + 1] \in 0 .. Len(W)
      BY <1>3
    <2>2. b <= cuts[1] /\ b \in Nat /\ Len(W) \in Nat
      BY <1>1, <1>2 DEF DividesAt
    <2> QED BY <2>1, <2>2
  <1>5. buffers = SubSeq(W, b + 1, cuts[1]) /\ rest = SubSeq(W, cuts[Len(queue) + 1] + 1, Len(W))
    BY <1>1 DEF DividesAt
  <1>6. buffers \in Seq(RxUnit)
    BY <1>2, <1>4, <1>5, PieceIs
  <1>7. rest \in Seq(RxUnit)
    BY <1>4, <1>5, PieceIs
  <1> QED BY <1>2, <1>6, <1>7, HeadTailProperties

LEMMA DividesAtFirst ==
    ASSUME NEW W \in Seq(RxUnit)
    PROVE  Divides(W, << >>, << >>, W, 0)
  <1> DEFINE cuts == [j \in 1 .. 0 + 1 |-> 0]
  <1>1. Len(W) \in Nat /\ << >> \in Seq(Seq(RxUnit)) /\ Len(<< >>) = 0 /\ 0 \in 0 .. Len(W)
    BY EmptySeq
  <1>2. cuts \in [1 .. 0 + 1 -> 0 .. Len(W)] /\ cuts[1] = 0 /\ cuts[0 + 1] = 0
    BY <1>1
  <1>3. SubSeq(W, 0 + 1, 0) = << >> /\ SubSeq(W, 0 + 1, Len(W)) = W
    BY SubSeqEmpty, SubSeqFull
  <1> HIDE DEF cuts
  <1>4. DividesAt(W, cuts, << >>, << >>, W, 0)
    BY <1>1, <1>2, <1>3 DEF DividesAt
  <1> QED BY <1>1, <1>2, <1>4 DEF Divides

\* A chunk that is queued.
LEMMA DividesQueued ==
    ASSUME NEW W \in Seq(RxUnit), NEW buffers, NEW queue, NEW rest, NEW b,
           Divides(W, buffers, queue, rest, b), NEW n \in 1 .. Len(rest)
    PROVE  Divides(W, buffers, Append(queue, SubSeq(rest, 1, n)), SubSeq(rest, n + 1, Len(rest)), b)
  <1>1. PICK cuts \in [1 .. Len(queue) + 1 -> 0 .. Len(W)] : DividesAt(W, cuts, buffers, queue, rest, b)
    BY DEF Divides
  <1> DEFINE d == Len(queue)
             last == cuts[d + 1]
             chunk == SubSeq(rest, 1, n)
             q == Append(queue, chunk)
             more == [j \in 1 .. d + 2 |-> IF j = d + 2 THEN last + n ELSE cuts[j]]
  <1>2. queue \in Seq(Seq(RxUnit)) /\ d \in Nat /\ Len(W) \in Nat /\ b \in 0 .. Len(W)
    BY DEF Divides
  <1>3. last \in 0 .. Len(W) /\ rest = SubSeq(W, last + 1, Len(W))
    <2>1. d + 1 \in 1 .. Len(queue) + 1
      BY <1>2
    <2>2. cuts[d + 1] \in 0 .. Len(W)
      BY <2>1
    <2> QED BY <1>1, <2>2 DEF DividesAt
  <1> HIDE DEF last
  <1>4. Len(W) \in last .. Len(W)
    BY <1>2, <1>3
  <1>5. rest \in Seq(RxUnit) /\ Len(rest) = Len(W) - last
    BY <1>3, <1>4, PieceIs
  <1>6. n \in Nat /\ n \in 0 .. Len(W) - last /\ 0 \in 0 .. Len(W) - last
        /\ Len(W) - last \in n .. Len(W) - last /\ last + n \in 0 .. Len(W) /\ last <= last + n
    BY <1>2, <1>3, <1>5
  <1>7. chunk = SubSeq(W, last + 0 + 1, last + n)
    <2>1. SubSeq(rest, 0 + 1, n) = SubSeq(W, last + 0 + 1, last + n)
      BY <1>3, <1>4, <1>6, PieceOfPiece
    <2>2. 0 + 1 = 1
      OBVIOUS
    <2> QED BY <2>1, <2>2
  <1>8. SubSeq(rest, n + 1, Len(rest)) = SubSeq(W, last + n + 1, Len(W))
    <2>1. SubSeq(rest, n + 1, Len(W) - last) = SubSeq(W, last + n + 1, last + (Len(W) - last))
      BY <1>3, <1>4, <1>6, PieceOfPiece
    <2>2. last + (Len(W) - last) = Len(W)
      BY <1>2, <1>3
    <2> QED BY <1>5, <2>1, <2>2
  <1>9. chunk \in Seq(RxUnit)
    <2>1. SubSeq(W, last + 1, last + n) \in Seq(RxUnit)
      BY <1>3, <1>6, PieceIs
    <2> QED BY <1>3, <1>6, <1>7, <2>1
  <1>10. chunk = SubSeq(W, last + 1, last + n)
    BY <1>3, <1>7
  <1> HIDE DEF chunk
  <1>11. /\ q \in Seq(Seq(RxUnit)) /\ Len(q) = d + 1 /\ q[d + 1] = chunk
         /\ \A j \in 1 .. d : q[j] = queue[j]
    BY <1>2, <1>9, AppendProperties
  <1> HIDE DEF q
  <1>12. /\ more \in [1 .. d + 2 -> 0 .. Len(W)] /\ more[d + 2] = last + n
         /\ \A j \in 1 .. d + 1 : more[j] = cuts[j]
    BY <1>1, <1>2, <1>6
  <1> HIDE DEF more
  <1>13. \A j \in 1 .. d : cuts[j] <= cuts[j + 1] /\ queue[j] = SubSeq(W, cuts[j] + 1, cuts[j + 1])
    BY <1>1 DEF DividesAt
  <1>14. ASSUME NEW j \in 1 .. d + 1
         PROVE  more[j] <= more[j + 1] /\ q[j] = SubSeq(W, more[j] + 1, more[j + 1])
    <2>1. CASE j = d + 1
      <3>1. more[j] = last /\ more[j + 1] = last + n /\ q[j] = chunk
        <4>1. j \in 1 .. d + 1 /\ j + 1 = d + 2
          BY <1>2, <2>1
        <4> QED BY <1>11, <1>12, <2>1, <4>1 DEF last
      <3> QED BY <1>6, <1>10, <3>1
    <2>2. CASE j # d + 1
      <3>1. j \in 1 .. d /\ j + 1 \in 1 .. d + 1 /\ j \in 1 .. d + 1
        BY <1>2, <2>2
      <3> QED BY <1>11, <1>12, <1>13, <3>1
    <2> QED BY <2>1, <2>2
  <1>15. more[1] = cuts[1] /\ d + 1 + 1 = d + 2
    BY <1>2, <1>12
  <1>16. b <= cuts[1] /\ buffers = SubSeq(W, b + 1, cuts[1])
    BY <1>1 DEF DividesAt
  <1>17. DividesAt(W, more, buffers, q, SubSeq(rest, n + 1, Len(rest)), b)
    BY <1>8, <1>11, <1>12, <1>14, <1>15, <1>16 DEF DividesAt
  <1>18. more \in [1 .. Len(q) + 1 -> 0 .. Len(W)]
    BY <1>11, <1>12, <1>15
  <1>19. Divides(W, buffers, q, SubSeq(rest, n + 1, Len(rest)), b)
    BY <1>2, <1>11, <1>17, <1>18 DEF Divides
  <1> QED BY <1>19 DEF q, chunk

\* The first queued chunk, written behind what is buffered.
LEMMA DividesNext ==
    ASSUME NEW W \in Seq(RxUnit), NEW buffers, NEW queue, NEW rest, NEW b,
           Divides(W, buffers, queue, rest, b), queue # << >>
    PROVE  Divides(W, buffers \o Head(queue), Tail(queue), rest, b)
  <1>1. PICK cuts \in [1 .. Len(queue) + 1 -> 0 .. Len(W)] : DividesAt(W, cuts, buffers, queue, rest, b)
    BY DEF Divides
  <1> DEFINE d == Len(queue)
             q == Tail(queue)
             less == [j \in 1 .. d |-> cuts[j + 1]]
  <1>2. queue \in Seq(Seq(RxUnit)) /\ d \in Nat /\ d >= 1 /\ Len(W) \in Nat /\ b \in 0 .. Len(W)
    BY EmptySeq DEF Divides
  <1>3. q \in Seq(Seq(RxUnit)) /\ Len(q) = d - 1 /\ (\A j \in 1 .. d - 1 : q[j] = queue[j + 1])
        /\ Head(queue) = queue[1]
    BY <1>2, HeadTailProperties
  <1> HIDE DEF q
  <1>4. /\ less \in [1 .. d -> 0 .. Len(W)] /\ \A j \in 1 .. d : less[j] = cuts[j + 1]
    BY <1>1, <1>2
  <1> HIDE DEF less
  <1>5. \A j \in 1 .. d : cuts[j] <= cuts[j + 1] /\ queue[j] = SubSeq(W, cuts[j] + 1, cuts[j + 1])
    BY <1>1 DEF DividesAt
  <1>6. ASSUME NEW j \in 1 .. d - 1
        PROVE  less[j] <= less[j + 1] /\ q[j] = SubSeq(W, less[j] + 1, less[j + 1])
    <2>1. j \in 1 .. d /\ j + 1 \in 1 .. d
      BY <1>2
    <2> QED BY <1>3, <1>4, <1>5, <2>1
  <1>7. 1 \in 1 .. d /\ cuts[1] <= cuts[2] /\ queue[1] = SubSeq(W, cuts[1] + 1, cuts[2])
        /\ cuts[1] \in 0 .. Len(W) /\ cuts[2] \in 0 .. Len(W) /\ less[1] = cuts[2]
    <2>1. 1 \in 1 .. d /\ 1 \in 1 .. d + 1 /\ 2 \in 1 .. d + 1 /\ 1 + 1 = 2
      BY <1>2
    <2> QED BY <1>1, <1>4, <1>5, <2>1
  <1>8. b <= cuts[1] /\ buffers = SubSeq(W, b + 1, cuts[1]) /\ rest = SubSeq(W, cuts[d + 1] + 1, Len(W))
    BY <1>1 DEF DividesAt
  <1>9. buffers \o Head(queue) = SubSeq(W, b + 1, less[1]) /\ b <= less[1]
    <2>1. cuts[1] \in b .. Len(W) /\ cuts[2] \in cuts[1] .. Len(W)
      BY <1>2, <1>7, <1>8
    <2>2. SubSeq(W, b + 1, cuts[1]) \o SubSeq(W, cuts[1] + 1, cuts[2]) = SubSeq(W, b + 1, cuts[2])
      BY <1>2, <2>1, PiecesJoin
    <2>3. b <= cuts[2]
      BY <1>2, <1>7, <1>8
    <2>4. less[1] = cuts[2] /\ Head(queue) = SubSeq(W, cuts[1] + 1, cuts[2])
      BY <1>3, <1>7
    <2> QED BY <1>8, <2>2, <2>3, <2>4
  <1>10. less[d] = cuts[d + 1] /\ (d - 1) + 1 = d
    BY <1>2, <1>4
  <1>11. DividesAt(W, less, buffers \o Head(queue), q, rest, b)
    BY <1>3, <1>6, <1>8, <1>9, <1>10 DEF DividesAt
  <1>12. less \in [1 .. Len(q) + 1 -> 0 .. Len(W)]
    BY <1>3, <1>4, <1>10
  <1>13. Divides(W, buffers \o Head(queue), q, rest, b)
    BY <1>2, <1>3, <1>11, <1>12 DEF Divides
  <1> QED BY <1>13 DEF q

\* A unit that is consumed is the first of those that are pending.
LEMMA DividesRead ==
    ASSUME NEW W \in Seq(RxUnit), NEW buffers, NEW queue, NEW rest, NEW b,
           Divides(W, buffers, queue, rest, b), buffers # << >>
    PROVE  /\ b + 1 \in 0 .. Len(W) /\ Divides(W, Tail(buffers), queue, rest, b + 1)
           /\ Head(buffers) = Head(SubSeq(W, b + 1, Len(W)))
           /\ SubSeq(W, b + 1, Len(W)) # << >>
           /\ Tail(SubSeq(W, b + 1, Len(W))) = SubSeq(W, b + 1 + 1, Len(W))
  <1>1. PICK cuts \in [1 .. Len(queue) + 1 -> 0 .. Len(W)] : DividesAt(W, cuts, buffers, queue, rest, b)
    BY DEF Divides
  <1>2. queue \in Seq(Seq(RxUnit)) /\ Len(queue) \in Nat /\ Len(W) \in Nat /\ b \in 0 .. Len(W)
    BY DEF Divides
  <1>3. cuts[1] \in b .. Len(W) /\ buffers = SubSeq(W, b + 1, cuts[1])
    <2>1. 1 \in 1 .. Len(queue) + 1
      BY <1>2
    <2>2. cuts[1] \in 0 .. Len(W)
      BY <2>1
    <2>3. b <= cuts[1] /\ buffers = SubSeq(W, b + 1, cuts[1])
      BY <1>1 DEF DividesAt
    <2> QED BY <1>2, <2>2, <2>3
  <1>4. cuts[1] # b
    <2>1. ASSUME cuts[1] = b PROVE FALSE
      <3>1. b \in Int /\ b + 1 \in Int /\ b < b + 1
        BY <1>2
      <3>2. SubSeq(W, b + 1, b) = << >>
        BY <3>1, SubSeqEmpty
      <3> QED BY <1>3, <2>1, <3>2
    <2> QED BY <2>1
  <1>5. b + 1 \in 1 .. Len(W) /\ cuts[1] \in b + 1 .. Len(W) /\ Len(W) \in b + 1 .. Len(W)
        /\ b + 1 \in 0 .. Len(W) /\ b + 1 <= cuts[1]
    BY <1>2, <1>3, <1>4
  <1>6. Head(buffers) = W[b + 1] /\ Tail(buffers) = SubSeq(W, b + 1 + 1, cuts[1])
    BY <1>3, <1>5, HeadTailOfSubSeq
  <1>7. /\ Head(SubSeq(W, b + 1, Len(W))) = W[b + 1]
        /\ Tail(SubSeq(W, b + 1, Len(W))) = SubSeq(W, b + 1 + 1, Len(W))
    BY <1>5, HeadTailOfSubSeq
  <1>8. DividesAt(W, cuts, Tail(buffers), queue, rest, b + 1)
    BY <1>1, <1>5, <1>6 DEF DividesAt
  <1>9. SubSeq(W, b + 1, Len(W)) # << >>
    <2>1. Len(W) \in b .. Len(W)
      BY <1>2
    <2>2. Len(SubSeq(W, b + 1, Len(W))) = Len(W) - b
      BY <1>2, <2>1, PieceIs
    <2>3. Len(W) - b # 0
      BY <1>2, <1>5
    <2> QED BY <2>2, <2>3, EmptySeq
  <1> QED BY <1>2, <1>5, <1>6, <1>7, <1>8, <1>9 DEF Divides


-----------------------------------------------------------------------------
(* WsReceiver: the registers.                                              *)

RegisterTypes(r) ==
    /\ r.frame \in Nat /\ r.op \in Control \cup {"none", "text", "binary"} /\ r.fin \in BOOLEAN
    /\ r.len \in Nat /\ r.fragmented \in {"no", "text", "binary"} /\ r.compressed \in BOOLEAN
    /\ r.masked \in BOOLEAN /\ r.total \in Nat /\ r.message \in Nat /\ r.fragments \in Seq(Nat)
    /\ r.later \in Seq(RxEvent)
IsRegisters(r) ==
    r = [frame |-> r.frame, op |-> r.op, fin |-> r.fin, len |-> r.len, fragmented |-> r.fragmented,
         compressed |-> r.compressed, masked |-> r.masked, total |-> r.total,
         message |-> r.message, fragments |-> r.fragments, later |-> r.later]
SameFrame(q, r) ==
    q.frame = r.frame /\ q.op = r.op /\ q.fin = r.fin /\ q.len = r.len /\ q.masked = r.masked
        /\ q.compressed = r.compressed

LEMMA RegistersAre ==
    ASSUME NEW r
    PROVE  r \in RxRegisters <=> IsRegisters(r) /\ RegisterTypes(r)
  <1>1. r \in RxRegisters => IsRegisters(r)
    BY DEF RxRegisters, IsRegisters
  <1>2. r \in RxRegisters => RegisterTypes(r)
    BY DEF RxRegisters, RegisterTypes
  <1>3. IsRegisters(r) /\ RegisterTypes(r) => r \in RxRegisters
    BY DEF RxRegisters, IsRegisters, RegisterTypes
  <1> QED BY <1>1, <1>2, <1>3

LEMMA TotalIs ==
    ASSUME NEW r \in RxRegisters, NEW n \in Nat
    PROVE  LET q == [r EXCEPT !.total = n]
           IN  /\ q \in RxRegisters /\ SameFrame(q, r) /\ q.total = n /\ q.message = r.message
               /\ q.fragmented = r.fragmented /\ q.fragments = r.fragments /\ q.later = r.later
  <1> DEFINE q == [r EXCEPT !.total = n]
  <1>1. IsRegisters(r) /\ RegisterTypes(r)
    BY RegistersAre
  <1>2. q = [frame |-> r.frame, op |-> r.op, fin |-> r.fin, len |-> r.len, fragmented |-> r.fragmented,
             compressed |-> r.compressed, masked |-> r.masked, total |-> n,
             message |-> r.message, fragments |-> r.fragments, later |-> r.later]
    BY <1>1 DEF IsRegisters
  <1> HIDE DEF q
  <1>3. /\ IsRegisters(q) /\ SameFrame(q, r) /\ q.total = n /\ q.message = r.message
        /\ q.fragmented = r.fragmented /\ q.fragments = r.fragments /\ q.later = r.later
    BY <1>2 DEF IsRegisters, SameFrame
  <1>4. RegisterTypes(q)
    BY <1>1, <1>3 DEF RegisterTypes, SameFrame
  <1>5. q \in RxRegisters
    BY <1>3, <1>4, RegistersAre
  <1> QED BY <1>3, <1>5 DEF q

LEMMA CountedIs ==
    ASSUME NEW r \in RxRegisters
    PROVE  LET q == Counted(r)
           IN  /\ q \in RxRegisters /\ SameFrame(q, r) /\ q.message = r.message
               /\ q.fragmented = r.fragmented /\ q.fragments = r.fragments /\ q.later = r.later
               /\ q.total = IF r.op \in Control THEN r.total ELSE r.total + r.len
  <1>1. r.len \in Nat /\ r.total \in Nat
    BY RegistersAre DEF RegisterTypes
  <1> DEFINE n == r.total + r.len
  <1>2. n \in Nat
    BY <1>1
  <1>3. CASE r.len > 0 /\ r.op \notin Control
    <2>1. Counted(r) = [r EXCEPT !.total = n]
      BY <1>3 DEF Counted
    <2> HIDE DEF n
    <2>2. /\ Counted(r) \in RxRegisters /\ SameFrame(Counted(r), r) /\ Counted(r).message = r.message
          /\ Counted(r).fragmented = r.fragmented /\ Counted(r).fragments = r.fragments
          /\ Counted(r).later = r.later /\ Counted(r).total = n
      BY <1>2, <2>1, TotalIs
    <2> QED BY <1>3, <2>2 DEF n
  <1>4. CASE ~(r.len > 0 /\ r.op \notin Control)
    <2>1. Counted(r) = r
      BY <1>4 DEF Counted
    <2>2. r.op \notin Control => r.total + r.len = r.total
      BY <1>1, <1>4
    <2> QED BY <2>1, <2>2 DEF SameFrame
  <1> QED BY <1>3, <1>4

LEMMA CollectedIs ==
    ASSUME NEW r \in RxRegisters, NEW n \in Nat
    PROVE  LET q == Collected(r, n)
           IN  /\ q \in RxRegisters /\ SameFrame(q, r) /\ q.total = r.total
               /\ q.fragmented = r.fragmented /\ q.later = r.later
               /\ n > 0 => q.message = n /\ q.fragments = Append(r.fragments, r.frame)
               /\ n = 0 => q = r
  <1> DEFINE more == Append(r.fragments, r.frame)
             q == [r EXCEPT !.message = n, !.fragments = more]
  <1>1. IsRegisters(r) /\ RegisterTypes(r)
    BY RegistersAre
  <1>2. more \in Seq(Nat)
    BY <1>1, AppendProperties DEF RegisterTypes
  <1>3. Collected(r, n) = IF n > 0 THEN q ELSE r
    BY DEF Collected
  <1> DEFINE p == [r EXCEPT !.message = n]
  <1>4a. p = [frame |-> r.frame, op |-> r.op, fin |-> r.fin, len |-> r.len, fragmented |-> r.fragmented,
              compressed |-> r.compressed, masked |-> r.masked, total |-> r.total,
              message |-> n, fragments |-> r.fragments, later |-> r.later]
    BY <1>1 DEF IsRegisters
  <1>4b. q = [p EXCEPT !.fragments = more]
    OBVIOUS
  <1> HIDE DEF more, p
  <1>4. q = [frame |-> r.frame, op |-> r.op, fin |-> r.fin, len |-> r.len, fragmented |-> r.fragmented,
             compressed |-> r.compressed, masked |-> r.masked, total |-> r.total,
             message |-> n, fragments |-> more, later |-> r.later]
    BY <1>4a, <1>4b
  <1> HIDE DEF q
  <1>5. /\ IsRegisters(q) /\ SameFrame(q, r) /\ q.total = r.total /\ q.message = n
        /\ q.fragmented = r.fragmented /\ q.fragments = more /\ q.later = r.later
    BY <1>4 DEF IsRegisters, SameFrame
  <1>6. RegisterTypes(q)
    BY <1>1, <1>2, <1>5 DEF RegisterTypes, SameFrame
  <1>7. q \in RxRegisters
    BY <1>5, <1>6, RegistersAre
  <1>8. CASE n > 0
    <2>1. Collected(r, n) = q /\ n # 0
      BY <1>3, <1>8
    <2> QED BY <1>5, <1>7, <2>1 DEF more
  <1>9. CASE n = 0
    BY <1>3, <1>9 DEF SameFrame
  <1> QED BY <1>8, <1>9

LEMMA ResetIs ==
    ASSUME NEW r \in RxRegisters
    PROVE  LET q == Reset(r)
           IN  /\ q \in RxRegisters /\ SameFrame(q, r) /\ q.total = 0 /\ q.message = 0
               /\ q.fragmented = "no" /\ q.fragments = << >> /\ q.later = r.later
  <1> DEFINE q == Reset(r)
  <1>1. IsRegisters(r) /\ RegisterTypes(r)
    BY RegistersAre
  <1> DEFINE a == [r EXCEPT !.total = 0]
             b == [a EXCEPT !.message = 0]
             c == [b EXCEPT !.fragmented = "no"]
  <1>2a. a = [frame |-> r.frame, op |-> r.op, fin |-> r.fin, len |-> r.len, fragmented |-> r.fragmented,
              compressed |-> r.compressed, masked |-> r.masked, total |-> 0,
              message |-> r.message, fragments |-> r.fragments, later |-> r.later]
    BY <1>1 DEF IsRegisters
  <1>2b. q = [c EXCEPT !.fragments = << >>]
    BY DEF Reset
  <1> HIDE DEF q, a
  <1>2c. b = [frame |-> r.frame, op |-> r.op, fin |-> r.fin, len |-> r.len, fragmented |-> r.fragmented,
              compressed |-> r.compressed, masked |-> r.masked, total |-> 0,
              message |-> 0, fragments |-> r.fragments, later |-> r.later]
    BY <1>2a
  <1> HIDE DEF b
  <1>2d. c = [frame |-> r.frame, op |-> r.op, fin |-> r.fin, len |-> r.len, fragmented |-> "no",
              compressed |-> r.compressed, masked |-> r.masked, total |-> 0,
              message |-> 0, fragments |-> r.fragments, later |-> r.later]
    BY <1>2c
  <1> HIDE DEF c
  <1>2. q = [frame |-> r.frame, op |-> r.op, fin |-> r.fin, len |-> r.len, fragmented |-> "no",
             compressed |-> r.compressed, masked |-> r.masked, total |-> 0,
             message |-> 0, fragments |-> << >>, later |-> r.later]
    BY <1>2b, <1>2d
  <1>3. /\ IsRegisters(q) /\ SameFrame(q, r) /\ q.total = 0 /\ q.message = 0
        /\ q.fragmented = "no" /\ q.fragments = << >> /\ q.later = r.later
    BY <1>2 DEF IsRegisters, SameFrame
  <1>4. RegisterTypes(q)
    BY <1>1, <1>3 DEF RegisterTypes, SameFrame
  <1>5. q \in RxRegisters
    BY <1>3, <1>4, RegistersAre
  <1> QED BY <1>3, <1>5 DEF q

WithLater(r, l) == [r EXCEPT !.later = l]
LEMMA LaterIs ==
    ASSUME NEW r \in RxRegisters, NEW l \in Seq(RxEvent)
    PROVE  LET q == WithLater(r, l)
           IN  /\ q \in RxRegisters /\ SameFrame(q, r) /\ q.total = r.total /\ q.message = r.message
               /\ q.fragmented = r.fragmented /\ q.fragments = r.fragments /\ q.later = l
               /\ Shown(q) = WithLater(r, << >>)
  <1> DEFINE q == WithLater(r, l)
  <1>1. IsRegisters(r) /\ RegisterTypes(r)
    BY RegistersAre
  <1>2. q = [frame |-> r.frame, op |-> r.op, fin |-> r.fin, len |-> r.len, fragmented |-> r.fragmented,
             compressed |-> r.compressed, masked |-> r.masked, total |-> r.total,
             message |-> r.message, fragments |-> r.fragments, later |-> l]
    BY <1>1 DEF IsRegisters, WithLater
  <1>3. WithLater(r, << >>) =
            [frame |-> r.frame, op |-> r.op, fin |-> r.fin, len |-> r.len, fragmented |-> r.fragmented,
             compressed |-> r.compressed, masked |-> r.masked, total |-> r.total,
             message |-> r.message, fragments |-> r.fragments, later |-> << >>]
    BY <1>1 DEF IsRegisters, WithLater
  <1> HIDE DEF q
  <1>4. /\ IsRegisters(q) /\ SameFrame(q, r) /\ q.total = r.total /\ q.message = r.message
        /\ q.fragmented = r.fragmented /\ q.fragments = r.fragments /\ q.later = l
    BY <1>2 DEF IsRegisters, SameFrame
  <1>5. RegisterTypes(q)
    BY <1>1, <1>4 DEF RegisterTypes, SameFrame
  <1>6. q \in RxRegisters
    BY <1>4, <1>5, RegistersAre
  <1>7. Shown(q) = WithLater(r, << >>)
    BY <1>2, <1>3 DEF Shown
  <1> QED BY <1>4, <1>6, <1>7 DEF q

\* The registers with the info of a frame.
LEMMA InfoIs ==
    ASSUME rx \in RxRegisters, NEW i \in Nat, NEW f \in RxFrame, Masked(i) \in BOOLEAN,
           OpcodeOf(f) \in Control \cup {"text", "binary"},
           OpcodeOf(f) \in {"text", "binary"} \/ f.fin
    PROVE  LET q == Info(i, f)
           IN  /\ q \in RxRegisters /\ q.frame = i /\ q.op = OpcodeOf(f) /\ q.fin = f.fin
               /\ q.len = f.len /\ q.masked = Masked(i)
               /\ q.fragmented = (IF ~f.fin /\ rx.fragmented = "no" THEN OpcodeOf(f) ELSE rx.fragmented)
               /\ q.compressed = (IF f.op \in {"text", "binary"} THEN f.rsv1 ELSE rx.compressed)
               /\ q.total = rx.total /\ q.message = rx.message /\ q.fragments = rx.fragments
               /\ q.later = rx.later
  <1> DEFINE op == OpcodeOf(f)
             m == Masked(i)
             c == IF f.op \in {"text", "binary"} THEN f.rsv1 ELSE rx.compressed
             g == IF ~f.fin /\ rx.fragmented = "no" THEN op ELSE rx.fragmented
             q == Info(i, f)
  <1>1. IsRegisters(rx) /\ RegisterTypes(rx)
    BY RegistersAre
  <1>2. f.fin \in BOOLEAN /\ f.len \in Nat /\ f.rsv1 \in BOOLEAN
    BY DEF RxFrame
  <1>3. c \in BOOLEAN
    BY <1>1, <1>2 DEF RegisterTypes
  <1>4. g \in {"no", "text", "binary"}
    BY <1>1, <1>2 DEF RegisterTypes
  <1>5. q = [rx EXCEPT !.frame = i, !.op = op, !.fin = f.fin, !.len = f.len, !.masked = m,
                !.fragmented = g, !.compressed = c]
    BY DEF Info
  <1> HIDE DEF op, c, g, q, m
  <1>6. q = [frame |-> i, op |-> op, fin |-> f.fin, len |-> f.len, fragmented |-> g,
             compressed |-> c, masked |-> m, total |-> rx.total,
             message |-> rx.message, fragments |-> rx.fragments, later |-> rx.later]
    BY <1>1, <1>5 DEF IsRegisters
  <1>7. /\ IsRegisters(q) /\ q.frame = i /\ q.op = op /\ q.fin = f.fin /\ q.len = f.len
        /\ q.fragmented = g /\ q.compressed = c /\ q.masked = m /\ q.total = rx.total
        /\ q.message = rx.message /\ q.fragments = rx.fragments /\ q.later = rx.later
    BY <1>6 DEF IsRegisters
  <1>8. op \in Control \cup {"none", "text", "binary"} /\ m \in BOOLEAN
    BY DEF op, m
  <1>9. RegisterTypes(q)
    BY <1>1, <1>2, <1>3, <1>4, <1>7, <1>8 DEF RegisterTypes
  <1>10. q \in RxRegisters
    BY <1>7, <1>9, RegistersAre
  <1> QED BY <1>7, <1>10 DEF op, c, g, q, m


-----------------------------------------------------------------------------
(* WsReceiver: what the receiver makes of a frame is what the frame means. *)

LEMMA FragmentedIs ==
    ASSUME NEW frames, NEW s, Sound(frames, s), ~s.over
    PROVE  /\ Fragmented(frames, s) = "no" <=> s.first = 0
           /\ s.first # 0 => Fragmented(frames, s) \in {"text", "binary"}
                             /\ Fragmented(frames, s) = frames[s.first].op
  BY DEF Fragmented, Sound

LEMMA BadInfoIs ==
    ASSUME rxFrames \in Seq(RxFrame), rxCfg \in RxOptions, NEW i \in 1 .. Len(rxFrames), NEW s,
           Sound(rxFrames, s), Agrees(rxFrames, s, rx, rxEvents)
    PROVE  /\ BadInfo(rxFrames[i], Masked(i)) <=> ~Legal(s, rxFrames[i], rxCfg)
           /\ Masked(i) \in BOOLEAN /\ Masked(i) = IsMasked(rxFrames[i], rxCfg)
  <1> DEFINE f == rxFrames[i]
  <1>1. /\ f.op \in Control \cup {"text", "binary", "continuation", "reserved"}
        /\ f.fin \in BOOLEAN /\ f.rsv1 \in BOOLEAN /\ f.rsv23 \in BOOLEAN /\ f.len \in Nat
        /\ f.mask \in {"right", "wrong"}
    BY FrameFields
  <1>2. rxCfg.server \in BOOLEAN /\ rxCfg.deflate \in BOOLEAN
    BY DEF RxOptions
  <1>3. Masked(i) \in BOOLEAN /\ Masked(i) = (rxCfg.server = (f.mask = "right"))
        /\ Masked(i) = IsMasked(rxFrames[i], rxCfg)
    BY DEF Masked, IsMasked
  <1>4. (rxCfg.server # Masked(i)) <=> f.mask # "right"
    <2>1. CASE rxCfg.server = TRUE
      BY <1>3, <2>1
    <2>2. CASE rxCfg.server = FALSE
      BY <1>3, <2>2
    <2> QED BY <1>2, <2>1, <2>2
  <1>5. rx.fragmented = "no" <=> s.first = 0
    BY FragmentedIs DEF Agrees
  <1> HIDE DEF f
  <1>6. BadInfo(f, Masked(i)) <=>
            \/ f.rsv23
            \/ f.rsv1 /\ (~rxCfg.deflate \/ f.op \notin {"text", "binary"})
            \/ f.op = "continuation" /\ s.first = 0
            \/ f.op \in {"text", "binary"} /\ s.first # 0
            \/ f.op \in Control /\ (~f.fin \/ f.len >= Long16)
            \/ f.op = "reserved"
            \/ f.mask # "right"
    BY <1>4, <1>5 DEF BadInfo
  <1>7. (f.len >= Long16) <=> ~(f.len < Long16)
    BY <1>1, ReceiverAssumption
  <1>8. BadInfo(f, Masked(i)) <=> ~Legal(s, f, rxCfg)
    <2>1. (f.op = "continuation" <=> (s.first # 0 /\ f.op \notin Control))
          <=> ~(\/ f.op = "continuation" /\ s.first = 0
                \/ f.op \in {"text", "binary"} /\ s.first # 0
                \/ f.op = "reserved" /\ s.first # 0)
      BY <1>1 DEF Control
    <2> QED BY <1>1, <1>6, <1>7, <2>1 DEF Legal
  <1> QED BY <1>3, <1>8 DEF f

\* What is known of a frame that may follow.
MayFollow(frames, cfg, s, i) ==
    /\ frames[i].op \in Control \cup {"text", "binary", "continuation"}
    /\ frames[i].op = "continuation" <=> (s.first # 0 /\ frames[i].op \notin Control)
    /\ OpOf(frames, s, i) \in Control \cup {"text", "binary"}
    /\ OpOf(frames, s, i) \in Control <=> frames[i].op \in Control
    /\ frames[i].op \in Control => OpOf(frames, s, i) = frames[i].op /\ frames[i].fin
                                   /\ frames[i].len < Long16
    /\ frames[i].op \notin Control => OpOf(frames, s, i) = frames[FirstOf(s, i)].op
LEMMA LegalOp ==
    ASSUME NEW frames \in Seq(RxFrame), NEW cfg, NEW i \in 1 .. Len(frames), NEW s, Sound(frames, s),
           ~s.over, Legal(s, frames[i], cfg)
    PROVE  MayFollow(frames, cfg, s, i)
  <1>1. frames[i].op \in Control \cup {"text", "binary", "continuation"}
    BY FrameFields DEF Legal
  <1>2. frames[i].op = "continuation" <=> (s.first # 0 /\ frames[i].op \notin Control)
    BY DEF Legal
  <1>3. s.first # 0 => frames[s.first].op \in {"text", "binary"}
    BY DEF Sound
  <1>4. frames[i].op \in Control => frames[i].op # "continuation" /\ frames[i].fin /\ frames[i].len < Long16
    BY DEF Legal, Control
  <1>5. CASE frames[i].op = "continuation"
    <2>1. OpOf(frames, s, i) = frames[s.first].op /\ s.first # 0 /\ frames[i].op \notin Control
      BY <1>2, <1>5 DEF OpOf
    <2>2. OpOf(frames, s, i) \in {"text", "binary"} /\ FirstOf(s, i) = s.first
      BY <1>3, <2>1 DEF FirstOf
    <2>3. OpOf(frames, s, i) \notin Control
      BY <2>2 DEF Control
    <2> QED BY <1>1, <1>2, <2>1, <2>2, <2>3 DEF MayFollow
  <1>6. CASE frames[i].op # "continuation"
    <2>1. OpOf(frames, s, i) = frames[i].op
      BY <1>6 DEF OpOf
    <2>2. frames[i].op \notin Control => FirstOf(s, i) = i
      BY <1>2, <1>6 DEF FirstOf
    <2> QED BY <1>1, <1>2, <1>4, <1>6, <2>1, <2>2 DEF MayFollow
  <1> QED BY <1>5, <1>6

\* A frame that may follow is under way once its info is read.
LEMMA InfoUnderway ==
    ASSUME rxFrames \in Seq(RxFrame), rxCfg \in RxOptions, NEW i \in 1 .. Len(rxFrames), NEW s,
           Sound(rxFrames, s), rx \in RxRegisters, Agrees(rxFrames, s, rx, rxEvents),
           Legal(s, rxFrames[i], rxCfg)
    PROVE  /\ Info(i, rxFrames[i]) \in RxRegisters
           /\ Underway(rxFrames, rxCfg, s, i, Info(i, rxFrames[i]), rxEvents, FALSE)
  <1> DEFINE f == rxFrames[i]
             q == Info(i, f)
  <1>1. f \in RxFrame /\ i \in Nat /\ f.op \in Control \cup {"text", "binary", "continuation", "reserved"}
        /\ f.fin \in BOOLEAN
    BY FrameFields
  <1>2. Masked(i) \in BOOLEAN /\ Masked(i) = IsMasked(f, rxCfg)
    BY BadInfoIs
  <1>3. ~s.over /\ s.events = rxEvents /\ rx.fragmented = Fragmented(rxFrames, s)
        /\ (s.first # 0 => rx.compressed = rxFrames[s.first].rsv1)
        /\ rx.total = s.read /\ rx.message = s.size /\ rx.fragments = s.filled /\ rx.later = << >>
    BY DEF Agrees
  <1>4. /\ f.op \in Control \cup {"text", "binary", "continuation"}
        /\ f.op = "continuation" <=> (s.first # 0 /\ f.op \notin Control)
        /\ OpOf(rxFrames, s, i) \in Control \cup {"text", "binary"}
        /\ OpOf(rxFrames, s, i) \in Control => f.fin
    <2>1. MayFollow(rxFrames, rxCfg, s, i)
      BY <1>3, LegalOp
    <2> QED BY <2>1 DEF MayFollow
  <1>5. s.first # 0 => Fragmented(rxFrames, s) = rxFrames[s.first].op
    BY DEF Fragmented
  <1>6. Fragmented(rxFrames, s) = "no" <=> s.first = 0
    BY <1>3, FragmentedIs
  <1>7. OpcodeOf(f) = OpOf(rxFrames, s, i)
    BY <1>3, <1>4, <1>5 DEF OpcodeOf, OpOf
  <1>8. /\ q \in RxRegisters /\ q.frame = i /\ q.op = OpcodeOf(f) /\ q.fin = f.fin
        /\ q.len = f.len /\ q.masked = Masked(i)
        /\ q.fragmented = (IF ~f.fin /\ rx.fragmented = "no" THEN OpcodeOf(f) ELSE rx.fragmented)
        /\ q.compressed = (IF f.op \in {"text", "binary"} THEN f.rsv1 ELSE rx.compressed)
        /\ q.total = rx.total /\ q.message = rx.message /\ q.fragments = rx.fragments
        /\ q.later = rx.later
    <2>1. OpcodeOf(f) \in Control \cup {"text", "binary"}
      BY <1>4, <1>7
    <2>2. OpcodeOf(f) \in {"text", "binary"} \/ f.fin
      BY <1>4, <1>7
    <2> HIDE DEF f
    <2> QED BY <1>1, <1>2, <2>1, <2>2, InfoIs
  <1> HIDE DEF q
  <1>9. q.fragmented = (IF s.first = 0 /\ ~f.fin THEN f.op ELSE Fragmented(rxFrames, s))
    <2>1. CASE s.first = 0 /\ ~f.fin
      <3>1. f.op # "continuation"
        BY <1>4, <2>1
      <3>2. OpcodeOf(f) = f.op /\ rx.fragmented = "no"
        BY <1>3, <1>6, <2>1, <3>1 DEF OpcodeOf
      <3> QED BY <1>8, <2>1, <3>2
    <2>2. CASE ~(s.first = 0 /\ ~f.fin)
      <3>1. ~(~f.fin /\ rx.fragmented = "no")
        BY <1>3, <1>6, <2>2
      <3>2. q.fragmented = rx.fragmented
        BY <1>8, <3>1
      <3> QED BY <1>3, <2>2, <3>2
    <2> QED BY <2>1, <2>2
  <1>10. (f.op \notin Control \/ s.first # 0) => q.compressed = rxFrames[FirstOf(s, i)].rsv1
    <2>1. CASE f.op \in {"text", "binary"}
      <3>1. f.op # "continuation" /\ f.op \notin Control
        BY <2>1 DEF Control
      <3>2. FirstOf(s, i) = i
        BY <1>4, <3>1 DEF FirstOf
      <3> QED BY <1>8, <2>1, <3>2
    <2>2. CASE f.op \notin {"text", "binary"}
      <3>1. q.compressed = rx.compressed
        BY <1>8, <2>2
      <3>2. (f.op \notin Control \/ s.first # 0) => s.first # 0
        BY <1>4, <2>2
      <3>3. s.first # 0 => FirstOf(s, i) = s.first
        BY DEF FirstOf
      <3> QED BY <1>3, <3>1, <3>2, <3>3
    <2> QED BY <2>1, <2>2
  <1>11. s.read + 0 = s.read
    BY DEF Sound, RxMeaning
  <1>12. Underway(rxFrames, rxCfg, s, i, q, rxEvents, FALSE)
    BY <1>2, <1>3, <1>7, <1>8, <1>9, <1>10, <1>11 DEF Underway
  <1> QED BY <1>8, <1>12 DEF q, f


\* The fields of a frame that is under way.
FrameKnown(frames, cfg, s, i, r, events) ==
    /\ ~s.over /\ s.events = events /\ Legal(s, frames[i], cfg)
    /\ r.frame = i /\ r.fin = frames[i].fin /\ r.len = frames[i].len
    /\ r.op \in Control <=> frames[i].op \in Control
    /\ r.op \in Control => r.op = frames[i].op /\ r.fin /\ r.len < Long16
    /\ r.op \in Control \cup {"text", "binary"}
    /\ r.op \notin Control => r.op = frames[FirstOf(s, i)].op
    /\ frames[i].op = "continuation" <=> (s.first # 0 /\ frames[i].op \notin Control)
    /\ s.read \in Nat /\ s.size \in Nat
LEMMA UnderwayIs ==
    ASSUME NEW frames \in Seq(RxFrame), NEW cfg, NEW i \in 1 .. Len(frames), NEW s, Sound(frames, s),
           NEW r, NEW events, NEW counted, Underway(frames, cfg, s, i, r, events, counted)
    PROVE  FrameKnown(frames, cfg, s, i, r, events)
  <1>1. ~s.over /\ s.events = events /\ Legal(s, frames[i], cfg) /\ r.frame = i
        /\ r.op = OpOf(frames, s, i) /\ r.fin = frames[i].fin /\ r.len = frames[i].len
    BY DEF Underway
  <1>2. s.read \in Nat /\ s.size \in Nat
    BY DEF Sound, RxMeaning
  <1>3. MayFollow(frames, cfg, s, i)
    BY <1>1, LegalOp
  <1> QED BY <1>1, <1>2, <1>3 DEF MayFollow, FrameKnown

\* A length that fits counts, and one that does not is an error.
LEMMA LengthFits ==
    ASSUME NEW frames \in Seq(RxFrame), NEW cfg, NEW i \in 1 .. Len(frames), NEW s, Sound(frames, s),
           NEW r \in RxRegisters, NEW events, Underway(frames, cfg, s, i, r, events, FALSE),
           ~TooLong(r), frames[i].op \notin Control => frames[i].len < Unsafe
    PROVE  Underway(frames, cfg, s, i, Counted(r), events, TRUE)
  <1> DEFINE q == Counted(r)
             data == frames[i].op \notin Control
  <1>1. /\ SameFrame(q, r) /\ q.message = r.message
        /\ q.fragmented = r.fragmented /\ q.fragments = r.fragments /\ q.later = r.later
        /\ q.total = IF r.op \in Control THEN r.total ELSE r.total + r.len
    BY CountedIs
  <1>2. ~s.over /\ (r.op \in Control <=> frames[i].op \in Control) /\ r.len = frames[i].len
        /\ s.read \in Nat
    <2>1. FrameKnown(frames, cfg, s, i, r, events)
      BY UnderwayIs
    <2> QED BY <2>1 DEF FrameKnown
  <1>3. r.total = s.read
    BY <1>2 DEF Underway
  <1>4. q.total = s.read + (IF data THEN frames[i].len ELSE 0)
    <2>1. CASE data
      BY <1>1, <1>2, <1>3, <2>1
    <2>2. CASE ~data
      BY <1>1, <1>2, <1>3, <2>2
    <2> QED BY <2>1, <2>2
  <1>5. frames[i].len \in Nat
    BY FrameFields
  <1>6. data /\ MaxPayload > 0 => q.total <= MaxPayload
    <2>1. SUFFICES ASSUME data, MaxPayload > 0 PROVE q.total <= MaxPayload
      OBVIOUS
    <2>2. CASE r.len > 0
      <3>1. ~(Counted(r).total > MaxPayload)
        BY <1>2, <2>1, <2>2 DEF TooLong
      <3> QED BY <1>2, <1>4, <1>5, <2>1, <3>1, ReceiverAssumption
    <2>3. CASE ~(r.len > 0)
      <3>1. q.total = s.read
        BY <1>2, <1>4, <1>5, <2>1, <2>3
      <3>2. s.read <= MaxPayload
        BY <1>2, <2>1 DEF Sound
      <3> QED BY <3>1, <3>2
    <2> QED BY <2>2, <2>3
  <1> HIDE DEF q
  <1> QED BY <1>1, <1>4, <1>6 DEF Underway, SameFrame, q

Unfit(frames, r, i) == TooLong(r) \/ (r.len >= Unsafe /\ frames[i].op \notin Control)
Rejected(frames, cfg, s, i, r, events) == Means(s, frames, cfg, i) = Stops(s, Mistake(1009))
LEMMA LengthTooLong ==
    ASSUME NEW frames \in Seq(RxFrame), NEW cfg, NEW i \in 1 .. Len(frames), NEW s, Sound(frames, s),
           NEW r \in RxRegisters, NEW events, Underway(frames, cfg, s, i, r, events, FALSE),
           Unfit(frames, r, i)
    PROVE  Rejected(frames, cfg, s, i, r, events)
  <1> DEFINE t == WithPart(s, frames, i)
  <1>1. ~s.over /\ (r.op \in Control <=> frames[i].op \in Control) /\ r.len = frames[i].len
        /\ Legal(s, frames[i], cfg) /\ s.read \in Nat
    <2>1. FrameKnown(frames, cfg, s, i, r, events)
      BY UnderwayIs
    <2> QED BY <2>1 DEF FrameKnown
  <1>2. frames[i].op \notin Control
    BY <1>1 DEF Unfit, TooLong
  <1>3. Means(s, frames, cfg, i) = MeansData(s, frames, i)
    BY <1>1, <1>2 DEF Means
  <1>4. t.read = s.read + frames[i].len
    BY WithPartIs DEF Sound
  <1>5. r.total = s.read
    BY <1>1 DEF Underway
  <1>6. TooMuch(t, frames[i])
    <2>1. CASE TooLong(r)
      <3>1. Counted(r).total = r.total + r.len /\ MaxPayload > 0 /\ Counted(r).total > MaxPayload
        BY <1>1, <1>2, <2>1, CountedIs DEF TooLong
      <3>2. t.read > MaxPayload
        BY <1>1, <1>4, <1>5, <3>1
      <3> QED BY <3>1, <3>2 DEF TooMuch
    <2>2. CASE r.len >= Unsafe
      BY <1>1, <2>2 DEF TooMuch
    <2> QED BY <2>1, <2>2 DEF Unfit
  <1> HIDE DEF t
  <1>7. Goes(MeansData(s, frames, i), s, t, frames, i)
    BY MeansDataGoes DEF t
  <1> QED BY <1>3, <1>6, <1>7 DEF Goes, Rejected

\* A control frame says itself, and leaves the message that is under way alone.
SaysItself(frames, cfg, s, i, r, events) ==
    LET m == Means(s, frames, cfg, i)
        e == [kind |-> r.op, frame |-> i]
    IN  /\ r.op = "close" /\ ~frames[i].good => m = Stops(s, Mistake(1002))
        /\ r.op = "close" /\ frames[i].good => m = Stops(s, [kind |-> "conclude", frame |-> i])
        /\ r.op # "close" => m = Says(s, e) /\ Agrees(frames, m, r, Append(events, e))
LEMMA ControlMeans ==
    ASSUME NEW frames \in Seq(RxFrame), NEW cfg, NEW i \in 1 .. Len(frames), NEW s, Sound(frames, s),
           NEW r, NEW events, Underway(frames, cfg, s, i, r, events, TRUE), r.op \in Control
    PROVE  SaysItself(frames, cfg, s, i, r, events)
  <1> DEFINE m == Means(s, frames, cfg, i)
             e == [kind |-> r.op, frame |-> i]
  <1>1. ~s.over /\ s.events = events /\ Legal(s, frames[i], cfg) /\ frames[i].op \in Control
        /\ r.op = frames[i].op /\ r.fin /\ r.fin = frames[i].fin /\ s.read \in Nat
    <2>1. FrameKnown(frames, cfg, s, i, r, events)
      BY UnderwayIs
    <2> QED BY <2>1 DEF FrameKnown
  <1>2. r.op = "close" /\ ~frames[i].good => m = Stops(s, Mistake(1002))
    BY <1>1 DEF Means
  <1>3. r.op = "close" /\ frames[i].good => m = Stops(s, [kind |-> "conclude", frame |-> i])
    BY <1>1 DEF Means
  <1>4. r.op # "close" => m = Says(s, e)
    BY <1>1 DEF Means
  <1>5. /\ Says(s, e).events = Append(s.events, e) /\ Says(s, e).first = s.first
        /\ Says(s, e).read = s.read /\ Says(s, e).size = s.size /\ Says(s, e).filled = s.filled
        /\ Says(s, e).over = s.over
    <2>1. r.op \in Opcodes /\ i \in Nat /\ Len(frames) \in Nat
      BY DEF Opcodes
    <2>2. e \in RxEvent
      BY <2>1, EventsAre
    <2> HIDE DEF e
    <2> QED BY <2>1, <2>2, SaysIs DEF Sound
  <1> HIDE DEF e
  <1>6. Agrees(frames, Says(s, e), r, Append(events, e))
    <2>1. r.fragmented = Fragmented(frames, s) /\ r.total = s.read + 0
      BY <1>1 DEF Underway
    <2>2. Fragmented(frames, Says(s, e)) = Fragmented(frames, s)
      BY <1>5 DEF Fragmented
    <2>3. s.first # 0 => r.compressed = frames[s.first].rsv1
      BY DEF Underway, FirstOf
    <2>4. r.message = s.size /\ r.fragments = s.filled /\ r.later = << >>
      BY DEF Underway
    <2> QED BY <1>1, <1>5, <2>1, <2>2, <2>3, <2>4 DEF Agrees
  <1> QED BY <1>2, <1>3, <1>4, <1>6 DEF e, SaysItself


\* The registers q hold what a message has come to with a frame of data.
Gathered(t, q, r) ==
    q.total = t.read /\ q.message = t.size /\ q.fragments = t.filled
        /\ SameFrame(q, r) /\ q.fragmented = r.fragmented /\ q.later = << >> /\ q \in RxRegisters

LEMMA GatheredFrom ==
    ASSUME NEW frames \in Seq(RxFrame), NEW cfg, NEW i \in 1 .. Len(frames), NEW s, Sound(frames, s),
           NEW r \in RxRegisters, NEW events, Underway(frames, cfg, s, i, r, events, TRUE),
           r.op \notin Control, NEW n \in Nat, NEW size \in Nat,
           n = Length(frames, FirstOf(s, i), i), size = s.size + n
    PROVE  Gathered(WithPart(s, frames, i), IF n > 0 THEN Collected(r, size) ELSE r, r)
  <1> DEFINE t == WithPart(s, frames, i)
             q == IF n > 0 THEN Collected(r, size) ELSE r
  <1>1. FrameKnown(frames, cfg, s, i, r, events)
    BY UnderwayIs
  <1>2. frames[i].op \notin Control /\ r.frame = i /\ s.size \in Nat /\ s.read \in Nat
    BY <1>1 DEF FrameKnown
  <1>3. t.read = s.read + frames[i].len /\ t.size = s.size + n
        /\ t.filled = IF n > 0 THEN Append(s.filled, i) ELSE s.filled
    BY WithPartIs DEF Sound
  <1>4. r.total = s.read + frames[i].len /\ r.message = s.size /\ r.fragments = s.filled /\ r.later = << >>
    BY <1>2 DEF Underway
  <1> HIDE DEF t
  <1>5. CASE n > 0
    <2> DEFINE c == Collected(r, size)
    <2>1. size > 0
      BY <1>2, <1>5
    <2>2. /\ c \in RxRegisters /\ SameFrame(c, r) /\ c.total = r.total
          /\ c.fragmented = r.fragmented /\ c.later = r.later
          /\ c.message = size /\ c.fragments = Append(r.fragments, r.frame)
      BY <2>1, CollectedIs
    <2>3. q = c
      BY <1>5
    <2> HIDE DEF c, q
    <2>4. Gathered(t, q, r)
      BY <1>2, <1>3, <1>4, <1>5, <2>2, <2>3 DEF Gathered
    <2> QED BY <2>4 DEF t, q
  <1>6. CASE ~(n > 0)
    <2>1. n = 0 /\ q = r
      BY <1>6
    <2> HIDE DEF q
    <2>2. t.size = s.size /\ t.filled = s.filled
      BY <1>2, <1>3, <1>6, <2>1
    <2>3. Gathered(t, q, r)
      BY <1>3, <1>4, <2>1, <2>2 DEF Gathered, SameFrame
    <2> QED BY <2>3 DEF t, q
  <1> QED BY <1>5, <1>6

\* What is compressed takes what it inflates to, and what is not its length, which
\* is counted already.
LengthKnown(frames, s, i, r) ==
    LET n == Length(frames, FirstOf(s, i), i)
        t == WithPart(s, frames, i)
    IN  /\ s.size \in Nat /\ n \in Nat /\ r.message = s.size /\ t.size = s.size + n
        /\ r.compressed => n = frames[i].out
        /\ ~r.compressed => n = frames[i].len /\ r.total = t.size
        /\ ~r.compressed => ~TooMuch(t, frames[i])
        /\ r.compressed => (TooMuch(t, frames[i]) <=> MaxPayload > 0 /\ t.size > MaxPayload)
        /\ n = 0 => ~TooMuch(t, frames[i])
LEMMA LengthIs ==
    ASSUME NEW frames \in Seq(RxFrame), NEW cfg, NEW i \in 1 .. Len(frames), NEW s, Sound(frames, s),
           NEW r, NEW events, Underway(frames, cfg, s, i, r, events, TRUE), r.op \notin Control
    PROVE  LengthKnown(frames, s, i, r)
  <1> DEFINE n == Length(frames, FirstOf(s, i), i)
             t == WithPart(s, frames, i)
             f == frames[i]
  <1>1. FrameKnown(frames, cfg, s, i, r, events)
    BY UnderwayIs
  <1>2. f.op \notin Control /\ s.size \in Nat /\ s.read \in Nat /\ ~s.over
    BY <1>1 DEF FrameKnown
  <1>3. t.read = s.read + f.len /\ t.size = s.size + n /\ n \in Nat
    BY WithPartIs DEF Sound
  <1>4. /\ r.total = s.read + f.len /\ r.message = s.size /\ f.len < Unsafe
        /\ MaxPayload > 0 => r.total <= MaxPayload
        /\ r.compressed = frames[FirstOf(s, i)].rsv1
    BY <1>2 DEF Underway
  <1>5. r.compressed => n = f.out
    BY <1>4 DEF Length
  <1>6. ~r.compressed => n = f.len
    BY <1>4 DEF Length
  <1>7. MaxPayload > 0 => s.size <= MaxPayload
    BY <1>2 DEF Sound
  <1>8. ASSUME ~r.compressed PROVE s.size = s.read
    <2>1. CASE s.first = 0
      BY <1>2, <2>1 DEF Sound
    <2>2. CASE s.first # 0
      <3>1. ~frames[s.first].rsv1
        BY <1>4, <1>8, <2>2 DEF FirstOf
      <3> QED BY <1>2, <2>2, <3>1 DEF Sound
    <2> QED BY <2>1, <2>2
  <1>9. f.len \in Nat
    BY FrameFields
  <1> HIDE DEF n, t, f
  <1>10. TooMuch(t, f) <=> MaxPayload > 0 /\ t.size > MaxPayload
    BY <1>2, <1>3, <1>4, <1>9, ReceiverAssumption DEF TooMuch
  <1>11. ~r.compressed => r.total = t.size
    BY <1>2, <1>3, <1>4, <1>6, <1>8
  <1>12. ~r.compressed => ~TooMuch(t, f)
    BY <1>2, <1>3, <1>4, <1>10, <1>11, ReceiverAssumption
  <1>13. n = 0 => ~TooMuch(t, f)
    BY <1>2, <1>3, <1>7, <1>10, ReceiverAssumption
  <1> QED BY <1>2, <1>3, <1>4, <1>5, <1>6, <1>10, <1>11, <1>12, <1>13 DEF n, t, f, LengthKnown

\* A frame of data that does not complete its message.
LEMMA PartMeans ==
    ASSUME NEW frames \in Seq(RxFrame), NEW cfg, NEW i \in 1 .. Len(frames), NEW s, Sound(frames, s),
           NEW r \in RxRegisters, NEW events, Underway(frames, cfg, s, i, r, events, TRUE),
           r.op \notin Control, NEW q, Gathered(WithPart(s, frames, i), q, r),
           ~TooMuch(WithPart(s, frames, i), frames[i]), ~r.fin
    PROVE  Agrees(frames, Means(s, frames, cfg, i), q, events)
  <1> DEFINE t == WithPart(s, frames, i)
             m == Means(s, frames, cfg, i)
  <1>1. FrameKnown(frames, cfg, s, i, r, events)
    BY UnderwayIs
  <1>2. ~s.over /\ s.events = events /\ Legal(s, frames[i], cfg) /\ frames[i].op \notin Control
        /\ ~frames[i].fin /\ (frames[i].op = "continuation" <=> s.first # 0)
    BY <1>1 DEF FrameKnown
  <1>3. m = MeansData(s, frames, i)
    BY <1>2 DEF Means
  <1>4. t.events = s.events /\ t.first = FirstOf(s, i) /\ t.over = s.over
        /\ FirstOf(s, i) \in 1 .. Len(frames)
    BY WithPartIs DEF Sound
  <1> HIDE DEF t, m
  <1>5. Goes(m, s, t, frames, i)
    BY <1>3, MeansDataGoes DEF t
  <1>6. m = t
    BY <1>2, <1>5 DEF Goes, t
  <1>7. t.first # 0 /\ Fragmented(frames, t) = frames[FirstOf(s, i)].op
    BY <1>4 DEF Fragmented
  <1>8. r.fragmented = frames[FirstOf(s, i)].op
    <2>1. CASE s.first = 0
      BY <1>2, <2>1 DEF Underway, FirstOf
    <2>2. CASE s.first # 0
      BY <1>2, <2>2 DEF Underway, FirstOf, Fragmented
    <2> QED BY <2>1, <2>2
  <1>9. r.compressed = frames[t.first].rsv1
    BY <1>2, <1>4 DEF Underway
  <1>10. Agrees(frames, t, q, events)
    BY <1>2, <1>4, <1>7, <1>8, <1>9 DEF Agrees, Gathered, SameFrame, t
  <1> QED BY <1>6, <1>10 DEF m

\* One that does.
BadParts(frames, q) == q.op = "text" /\ \E j \in ToSet(q.fragments) : ~frames[j].good
EndsIt(frames, cfg, s, i, r, q, events) ==
    LET m == Means(s, frames, cfg, i)
    IN  /\ BadParts(frames, q) => m = Stops(s, Mistake(1007))
        /\ ~BadParts(frames, q)
               => Agrees(frames, m, Reset(q), Append(events, Told(q.op, q.fragments)))
        /\ Told(q.op, q.fragments) \in RxEvent
LEMMA LastPartMeans ==
    ASSUME NEW frames \in Seq(RxFrame), NEW cfg, NEW i \in 1 .. Len(frames), NEW s, Sound(frames, s),
           NEW r \in RxRegisters, NEW events, Underway(frames, cfg, s, i, r, events, TRUE),
           r.op \notin Control, NEW q, Gathered(WithPart(s, frames, i), q, r),
           ~TooMuch(WithPart(s, frames, i), frames[i]), r.fin
    PROVE  EndsIt(frames, cfg, s, i, r, q, events)
  <1> DEFINE t == WithPart(s, frames, i)
             m == Means(s, frames, cfg, i)
             bad == BadParts(frames, q)
             e == Told(q.op, q.fragments)
  <1>1. FrameKnown(frames, cfg, s, i, r, events)
    BY UnderwayIs
  <1>2. ~s.over /\ s.events = events /\ Legal(s, frames[i], cfg) /\ frames[i].op \notin Control
        /\ frames[i].fin /\ r.op = frames[FirstOf(s, i)].op /\ r.op \in {"text", "binary"}
    BY <1>1 DEF FrameKnown
  <1>3. m = MeansData(s, frames, i)
    BY <1>2 DEF Means
  <1>4. t \in RxMeaning(Len(frames)) /\ t.first = FirstOf(s, i)
    BY WithPartIs DEF Sound
  <1>5. q.op = frames[t.first].op /\ q.fragments = t.filled /\ q.op \in Opcodes
    BY <1>2, <1>4 DEF Gathered, SameFrame, Opcodes
  <1> HIDE DEF t, m
  <1>6. Goes(m, s, t, frames, i)
    BY <1>3, MeansDataGoes DEF t
  <1>7. BadText(frames, t) <=> bad
    BY <1>5 DEF BadText, BadParts
  <1>8. bad => m = Stops(s, Mistake(1007))
    BY <1>2, <1>6, <1>7 DEF Goes, t
  <1>9. ~bad => m = Complete(s, q.op, q.fragments)
    BY <1>2, <1>5, <1>6, <1>7 DEF Goes, t
  <1> DEFINE c == Complete(s, q.op, q.fragments)
             z == Reset(q)
  <1>10. /\ e \in RxEvent /\ c.events = Append(s.events, e) /\ c.first = 0
         /\ c.read = 0 /\ c.size = 0 /\ c.filled = << >> /\ c.over = FALSE
    <2>1. Len(frames) \in Nat /\ s \in RxMeaning(Len(frames))
      BY DEF Sound
    <2>2. q.fragments \in Seq(1 .. Len(frames))
      BY <1>4, <1>5 DEF RxMeaning
    <2> DEFINE N == Len(frames)  op == q.op  parts == q.fragments
    <2> HIDE DEF N, op, parts
    <2>3. N \in Nat /\ s \in RxMeaning(N) /\ op \in Opcodes /\ parts \in Seq(1 .. N)
      BY <1>5, <2>1, <2>2 DEF N, op, parts
    <2>4. LET d == Complete(s, op, parts)
              g == Told(op, parts)
          IN  /\ d \in RxMeaning(N) /\ g \in RxEvent /\ d.events = Append(s.events, g) /\ d.first = 0
              /\ d.read = 0 /\ d.size = 0 /\ d.filled = << >> /\ d.over = FALSE
      BY <2>3, CompleteIs
    <2> QED BY <2>4 DEF op, parts
  <1>11. z.total = 0 /\ z.message = 0 /\ z.fragmented = "no" /\ z.fragments = << >> /\ z.later = << >>
    BY ResetIs DEF Gathered
  <1> HIDE DEF c, z, e
  <1>12. Agrees(frames, c, z, Append(events, e))
    BY <1>2, <1>10, <1>11 DEF Agrees, Fragmented
  <1>13. ~bad => Agrees(frames, m, z, Append(events, e))
    BY <1>9, <1>12 DEF c
  <1> QED BY <1>8, <1>10, <1>13 DEF m, z, e, EndsIt


-----------------------------------------------------------------------------
(* WsReceiver: what a step must leave behind it.                           *)

LEMMA Inputs ==
    ASSUME RxTyped
    PROVE  /\ rxFrames \in Seq(RxFrame) /\ rxCfg \in RxOptions /\ Whole \in Seq(RxUnit)
           /\ \A k \in 0 .. Len(rxFrames) : Sound(rxFrames, Meant(rxFrames, rxCfg)[k])
  <1>1. rxFrames \in Seq(RxFrame) /\ rxCfg \in RxOptions
    BY ReceiverAssumption DEF RxTyped, RxOptions
  <1>2. Len(rxFrames) \in 0 .. Len(rxFrames)
    BY <1>1
  <1>3. Whole \in Seq(RxUnit)
    BY <1>1, <1>2, WireIs DEF Whole
  <1> QED BY <1>1, <1>3, MeantIs

\* What agrees with what frames mean is within the limit.
LEMMA AgreesKept ==
    ASSUME NEW frames, NEW s, Sound(frames, s), NEW r, NEW events, Agrees(frames, s, r, events),
           MaxPayload > 0
    PROVE  r.message <= MaxPayload /\ r.total <= MaxPayload
  BY DEF Agrees, Sound

LEMMA UnderwayKept ==
    ASSUME NEW frames \in Seq(RxFrame), NEW cfg, NEW i \in 1 .. Len(frames), NEW s, Sound(frames, s),
           NEW r, NEW events,
           \/ Underway(frames, cfg, s, i, r, events, TRUE)
           \/ Underway(frames, cfg, s, i, r, events, FALSE),
           MaxPayload > 0
    PROVE  r.message <= MaxPayload /\ r.total <= MaxPayload
  <1>1. ~s.over /\ s.read \in Nat /\ frames[i].len \in Nat
    BY FrameFields DEF Underway, Sound, RxMeaning
  <1>2. s.read <= MaxPayload /\ s.size <= MaxPayload
    BY <1>1 DEF Sound
  <1>3. r.message = s.size
    BY DEF Underway
  <1>4. CASE Underway(frames, cfg, s, i, r, events, TRUE) /\ frames[i].op \notin Control
    BY <1>2, <1>3, <1>4 DEF Underway
  <1>5. CASE Underway(frames, cfg, s, i, r, events, FALSE) \/ frames[i].op \in Control
    <2>1. r.total = s.read + 0
      BY <1>5 DEF Underway
    <2>2. r.total = s.read
      BY <1>1, <2>1
    <2> QED BY <1>2, <1>3, <2>2
  <1> QED BY <1>4, <1>5

\* What fits is within the limit and has said nothing that is not meant.
LEMMA FitGives ==
    ASSUME NEW frames \in Seq(RxFrame), NEW cfg, NEW state, NEW r \in RxRegisters,
           NEW events \in Seq(RxEvent), NEW p, Fit(frames, cfg, state, r, events, p)
    PROVE  /\ MaxPayload > 0 => r.message <= MaxPayload /\ r.total <= MaxPayload
           /\ StartsWith(Meaning(frames, cfg), events)
  <1> DEFINE M == Meant(frames, cfg)
  <1>1. \A k \in 0 .. Len(frames) :
            /\ Sound(frames, M[k]) /\ StartsWith(Meaning(frames, cfg), M[k].events)
            /\ Meaning(frames, cfg) \in Seq(RxEvent)
    BY MeantIs, MeantGrows
  <1>2. CASE Between(frames, cfg, r, events, p)
    <2>1. PICK k \in 0 .. Len(frames) : Agrees(frames, M[k], r, events)
      BY <1>2 DEF Between
    <2>2. M[k].events = events
      BY <2>1 DEF Agrees
    <2> QED BY <1>1, <2>1, <2>2, AgreesKept
  <1>3. CASE /\ r.later # << >> /\ Between(frames, cfg, Shown(r), Append(events, r.later[1]), p)
    <2> DEFINE e == r.later[1]
    <2>1. PICK k \in 0 .. Len(frames) : Agrees(frames, M[k], Shown(r), Append(events, e))
      BY <1>3 DEF Between
    <2>2. M[k].events = Append(events, e)
      BY <2>1 DEF Agrees
    <2>3. Shown(r).message = r.message /\ Shown(r).total = r.total
      <3>1. Shown(r) = WithLater(r, << >>) /\ << >> \in Seq(RxEvent)
        BY DEF Shown, WithLater
      <3>2. WithLater(r, << >>).message = r.message /\ WithLater(r, << >>).total = r.total
        BY <3>1, LaterIs
      <3> QED BY <3>1, <3>2
    <2>4. r.later \in Seq(RxEvent)
      BY RegistersAre DEF RegisterTypes
    <2>5. e \in RxEvent
      BY <1>3, <2>4
    <2> HIDE DEF e, M
    <2>6. StartsWith(Meaning(frames, cfg), Append(events, e)) /\ Meaning(frames, cfg) \in Seq(RxEvent)
      BY <1>1, <2>2
    <2>7. StartsWith(Meaning(frames, cfg), events)
      <3> DEFINE more == Append(events, e)
      <3>1. Len(more) = Len(events) + 1 /\ \A j \in 1 .. Len(events) : more[j] = events[j]
        BY <2>5, AppendProperties
      <3>2. StartsWith(Meaning(frames, cfg), more) /\ Len(events) \in Nat
        BY <2>6
      <3> HIDE DEF more
      <3>3. Len(events) <= Len(Meaning(frames, cfg))
        BY <2>6, <3>1, <3>2 DEF StartsWith
      <3>4. ASSUME NEW j \in 1 .. Len(events) PROVE Meaning(frames, cfg)[j] = events[j]
        <4>1. j \in 1 .. Len(more)
          BY <3>1, <3>2
        <4> QED BY <3>1, <3>2, <4>1 DEF StartsWith
      <3> QED BY <3>3, <3>4 DEF StartsWith
    <2>8. MaxPayload > 0 => Shown(r).message <= MaxPayload /\ Shown(r).total <= MaxPayload
      BY <1>1, <2>1, AgreesKept
    <2> QED BY <2>3, <2>7, <2>8
  <1>4. ASSUME NEW i \in 1 .. Len(frames), InFrame(frames, cfg, state, i, r, events, p)
        PROVE  /\ MaxPayload > 0 => r.message <= MaxPayload /\ r.total <= MaxPayload
               /\ StartsWith(Meaning(frames, cfg), events)
    <2>1. i - 1 \in 0 .. Len(frames)
      OBVIOUS
    <2>2. \/ Underway(frames, cfg, M[i - 1], i, r, events, TRUE)
          \/ Underway(frames, cfg, M[i - 1], i, r, events, FALSE)
      BY <1>4 DEF InFrame, Within
    <2>3. M[i - 1].events = events
      BY <2>2 DEF Underway
    <2>4. Sound(frames, M[i - 1])
      BY <1>1, <2>1
    <2> QED BY <1>1, <2>1, <2>2, <2>3, <2>4, UnderwayKept
  <1>5. \/ Between(frames, cfg, r, events, p)
        \/ r.later # << >> /\ Between(frames, cfg, Shown(r), Append(events, r.later[1]), p)
        \/ \E i \in 1 .. Len(frames) : InFrame(frames, cfg, state, i, r, events, p)
    BY DEF Fit
  <1> QED BY <1>2, <1>3, <1>4, <1>5

\* A step after which the registers fit.
Steady ==
    /\ rxState \in RxStates /\ rxBusy \in BOOLEAN /\ rxLoop \in BOOLEAN /\ ~rxErrored
    /\ rxErrored \in BOOLEAN /\ rx \in RxRegisters /\ rxEvents \in Seq(RxEvent)
    /\ rxLoop => rxBusy /\ ~Closed
    /\ rxState \in {"INFLATING", "DEFER_EVENT"} => rxBusy /\ ~rxLoop
LEMMA StepsOn ==
    ASSUME RxInv, UNCHANGED rxInput, Steady', NEW b \in 0 .. Len(Whole),
           Divides(Whole, rxBuffers', rxQueue', rxRest', b),
           Fit(rxFrames, rxCfg, rxState', rx', rxEvents', Coming(b))
    PROVE  RxInv'
  <1>1. RxTyped
    BY DEF RxInv
  <1>2. rxFrames \in Seq(RxFrame)
    BY <1>1, Inputs
  <1>3. rxFrames' = rxFrames /\ rxCfg' = rxCfg
    BY DEF rxInput
  <1>4. Whole' = Whole /\ Coming(b)' = Coming(b)
    BY <1>3 DEF Whole, Coming
  <1>5. rx' \in RxRegisters /\ rxEvents' \in Seq(RxEvent)
    BY DEF Steady
  <1>6. /\ MaxPayload > 0 => rx'.message <= MaxPayload /\ rx'.total <= MaxPayload
        /\ StartsWith(Meaning(rxFrames, rxCfg), rxEvents')
    BY <1>2, <1>5, FitGives
  <1>7. InStep'
    BY <1>3, <1>4 DEF InStep
  <1>8. RxTyped'
    BY <1>1, <1>3 DEF Steady, RxTyped
  <1>9. RxControlled'
    BY DEF Steady, RxControlled
  <1> QED BY <1>3, <1>6, <1>7, <1>8, <1>9 DEF RxInv, KeptWithinLimit

\* The last event of a stream that stops.
LEMMA Stopping ==
    ASSUME RxTyped, UNCHANGED rxInput, NEW i \in 1 .. Len(rxFrames), NEW e \in RxEvent,
           Meant(rxFrames, rxCfg)[i - 1].events = rxEvents,
           Means(Meant(rxFrames, rxCfg)[i - 1], rxFrames, rxCfg, i)
               = Stops(Meant(rxFrames, rxCfg)[i - 1], e),
           rxEvents' = Append(rxEvents, e)
    PROVE  StartsWith(Meaning(rxFrames, rxCfg), rxEvents)' /\ rxEvents' \in Seq(RxEvent)
  <1> DEFINE s == Meant(rxFrames, rxCfg)[i - 1]
  <1>1. rxFrames \in Seq(RxFrame) /\ rxCfg \in RxOptions
    BY Inputs
  <1>2. i - 1 \in 0 .. Len(rxFrames) /\ i \in 0 .. Len(rxFrames) /\ Len(rxFrames) \in Nat
    BY <1>1
  <1>3. s \in RxMeaning(Len(rxFrames))
    BY <1>1, <1>2, MeantIs DEF Sound
  <1>4. Meant(rxFrames, rxCfg)[i] = Stops(s, e)
    BY <1>1, MeantIs
  <1> HIDE DEF s
  <1>5. Stops(s, e).events = Append(s.events, e)
    BY <1>2, <1>3, SaysIs
  <1>6. Meant(rxFrames, rxCfg)[i].events = rxEvents'
    BY <1>4, <1>5 DEF s
  <1>7. StartsWith(Meaning(rxFrames, rxCfg), rxEvents')
    BY <1>1, <1>2, <1>6, MeantGrows
  <1>8. rxFrames' = rxFrames /\ rxCfg' = rxCfg
    BY DEF rxInput
  <1>9. rxEvents' \in Seq(RxEvent)
    BY AppendProperties DEF RxTyped
  <1> QED BY <1>7, <1>8, <1>9

\* A step that fails.
LEMMA Failing ==
    ASSUME RxInv, UNCHANGED rxInput, NEW status \in Nat, Fail(status), NEW i \in 1 .. Len(rxFrames),
           Meant(rxFrames, rxCfg)[i - 1].events = rxEvents,
           Means(Meant(rxFrames, rxCfg)[i - 1], rxFrames, rxCfg, i)
               = Stops(Meant(rxFrames, rxCfg)[i - 1], Mistake(status)),
           rx' \in RxRegisters, MaxPayload > 0 => rx'.message <= MaxPayload, rxState # "DEFER_EVENT"
    PROVE  RxInv'
  <1>1. RxTyped /\ RxControlled
    BY DEF RxInv
  <1>2. Mistake(status) \in RxEvent
    BY EventsAre
  <1>3. /\ rxErrored' = TRUE /\ rxLoop' = FALSE /\ rxEvents' = Append(rxEvents, Mistake(status))
        /\ rxState' = rxState /\ rxBusy' = rxBusy
    BY DEF Fail, Emit, Mistake
  <1>4. StartsWith(Meaning(rxFrames, rxCfg), rxEvents)' /\ rxEvents' \in Seq(RxEvent)
    BY <1>1, <1>2, <1>3, Stopping
  <1>5. rxFrames' = rxFrames /\ rxCfg' = rxCfg
    BY DEF rxInput
  <1>6. RxTyped'
    BY <1>1, <1>3, <1>4, <1>5 DEF RxTyped
  <1>7. RxControlled'
    BY <1>1, <1>3 DEF RxControlled
  <1>8. KeptWithinLimit'
    BY <1>3 DEF KeptWithinLimit
  <1> QED BY <1>3, <1>4, <1>6, <1>7, <1>8 DEF RxInv

\* A step that leaves what the registers and the loop are.
LEMMA Aside ==
    ASSUME RxInv, UNCHANGED <<rxInput, rxBusy, rxState, rxLoop, rx, rxEvents, rxErrored>>,
           \/ rxErrored \/ Closed
           \/ UNCHANGED <<rxBuffers, rxQueue, rxRest>>
    PROVE  RxInv'
  <1>1. rxFrames' = rxFrames /\ rxCfg' = rxCfg
    BY DEF rxInput
  <1>2. RxTyped' /\ RxControlled' /\ KeptWithinLimit' /\ StartsWith(Meaning(rxFrames, rxCfg), rxEvents)'
    BY <1>1 DEF RxInv, RxTyped, RxControlled, KeptWithinLimit, Closed
  <1>3. rxErrored' = rxErrored /\ Closed' = Closed
    BY DEF Closed
  <1>4. ASSUME InStep, UNCHANGED <<rxBuffers, rxQueue, rxRest>> PROVE InStep'
    BY <1>1, <1>4 DEF InStep, Whole, Coming
  <1> QED BY <1>2, <1>3, <1>4 DEF RxInv


-----------------------------------------------------------------------------
(* WsReceiver: steps of the stream and of the socket.                      *)

\* What InStep says of a step that only moves units.
LEMMA Moved ==
    ASSUME RxInv, ~rxErrored, ~Closed, UNCHANGED <<rxInput, rxState, rx, rxEvents, rxErrored>>,
           \/ UNCHANGED <<rxBusy, rxLoop>>
           \/ ~rxBusy /\ rxBusy' = TRUE /\ rxLoop' = TRUE,
           NEW b \in 0 .. Len(Whole), Divides(Whole, rxBuffers', rxQueue', rxRest', b),
           Fit(rxFrames, rxCfg, rxState, rx, rxEvents, Coming(b))
    PROVE  RxInv'
  <1>1. RxTyped /\ RxControlled
    BY DEF RxInv
  <1>2. rxState' = rxState /\ rx' = rx /\ rxEvents' = rxEvents /\ rxErrored' = rxErrored
        /\ Closed' = Closed
    BY DEF Closed
  <1>3. rxBusy' \in BOOLEAN /\ rxLoop' \in BOOLEAN
    BY <1>1 DEF RxTyped
  <1>4. rxLoop' => rxBusy' /\ ~Closed'
    BY <1>1, <1>2 DEF RxControlled
  <1>5. rxState' \in {"INFLATING", "DEFER_EVENT"} => rxBusy' /\ ~rxLoop'
    BY <1>1, <1>2 DEF RxControlled
  <1>6. Steady'
    BY <1>1, <1>2, <1>3, <1>4, <1>5 DEF Steady, RxTyped
  <1>7. UNCHANGED rxInput /\ Fit(rxFrames, rxCfg, rxState', rx', rxEvents', Coming(b))
    BY <1>2
  <1> QED BY <1>6, <1>7, StepsOn

LEMMA DataKeeps ==
    ASSUME RxInv, Data
    PROVE  RxInv'
  <1>1. RxTyped /\ Whole \in Seq(RxUnit)
    BY Inputs DEF RxInv
  <1>2. UNCHANGED <<rxInput, rxState, rx, rxEvents, rxErrored>> /\ ~rxErrored
    BY DEF Data
  <1> DEFINE chunk(n) == SubSeq(rxRest, 1, n)
             rest(n) == SubSeq(rxRest, n + 1, Len(rxRest))
  <1>3. PICK n \in 1 .. Len(rxRest) :
            /\ rxRest' = rest(n)
            /\ IF rxBusy \/ rxQueue # << >>
               THEN rxQueue' = Append(rxQueue, chunk(n)) /\ UNCHANGED <<rxBuffers, rxBusy, rxLoop>>
               ELSE StartWrite(chunk(n)) /\ UNCHANGED rxQueue
    BY DEF Data
  <1>4. CASE Closed
    <2>1. UNCHANGED <<rxBusy, rxLoop>>
      <3>1. CASE rxBusy \/ rxQueue # << >>
        BY <1>3, <3>1
      <3>2. CASE ~(rxBusy \/ rxQueue # << >>)
        BY <1>3, <1>4, <3>2 DEF StartWrite, Closed
      <3> QED BY <3>1, <3>2
    <2> QED BY <1>2, <1>4, <2>1, Aside
  <1>5. CASE ~Closed
    <2>1. PICK b \in 0 .. Len(Whole) : /\ Divides(Whole, rxBuffers, rxQueue, rxRest, b)
                                       /\ Fit(rxFrames, rxCfg, rxState, rx, rxEvents, Coming(b))
      BY <1>2, <1>5 DEF RxInv, InStep
    <2>2. Divides(Whole, rxBuffers, Append(rxQueue, chunk(n)), rest(n), b)
      BY <1>1, <2>1, DividesQueued
    <2>3. rxQueue \in Seq(Seq(RxUnit)) /\ rxRest \in Seq(RxUnit)
      BY <1>1, <2>1, DividesTypes
    <2>4. chunk(n) \in Seq(RxUnit)
      BY <2>3, SubSeqProperties
    <2> HIDE DEF chunk, rest
    <2>5. CASE rxBusy \/ rxQueue # << >>
      <3>1. Divides(Whole, rxBuffers', rxQueue', rxRest', b) /\ UNCHANGED <<rxBusy, rxLoop>>
        BY <1>3, <2>2, <2>5
      <3> QED BY <1>2, <1>5, <2>1, <3>1, Moved
    <2>6. CASE ~(rxBusy \/ rxQueue # << >>)
      <3>1. rxBuffers' = rxBuffers \o chunk(n) /\ rxBusy' = TRUE /\ rxLoop' = TRUE /\ rxQueue' = rxQueue
        BY <1>3, <1>5, <2>6 DEF StartWrite, Closed
      <3> DEFINE queue == Append(rxQueue, chunk(n))
      <3>2. queue # << >> /\ Head(queue) = chunk(n) /\ Tail(queue) = rxQueue
        <4>1. rxQueue = << >>
          BY <2>6
        <4>2. \A e : Append(<< >>, e) = << e >>
          OBVIOUS
        <4>3. queue = << chunk(n) >>
          BY <4>1, <4>2
        <4> HIDE DEF queue
        <4>4. \A e : Tail(<< e >>) = << >> /\ Head(<< e >>) = e /\ << e >> # << >>
          OBVIOUS
        <4> QED BY <4>1, <4>3, <4>4
      <3> HIDE DEF queue
      <3>3. Divides(Whole, rxBuffers \o Head(queue), Tail(queue), rest(n), b)
        BY <1>1, <2>2, <3>2, DividesNext DEF queue
      <3>4. Divides(Whole, rxBuffers', rxQueue', rxRest', b)
        BY <1>3, <3>1, <3>2, <3>3
      <3> QED BY <1>2, <1>5, <2>1, <2>6, <3>1, <3>4, Moved
    <2> QED BY <2>5, <2>6
  <1> QED BY <1>4, <1>5

LEMMA NextChunkKeeps ==
    ASSUME RxInv, NextChunk
    PROVE  RxInv'
  <1>1. RxTyped /\ Whole \in Seq(RxUnit)
    BY Inputs DEF RxInv
  <1>2. UNCHANGED <<rxInput, rxState, rx, rxEvents, rxErrored>> /\ ~rxErrored /\ ~rxBusy
        /\ rxQueue # << >> /\ rxQueue' = Tail(rxQueue) /\ rxRest' = rxRest
    BY DEF NextChunk
  <1>3. CASE Closed
    <2>1. UNCHANGED <<rxBusy, rxLoop>>
      BY <1>3 DEF NextChunk, StartWrite, Closed
    <2> QED BY <1>2, <1>3, <2>1, Aside
  <1>4. CASE ~Closed
    <2>1. rxBuffers' = rxBuffers \o Head(rxQueue) /\ rxBusy' = TRUE /\ rxLoop' = TRUE
      BY <1>4 DEF NextChunk, StartWrite, Closed
    <2>2. PICK b \in 0 .. Len(Whole) : /\ Divides(Whole, rxBuffers, rxQueue, rxRest, b)
                                       /\ Fit(rxFrames, rxCfg, rxState, rx, rxEvents, Coming(b))
      BY <1>2, <1>4 DEF RxInv, InStep
    <2>3. Divides(Whole, rxBuffers \o Head(rxQueue), Tail(rxQueue), rxRest, b)
      BY <1>1, <1>2, <2>2, DividesNext
    <2>4. Divides(Whole, rxBuffers', rxQueue', rxRest', b)
      BY <1>2, <2>1, <2>3
    <2> QED BY <1>2, <1>4, <2>1, <2>2, <2>4, Moved
  <1> QED BY <1>3, <1>4

LEMMA FlowKeeps ==
    ASSUME RxInv, Drain \/ PauseReading \/ ResumeReading \/ EndOfSocket \/ Finish
    PROVE  RxInv'
  <1>1. /\ UNCHANGED <<rxInput, rxBusy, rxState, rxLoop, rx, rxEvents, rxErrored>>
        /\ UNCHANGED <<rxBuffers, rxQueue, rxRest>>
    BY DEF Drain, PauseReading, ResumeReading, EndOfSocket, Finish
  <1> QED BY <1>1, Aside


-----------------------------------------------------------------------------
(* WsReceiver: turns of the loop.                                          *)

\* A unit of the buffer is the first that is ahead.
Buffered(b) ==
    /\ Divides(Whole, rxBuffers, rxQueue, rxRest, b)
    /\ Fit(rxFrames, rxCfg, rxState, rx, rxEvents, Coming(b))
    /\ rxBuffers # << >> =>
           /\ b + 1 \in 0 .. Len(Whole) /\ Divides(Whole, Tail(rxBuffers), rxQueue, rxRest, b + 1)
           /\ Coming(b) # << >> /\ Head(rxBuffers) = Head(Coming(b)) /\ Coming(b + 1) = Tail(Coming(b))
LEMMA Buffering ==
    ASSUME RxInv, ~rxErrored, ~Closed
    PROVE  \E b \in 0 .. Len(Whole) : Buffered(b)
  <1>1. Whole \in Seq(RxUnit)
    BY Inputs DEF RxInv
  <1>2. PICK b \in 0 .. Len(Whole) : /\ Divides(Whole, rxBuffers, rxQueue, rxRest, b)
                                     /\ Fit(rxFrames, rxCfg, rxState, rx, rxEvents, Coming(b))
    BY DEF RxInv, InStep
  <1>3. rxBuffers # << >> =>
            /\ b + 1 \in 0 .. Len(Whole) /\ Divides(Whole, Tail(rxBuffers), rxQueue, rxRest, b + 1)
            /\ Head(rxBuffers) = Head(SubSeq(Whole, b + 1, Len(Whole)))
            /\ SubSeq(Whole, b + 1, Len(Whole)) # << >>
            /\ Tail(SubSeq(Whole, b + 1, Len(Whole))) = SubSeq(Whole, b + 1 + 1, Len(Whole))
    BY <1>1, <1>2, DividesRead
  <1>4. Buffered(b)
    BY <1>2, <1>3 DEF Buffered, Coming
  <1> QED BY <1>4

LEMMA Turning ==
    ASSUME RxInv, NEW state, Turn(state)
    PROVE  /\ ~rxErrored /\ ~Closed /\ rxBusy /\ rxLoop /\ rxState = state /\ rxBusy = TRUE /\ rxLoop = TRUE
           /\ rxState \notin {"INFLATING", "DEFER_EVENT"} /\ RxTyped
           /\ UNCHANGED rxInput /\ rxQueue' = rxQueue /\ rxRest' = rxRest
           /\ \E b \in 0 .. Len(Whole) : Buffered(b)
  <1>1. rxLoop /\ rxState = state /\ UNCHANGED rxInput /\ rxQueue' = rxQueue /\ rxRest' = rxRest
    BY DEF Turn
  <1>2. RxTyped /\ RxControlled
    BY DEF RxInv
  <1>3. ~rxErrored /\ ~Closed /\ rxBusy /\ rxState \notin {"INFLATING", "DEFER_EVENT"}
    BY <1>1, <1>2 DEF RxControlled
  <1>4. rxBusy = TRUE /\ rxLoop = TRUE
    BY <1>1, <1>2, <1>3 DEF RxTyped
  <1> QED BY <1>1, <1>2, <1>3, <1>4, Buffering

LEMMA WaitKeeps ==
    ASSUME RxInv, NEW state, Turn(state), NEW unit, Wait(unit)
    PROVE  RxInv'
  <1>1. ~rxErrored /\ RxTyped /\ UNCHANGED rxInput /\ rxQueue' = rxQueue /\ rxRest' = rxRest
        /\ rxState \notin {"INFLATING", "DEFER_EVENT"}
    BY Turning
  <1>2. PICK b \in 0 .. Len(Whole) : Buffered(b)
    BY Turning
  <1>3. rxLoop' = FALSE /\ rxBusy' = FALSE /\ rxBuffers' = rxBuffers /\ rxState' = rxState /\ rx' = rx
        /\ rxEvents' = rxEvents /\ rxErrored' = rxErrored
    BY DEF Wait
  <1>4. Steady'
    BY <1>1, <1>3 DEF Steady, RxTyped
  <1>5. Divides(Whole, rxBuffers', rxQueue', rxRest', b)
    BY <1>1, <1>2, <1>3 DEF Buffered
  <1>6. Fit(rxFrames, rxCfg, rxState', rx', rxEvents', Coming(b))
    BY <1>2, <1>3 DEF Buffered
  <1> QED BY <1>1, <1>4, <1>5, <1>6, StepsOn

\* Once the length of frame i is read, whether or not it fits.
LEMMA HaveLengthKeeps ==
    ASSUME RxInv, NEW state, Turn(state), NEW c \in 0 .. Len(Whole),
           Divides(Whole, rxBuffers', rxQueue', rxRest', c), NEW i \in 1 .. Len(rxFrames),
           Coming(c) = FromMask(rxFrames, rxCfg, i), NEW r \in RxRegisters,
           Within(rxFrames, rxCfg, i, r, rxEvents, FALSE), rxFrames[i].len < Unsafe, HaveLength(r)
    PROVE  RxInv'
  <1> DEFINE s == Meant(rxFrames, rxCfg)[i - 1]
             q == Counted(r)
             masked == IsMasked(rxFrames[i], rxCfg)
  <1>1. ~rxErrored /\ rxBusy = TRUE /\ rxLoop = TRUE /\ rxState # "DEFER_EVENT" /\ RxTyped
        /\ UNCHANGED rxInput
    BY Turning
  <1>2. rxFrames \in Seq(RxFrame) /\ rxCfg \in RxOptions /\ i - 1 \in 0 .. Len(rxFrames)
    BY <1>1, Inputs
  <1>3. Sound(rxFrames, s) /\ Underway(rxFrames, rxCfg, s, i, r, rxEvents, FALSE)
    BY <1>1, <1>2, Inputs DEF Within
  <1>4. s.events = rxEvents /\ r.masked = masked
    BY <1>3 DEF Underway
  <1>5. q \in RxRegisters /\ q.message = r.message
    BY CountedIs
  <1> HIDE DEF s
  <1>6. CASE TooLong(r)
    <2>1. Means(s, rxFrames, rxCfg, i) = Stops(s, Mistake(1009))
      <3>1. Unfit(rxFrames, r, i)
        BY <1>6 DEF Unfit
      <3>2. Rejected(rxFrames, rxCfg, s, i, r, rxEvents)
        BY <1>2, <1>3, <3>1, LengthTooLong
      <3> QED BY <3>2 DEF Rejected
    <2>2. MaxPayload > 0 => q.message <= MaxPayload
      BY <1>2, <1>3, <1>5, UnderwayKept
    <2>3. Fail(1009) /\ rx' = q
      BY <1>6 DEF HaveLength
    <2>4. 1009 \in Nat
      OBVIOUS
    <2> HIDE DEF q
    <2> QED BY <1>1, <1>4, <1>5, <2>1, <2>2, <2>3, <2>4, Failing DEF s
  <1>7. CASE ~TooLong(r)
    <2>1. Underway(rxFrames, rxCfg, s, i, q, rxEvents, TRUE)
      BY <1>2, <1>3, <1>7, LengthFits
    <2>2. Within(rxFrames, rxCfg, i, q, rxEvents, TRUE)
      BY <2>1 DEF Within, s
    <2>3. rx' = q /\ rxState' = (IF r.masked THEN "GET_MASK" ELSE "GET_DATA")
          /\ rxBusy' = rxBusy /\ rxLoop' = rxLoop /\ rxEvents' = rxEvents /\ rxErrored' = rxErrored
      BY <1>7 DEF HaveLength, Goto
    <2> HIDE DEF q
    <2>4. rxState' \in {"GET_MASK", "GET_DATA"}
      BY <2>3
    <2>5. Steady'
      BY <1>1, <1>5, <2>3, <2>4 DEF Steady, Closed, RxTyped, RxStates
    <2>6. InFrame(rxFrames, rxCfg, rxState', i, rx', rxEvents', Coming(c))
      <3>1. CASE masked
        <4>1. rxState' = "GET_MASK"
          BY <1>4, <2>3, <3>1
        <4> QED BY <2>2, <2>3, <3>1, <4>1 DEF InFrame
      <3>2. CASE ~masked
        <4>1. rxState' = "GET_DATA"
          BY <1>4, <2>3, <3>2
        <4>2. FromData(rxFrames, rxCfg, i) \in Seq(RxUnit)
          BY <1>2, FromsAre
        <4>2a. masked \in BOOLEAN /\ i \in Nat
          BY <1>2 DEF IsMasked
        <4>3. FromMask(rxFrames, rxCfg, i) = FromData(rxFrames, rxCfg, i)
          <5>1. FromMask(rxFrames, rxCfg, i) = Unit("mask", i, masked) \o FromData(rxFrames, rxCfg, i)
            BY DEF FromMask
          <5>2. Unit("mask", i, masked) = << >>
            BY <3>2 DEF Unit
          <5>3. << >> \o FromData(rxFrames, rxCfg, i) = FromData(rxFrames, rxCfg, i)
            BY <4>2, ConcatEmptySeq
          <5> HIDE DEF masked
          <5> QED BY <5>1, <5>2, <5>3
        <4> QED BY <2>2, <2>3, <4>1, <4>3 DEF InFrame
      <3> QED BY <3>1, <3>2
    <2>7. Fit(rxFrames, rxCfg, rxState', rx', rxEvents', Coming(c))
      BY <2>6 DEF Fit
    <2> QED BY <1>1, <2>5, <2>7, StepsOn
  <1> QED BY <1>6, <1>7

\* Between two frames the next unit is the info of the next frame.
LEMMA AtInfo ==
    ASSUME RxTyped, NEW p, Between(rxFrames, rxCfg, rx, rxEvents, p), p # << >>
    PROVE  \E i \in 1 .. Len(rxFrames) :
               /\ Agrees(rxFrames, Meant(rxFrames, rxCfg)[i - 1], rx, rxEvents)
               /\ Head(p).frame = i /\ Tail(p) = FromLength(rxFrames, rxCfg, i)
  <1> DEFINE N == Len(rxFrames)
             W == Wire(rxFrames, rxCfg)
  <1>1. rxFrames \in Seq(RxFrame) /\ rxCfg \in RxOptions /\ N \in Nat
    BY Inputs
  <1>2. PICK k \in 0 .. N : Agrees(rxFrames, Meant(rxFrames, rxCfg)[k], rx, rxEvents) /\ p = W[N - k]
    BY DEF Between
  <1>3. W[0] = << >>
    BY <1>1, WireIs
  <1>4. k # N
    <2>1. SUFFICES ASSUME k = N PROVE FALSE
      OBVIOUS
    <2>2. N - k = 0
      BY <1>1, <2>1
    <2> QED BY <1>2, <1>3, <2>2
  <1> DEFINE i == k + 1
  <1>5. i \in 1 .. N /\ i - 1 = k /\ N - (i - 1) = N - k
    BY <1>1, <1>4
  <1> HIDE DEF W, N
  <1>6. Head(Wire(rxFrames, rxCfg)[Len(rxFrames) - (i - 1)]) = [part |-> "info", frame |-> i]
        /\ Tail(Wire(rxFrames, rxCfg)[Len(rxFrames) - (i - 1)]) = FromLength(rxFrames, rxCfg, i)
    <2> HIDE DEF i
    <2> QED BY <1>1, <1>5, FromsAre DEF N
  <1>7. Head(p) = [part |-> "info", frame |-> i] /\ Tail(p) = FromLength(rxFrames, rxCfg, i)
    BY <1>2, <1>5, <1>6 DEF W, N
  <1> HIDE DEF i
  <1>8. Head(p).frame = i
    BY <1>7
  <1> QED BY <1>2, <1>5, <1>7, <1>8 DEF N

LEMMA GetInfoKeeps ==
    ASSUME RxInv, GetInfo
    PROVE  RxInv'
  <1>1. Turn("GET_INFO")
    BY DEF GetInfo
  <1>2. ~rxErrored /\ rxBusy = TRUE /\ rxLoop = TRUE /\ rxState = "GET_INFO" /\ RxTyped
        /\ UNCHANGED rxInput /\ rxQueue' = rxQueue /\ rxRest' = rxRest /\ rx \in RxRegisters
    BY <1>1, Turning DEF RxTyped
  <1>3. PICK b \in 0 .. Len(Whole) : Buffered(b)
    BY <1>1, Turning
  <1>4. CASE Wait("info")
    BY <1>1, <1>4, WaitKeeps
  <1> DEFINE j == Head(rxBuffers).frame
             f == rxFrames[j]
  <1>5. CASE /\ Has("info") /\ rxBuffers' = Tail(rxBuffers)
             /\ \/ BadInfo(f, Masked(j)) /\ Fail(1002) /\ UNCHANGED rx
                \/ /\ ~BadInfo(f, Masked(j))
                   /\ IF f.len >= Long16
                      THEN /\ rx' = Info(j, f)
                           /\ Goto(IF f.len < Long64 THEN "GET_PAYLOAD_LENGTH_16"
                                   ELSE "GET_PAYLOAD_LENGTH_64")
                      ELSE HaveLength(Info(j, f))
    <2>1. rxBuffers # << >>
      BY <1>5 DEF Has
    <2>2. /\ b + 1 \in 0 .. Len(Whole) /\ Divides(Whole, Tail(rxBuffers), rxQueue, rxRest, b + 1)
          /\ Coming(b) # << >> /\ Head(rxBuffers) = Head(Coming(b)) /\ Coming(b + 1) = Tail(Coming(b))
          /\ Fit(rxFrames, rxCfg, rxState, rx, rxEvents, Coming(b))
      BY <1>3, <2>1 DEF Buffered
    <2>3. Between(rxFrames, rxCfg, rx, rxEvents, Coming(b))
      BY <1>2, <2>2 DEF Fit, InFrame
    <2>4. PICK i \in 1 .. Len(rxFrames) :
              /\ Agrees(rxFrames, Meant(rxFrames, rxCfg)[i - 1], rx, rxEvents)
              /\ Head(Coming(b)).frame = i /\ Tail(Coming(b)) = FromLength(rxFrames, rxCfg, i)
      BY <1>2, <2>2, <2>3, AtInfo
    <2>5. j = i
      BY <2>2, <2>4
    <2> DEFINE s == Meant(rxFrames, rxCfg)[i - 1]
               c == b + 1
               q == Info(i, rxFrames[i])
    <2>6. rxFrames \in Seq(RxFrame) /\ rxCfg \in RxOptions /\ i - 1 \in 0 .. Len(rxFrames)
      BY <1>2, Inputs
    <2>7. Sound(rxFrames, s) /\ Agrees(rxFrames, s, rx, rxEvents) /\ s.events = rxEvents /\ ~s.over
      BY <1>2, <2>4, <2>6, Inputs DEF Agrees
    <2> HIDE DEF s
    <2>8. BadInfo(rxFrames[i], Masked(i)) <=> ~Legal(s, rxFrames[i], rxCfg)
      BY <2>6, <2>7, BadInfoIs
    <2>9. c \in 0 .. Len(Whole) /\ Divides(Whole, rxBuffers', rxQueue', rxRest', c)
          /\ Coming(c) = FromLength(rxFrames, rxCfg, i)
      BY <1>2, <1>5, <2>2, <2>4
    <2> HIDE DEF c
    <2>10. CASE BadInfo(rxFrames[i], Masked(i))
      <3>1. Means(s, rxFrames, rxCfg, i) = Stops(s, Mistake(1002))
        BY <2>7, <2>8, <2>10 DEF Means
      <3>2. Fail(1002) /\ rx' = rx
        BY <1>5, <2>5, <2>10
      <3>3. MaxPayload > 0 => rx'.message <= MaxPayload
        BY <2>7, <3>2, AgreesKept
      <3>4. 1002 \in Nat /\ rxState # "DEFER_EVENT" /\ rx' \in RxRegisters
        BY <1>2, <3>2
      <3> QED BY <1>2, <2>7, <3>1, <3>2, <3>3, <3>4, Failing DEF s
    <2>11. CASE ~BadInfo(rxFrames[i], Masked(i))
      <3>1. q \in RxRegisters /\ Underway(rxFrames, rxCfg, s, i, q, rxEvents, FALSE)
        BY <1>2, <2>6, <2>7, <2>8, <2>11, InfoUnderway
      <3>2. Within(rxFrames, rxCfg, i, q, rxEvents, FALSE)
        BY <3>1 DEF Within, s
      <3>3. rxFrames[i].len \in Nat
        BY <2>6, FrameFields
      <3>4. CASE rxFrames[i].len >= Long16
        <4>1. /\ rx' = q
              /\ Goto(IF rxFrames[i].len < Long64 THEN "GET_PAYLOAD_LENGTH_16"
                      ELSE "GET_PAYLOAD_LENGTH_64")
          BY <1>5, <2>5, <2>11, <3>4
        <4> HIDE DEF q
        <4>2. /\ rxState' \in {"GET_PAYLOAD_LENGTH_16", "GET_PAYLOAD_LENGTH_64"}
              /\ rxState' = "GET_PAYLOAD_LENGTH_16" <=> rxFrames[i].len < Long64
              /\ rxBusy' = rxBusy /\ rxLoop' = rxLoop /\ rxEvents' = rxEvents /\ rxErrored' = rxErrored
          BY <4>1 DEF Goto
        <4>3. Steady'
          BY <1>2, <3>1, <4>1, <4>2 DEF Steady, Closed, RxTyped, RxStates
        <4>4. InFrame(rxFrames, rxCfg, rxState', i, rx', rxEvents', Coming(c))
          BY <2>9, <3>2, <3>4, <4>1, <4>2 DEF InFrame
        <4>5. Fit(rxFrames, rxCfg, rxState', rx', rxEvents', Coming(c))
          BY <4>4 DEF Fit
        <4> QED BY <1>2, <2>9, <4>3, <4>5, StepsOn
      <3>5. CASE ~(rxFrames[i].len >= Long16)
        <4>1. HaveLength(q)
          BY <1>5, <2>5, <2>11, <3>5
        <4>2. rxFrames[i].len < Unsafe
          BY <3>3, <3>5, ReceiverAssumption
        <4> DEFINE long == rxFrames[i].len >= Long16
        <4>3a. FromMask(rxFrames, rxCfg, i) \in Seq(RxUnit)
          BY <2>6, FromsAre
        <4>3b. i \in Nat /\ long = FALSE
          BY <2>6, <3>3, <3>5, ReceiverAssumption
        <4>3c. FromLength(rxFrames, rxCfg, i) = Unit("length", i, long) \o FromMask(rxFrames, rxCfg, i)
          BY DEF FromLength
        <4> HIDE DEF long
        <4>4. FromLength(rxFrames, rxCfg, i) = FromMask(rxFrames, rxCfg, i)
          BY <4>3a, <4>3b, <4>3c, UnitBefore
        <4>5. Coming(c) = FromMask(rxFrames, rxCfg, i)
          BY <2>9, <4>4
        <4> HIDE DEF q
        <4> QED BY <1>1, <2>9, <3>1, <3>2, <4>1, <4>2, <4>5, HaveLengthKeeps
      <3> QED BY <3>4, <3>5
    <2> QED BY <2>10, <2>11
  <1> QED BY <1>4, <1>5 DEF GetInfo


\* The length and the mask of a frame.
LEMMA LengthRead ==
    ASSUME RxInv, NEW state \in {"GET_PAYLOAD_LENGTH_16", "GET_PAYLOAD_LENGTH_64"}, Turn(state),
           Has("length"), rxBuffers' = Tail(rxBuffers)
    PROVE  \E i \in 1 .. Len(rxFrames), c \in 0 .. Len(Whole) :
               /\ Divides(Whole, rxBuffers', rxQueue', rxRest', c)
               /\ Coming(c) = FromMask(rxFrames, rxCfg, i)
               /\ Within(rxFrames, rxCfg, i, rx, rxEvents, FALSE) /\ rxFrames[i].len >= Long16
               /\ state = "GET_PAYLOAD_LENGTH_16" <=> rxFrames[i].len < Long64
  <1>1. RxTyped /\ rxState = state /\ rxQueue' = rxQueue /\ rxRest' = rxRest
    BY Turning
  <1>2. PICK b \in 0 .. Len(Whole) : Buffered(b)
    BY Turning
  <1>3. rxBuffers # << >>
    BY DEF Has
  <1>4. /\ b + 1 \in 0 .. Len(Whole) /\ Divides(Whole, Tail(rxBuffers), rxQueue, rxRest, b + 1)
        /\ Coming(b + 1) = Tail(Coming(b)) /\ Fit(rxFrames, rxCfg, rxState, rx, rxEvents, Coming(b))
    BY <1>2, <1>3 DEF Buffered
  <1>5. PICK i \in 1 .. Len(rxFrames) : InFrame(rxFrames, rxCfg, rxState, i, rx, rxEvents, Coming(b))
    BY <1>1, <1>4 DEF Fit
  <1>6. /\ Within(rxFrames, rxCfg, i, rx, rxEvents, FALSE) /\ rxFrames[i].len >= Long16
        /\ state = "GET_PAYLOAD_LENGTH_16" <=> rxFrames[i].len < Long64
        /\ Coming(b) = FromLength(rxFrames, rxCfg, i)
    BY <1>1, <1>5 DEF InFrame
  <1>7. rxFrames \in Seq(RxFrame) /\ rxCfg \in RxOptions
    BY <1>1, Inputs
  <1>8. FromMask(rxFrames, rxCfg, i) \in Seq(RxUnit)
    BY <1>7, FromsAre
  <1>8a. i \in Nat
    OBVIOUS
  <1> DEFINE long == rxFrames[i].len >= Long16
  <1>9. long /\ FromLength(rxFrames, rxCfg, i) = Unit("length", i, long) \o FromMask(rxFrames, rxCfg, i)
    BY <1>6 DEF FromLength
  <1>9a. long \in BOOLEAN
    BY <1>6
  <1> HIDE DEF long
  <1>10. Tail(Unit("length", i, long) \o FromMask(rxFrames, rxCfg, i)) = FromMask(rxFrames, rxCfg, i)
    BY <1>8, <1>8a, <1>9, <1>9a, UnitTaken
  <1>11. Coming(b + 1) = FromMask(rxFrames, rxCfg, i)
    BY <1>4, <1>6, <1>9, <1>10
  <1> DEFINE c == b + 1
  <1>12. /\ c \in 0 .. Len(Whole) /\ Divides(Whole, rxBuffers', rxQueue', rxRest', c)
         /\ Coming(c) = FromMask(rxFrames, rxCfg, i)
    BY <1>1, <1>4, <1>11
  <1> HIDE DEF c
  <1> QED BY <1>6, <1>12

LEMMA GetPayloadLengthKeeps ==
    ASSUME RxInv, GetPayloadLength16 \/ GetPayloadLength64
    PROVE  RxInv'
  <1>1. RxTyped /\ rx \in RxRegisters /\ rxFrames \in Seq(RxFrame)
    BY Inputs DEF RxInv, RxTyped
  <1>2. CASE GetPayloadLength16
    <2>1. Turn("GET_PAYLOAD_LENGTH_16")
      BY <1>2 DEF GetPayloadLength16
    <2>2. CASE Wait("length")
      BY <2>1, <2>2, WaitKeeps
    <2>3. CASE Has("length") /\ rxBuffers' = Tail(rxBuffers) /\ HaveLength(rx)
      <3>1. PICK i \in 1 .. Len(rxFrames), c \in 0 .. Len(Whole) :
               /\ Divides(Whole, rxBuffers', rxQueue', rxRest', c)
               /\ Coming(c) = FromMask(rxFrames, rxCfg, i)
               /\ Within(rxFrames, rxCfg, i, rx, rxEvents, FALSE) /\ rxFrames[i].len < Long64
        BY <2>1, <2>3, LengthRead
      <3>2. rxFrames[i].len < Unsafe
        <4>1. rxFrames[i].len \in Nat
          BY <1>1, FrameFields
        <4> QED BY <3>1, <4>1, ReceiverAssumption
      <3> QED BY <1>1, <2>1, <2>3, <3>1, <3>2, HaveLengthKeeps
    <2> QED BY <1>2, <2>2, <2>3 DEF GetPayloadLength16
  <1>3. CASE GetPayloadLength64
    <2>1. Turn("GET_PAYLOAD_LENGTH_64")
      BY <1>3 DEF GetPayloadLength64
    <2>2. CASE Wait("length")
      BY <2>1, <2>2, WaitKeeps
    <2>3. CASE /\ Has("length") /\ rxBuffers' = Tail(rxBuffers)
               /\ IF rx.len >= Unsafe THEN Fail(1009) /\ UNCHANGED rx ELSE HaveLength(rx)
      <3>1. PICK i \in 1 .. Len(rxFrames), c \in 0 .. Len(Whole) :
               /\ Divides(Whole, rxBuffers', rxQueue', rxRest', c)
               /\ Coming(c) = FromMask(rxFrames, rxCfg, i)
               /\ Within(rxFrames, rxCfg, i, rx, rxEvents, FALSE) /\ rxFrames[i].len >= Long16
        BY <2>1, <2>3, LengthRead
      <3> DEFINE s == Meant(rxFrames, rxCfg)[i - 1]
      <3>2. i - 1 \in 0 .. Len(rxFrames) /\ rxFrames[i].len \in Nat
        BY <1>1, FrameFields
      <3>3. Sound(rxFrames, s) /\ Underway(rxFrames, rxCfg, s, i, rx, rxEvents, FALSE)
        BY <1>1, <3>1, <3>2, Inputs DEF Within
      <3> HIDE DEF s
      <3>4. FrameKnown(rxFrames, rxCfg, s, i, rx, rxEvents)
        BY <1>1, <3>3, UnderwayIs
      <3>5. rx.len = rxFrames[i].len /\ s.events = rxEvents
            /\ (rxFrames[i].op \in Control => rx.len < Long16)
        BY <3>4 DEF FrameKnown
      <3>6. CASE rx.len >= Unsafe
        <4>1. rxFrames[i].op \notin Control
          BY <3>1, <3>2, <3>5, ReceiverAssumption
        <4>2. Unfit(rxFrames, rx, i)
          BY <3>6, <4>1 DEF Unfit
        <4>3. Rejected(rxFrames, rxCfg, s, i, rx, rxEvents)
          BY <1>1, <3>3, <4>2, LengthTooLong
        <4>4. Means(s, rxFrames, rxCfg, i) = Stops(s, Mistake(1009))
          BY <4>3 DEF Rejected
        <4>5. Fail(1009) /\ rx' = rx /\ UNCHANGED rxInput /\ rxState # "DEFER_EVENT" /\ 1009 \in Nat
          BY <2>1, <2>3, <3>6 DEF Turn
        <4>6. MaxPayload > 0 => rx'.message <= MaxPayload
          BY <1>1, <3>3, <4>5, UnderwayKept
        <4>7. rx' \in RxRegisters
          BY <1>1, <4>5
        <4> QED BY <3>5, <4>4, <4>5, <4>6, <4>7, Failing DEF s
      <3>7. CASE ~(rx.len >= Unsafe)
        <4>1. rxFrames[i].len < Unsafe
          BY <3>2, <3>5, <3>7, ReceiverAssumption
        <4>2. HaveLength(rx)
          BY <2>3, <3>7
        <4> QED BY <1>1, <2>1, <3>1, <4>1, <4>2, HaveLengthKeeps
      <3> QED BY <3>6, <3>7
    <2> QED BY <1>3, <2>2, <2>3 DEF GetPayloadLength64
  <1> QED BY <1>2, <1>3

LEMMA GetMaskKeeps ==
    ASSUME RxInv, GetMask
    PROVE  RxInv'
  <1>1. Turn("GET_MASK")
    BY DEF GetMask
  <1>2. ~rxErrored /\ rxBusy = TRUE /\ rxLoop = TRUE /\ rxState = "GET_MASK" /\ RxTyped
        /\ UNCHANGED rxInput /\ rxQueue' = rxQueue /\ rxRest' = rxRest
    BY <1>1, Turning
  <1>3. PICK b \in 0 .. Len(Whole) : Buffered(b)
    BY <1>1, Turning
  <1>4. CASE Wait("mask")
    BY <1>1, <1>4, WaitKeeps
  <1>5. CASE Has("mask") /\ rxBuffers' = Tail(rxBuffers) /\ Goto("GET_DATA") /\ UNCHANGED rx
    <2>1. rxBuffers # << >>
      BY <1>5 DEF Has
    <2> DEFINE c == b + 1
    <2>2. /\ c \in 0 .. Len(Whole) /\ Divides(Whole, rxBuffers', rxQueue', rxRest', c)
          /\ Coming(c) = Tail(Coming(b)) /\ Fit(rxFrames, rxCfg, rxState, rx, rxEvents, Coming(b))
      BY <1>2, <1>3, <1>5, <2>1 DEF Buffered
    <2> HIDE DEF c
    <2>3. PICK i \in 1 .. Len(rxFrames) : InFrame(rxFrames, rxCfg, rxState, i, rx, rxEvents, Coming(b))
      BY <1>2, <2>2 DEF Fit
    <2> DEFINE masked == IsMasked(rxFrames[i], rxCfg)
    <2>4. Within(rxFrames, rxCfg, i, rx, rxEvents, TRUE) /\ masked /\ Coming(b) = FromMask(rxFrames, rxCfg, i)
      BY <1>2, <2>3 DEF InFrame
    <2>5. rxFrames \in Seq(RxFrame) /\ rxCfg \in RxOptions
      BY <1>2, Inputs
    <2>6. FromData(rxFrames, rxCfg, i) \in Seq(RxUnit)
      BY <2>5, FromsAre
    <2>7. masked \in BOOLEAN /\ i \in Nat
      BY <2>5 DEF IsMasked
    <2>8. FromMask(rxFrames, rxCfg, i) = Unit("mask", i, masked) \o FromData(rxFrames, rxCfg, i)
      BY DEF FromMask
    <2> HIDE DEF masked
    <2>9. Tail(Unit("mask", i, masked) \o FromData(rxFrames, rxCfg, i)) = FromData(rxFrames, rxCfg, i)
      BY <2>4, <2>6, <2>7, UnitBefore
    <2>10. Coming(c) = FromData(rxFrames, rxCfg, i)
      BY <2>2, <2>4, <2>8, <2>9
    <2>11. rxState' = "GET_DATA" /\ rx' = rx /\ rxBusy' = rxBusy /\ rxLoop' = rxLoop
           /\ rxEvents' = rxEvents /\ rxErrored' = rxErrored
      BY <1>5 DEF Goto
    <2>12. Steady'
      BY <1>2, <2>11 DEF Steady, Closed, RxTyped, RxStates
    <2>13. InFrame(rxFrames, rxCfg, rxState', i, rx', rxEvents', Coming(c))
      BY <2>4, <2>10, <2>11 DEF InFrame
    <2>14. Fit(rxFrames, rxCfg, rxState', rx', rxEvents', Coming(c))
      BY <2>13 DEF Fit
    <2> QED BY <1>2, <2>2, <2>12, <2>14, StepsOn
  <1> QED BY <1>4, <1>5 DEF GetMask


\* What is said is emitted at once or put off.
LEMMA NotPutOff ==
    ASSUME NEW r \in RxRegisters, r.later = << >>
    PROVE  WithLater(r, << >>) = r
  <1>1. r = [frame |-> r.frame, op |-> r.op, fin |-> r.fin, len |-> r.len, fragmented |-> r.fragmented,
             compressed |-> r.compressed, masked |-> r.masked, total |-> r.total,
             message |-> r.message, fragments |-> r.fragments, later |-> r.later]
    BY RegistersAre DEF IsRegisters
  <1> QED BY <1>1 DEF WithLater

LEMMA AfterFrame ==
    ASSUME RxTyped, NEW i \in 1 .. Len(rxFrames), NEW r, NEW events,
           Agrees(rxFrames, Meant(rxFrames, rxCfg)[i], r, events), NEW p,
           p = Wire(rxFrames, rxCfg)[Len(rxFrames) - i]
    PROVE  Between(rxFrames, rxCfg, r, events, p)
  <1>1. i \in 0 .. Len(rxFrames)
    BY Inputs
  <1> QED BY <1>1 DEF Between

\* The loop, or the callback it waits for, is at work.
Working ==
    /\ ~rxErrored /\ rxBusy = TRUE /\ RxTyped /\ rxState # "DEFER_EVENT"
    /\ UNCHANGED rxInput
LEMMA EmitOrDeferKeeps ==
    ASSUME RxInv, Working, NEW c \in 0 .. Len(Whole),
           Divides(Whole, rxBuffers', rxQueue', rxRest', c), NEW i \in 1 .. Len(rxFrames),
           Coming(c) = Wire(rxFrames, rxCfg)[Len(rxFrames) - i], NEW r \in RxRegisters,
           r.op # "close", r.later = << >>, NEW e \in RxEvent,
           Agrees(rxFrames, Meant(rxFrames, rxCfg)[i], r, Append(rxEvents, e)),
           NEW atOnce, EmitOrDefer(r, e, atOnce)
    PROVE  RxInv'
  <1>1. Between(rxFrames, rxCfg, r, Append(rxEvents, e), Coming(c))
    BY AfterFrame DEF Working
  <1>2. CASE /\ rxEvents' = Append(rxEvents, e) /\ rx' = r /\ rxState' = "GET_INFO" /\ rxLoop' = TRUE
             /\ UNCHANGED <<rxBusy, rxErrored, rxEnded>>
    <2>1. rxEvents' \in Seq(RxEvent)
      BY <1>2, AppendProperties DEF Working, RxTyped
    <2>2. Steady'
      BY <1>2, <2>1 DEF Working, Steady, Closed, RxTyped, RxStates
    <2>3. Fit(rxFrames, rxCfg, rxState', rx', rxEvents', Coming(c))
      BY <1>1, <1>2 DEF Fit
    <2> QED BY <2>2, <2>3, StepsOn DEF Working
  <1>3. CASE /\ rx' = [r EXCEPT !.later = << e >>] /\ rxState' = "DEFER_EVENT" /\ rxLoop' = FALSE
             /\ UNCHANGED <<rxEvents, rxBusy, rxErrored, rxEnded>>
    <2> DEFINE l == << e >>
               q == WithLater(r, l)
    <2>1. l \in Seq(RxEvent) /\ l # << >> /\ l[1] = e
      OBVIOUS
    <2>2. rx' = q
      BY <1>3 DEF WithLater
    <2> HIDE DEF l
    <2>3. q \in RxRegisters /\ SameFrame(q, r) /\ q.later = l /\ Shown(q) = WithLater(r, << >>)
      BY <2>1, LaterIs
    <2> HIDE DEF q
    <2>4. Shown(q) = r /\ q.op # "close"
      BY <2>3, NotPutOff DEF SameFrame
    <2>5. Steady'
      BY <1>3, <2>2, <2>3 DEF Working, Steady, Closed, RxTyped, RxStates
    <2>6. Fit(rxFrames, rxCfg, "DEFER_EVENT", q, rxEvents, Coming(c))
      BY <1>1, <2>1, <2>3, <2>4 DEF Fit
    <2>7. Fit(rxFrames, rxCfg, rxState', rx', rxEvents', Coming(c))
      BY <1>3, <2>2, <2>6
    <2> QED BY <2>5, <2>7, StepsOn DEF Working
  <1> QED BY <1>2, <1>3 DEF EmitOrDefer, Emit

\* The registers of a frame of data whose payload is read.
LEMMA DataMessageKeeps ==
    ASSUME RxInv, Working, NEW c \in 0 .. Len(Whole),
           Divides(Whole, rxBuffers', rxQueue', rxRest', c), NEW i \in 1 .. Len(rxFrames),
           Coming(c) = Wire(rxFrames, rxCfg)[Len(rxFrames) - i],
           Within(rxFrames, rxCfg, i, rx, rxEvents, TRUE), rx.op \notin Control, NEW q,
           Gathered(WithPart(Meant(rxFrames, rxCfg)[i - 1], rxFrames, i), q, rx),
           ~TooMuch(WithPart(Meant(rxFrames, rxCfg)[i - 1], rxFrames, i), rxFrames[i]),
           NEW inflated, DataMessage(q, inflated)
    PROVE  RxInv'
  <1> DEFINE s == Meant(rxFrames, rxCfg)[i - 1]
             m == Means(s, rxFrames, rxCfg, i)
             z == Reset(q)
             e == Told(q.op, q.fragments)
  <1>1. RxTyped /\ rx \in RxRegisters /\ rxFrames \in Seq(RxFrame) /\ i - 1 \in 0 .. Len(rxFrames)
    BY Inputs DEF Working, RxTyped
  <1>2. Sound(rxFrames, s) /\ Underway(rxFrames, rxCfg, s, i, rx, rxEvents, TRUE)
    BY <1>1, Inputs DEF Within
  <1>3. Meant(rxFrames, rxCfg)[i] = m
    BY <1>1, MeantIs
  <1>4. s.events = rxEvents
    BY <1>2 DEF Underway
  <1>5. Gathered(WithPart(s, rxFrames, i), q, rx) /\ ~TooMuch(WithPart(s, rxFrames, i), rxFrames[i])
    OBVIOUS
  <1> HIDE DEF s
  <1>6. q \in RxRegisters /\ q.op = rx.op /\ q.fin = rx.fin /\ q.op # "close" /\ q.later = << >>
    BY <1>5 DEF Gathered, SameFrame, Control
  <1>7. CASE /\ ~q.fin
             /\ rx' = q /\ rxState' = "GET_INFO" /\ rxLoop' = TRUE
             /\ UNCHANGED <<rxEvents, rxBusy, rxErrored, rxEnded>>
    <2>1. Agrees(rxFrames, m, q, rxEvents)
      BY <1>1, <1>2, <1>5, <1>6, <1>7, PartMeans
    <2>2. Between(rxFrames, rxCfg, q, rxEvents, Coming(c))
      BY <1>1, <1>3, <2>1, AfterFrame
    <2>3. Steady'
      BY <1>1, <1>6, <1>7 DEF Working, Steady, Closed, RxTyped, RxStates
    <2>4. Fit(rxFrames, rxCfg, rxState', rx', rxEvents', Coming(c))
      BY <1>7, <2>2 DEF Fit
    <2> QED BY <2>3, <2>4, StepsOn DEF Working
  <1>8. ASSUME q.fin
        PROVE  /\ BadParts(rxFrames, q) => m = Stops(s, Mistake(1007))
               /\ ~BadParts(rxFrames, q) => Agrees(rxFrames, m, z, Append(rxEvents, e))
               /\ e \in RxEvent
    <2>1. EndsIt(rxFrames, rxCfg, s, i, rx, q, rxEvents)
      BY <1>1, <1>2, <1>5, <1>6, <1>8, LastPartMeans
    <2> QED BY <2>1 DEF EndsIt
  <1>9. z \in RxRegisters /\ SameFrame(z, q) /\ z.message = 0 /\ z.later = q.later
    BY <1>6, ResetIs
  <1> HIDE DEF m, z, e
  <1>10. CASE q.fin /\ BadParts(rxFrames, q) /\ rx' = z /\ Fail(1007)
    <2>1. Means(s, rxFrames, rxCfg, i) = Stops(s, Mistake(1007))
      BY <1>8, <1>10 DEF m
    <2>2. MaxPayload > 0 => rx'.message <= MaxPayload
      BY <1>9, <1>10, ReceiverAssumption
    <2>3. 1007 \in Nat /\ rx' \in RxRegisters
      BY <1>9, <1>10
    <2> QED BY <1>4, <1>10, <2>1, <2>2, <2>3, Failing DEF Working, s
  <1>11. CASE /\ q.fin /\ ~BadParts(rxFrames, q)
              /\ EmitOrDefer(z, e, rxCfg.sync \/ (inflated /\ q.op = "text"))
    <2>1. Agrees(rxFrames, Meant(rxFrames, rxCfg)[i], z, Append(rxEvents, e)) /\ e \in RxEvent
      BY <1>3, <1>8, <1>11
    <2>2. z.op # "close" /\ z.later = << >>
      BY <1>6, <1>9 DEF SameFrame
    <2> DEFINE atOnce == rxCfg.sync \/ (inflated /\ q.op = "text")
    <2>3. EmitOrDefer(z, e, atOnce)
      BY <1>11
    <2> HIDE DEF atOnce
    <2> QED BY <1>9, <2>1, <2>2, <2>3, EmitOrDeferKeeps
  <1>12. BadParts(rxFrames, q) <=> q.op = "text" /\ \E j \in ToSet(q.fragments) : ~rxFrames[j].good
    BY DEF BadParts
  <1> QED BY <1>7, <1>10, <1>11, <1>12 DEF DataMessage, z, e, Told

LEMMA ControlMessageKeeps ==
    ASSUME RxInv, Working, NEW c \in 0 .. Len(Whole),
           Divides(Whole, rxBuffers', rxQueue', rxRest', c), NEW i \in 1 .. Len(rxFrames),
           Coming(c) = Wire(rxFrames, rxCfg)[Len(rxFrames) - i],
           Within(rxFrames, rxCfg, i, rx, rxEvents, TRUE), rx.op \in Control, ControlMessage
    PROVE  RxInv'
  <1> DEFINE s == Meant(rxFrames, rxCfg)[i - 1]
             m == Means(s, rxFrames, rxCfg, i)
             e == [kind |-> rx.op, frame |-> i]
             conclude == [kind |-> "conclude", frame |-> i]
  <1>1. RxTyped /\ rx \in RxRegisters /\ rxFrames \in Seq(RxFrame) /\ i - 1 \in 0 .. Len(rxFrames)
    BY Inputs DEF Working, RxTyped
  <1>2. Sound(rxFrames, s) /\ Underway(rxFrames, rxCfg, s, i, rx, rxEvents, TRUE)
    BY <1>1, Inputs DEF Within
  <1>3. Meant(rxFrames, rxCfg)[i] = m
    BY <1>1, MeantIs
  <1>4. s.events = rxEvents /\ rx.frame = i /\ rx.later = << >>
    BY <1>2 DEF Underway
  <1> HIDE DEF s
  <1>5. MaxPayload > 0 => rx.message <= MaxPayload /\ rx.total <= MaxPayload
    BY <1>1, <1>2, UnderwayKept
  <1>6. /\ rx.op = "close" /\ ~rxFrames[i].good => m = Stops(s, Mistake(1002))
        /\ rx.op = "close" /\ rxFrames[i].good => m = Stops(s, conclude)
        /\ rx.op # "close" => Agrees(rxFrames, m, rx, Append(rxEvents, e))
    <2>1. SaysItself(rxFrames, rxCfg, s, i, rx, rxEvents)
      BY <1>1, <1>2, ControlMeans
    <2> QED BY <2>1 DEF SaysItself
  <1>7. e \in RxEvent /\ conclude \in RxEvent
    <2>1. rx.op \in Opcodes \cup {"conclude"} /\ "conclude" \in Opcodes \cup {"conclude"} /\ i \in Nat
      BY DEF Opcodes
    <2> QED BY <2>1, EventsAre
  <1> HIDE DEF m, e, conclude
  <1>8. CASE rx.op = "close" /\ ~rxFrames[i].good /\ Fail(1002) /\ rx' = rx
    <2>1. Means(s, rxFrames, rxCfg, i) = Stops(s, Mistake(1002))
      BY <1>6, <1>8 DEF m
    <2>2. 1002 \in Nat /\ rx' \in RxRegisters /\ (MaxPayload > 0 => rx'.message <= MaxPayload)
      BY <1>1, <1>5, <1>8
    <2> QED BY <1>4, <1>8, <2>1, <2>2, Failing DEF Working, s
  <1>9. CASE /\ rx.op = "close" /\ rxFrames[i].good
             /\ rxEvents' = Append(rxEvents, conclude)
             /\ rxLoop' = FALSE /\ rxBusy' = FALSE /\ rxEnded' = TRUE /\ rxState' = "GET_INFO"
             /\ rx' = rx /\ rxErrored' = rxErrored
    <2>1. Means(s, rxFrames, rxCfg, i) = Stops(s, conclude)
      BY <1>6, <1>9 DEF m
    <2>2. StartsWith(Meaning(rxFrames, rxCfg), rxEvents)' /\ rxEvents' \in Seq(RxEvent)
      BY <1>1, <1>4, <1>7, <1>9, <2>1, Stopping DEF Working, s
    <2>3. rxFrames' = rxFrames /\ rxCfg' = rxCfg
      BY DEF Working, rxInput
    <2>4. RxTyped'
      BY <1>1, <1>9, <2>2, <2>3 DEF RxTyped, RxStates
    <2>5. RxControlled' /\ Closed' /\ KeptWithinLimit'
      BY <1>5, <1>9 DEF RxControlled, Closed, KeptWithinLimit, Working
    <2> QED BY <2>2, <2>4, <2>5 DEF RxInv
  <1>10. CASE rx.op # "close" /\ EmitOrDefer(rx, e, rxCfg.sync)
    <2>1. Agrees(rxFrames, Meant(rxFrames, rxCfg)[i], rx, Append(rxEvents, e))
      BY <1>3, <1>6, <1>10
    <2> DEFINE atOnce == rxCfg.sync
    <2>2. EmitOrDefer(rx, e, atOnce)
      BY <1>10
    <2> HIDE DEF atOnce
    <2> QED BY <1>1, <1>4, <1>7, <1>10, <2>1, <2>2, EmitOrDeferKeeps
  <1> QED BY <1>4, <1>8, <1>9, <1>10 DEF ControlMessage, Emit, e, conclude


LEMMA DataRead ==
    ASSUME RxTyped, NEW i \in 1 .. Len(rxFrames)
    PROVE  LET rest == Wire(rxFrames, rxCfg)[Len(rxFrames) - i]
           IN  /\ rxFrames[i].len > 0 => Tail(FromData(rxFrames, rxCfg, i)) = rest
               /\ ~(rxFrames[i].len > 0) => FromData(rxFrames, rxCfg, i) = rest
  <1> DEFINE rest == Wire(rxFrames, rxCfg)[Len(rxFrames) - i]
             some == rxFrames[i].len > 0
  <1>1. rxFrames \in Seq(RxFrame) /\ rxCfg \in RxOptions
    BY Inputs
  <1>2. rest \in Seq(RxUnit)
    BY <1>1, FromsAre
  <1>3. i \in Nat /\ some \in BOOLEAN
    BY <1>1, FrameFields
  <1>4. FromData(rxFrames, rxCfg, i) = Unit("data", i, some) \o rest
    BY DEF FromData
  <1> HIDE DEF rest, some
  <1>5. CASE some
    <2>1. Tail(Unit("data", i, some) \o rest) = rest
      BY <1>2, <1>3, <1>5, UnitBefore
    <2> QED BY <1>4, <1>5, <2>1 DEF rest, some
  <1>6. CASE ~some
    <2>1. Unit("data", i, some) = << >>
      BY <1>6 DEF Unit
    <2>2. << >> \o rest = rest
      BY <1>2, ConcatEmptySeq
    <2> QED BY <1>4, <1>6, <2>1, <2>2 DEF rest, some
  <1> QED BY <1>5, <1>6

LEMMA GetDataKeeps ==
    ASSUME RxInv, GetData
    PROVE  RxInv'
  <1>1. Turn("GET_DATA")
    BY DEF GetData
  <1>2. ~rxErrored /\ rxBusy = TRUE /\ rxLoop = TRUE /\ rxState = "GET_DATA" /\ RxTyped
        /\ UNCHANGED rxInput /\ rxQueue' = rxQueue /\ rxRest' = rxRest
    BY <1>1, Turning
  <1>3. PICK b \in 0 .. Len(Whole) : Buffered(b)
    BY <1>1, Turning
  <1>4. CASE Wait("data")
    BY <1>1, <1>4, WaitKeeps
  <1>5. CASE /\ rx.len > 0 => Has("data")
             /\ rxBuffers' = IF rx.len > 0 THEN Tail(rxBuffers) ELSE rxBuffers
             /\ \/ rx.op \in Control /\ ControlMessage
                \/ /\ rx.op \notin Control /\ rx.compressed
                   /\ rxState' = "INFLATING" /\ rxLoop' = FALSE
                   /\ UNCHANGED <<rx, rxBusy, rxEvents, rxErrored, rxEnded>>
                \/ /\ rx.op \notin Control /\ ~rx.compressed
                   /\ DataMessage(IF rx.len > 0 THEN Collected(rx, rx.total) ELSE rx, FALSE)
    <2>1. Fit(rxFrames, rxCfg, rxState, rx, rxEvents, Coming(b)) /\ Divides(Whole, rxBuffers, rxQueue, rxRest, b)
      BY <1>3 DEF Buffered
    <2>2. PICK i \in 1 .. Len(rxFrames) : InFrame(rxFrames, rxCfg, rxState, i, rx, rxEvents, Coming(b))
      BY <1>2, <2>1 DEF Fit
    <2> DEFINE s == Meant(rxFrames, rxCfg)[i - 1]
               rest == Wire(rxFrames, rxCfg)[Len(rxFrames) - i]
    <2>3. Within(rxFrames, rxCfg, i, rx, rxEvents, TRUE) /\ Coming(b) = FromData(rxFrames, rxCfg, i)
      BY <1>2, <2>2 DEF InFrame
    <2>4. rxFrames \in Seq(RxFrame) /\ i - 1 \in 0 .. Len(rxFrames) /\ rx \in RxRegisters
      BY <1>2, Inputs DEF RxTyped
    <2>5. Sound(rxFrames, s) /\ Underway(rxFrames, rxCfg, s, i, rx, rxEvents, TRUE)
      BY <1>2, <2>3, <2>4, Inputs DEF Within
    <2>6. rx.len = rxFrames[i].len
      BY <2>5 DEF Underway
    <2>7. \E c \in 0 .. Len(Whole) : Divides(Whole, rxBuffers', rxQueue', rxRest', c) /\ Coming(c) = rest
      <3>1. CASE rx.len > 0
        <4>1. rxBuffers # << >>
          BY <1>5, <3>1 DEF Has
        <4> DEFINE c == b + 1
        <4>2. c \in 0 .. Len(Whole) /\ Divides(Whole, Tail(rxBuffers), rxQueue, rxRest, c)
              /\ Coming(c) = Tail(Coming(b))
          BY <1>3, <4>1 DEF Buffered
        <4> HIDE DEF c
        <4>3. Tail(FromData(rxFrames, rxCfg, i)) = rest
          BY <1>2, <2>6, <3>1, DataRead
        <4> QED BY <1>2, <1>5, <2>3, <3>1, <4>2, <4>3
      <3>2. CASE ~(rx.len > 0)
        <4>1. FromData(rxFrames, rxCfg, i) = rest
          BY <1>2, <2>6, <3>2, DataRead
        <4> QED BY <1>2, <1>5, <2>1, <2>3, <3>2, <4>1
      <3> QED BY <3>1, <3>2
    <2>8. PICK c \in 0 .. Len(Whole) : Divides(Whole, rxBuffers', rxQueue', rxRest', c) /\ Coming(c) = rest
      BY <2>7
    <2>9. Working
      BY <1>2 DEF Working
    <2>10. CASE rx.op \in Control /\ ControlMessage
      BY <2>3, <2>8, <2>9, <2>10, ControlMessageKeeps
    <2>11. CASE /\ rx.op \notin Control /\ rx.compressed
                /\ rxState' = "INFLATING" /\ rxLoop' = FALSE
                /\ UNCHANGED <<rx, rxBusy, rxEvents, rxErrored, rxEnded>>
      <3>1. Steady'
        BY <1>2, <2>4, <2>11 DEF Steady, RxTyped, RxStates
      <3>2. rxFrames[i].op \notin Control
        <4>1. FrameKnown(rxFrames, rxCfg, s, i, rx, rxEvents)
          <5> HIDE DEF s
          <5> QED BY <2>4, <2>5, UnderwayIs
        <4> QED BY <2>11, <4>1 DEF FrameKnown
      <3>3. InFrame(rxFrames, rxCfg, rxState', i, rx', rxEvents', Coming(c))
        BY <2>3, <2>8, <2>11, <3>2 DEF InFrame
      <3>4. Fit(rxFrames, rxCfg, rxState', rx', rxEvents', Coming(c))
        BY <3>3 DEF Fit
      <3> QED BY <1>2, <2>8, <3>1, <3>4, StepsOn
    <2>12. CASE /\ rx.op \notin Control /\ ~rx.compressed
                /\ DataMessage(IF rx.len > 0 THEN Collected(rx, rx.total) ELSE rx, FALSE)
      <3> DEFINE n == Length(rxFrames, FirstOf(s, i), i)
                 t == WithPart(s, rxFrames, i)
                 q == IF rx.len > 0 THEN Collected(rx, rx.total) ELSE rx
      <3>1. LengthKnown(rxFrames, s, i, rx)
        <4> HIDE DEF s
        <4> QED BY <2>4, <2>5, <2>12, LengthIs
      <3>2. s.size \in Nat /\ n \in Nat /\ t.size = s.size + n /\ n = rx.len /\ rx.total = s.size + n
            /\ ~TooMuch(t, rxFrames[i])
        BY <2>6, <2>12, <3>1 DEF LengthKnown
      <3>3. Gathered(t, IF n > 0 THEN Collected(rx, rx.total) ELSE rx, rx)
        <4>1. rx.total \in Nat
          BY <3>2
        <4> HIDE DEF s
        <4> QED BY <2>4, <2>5, <2>12, <3>2, <4>1, GatheredFrom
      <3>4. Gathered(t, q, rx)
        BY <3>2, <3>3
      <3>5. DataMessage(q, FALSE)
        BY <2>12
      <3> HIDE DEF q, n
      <3> QED BY <2>3, <2>8, <2>9, <2>12, <3>2, <3>4, <3>5, DataMessageKeeps
    <2> QED BY <1>5, <2>10, <2>11, <2>12
  <1> QED BY <1>4, <1>5 DEF GetData

\* What Inflated does with a payload of n units, size units with what came before.
InflatesTo(n, size) ==
    \/ n > 0 /\ MaxPayload > 0 /\ size > MaxPayload /\ Fail(1009) /\ rx' = rx
    \/ /\ n > 0 => MaxPayload = 0 \/ size <= MaxPayload
       /\ DataMessage(IF n > 0 THEN Collected(rx, size) ELSE rx, TRUE)

LEMMA InflatedKeeps ==
    ASSUME RxInv, Inflated
    PROVE  RxInv'
  <1>1. rxState = "INFLATING" /\ ~rxErrored /\ UNCHANGED rxInput /\ rxQueue' = rxQueue
        /\ rxRest' = rxRest /\ rxBuffers' = rxBuffers
    BY DEF Inflated
  <1>2. RxTyped /\ rxBusy = TRUE /\ ~Closed
    BY <1>1 DEF RxInv, RxTyped, RxControlled, Closed
  <1>3. Working
    BY <1>1, <1>2 DEF Working
  <1>4. PICK c \in 0 .. Len(Whole) : Buffered(c)
    BY <1>1, <1>2, Buffering
  <1>5. Fit(rxFrames, rxCfg, rxState, rx, rxEvents, Coming(c)) /\ Divides(Whole, rxBuffers', rxQueue', rxRest', c)
    BY <1>1, <1>4 DEF Buffered
  <1>6. PICK i \in 1 .. Len(rxFrames) : InFrame(rxFrames, rxCfg, rxState, i, rx, rxEvents, Coming(c))
    BY <1>1, <1>5 DEF Fit
  <1> DEFINE s == Meant(rxFrames, rxCfg)[i - 1]
             t == WithPart(s, rxFrames, i)
             n == Length(rxFrames, FirstOf(s, i), i)
             f == rxFrames[i]
             length == rx.message + f.out
  <1>7. /\ Within(rxFrames, rxCfg, i, rx, rxEvents, TRUE) /\ f.op \notin Control /\ rx.compressed
        /\ Coming(c) = Wire(rxFrames, rxCfg)[Len(rxFrames) - i]
    BY <1>1, <1>6 DEF InFrame
  <1>8. rxFrames \in Seq(RxFrame) /\ i - 1 \in 0 .. Len(rxFrames) /\ rx \in RxRegisters
    BY <1>2, Inputs DEF RxTyped
  <1>9. Sound(rxFrames, s) /\ Underway(rxFrames, rxCfg, s, i, rx, rxEvents, TRUE)
    BY <1>2, <1>7, <1>8, Inputs DEF Within
  <1> HIDE DEF s
  <1>10. FrameKnown(rxFrames, rxCfg, s, i, rx, rxEvents)
    BY <1>8, <1>9, UnderwayIs
  <1>11. ~s.over /\ s.events = rxEvents /\ Legal(s, f, rxCfg) /\ rx.frame = i /\ rx.op \notin Control
    BY <1>7, <1>10 DEF FrameKnown
  <1>12. LengthKnown(rxFrames, s, i, rx)
    BY <1>8, <1>9, <1>11, LengthIs
  <1>13. s.size \in Nat /\ n \in Nat /\ rx.message = s.size /\ t.size = s.size + n /\ n = f.out
         /\ (TooMuch(t, f) <=> MaxPayload > 0 /\ t.size > MaxPayload) /\ (n = 0 => ~TooMuch(t, f))
    BY <1>7, <1>12 DEF LengthKnown
  <1>14. length = t.size /\ length \in Nat /\ length = s.size + n
    BY <1>13
  <1>15. CASE f.out > 0 /\ MaxPayload > 0 /\ length > MaxPayload /\ Fail(1009) /\ rx' = rx
    <2>1. TooMuch(t, f)
      BY <1>13, <1>14, <1>15
    <2>2. Means(s, rxFrames, rxCfg, i) = MeansData(s, rxFrames, i)
      BY <1>7, <1>11 DEF Means
    <2>3. Goes(MeansData(s, rxFrames, i), s, t, rxFrames, i)
      BY MeansDataGoes
    <2>4. Means(s, rxFrames, rxCfg, i) = Stops(s, Mistake(1009))
      BY <2>1, <2>2, <2>3 DEF Goes
    <2>5. 1009 \in Nat /\ rx' \in RxRegisters
      BY <1>8, <1>15
    <2>6. MaxPayload > 0 => rx'.message <= MaxPayload
      BY <1>8, <1>9, <1>15, UnderwayKept
    <2> QED BY <1>3, <1>11, <1>15, <2>4, <2>5, <2>6, Failing DEF Working, s
  <1>16. CASE /\ f.out > 0 => MaxPayload = 0 \/ length <= MaxPayload
              /\ DataMessage(IF f.out > 0 THEN Collected(rx, length) ELSE rx, TRUE)
    <2> DEFINE q == IF f.out > 0 THEN Collected(rx, length) ELSE rx
    <2>1. ~TooMuch(t, f)
      <3>1. CASE f.out > 0
        BY <1>13, <1>14, <1>16, <3>1, ReceiverAssumption
      <3>2. CASE ~(f.out > 0)
        BY <1>13, <3>2
      <3> QED BY <3>1, <3>2
    <2>2. Gathered(t, IF n > 0 THEN Collected(rx, length) ELSE rx, rx)
      <3> HIDE DEF length
      <3> QED BY <1>8, <1>9, <1>11, <1>13, <1>14, GatheredFrom
    <2>3. Gathered(t, q, rx)
      BY <1>13, <2>2
    <2>4. DataMessage(q, TRUE)
      BY <1>16
    <2> HIDE DEF q, n
    <2> QED BY <1>3, <1>5, <1>7, <1>11, <2>1, <2>3, <2>4, DataMessageKeeps DEF s
  <1>17. \/ f.out > 0 /\ MaxPayload > 0 /\ length > MaxPayload /\ Fail(1009) /\ rx' = rx
         \/ /\ f.out > 0 => MaxPayload = 0 \/ length <= MaxPayload
            /\ DataMessage(IF f.out > 0 THEN Collected(rx, length) ELSE rx, TRUE)
    <2>1. InflatesTo(rxFrames[rx.frame].out, rx.message + rxFrames[rx.frame].out)
      BY DEF Inflated, InflatesTo
    <2>2. rx.frame = i
      BY <1>11
    <2>3. InflatesTo(f.out, length)
      BY <2>1, <2>2
    <2> QED BY <2>3 DEF InflatesTo
  <1> DEFINE Over == f.out > 0 /\ MaxPayload > 0 /\ length > MaxPayload /\ Fail(1009) /\ rx' = rx
             Bearable == /\ f.out > 0 => MaxPayload = 0 \/ length <= MaxPayload
                         /\ DataMessage(IF f.out > 0 THEN Collected(rx, length) ELSE rx, TRUE)
  <1>18. (Over => RxInv') /\ (Bearable => RxInv') /\ (Over \/ Bearable)
    BY <1>15, <1>16, <1>17
  <1> HIDE DEF Over, Bearable
  <1> QED BY <1>18

LEMMA DeferredKeeps ==
    ASSUME RxInv, Deferred
    PROVE  RxInv'
  <1>1. /\ rxState = "DEFER_EVENT" /\ rxEvents' = Append(rxEvents, rx.later[1])
        /\ rx' = Shown(rx) /\ rxState' = "GET_INFO" /\ rxLoop' = TRUE
        /\ UNCHANGED rxInput /\ rxRest' = rxRest /\ rxQueue' = rxQueue /\ rxBuffers' = rxBuffers
        /\ rxBusy' = rxBusy /\ rxErrored' = rxErrored
    BY DEF Deferred, Emit, Shown
  <1>2. RxTyped /\ rxBusy = TRUE /\ ~rxErrored /\ ~Closed
    BY <1>1 DEF RxInv, RxTyped, RxControlled, Closed
  <1>3. PICK c \in 0 .. Len(Whole) : Buffered(c)
    BY <1>2, Buffering
  <1>4. Fit(rxFrames, rxCfg, rxState, rx, rxEvents, Coming(c)) /\ Divides(Whole, rxBuffers', rxQueue', rxRest', c)
    BY <1>1, <1>3 DEF Buffered
  <1>5. /\ rx.op # "close" /\ rx.later # << >>
        /\ Between(rxFrames, rxCfg, Shown(rx), Append(rxEvents, rx.later[1]), Coming(c))
    BY <1>1, <1>4 DEF Fit, InFrame
  <1>6. Shown(rx) \in RxRegisters /\ Shown(rx).op = rx.op
    <2>1. rx \in RxRegisters /\ << >> \in Seq(RxEvent) /\ Shown(rx) = WithLater(rx, << >>)
      BY <1>2 DEF RxTyped, Shown, WithLater
    <2>2. WithLater(rx, << >>) \in RxRegisters /\ SameFrame(WithLater(rx, << >>), rx)
      BY <2>1, LaterIs
    <2> QED BY <2>1, <2>2 DEF SameFrame
  <1>7. rxEvents' \in Seq(RxEvent)
    <2>1. rx.later \in Seq(RxEvent) /\ rxEvents \in Seq(RxEvent)
      BY <1>2, RegistersAre DEF RxTyped, RegisterTypes
    <2>2. rx.later[1] \in RxEvent
      BY <1>5, <2>1
    <2> QED BY <1>1, <2>1, <2>2, AppendProperties
  <1>8. Steady'
    BY <1>1, <1>2, <1>5, <1>6, <1>7 DEF Steady, Closed, RxTyped, RxStates
  <1>9. Fit(rxFrames, rxCfg, rxState', rx', rxEvents', Coming(c))
    BY <1>1, <1>5 DEF Fit
  <1> QED BY <1>1, <1>4, <1>8, <1>9, StepsOn


-----------------------------------------------------------------------------
LEMMA RxStarts ==
    ASSUME RxInit
    PROVE  RxInv
  <1>1. /\ rxFrames \in RxInputs /\ rxCfg \in RxConfigs /\ rxRest = Whole
        /\ rxQueue = << >> /\ rxBuffers = << >> /\ rxBusy = FALSE /\ rxState = "GET_INFO"
        /\ rxLoop = FALSE /\ rx = Registers /\ rxEvents = << >> /\ rxErrored = FALSE
    BY DEF RxInit, Whole
  <1>2. rx \in RxRegisters
    <2>1. << >> \in Seq(Nat) /\ << >> \in Seq(RxEvent) /\ 0 \in Nat
      OBVIOUS
    <2> QED BY <1>1, <2>1 DEF Registers, RxRegisters
  <1>3. RxTyped
    <2>1. << >> \in Seq(RxEvent)
      OBVIOUS
    <2>2. rxEvents \in Seq(RxEvent) /\ rxState \in RxStates
      BY <1>1, <2>1 DEF RxStates
    <2> QED BY <1>1, <1>2, <2>2 DEF RxTyped
  <1>4. RxControlled
    BY <1>1 DEF RxControlled
  <1>5. rxFrames \in Seq(RxFrame) /\ Whole \in Seq(RxUnit) /\ Len(rxFrames) \in Nat
        /\ Sound(rxFrames, NothingMeant) /\ ~NothingMeant.over
    <2>1. rxFrames \in Seq(RxFrame) /\ Whole \in Seq(RxUnit)
      BY <1>3, Inputs
    <2> QED BY <2>1, NothingIsMeant
  <1>6. Divides(Whole, rxBuffers, rxQueue, rxRest, 0)
    BY <1>1, <1>5, DividesAtFirst
  <1>7. Agrees(rxFrames, NothingMeant, rx, rxEvents)
    BY <1>1 DEF Agrees, Fragmented, NothingMeant, Registers
  <1>8. Meant(rxFrames, rxCfg)[0] = NothingMeant
    BY <1>5, MeantIs
  <1>9. Coming(0) = Whole
    <2>1. 0 + 1 = 1 /\ SubSeq(Whole, 1, Len(Whole)) = Whole
      BY <1>5, SubSeqFull
    <2> QED BY <2>1 DEF Coming
  <1>10. Between(rxFrames, rxCfg, rx, rxEvents, Coming(0))
    <2>1. 0 \in 0 .. Len(rxFrames) /\ Len(rxFrames) - 0 = Len(rxFrames)
      BY <1>5
    <2>2. Coming(0) = Wire(rxFrames, rxCfg)[Len(rxFrames) - 0]
      BY <1>9, <2>1 DEF Whole
    <2>3. Agrees(rxFrames, Meant(rxFrames, rxCfg)[0], rx, rxEvents)
      BY <1>7, <1>8
    <2> QED BY <2>1, <2>2, <2>3 DEF Between
  <1>11. Fit(rxFrames, rxCfg, rxState, rx, rxEvents, Coming(0))
    BY <1>1, <1>10 DEF Fit
  <1>12. InStep
    <2>1. 0 \in 0 .. Len(Whole)
      BY <1>5
    <2> QED BY <1>6, <1>11, <2>1 DEF InStep
  <1>13. rx \in RxRegisters /\ rxEvents \in Seq(RxEvent)
    BY <1>3 DEF RxTyped
  <1>14. /\ MaxPayload > 0 => rx.message <= MaxPayload /\ rx.total <= MaxPayload
         /\ StartsWith(Meaning(rxFrames, rxCfg), rxEvents)
    BY <1>5, <1>11, <1>13, FitGives
  <1> QED BY <1>3, <1>4, <1>12, <1>14 DEF RxInv, KeptWithinLimit

LEMMA RxStays ==
    ASSUME RxInv, [RxNext]_rxVars
    PROVE  RxInv'
  <1>1. CASE Data
    BY <1>1, DataKeeps
  <1>2. CASE NextChunk
    BY <1>2, NextChunkKeeps
  <1>3. CASE Drain \/ PauseReading \/ ResumeReading \/ EndOfSocket \/ Finish
    BY <1>3, FlowKeeps
  <1>4. CASE GetInfo
    BY <1>4, GetInfoKeeps
  <1>5. CASE GetPayloadLength16 \/ GetPayloadLength64
    BY <1>5, GetPayloadLengthKeeps
  <1>6. CASE GetMask
    BY <1>6, GetMaskKeeps
  <1>7. CASE GetData
    BY <1>7, GetDataKeeps
  <1>8. CASE Inflated
    BY <1>8, InflatedKeeps
  <1>9. CASE Deferred
    BY <1>9, DeferredKeeps
  <1>10. CASE UNCHANGED rxVars
    <2>1. /\ UNCHANGED <<rxInput, rxBusy, rxState, rxLoop, rx, rxEvents, rxErrored>>
          /\ UNCHANGED <<rxBuffers, rxQueue, rxRest>>
      BY <1>10 DEF rxVars
    <2> QED BY <2>1, Aside
  <1> QED BY <1>1, <1>2, <1>3, <1>4, <1>5, <1>6, <1>7, <1>8, <1>9, <1>10 DEF RxNext, LoopTurn

\* Whatever the loop, the socket and the callbacks do, what is still to be read is
\* the wire from some frame on, in the stream's buffers, in the receiver's and
\* ahead, and the registers hold what the frames before it mean (receiver.js).
THEOREM ReceiverInvariant == RxSpec => []RxInv
  <1>1. RxInit => RxInv
    BY RxStarts
  <1>2. RxInv /\ [RxNext]_rxVars => RxInv'
    BY RxStays
  <1> QED BY <1>1, <1>2, PTL DEF RxSpec

\* The receiver is always in one of its states, its registers hold what they may,
\* and it waits for a callback only while its write is not done (receiver.js).
THEOREM ReceiverTypeCorrect == RxSpec => []RxTypeOK
  <1>1. RxInv => RxTypeOK
    <2>1. ASSUME RxInv PROVE RxTypeOK
      <3>1. RxTyped /\ RxControlled
        BY <2>1 DEF RxInv
      <3>2. RegisterTypes(rx)
        BY <3>1, RegistersAre DEF RxTyped
      <3> QED BY <3>1, <3>2 DEF RxTypeOK, RxTyped, RxControlled, RxStates, RegisterTypes
    <2> QED BY <2>1
  <1> QED BY <1>1, ReceiverInvariant, PTL

\* For any frames, options, limits and lengths, however their bytes are cut into
\* chunks, the events are the first of those that the frames mean.
THEOREM ReceiverIsExact == RxSpec => []EventsAreTheFrames
  <1>1. ASSUME RxInv PROVE EventsAreTheFrames
    <2> DEFINE m == Meaning(rxFrames, rxCfg)
    <2>1. StartsWith(m, rxEvents) /\ rxEvents \in Seq(RxEvent) /\ RxTyped
      BY <1>1 DEF RxInv, RxTyped
    <2>2. m \in Seq(RxEvent)
      <3>1. rxFrames \in Seq(RxFrame) /\ 0 \in 0 .. Len(rxFrames)
        BY <2>1, Inputs
      <3> QED BY <3>1, MeantGrows
    <2> HIDE DEF m
    <2>3. Len(rxEvents) <= Len(m) /\ \A j \in 1 .. Len(rxEvents) : rxEvents[j] = m[j]
      BY <2>1 DEF StartsWith
    <2>4. SubSeq(rxEvents, 1, Len(rxEvents)) = SubSeq(m, 1, Len(rxEvents))
      BY <2>1, <2>2, <2>3
    <2> QED BY <2>3, <2>4 DEF EventsAreTheFrames, IsPrefix, m
  <1>2. RxInv => EventsAreTheFrames
    BY <1>1
  <1> QED BY <1>2, ReceiverInvariant, PTL

\* A message that is not complete never takes more than the limit.
THEOREM ReceiverKeepsTheLimit == RxSpec => []KeptWithinLimit
  <1>1. RxInv => KeptWithinLimit
    BY DEF RxInv
  <1> QED BY <1>1, ReceiverInvariant, PTL

-----------------------------------------------------------------------------
(* The four together.                                                      *)

\* A step of the run is a step of every part, or that part stands still: what
\* holds of a part by itself holds of it in the run.
THEOREM PartsAreThemselves == TransportSpec => LinkSpec /\ RxSpec /\ TxSpec /\ HsSpec
  <1>1. TransportInit => LinkInit /\ RxInit /\ TxInit /\ HsInit
    BY DEF TransportInit
  <1>2. ASSUME [TransportNext]_transportVars
        PROVE  /\ [LinkNext]_linkVars /\ [RxNext]_rxVars
               /\ [TxNext]_txVars /\ [HsNext]_hsVars
    <2>1. CASE LinkMoves(LinkNext)
      BY <2>1 DEF LinkMoves
    <2>2. CASE ReceiverMoves(RxNext)
      BY <2>2 DEF ReceiverMoves
    <2>3. CASE SenderMoves(TxNext)
      BY <2>3 DEF SenderMoves
    <2>4. CASE HandshakeMoves(HsNext)
      BY <2>4 DEF HandshakeMoves
    <2>5. CASE UNCHANGED transportVars
      BY <2>5 DEF transportVars
    <2> QED BY <1>2, <2>1, <2>2, <2>3, <2>4, <2>5 DEF TransportNext
  <1>3. /\ [TransportNext]_transportVars => [LinkNext]_linkVars
        /\ [TransportNext]_transportVars => [RxNext]_rxVars
        /\ [TransportNext]_transportVars => [TxNext]_txVars
        /\ [TransportNext]_transportVars => [HsNext]_hsVars
    BY <1>2
  <1> QED BY <1>1, <1>3, PTL DEF TransportSpec, LinkSpec, RxSpec, TxSpec, HsSpec

\* Whichever part of the library moves, the state of all four stays typed.
THEOREM TransportTypeCorrect == TransportSpec => []TransportTypeOK
  <1>1. LinkTypeOK /\ RxTypeOK /\ TxTypeOK /\ HsTypeOK => TransportTypeOK
    BY DEF TransportTypeOK
  <1> QED BY <1>1, PartsAreThemselves, LinkTypeCorrect, ReceiverTypeCorrect,
             SenderTypeCorrect, HandshakeTypeCorrect, PTL
=============================================================================
