--------------------------- MODULE FileSync_proofs ---------------------------
(***************************************************************************)
(* Theorems about FileSync for any peers, edits and bound.                 *)
(***************************************************************************)
EXTENDS FileSync, SequenceTheorems, TLAPS

-----------------------------------------------------------------------------
(* Queues.                                                                 *)

\* A queue of one type grows, shrinks at its head, and loses one element.
LEMMA QueueGrows ==
    ASSUME NEW S, NEW s \in Seq(S), NEW x \in S PROVE Append(s, x) \in Seq(S)
  OBVIOUS

LEMMA QueueLoses ==
    ASSUME NEW S, NEW s \in Seq(S), NEW i \in 1 .. Len(s)
    PROVE  SubSeq(s, 1, i - 1) \o SubSeq(s, i + 1, Len(s)) \in Seq(S)
  <1>1. SubSeq(s, 1, i - 1) \in Seq(S)
    OBVIOUS
  <1>2. SubSeq(s, i + 1, Len(s)) \in Seq(S)
    OBVIOUS
  <1> QED BY <1>1, <1>2

\* Taking the i-th element out of a queue keeps every other one.
LEMMA RestStaysAfterRemoval ==
    ASSUME NEW S, NEW s \in Seq(S), NEW i \in 1 .. Len(s), NEW j \in 1 .. Len(s), i # j
    PROVE  \E k \in 1 .. Len(SubSeq(s, 1, i - 1) \o SubSeq(s, i + 1, Len(s))) :
               (SubSeq(s, 1, i - 1) \o SubSeq(s, i + 1, Len(s)))[k] = s[j]
  <1> DEFINE a == SubSeq(s, 1, i - 1)  b == SubSeq(s, i + 1, Len(s))
  <1>1. a \in Seq(S) /\ Len(a) = i - 1 /\ \A n \in 1 .. i - 1 : a[n] = s[n]
    OBVIOUS
  <1>2. b \in Seq(S) /\ Len(b) = Len(s) - i /\ \A n \in 1 .. Len(s) - i : b[n] = s[n + i]
    OBVIOUS
  <1> HIDE DEF a, b
  <1>3. /\ Len(a \o b) = Len(a) + Len(b)
        /\ \A n \in 1 .. Len(a) + Len(b) : (a \o b)[n] = IF n <= Len(a) THEN a[n] ELSE b[n - Len(a)]
    BY <1>1, <1>2, ConcatProperties
  <1>4. CASE j < i
    <2>1. j \in 1 .. Len(a) + Len(b) /\ j <= Len(a) /\ a[j] = s[j]
      BY <1>1, <1>2, <1>4
    <2>2. j \in 1 .. Len(a \o b) /\ (a \o b)[j] = s[j]
      BY <1>3, <2>1
    <2> QED BY <2>2, Zenon DEF a, b
  <1>5. CASE j > i
    <2>1. /\ j - 1 \in 1 .. Len(a) + Len(b) /\ ~(j - 1 <= Len(a))
          /\ b[j - 1 - Len(a)] = s[j]
      BY <1>1, <1>2, <1>5
    <2>2. j - 1 \in 1 .. Len(a \o b) /\ (a \o b)[j - 1] = s[j]
      BY <1>3, <2>1
    <2> QED BY <2>2, Zenon DEF a, b
  <1>6. j < i \/ j > i
    OBVIOUS
  <1> QED BY <1>4, <1>5, <1>6, Zenon

-----------------------------------------------------------------------------
(* Types, part by part: the texts, the numbers, the handlers, the frames.  *)

LEMMA HelperTypes ==
    ASSUME FileTypeOK, NEW p \in Peer
    PROVE  /\ \A t \in Text : SavedAs(p, t) \in [Peer -> Text]
           /\ \A t \in Task : Started(p, t) \in [Peer -> Seq(Task)]
           /\ \A i \in 1 .. Len(tasks[p]) : Ended(p, i) \in [Peer -> Seq(Task)]
           /\ \A box \in [Peer -> Seq(Frame)], f \in Frame :
                  ToOthers(box, p, f) \in [Peer -> Seq(Frame)]
           /\ RequestFile(p) \in Frame
  <1>1. \A t \in Text : SavedAs(p, t) \in [Peer -> Text]
    BY DEF SavedAs, FileTypeOK
  <1>2. ASSUME NEW t \in Task PROVE Started(p, t) \in [Peer -> Seq(Task)]
    <2>1. tasks \in [Peer -> Seq(Task)]
      BY DEF FileTypeOK
    <2>2. Append(tasks[p], t) \in Seq(Task)
      BY <2>1, QueueGrows
    <2> QED BY <2>1, <2>2 DEF Started
  <1>3. ASSUME NEW i \in 1 .. Len(tasks[p]) PROVE Ended(p, i) \in [Peer -> Seq(Task)]
    <2>1. tasks \in [Peer -> Seq(Task)]
      BY DEF FileTypeOK
    <2>2. SubSeq(tasks[p], 1, i - 1) \o SubSeq(tasks[p], i + 1, Len(tasks[p])) \in Seq(Task)
      BY <2>1, QueueLoses
    <2> QED BY <2>1, <2>2 DEF Ended
  <1>4. ASSUME NEW box \in [Peer -> Seq(Frame)], NEW f \in Frame
        PROVE  ToOthers(box, p, f) \in [Peer -> Seq(Frame)]
    <2>1. \A q \in Peer : Append(box[q], f) \in Seq(Frame)
      BY QueueGrows
    <2> QED BY <2>1 DEF ToOthers
  <1>5. RequestFile(p) \in Frame
    BY DEF RequestFile, Frame
  <1> QED BY <1>1, <1>2, <1>3, <1>4, <1>5, Zenon

LEMMA InboxTypes ==
    ASSUME FileTypeOK, NEW p \in Peer, inbox[p] # << >>
    PROVE  /\ Head(inbox[p]) \in Frame
           /\ Rest(p) \in [Peer -> Seq(Frame)]
  BY DEF FileTypeOK, Rest

LEMMA FrameTypes ==
    ASSUME NEW f \in Frame
    PROVE  /\ f.type = "FILE_CHANGE" =>
                  /\ f.change.op \in {"insert", "replace"} /\ f.change.text \in Text
                  /\ f.change.version \in Nat
           /\ f.type = "FILE_REQUEST" => f.from \in Peer
           /\ f.type = "FILE_CONTENT" => f.text \in Text
  BY DEF Frame, Change

LEMMA TaskTypes ==
    ASSUME FileTypeOK, NEW p \in Peer, NEW i \in 1 .. Len(tasks[p])
    PROVE  LET t == tasks[p][i]
           IN  /\ t \in Task
               /\ t.text \in Text
               /\ t.step = "asking" => t.op \in {"insert", "replace"}
               /\ t.step \in {"opening", "writing"} => t.op \in {"insert", "replace", "fill"}
               /\ t.step = "answering" => t.op = "send" /\ t.to \in Peer
  <1>1. tasks[p][i] \in Task
    BY DEF FileTypeOK
  <1> QED BY <1>1 DEF Task

\* Proceed, for any queues it may be given and whatever it makes of them.
LEMMA ProceedTypes ==
    ASSUME FileTypeOK, NEW p \in Peer,
           NEW base \in [Peer -> Seq(Task)], NEW box \in [Peer -> Seq(Frame)],
           NEW op \in {"insert", "replace"}, NEW text \in Text, NEW ts, NEW fs,
           \/ /\ ts = [base EXCEPT ![p] =
                          Append(@, [step |-> "opening", op |-> op, text |-> text])]
              /\ fs = box
           \/ ts = base /\ fs = ToOthers(box, p, RequestFile(p))
    PROVE  ts \in [Peer -> Seq(Task)] /\ fs \in [Peer -> Seq(Frame)]
  <1> DEFINE t == [step |-> "opening", op |-> op, text |-> text]
  <1>1. CASE ts = [base EXCEPT ![p] = Append(@, t)] /\ fs = box
    <2>1. t \in Task
      BY DEF Task
    <2> HIDE DEF t
    <2>2. Append(base[p], t) \in Seq(Task)
      BY <2>1, QueueGrows
    <2> QED BY <1>1, <2>2
  <1>2. CASE ts = base /\ fs = ToOthers(box, p, RequestFile(p))
    BY <1>2, HelperTypes
  <1> QED BY <1>1, <1>2

LEMMA SendTypes ==
    ASSUME FileTypeOK, NEW p \in Peer, NEW op \in {"insert", "replace"}, NEW text \in Text,
           SendFileChange(p, op, text)
    PROVE  version' \in [Peer -> Nat] /\ burst' \in [Peer -> Change \cup {NoChange}]
  <1> DEFINE c == [op |-> op, text |-> text, version |-> version[p] + 1]
  <1>1. version[p] \in Nat
    BY DEF FileTypeOK
  <1>2. c \in Change
    BY <1>1 DEF Change
  <1>3. version' = [version EXCEPT ![p] = @ + 1] /\ burst' = [burst EXCEPT ![p] = c]
    BY DEF SendFileChange, Debounced
  <1> HIDE DEF c
  <1> QED BY <1>1, <1>2, <1>3 DEF FileTypeOK

-----------------------------------------------------------------------------
(* Every step keeps the types.                                             *)

LEMMA EditorTypes ==
    ASSUME FileTypeOK, NEW p \in Peer,
           (\E e \in Edit : Type(p, e)) \/ Save(p) \/ Flush(p)
    PROVE  FileTypeOK'
  <1>1. ASSUME NEW e \in Edit, Type(p, e) PROVE FileTypeOK'
    <2>1. made' \in Text /\ doc' \in [Peer -> Text] /\ doc'[p] \in Text
      BY <1>1 DEF Type, Text, FileTypeOK
    <2>2. disk' \in [Peer -> Text]
      BY <1>1, <2>1, HelperTypes DEF Type
    <2>3. {e} \in Text
      BY DEF Text
    <2>4. version' \in [Peer -> Nat] /\ burst' \in [Peer -> Change \cup {NoChange}]
      <3>1. CASE SendFileChange(p, "insert", {e})
        BY <2>3, <3>1, SendTypes
      <3>2. CASE UNCHANGED <<version, burst>>
        BY <3>2 DEF FileTypeOK
      <3> QED BY <1>1, <3>1, <3>2 DEF Type
    <2> QED BY <1>1, <2>1, <2>2, <2>4 DEF Type, FileTypeOK
  <1>2. CASE Save(p)
    BY <1>2 DEF Save, FileTypeOK
  <1>3. CASE Flush(p)
    <2> DEFINE f == [type |-> "FILE_CHANGE", from |-> p, change |-> burst[p]]
    <2>1. burst[p] \in Change
      BY <1>3 DEF Flush, FileTypeOK
    <2>2. f \in Frame
      BY <2>1 DEF Frame
    <2>3. inbox' = ToOthers(inbox, p, f) /\ burst' = [burst EXCEPT ![p] = NoChange]
      BY <1>3 DEF Flush
    <2> HIDE DEF f
    <2>4. inbox \in [Peer -> Seq(Frame)]
      BY DEF FileTypeOK
    <2>5. inbox' \in [Peer -> Seq(Frame)]
      BY <2>2, <2>3, <2>4, HelperTypes
    <2> QED BY <1>3, <2>3, <2>5 DEF Flush, FileTypeOK
  <1> QED BY <1>1, <1>2, <1>3

LEMMA ReceiveTypes == ASSUME FileTypeOK, NEW p \in Peer, HandleIncoming(p) PROVE FileTypeOK'
  <1>1. CASE ReceiveChange(p)
    <2> DEFINE c == Head(inbox[p]).change
    <2>1. /\ c.op \in {"insert", "replace"} /\ c.text \in Text /\ c.version \in Nat
          /\ Rest(p) \in [Peer -> Seq(Frame)] /\ tasks \in [Peer -> Seq(Task)]
      BY <1>1, InboxTypes, FrameTypes DEF ReceiveChange, Read, FileTypeOK
    <2>2. UNCHANGED <<made, doc, disk, burst, hydrated, applying>>
      BY <1>1 DEF ReceiveChange
    <2>3. CASE /\ tasks' = Started(p, [step |-> "asking", op |-> c.op, text |-> c.text])
               /\ inbox' = Rest(p) /\ UNCHANGED version
      <3> DEFINE t == [step |-> "asking", op |-> c.op, text |-> c.text]
      <3>1. t \in Task
        BY <2>1 DEF Task
      <3>2. tasks' = Started(p, t) /\ inbox' = Rest(p) /\ UNCHANGED version
        BY <2>3
      <3> HIDE DEF t, c
      <3>3. tasks' \in [Peer -> Seq(Task)] /\ inbox' \in [Peer -> Seq(Frame)]
        BY <2>1, <3>1, <3>2, HelperTypes
      <3> QED BY <2>2, <3>2, <3>3 DEF FileTypeOK
    <2>4. CASE version' = Adopted(p, c.version) /\ Proceed(p, tasks, Rest(p), c)
      <3> HIDE DEF c
      <3>1. tasks' \in [Peer -> Seq(Task)] /\ inbox' \in [Peer -> Seq(Frame)]
        BY <2>1, <2>4, ProceedTypes, Zenon DEF Proceed
      <3>2. version' \in [Peer -> Nat]
        BY <2>1, <2>4 DEF Adopted, FileTypeOK
      <3> QED BY <2>2, <3>1, <3>2 DEF FileTypeOK
    <2> QED BY <1>1, <2>3, <2>4 DEF ReceiveChange
  <1>2. CASE ReceiveRequest(p)
    <2> DEFINE t == [step |-> "answering", op |-> "send", text |-> disk[p],
                     to |-> Head(inbox[p]).from]
    <2>1. Head(inbox[p]).from \in Peer /\ Rest(p) \in [Peer -> Seq(Frame)]
      BY <1>2, InboxTypes, FrameTypes DEF ReceiveRequest, Read
    <2>2. t \in Task
      BY <2>1 DEF Task, FileTypeOK
    <2>3. tasks' = Started(p, t) /\ inbox' = Rest(p)
          /\ UNCHANGED <<made, doc, disk, version, burst, hydrated, applying>>
      BY <1>2 DEF ReceiveRequest
    <2> HIDE DEF t
    <2>4. tasks' \in [Peer -> Seq(Task)]
      BY <2>2, <2>3, HelperTypes
    <2> QED BY <2>1, <2>3, <2>4 DEF FileTypeOK
  <1>3. CASE ReceiveContent(p)
    <2> DEFINE t == [step |-> "opening", op |-> "fill", text |-> Head(inbox[p]).text]
    <2>1. Head(inbox[p]).text \in Text /\ Rest(p) \in [Peer -> Seq(Frame)]
      BY <1>3, InboxTypes, FrameTypes DEF ReceiveContent, Read
    <2>2. t \in Task
      BY <2>1 DEF Task
    <2>3. tasks' = Started(p, t) /\ inbox' = Rest(p)
          /\ applying' = [applying EXCEPT ![p] = "yes"]
          /\ UNCHANGED <<made, doc, disk, version, burst, hydrated>>
      BY <1>3 DEF ReceiveContent
    <2> HIDE DEF t
    <2>4. tasks' \in [Peer -> Seq(Task)]
      BY <2>2, <2>3, HelperTypes
    <2> QED BY <2>1, <2>3, <2>4 DEF FileTypeOK
  <1> QED BY <1>1, <1>2, <1>3 DEF HandleIncoming

LEMMA ContinueTypes == ASSUME FileTypeOK, NEW p \in Peer, Continue(p) PROVE FileTypeOK'
  <1> PICK i \in 1 .. Len(tasks[p]) :
             Accept(p, i) \/ Decline(p, i) \/ AnswerRequest(p, i) \/ Opened(p, i) \/ Written(p, i)
    BY DEF Continue
  <1> DEFINE t == tasks[p][i]
  <1>1. /\ t.text \in Text
        /\ t.step = "asking" => t.op \in {"insert", "replace"}
        /\ t.step \in {"opening", "writing"} => t.op \in {"insert", "replace", "fill"}
        /\ t.step = "answering" => t.to \in Peer
        /\ Ended(p, i) \in [Peer -> Seq(Task)]
    BY TaskTypes, HelperTypes
  <1>2. CASE Accept(p, i)
    <2>1. t.op \in {"insert", "replace"} /\ Proceed(p, Ended(p, i), inbox, t)
      BY <1>1, <1>2 DEF Accept, Underway
    <2>2. UNCHANGED <<made, doc, disk, version, burst, hydrated, applying>>
      BY <1>2 DEF Accept
    <2>3. inbox \in [Peer -> Seq(Frame)]
      BY DEF FileTypeOK
    <2> HIDE DEF t
    <2>4. tasks' \in [Peer -> Seq(Task)] /\ inbox' \in [Peer -> Seq(Frame)]
      BY <1>1, <2>1, <2>3, ProceedTypes, Zenon DEF Proceed
    <2> QED BY <2>2, <2>4 DEF FileTypeOK
  <1>3. CASE Decline(p, i)
    BY <1>1, <1>3 DEF Decline, FileTypeOK
  <1>4. CASE AnswerRequest(p, i)
    <2> DEFINE f == [type |-> "FILE_CONTENT", text |-> t.text]
    <2>1. f \in Frame
      BY <1>1 DEF Frame
    <2>2. /\ t.to \in Peer /\ inbox' = [inbox EXCEPT ![t.to] = Append(@, f)]
          /\ tasks' = Ended(p, i)
          /\ UNCHANGED <<made, doc, disk, version, burst, hydrated, applying>>
      BY <1>1, <1>4 DEF AnswerRequest, Underway
    <2> HIDE DEF t, f
    <2>3. inbox \in [Peer -> Seq(Frame)] /\ Append(inbox[t.to], f) \in Seq(Frame)
      BY <2>1, <2>2, QueueGrows DEF FileTypeOK
    <2>4. inbox' \in [Peer -> Seq(Frame)]
      BY <2>2, <2>3
    <2> QED BY <1>1, <2>2, <2>4 DEF FileTypeOK
  <1>5. CASE Opened(p, i)
    <2> DEFINE w == [step |-> "writing", op |-> t.op, text |-> Merged(p, t), base |-> doc[p]]
    <2>1. doc[p] \in Text /\ Merged(p, t) \in Text
      BY <1>1 DEF Merged, Text, FileTypeOK
    <2>2. w \in Task
      BY <1>1, <1>5, <2>1 DEF Opened, Underway, Task
    <2>3. /\ tasks' = [tasks EXCEPT ![p][i] = w]
          /\ applying' = IF t.op = "fill" THEN applying ELSE [applying EXCEPT ![p] = "yes"]
          /\ UNCHANGED <<made, doc, disk, version, burst, hydrated, inbox>>
      BY <1>5 DEF Opened
    <2> HIDE DEF w, t
    <2>4. tasks' \in [Peer -> Seq(Task)]
      <3>1. tasks \in [Peer -> Seq(Task)]
        BY DEF FileTypeOK
      <3>2. [tasks[p] EXCEPT ![i] = w] \in Seq(Task)
        BY <2>2, <3>1
      <3> QED BY <2>3, <3>1, <3>2
    <2> QED BY <2>3, <2>4 DEF FileTypeOK
  <1>6. CASE Written(p, i)
    <2>1. /\ \/ /\ doc' = [doc EXCEPT ![p] = t.text] /\ disk' = SavedAs(p, t.text)
                /\ Noticed(p, t.text)
             \/ UNCHANGED <<doc, disk, version, burst>>
          /\ hydrated' = Filled(p, t) /\ applying' = FlagAfter(p, t) /\ tasks' = Ended(p, i)
          /\ UNCHANGED <<made, inbox>>
      BY <1>6 DEF Written
    <2> HIDE DEF t
    <2>2. doc' \in [Peer -> Text] /\ disk' \in [Peer -> Text]
      <3>1. CASE doc' = [doc EXCEPT ![p] = t.text] /\ disk' = SavedAs(p, t.text)
        <4>1. SavedAs(p, t.text) \in [Peer -> Text]
          BY <1>1, HelperTypes, Zenon
        <4> QED BY <1>1, <3>1, <4>1 DEF FileTypeOK
      <3>2. CASE UNCHANGED <<doc, disk>>
        BY <3>2 DEF FileTypeOK
      <3> QED BY <2>1, <3>1, <3>2
    <2>3. version' \in [Peer -> Nat] /\ burst' \in [Peer -> Change \cup {NoChange}]
      <3>1. CASE SendFileChange(p, "replace", t.text)
        BY <1>1, <3>1, SendTypes
      <3>2. CASE UNCHANGED <<version, burst>>
        BY <3>2 DEF FileTypeOK
      <3> QED BY <2>1, <3>1, <3>2 DEF Noticed
    <2>4. hydrated' \in SUBSET Peer /\ applying' \in [Peer -> {"yes", "no"}]
      BY <2>1 DEF Filled, FlagAfter, FileTypeOK
    <2> QED BY <1>1, <2>1, <2>2, <2>3, <2>4 DEF FileTypeOK
  <1> QED BY <1>2, <1>3, <1>4, <1>5, <1>6

LEMMA FileTypeOKInit == FileInit => FileTypeOK
  BY DEF FileInit, FileTypeOK, Text

LEMMA FileTypeOKNext == FileTypeOK /\ [FileNext]_fileVars => FileTypeOK'
  <1> SUFFICES ASSUME FileTypeOK, [FileNext]_fileVars PROVE FileTypeOK'
    OBVIOUS
  <1>1. ASSUME NEW p \in Peer, (\E e \in Edit : Type(p, e)) \/ Save(p) \/ Flush(p)
        PROVE  FileTypeOK'
    BY <1>1, EditorTypes
  <1>2. ASSUME NEW p \in Peer, HandleIncoming(p) PROVE FileTypeOK'
    BY <1>2, ReceiveTypes
  <1>3. ASSUME NEW p \in Peer, Continue(p) PROVE FileTypeOK'
    BY <1>3, ContinueTypes
  <1>4. CASE UNCHANGED fileVars
    BY <1>4 DEF fileVars, FileTypeOK
  <1> QED BY <1>1, <1>2, <1>3, <1>4 DEF FileNext

\* Every text, number, handler and frame keeps its type.
THEOREM FileTypeCorrect == FileSpec => []FileTypeOK
  BY FileTypeOKInit, FileTypeOKNext, PTL DEF FileSpec

-----------------------------------------------------------------------------
(* The flag.  Some handlers hold it: those that write and those that fill. *)
(* A handler that ends without holding it leaves the holders where they    *)
(* are; one that ends holding it lowers it.                                *)

Holds(t) == t.step = "writing" \/ t.op = "fill"
Held(ts) == \E i \in 1 .. Len(ts) : Holds(ts[i])

LEMMA HeldGrows ==
    ASSUME NEW s \in Seq(Task), NEW t \in Task
    PROVE  (Held(s) \/ Holds(t)) => Held(Append(s, t))
  <1>1. /\ Len(Append(s, t)) = Len(s) + 1 /\ Append(s, t)[Len(s) + 1] = t
        /\ \A i \in 1 .. Len(s) : Append(s, t)[i] = s[i]
        /\ Len(s) + 1 \in 1 .. Len(s) + 1 /\ \A i \in 1 .. Len(s) : i \in 1 .. Len(s) + 1
    OBVIOUS
  <1> QED BY <1>1, Zenon DEF Held

LEMMA HeldLoses ==
    ASSUME NEW s \in Seq(Task), NEW i \in 1 .. Len(s), ~Holds(s[i]), Held(s)
    PROVE  Held(SubSeq(s, 1, i - 1) \o SubSeq(s, i + 1, Len(s)))
  <1>1. PICK j \in 1 .. Len(s) : Holds(s[j])
    BY DEF Held
  <1>2. i # j
    BY <1>1
  <1> QED BY <1>1, <1>2, RestStaysAfterRemoval, Zenon DEF Held

\* A step of p that leaves the other peers' flags and handlers alone keeps the
\* invariant if it keeps it for p.
LEMMA FlagOfOne ==
    ASSUME NEW p \in Peer, FlagIsLowered,
           \A q \in Peer \ {p} : applying'[q] = applying[q] /\ tasks'[q] = tasks[q],
           applying'[p] = "yes" => Held(tasks'[p])
    PROVE  FlagIsLowered'
  <1>1. \A q \in Peer : applying[q] = "yes" => Held(tasks[q])
    BY Zenon DEF FlagIsLowered, Held, Holds
  <1>2. \A q \in Peer : applying'[q] = "yes" => Held(tasks'[q])
    BY <1>1, Zenon
  <1> QED BY <1>2, Zenon DEF FlagIsLowered, Held, Holds

LEMMA FlagWhileReceiving ==
    ASSUME FileTypeOK, FlagIsLowered, NEW p \in Peer, HandleIncoming(p)
    PROVE  FlagIsLowered'
  <1>1. FileTypeOK'
    BY ReceiveTypes
  <1>2. tasks \in [Peer -> Seq(Task)] /\ applying \in [Peer -> {"yes", "no"}]
    BY DEF FileTypeOK
  <1>3. applying[p] = "yes" => Held(tasks[p])
    BY Zenon DEF FlagIsLowered, Held, Holds
  <1>4. \A q \in Peer \ {p} : applying'[q] = applying[q] /\ tasks'[q] = tasks[q]
    BY <1>2 DEF HandleIncoming, ReceiveChange, ReceiveRequest, ReceiveContent, Proceed, Started
  <1>5. CASE ReceiveChange(p) \/ ReceiveRequest(p)
    <2>1. applying' = applying
      BY <1>5 DEF ReceiveChange, ReceiveRequest
    <2>2. tasks'[p] = tasks[p] \/ \E t : tasks'[p] = Append(tasks[p], t)
      BY <1>2, <1>5 DEF ReceiveChange, ReceiveRequest, Proceed, Started
    <2>3. ASSUME NEW t, tasks'[p] = Append(tasks[p], t) PROVE t \in Task
      <3>1. tasks'[p] \in Seq(Task)
        BY <1>1 DEF FileTypeOK
      <3>2. Len(tasks'[p]) = Len(tasks[p]) + 1 /\ tasks'[p][Len(tasks[p]) + 1] = t
        BY <1>2, <2>3
      <3>3. Len(tasks[p]) + 1 \in 1 .. Len(tasks'[p])
        BY <1>2, <3>2
      <3> QED BY <3>1, <3>2, <3>3
    <2>4. applying[p] = "yes" => Held(tasks'[p])
      BY <1>2, <1>3, <2>2, <2>3, HeldGrows
    <2> QED BY <1>4, <2>1, <2>4, FlagOfOne
  <1>6. CASE ReceiveContent(p)
    <2> DEFINE t == [step |-> "opening", op |-> "fill", text |-> Head(inbox[p]).text]
    <2>1. t \in Task
      BY <1>6, InboxTypes, FrameTypes DEF ReceiveContent, Read, Task
    <2>2. Holds(t)
      BY DEF Holds
    <2>3. tasks'[p] = Append(tasks[p], t)
      BY <1>2, <1>6 DEF ReceiveContent, Started
    <2> HIDE DEF t
    <2>4. Held(tasks'[p])
      BY <1>2, <2>1, <2>2, <2>3, HeldGrows
    <2> QED BY <1>4, <2>4, FlagOfOne
  <1> QED BY <1>5, <1>6 DEF HandleIncoming

LEMMA FlagWhileContinuing ==
    ASSUME FileTypeOK, FlagIsLowered, NEW p \in Peer, Continue(p)
    PROVE  FlagIsLowered'
  <1>1. PICK i \in 1 .. Len(tasks[p]) :
             Accept(p, i) \/ Decline(p, i) \/ AnswerRequest(p, i) \/ Opened(p, i) \/ Written(p, i)
    BY DEF Continue
  <1>2. tasks \in [Peer -> Seq(Task)] /\ applying \in [Peer -> {"yes", "no"}]
    BY DEF FileTypeOK
  <1>3. applying[p] = "yes" => Held(tasks[p])
    BY Zenon DEF FlagIsLowered, Held, Holds
  <1> DEFINE rest == SubSeq(tasks[p], 1, i - 1) \o SubSeq(tasks[p], i + 1, Len(tasks[p]))
  <1>4. Ended(p, i) = [tasks EXCEPT ![p] = rest] /\ rest \in Seq(Task)
    BY <1>2, QueueLoses DEF Ended
  <1> HIDE DEF rest
  <1>5. CASE Accept(p, i) \/ Decline(p, i) \/ AnswerRequest(p, i)
    <2>1. ~Holds(tasks[p][i])
      BY <1>5, TaskTypes DEF Accept, Decline, AnswerRequest, Underway, Holds
    <2>2. applying[p] = "yes" => Held(rest)
      BY <1>2, <1>3, <2>1, HeldLoses DEF rest
    <2>3. applying' = applying
      BY <1>5 DEF Accept, Decline, AnswerRequest
    <2>4. CASE tasks' = Ended(p, i)
      BY <1>2, <1>4, <2>2, <2>3, <2>4, FlagOfOne
    <2>5. CASE \E t : tasks' = [Ended(p, i) EXCEPT ![p] = Append(@, t)]
      <3>1. PICK t : tasks' = [Ended(p, i) EXCEPT ![p] = Append(@, t)]
        BY <2>5
      <3>2. tasks'[p] = Append(rest, t) /\ \A q \in Peer \ {p} : tasks'[q] = tasks[q]
        BY <1>2, <1>4, <3>1
      <3>3. t \in Task
        <4>1. tasks'[p] \in Seq(Task)
          BY ContinueTypes DEF FileTypeOK
        <4>2. Len(tasks'[p]) = Len(rest) + 1 /\ tasks'[p][Len(rest) + 1] = t
          BY <1>4, <3>2
        <4>3. Len(rest) + 1 \in 1 .. Len(tasks'[p])
          BY <1>4, <4>2
        <4> QED BY <4>1, <4>2, <4>3
      <3>4. applying[p] = "yes" => Held(tasks'[p])
        BY <1>4, <2>2, <3>2, <3>3, HeldGrows
      <3> QED BY <2>3, <3>2, <3>4, FlagOfOne
    <2>6. CASE Accept(p, i)
      <3>1. CASE p \in hydrated
        <4> DEFINE t == [step |-> "opening", op |-> tasks[p][i].op, text |-> tasks[p][i].text]
        <4>1. tasks' = [Ended(p, i) EXCEPT ![p] = Append(@, t)]
          BY <2>6, <3>1 DEF Accept, Proceed
        <4> HIDE DEF t
        <4> QED BY <2>5, <4>1
      <3>2. CASE p \notin hydrated
        BY <2>4, <2>6, <3>2 DEF Accept, Proceed
      <3> QED BY <3>1, <3>2
    <2>7. CASE Decline(p, i) \/ AnswerRequest(p, i)
      BY <2>4, <2>7 DEF Decline, AnswerRequest
    <2> QED BY <1>5, <2>6, <2>7
  <1>6. CASE Opened(p, i)
    <2> DEFINE w == [step |-> "writing", op |-> tasks[p][i].op,
                     text |-> Merged(p, tasks[p][i]), base |-> doc[p]]
    <2>1. tasks' = [tasks EXCEPT ![p][i] = w] /\ w.step = "writing"
      BY <1>6 DEF Opened
    <2> HIDE DEF w
    <2>2. i \in 1 .. Len(tasks'[p]) /\ tasks'[p][i] = w
      BY <1>2, <2>1
    <2>3. Held(tasks'[p])
      BY <2>1, <2>2 DEF Held, Holds
    <2>4. \A q \in Peer \ {p} : applying'[q] = applying[q] /\ tasks'[q] = tasks[q]
      BY <1>2, <1>6 DEF Opened
    <2> QED BY <2>3, <2>4, FlagOfOne
  <1>7. CASE Written(p, i)
    <2>1. applying' = [applying EXCEPT ![p] = "no"] /\ tasks' = Ended(p, i)
      BY <1>7 DEF Written, FlagAfter
    <2>2. applying'[p] = "no"
      BY <1>2, <2>1
    <2>3. \A q \in Peer \ {p} : applying'[q] = applying[q] /\ tasks'[q] = tasks[q]
      BY <1>2, <1>4, <2>1
    <2> QED BY <2>2, <2>3, FlagOfOne
  <1> QED BY <1>1, <1>5, <1>6, <1>7

LEMMA FlagNext == FileTypeOK /\ FlagIsLowered /\ [FileNext]_fileVars => FlagIsLowered'
  <1> SUFFICES ASSUME FileTypeOK, FlagIsLowered, [FileNext]_fileVars PROVE FlagIsLowered'
    OBVIOUS
  <1>1. ASSUME NEW p \in Peer, HandleIncoming(p) PROVE FlagIsLowered'
    BY <1>1, FlagWhileReceiving
  <1>2. ASSUME NEW p \in Peer, Continue(p) PROVE FlagIsLowered'
    BY <1>2, FlagWhileContinuing
  <1>3. CASE UNCHANGED <<applying, tasks>>
    BY <1>3 DEF FlagIsLowered
  <1> QED BY <1>1, <1>2, <1>3 DEF FileNext, Type, Save, Flush, fileVars

\* No overlap of handlers, rejected writes included, leaves a peer with the flag
\* up and nobody to lower it.
THEOREM FlagIsAlwaysLowered == FileSpec => []FlagIsLowered
  <1>1. FileInit => FlagIsLowered
    BY DEF FileInit, FlagIsLowered
  <1> QED BY <1>1, FlagNext, FileTypeCorrect, PTL DEF FileSpec

-----------------------------------------------------------------------------
(* The numbers.  A pending change has a number its peer knows of, newer    *)
(* than those of its changes that are under way.                           *)

\* Of the frames s, the changes of a sender p that knows number v and has b
\* pending.
Numbered(p, s, v, b) ==
    /\ \A i, j \in 1 .. Len(s) :
           i < j /\ ChangeFrom(p, s[i]) /\ ChangeFrom(p, s[j])
               => s[i].change.version < s[j].change.version
    /\ \A i \in 1 .. Len(s) :
           ChangeFrom(p, s[i]) =>
               /\ s[i].change.version <= v
               /\ b # NoChange => s[i].change.version < b.version

PendingIsNumbered ==
    \A p \in Peer : burst[p] # NoChange => burst[p].version <= version[p]

\* What a step may do to one queue and one sender but send the pending change:
\* a queue loses its head or gets another's frame, a sender learns of a higher
\* number or sets up a newer change.
Kept(p, s, t) ==
    \/ t = s
    \/ s # << >> /\ t = Tail(s)
    \/ \E f \in Frame : t = Append(s, f) /\ ~ChangeFrom(p, f)

LEMMA VersionType ==
    ASSUME NEW s \in Seq(Frame), NEW p
    PROVE  \A i \in 1 .. Len(s) : ChangeFrom(p, s[i]) => s[i].change.version \in Nat
  <1> SUFFICES ASSUME NEW i \in 1 .. Len(s), ChangeFrom(p, s[i]) PROVE s[i].change.version \in Nat
    OBVIOUS
  <1>1. s[i] \in Frame
    OBVIOUS
  <1> QED BY <1>1, FrameTypes DEF ChangeFrom

LEMMA QueueKept ==
    ASSUME NEW p, NEW s \in Seq(Frame), NEW t, NEW v, NEW b,
           Numbered(p, s, v, b), Kept(p, s, t)
    PROVE  Numbered(p, t, v, b)
  <1>1. CASE t = s
    BY <1>1
  <1>2. CASE s # << >> /\ t = Tail(s)
    <2>1. \A i \in 1 .. Len(t) : i + 1 \in 1 .. Len(s) /\ t[i] = s[i + 1]
      BY <1>2
    <2>2. \A i, j \in 1 .. Len(t) : i < j => i + 1 < j + 1
      BY <1>2
    <2> QED BY <2>1, <2>2 DEF Numbered
  <1>3. CASE \E f \in Frame : t = Append(s, f) /\ ~ChangeFrom(p, f)
    <2>1. PICK f \in Frame : t = Append(s, f) /\ ~ChangeFrom(p, f)
      BY <1>3
    <2>2. \A i \in 1 .. Len(t) : ChangeFrom(p, t[i]) => i \in 1 .. Len(s) /\ t[i] = s[i]
      <3>1. Len(t) = Len(s) + 1 /\ t[Len(s) + 1] = f /\ Len(s) \in Nat
            /\ \A i \in 1 .. Len(s) : t[i] = s[i]
        BY <2>1
      <3>2. \A i \in 1 .. Len(t) : i \in 1 .. Len(s) \/ i = Len(s) + 1
        BY <3>1
      <3> QED BY <2>1, <3>1, <3>2
    <2> QED BY <2>2, Zenon DEF Numbered
  <1> QED BY <1>1, <1>2, <1>3 DEF Kept

\* A sender that learns a higher number, or sets up a change newer than that.
LEMMA SenderKept ==
    ASSUME NEW p, NEW s \in Seq(Frame), NEW v \in Nat, NEW b, Numbered(p, s, v, b),
           NEW w \in Nat, v <= w,
           NEW c, \/ c = b \/ c = NoChange
                  \/ c.version \in Nat /\ v < c.version
    PROVE  Numbered(p, s, w, c)
  <1>1. \A i \in 1 .. Len(s) : ChangeFrom(p, s[i]) => s[i].change.version \in Nat
    BY VersionType
  <1>2. \A i \in 1 .. Len(s) : ChangeFrom(p, s[i]) =>
               /\ s[i].change.version <= v
               /\ b # NoChange => s[i].change.version < b.version
    BY DEF Numbered
  <1>3. \A i \in 1 .. Len(s) : ChangeFrom(p, s[i]) =>
               /\ s[i].change.version <= w
               /\ c # NoChange => s[i].change.version < c.version
    BY <1>1, <1>2
  <1> QED BY <1>3 DEF Numbered

\* The pending change is sent.
LEMMA PendingSent ==
    ASSUME NEW p \in Peer, NEW s \in Seq(Frame), NEW v \in Nat, NEW b \in Change,
           Numbered(p, s, v, b), b # NoChange, b.version <= v,
           NEW f \in Frame, f.change = b
    PROVE  Numbered(p, Append(s, f), v, NoChange)
  <1> DEFINE t == Append(s, f)
  <1>1. /\ Len(t) = Len(s) + 1 /\ t[Len(s) + 1] = f /\ Len(s) \in Nat
        /\ \A i \in 1 .. Len(s) : t[i] = s[i]
    OBVIOUS
  <1> HIDE DEF t
  <1>2. \A i \in 1 .. Len(t) : i \in 1 .. Len(s) \/ i = Len(s) + 1
    BY <1>1
  <1>3. ASSUME NEW i \in 1 .. Len(t), NEW j \in 1 .. Len(t), i < j,
               ChangeFrom(p, t[i]), ChangeFrom(p, t[j])
        PROVE  t[i].change.version < t[j].change.version
    <2>1. i \in 1 .. Len(s) /\ t[i] = s[i]
      BY <1>1, <1>3
    <2>2. CASE j \in 1 .. Len(s)
      BY <1>1, <1>3, <2>1, <2>2 DEF Numbered
    <2>3. CASE j = Len(s) + 1
      BY <1>1, <1>3, <2>1, <2>3 DEF Numbered
    <2> QED BY <1>2, <2>2, <2>3
  <1>4. ASSUME NEW i \in 1 .. Len(t), ChangeFrom(p, t[i]) PROVE t[i].change.version <= v
    BY <1>1, <1>2, <1>4 DEF Numbered
  <1> QED BY <1>3, <1>4 DEF Numbered, t

\* A step that keeps every queue and every sender's numbers keeps the invariant.
LEMMA NumbersKept ==
    ASSUME FileTypeOK, FileTypeOK', NumbersAreFresh, PendingIsNumbered,
           \A p, q \in Peer : Kept(p, inbox[q], inbox'[q]),
           \A p \in Peer :
               /\ version[p] <= version'[p]
               /\ \/ burst'[p] = burst[p]
                  \/ version[p] < burst'[p].version /\ burst'[p].version = version'[p]
    PROVE  NumbersAreFresh' /\ PendingIsNumbered'
  <1>1. ASSUME NEW p \in Peer, NEW q \in Peer
        PROVE  Numbered(p, inbox'[q], version'[p], burst'[p])
    <2>1. inbox[q] \in Seq(Frame) /\ inbox'[q] \in Seq(Frame)
      BY DEF FileTypeOK
    <2>2. version[p] \in Nat /\ version'[p] \in Nat
      BY DEF FileTypeOK
    <2>3. Numbered(p, inbox[q], version[p], burst[p])
      BY Zenon DEF NumbersAreFresh, Numbered
    <2>4. Numbered(p, inbox'[q], version[p], burst[p])
      BY <2>1, <2>3, QueueKept
    <2>5. CASE burst'[p] = burst[p]
      BY <2>1, <2>2, <2>4, <2>5, SenderKept
    <2>6. CASE version[p] < burst'[p].version /\ burst'[p].version = version'[p]
      BY <2>1, <2>2, <2>4, <2>6, SenderKept
    <2> QED BY <2>5, <2>6
  <1>2. NumbersAreFresh'
    BY <1>1, Zenon DEF NumbersAreFresh, Numbered
  <1>3. ASSUME NEW p \in Peer, burst'[p] # NoChange PROVE burst'[p].version <= version'[p]
    <2>1. version[p] \in Nat /\ version'[p] \in Nat /\ burst'[p] \in Change \cup {NoChange}
      BY DEF FileTypeOK
    <2>2. burst'[p].version \in Nat
      BY <1>3, <2>1 DEF Change
    <2>3. burst'[p] = burst[p] => burst[p].version <= version[p]
      BY <1>3 DEF PendingIsNumbered
    <2> QED BY <2>1, <2>2, <2>3
  <1> QED BY <1>2, <1>3 DEF PendingIsNumbered

LEMMA SendKeepsNumbers ==
    ASSUME FileTypeOK, NEW p \in Peer, NEW op, NEW text, SendFileChange(p, op, text)
    PROVE  \A q \in Peer :
               /\ version[q] <= version'[q]
               /\ \/ burst'[q] = burst[q]
                  \/ version[q] < burst'[q].version /\ burst'[q].version = version'[q]
  <1>1. /\ version' = [version EXCEPT ![p] = @ + 1]
        /\ burst' = [burst EXCEPT ![p] = [op |-> op, text |-> text, version |-> version[p] + 1]]
        /\ version \in [Peer -> Nat] /\ burst \in [Peer -> Change \cup {NoChange}]
    BY DEF SendFileChange, Debounced, FileTypeOK
  <1>2. version'[p] = version[p] + 1 /\ burst'[p].version = version[p] + 1 /\ version[p] \in Nat
    BY <1>1
  <1>3. \A q \in Peer \ {p} : version'[q] = version[q] /\ burst'[q] = burst[q] /\ version[q] \in Nat
    BY <1>1
  <1> QED BY <1>2, <1>3

LEMMA OldNumbers ==
    ASSUME FileTypeOK, UNCHANGED <<version, burst>>
    PROVE  \A q \in Peer : version[q] <= version'[q] /\ burst'[q] = burst[q]
  <1>1. \A q \in Peer : version[q] \in Nat /\ version'[q] = version[q]
    BY DEF FileTypeOK
  <1> QED BY <1>1

LEMMA SameQueues == ASSUME UNCHANGED inbox PROVE \A p, q \in Peer : Kept(p, inbox[q], inbox'[q])
  BY DEF Kept

\* A change of p relayed to the others.
LEMMA FlushKeepsNumbers ==
    ASSUME FileTypeOK, FileTypeOK', NumbersAreFresh, PendingIsNumbered, NEW p \in Peer, Flush(p)
    PROVE  NumbersAreFresh' /\ PendingIsNumbered'
  <1> DEFINE f == [type |-> "FILE_CHANGE", from |-> p, change |-> burst[p]]
  <1>1. /\ burst[p] # NoChange /\ burst' = [burst EXCEPT ![p] = NoChange] /\ version' = version
        /\ inbox' = ToOthers(inbox, p, f)
    BY DEF Flush
  <1>2. burst[p] \in Change
    BY <1>1 DEF FileTypeOK
  <1>3. f \in Frame /\ f.change = burst[p] /\ f.from = p
    BY <1>2 DEF Frame
  <1> HIDE DEF f
  <1>4. burst'[p] = NoChange /\ \A q \in Peer \ {p} : burst'[q] = burst[q]
    BY <1>1 DEF FileTypeOK
  <1>5. \A q \in Peer : inbox'[q] = IF q = p THEN inbox[q] ELSE Append(inbox[q], f)
    BY <1>1 DEF ToOthers
  <1>6. ASSUME NEW s \in Peer, NEW q \in Peer
        PROVE  Numbered(s, inbox'[q], version'[s], burst'[s])
    <2>1. inbox[q] \in Seq(Frame) /\ version[s] \in Nat /\ version'[s] = version[s]
      BY <1>1 DEF FileTypeOK
    <2>2. Numbered(s, inbox[q], version[s], burst[s])
      BY Zenon DEF NumbersAreFresh, Numbered
    <2>3. CASE s = p /\ q # p
      <3>1. burst[p].version <= version[p]
        BY <1>1 DEF PendingIsNumbered
      <3>2. Numbered(p, Append(inbox[q], f), version[p], NoChange)
        BY <1>1, <1>2, <1>3, <2>1, <2>2, <2>3, <3>1, PendingSent
      <3> QED BY <1>4, <1>5, <2>1, <2>3, <3>2
    <2>4. CASE s # p
      <3>1. Kept(s, inbox[q], inbox'[q])
        BY <1>3, <1>5, <2>4 DEF Kept, ChangeFrom
      <3> QED BY <1>4, <2>1, <2>2, <2>4, <3>1, QueueKept
    <2>5. CASE s = p /\ q = p
      <3>1. inbox'[q] = inbox[q] /\ burst'[s] = NoChange
        BY <1>4, <1>5, <2>5
      <3> QED BY <2>1, <2>2, <3>1, SenderKept
    <2> QED BY <2>3, <2>4, <2>5
  <1>7. NumbersAreFresh'
    BY <1>6, Zenon DEF NumbersAreFresh, Numbered
  <1>8. PendingIsNumbered'
    BY <1>1, <1>4 DEF PendingIsNumbered
  <1> QED BY <1>7, <1>8

\* The frames a peer sends while it deals with another's are no changes.
LEMMA ProceedKeepsQueues ==
    ASSUME FileTypeOK, NEW q \in Peer, NEW base, NEW box, NEW c, Proceed(q, base, box, c),
           box = inbox \/ (inbox[q] # << >> /\ box = Rest(q))
    PROVE  \A p, r \in Peer : Kept(p, inbox[r], inbox'[r])
  <1> SUFFICES ASSUME NEW p \in Peer, NEW r \in Peer PROVE Kept(p, inbox[r], inbox'[r])
    OBVIOUS
  <1>1. RequestFile(q) \in Frame /\ ~ChangeFrom(p, RequestFile(q))
    BY HelperTypes DEF RequestFile, ChangeFrom
  <1>2. /\ box[r] = inbox[r] \/ (r = q /\ inbox[r] # << >> /\ box[r] = Tail(inbox[r]))
        /\ r # q => box[r] = inbox[r]
    BY DEF Rest, FileTypeOK
  <1>3. inbox'[r] = box[r] \/ (r # q /\ inbox'[r] = Append(box[r], RequestFile(q)))
    BY DEF Proceed, ToOthers
  <1> QED BY <1>1, <1>2, <1>3 DEF Kept

LEMMA ReceiveKeepsNumbers ==
    ASSUME FileTypeOK, FileTypeOK', NumbersAreFresh, PendingIsNumbered, NEW q \in Peer, HandleIncoming(q)
    PROVE  NumbersAreFresh' /\ PendingIsNumbered'
  <1>1. /\ inbox[q] # << >> /\ burst' = burst
    BY DEF HandleIncoming, ReceiveChange, ReceiveRequest, ReceiveContent, Read
  <1>2. ASSUME inbox' = Rest(q) PROVE \A p, r \in Peer : Kept(p, inbox[r], inbox'[r])
    <2>1. inbox'[q] = Tail(inbox[q]) /\ \A r \in Peer \ {q} : inbox'[r] = inbox[r]
      BY <1>2 DEF Rest, FileTypeOK
    <2> QED BY <1>1, <2>1 DEF Kept
  <1>3. \A p, r \in Peer : Kept(p, inbox[r], inbox'[r])
    <2>1. \/ inbox' = Rest(q)
          \/ \E c : Proceed(q, tasks, Rest(q), c)
      BY Zenon DEF HandleIncoming, ReceiveChange, ReceiveRequest, ReceiveContent
    <2> QED BY <1>1, <1>2, <2>1, ProceedKeepsQueues
  <1>4. \A p \in Peer : version[p] <= version'[p]
    <2>1. version' = version \/ version' = Adopted(q, Head(inbox[q]).change.version)
      BY DEF HandleIncoming, ReceiveChange, ReceiveRequest, ReceiveContent
    <2>2. version \in [Peer -> Nat] /\ version' \in [Peer -> Nat]
      BY DEF FileTypeOK
    <2> QED BY <2>1, <2>2 DEF Adopted
  <1> QED BY <1>1, <1>3, <1>4, NumbersKept

LEMMA ContinueKeepsNumbers ==
    ASSUME FileTypeOK, FileTypeOK', NumbersAreFresh, PendingIsNumbered, NEW q \in Peer, Continue(q)
    PROVE  NumbersAreFresh' /\ PendingIsNumbered'
  <1>1. PICK i \in 1 .. Len(tasks[q]) :
             Accept(q, i) \/ Decline(q, i) \/ AnswerRequest(q, i) \/ Opened(q, i) \/ Written(q, i)
    BY DEF Continue
  <1>2. CASE Accept(q, i)
    <2>1. \A p, r \in Peer : Kept(p, inbox[r], inbox'[r])
      BY <1>2, ProceedKeepsQueues DEF Accept
    <2> QED BY <1>2, <2>1, OldNumbers, NumbersKept DEF Accept
  <1>3. CASE Decline(q, i) \/ Opened(q, i)
    <2>1. UNCHANGED <<version, burst, inbox>>
      BY <1>3 DEF Decline, Opened
    <2> QED BY <2>1, SameQueues, OldNumbers, NumbersKept
  <1>4. CASE AnswerRequest(q, i)
    <2> DEFINE f == [type |-> "FILE_CONTENT", text |-> tasks[q][i].text]
    <2>1. /\ tasks[q][i].to \in Peer /\ f \in Frame
          /\ inbox' = [inbox EXCEPT ![tasks[q][i].to] = Append(@, f)]
          /\ UNCHANGED <<version, burst>>
      BY <1>4, TaskTypes DEF AnswerRequest, Underway, Frame
    <2>2. \A p : ~ChangeFrom(p, f)
      BY DEF ChangeFrom
    <2> HIDE DEF f
    <2>3. \A r \in Peer : inbox'[r] = inbox[r] \/ inbox'[r] = Append(inbox[r], f)
      BY <2>1 DEF FileTypeOK
    <2>4. \A p, r \in Peer : Kept(p, inbox[r], inbox'[r])
      BY <2>1, <2>2, <2>3 DEF Kept
    <2> QED BY <2>1, <2>4, OldNumbers, NumbersKept
  <1>5. CASE Written(q, i)
    <2>1. inbox' = inbox
      BY <1>5 DEF Written
    <2>2. \/ UNCHANGED <<version, burst>>
          \/ SendFileChange(q, "replace", tasks[q][i].text)
      BY <1>5 DEF Written, Noticed
    <2>3. CASE UNCHANGED <<version, burst>>
      BY <2>1, <2>3, SameQueues, OldNumbers, NumbersKept
    <2>4. CASE SendFileChange(q, "replace", tasks[q][i].text)
      BY <2>1, <2>4, SameQueues, SendKeepsNumbers, NumbersKept
    <2> QED BY <2>2, <2>3, <2>4
  <1> QED BY <1>1, <1>2, <1>3, <1>4, <1>5

LEMMA NumbersNext ==
    FileTypeOK /\ NumbersAreFresh /\ PendingIsNumbered /\ [FileNext]_fileVars
        => NumbersAreFresh' /\ PendingIsNumbered'
  <1> SUFFICES ASSUME FileTypeOK, NumbersAreFresh, PendingIsNumbered, [FileNext]_fileVars
               PROVE  NumbersAreFresh' /\ PendingIsNumbered'
    OBVIOUS
  <1>1. FileTypeOK'
    BY FileTypeOKNext
  <1>2. ASSUME NEW p \in Peer, NEW e \in Edit, Type(p, e)
        PROVE  NumbersAreFresh' /\ PendingIsNumbered'
    <2>1. inbox' = inbox /\ (UNCHANGED <<version, burst>> \/ SendFileChange(p, "insert", {e}))
      BY <1>2 DEF Type
    <2>2. CASE UNCHANGED <<version, burst>>
      BY <1>1, <2>1, <2>2, SameQueues, OldNumbers, NumbersKept
    <2>3. CASE SendFileChange(p, "insert", {e})
      BY <1>1, <2>1, <2>3, SameQueues, SendKeepsNumbers, NumbersKept
    <2> QED BY <2>1, <2>2, <2>3
  <1>3. ASSUME NEW p \in Peer, Flush(p) PROVE NumbersAreFresh' /\ PendingIsNumbered'
    BY <1>1, <1>3, FlushKeepsNumbers
  <1>4. ASSUME NEW p \in Peer, HandleIncoming(p) PROVE NumbersAreFresh' /\ PendingIsNumbered'
    BY <1>1, <1>4, ReceiveKeepsNumbers
  <1>5. ASSUME NEW p \in Peer, Continue(p) PROVE NumbersAreFresh' /\ PendingIsNumbered'
    BY <1>1, <1>5, ContinueKeepsNumbers
  <1>6. CASE UNCHANGED <<version, burst, inbox>>
    BY <1>1, <1>6, SameQueues, OldNumbers, NumbersKept
  <1> QED BY <1>2, <1>3, <1>4, <1>5, <1>6 DEF FileNext, Save, fileVars

\* However keystrokes, timers, adopted numbers and noticed remote changes are
\* interleaved, no sender uses a number twice, and what it sends arrives in the
\* order of its numbers.
THEOREM NumbersAreAlwaysFresh == FileSpec => []NumbersAreFresh
  <1>1. FileInit => NumbersAreFresh /\ PendingIsNumbered
    BY DEF FileInit, NumbersAreFresh, PendingIsNumbered
  <1> QED BY <1>1, NumbersNext, FileTypeCorrect, PTL DEF FileSpec

-----------------------------------------------------------------------------
(* Two people who take turns.                                              *)

\* Of two peers, p typed last and q has yet to hear of it: what is set in p's
\* timer, what their handlers do, and what is on its way to them.
Turn(p, q, timer, doingP, doingQ, toP, toQ) ==
    /\ burst[p] = timer /\ burst[q] = NoChange
    /\ tasks[p] = doingP /\ tasks[q] = doingQ
    /\ inbox[p] = toP /\ inbox[q] = toQ

\* Where the last edit has got to.  The numbers of both are the same once q has
\* read the change; the flag is up while q writes.
Level(p, q) == version[p] = version[q]
Ahead(p, q) == version[p] = version[q] + 1
FlagDown(q) == applying[q] = "no"

Agreed(p, q) ==
    /\ Turn(p, q, NoChange, << >>, << >>, << >>, << >>)
    /\ doc[q] = made /\ Level(p, q) /\ FlagDown(q)

Typed(p, q) == \E n \in Text :
    /\ Turn(p, q, [op |-> "insert", text |-> n, version |-> version[p]], << >>, << >>, << >>, << >>)
    /\ doc[q] \cup n = made /\ Ahead(p, q) /\ FlagDown(q)

PeerTold(p, q) == \E n \in Text :
    /\ Turn(p, q, NoChange, << >>, << >>, << >>,
            << [type |-> "FILE_CHANGE", from |-> p,
                change |-> [op |-> "insert", text |-> n, version |-> version[p]]] >>)
    /\ doc[q] \cup n = made /\ Ahead(p, q) /\ FlagDown(q)

OpeningIt(p, q) == \E n \in Text :
    /\ Turn(p, q, NoChange, << >>, << [step |-> "opening", op |-> "insert", text |-> n] >>, << >>, << >>)
    /\ doc[q] \cup n = made /\ Level(p, q) /\ FlagDown(q)

PeerAsked(p, q) ==
    /\ Turn(p, q, NoChange, << >>, << >>, << RequestFile(q) >>, << >>)
    /\ Level(p, q) /\ FlagDown(q)

Answering(p, q) ==
    /\ Turn(p, q, NoChange, << [step |-> "answering", op |-> "send", text |-> made, to |-> q] >>,
            << >>, << >>, << >>)
    /\ Level(p, q) /\ FlagDown(q)

PeerAnswered(p, q) ==
    /\ Turn(p, q, NoChange, << >>, << >>, << >>, << [type |-> "FILE_CONTENT", text |-> made] >>)
    /\ Level(p, q) /\ FlagDown(q)

OpeningAll(p, q) ==
    /\ Turn(p, q, NoChange, << >>, << [step |-> "opening", op |-> "fill", text |-> made] >>, << >>, << >>)
    /\ Level(p, q) /\ applying[q] = "yes"

WritingIt(p, q) == \E op \in {"insert", "fill"} :
    /\ Turn(p, q, NoChange, << >>,
            << [step |-> "writing", op |-> op, text |-> made, base |-> doc[q]] >>, << >>, << >>)
    /\ Level(p, q) /\ applying[q] = "yes"

\* The text of the one who typed is on his disk (auto save) and complete; his
\* change is at one of its stages.
GoesRound(p, q) ==
    /\ disk = doc /\ doc[p] = made /\ FlagDown(p)
    /\ \/ Agreed(p, q) \/ Typed(p, q) \/ PeerTold(p, q) \/ OpeningIt(p, q) \/ PeerAsked(p, q)
       \/ Answering(p, q) \/ PeerAnswered(p, q) \/ OpeningAll(p, q) \/ WritingIt(p, q)

TurnInv == FileTypeOK /\ \E p, q \in Peer : p # q /\ GoesRound(p, q)

\* Who has something to do, and at which stage.
LEMMA Whereabouts ==
    ASSUME NEW p \in Peer, NEW q \in Peer, Peer = {p, q}, GoesRound(p, q), NEW r \in Peer
    PROVE  /\ Quiet => Agreed(p, q)
           /\ burst[r] # NoChange => r = p /\ Typed(p, q)
           /\ inbox[r] # << >> => \/ r = q /\ (PeerTold(p, q) \/ PeerAnswered(p, q))
                                  \/ r = p /\ PeerAsked(p, q)
           /\ tasks[r] # << >> => \/ r = q /\ (OpeningIt(p, q) \/ OpeningAll(p, q) \/ WritingIt(p, q))
                                  \/ r = p /\ Answering(p, q)
  <1>1. \A n : [op |-> "insert", text |-> n, version |-> version[p]] # NoChange
    <2>1. ASSUME NEW n PROVE [op |-> "insert", text |-> n, version |-> version[p]].op # NoChange.op
      BY DEF NoChange
    <2> QED BY <2>1
  <1>2. \A x : << x >> # << >>
    OBVIOUS
  <1>3. r = p \/ r = q
    OBVIOUS
  <1>4. Quiet => /\ burst[p] = NoChange /\ inbox[p] = << >> /\ inbox[q] = << >>
                 /\ tasks[p] = << >> /\ tasks[q] = << >>
    BY DEF Quiet
  <1>5. CASE Agreed(p, q)
    BY <1>3, <1>5 DEF Agreed, Turn
  <1>6. CASE Typed(p, q)
    BY <1>1, <1>3, <1>4, <1>6 DEF Typed, Turn
  <1>7. CASE PeerTold(p, q)
    BY <1>2, <1>3, <1>4, <1>7 DEF PeerTold, Turn
  <1>8. CASE OpeningIt(p, q)
    BY <1>2, <1>3, <1>4, <1>8 DEF OpeningIt, Turn
  <1>9. CASE PeerAsked(p, q)
    BY <1>2, <1>3, <1>4, <1>9 DEF PeerAsked, Turn
  <1>10. CASE Answering(p, q)
    BY <1>2, <1>3, <1>4, <1>10 DEF Answering, Turn
  <1>11. CASE PeerAnswered(p, q)
    BY <1>2, <1>3, <1>4, <1>11 DEF PeerAnswered, Turn
  <1>12. CASE OpeningAll(p, q)
    BY <1>2, <1>3, <1>4, <1>12 DEF OpeningAll, Turn
  <1>13. CASE WritingIt(p, q)
    BY <1>2, <1>3, <1>4, <1>13 DEF WritingIt, Turn
  <1> QED BY <1>5, <1>6, <1>7, <1>8, <1>9, <1>10, <1>11, <1>12, <1>13 DEF GoesRound

\* An edit starts when everything is settled: its author is p from now on.
LEMMA TurnTyped ==
    ASSUME FileTypeOK, NEW p \in Peer, NEW q \in Peer, p # q, Peer = {p, q}, AutoSave = "on",
           disk = doc, doc[p] = made, FlagDown(p), Agreed(p, q), NEW e \in Edit, Type(p, e)
    PROVE  GoesRound(p, q)'
  <1>1. /\ made' = made \cup {e} /\ doc' = [doc EXCEPT ![p] = @ \cup {e}]
        /\ disk' = [disk EXCEPT ![p] = doc'[p]]
        /\ version' = [version EXCEPT ![p] = @ + 1] /\ burst' = Debounced(p, "insert", {e})
        /\ UNCHANGED <<hydrated, applying, tasks, inbox>>
    BY DEF Type, FlagDown, SendFileChange, SavedAs
  <1>2. /\ doc' = [doc EXCEPT ![p] = made'] /\ disk' = doc' /\ doc'[p] = made' /\ doc'[q] = made
    BY <1>1 DEF FileTypeOK, Agreed
  <1>3. /\ version'[p] = version[p] + 1 /\ version'[q] = version[q]
        /\ burst'[p] = [op |-> "insert", text |-> {e}, version |-> version'[p]]
        /\ burst'[q] = burst[q]
    BY <1>1 DEF FileTypeOK, Debounced
  <1>4. Turn(p, q, [op |-> "insert", text |-> {e}, version |-> version[p]], << >>, << >>, << >>, << >>)'
    BY <1>1, <1>3 DEF Agreed, Turn
  <1>5. Ahead(p, q)' /\ FlagDown(p)' /\ FlagDown(q)'
    BY <1>1, <1>3 DEF Agreed, Level, Ahead, FlagDown
  <1>6. doc'[q] \cup {e} = made' /\ {e} \in Text
    BY <1>1, <1>2 DEF Text
  <1>7. Typed(p, q)'
    BY <1>4, <1>5, <1>6 DEF Typed
  <1> QED BY <1>2, <1>5, <1>7 DEF GoesRound

\* While nothing is under way, either of the two may be called the last one.
LEMMA TurnsSwap ==
    ASSUME NEW p \in Peer, NEW q \in Peer, doc[p] = made, FlagDown(p), Agreed(p, q)
    PROVE  doc[q] = made /\ FlagDown(q) /\ Agreed(q, p)
  BY DEF Agreed, Turn, Level, FlagDown

\* The timer sends it.
LEMMA TurnFlushed ==
    ASSUME FileTypeOK, NEW p \in Peer, NEW q \in Peer, p # q, Peer = {p, q},
           disk = doc, doc[p] = made, FlagDown(p), Typed(p, q), Flush(p)
    PROVE  GoesRound(p, q)'
  <1>1. PICK n \in Text :
          /\ Turn(p, q, [op |-> "insert", text |-> n, version |-> version[p]], << >>, << >>, << >>, << >>)
          /\ doc[q] \cup n = made /\ Ahead(p, q) /\ FlagDown(q)
    BY DEF Typed
  <1> DEFINE f == [type |-> "FILE_CHANGE", from |-> p,
                   change |-> [op |-> "insert", text |-> n, version |-> version[p]]]
  <1>2. /\ burst' = [burst EXCEPT ![p] = NoChange]
        /\ inbox' = ToOthers(inbox, p, f)
        /\ UNCHANGED <<made, doc, disk, version, hydrated, applying, tasks>>
    BY <1>1 DEF Flush, Turn
  <1>3. burst'[p] = NoChange /\ burst'[q] = NoChange /\ inbox'[p] = << >> /\ inbox'[q] = << f >>
    BY <1>1, <1>2 DEF FileTypeOK, ToOthers, Turn
  <1>4. Turn(p, q, NoChange, << >>, << >>, << >>,
            << [type |-> "FILE_CHANGE", from |-> p,
                change |-> [op |-> "insert", text |-> n, version |-> version[p]]] >>)'
    BY <1>1, <1>2, <1>3 DEF Turn
  <1>5. PeerTold(p, q)'
    BY <1>1, <1>2, <1>4 DEF PeerTold, Ahead, FlagDown
  <1> QED BY <1>2, <1>5 DEF GoesRound, FlagDown

\* The other adopts its number, and opens the document or asks for the file.
LEMMA TurnTold ==
    ASSUME FileTypeOK, NEW p \in Peer, NEW q \in Peer, p # q, Peer = {p, q},
           disk = doc, doc[p] = made, FlagDown(p), PeerTold(p, q), ReceiveChange(q)
    PROVE  GoesRound(p, q)'
  <1>1. PICK n \in Text :
          /\ Turn(p, q, NoChange, << >>, << >>, << >>,
                << [type |-> "FILE_CHANGE", from |-> p,
                    change |-> [op |-> "insert", text |-> n, version |-> version[p]]] >>)
          /\ doc[q] \cup n = made /\ Ahead(p, q) /\ FlagDown(q)
    BY DEF PeerTold
  <1> DEFINE c == [op |-> "insert", text |-> n, version |-> version[p]]
             t == [step |-> "opening", op |-> "insert", text |-> n]
  <1>2. Head(inbox[q]).change = c /\ Rest(q)[p] = << >> /\ Rest(q)[q] = << >>
    BY <1>1 DEF Turn, Rest, FileTypeOK
  <1>3. version[p] \in Nat /\ version[q] \in Nat /\ version[p] = version[q] + 1
    BY <1>1 DEF Ahead, FileTypeOK
  <1>4. ~Conflicts(q, c.version) /\ Adopted(q, c.version)[q] = version[p]
        /\ Adopted(q, c.version)[p] = version[p]
    BY <1>3 DEF Conflicts, Adopted, FileTypeOK
  <1>5. /\ version' = Adopted(q, c.version) /\ Proceed(q, tasks, Rest(q), c)
        /\ UNCHANGED <<made, doc, disk, burst, hydrated, applying>>
    BY <1>2, <1>4 DEF ReceiveChange
  <1>6. Level(p, q)' /\ FlagDown(p)' /\ FlagDown(q)'
    BY <1>1, <1>4, <1>5 DEF Level, FlagDown
  <1>7. CASE q \in hydrated
    <2>1. tasks' = [tasks EXCEPT ![q] = Append(@, t)] /\ inbox' = Rest(q)
      BY <1>5, <1>7 DEF Proceed
    <2>2. tasks'[p] = << >> /\ tasks'[q] = << t >>
      BY <1>1, <2>1 DEF Turn, FileTypeOK
    <2>3. Turn(p, q, NoChange, << >>, << t >>, << >>, << >>)'
      BY <1>1, <1>2, <1>5, <2>1, <2>2 DEF Turn
    <2>4. doc'[q] \cup n = made'
      BY <1>1, <1>5
    <2>5. OpeningIt(p, q)'
      BY <1>6, <2>3, <2>4 DEF OpeningIt
    <2> QED BY <1>5, <1>6, <2>5 DEF GoesRound
  <1>8. CASE q \notin hydrated
    <2>1. tasks' = tasks /\ inbox' = ToOthers(Rest(q), q, RequestFile(q))
      BY <1>5, <1>8 DEF Proceed
    <2>2. inbox'[p] = Append(Rest(q)[p], RequestFile(q)) /\ inbox'[q] = Rest(q)[q]
      BY <2>1, Zenon DEF ToOthers
    <2>3. inbox'[p] = << RequestFile(q) >> /\ inbox'[q] = << >>
      BY <1>2, <2>2
    <2>4. Turn(p, q, NoChange, << >>, << >>, << RequestFile(q) >>, << >>)'
      BY <1>1, <1>5, <2>1, <2>3 DEF Turn, RequestFile
    <2>5. PeerAsked(p, q)'
      BY <1>6, <2>4 DEF PeerAsked
    <2> QED BY <1>5, <1>6, <2>5 DEF GoesRound
  <1> QED BY <1>7, <1>8

\* The request: what is read from the disk is complete, since it is saved.
LEMMA TurnAsked ==
    ASSUME FileTypeOK, NEW p \in Peer, NEW q \in Peer, p # q, Peer = {p, q},
           disk = doc, doc[p] = made, FlagDown(p), PeerAsked(p, q), ReceiveRequest(p)
    PROVE  GoesRound(p, q)'
  <1> DEFINE t == [step |-> "answering", op |-> "send", text |-> made, to |-> q]
  <1>1. Head(inbox[p]).from = q /\ disk[p] = made /\ Rest(p)[p] = << >> /\ Rest(p)[q] = << >>
    BY DEF PeerAsked, Turn, RequestFile, Rest, FileTypeOK
  <1>2. /\ tasks' = Started(p, t) /\ inbox' = Rest(p)
        /\ UNCHANGED <<made, doc, disk, version, burst, hydrated, applying>>
    BY <1>1 DEF ReceiveRequest
  <1>3. tasks'[p] = << t >> /\ tasks'[q] = << >>
    BY <1>2 DEF Started, PeerAsked, Turn, FileTypeOK
  <1>4. Turn(p, q, NoChange, << t >>, << >>, << >>, << >>)'
    BY <1>1, <1>2, <1>3 DEF PeerAsked, Turn
  <1>5. Answering(p, q)'
    BY <1>2, <1>4 DEF Answering, PeerAsked, Level, FlagDown
  <1> QED BY <1>2, <1>5 DEF GoesRound, FlagDown

LEMMA OneLess == ASSUME NEW t PROVE SubSeq(<< t >>, 1, 1 - 1) \o SubSeq(<< t >>, 1 + 1, Len(<< t >>)) = << >>
  OBVIOUS

LEMMA TurnAnswered ==
    ASSUME FileTypeOK, NEW p \in Peer, NEW q \in Peer, p # q, Peer = {p, q},
           disk = doc, doc[p] = made, FlagDown(p), Answering(p, q), NEW i, AnswerRequest(p, i)
    PROVE  GoesRound(p, q)'
  <1> DEFINE t == [step |-> "answering", op |-> "send", text |-> made, to |-> q]
             f == [type |-> "FILE_CONTENT", text |-> made]
  <1>1. /\ tasks[p] = << t >> /\ tasks[p][1] = t /\ t.to = q /\ t.text = made
        /\ tasks[q] = << >> /\ inbox[p] = << >> /\ inbox[q] = << >> /\ i = 1
    BY DEF Answering, Turn, AnswerRequest, Underway
  <1> HIDE DEF t
  <1>2. /\ inbox' = [inbox EXCEPT ![q] = Append(@, f)] /\ tasks' = Ended(p, 1)
        /\ UNCHANGED <<made, doc, disk, version, burst, hydrated, applying>>
    BY <1>1 DEF AnswerRequest
  <1>3. tasks'[p] = << >> /\ tasks'[q] = << >>
    BY <1>1, <1>2, OneLess DEF Ended, FileTypeOK
  <1>4. inbox'[p] = << >> /\ inbox'[q] = << f >>
    BY <1>1, <1>2 DEF FileTypeOK
  <1>5. Turn(p, q, NoChange, << >>, << >>, << >>, << f >>)'
    BY <1>2, <1>3, <1>4 DEF Answering, Turn
  <1>6. PeerAnswered(p, q)'
    BY <1>2, <1>5 DEF Answering, PeerAnswered, Level, FlagDown
  <1> QED BY <1>2, <1>6 DEF GoesRound, FlagDown

\* The answer raises the flag until it is written.
LEMMA TurnContent ==
    ASSUME FileTypeOK, NEW p \in Peer, NEW q \in Peer, p # q, Peer = {p, q},
           disk = doc, doc[p] = made, FlagDown(p), PeerAnswered(p, q), ReceiveContent(q)
    PROVE  GoesRound(p, q)'
  <1> DEFINE t == [step |-> "opening", op |-> "fill", text |-> made]
  <1>1. Head(inbox[q]).text = made /\ Rest(q)[p] = << >> /\ Rest(q)[q] = << >>
    BY DEF PeerAnswered, Turn, Rest, FileTypeOK
  <1>2. /\ applying' = [applying EXCEPT ![q] = "yes"]
        /\ tasks' = Started(q, t) /\ inbox' = Rest(q)
        /\ UNCHANGED <<made, doc, disk, version, burst, hydrated>>
    BY <1>1 DEF ReceiveContent
  <1>3. /\ tasks'[q] = << t >> /\ tasks'[p] = << >>
        /\ applying'[q] = "yes" /\ applying'[p] = "no"
    BY <1>2 DEF Started, PeerAnswered, Turn, FileTypeOK, FlagDown
  <1>4. Turn(p, q, NoChange, << >>, << t >>, << >>, << >>)'
    BY <1>1, <1>2, <1>3 DEF PeerAnswered, Turn
  <1>5. OpeningAll(p, q)'
    BY <1>2, <1>3, <1>4 DEF OpeningAll, PeerAnswered, Level
  <1> QED BY <1>2, <1>3, <1>5 DEF GoesRound, FlagDown

\* Merged or replaced, the text to be written is the whole.
LEMMA TurnOpened ==
    ASSUME FileTypeOK, NEW p \in Peer, NEW q \in Peer, p # q, Peer = {p, q},
           disk = doc, doc[p] = made, FlagDown(p), OpeningIt(p, q) \/ OpeningAll(p, q),
           NEW i, Opened(q, i)
    PROVE  GoesRound(p, q)'
  <1>1. PICK n \in Text, op \in {"insert", "fill"} :
          /\ Turn(p, q, NoChange, << >>, << [step |-> "opening", op |-> op, text |-> n] >>, << >>, << >>)
          /\ Level(p, q)
          /\ op = "fill" => n = made /\ applying[q] = "yes"
          /\ op = "insert" => doc[q] \cup n = made
    BY DEF OpeningIt, OpeningAll, FileTypeOK
  <1> DEFINE t == [step |-> "opening", op |-> op, text |-> n]
             w == [step |-> "writing", op |-> op, text |-> made, base |-> doc[q]]
  <1>2. /\ tasks[q] = << t >> /\ tasks[q][1] = t /\ t.op = op /\ tasks[p] = << >> /\ i = 1
    BY <1>1 DEF Turn, Opened, Underway
  <1>3. Merged(q, t) = made
    BY <1>1 DEF Merged
  <1> HIDE DEF t
  <1>4. /\ tasks' = [tasks EXCEPT ![q][1] = w]
        /\ applying' = IF op = "fill" THEN applying ELSE [applying EXCEPT ![q] = "yes"]
        /\ UNCHANGED <<made, doc, disk, version, burst, hydrated, inbox>>
    BY <1>2, <1>3 DEF Opened
  <1>5. tasks'[q] = << w >> /\ tasks'[p] = << >>
    BY <1>2, <1>4 DEF FileTypeOK
  <1>6. applying'[q] = "yes" /\ applying'[p] = "no"
    BY <1>1, <1>4 DEF FlagDown, FileTypeOK
  <1>7. Turn(p, q, NoChange, << >>,
            << [step |-> "writing", op |-> op, text |-> made, base |-> doc[q]] >>, << >>, << >>)'
    BY <1>1, <1>4, <1>5 DEF Turn
  <1>8. WritingIt(p, q)'
    BY <1>1, <1>4, <1>6, <1>7 DEF WritingIt, Level
  <1> QED BY <1>4, <1>6, <1>8 DEF GoesRound, FlagDown

\* Nothing has touched the document since, so that it is written, on disk too,
\* and the flag hides the change event.
LEMMA TurnWritten ==
    ASSUME FileTypeOK, NEW p \in Peer, NEW q \in Peer, p # q, Peer = {p, q}, AutoSave = "on",
           disk = doc, doc[p] = made, FlagDown(p), WritingIt(p, q), NEW i, Written(q, i)
    PROVE  GoesRound(p, q)'
  <1>1. PICK op \in {"insert", "fill"} :
          Turn(p, q, NoChange, << >>,
            << [step |-> "writing", op |-> op, text |-> made, base |-> doc[q]] >>, << >>, << >>)
    BY DEF WritingIt
  <1> DEFINE t == [step |-> "writing", op |-> op, text |-> made, base |-> doc[q]]
  <1>2. tasks[q] = << t >> /\ tasks[p] = << >> /\ i = 1
    BY <1>1 DEF Turn, Written, Underway
  <1>3. applying[q] = "yes" /\ Level(p, q)
    BY DEF WritingIt
  <1>4. /\ doc' = [doc EXCEPT ![q] = made] /\ disk' = [disk EXCEPT ![q] = made]
        /\ UNCHANGED <<version, burst>>
        /\ applying' = [applying EXCEPT ![q] = "no"] /\ tasks' = Ended(q, 1)
        /\ UNCHANGED <<made, inbox>>
    BY <1>2, <1>3 DEF Written, Noticed, SavedAs, FlagAfter
  <1>5. tasks'[p] = << >> /\ tasks'[q] = << >>
    BY <1>2, <1>4, OneLess DEF Ended, FileTypeOK
  <1>6. /\ disk' = doc' /\ doc'[p] = made' /\ doc'[q] = made'
        /\ applying'[q] = "no" /\ applying'[p] = "no"
    BY <1>4 DEF FileTypeOK, FlagDown
  <1>7. Turn(p, q, NoChange, << >>, << >>, << >>, << >>)'
    BY <1>1, <1>4, <1>5 DEF Turn
  <1>8. Agreed(p, q)'
    BY <1>3, <1>4, <1>6, <1>7 DEF Agreed, Level, FlagDown
  <1> QED BY <1>6, <1>8 DEF GoesRound, FlagDown

LEMMA TurnUnchanged ==
    ASSUME NEW p \in Peer, NEW q \in Peer, GoesRound(p, q), UNCHANGED fileVars
    PROVE  GoesRound(p, q)'
  BY DEF fileVars, GoesRound, Agreed, Typed, PeerTold, OpeningIt, PeerAsked, Answering, PeerAnswered, OpeningAll,
         WritingIt, Turn, Level, Ahead, FlagDown, RequestFile

\* At each stage there is one handler, at the await the stage is named for.
LEMMA HandlerAtStage ==
    ASSUME NEW p, NEW q
    PROVE  /\ OpeningIt(p, q) \/ OpeningAll(p, q) =>
                  \A i \in 1 .. Len(tasks[q]) : tasks[q][i].step = "opening"
           /\ WritingIt(p, q) => \A i \in 1 .. Len(tasks[q]) : tasks[q][i].step = "writing"
           /\ Answering(p, q) => \A i \in 1 .. Len(tasks[p]) : tasks[p][i].step = "answering"
  <1>1. ASSUME NEW t, NEW s, s = << t >> PROVE \A i \in 1 .. Len(s) : s[i] = t
    BY <1>1
  <1>2. ASSUME OpeningIt(p, q) PROVE \A i \in 1 .. Len(tasks[q]) : tasks[q][i].step = "opening"
    <2>1. PICK n \in Text : tasks[q] = << [step |-> "opening", op |-> "insert", text |-> n] >>
      BY <1>2 DEF OpeningIt, Turn
    <2> QED BY <1>1, <2>1
  <1>3. ASSUME OpeningAll(p, q) PROVE \A i \in 1 .. Len(tasks[q]) : tasks[q][i].step = "opening"
    <2>1. tasks[q] = << [step |-> "opening", op |-> "fill", text |-> made] >>
      BY <1>3 DEF OpeningAll, Turn
    <2> QED BY <1>1, <2>1
  <1>4. ASSUME WritingIt(p, q) PROVE \A i \in 1 .. Len(tasks[q]) : tasks[q][i].step = "writing"
    <2>1. PICK op \in {"insert", "fill"} :
             tasks[q] = << [step |-> "writing", op |-> op, text |-> made, base |-> doc[q]] >>
      BY <1>4 DEF WritingIt, Turn
    <2> QED BY <1>1, <2>1
  <1>5. ASSUME Answering(p, q) PROVE \A i \in 1 .. Len(tasks[p]) : tasks[p][i].step = "answering"
    <2>1. tasks[p] = << [step |-> "answering", op |-> "send", text |-> made, to |-> q] >>
      BY <1>5 DEF Answering, Turn
    <2> QED BY <1>1, <2>1
  <1> QED BY <1>2, <1>3, <1>4, <1>5, Zenon

\* One turn, step by step.
LEMMA TurnNext ==
    ASSUME NEW p \in Peer, NEW q \in Peer, p # q, Peer = {p, q}, AutoSave = "on",
           FileTypeOK, GoesRound(p, q), [FileNext /\ (made' # made => Quiet)]_fileVars
    PROVE  GoesRound(p, q)' \/ GoesRound(q, p)'
  <1>1. disk = doc /\ doc[p] = made /\ FlagDown(p)
    BY DEF GoesRound
  <1>2. ASSUME NEW r \in Peer, NEW e \in Edit, Type(r, e), made' # made => Quiet
        PROVE  GoesRound(p, q)' \/ GoesRound(q, p)'
    <2>1. Quiet
      BY <1>2 DEF Type
    <2>2. Agreed(p, q)
      BY <2>1, Whereabouts
    <2>3. CASE r = p
      BY <1>1, <1>2, <2>2, <2>3, TurnTyped
    <2>4. CASE r = q
      BY <1>1, <1>2, <2>2, <2>4, TurnTyped, TurnsSwap
    <2> QED BY <2>3, <2>4
  <1>3. ASSUME NEW r \in Peer, Save(r) PROVE GoesRound(p, q)'
    <2>1. UNCHANGED fileVars
      BY <1>1, <1>3 DEF Save, fileVars, FileTypeOK
    <2> QED BY <2>1, TurnUnchanged
  <1>4. ASSUME NEW r \in Peer, Flush(r) PROVE GoesRound(p, q)'
    BY <1>1, <1>4, Whereabouts, TurnFlushed DEF Flush
  <1>5. ASSUME NEW r \in Peer, HandleIncoming(r) PROVE GoesRound(p, q)'
    <2>1. \/ r = q /\ (PeerTold(p, q) \/ PeerAnswered(p, q))
          \/ r = p /\ PeerAsked(p, q)
      BY <1>5, Whereabouts DEF HandleIncoming, ReceiveChange, ReceiveRequest, ReceiveContent, Read
    <2>2. CASE r = q /\ PeerTold(p, q)
      <3>1. ReceiveChange(q)
        BY <1>5, <2>2 DEF HandleIncoming, ReceiveRequest, ReceiveContent, Read, PeerTold, Turn
      <3> QED BY <1>1, <2>2, <3>1, TurnTold
    <2>3. CASE r = q /\ PeerAnswered(p, q)
      <3>1. ReceiveContent(q)
        BY <1>5, <2>3 DEF HandleIncoming, ReceiveRequest, ReceiveChange, Read, PeerAnswered, Turn
      <3> QED BY <1>1, <2>3, <3>1, TurnContent
    <2>4. CASE r = p /\ PeerAsked(p, q)
      <3>1. ReceiveRequest(p)
        BY <1>5, <2>4 DEF HandleIncoming, ReceiveContent, ReceiveChange, Read, PeerAsked, Turn, RequestFile
      <3> QED BY <1>1, <2>4, <3>1, TurnAsked
    <2> QED BY <2>1, <2>2, <2>3, <2>4
  <1>6. ASSUME NEW r \in Peer, NEW i \in 1 .. Len(tasks[r]),
               Accept(r, i) \/ Decline(r, i) \/ AnswerRequest(r, i) \/ Opened(r, i) \/ Written(r, i)
        PROVE  GoesRound(p, q)'
    <2>1. \/ r = q /\ (OpeningIt(p, q) \/ OpeningAll(p, q) \/ WritingIt(p, q))
          \/ r = p /\ Answering(p, q)
      BY <1>6, Whereabouts
    <2>2. CASE r = q /\ (OpeningIt(p, q) \/ OpeningAll(p, q))
      <3>1. tasks[q][i].step = "opening"
        BY <1>6, <2>2, HandlerAtStage
      <3>2. Opened(q, i)
        BY <1>6, <2>2, <3>1 DEF Accept, Decline, AnswerRequest, Written, Underway
      <3> QED BY <1>1, <2>2, <3>2, TurnOpened
    <2>3. CASE r = q /\ WritingIt(p, q)
      <3>1. tasks[q][i].step = "writing"
        BY <1>6, <2>3, HandlerAtStage
      <3>2. Written(q, i)
        BY <1>6, <2>3, <3>1 DEF Accept, Decline, AnswerRequest, Opened, Underway
      <3> QED BY <1>1, <2>3, <3>2, TurnWritten
    <2>4. CASE r = p /\ Answering(p, q)
      <3>1. tasks[p][i].step = "answering"
        BY <1>6, <2>4, HandlerAtStage
      <3>2. AnswerRequest(p, i)
        BY <1>6, <2>4, <3>1 DEF Accept, Decline, Written, Opened, Underway
      <3> QED BY <1>1, <2>4, <3>2, TurnAnswered
    <2> QED BY <2>1, <2>2, <2>3, <2>4
  <1>7. CASE UNCHANGED fileVars
    BY <1>7, TurnUnchanged
  <1> QED BY <1>2, <1>3, <1>4, <1>5, <1>6, <1>7 DEF FileNext, Continue

LEMMA TurnInvNext ==
    ASSUME NEW a, NEW b, a # b, Peer = {a, b}, AutoSave = "on",
           TurnInv, [FileNext /\ (made' # made => Quiet)]_fileVars
    PROVE  TurnInv'
  <1>1. PICK p \in Peer, q \in Peer : p # q /\ GoesRound(p, q)
    BY DEF TurnInv
  <1>2. Peer = {p, q}
    BY <1>1
  <1>3. FileTypeOK /\ FileTypeOK'
    BY FileTypeOKNext DEF TurnInv
  <1>4. GoesRound(p, q)' \/ GoesRound(q, p)'
    BY <1>1, <1>2, <1>3, TurnNext
  <1> QED BY <1>1, <1>3, <1>4 DEF TurnInv

\* Once everything is settled both have the text that was typed; and a handler
\* that asks is at no stage.
LEMMA TurnInvMeans ==
    ASSUME NEW a, NEW b, a # b, Peer = {a, b}, TurnInv
    PROVE  TurnTakersAgree
  <1>1. PICK p \in Peer, q \in Peer : p # q /\ GoesRound(p, q)
    BY DEF TurnInv
  <1>2. Peer = {p, q}
    BY <1>1
  <1>3. QuietPeersAgree
    <2>1. Quiet => Agreed(p, q)
      BY <1>1, <1>2, Whereabouts
    <2>2. doc[p] = made /\ (Agreed(p, q) => doc[q] = made)
      BY <1>1 DEF GoesRound, Agreed
    <2> QED BY <1>2, <2>1, <2>2 DEF QuietPeersAgree
  <1>4. TurnTakersSeeNoDialog
    <2>1. ASSUME NEW r \in Peer, NEW i \in 1 .. Len(tasks[r]) PROVE tasks[r][i].step # "asking"
      <3>1. \/ r = q /\ (OpeningIt(p, q) \/ OpeningAll(p, q) \/ WritingIt(p, q))
            \/ r = p /\ Answering(p, q)
        BY <1>1, <1>2, <2>1, Whereabouts
      <3> QED BY <2>1, <3>1, HandlerAtStage
    <2> QED BY <2>1 DEF TurnTakersSeeNoDialog
  <1> QED BY <1>3, <1>4 DEF TurnTakersAgree

\* Two people who take turns, with auto save on, have the same text whenever
\* nothing is on its way, and are never shown a conflict: whether the other has
\* been hydrated or has to ask for the file (fileSyncService.ts:
\* handleRemoteFileChange, applyFileChanges, applyFileContent, getFileContent).
THEOREM TurnTakersAlwaysAgree ==
    ASSUME NEW a, NEW b, a # b, Peer = {a, b}, AutoSave = "on"
    PROVE  TurnSpec => []TurnTakersAgree
  <1>1. FileInit => TurnInv
    <2> SUFFICES ASSUME FileInit PROVE TurnInv
      OBVIOUS
    <2>1. FileTypeOK
      BY FileTypeOKInit
    <2>2. a \in Peer /\ b \in Peer /\ GoesRound(a, b)
      BY DEF FileInit, GoesRound, Agreed, Turn, Level, FlagDown
    <2> QED BY <2>1, <2>2 DEF TurnInv
  <1>2. TurnInv /\ [FileNext /\ (made' # made => Quiet)]_fileVars => TurnInv'
    BY TurnInvNext
  <1>3. TurnInv => TurnTakersAgree
    BY TurnInvMeans
  <1> QED BY <1>1, <1>2, <1>3, PTL DEF TurnSpec

=============================================================================
