------------------------------ MODULE FileSync ------------------------------
(***************************************************************************)
(* The text of one file among the editors of a room: how a keystroke is    *)
(* debounced, numbered, relayed, checked for conflicts, merged and written *)
(* by the others, and how a peer that has not been hydrated asks for the   *)
(* whole file instead.                                                     *)
(* A text is the set of the edits it contains; where in the text an edit   *)
(* lands is abstracted.  Everybody starts from the same checkout.  The     *)
(* server relays a frame to all others at once, and each link is a queue.  *)
(* handleIncoming is async and frames do not wait for each other, so the   *)
(* handlers of several frames are under way in one peer (its tasks).       *)
(***************************************************************************)
EXTENDS Integers, Sequences, FiniteSets

CONSTANTS
    Peer, Edit,
    AutoSave,     \* files.autoSave, "on" or "off"
    MaxVersion    \* bound: numbers a peer may give

ASSUME AutoSaveAssumption == AutoSave \in {"on", "off"}
ASSUME BoundAssumption == MaxVersion \in Nat

VARIABLES
    made,         \* the edits typed so far
    doc, disk,    \* the document in the editor, the file on disk
    version,      \* ConflictManager's number for the file
    burst,        \* pendingChanges: the change the 50 ms timer will send
    hydrated,     \* peers whose hydratedFiles has the file
    applying,     \* isApplyingRemote, one flag for all handlers
    tasks,        \* the handlers under way
    inbox         \* frames relayed to a peer and not yet read

fileVars == <<made, doc, disk, version, burst, hydrated, applying, tasks, inbox>>

Text == SUBSET Edit

\* What a FILE_CHANGE does to a text: put edits in, or replace it whole (the
\* change event of a remote change that was written into the document).
Change == [op : {"insert", "replace"}, text : Text, version : Nat]
NoChange == [op |-> "none", text |-> {}, version |-> 0]

Frame ==
    [type : {"FILE_CHANGE"}, from : Peer, change : Change]
        \cup [type : {"FILE_REQUEST"}, from : Peer]
        \cup [type : {"FILE_CONTENT"}, text : Text]

\* A handler waiting: for the conflict dialog, for the document to open, for
\* its write to land, or for the file it read to be sent.  base is the text
\* the document had when the write was computed.
Task ==
    [step : {"asking"}, op : {"insert", "replace"}, text : Text]
        \cup [step : {"opening"}, op : {"insert", "replace", "fill"}, text : Text]
        \cup [step : {"writing"}, op : {"insert", "replace", "fill"}, text : Text, base : Text]
        \cup [step : {"answering"}, op : {"send"}, text : Text, to : Peer]

FileInit ==
    /\ made = {}
    /\ doc = [p \in Peer |-> {}] /\ disk = [p \in Peer |-> {}]
    /\ version = [p \in Peer |-> 0]
    /\ burst = [p \in Peer |-> NoChange]
    /\ hydrated = {}
    /\ applying = [p \in Peer |-> "no"]
    /\ tasks = [p \in Peer |-> << >>]
    /\ inbox = [p \in Peer |-> << >>]

-----------------------------------------------------------------------------
(* Helpers.                                                                *)

SavedAs(p, t) == IF AutoSave = "on" THEN [disk EXCEPT ![p] = t] ELSE disk

Started(p, t) == [tasks EXCEPT ![p] = Append(@, t)]
Ended(p, i) ==
    [tasks EXCEPT ![p] = SubSeq(@, 1, i - 1) \o SubSeq(@, i + 1, Len(@))]
Underway(p, i, step) == i \in 1 .. Len(tasks[p]) /\ tasks[p][i].step = step

\* (A definition named X_... is X with a bug put in, for the mutation runs; no
\* other definition uses it.)

\* The frame f goes to everybody but its sender.
ToOthers(box, p, f) == [q \in Peer |-> IF q = p THEN box[q] ELSE Append(box[q], f)]

RequestFile(p) == [type |-> "FILE_REQUEST", from |-> p]

Debounced(p, op, text) ==
    [burst EXCEPT ![p] = [op |-> op, text |-> text, version |-> version[p] + 1]]

\* sendFileChange: a new number, and the timer is set afresh for this change
\* alone.
SendFileChange(p, op, text) ==
    /\ version[p] < MaxVersion
    /\ version' = [version EXCEPT ![p] = @ + 1]
    /\ burst' = Debounced(p, op, text)

-----------------------------------------------------------------------------
(* The editor.                                                             *)

\* A keystroke.  While a remote change is being written it is not sent.
Type(p, e) ==
    /\ e \notin made /\ made' = made \cup {e}
    /\ doc' = [doc EXCEPT ![p] = @ \cup {e}]
    /\ disk' = SavedAs(p, doc'[p])
    /\ \/ applying[p] = "no" /\ SendFileChange(p, "insert", {e})
       \/ applying[p] = "yes" /\ UNCHANGED <<version, burst>>
    /\ UNCHANGED <<hydrated, applying, tasks, inbox>>

Save(p) ==
    /\ disk' = [disk EXCEPT ![p] = doc[p]]
    /\ UNCHANGED <<made, doc, version, burst, hydrated, applying, tasks, inbox>>

\* The 50 ms timer.
Flush(p) ==
    /\ burst[p] # NoChange
    /\ burst' = [burst EXCEPT ![p] = NoChange]
    /\ inbox' = ToOthers(inbox, p, [type |-> "FILE_CHANGE", from |-> p, change |-> burst[p]])
    /\ UNCHANGED <<made, doc, disk, version, hydrated, applying, tasks>>

-----------------------------------------------------------------------------
(* A frame arrives.                                                        *)

\* applyRemoteVersion.
Conflicts(p, v) == version[p] > 0 /\ v > version[p] + 1
Adopted_last(p, v) == [version EXCEPT ![p] = v]
Adopted(p, v) == [version EXCEPT ![p] = IF v > @ THEN v ELSE @]

Proceed_neverAsks(p, base, box, c) ==
    /\ inbox' = box
    /\ tasks' = IF p \in hydrated
                THEN [base EXCEPT ![p] =
                          Append(@, [step |-> "opening", op |-> c.op, text |-> c.text])]
                ELSE base

\* What handleRemoteFileChange does once there is no conflict, or none any
\* more: a peer that is not hydrated asks for the file and drops the change.
Proceed(p, base, box, c) ==
    IF p \in hydrated
    THEN /\ tasks' = [base EXCEPT ![p] =
                          Append(@, [step |-> "opening", op |-> c.op, text |-> c.text])]
         /\ inbox' = box
    ELSE tasks' = base /\ inbox' = ToOthers(box, p, RequestFile(p))

Read(p, type) == inbox[p] # << >> /\ Head(inbox[p]).type = type
Rest(p) == [inbox EXCEPT ![p] = Tail(@)]

ReceiveChange(p) ==
    LET c == Head(inbox[p]).change
    IN  /\ Read(p, "FILE_CHANGE")
        /\ \/ /\ Conflicts(p, c.version)
              /\ tasks' = Started(p, [step |-> "asking", op |-> c.op, text |-> c.text])
              /\ inbox' = Rest(p) /\ UNCHANGED version
           \/ /\ ~Conflicts(p, c.version)
              /\ version' = Adopted(p, c.version)
              /\ Proceed(p, tasks, Rest(p), c)
        /\ UNCHANGED <<made, doc, disk, burst, hydrated, applying>>

\* The conflict dialog: Accept Remote goes on; Keep Local drops the change, and
\* so do Open File and dismissing the dialog, which fail to open the path.
Accept(p, i) ==
    /\ Underway(p, i, "asking")
    /\ Proceed(p, Ended(p, i), inbox, tasks[p][i])
    /\ UNCHANGED <<made, doc, disk, version, burst, hydrated, applying>>
Decline(p, i) ==
    /\ Underway(p, i, "asking")
    /\ tasks' = Ended(p, i)
    /\ UNCHANGED <<made, doc, disk, version, burst, hydrated, applying, inbox>>

\* FILE_REQUEST: getFileContent reads the disk, not the document.
ReceiveRequest(p) ==
    /\ Read(p, "FILE_REQUEST")
    /\ tasks' = Started(p, [step |-> "answering", op |-> "send", text |-> disk[p],
                            to |-> Head(inbox[p]).from])
    /\ inbox' = Rest(p)
    /\ UNCHANGED <<made, doc, disk, version, burst, hydrated, applying>>

AnswerRequest(p, i) ==
    LET t == tasks[p][i]
    IN  /\ Underway(p, i, "answering")
        /\ inbox' = [inbox EXCEPT ![t.to] =
                         Append(@, [type |-> "FILE_CONTENT", text |-> t.text])]
        /\ tasks' = Ended(p, i)
        /\ UNCHANGED <<made, doc, disk, version, burst, hydrated, applying>>

\* FILE_CONTENT: applyFileContent raises the flag at once.
ReceiveContent(p) ==
    /\ Read(p, "FILE_CONTENT")
    /\ applying' = [applying EXCEPT ![p] = "yes"]
    /\ tasks' = Started(p, [step |-> "opening", op |-> "fill", text |-> Head(inbox[p]).text])
    /\ inbox' = Rest(p)
    /\ UNCHANGED <<made, doc, disk, version, burst, hydrated>>

-----------------------------------------------------------------------------
(* A handler goes on.                                                      *)

Merged_nested(p, t) == IF t.op = "insert" THEN doc[p] \cup {t.text} ELSE t.text

\* applyRemoteWithOT turns the incoming changes into one replacement of the
\* whole text it has just read.
Merged(p, t) == IF t.op = "insert" THEN doc[p] \cup t.text ELSE t.text

\* The document is open: the new text is computed, and applyFileChanges (not
\* applyFileContent, which did so earlier) raises the flag.
Opened(p, i) ==
    LET t == tasks[p][i]
    IN  /\ Underway(p, i, "opening")
        /\ tasks' = [tasks EXCEPT ![p][i] =
                         [step |-> "writing", op |-> t.op, text |-> Merged(p, t),
                          base |-> doc[p]]]
        /\ applying' = IF t.op = "fill" THEN applying ELSE [applying EXCEPT ![p] = "yes"]
        /\ UNCHANGED <<made, doc, disk, version, burst, hydrated, inbox>>

\* The change event of the written text: an edit like any other when another
\* handler has lowered the flag meanwhile.
Noticed(p, text) ==
    IF applying[p] = "no" /\ text # doc[p]
    THEN SendFileChange(p, "replace", text)
    ELSE UNCHANGED <<version, burst>>

Filled_ifWritten(p, t) ==
    IF t.op = "fill" /\ doc[p] = t.base THEN hydrated \cup {p} ELSE hydrated
Filled(p, t) == IF t.op = "fill" THEN hydrated \cup {p} ELSE hydrated

FlagAfter_rejected(p, t) == IF doc[p] = t.base THEN [applying EXCEPT ![p] = "no"] ELSE applying
FlagAfter(p, t) == [applying EXCEPT ![p] = "no"]

\* The edit reaches the editor, which may reject one computed for a document
\* that has changed since; the result is not looked at.
Written(p, i) ==
    LET t == tasks[p][i]
    IN  /\ Underway(p, i, "writing")
        /\ \/ /\ doc' = [doc EXCEPT ![p] = t.text]
              /\ disk' = SavedAs(p, t.text)
              /\ Noticed(p, t.text)
           \/ doc[p] # t.base /\ UNCHANGED <<doc, disk, version, burst>>
        /\ hydrated' = Filled(p, t)
        /\ applying' = FlagAfter(p, t)
        /\ tasks' = Ended(p, i)
        /\ UNCHANGED <<made, inbox>>

-----------------------------------------------------------------------------
HandleIncoming(p) == ReceiveChange(p) \/ ReceiveRequest(p) \/ ReceiveContent(p)

Continue(p) ==
    \E i \in 1 .. Len(tasks[p]) :
        Accept(p, i) \/ Decline(p, i) \/ AnswerRequest(p, i) \/ Opened(p, i) \/ Written(p, i)

FileNext ==
    \E p \in Peer :
        \/ \E e \in Edit : Type(p, e)
        \/ Save(p) \/ Flush(p)
        \/ HandleIncoming(p) \/ Continue(p)

FileSpec == FileInit /\ [][FileNext]_fileVars

\* Timers fire, frames are read and awaits end; nobody has to answer a dialog.
FileFairness ==
    \A p \in Peer :
        /\ WF_fileVars(Flush(p)) /\ WF_fileVars(HandleIncoming(p))
        /\ WF_fileVars(\E i \in 1 .. Len(tasks[p]) :
                       AnswerRequest(p, i) \/ Opened(p, i) \/ Written(p, i))

FileFairSpec == FileSpec /\ FileFairness

\* Everything sent has been read and dealt with.
Quiet ==
    \A p \in Peer : burst[p] = NoChange /\ tasks[p] = << >> /\ inbox[p] = << >>

\* People who take turns: nobody types before the last edit has gone round.
TurnSpec == FileInit /\ [][FileNext /\ (made' # made => Quiet)]_fileVars

\* One person at a time types, as fast as he likes, when nothing is on its way;
\* dialogs are accepted.
OneTyping ==
    made' # made =>
        \A p \in Peer : /\ tasks[p] = << >> /\ inbox[p] = << >>
                        /\ burst[p] # NoChange => doc'[p] # doc[p]
Declined == \E p \in Peer : \E i \in 1 .. Len(tasks[p]) : Decline(p, i)
BurstSpec == FileInit /\ [][FileNext /\ OneTyping /\ ~Declined]_fileVars

-----------------------------------------------------------------------------
(* Properties.                                                             *)

\* The type invariant of the peers and their links.
FileTypeOK ==
    /\ made \in Text
    /\ doc \in [Peer -> Text] /\ disk \in [Peer -> Text]
    /\ version \in [Peer -> Nat]
    /\ burst \in [Peer -> Change \cup {NoChange}]
    /\ hydrated \in SUBSET Peer
    /\ applying \in [Peer -> {"yes", "no"}]
    /\ tasks \in [Peer -> Seq(Task)]
    /\ inbox \in [Peer -> Seq(Frame)]

\* The flag that keeps keystrokes from being sent is up only while some handler
\* is writing and will lower it: no overlap of handlers leaves a peer mute.
FlagIsLowered ==
    \A p \in Peer : applying[p] = "yes" =>
        \E i \in 1 .. Len(tasks[p]) :
            tasks[p][i].step = "writing" \/ tasks[p][i].op = "fill"

ChangeFrom(p, f) == f.type = "FILE_CHANGE" /\ f.from = p

\* A sender never uses a number twice, and its changes arrive in the order of
\* their numbers, each newer than any other peer's it had adopted.
NumbersAreFresh ==
    \A p, q \in Peer :
        /\ \A i, j \in 1 .. Len(inbox[q]) :
               i < j /\ ChangeFrom(p, inbox[q][i]) /\ ChangeFrom(p, inbox[q][j])
                   => inbox[q][i].change.version < inbox[q][j].change.version
        /\ \A i \in 1 .. Len(inbox[q]) :
               ChangeFrom(p, inbox[q][i]) =>
                   /\ inbox[q][i].change.version <= version[p]
                   /\ burst[p] # NoChange =>
                          inbox[q][i].change.version < burst[p].version

\* What was typed is in everybody's document once everything sent has been
\* dealt with: two people who take turns, with auto save on, have the same text.
QuietPeersAgree == Quiet => \A p \in Peer : doc[p] = made

\* Two people who take turns never see a conflict dialog.
TurnTakersSeeNoDialog ==
    \A p \in Peer : \A i \in 1 .. Len(tasks[p]) : tasks[p][i].step # "asking"

\* A peer that asked for the file is hydrated in the end.
RequestIsAnswered ==
    \A p \in Peer :
        (\E q \in Peer : \E i \in 1 .. Len(inbox[q]) : inbox[q][i] = RequestFile(p))
            ~> p \in hydrated

\* Two people who take turns, with auto save on: the same text, and no dialog.
TurnTakersAgree == QuietPeersAgree /\ TurnTakersSeeNoDialog

=============================================================================
