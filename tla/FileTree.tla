------------------------------ MODULE FileTree ------------------------------
(***************************************************************************)
(* The files of a shared workspace: what is created, deleted and renamed   *)
(* by a user reaches the others over the file watcher (fileWatcher.ts),    *)
(* their handlers (fileSyncService.ts:156) write it, and their own watcher *)
(* sees that again.  Only one flag, isApplyingRemote, tells a handler's    *)
(* write from a user's.  Missing files are pulled by the Sync button       *)
(* (socketManager.ts:561).  Handlers are not serialised: each waits for    *)
(* its own file operation.  A watcher's events come after the change, those *)
(* of one operation together: what was created, then what was deleted.     *)
(* (A definition named X_... is X with a bug put in, for the mutation      *)
(* runs; no other definition uses it.)                                     *)
(***************************************************************************)
EXTENDS Integers, Sequences, FiniteSets, SequencesExt

CONSTANTS
    Member,          \* participants of the room, in the order they came
    Path,
    Ignored,         \* paths that are not synced (IgnoreManager)
    AtFirst,         \* for each member the paths it has at first
    TakeTurns,       \* whether users wait until nothing is under way
    MaxTouches       \* bound: operations of the users

ASSUME MemberAssumption ==
    /\ Member \subseteq Nat
    /\ IsFiniteSet(Path) /\ Ignored \subseteq Path
    /\ \A m \in Member : AtFirst[m] \subseteq Path

VARIABLES
    treeFiles,       \* files of a member: their content, or "none"
    treeEvents,      \* watcher events of a member not delivered yet
    treeReads,       \* created files whose content is being read, to be sent
    treeTasks,       \* handlers of a member that wait for a file operation
    treeApplying,    \* isApplyingRemote
    treeInbox,       \* frames relayed to a member and not read yet
    treeManifests,   \* peerManifests
    treePulls,       \* members that wait in pullMissingFiles, and what they had
    treeMeant,       \* what the users want a path to be, once they touched it
    treeAsked,       \* paths a member has requested
    treeTouches

treeQueues == <<treeEvents, treeReads, treeTasks, treeApplying, treeInbox>>
treeSync == <<treeManifests, treePulls, treeAsked>>
treeUsers == <<treeMeant, treeTouches>>
treeVars == <<treeFiles, treeQueues, treeSync, treeUsers>>

FileContent == {"", "text"}
Synced(path) == path \notin Ignored

FileFrame(type, path, to, content) == [type |-> type, path |-> path, to |-> to, content |-> content]

TreeInit ==
    /\ treeFiles = [m \in Member |-> [p \in Path |-> IF p \in AtFirst[m] THEN "text" ELSE "none"]]
    /\ treeEvents = [m \in Member |-> << >>]
    /\ treeReads = [m \in Member |-> << >>]
    /\ treeTasks = [m \in Member |-> << >>]
    /\ treeApplying = [m \in Member |-> FALSE]
    /\ treeInbox = [m \in Member |-> << >>]
    \* bootstrapWorkspace: who joins shares its manifest with those there.
    /\ treeManifests = [m \in Member |-> [n \in Member |-> IF m < n THEN AtFirst[n] \ Ignored ELSE {}]]
    /\ treePulls = << >>
    /\ treeMeant = [p \in Path |-> "untouched"]
    /\ treeAsked = [m \in Member |-> {}]
    /\ treeTouches = 0

Has(m, path) == treeFiles[m][path] # "none"
\* relayRoomMessage: to everybody else in the room.
Relayed(inbox, m, frames) == [n \in Member |-> IF n = m THEN inbox[n] ELSE inbox[n] \o frames]
WatcherTold(m, created, deleted) ==
    treeEvents' = IF created = {} /\ deleted = {} THEN treeEvents
                  ELSE [treeEvents EXCEPT ![m] = Append(@, [created |-> created, deleted |-> deleted])]

TreeQuiet ==
    /\ \A m \in Member : treeEvents[m] = << >> /\ treeReads[m] = << >>
                         /\ treeTasks[m] = << >> /\ treeInbox[m] = << >>
    /\ treePulls = << >>

-----------------------------------------------------------------------------
(* The user of a member.                                                    *)

Touch(meant) ==
    /\ treeTouches < MaxTouches
    /\ TakeTurns => TreeQuiet
    /\ treeTouches' = treeTouches + 1
    /\ treeMeant' = meant
    /\ UNCHANGED <<treeReads, treeTasks, treeApplying, treeSync>>

UserCreates(m, path, content) ==
    /\ ~Has(m, path)
    /\ Touch([treeMeant EXCEPT ![path] = content])
    /\ treeFiles' = [treeFiles EXCEPT ![m][path] = content]
    /\ WatcherTold(m, {path}, {})
    /\ UNCHANGED treeInbox

UserDeletes(m, path) ==
    /\ Has(m, path)
    /\ Touch([treeMeant EXCEPT ![path] = "none"])
    /\ treeFiles' = [treeFiles EXCEPT ![m][path] = "none"]
    /\ WatcherTold(m, {}, {path})
    /\ UNCHANGED treeInbox

\* onDidRenameFiles sends it at once; the watcher has two events of it.  Whoever
\* has the old path renames a file of his own: what an ignored path became is
\* clear only if those files were alike.
Alike(m, path) == \A n \in Member : treeFiles[n][path] \in {"none", treeFiles[m][path]}
UserRenames(m, old, new) ==
    /\ Has(m, old) /\ ~Has(m, new)
    /\ Touch([treeMeant EXCEPT ![old] = "none",
                               ![new] = IF Alike(m, old) THEN treeFiles[m][old] ELSE "unclear"])
    /\ treeFiles' = [treeFiles EXCEPT ![m][old] = "none", ![m][new] = treeFiles[m][old]]
    /\ WatcherTold(m, {new}, {old})
    /\ treeInbox' = Relayed(treeInbox, m, <<FileFrame("FILE_RENAME", old, new, "")>>)

-----------------------------------------------------------------------------
(* FileWatcher.                                                             *)

DeliverEvent(m) ==
    /\ treeEvents[m] # << >>
    /\ treeEvents' = [treeEvents EXCEPT ![m] = Tail(@)]
    /\ LET e == Head(treeEvents[m])
           created == IF treeApplying[m] THEN {} ELSE {p \in e.created : Synced(p)}
           deleted == IF treeApplying[m] THEN {} ELSE e.deleted
       IN /\ treeReads' = [treeReads EXCEPT ![m] = @ \o SetToSeq(created)]
          /\ treeInbox' = Relayed(treeInbox, m, SetToSeq({FileFrame("FILE_DELETE", p, p, "") : p \in deleted}))
    /\ UNCHANGED <<treeFiles, treeTasks, treeApplying, treeSync, treeUsers>>

\* The file is read: a file that has gone is sent as an empty one.
SentContent(m, path) == IF Has(m, path) THEN treeFiles[m][path] ELSE ""
FileRead(m, i) ==
    LET path == treeReads[m][i]
    IN /\ treeReads' = [treeReads EXCEPT ![m] = RemoveAt(@, i)]
       /\ treeInbox' = Relayed(treeInbox, m, <<FileFrame("FILE_CREATE", path, path, SentContent(m, path))>>)
       /\ UNCHANGED <<treeFiles, treeEvents, treeTasks, treeApplying, treeSync, treeUsers>>

-----------------------------------------------------------------------------
(* SocketManager.handleIncoming, and the handlers' file operations.         *)

StartTask(m, frame) ==
    /\ treeTasks' = [treeTasks EXCEPT ![m] = Append(@, [frame |-> frame, landed |-> FALSE])]
    /\ treeApplying' = [treeApplying EXCEPT ![m] = TRUE]

\* A requested file is sent to the room, a targeted one to its requester: here
\* frame.to is the requester and frame.content the file's text.
ReceiveFrame(m) ==
    /\ treeInbox[m] # << >>
    /\ LET frame == Head(treeInbox[m])
           rest == [treeInbox EXCEPT ![m] = Tail(@)]
       IN \/ /\ frame.type \in {"FILE_CREATE", "FILE_CONTENT"}
             /\ IF Synced(frame.path) THEN StartTask(m, frame) ELSE UNCHANGED <<treeTasks, treeApplying>>
             /\ treeInbox' = rest
             /\ UNCHANGED treeManifests
          \/ /\ frame.type \in {"FILE_DELETE", "FILE_RENAME"}
             /\ StartTask(m, frame)
             /\ treeInbox' = rest
             /\ UNCHANGED treeManifests
          \/ /\ frame.type = "FILE_REQUEST"
             /\ treeInbox' = IF Has(m, frame.path) /\ Synced(frame.path)
                             THEN [rest EXCEPT ![frame.to] = Append(@,
                                    FileFrame("FILE_CONTENT", frame.path, frame.to, treeFiles[m][frame.path]))]
                             ELSE rest
             /\ UNCHANGED <<treeTasks, treeApplying, treeManifests>>
          \/ /\ frame.type = "ARCH_SHARE"
             /\ treeManifests' = [treeManifests EXCEPT ![m][frame.to] = frame.content]
             /\ treeInbox' = rest
             /\ UNCHANGED <<treeTasks, treeApplying>>
    /\ UNCHANGED <<treeFiles, treeEvents, treeReads, treePulls, treeAsked, treeUsers>>

\* The operation lands, with the events the watcher will deliver.  A write to
\* a file that is there is a change, for which nobody listens; a rename does
\* not overwrite; what cannot be deleted or renamed is left.
Appears_anyway(m, path) == TRUE
Appears(m, path) == ~Has(m, path)
Rename(m, old, new) == Has(m, old) /\ ~Has(m, new)
TaskLands(m, i) ==
    LET f == treeTasks[m][i].frame
        writes == f.type \in {"FILE_CREATE", "FILE_CONTENT"}
        renames == f.type = "FILE_RENAME" /\ Rename(m, f.path, f.to)
        deletes == f.type = "FILE_DELETE" /\ Has(m, f.path)
    IN /\ ~treeTasks[m][i].landed
       /\ treeTasks' = [treeTasks EXCEPT ![m][i].landed = TRUE]
       /\ treeFiles' = CASE writes -> [treeFiles EXCEPT ![m][f.path] = f.content]
                         [] renames -> [treeFiles EXCEPT ![m][f.path] = "none", ![m][f.to] = treeFiles[m][f.path]]
                         [] deletes -> [treeFiles EXCEPT ![m][f.path] = "none"]
                         [] OTHER -> treeFiles
       /\ WatcherTold(m, CASE renames -> {f.to}
                           [] writes /\ Appears(m, f.path) -> {f.path}
                           [] OTHER -> {},
                         IF renames \/ deletes THEN {f.path} ELSE {})
       /\ UNCHANGED <<treeReads, treeApplying, treeInbox, treeSync, treeUsers>>

\* The handler goes on and lowers the flag, another handler's or not.
TaskEnds(m, i) ==
    /\ treeTasks[m][i].landed
    /\ treeTasks' = [treeTasks EXCEPT ![m] = RemoveAt(@, i)]
    /\ treeApplying' = [treeApplying EXCEPT ![m] = FALSE]
    /\ UNCHANGED <<treeFiles, treeEvents, treeReads, treeInbox, treeSync, treeUsers>>

-----------------------------------------------------------------------------
(* pullMissingFiles.                                                        *)

Manifest(m) == {p \in Path : Has(m, p) /\ Synced(p)}

StartPull(m) ==
    /\ treePulls = << >>
    /\ treeTouches < MaxTouches
    /\ TakeTurns => TreeQuiet
    /\ treeTouches' = treeTouches + 1
    /\ treePulls' = <<[by |-> m, had |-> Manifest(m)]>>
    /\ treeInbox' = Relayed(treeInbox, m, <<FileFrame("ARCH_SHARE", "", m, Manifest(m))>>)
    /\ UNCHANGED <<treeFiles, treeEvents, treeReads, treeTasks, treeApplying, treeManifests,
                   treeAsked, treeMeant>>

\* After 800 ms it requests what the manifests it has name and it had not.
Requests(m, missing) ==
    [i \in 1 .. Cardinality(missing) |-> FileFrame("FILE_REQUEST", SetToSeq(missing)[i], m, "")]
EndPull ==
    /\ treePulls # << >>
    /\ LET m == treePulls[1].by
           missing == UNION {treeManifests[m][n] : n \in Member} \ treePulls[1].had
       IN /\ treeInbox' = Relayed(treeInbox, m, Requests(m, missing))
          /\ treeAsked' = [treeAsked EXCEPT ![m] = @ \cup missing]
    /\ treePulls' = << >>
    /\ UNCHANGED <<treeFiles, treeEvents, treeReads, treeTasks, treeApplying, treeManifests,
                   treeUsers>>

TreeTask(m) ==
    \/ DeliverEvent(m)
    \/ \E i \in DOMAIN treeReads[m] : FileRead(m, i)
    \/ ReceiveFrame(m)
    \/ \E i \in DOMAIN treeTasks[m] : TaskLands(m, i) \/ TaskEnds(m, i)

TreeNext ==
    \/ \E m \in Member, path \in Path :
          \/ \E content \in FileContent : UserCreates(m, path, content)
          \/ UserDeletes(m, path)
          \/ \E new \in Path : UserRenames(m, path, new)
    \/ \E m \in Member : TreeTask(m) \/ StartPull(m)
    \/ EndPull

\* Every member's events, reads and handlers are served in the end.
TreeSpec == TreeInit /\ [][TreeNext]_treeVars
TreeFairSpec ==
    TreeSpec /\ WF_treeVars(\E m \in Member : TreeTask(m)) /\ WF_treeVars(EndPull)

-----------------------------------------------------------------------------
(* Every file has a content, every event and frame a path.                  *)
TreeTypeOK ==
    /\ treeFiles \in [Member -> [Path -> FileContent \cup {"none"}]]
    /\ treeApplying \in [Member -> BOOLEAN]
    /\ treeMeant \in [Path -> FileContent \cup {"none", "untouched", "unclear"}]
    /\ treeManifests \in [Member -> [Member -> SUBSET (Path \ Ignored)]]
    /\ \A m \in Member :
          /\ \A i \in DOMAIN treeEvents[m] : treeEvents[m][i].created \cup treeEvents[m][i].deleted \subseteq Path
          /\ \A i \in DOMAIN treeReads[m] : treeReads[m][i] \in Path \ Ignored
          /\ \A i \in DOMAIN treeTasks[m] : treeTasks[m][i].frame.content \in FileContent

\* Users that wait for one another have the same files once all is quiet: the
\* deletions and creations a rename sends along, the echoes of the others'
\* watchers, and handlers that overtake each other, change nothing of that
\* (fileWatcher.ts:19-52, fileSyncService.ts:156-205).  Not so for a path that
\* was ignored and unlike at two members before it was renamed: the creations
\* their watchers report cross, and each takes the other's content.
TurnTakersHaveTheSame ==
    TakeTurns /\ TreeQuiet => \A p \in Path \ Ignored : treeMeant[p] \notin {"untouched", "unclear"} =>
        \A m \in Member : treeFiles[m][p] = treeMeant[p]

\* A file that was requested is there in the end, if anybody has it
\* (pullMissingFiles, socketManager.ts:561).
PulledFilesArrive ==
    TakeTurns /\ TreeQuiet => \A m \in Member : \A p \in treeAsked[m] :
        (\E n \in Member : Has(n, p)) => Has(m, p)

\* The watchers' echoes of an operation come to an end: for users that take
\* turns a change is not sent round for ever (fileWatcher.ts:27, 50).
EchoesEnd == TakeTurns => []<>TreeQuiet

\* The workspaces of people who wait for one another come to rest, and are the
\* same then.
TreesComeTogether == [](TurnTakersHaveTheSame /\ PulledFilesArrive) /\ EchoesEnd
=============================================================================
