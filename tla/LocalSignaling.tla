--------------------------- MODULE LocalSignaling ---------------------------
(***************************************************************************)
(* The signaling node a host may start on its own machine                  *)
(* (localSignaling.ts): one child process at a time is known to the        *)
(* extension, started and stopped by commands; its 'exit' event comes      *)
(* later than the kill, or by itself when the node fails.  Whether the     *)
(* node gets its port, and what start() reports, is left out.              *)
(* (A definition named X_... is X with a bug put in, for the mutation      *)
(* runs; no other definition uses it.)                                     *)
(***************************************************************************)
EXTENDS Naturals

CONSTANT MaxSpawned      \* bound: processes started, numbered in that order

ASSUME SpawnedAssumption == MaxSpawned \in Nat

VARIABLES
    nodeProcess,     \* process: the child the extension knows, or 0
    nodeState,       \* of each child: "unused", "running", "killed" or "dead"
    nodeHasty        \* whether a start came before the exit of a stopped child

nodeVars == <<nodeProcess, nodeState, nodeHasty>>

Child == 1 .. MaxSpawned
Living == {c \in Child : nodeState[c] \in {"running", "killed"}}

LocalInit ==
    /\ nodeProcess = 0
    /\ nodeState = [c \in Child |-> "unused"]
    /\ nodeHasty = FALSE

\* isRunning: a child that fails is only forgotten when its exit is heard.
IsRunning_never == FALSE
IsRunning == nodeProcess # 0

StartNode ==
    \E c \in Child :
        /\ ~IsRunning
        /\ nodeState[c] = "unused" /\ \A d \in Child : d < c => nodeState[d] # "unused"
        /\ nodeProcess' = c
        /\ nodeState' = [nodeState EXCEPT ![c] = "running"]
        /\ nodeHasty' = (nodeHasty \/ "killed" \in {nodeState[d] : d \in Child})

\* stop(), also dispose()
StopNode ==
    /\ nodeProcess # 0
    /\ nodeState' = [nodeState EXCEPT ![nodeProcess] = "killed"]
    /\ nodeProcess' = 0
    /\ UNCHANGED nodeHasty

\* 'exit' forgets the child that is known then, whichever child ended.
NodeExits(c) ==
    /\ c \in Living
    /\ nodeState' = [nodeState EXCEPT ![c] = "dead"]
    /\ nodeProcess' = 0
    /\ UNCHANGED nodeHasty

LocalNext ==
    StartNode \/ StopNode \/ \E c \in Child : NodeExits(c)

LocalSpec == LocalInit /\ [][LocalNext]_nodeVars

-----------------------------------------------------------------------------
(* Properties.                                                             *)

\* A child that the extension knows is alive and was not told to stop.
LocalTypeOK ==
    /\ nodeProcess \in {0} \cup Living
    /\ nodeState \in [Child -> {"unused", "running", "killed", "dead"}]
    /\ nodeHasty \in BOOLEAN
    /\ nodeProcess # 0 => nodeState[nodeProcess] = "running"

\* A node that runs can be stopped: it is the one that the extension knows, unless
\* some start came before the stopped one's exit, which then forgets the new one.
NoOrphan == ~nodeHasty => \A c \in Child : nodeState[c] = "running" => c = nodeProcess
=============================================================================
