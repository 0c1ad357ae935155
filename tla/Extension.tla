----------------------------- MODULE Extension -----------------------------
(***************************************************************************)
(* The extension's services and the node's rate limiter, side by side:     *)
(* ClientSession, FileSync with people who take turns, OTEngine, PeerMesh, *)
(* FileTree, PortTunnel, Presence, RoomChat, LocalSignaling and            *)
(* RateLimiter are independent machines.  `part' says which of them moves  *)
(* in a behaviour; the others stay in one initial state.                   *)
(***************************************************************************)
EXTENDS ClientSession, FileSync, OTEngine, PeerMesh, FileTree, PortTunnel, Presence,
        RoomChat, LocalSignaling, RateLimiter

VARIABLE part

Parts == {"session", "files", "engine", "mesh", "tree", "tunnel", "presence", "chat", "local", "limiter"}

-----------------------------------------------------------------------------
\* A session that does not move has nothing saved and no room to go back to, an
\* engine that does not move one document.
ExtensionInit ==
    /\ part \in Parts
    /\ part # "session" => saved = NoSession /\ phase = [r \in Room |-> "unused"]
    /\ part # "engine" => otText = CHOOSE t \in OtTexts : TRUE
    /\ Init /\ FileInit /\ OtInit /\ MeshInit /\ TreeInit /\ TunnelInit
    /\ PresenceInit /\ ChatInit /\ LocalInit /\ LimiterInit

\* Everything but part v stays as it is.
Others(v) ==
    /\ v # "session" => UNCHANGED vars
    /\ v # "files" => UNCHANGED fileVars
    /\ v # "engine" => UNCHANGED otVars
    /\ v # "mesh" => UNCHANGED meshVars
    /\ v # "tree" => UNCHANGED treeVars
    /\ v # "tunnel" => UNCHANGED tunnelVars
    /\ v # "presence" => UNCHANGED presenceVars
    /\ v # "chat" => UNCHANGED chatVars
    /\ v # "local" => UNCHANGED nodeVars
    /\ v # "limiter" => UNCHANGED limiterVars
    /\ UNCHANGED part
Moves(p, A) == part = p /\ A /\ Others(p)

ExtensionNext ==
    \/ Moves("session", Network)
    \/ Moves("files", FileNext /\ (made' # made => Quiet))
    \/ Moves("engine", OtNext)
    \/ Moves("mesh", MeshNext)
    \/ Moves("tree", TreeNext)
    \/ Moves("tunnel", TunnelNext)
    \/ Moves("presence", PresenceNext)
    \/ Moves("chat", ChatNext)
    \/ Moves("local", LocalNext)
    \/ Moves("limiter", LimiterNext)

extensionVars ==
    <<part, vars, fileVars, otVars, meshVars, treeVars, tunnelVars, presenceVars, chatVars,
      nodeVars, limiterVars>>

ExtensionSpec == ExtensionInit /\ [][ExtensionNext]_extensionVars

\* The type invariants of the parts that have no run of their own.
ExtensionTypeOK ==
    /\ OtTypeOK /\ MeshTypeOK /\ TreeTypeOK /\ TunnelTypeOK
    /\ PresenceTypeOK /\ ChatTypeOK /\ LocalTypeOK /\ LimiterTypeOK
=============================================================================
