----------------------------- MODULE PortTunnel -----------------------------
(***************************************************************************)
(* Forwarded ports and the requests for them (portTunnel.ts).  A member    *)
(* announces a port to the others; a member that is asked for a port it    *)
(* has heard of carries the request out on its own machine and answers     *)
(* once, whichever of response, error and time-out comes first.  The one   *)
(* that asks waits for the answer or ten seconds.  One port.               *)
(* (A definition named X_... is X with a bug put in, for the mutation      *)
(* runs; no other definition uses it.)                                     *)
(***************************************************************************)
EXTENDS Naturals, Sequences

CONSTANTS
    TunnelMember,
    TunnelRequest,
    MaxFrames        \* bound: announcements are made while fewer are under way

ASSUME TunnelAssumption == "PORT_FORWARD" \notin TunnelRequest

VARIABLES
    tunnelPorts,     \* members that hold the port forwarded
    tunnelFrames,    \* frames under way to a member
    tunnelStage,     \* what became of a request at the member asked
    tunnelSettled,   \* whether its localRequest promise is settled
    tunnelAnswers,   \* the status codes sent for it
    tunnelProxy      \* the promise of the one that asked

tunnelVars == <<tunnelPorts, tunnelFrames, tunnelStage, tunnelSettled, tunnelAnswers, tunnelProxy>>

TunnelInit ==
    /\ tunnelPorts = {}
    /\ tunnelFrames = [m \in TunnelMember |-> << >>]
    /\ tunnelStage = [r \in TunnelRequest |-> "none"]
    /\ tunnelSettled = [r \in TunnelRequest |-> FALSE]
    /\ tunnelAnswers = [r \in TunnelRequest |-> << >>]
    /\ tunnelProxy = [r \in TunnelRequest |-> "none"]

\* The forward-port command sends PORT_FORWARD, relayed to all but the sender.
ForwardPort(m) ==
    /\ \A n \in TunnelMember : Len(tunnelFrames[n]) < MaxFrames
    /\ tunnelFrames' = [n \in TunnelMember |->
           IF n = m THEN tunnelFrames[n] ELSE Append(tunnelFrames[n], "PORT_FORWARD")]
    /\ UNCHANGED <<tunnelPorts, tunnelStage, tunnelSettled, tunnelAnswers, tunnelProxy>>

\* proxyToRemote
ProxyToRemote(r, host) ==
    /\ tunnelProxy[r] = "none"
    /\ tunnelProxy' = [tunnelProxy EXCEPT ![r] = "waiting"]
    /\ tunnelFrames' = [tunnelFrames EXCEPT ![host] = Append(@, r)]
    /\ tunnelStage' = [tunnelStage EXCEPT ![r] = "sent"]
    /\ UNCHANGED <<tunnelPorts, tunnelSettled, tunnelAnswers>>

\* The handler that would take an answer is never registered, and the request
\* has no requesterId for the answer to go to: only the timer ends the wait.
ProxyTimeout(r) ==
    /\ tunnelProxy[r] = "waiting"
    /\ tunnelProxy' = [tunnelProxy EXCEPT ![r] = "rejected"]
    /\ UNCHANGED <<tunnelPorts, tunnelFrames, tunnelStage, tunnelSettled, tunnelAnswers>>

AnnouncePort(m) ==
    /\ tunnelFrames[m] # << >> /\ Head(tunnelFrames[m]) = "PORT_FORWARD"
    /\ tunnelPorts' = tunnelPorts \cup {m}
    /\ tunnelFrames' = [tunnelFrames EXCEPT ![m] = Tail(@)]
    /\ UNCHANGED <<tunnelStage, tunnelSettled, tunnelAnswers, tunnelProxy>>

HandleTunnelRequest(m) ==
    /\ tunnelFrames[m] # << >> /\ Head(tunnelFrames[m]) \in TunnelRequest
    /\ LET r == Head(tunnelFrames[m])
       IN  IF m \notin tunnelPorts
           THEN /\ tunnelStage' = [tunnelStage EXCEPT ![r] = "over"]
                /\ tunnelAnswers' = [tunnelAnswers EXCEPT ![r] = Append(@, 403)]
           ELSE /\ tunnelStage' = [tunnelStage EXCEPT ![r] = "asked"]
                /\ UNCHANGED tunnelAnswers
    /\ tunnelFrames' = [tunnelFrames EXCEPT ![m] = Tail(@)]
    /\ UNCHANGED <<tunnelPorts, tunnelSettled, tunnelProxy>>

\* Events of the local request.  A promise settles once, and settling it goes on
\* to sendResponse.
Settle_again(r, status, stage) ==
    /\ tunnelStage' = [tunnelStage EXCEPT ![r] = stage]
    /\ tunnelSettled' = [tunnelSettled EXCEPT ![r] = TRUE]
    /\ tunnelAnswers' = [tunnelAnswers EXCEPT ![r] = Append(@, status)]
    /\ UNCHANGED <<tunnelPorts, tunnelFrames, tunnelProxy>>
Settle(r, status, stage) ==
    /\ tunnelStage' = [tunnelStage EXCEPT ![r] = stage]
    /\ tunnelSettled' = [tunnelSettled EXCEPT ![r] = TRUE]
    /\ tunnelAnswers' = [tunnelAnswers EXCEPT ![r] = IF tunnelSettled[r] THEN @ ELSE Append(@, status)]
    /\ UNCHANGED <<tunnelPorts, tunnelFrames, tunnelProxy>>

ResponseEnds(r) == tunnelStage[r] = "responding" /\ Settle(r, 200, "over")

\* 'error': no connection, a connection lost, or the destroy() of the time-out.
RequestError(r) == tunnelStage[r] \in {"asked", "destroyed"} /\ Settle(r, 502, "over")

\* 'timeout': eight silent seconds, before or in the response.
RequestTimeout(r) == tunnelStage[r] \in {"asked", "responding"} /\ Settle(r, 502, "destroyed")

\* The local program sends its headers, and may die before the body ends: nothing
\* listens to that.
LocalProgram(r) ==
    /\ \/ tunnelStage[r] = "asked" /\ tunnelStage' = [tunnelStage EXCEPT ![r] = "responding"]
       \/ tunnelStage[r] = "responding" /\ tunnelStage' = [tunnelStage EXCEPT ![r] = "broken off"]
    /\ UNCHANGED <<tunnelPorts, tunnelFrames, tunnelSettled, tunnelAnswers, tunnelProxy>>

\* disconnect() forgets the ports; requests go on.
TunnelReset(m) ==
    /\ m \in tunnelPorts
    /\ tunnelPorts' = tunnelPorts \ {m}
    /\ UNCHANGED <<tunnelFrames, tunnelStage, tunnelSettled, tunnelAnswers, tunnelProxy>>

TunnelHears(m) == AnnouncePort(m) \/ HandleTunnelRequest(m)
RequestEvent(r) == ResponseEnds(r) \/ RequestError(r) \/ RequestTimeout(r)

TunnelNext ==
    \/ \E m \in TunnelMember : ForwardPort(m) \/ TunnelHears(m) \/ TunnelReset(m)
    \/ \E r \in TunnelRequest : \/ \E m \in TunnelMember : ProxyToRemote(r, m)
                                \/ ProxyTimeout(r) \/ RequestEvent(r) \/ LocalProgram(r)

TunnelSpec == TunnelInit /\ [][TunnelNext]_tunnelVars

\* Frames are delivered, and timers and Node's events come.
TunnelFairness ==
    /\ \A m \in TunnelMember : WF_tunnelVars(TunnelHears(m))
    /\ \A r \in TunnelRequest : WF_tunnelVars(RequestEvent(r)) /\ WF_tunnelVars(ProxyTimeout(r))
TunnelFairSpec == TunnelSpec /\ TunnelFairness

-----------------------------------------------------------------------------
(* Properties.                                                             *)

TunnelStage == {"none", "sent", "asked", "responding", "broken off", "destroyed", "over"}
TunnelAnswer == {200, 403, 502}

\* The state of ports, frames and requests is what the code can hold.
TunnelTypeOK ==
    /\ tunnelPorts \subseteq TunnelMember
    /\ tunnelFrames \in [TunnelMember -> Seq(TunnelRequest \cup {"PORT_FORWARD"})]
    /\ tunnelStage \in [TunnelRequest -> TunnelStage]
    /\ tunnelSettled \in [TunnelRequest -> BOOLEAN]
    /\ tunnelAnswers \in [TunnelRequest -> Seq(TunnelAnswer)]
    /\ tunnelProxy \in [TunnelRequest -> {"none", "waiting", "rejected"}]

\* A time-out destroys the request, which raises 'error' after it, and a response
\* may end as the time runs out: the one that asked is still answered once, and
\* before the request is done with.
AnsweredOnce == \A r \in TunnelRequest : Len(tunnelAnswers[r]) <= 1
AnsweredWhenOver == \A r \in TunnelRequest : tunnelStage[r] = "over" => tunnelAnswers[r] # << >>

\* Every request is answered, unless the local program breaks off a response it
\* has begun, and the one that asked never waits for ever.
IsWaiting(r) ==
    \/ tunnelStage[r] \notin {"none", "broken off"} /\ tunnelAnswers[r] = << >>
    \/ tunnelProxy[r] = "waiting"
TunnelRequestsEnd == []<>(\A r \in TunnelRequest : ~IsWaiting(r))

\* A request through the tunnel is answered, and answered once.
EachIsAnsweredOnce == [](AnsweredOnce /\ AnsweredWhenOver) /\ TunnelRequestsEnd
=============================================================================
