---------------------------- MODULE WsHandshake ----------------------------
(***************************************************************************)
(* The server of WebSockets: upgrades of an HTTP server's sockets, the set *)
(* of its clients, its own close, and the negotiation of permessage-       *)
(* deflate with a client of the same library.  The parameters:             *)
(*   snct, cnct   server_ and client_no_context_takeover                   *)
(*   smwb, cmwb   server_ and client_max_window_bits                       *)
(* (A definition named X_... is X with a bug put in, for the mutation      *)
(* runs; no other definition uses it.)                                     *)
(***************************************************************************)
EXTENDS Integers, Sequences, FiniteSets, SequencesExt

CONSTANTS
    HsSocket,       \* sockets that ask for an upgrade
    ClientOptions, ServerOptions    \* perMessageDeflate options of the two ends

VARIABLES
    hsClientOptions, hsServerOptions,   \* NoDeflate, or a record of options
    hsPhase,        \* of a socket
    hsServerParams, hsClientParams,     \* params of the two ends, << >> without deflate
    wssState,       \* RUNNING, CLOSING, CLOSED
    wssListening,   \* the listener for upgrades is attached
    wssClients, wssShouldEmit,
    wssTicks, wssCloses     \* emitClose calls that are due; 'close' events

hsOptions == <<hsClientOptions, hsServerOptions>>
wssVars == <<wssState, wssListening, wssClients, wssShouldEmit, wssTicks, wssCloses>>
hsVars == <<hsOptions, hsPhase, hsServerParams, hsClientParams, wssVars>>

NoDeflate == [deflate |-> FALSE]
Absent == 0
Bare == 1        \* the parameter without a value, the option true
Never == -1     \* the option false
Unset == -2     \* the option left out
IsNumber(n) == n > Bare
Bits(n) == IF IsNumber(n) THEN n ELSE 15

\* The options as documented; window sizes are zlib's.
TakeoverOption == {"yes", "no", "unset"}
WindowOption == {Bare, Never, Unset} \cup 8 .. 15
DeflateOption ==
    [deflate : {TRUE}, snct : TakeoverOption, cnct : TakeoverOption,
     smwb : WindowOption, cmwb : WindowOption]
ASSUME OptionsAssumption == ClientOptions \cup ServerOptions \subseteq {NoDeflate} \cup DeflateOption

HsInit ==
    /\ hsClientOptions \in ClientOptions /\ hsServerOptions \in ServerOptions
    /\ hsPhase = [s \in HsSocket |-> "new"]
    /\ hsServerParams = [s \in HsSocket |-> << >>] /\ hsClientParams = [s \in HsSocket |-> << >>]
    /\ wssState = "RUNNING" /\ wssListening = TRUE /\ wssClients = {} /\ wssShouldEmit = FALSE
    /\ wssTicks = 0 /\ wssCloses = 0

-----------------------------------------------------------------------------
(* The negotiation.                                                        *)

\* offer
Offer(o) ==
    [snct |-> o.snct = "yes", cnct |-> o.cnct = "yes",
     smwb |-> IF o.smwb >= Bare THEN o.smwb ELSE Absent,
     cmwb |-> IF o.cmwb >= Bare THEN o.cmwb ELSE IF o.cmwb = Unset THEN Bare ELSE Absent]

\* acceptAsServer, after normalizeParams: an offer that fits the options, with
\* what they demand.
Acceptable(o, p) ==
    /\ p.smwb # Bare
    /\ ~(o.snct = "no" /\ p.snct)
    /\ p.smwb # Absent => o.smwb # Never /\ ~(IsNumber(o.smwb) /\ Bits(o.smwb) > p.smwb)
    /\ ~(IsNumber(o.cmwb) /\ p.cmwb = Absent)

AcceptAsServer_asOffered(o, p) ==
    [snct |-> p.snct \/ o.snct = "yes", cnct |-> p.cnct \/ o.cnct = "yes",
     smwb |-> IF IsNumber(o.smwb) THEN o.smwb ELSE p.smwb,
     cmwb |-> IF o.cmwb = Never THEN Absent ELSE p.cmwb]
AcceptAsServer(o, p) ==
    [snct |-> p.snct \/ o.snct = "yes", cnct |-> p.cnct \/ o.cnct = "yes",
     smwb |-> IF IsNumber(o.smwb) THEN o.smwb ELSE p.smwb,
     cmwb |-> IF IsNumber(o.cmwb) THEN o.cmwb
              ELSE IF p.cmwb = Bare \/ o.cmwb = Never THEN Absent ELSE p.cmwb]

\* acceptAsClient, after normalizeParams: what the client may refuse, and what
\* it asks of itself.
Unexpected(o, r) ==
    \/ o.cnct = "no" /\ r.cnct
    \/ Bare \in {r.cmwb, r.smwb}
    \/ r.cmwb # Absent /\ (o.cmwb = Never \/ (IsNumber(o.cmwb) /\ r.cmwb > Bits(o.cmwb)))

AcceptAsClient(o, r) ==
    IF r.cmwb = Absent /\ IsNumber(o.cmwb) THEN [r EXCEPT !.cmwb = o.cmwb] ELSE r

-----------------------------------------------------------------------------
(* Upgrades.                                                               *)

\* handleUpgrade refuses a request that is not GET, has other headers than it
\* needs, or offers that do not parse.
BadRequest(s) ==
    /\ hsPhase[s] = "new" /\ wssListening
    /\ hsPhase' = [hsPhase EXCEPT ![s] = "refused"]
    /\ UNCHANGED <<hsOptions, hsServerParams, hsClientParams, wssVars>>

Negotiated == hsClientOptions.deflate /\ hsServerOptions.deflate

\* completeUpgrade; 'connection' follows at once.
CompleteUpgrade(s, params) ==
    /\ hsPhase' = [hsPhase EXCEPT ![s] = "answered"]
    /\ hsServerParams' = [hsServerParams EXCEPT ![s] = params]
    /\ wssClients' = wssClients \cup {s}
    /\ UNCHANGED <<hsOptions, hsClientParams, wssState, wssListening, wssShouldEmit, wssTicks,
                   wssCloses>>

HandleUpgrade(s) ==
    /\ hsPhase[s] = "new" /\ wssListening
    /\ \/ ~Negotiated /\ CompleteUpgrade(s, << >>)
       \/ /\ Negotiated /\ Acceptable(hsServerOptions, Offer(hsClientOptions))
          /\ CompleteUpgrade(s, <<AcceptAsServer(hsServerOptions, Offer(hsClientOptions))>>)
       \/ /\ Negotiated /\ ~Acceptable(hsServerOptions, Offer(hsClientOptions))
          /\ hsPhase' = [hsPhase EXCEPT ![s] = "refused"]
          /\ UNCHANGED <<hsOptions, hsServerParams, hsClientParams, wssVars>>

\* The client gets the answer; one it cannot accept ends the connection.
ClientUpgrade(s) ==
    /\ hsPhase[s] = "answered"
    /\ \/ /\ hsServerParams[s] = << >>
          /\ hsPhase' = [hsPhase EXCEPT ![s] = "open"] /\ UNCHANGED hsClientParams
       \/ /\ hsServerParams[s] # << >> /\ Unexpected(hsClientOptions, hsServerParams[s][1])
          /\ hsPhase' = [hsPhase EXCEPT ![s] = "aborted"] /\ UNCHANGED hsClientParams
       \/ /\ hsServerParams[s] # << >> /\ ~Unexpected(hsClientOptions, hsServerParams[s][1])
          /\ hsPhase' = [hsPhase EXCEPT ![s] = "open"]
          /\ hsClientParams' = [hsClientParams EXCEPT ![s] =
                 <<AcceptAsClient(hsClientOptions, hsServerParams[s][1])>>]
    /\ UNCHANGED <<hsOptions, hsServerParams, wssVars>>

\* An upgrade while nobody listens: Node's HTTP server ends the socket.
NobodyListens(s) ==
    /\ hsPhase[s] = "new" /\ ~wssListening
    /\ hsPhase' = [hsPhase EXCEPT ![s] = "refused"]
    /\ UNCHANGED <<hsOptions, hsServerParams, hsClientParams, wssVars>>

-----------------------------------------------------------------------------
(* Clients that close, and the server's close().                           *)

Remaining(s) == wssClients \ {s}
LastOne(s) == wssShouldEmit /\ Remaining(s) = {}

ClientClosed(s) ==
    /\ hsPhase[s] \in {"answered", "open", "aborted"}
    /\ hsPhase' = [hsPhase EXCEPT ![s] = "closed"]
    /\ wssClients' = Remaining(s)
    /\ wssTicks' = IF LastOne(s) THEN wssTicks + 1 ELSE wssTicks
    /\ UNCHANGED <<hsOptions, hsServerParams, hsClientParams, wssState, wssListening,
                   wssShouldEmit, wssCloses>>

CloseServer ==
    /\ wssState = "RUNNING"
    /\ wssState' = "CLOSING" /\ wssListening' = FALSE
    /\ IF wssClients = {}
       THEN wssTicks' = wssTicks + 1 /\ UNCHANGED wssShouldEmit
       ELSE wssShouldEmit' = TRUE /\ UNCHANGED wssTicks
    /\ UNCHANGED <<hsOptions, hsPhase, hsServerParams, hsClientParams, wssClients, wssCloses>>

EmitServerClose ==
    /\ wssTicks > 0
    /\ wssTicks' = wssTicks - 1 /\ wssState' = "CLOSED" /\ wssCloses' = wssCloses + 1
    /\ UNCHANGED <<hsOptions, hsPhase, hsServerParams, hsClientParams, wssListening, wssClients,
                   wssShouldEmit>>

HsNext ==
    \/ CloseServer \/ EmitServerClose
    \/ \E s \in HsSocket : \/ BadRequest(s) \/ HandleUpgrade(s) \/ ClientUpgrade(s)
                           \/ NobodyListens(s) \/ ClientClosed(s)

HsSpec == HsInit /\ [][HsNext]_hsVars

HsFairness == WF_hsVars(EmitServerClose)
HsFairSpec == HsSpec /\ HsFairness

-----------------------------------------------------------------------------
(* Properties.                                                             *)

Params == [snct : BOOLEAN, cnct : BOOLEAN, smwb : Nat, cmwb : Nat]

HsTypeOK ==
    /\ hsPhase \in [HsSocket -> {"new", "refused", "answered", "open", "aborted", "closed"}]
    /\ \A s \in HsSocket : \A p \in ToSet(hsServerParams[s]) \cup ToSet(hsClientParams[s]) :
           p \in Params
    /\ wssState \in {"RUNNING", "CLOSING", "CLOSED"}
    /\ wssListening \in BOOLEAN /\ wssShouldEmit \in BOOLEAN
    /\ wssClients \subseteq HsSocket /\ wssTicks \in 0 .. 1 /\ wssCloses \in 0 .. 1

\* What one end compresses the other can inflate: the window it inflates with is
\* large enough, and it forgets the context only if the other does; and each end
\* got what its options ask for.
Compresses(own, other, o) ==
    /\ Bits(own) <= Bits(other)
    /\ Bits(own) <= Bits(o)

EndsUnderstandEachOther ==
    \A s \in HsSocket : hsPhase[s] = "open" =>
        /\ Len(hsClientParams[s]) = Len(hsServerParams[s])
        /\ hsServerParams[s] # << >> =>
            LET c == hsClientParams[s][1]
                v == hsServerParams[s][1]
            IN  /\ Compresses(c.cmwb, v.cmwb, hsClientOptions.cmwb)
                /\ Compresses(v.smwb, c.smwb, hsClientOptions.smwb)
                /\ Bits(c.cmwb) <= Bits(hsServerOptions.cmwb)
                /\ Bits(v.smwb) <= Bits(hsServerOptions.smwb)
                /\ c.cnct = v.cnct /\ c.snct = v.snct

\* The set that broadcasts and the heartbeat go through (server.ts:635) holds the
\* connections that are there, and only those.
ClientsAreConnected ==
    wssClients = {s \in HsSocket : hsPhase[s] \in {"answered", "open", "aborted"}}

\* The server says 'close' once, when it was closed and its last client has gone.
ServerCloseIsLast == wssState = "CLOSED" => wssClients = {} /\ wssCloses = 1 /\ wssTicks = 0

\* A server that was closed says so when its clients have gone.
ServerCloses == wssState = "CLOSING" /\ wssClients = {} ~> wssState = "CLOSED"

\* From the negotiation of a connection to the last of the server's clients, the
\* two ends and the server agree on what there is.
ServerAndClientsAgree ==
    [](EndsUnderstandEachOther /\ ClientsAreConnected /\ ServerCloseIsLast) /\ ServerCloses
=============================================================================
