---------------------------- MODULE EgressProxy ----------------------------
(***************************************************************************)
(* The CONNECT proxy between the workers and the API                       *)
(* (src/src/egress-proxy.js): every client connection has a socket of its  *)
(* own and, once its authority is accepted, an upstream socket the two are *)
(* piped to. Either side may end, fail or fall silent at any moment, the   *)
(* signal to stop may come at any moment, and the process may die of an    *)
(* error nobody listens to.                                                *)
(*                                                                         *)
(* Sockets are what node:net and node:http make of them (external): a      *)
(* client socket is closed when both of its directions have ended, because *)
(* the HTTP server allows half-open connections; an upstream socket is     *)
(* closed when the API ends it. Bytes are left out.                        *)
(***************************************************************************)
EXTENDS Naturals, Sequences, FiniteSets

CONSTANTS Clients,            \* connections that may exist at one time
          MaximumConnections  \* SLICER_EGRESS_PROXY_MAX_CONNECTIONS

ASSUME ConnectionsAssumption == MaximumConnections \in 1..128

VARIABLES
    process,   \* the proxy: serving, stopping, stopped or crashed
    client,    \* the client's socket
    upstream,  \* the socket to the API
    stage,     \* how far the connection has come
    status     \* the status lines the client was sent

pvars == <<process, client, upstream, stage, status>>

ClientStates   == {"open", "inEnded", "outEnded", "closed"}
UpstreamStates == {"connecting", "open", "outEnded", "closed"}
Stages         == {"none", "request", "refused", "rejected", "connecting", "tunnel"}
Statuses       == {200, 400, 403, 405, 502}

ProxyTypeOK ==
    /\ process \in {"serving", "stopping", "stopped", "crashed"}
    /\ client \in [Clients -> ClientStates]
    /\ upstream \in [Clients -> UpstreamStates]
    /\ stage \in [Clients -> Stages]
    /\ status \in [Clients -> Seq(Statuses)]

ProxyInit ==
    /\ process = "serving"
    /\ client = [c \in Clients |-> "closed"]
    /\ upstream = [c \in Clients |-> "closed"]
    /\ stage = [c \in Clients |-> "none"]
    /\ status = [c \in Clients |-> <<>>]

Up         == process \in {"serving", "stopping"}
Connected  == {c \in Clients : client[c] # "closed"}
Paired(c)  == stage[c] \in {"connecting", "tunnel"}

\* socket.end on one side, and the other side's end, close a client socket.
EndOut(s) == IF s = "inEnded" THEN "closed" ELSE IF s = "open" THEN "outEnded" ELSE s
EndIn(s)  == IF s = "outEnded" THEN "closed" ELSE IF s = "open" THEN "inEnded" ELSE s

\* rejectTunnel: a status line and the end, unless the socket is gone.
RejectTunnel(c, code) ==
    IF client[c] = "closed" THEN UNCHANGED <<client, status>>
    ELSE /\ status' = [status EXCEPT ![c] = Append(@, code)]
         /\ client' = [client EXCEPT ![c] = EndOut(@)]

\* Mutant: the other socket is left to itself.
CloseClientOnly(c) ==
    client' = [client EXCEPT ![c] = "closed"] /\ UNCHANGED upstream

CloseBoth(c) ==
    /\ client' = [client EXCEPT ![c] = "closed"]
    /\ upstream' = [upstream EXCEPT ![c] = "closed"]

-----------------------------------------------------------------------------
(* From the connection to the verdict on its authority.                    *)

\* What comes above server.maxConnections is dropped by node:net.
Accept(c) ==
    /\ process = "serving" /\ client[c] = "closed"
    /\ Cardinality(Connected) < MaximumConnections
    /\ client' = [client EXCEPT ![c] = "open"]
    /\ upstream' = [upstream EXCEPT ![c] = "closed"]
    /\ stage' = [stage EXCEPT ![c] = "request"]
    /\ status' = [status EXCEPT ![c] = <<>>]
    /\ UNCHANGED process

\* An ordinary request: 405 and "connection: close".
AskOrdinary(c) ==
    /\ Up /\ stage[c] = "request" /\ client[c] = "open"
    /\ status' = [status EXCEPT ![c] = Append(@, 405)]
    /\ client' = [client EXCEPT ![c] = "closed"]
    /\ UNCHANGED <<process, upstream, stage>>

\* clientError: a malformed head, or none within the server's own limit.
BadRequest(c) ==
    /\ Up /\ stage[c] = "request" /\ client[c] = "open"
    /\ RejectTunnel(c, 400)
    /\ stage' = [stage EXCEPT ![c] = "refused"]
    /\ UNCHANGED <<process, upstream>>

\* CONNECT to any other authority.
AskOther(c) ==
    /\ Up /\ stage[c] = "request" /\ client[c] = "open"
    /\ RejectTunnel(c, 403)
    /\ stage' = [stage EXCEPT ![c] = "rejected"]
    /\ UNCHANGED <<process, upstream>>

\* CONNECT to the allowed authority.
AskAllowed(c) ==
    /\ Up /\ stage[c] = "request" /\ client[c] = "open"
    /\ stage' = [stage EXCEPT ![c] = "connecting"]
    /\ upstream' = [upstream EXCEPT ![c] = "connecting"]
    /\ UNCHANGED <<process, client, status>>

-----------------------------------------------------------------------------
(* The upstream socket.                                                    *)

\* pipe() hands on an end that came before it was set up.
UpstreamConnects(c) ==
    /\ Up /\ upstream[c] = "connecting"
    /\ stage' = [stage EXCEPT ![c] = "tunnel"]
    /\ status' = [status EXCEPT ![c] = Append(@, 200)]
    /\ upstream' = [upstream EXCEPT ![c] = IF client[c] = "inEnded" THEN "outEnded" ELSE "open"]
    /\ UNCHANGED <<process, client>>

UpstreamEnds(c) ==
    /\ Up /\ upstream[c] \in {"open", "outEnded"}
    /\ upstream' = [upstream EXCEPT ![c] = "closed"]
    /\ client' = [client EXCEPT ![c] = EndOut(@)]
    /\ UNCHANGED <<process, stage, status>>

\* Mutant: an upstream that fails is always reported to the client.
Report502Always(c) == IF client[c] = "closed" THEN UNCHANGED status
                      ELSE status' = [status EXCEPT ![c] = Append(@, 502)]

\* 502 is for an upstream that was never connected.
Report502(c) == IF stage[c] = "tunnel" \/ client[c] = "closed" THEN UNCHANGED status
                ELSE status' = [status EXCEPT ![c] = Append(@, 502)]

UpstreamFails(c) ==
    /\ Up /\ Paired(c) /\ upstream[c] # "closed"
    /\ Report502(c)
    /\ CloseBoth(c)
    /\ UNCHANGED <<process, stage>>

-----------------------------------------------------------------------------
(* The client's socket.                                                    *)

\* Before the pipes stand, the client's end waits; before a verdict the
\* HTTP server closes the connection.
ClientEnds(c) ==
    /\ Up /\ client[c] \in {"open", "outEnded"}
    /\ client' = [client EXCEPT ![c] = IF stage[c] = "request" THEN "closed" ELSE EndIn(@)]
    /\ upstream' = [upstream EXCEPT ![c] =
                       IF stage[c] = "tunnel" /\ @ = "open" THEN "outEnded" ELSE @]
    /\ UNCHANGED <<process, stage, status>>

\* Mutant: nobody listens to the client's errors.
ClientErrorUnheard(c) ==
    client' = [client EXCEPT ![c] = "closed"] /\ UNCHANGED upstream

\* The error of a paired client ends both sockets; before that the HTTP
\* server hears it, and rejectTunnel finds the socket destroyed.
ClientError(c) == IF Paired(c) THEN CloseBoth(c)
                  ELSE client' = [client EXCEPT ![c] = "closed"] /\ UNCHANGED upstream

ClientFails(c) ==
    /\ Up /\ client[c] # "closed" /\ stage[c] # "rejected"
    /\ ClientError(c)
    /\ UNCHANGED <<process, stage, status>>

\* The HTTP server took its listener off before the "connect" event and the
\* rejected socket was given none: the error is uncaught.
RejectedClientFails(c) ==
    /\ Up /\ client[c] # "closed" /\ stage[c] = "rejected"
    /\ process' = "crashed"
    /\ client' = [d \in Clients |-> "closed"]
    /\ upstream' = [d \in Clients |-> "closed"]
    /\ UNCHANGED <<stage, status>>

\* Mutant: only the upstream socket has a timer.
UpstreamTimed(c) == upstream[c] # "closed"

\* Each of the two sockets has a timer of its own while it lives.
Timed(c) == client[c] # "closed" \/ upstream[c] # "closed"

IdleTimeout(c) ==
    /\ Up /\ Paired(c) /\ Timed(c)
    /\ CloseBoth(c)
    /\ UNCHANGED <<process, stage, status>>

-----------------------------------------------------------------------------
(* Stopping: server.close waits for the connections that are left.         *)

StopServer ==
    /\ process = "serving" /\ process' = "stopping"
    /\ UNCHANGED <<client, upstream, stage, status>>

ServerClosed ==
    /\ process = "stopping" /\ Connected = {}
    /\ process' = "stopped"
    /\ UNCHANGED <<client, upstream, stage, status>>

ProxyStep(c) ==
    \/ Accept(c) \/ AskOrdinary(c) \/ BadRequest(c) \/ AskOther(c) \/ AskAllowed(c)
    \/ UpstreamConnects(c) \/ UpstreamEnds(c) \/ UpstreamFails(c)
    \/ ClientEnds(c) \/ ClientFails(c) \/ RejectedClientFails(c) \/ IdleTimeout(c)

ProxyNext == (\E c \in Clients : ProxyStep(c)) \/ StopServer \/ ServerClosed

ProxySpec == ProxyInit /\ [][ProxyNext]_pvars

\* Nothing moves between the two sockets: one is not there yet, or no more.
Silent(c) == Paired(c) /\ client[c] # "closed" /\ upstream[c] \in {"connecting", "closed"}

\* setTimeout fires on a socket nothing moves on, and on no other for sure.
ProxyFairness == \A c \in Clients : WF_pvars(Silent(c) /\ IdleTimeout(c))

-----------------------------------------------------------------------------
\* No upstream connection is left open for a client that is gone, whichever
\* socket ended, failed or timed out first, before or after the pipes stood.
UpstreamNeverAlone ==
    \A c \in Clients : client[c] = "closed" => upstream[c] = "closed"

\* The client reads one status line: what follows a 200 is the API's, never
\* a status of the proxy's own, and no tunnel stands without its 200.
OneStatus ==
    \A c \in Clients :
        /\ Len(status[c]) <= 1
        /\ stage[c] = "tunnel" <=> status[c] = <<200>>

\* A client is not kept for ever by an upstream that never comes or is gone:
\* its socket is closed, though neither side says another word.
ClientFollows == \A c \in Clients : Silent(c) ~> ~Silent(c)
=============================================================================
