---------------------------- MODULE ApiTransport ----------------------------
(***************************************************************************)
(* The requests of one run on their way to the API: the transport of       *)
(* src/src/network.js (createApiTransport), directly or through the proxy  *)
(* of module EgressProxy, with the limits of api-client.js and the two     *)
(* senders of runClaim - its coroutine (progress updates and transfers)    *)
(* and its heartbeat, which aborts the job when its update fails. The      *)
(* report that follows an update of main that failed is SlicerRun's.       *)
(*                                                                         *)
(* Directly, every request has a connection. Through the proxy they share  *)
(* one tunnel, one request at a time ("connections: 1, pipelining: 1"), in *)
(* the order they were made. Time is counted in ticks; a limit is due at   *)
(* once.                                                                   *)
(***************************************************************************)
EXTENDS EgressProxy

CONSTANTS Worker,          \* the client this worker is to the proxy
          ProxyRequired,   \* SLICER_EGRESS_PROXY_REQUIRED
          RequestTimeout,  \* requestTimeoutMs, in ticks
          JobTimeout,      \* jobTimeoutMs, in ticks: the limit of a transfer
          MaxStage         \* bound: progress updates of the run

ASSUME TransportAssumption ==
    /\ Worker \in Clients /\ ProxyRequired \in BOOLEAN
    /\ RequestTimeout \in Nat \ {0} /\ JobTimeout \in Nat \ {0} /\ MaxStage \in Nat \ {0}

VARIABLES
    proxied,   \* a dispatcher was made
    progress,  \* the stage the run is in
    job,       \* live, or what ended it
    pending,   \* each sender's request: none, or [kind, stage]
    queue,     \* senders whose request waits for the dispatcher
    running,   \* senders whose request is on a connection
    age,       \* ticks since each sender's request was made
    wire,      \* updates the API may still act on
    seen       \* the stage the API saw last

tvars == <<proxied, progress, job, pending, queue, running, age, wire, seen>>
vars  == <<pvars, tvars>>

Senders == {"main", "beat"}
None    == [kind |-> "none", stage |-> 0]
Request == [kind : {"update", "transfer"}, stage : 0..MaxStage]

\* A sender waits once.
Queues  == {<<>>, <<"main">>, <<"beat">>, <<"main", "beat">>, <<"beat", "main">>}

TypeOK ==
    /\ ProxyTypeOK
    /\ proxied \in BOOLEAN
    /\ progress \in 0..MaxStage /\ seen \in 0..MaxStage
    /\ job \in {"live", "timedOut", "connection", "failed"}
    /\ pending \in [Senders -> Request \cup {None}]
    /\ queue \in Queues
    /\ running \subseteq Senders
    /\ age \in [Senders -> Nat]
    /\ wire \subseteq Request

Init ==
    /\ ProxyInit
    /\ proxied \in {TRUE, ProxyRequired}
    /\ progress = 0 /\ job = "live" /\ seen = 0
    /\ pending = [s \in Senders |-> None]
    /\ queue = <<>> /\ running = {} /\ wire = {}
    /\ age = [s \in Senders |-> 0]

Idle(s)  == pending[s] = None
Limit(s) == IF pending[s].kind = "transfer" THEN JobTimeout ELSE RequestTimeout

\* The pair of sockets requests can be written to.
TunnelUp == stage[Worker] = "tunnel" /\ client[Worker] = "open" /\ upstream[Worker] = "open"

OnWire(r) == IF r.kind = "update" THEN {r} ELSE {}

-----------------------------------------------------------------------------
(* Sending.                                                                *)

\* fetchApi hands the request to the dispatcher, if there is one.
Enter(s) ==
    IF proxied
    THEN queue' = Append(queue, s) /\ UNCHANGED <<running, wire>>
    ELSE /\ running' = running \cup {s} /\ UNCHANGED queue
         /\ wire' = wire \cup OnWire(pending'[s])

FetchApi(s, r) ==
    /\ job = "live" /\ Idle(s)
    /\ pending' = [pending EXCEPT ![s] = r]
    /\ age' = [age EXCEPT ![s] = 0]
    /\ Enter(s)
    /\ UNCHANGED <<pvars, proxied, job, seen>>

\* sendProgress of the run's coroutine.
SendProgress ==
    /\ progress < MaxStage
    /\ progress' = progress + 1
    /\ FetchApi("main", [kind |-> "update", stage |-> progress + 1])

\* A model is downloaded, the artifacts are uploaded.
SendTransfer ==
    /\ FetchApi("main", [kind |-> "transfer", stage |-> 0])
    /\ UNCHANGED progress

\* The interval fires: the progress of this moment is sent again.
Beat ==
    /\ progress > 0
    /\ FetchApi("beat", [kind |-> "update", stage |-> progress])
    /\ UNCHANGED progress

\* Mutant: a request does not wait for the answer of the one before.
AlwaysFree == TRUE

ConnectionFree == running = {}

\* The dispatcher writes the oldest request to the one connection.
Dispatch ==
    /\ queue # <<>> /\ ConnectionFree /\ TunnelUp
    /\ running' = running \cup {Head(queue)}
    /\ wire' = wire \cup OnWire(pending[Head(queue)])
    /\ queue' = Tail(queue)
    /\ UNCHANGED <<pvars, proxied, progress, job, pending, age, seen>>

-----------------------------------------------------------------------------
(* Ending.                                                                 *)

\* The request of s is gone: of two senders, the other one may still wait.
Drop(s) ==
    /\ pending' = [pending EXCEPT ![s] = None]
    /\ queue' = IF \E i \in DOMAIN queue : queue[i] # s
                THEN <<CHOOSE o \in Senders : o # s>> ELSE <<>>
    /\ running' = running \ {s}

\* What ended the job first is kept.
EndJob(why) == job' = IF job = "live" THEN why ELSE job

\* The heartbeat fails: it aborts the job's signal, which reaches every
\* request.
BeatFails(why) ==
    /\ pending' = [s \in Senders |-> None]
    /\ queue' = <<>> /\ running' = {}
    /\ EndJob(why)

\* The API acts on an update that reached it, abandoned or not.
ApiActs ==
    /\ \E r \in wire : wire' = wire \ {r} /\ seen' = r.stage
    /\ UNCHANGED <<pvars, proxied, progress, job, pending, queue, running, age>>

Answered(s) ==
    /\ s \in running /\ pending[s] \notin wire
    /\ Drop(s)
    /\ UNCHANGED <<pvars, proxied, progress, job, age, wire, seen>>

\* A transfer may be tried again; an update that fails ends the job without
\* its signal, so that a heartbeat on its way goes on.
MainFails ==
    /\ Drop("main")
    /\ \/ pending["main"].kind = "transfer" /\ UNCHANGED job
       \/ EndJob("failed")

\* A request that is aborted on the tunnel takes the tunnel with it.
LeaveTunnel ==
    IF proxied /\ ~(running \subseteq running')
    THEN ClientEnds(Worker) \/ ClientFails(Worker)
    ELSE UNCHANGED pvars

Expires(s) ==
    /\ ~Idle(s) /\ age[s] = Limit(s)
    /\ \/ s = "beat" /\ BeatFails("timedOut")
       \/ s = "main" /\ MainFails
    /\ LeaveTunnel
    /\ UNCHANGED <<proxied, progress, age, wire, seen>>

\* A direct connection breaks.
Breaks(s) ==
    /\ ~proxied /\ s \in running
    /\ \/ s = "beat" /\ BeatFails("connection")
       \/ s = "main" /\ MainFails
    /\ UNCHANGED <<pvars, proxied, progress, age, wire, seen>>

Tick ==
    /\ \E s \in Senders : ~Idle(s)
    /\ \A s \in Senders : ~Idle(s) => age[s] < Limit(s)
    /\ age' = [s \in Senders |-> IF Idle(s) THEN age[s] ELSE age[s] + 1]
    /\ UNCHANGED <<pvars, proxied, progress, job, pending, queue, running, wire, seen>>

-----------------------------------------------------------------------------
(* The proxy. The worker is one of its clients: it connects when a request *)
(* waits, asks for the API, and feels the end of its tunnel.               *)

TunnelLost ==
    \/ "beat" \in running /\ BeatFails("connection")
    \/ "beat" \notin running /\ "main" \in running /\ MainFails
    \/ running = {} /\ UNCHANGED <<pending, queue, running, job>>

Felt ==
    /\ IF proxied /\ TunnelUp /\ ~TunnelUp' THEN TunnelLost
       ELSE UNCHANGED <<pending, queue, running, job>>
    /\ UNCHANGED <<proxied, progress, age, wire, seen>>

WorkerStep ==
    \/ proxied /\ queue # <<>> /\ Accept(Worker)
    \/ AskAllowed(Worker)
    \/ UpstreamConnects(Worker) \/ UpstreamEnds(Worker) \/ UpstreamFails(Worker)
    \/ ClientEnds(Worker) \/ ClientFails(Worker) \/ IdleTimeout(Worker)

ProxyActs ==
    /\ WorkerStep \/ (\E c \in Clients \ {Worker} : ProxyStep(c)) \/ StopServer \/ ServerClosed
    /\ Felt

Next ==
    \/ SendProgress \/ SendTransfer \/ Beat \/ Dispatch \/ ApiActs \/ Tick
    \/ \E s \in Senders : Answered(s) \/ Expires(s) \/ Breaks(s)
    \/ ProxyActs

Fairness == \A c \in Clients : WF_vars(Silent(c) /\ IdleTimeout(c) /\ Felt)

Spec == Init /\ [][Next]_vars /\ Fairness

-----------------------------------------------------------------------------
\* Through the proxy the API never sees the run go back to an earlier stage,
\* although heartbeats repeat old updates, may be abandoned and arrive late.
\* (On direct connections a heartbeat may overtake the next update.)
StagesInOrder == [][proxied => seen' >= seen]_vars

\* Through the proxy a heartbeat waits its turn, and a long transfer may use
\* its time up and so abort the job. When a heartbeat runs out of time while a
\* request of main's has the connection, that request has been out for a whole
\* request timeout itself: it is a transfer, or an update that is out of time
\* as well. A series of updates that are each in time never keeps a heartbeat
\* from its turn, whatever becomes of the tunnel meanwhile. (One whose turn
\* came late has only the rest of its time at the API.)
BeatLostToElderOnly ==
    [][proxied /\ job = "live" /\ job' = "timedOut" /\ "main" \in running
         => age["main"] >= RequestTimeout]_vars
=============================================================================
