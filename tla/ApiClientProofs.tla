--------------------------- MODULE ApiClientProofs ---------------------------
(***************************************************************************)
(* What the API client guarantees (src/src/api-client.js): of one model    *)
(* that is downloaded, for every size, limit and chunking as long as every *)
(* write is complete; and of the requests of a run and the proxy they go   *)
(* through, for any number of clients and updates and any limits.          *)
(***************************************************************************)
EXTENDS SourceDownload, ApiTransport, SequenceTheorems, TLAPS

-----------------------------------------------------------------------------
(* downloadModel and its retries.                                          *)

\* Only an attempt that has another one after it pauses.
PausesBetween == pc = "sleep" => attempt < MaxAttempts

\* While the stream runs, the file holds all that arrived, if writes are
\* complete.
FileFollowsStream == pc = "stream" => file \in Nat /\ (~ShortWrites => whole /\ file = received)

\* What is returned passed both tests on what had been hashed.
ReturnedWasVerified == result = "returned" => received = ExpectedSize /\ right

\* ReturnedIsTheModel compares the file; the code compares what it hashed.
\* FileFollowsStream is what makes the second stand for the first.
DownloadInv ==
    /\ DownloadTypeOK
    /\ PausesBetween
    /\ FileFollowsStream
    /\ ReturnedWasVerified
    /\ ~ShortWrites => ReturnedIsTheModel

\* What the steps need of the constants.
LEMMA Sizes == /\ ExpectedSize \in Nat /\ MaxChunk \in Nat
               /\ NoFile \notin Nat /\ ShortWrites \in BOOLEAN
  BY SizesAssumption DEF SizesAssumption

\* The invariant holds before the first attempt.
LEMMA DownloadInitEstablishes == DownloadInit => DownloadInv
  <1> SUFFICES ASSUME DownloadInit PROVE DownloadInv
    OBVIOUS
  <1>a. received = 0 /\ received \in 0..ExpectedSize
    BY Sizes, SMT DEF DownloadInit
  <1>b. right \in BOOLEAN /\ whole \in BOOLEAN /\ aborted \in BOOLEAN
    BY DEF DownloadInit
  <1>c. attempt \in 1..MaxAttempts
    BY SMT DEF DownloadInit, MaxAttempts
  <1>d. file = NoFile \/ file \in 0..received
    BY DEF DownloadInit
  <1>e. result # "none" <=> pc = "done"
    BY DEF DownloadInit
  <1>1. DownloadTypeOK
    BY <1>a, <1>b, <1>c, <1>d, <1>e, SMT DEF DownloadInit, DownloadTypeOK
  <1>2. PausesBetween /\ FileFollowsStream
    BY DEF DownloadInit, PausesBetween, FileFollowsStream
  <1>3. ReturnedWasVerified /\ ReturnedIsTheModel
    BY DEF DownloadInit, ReturnedWasVerified, ReturnedIsTheModel
  <1> QED BY <1>1, <1>2, <1>3 DEF DownloadInv

\* Every step of an attempt, and of the retry around it, keeps it.
LEMMA DownloadStepPreserves == DownloadInv /\ [DownloadNext]_downloadVars => DownloadInv'
  <1> SUFFICES ASSUME DownloadInv, [DownloadNext]_downloadVars
               PROVE  DownloadInv'
    OBVIOUS
  <1> USE Sizes DEF DownloadInv, DownloadTypeOK, MaxAttempts, PausesBetween,
          FileFollowsStream, ReturnedWasVerified, ReturnedIsTheModel, fileVars
  <1>1. CASE CheckEvidence
    BY <1>1, SMT DEF CheckEvidence, Fail
  <1>2. CASE RequestFails
    BY <1>2, SMT DEF RequestFails, Fail
  <1>3. CASE RequestAnswered
    <2>1. CASE Fail("fatal") /\ UNCHANGED <<received, right, fileVars>>
      BY <2>1, <1>3, SMT DEF Fail, RequestAnswered
    <2>2. CASE /\ Open /\ whole' = TRUE
               /\ pc' = "stream" /\ received' = 0 /\ right' = TRUE
               /\ UNCHANGED <<attempt, error, aborted, result>>
      <3>1. file' = 0 /\ received' \in 0..ExpectedSize /\ file' \in 0..received'
        BY <2>2, SMT DEF Open
      <3>2. right' \in BOOLEAN /\ whole' \in BOOLEAN
        BY <2>2
      <3> QED
        BY <1>3, <2>2, <3>1, <3>2 DEF RequestAnswered
    <2> QED BY <1>3, <2>1, <2>2 DEF RequestAnswered
  <1>4. CASE Chunk
    <2>1. PICK size \in 1..MaxChunk, good \in BOOLEAN :
             IF TooMuch(size)
             THEN FailAndDiscard("fatal") /\ UNCHANGED <<received, right>>
             ELSE /\ received' = received + size
                  /\ right' = (right /\ good)
                  /\ \E written \in IF ShortWrites THEN 1..size ELSE {size} :
                       /\ file' = file + written
                       /\ whole' = (whole /\ written = size)
                  /\ UNCHANGED <<pc, attempt, error, aborted, result>>
      BY <1>4 DEF Chunk
    <2>2. CASE TooMuch(size)
      BY <1>4, <2>1, <2>2, SMT DEF Chunk, FailAndDiscard, Fail
    <2>3. CASE ~TooMuch(size)
      <3>1. pc = "stream" /\ UNCHANGED <<pc, attempt, error, aborted, result>>
        BY <1>4, <2>1, <2>3 DEF Chunk
      <3>2. right' \in BOOLEAN /\ whole' \in BOOLEAN
        BY <2>1, <2>3
      <3>3. PICK written \in 1..size : /\ file' = file + written
                                       /\ whole' = (whole /\ written = size)
                                       /\ ~ShortWrites => written = size
        <4>1. CASE ShortWrites
          BY <2>1, <2>3, <4>1, Zenon
        <4>2. CASE ~ShortWrites
          <5>1. size \in 1..size
            BY SMT
          <5> QED BY <2>1, <2>3, <4>2, <5>1, Zenon
        <4> QED BY <4>1, <4>2
      <3>4. file \in 0..received /\ file \in Nat
        BY <3>1, SMT
      <3>5. received' \in 0..ExpectedSize /\ file' \in 0..received' /\ file' \in Nat
        BY <2>1, <2>3, <3>3, <3>4, SMT DEF TooMuch
      <3>6. ~ShortWrites => whole' /\ file' = received'
        <4>1. ~ShortWrites => whole'
          BY <3>1, <3>3, Zenon
        <4>2. ~ShortWrites => file' = received'
          BY <2>1, <2>3, <3>1, <3>3, SMT
        <4> QED BY <4>1, <4>2
      <3> QED
        BY <3>1, <3>2, <3>5, <3>6, Zenon
    <2> QED BY <2>2, <2>3
  <1>5. CASE Interrupted
    BY <1>5, SMT DEF Interrupted, FailAndDiscard, Fail
  <1>6. CASE StreamEnds
    <2>1. CASE Verified
      BY <1>6, <2>1, SMT DEF StreamEnds, Verified
    <2>2. CASE ~Verified
      BY <1>6, <2>2, SMT DEF StreamEnds, FailAndDiscard, Fail
    <2> QED BY <2>1, <2>2
  <1>7. CASE AttemptFailed
    BY <1>7, SMT DEF AttemptFailed, Remove, Again, Throw
  <1>8. CASE SleepEnds
    BY <1>8, SMT DEF SleepEnds, Throw
  <1>9. CASE Abort
    BY <1>9, SMT DEF Abort
  <1>10. CASE UNCHANGED downloadVars
    BY <1>10, SMT DEF downloadVars
  <1> QED
    BY <1>1, <1>2, <1>3, <1>4, <1>5, <1>6, <1>7, <1>8, <1>9, <1>10 DEF DownloadNext, Download

\* The inductive invariant holds in every reachable state.
THEOREM DownloadInvariance == DownloadSpec => []DownloadInv
  BY DownloadInitEstablishes, DownloadStepPreserves, PTL DEF DownloadSpec

\* The attempts, the bytes received and the file stay within their bounds.
THEOREM DownloadTypeCorrect == DownloadSpec => []DownloadTypeOK
  <1>1. DownloadInv => DownloadTypeOK
    BY DEF DownloadInv
  <1> QED BY <1>1, DownloadInvariance, PTL

\* With complete writes, the file downloadModel returns is the model.
THEOREM CompleteWritesReturnTheModel ==
    ASSUME ShortWrites = FALSE
    PROVE  DownloadSpec => []ReturnedIsTheModel
  <1>1. DownloadInv => ReturnedIsTheModel
    BY DEF DownloadInv
  <1> QED BY <1>1, DownloadInvariance, PTL

-----------------------------------------------------------------------------
(* The proxy is proved about by its own next-state relation; the transport *)
(* only takes steps of the proxy, so it inherits the result.               *)

\* The status of a connection as an opaque value: nothing or one line.
NoLine     == <<>>
Line(code) == <<code>>

(* What goes together for one connection of the proxy: an upstream socket  *)
(* belongs to a living client, and the status follows the stage.           *)
ConnectionInv(c) ==
    /\ stage[c] = "none" => client[c] = "closed" /\ status[c] = NoLine
    /\ stage[c] = "request" =>
         \/ status[c] = NoLine /\ client[c] \in {"open", "closed"}
         \/ status[c] = Line(405) /\ client[c] = "closed"
    /\ stage[c] = "refused" => status[c] = Line(400)
    /\ stage[c] = "rejected" => status[c] = Line(403)
    /\ stage[c] = "connecting" => 
         \/ status[c] = NoLine
         \/ status[c] = Line(502) /\ upstream[c] = "closed"
    /\ stage[c] = "tunnel" => status[c] = Line(200)
    /\ upstream[c] = "connecting" => stage[c] = "connecting"
    /\ upstream[c] \in {"open", "outEnded"} => stage[c] = "tunnel"
    /\ client[c] \in {"outEnded", "closed"} => upstream[c] = "closed"

ProxyTypes ==
    /\ process \in {"serving", "stopping", "stopped", "crashed"}
    /\ client \in [Clients -> ClientStates]
    /\ upstream \in [Clients -> UpstreamStates]
    /\ stage \in [Clients -> Stages]
    /\ status \in [Clients -> {NoLine, Line(200), Line(400), Line(403), Line(405), Line(502)}]

ProxyInv == ProxyTypes /\ \A c \in Clients : ConnectionInv(c)

\* One status line follows none; these facts are all the proof needs to know
\* of sequences.
LEMMA StatusLines ==
    /\ \A code : Append(NoLine, code) = Line(code) /\ Line(code) # NoLine /\ Len(Line(code)) <= 1
    /\ \A code, other : Line(code) = Line(other) => code = other
    /\ Len(NoLine) <= 1
BY DEF Line, NoLine

\* The connection a step is about keeps its invariant.
LEMMA ProxyStepKeeps ==
    ASSUME NEW c \in Clients, ProxyInv, ProxyStep(c)
    PROVE  ProxyInv'
<1> USE DEF ProxyInv, ProxyTypes, ConnectionInv, ClientStates, UpstreamStates, Stages, Statuses
<1>1. CASE Accept(c)            BY <1>1 DEF Accept, NoLine
<1>2. CASE AskOrdinary(c)       BY <1>2, StatusLines DEF AskOrdinary
<1>3. CASE BadRequest(c)        BY <1>3, StatusLines, SMTT(30) DEF BadRequest, RejectTunnel, EndOut
<1>4. CASE AskOther(c)          BY <1>4, StatusLines DEF AskOther, RejectTunnel, EndOut
<1>5. CASE AskAllowed(c)        BY <1>5 DEF AskAllowed
<1>6. CASE UpstreamConnects(c)  BY <1>6, StatusLines DEF UpstreamConnects
<1>7. CASE UpstreamEnds(c)      BY <1>7 DEF UpstreamEnds, EndOut
<1>8. CASE UpstreamFails(c)     BY <1>8, StatusLines, SMTT(30) DEF UpstreamFails, Report502, CloseBoth, Paired
<1>9. CASE ClientEnds(c)        BY <1>9 DEF ClientEnds, EndIn
<1>10. CASE ClientFails(c)      BY <1>10 DEF ClientFails, ClientError, CloseBoth, Paired
<1>11. CASE RejectedClientFails(c) BY <1>11 DEF RejectedClientFails
<1>12. CASE IdleTimeout(c)      BY <1>12 DEF IdleTimeout, CloseBoth, Paired
<1> QED BY <1>1, <1>2, <1>3, <1>4, <1>5, <1>6, <1>7, <1>8, <1>9, <1>10, <1>11, <1>12 DEF ProxyStep

\* No step of the proxy disturbs what is said of its connections.
LEMMA ProxyNextKeeps ==
    ASSUME ProxyInv, [ProxyNext]_pvars
    PROVE  ProxyInv'
<1>1. CASE \E c \in Clients : ProxyStep(c)  BY <1>1, ProxyStepKeeps
<1>2. CASE StopServer
    BY <1>2 DEF StopServer, ProxyInv, ProxyTypes, ConnectionInv
<1>3. CASE ServerClosed
    BY <1>3 DEF ServerClosed, ProxyInv, ProxyTypes, ConnectionInv
<1>4. CASE UNCHANGED pvars
    BY <1>4 DEF pvars, ProxyInv, ProxyTypes, ConnectionInv
<1> QED BY <1>1, <1>2, <1>3, <1>4 DEF ProxyNext

\* A proxy that was started has no connections yet.
LEMMA ProxyInitInv ==
    ASSUME ProxyInit
    PROVE  ProxyInv
BY DEF NoLine, ProxyInit, ProxyInv, ProxyTypes, ConnectionInv, ClientStates, UpstreamStates, Stages, Statuses

\* Whatever the transport does is a step of the proxy or leaves it alone.
LEMMA NextIsProxyNext ==
    ASSUME [Next]_vars
    PROVE  [ProxyNext]_pvars
<1>1. Worker \in Clients  BY TransportAssumption
<1>2. CASE UNCHANGED vars  BY <1>2 DEF vars
<1>3. ASSUME NEW s \in Senders, Expires(s) PROVE [ProxyNext]_pvars
    <2>1. ClientEnds(Worker) \/ ClientFails(Worker) \/ UNCHANGED pvars
        BY <1>3 DEF Expires, LeaveTunnel
    <2> QED BY <2>1, <1>1 DEF ProxyNext, ProxyStep
<1>4. CASE ProxyActs
    <2>1. CASE WorkerStep  BY <2>1, <1>1 DEF WorkerStep, ProxyNext, ProxyStep
    <2> QED BY <2>1, <1>4 DEF ProxyActs, ProxyNext
<1>5. CASE SendProgress \/ SendTransfer \/ Beat
    BY <1>5 DEF SendProgress, SendTransfer, Beat, FetchApi
<1>6. CASE Dispatch \/ ApiActs \/ Tick  BY <1>6 DEF Dispatch, ApiActs, Tick
<1>7. ASSUME NEW s \in Senders, Answered(s) \/ Breaks(s) PROVE [ProxyNext]_pvars
    BY <1>7 DEF Answered, Breaks
<1> QED BY <1>2, <1>3, <1>4, <1>5, <1>6, <1>7 DEF Next

\* The transport is a user of the proxy: it implements the proxy's own
\* specification (egress-proxy.js:70-126), so what holds of it holds here.
THEOREM UsesTheProxy == Spec => ProxySpec
<1>1. Init => ProxyInit  BY DEF Init
<1>2. [Next]_vars => [ProxyNext]_pvars  BY NextIsProxyNext
<1> QED BY <1>1, <1>2, PTL DEF Spec, ProxySpec

\* The invariant of the proxy, whoever uses it.
LEMMA ProxyInvariance == ProxySpec => []ProxyInv
<1>1. ProxyInit => ProxyInv  BY ProxyInitInv
<1>2. ProxyInv /\ [ProxyNext]_pvars => ProxyInv'  BY ProxyNextKeeps
<1> QED BY <1>1, <1>2, PTL DEF ProxySpec

\* No upstream connection outlives its client (closeBoth and the pipes,
\* egress-proxy.js:90-106), for any number of connections.
THEOREM UpstreamHasItsClient == Spec => []UpstreamNeverAlone
<1>1. ProxyInv => UpstreamNeverAlone  BY DEF ProxyInv, ConnectionInv, UpstreamNeverAlone
<1> QED BY <1>1, ProxyInvariance, UsesTheProxy, PTL

\* One status line per connection, and 200 exactly for a tunnel
\* (rejectTunnel and the established flag, egress-proxy.js:50-54, 89-103).
THEOREM StatusIsOne == Spec => []OneStatus
<1>1. ProxyInv => OneStatus
    <2> SUFFICES ASSUME ProxyInv, NEW c \in Clients
                 PROVE  Len(status[c]) <= 1 /\ (stage[c] = "tunnel" <=> status[c] = <<200>>)
        BY DEF OneStatus
    <2>1. stage[c] \in Stages  BY DEF ProxyInv, ProxyTypes
    <2>2. Len(status[c]) <= 1  BY <2>1, StatusLines DEF ProxyInv, ConnectionInv, Stages
    <2>3. stage[c] = "tunnel" <=> status[c] = Line(200)
        BY <2>1, StatusLines DEF ProxyInv, ConnectionInv, Stages
    <2> QED BY <2>2, <2>3 DEF Line
<1> QED BY <1>1, ProxyInvariance, UsesTheProxy, PTL

-----------------------------------------------------------------------------
(* The transport. Who waits for the one connection and who is on it, which *)
(* update the API may still act on, and in which order the stages stand.   *)

In(q, s)       == \E i \in DOMAIN q : q[i] = s
Pair(q, s, t)  == q = <<s, t>>
Queued(s)      == In(queue, s)
Before(s, t)   == (s \in running /\ Queued(t)) \/ Pair(queue, s, t)
IsUpdate(s)    == pending[s].kind = "update"

\* The queue of the dispatcher: at most two senders, each once. These facts
\* are all the proof needs to know of its sequences.
LEMMA EmptyQueue ==
    /\ <<>> \in Queues
    /\ \A s, t : ~In(<<>>, s) /\ ~Pair(<<>>, s, t)
BY DEF Queues, In, Pair

\* One who waits alone.
LEMMA SingleQueue ==
    ASSUME NEW s \in Senders
    PROVE  /\ <<s>> \in Queues /\ <<s>> # <<>>
           /\ \A t : In(<<s>>, t) <=> t = s
           /\ \A t, o : ~Pair(<<s>>, t, o)
BY DEF Queues, In, Pair, Senders

\* A queue is empty, or one waits, or two do.
LEMMA QueueCases ==
    ASSUME NEW q \in Queues
    PROVE  \/ q = <<>>
           \/ \E s \in Senders : q = <<s>>
           \/ \E s, t \in Senders : s # t /\ q = <<s, t>>
BY DEF Queues, Senders

\* Two who wait, in this order.
LEMMA PairQueue ==
    ASSUME NEW s \in Senders, NEW t \in Senders, s # t
    PROVE  /\ <<s, t>> \in Queues /\ <<s, t>> # <<>>
           /\ \A o : In(<<s, t>>, o) <=> o \in {s, t}
           /\ \A o, p : Pair(<<s, t>>, o, p) <=> o = s /\ p = t
BY DEF Queues, In, Pair, Senders

\* Who stands in an order stands in the queue.
LEMMA PairIn ==
    ASSUME NEW q, NEW s, NEW t, Pair(q, s, t)
    PROVE  In(q, s) /\ In(q, t)
<1>1. q = <<s, t>>  BY DEF Pair
<1>2. 1 \in DOMAIN q /\ 2 \in DOMAIN q /\ q[1] = s /\ q[2] = t  BY <1>1
<1> QED BY <1>2 DEF In

\* Who asks stands behind those who wait.
LEMMA AppendQueue ==
    ASSUME NEW q \in Queues, NEW s \in Senders, ~In(q, s)
    PROVE  /\ Append(q, s) \in Queues /\ Append(q, s) # <<>>
           /\ \A t : In(Append(q, s), t) <=> In(q, t) \/ t = s
           /\ \A t, o : Pair(Append(q, s), t, o) => In(q, t) /\ o = s
<1>1. CASE q = <<>>
    <2>1. Append(q, s) = <<s>>  BY <1>1
    <2> QED BY <1>1, <2>1, EmptyQueue, SingleQueue
<1>2. CASE \E t \in Senders : q = <<t>>
    <2>1. PICK t \in Senders : q = <<t>>  BY <1>2
    <2>2. Append(<<t>>, s) = <<t, s>>
        <3>1. <<t>> \in Seq(Senders) /\ Len(<<t>>) = 1 /\ <<t>>[1] = t  OBVIOUS
        <3>2. /\ Len(Append(<<t>>, s)) = 2 /\ Append(<<t>>, s) \in Seq(Senders)
              /\ Append(<<t>>, s)[1] = t /\ Append(<<t>>, s)[2] = s
            BY <3>1
        <3>3. <<t, s>> \in Seq(Senders) /\ Len(<<t, s>>) = 2 /\ <<t, s>>[1] = t /\ <<t, s>>[2] = s
            OBVIOUS
        <3>4. \A i \in 1..2 : Append(<<t>>, s)[i] = <<t, s>>[i]  BY <3>2, <3>3
        <3> QED BY <3>2, <3>3, <3>4, SeqEqual
    <2>3. s # t  BY <2>1, SingleQueue
    <2>4. /\ <<t, s>> \in Queues /\ <<t, s>> # <<>>
          /\ \A o : In(<<t, s>>, o) <=> o \in {t, s}
          /\ \A o, p : Pair(<<t, s>>, o, p) <=> o = t /\ p = s
        BY <2>3, PairQueue
    <2>5. \A o : In(q, o) <=> o = t  BY <2>1, SingleQueue
    <2>6. Append(q, s) = <<t, s>>  BY <2>1, <2>2, Zenon
    <2> HIDE <2>1, <2>2
    <2> QED BY <2>4, <2>5, <2>6
<1>3. CASE \E t, o \in Senders : t # o /\ q = <<t, o>>
    <2>1. PICK t \in Senders, o \in Senders : t # o /\ q = <<t, o>>  BY <1>3
    <2>2. s \in {t, o}  BY <2>1 DEF Senders
    <2> QED BY <2>1, <2>2, PairQueue
<1> QED BY <1>1, <1>2, <1>3, QueueCases

\* Whose turn it is leaves; the order of the others stays.
LEMMA TailQueue ==
    ASSUME NEW q \in Queues, q # <<>>
    PROVE  /\ Head(q) \in Senders /\ Tail(q) \in Queues
           /\ \A t : In(q, t) <=> In(Tail(q), t) \/ t = Head(q)
           /\ ~In(Tail(q), Head(q))
           /\ \A t : In(Tail(q), t) => Pair(q, Head(q), t)
           /\ \A t, o : ~Pair(Tail(q), t, o)
<1>2. CASE \E t \in Senders : q = <<t>>
    <2>1. PICK t \in Senders : q = <<t>>  BY <1>2
    <2>2. Head(q) = t /\ Tail(q) = <<>>  BY <2>1
    <2>3. \A o : In(q, o) <=> o = t  BY <2>1, SingleQueue
    <2> HIDE <2>1
    <2> QED BY <2>2, <2>3, EmptyQueue
<1>3. CASE \E t, o \in Senders : t # o /\ q = <<t, o>>
    <2>1. PICK t \in Senders, o \in Senders : t # o /\ q = <<t, o>>  BY <1>3
    <2>2. Head(q) = t /\ Tail(q) = <<o>>  BY <2>1
    <2> QED BY <2>1, <2>2, SingleQueue, PairQueue
<1> QED BY <1>2, <1>3, QueueCases

SenderTypes ==
    /\ proxied \in BOOLEAN
    /\ progress \in 0..MaxStage /\ seen \in 0..MaxStage
    /\ job \in {"live", "timedOut", "connection", "failed"}
    /\ pending \in [Senders -> Request \cup {None}]
    /\ queue \in Queues
    /\ running \subseteq Senders
    /\ age \in [Senders -> Nat]
    /\ wire \subseteq Request /\ \A r \in wire : r.kind = "update"

\* A request is in the queue or on a connection, and in one place. Only the
\* heartbeat may outlive the job, when main's update ended it.
Placed ==
    /\ \A s \in Senders : Idle(s) <=> s \notin running /\ ~Queued(s)
    /\ \A s \in running : ~Queued(s)
    /\ job # "live" => Idle("main")
    /\ pending["beat"].kind # "transfer"

\* Main's update reports the progress of this moment. An update on the wire is
\* of the request that runs, or was given up when the job ended: by main, or
\* by the heartbeat and then nobody waits any more.
Abandoned(r) == job # "live" /\ (r.stage = progress \/ Idle("beat"))

\* Through the proxy one request runs; stages only grow from the wire to the
\* queue, and who stands before another was made no later.
Tunnelled ==
    /\ \A s, t \in running : s = t
    /\ \A r, q \in wire : r = q
    /\ IsUpdate("main") => pending["main"].stage = progress
    /\ \A r \in wire : Abandoned(r) \/ (\E s \in running : pending[s] = r)
    /\ \A r \in wire : seen <= r.stage /\ r.stage <= progress
    /\ \A r \in wire, s \in Senders : IsUpdate(s) => r.stage <= pending[s].stage
    /\ \A s \in Senders : IsUpdate(s) => seen <= pending[s].stage /\ pending[s].stage <= progress
    /\ \A s, t \in Senders :
         Before(s, t) /\ IsUpdate(s) /\ IsUpdate(t) => pending[s].stage <= pending[t].stage
    /\ \A s, t \in Senders : Before(s, t) => age[s] >= age[t]
    /\ seen <= progress

SenderInv == SenderTypes /\ Placed /\ (proxied => Tunnelled)

\* A new request is the newest update and stands last.
LEMMA FetchKeeps ==
    ASSUME SenderInv, NEW s \in Senders, NEW r \in Request,
           \/ /\ r.kind = "update" /\ r.stage = progress'
              /\ progress' = progress \/ (s = "main" /\ progress' = progress + 1)
              /\ progress' <= MaxStage
           \/ s = "main" /\ r.kind = "transfer" /\ progress' = progress,
           FetchApi(s, r)
    PROVE  SenderInv'
<1> USE DEF SenderInv
<1>1. /\ job = "live" /\ Idle(s) /\ UNCHANGED <<proxied, job, seen>>
      /\ pending' = [pending EXCEPT ![s] = r]
      /\ age' = [age EXCEPT ![s] = 0]
    BY DEF FetchApi
<1>2. s \notin running /\ ~Queued(s)  BY <1>1 DEF Placed
<1>3. CASE proxied
    <2>1. queue' = Append(queue, s) /\ UNCHANGED <<running, wire>>
        BY <1>3 DEF FetchApi, Enter
    <2>2. /\ queue' \in Queues /\ \A t : Queued(t)' <=> Queued(t) \/ t = s
          /\ \A t, o : Pair(queue', t, o) => Queued(t) /\ o = s
        BY <2>1, <1>2, AppendQueue DEF SenderTypes, Queued
    <2>3. SenderTypes'
        BY <1>1, <2>1, <2>2 DEF SenderTypes, Request
    <2>4. Placed'
        BY <1>1, <1>2, <2>1, <2>2 DEF SenderTypes, Placed, Idle, None, Request
    <2>5. Tunnelled'
        <3>1. /\ pending'[s] = r /\ age'[s] = 0
              /\ \A t \in Senders : t # s => pending'[t] = pending[t] /\ age'[t] = age[t]
            BY <1>1 DEF SenderTypes
        <3>2. /\ \A t \in running : t # s /\ t \in Senders
              /\ \A t, u \in Senders : Before(t, u)' => t # s /\ (u = s \/ Before(t, u))
            BY <1>2, <2>1, <2>2 DEF Before, SenderTypes
        <3>3. \A t \in Senders : IsUpdate(t)' => (t = s /\ r.kind = "update") \/ (t # s /\ IsUpdate(t))
            BY <3>1 DEF IsUpdate
        <3>4. /\ progress \in Nat /\ progress' \in Nat /\ progress <= progress'
              /\ "main" # s => progress' = progress
            BY <1>1 DEF SenderTypes
        <3>5. \A t \in Senders : t # s /\ IsUpdate(t) => pending[t].stage <= progress
                                                  /\ pending[t].stage \in Nat
            BY <1>3 DEF Tunnelled, IsUpdate, SenderTypes, Request, None
        <3>6. \A q \in wire : q.stage \in Nat /\ q.stage <= progress
            BY <1>3 DEF Tunnelled, SenderTypes, Request
        <3>7. \A t, u \in Senders : Before(t, u)' => age'[t] >= age'[u]
            BY <1>3, <3>1, <3>2 DEF Tunnelled, SenderTypes
        <3>8. \A q \in wire' : \E t \in running' : pending'[t] = q
            BY <1>1, <1>3, <2>1, <3>1, <3>2 DEF Tunnelled, Abandoned
        <3>9. IsUpdate("main")' => pending'["main"].stage = progress'
            BY <1>3, <3>1, <3>3, <3>4 DEF Tunnelled, Senders
        <3>10. \A t \in Senders : IsUpdate(t)' => seen <= pending'[t].stage /\ pending'[t].stage <= progress'
            BY <1>3, <3>1, <3>3, <3>4, <3>5 DEF Tunnelled, SenderTypes
        <3>11. \A q \in wire, t \in Senders : IsUpdate(t)' => q.stage <= pending'[t].stage
            BY <1>3, <3>1, <3>3, <3>4, <3>6 DEF Tunnelled
        <3>12. \A t, u \in Senders : Before(t, u)' /\ IsUpdate(t)' /\ IsUpdate(u)'
                                       => pending'[t].stage <= pending'[u].stage
            BY <1>3, <3>1, <3>2, <3>3, <3>4, <3>5 DEF Tunnelled
        <3>13. \A q \in wire' : seen' <= q.stage /\ q.stage <= progress'
            BY <1>1, <1>3, <2>1, <3>4, <3>6 DEF Tunnelled
        <3>14. seen' <= progress' BY <1>1, <1>3, <3>4 DEF Tunnelled, SenderTypes
        <3> QED
            BY <1>1, <1>3, <2>1, <3>7, <3>8, <3>9, <3>10, <3>11, <3>12, <3>13, <3>14 DEF Tunnelled
    <2> QED BY <1>1, <1>3, <2>3, <2>4, <2>5
<1>4. CASE ~proxied
    <2>1. /\ queue' = queue /\ running' = running \cup {s}
          /\ wire' = wire \cup OnWire(r)
        BY <1>4, <1>1 DEF FetchApi, Enter, SenderTypes
    <2>3. SenderTypes'
        BY <1>1, <2>1 DEF SenderTypes, Request, OnWire
    <2>4. Placed'
        BY <1>1, <1>2, <2>1 DEF SenderTypes, Placed, Idle, None, Request, Queued
    <2> QED BY <1>1, <1>4, <2>3, <2>4
<1> QED BY <1>3, <1>4

\* Whether somebody else waits.
LEMMA OtherQueued ==
    ASSUME NEW q \in Queues, NEW s \in Senders
    PROVE  (\E i \in DOMAIN q : q[i] # s) <=> \E t \in Senders : t # s /\ In(q, t)
<1>1. CASE q = <<>>  BY <1>1 DEF In
<1>2. CASE \E t \in Senders : q = <<t>>  BY <1>2 DEF In
<1>3. CASE \E t, o \in Senders : t # o /\ q = <<t, o>>  BY <1>3 DEF In
<1> QED BY <1>1, <1>2, <1>3, QueueCases

\* A request leaves: those of the other sender stay where they were.
LEMMA DropKeeps ==
    ASSUME SenderInv, NEW s \in Senders, ~Idle(s), Drop(s),
           \/ pending[s] \notin wire /\ job' = job
           \/ s = "main" /\ job' = "failed",
           UNCHANGED <<proxied, progress, age, wire, seen>>
    PROVE  SenderInv'
<1> USE DEF SenderInv
<1>o. PICK o : o = CHOOSE t \in Senders : t # s  OBVIOUS
<1>1. o \in Senders /\ o # s /\ \A t \in Senders : t \in {s, o}  BY <1>o DEF Senders
<1>2. /\ pending' = [pending EXCEPT ![s] = None] /\ running' = running \ {s}
      /\ queue' = IF Queued(o) THEN <<o>> ELSE <<>>
    <2>1. queue \in Queues  BY DEF SenderTypes
    <2>2. (\E i \in DOMAIN queue : queue[i] # s) <=> \E t \in Senders : t # s /\ In(queue, t)
        BY <2>1, OtherQueued
    <2>3. queue' = IF \E i \in DOMAIN queue : queue[i] # s THEN <<o>> ELSE <<>>  BY <1>o DEF Drop
    <2>4. queue' = IF Queued(o) THEN <<o>> ELSE <<>>  BY <1>1, <2>2, <2>3 DEF Queued
    <2> QED BY <2>4 DEF Drop
<1>3. /\ queue' \in Queues /\ \A t \in Senders : Queued(t)' <=> Queued(t) /\ t # s
      /\ \A t, u : ~Pair(queue', t, u)
    BY <1>1, <1>2, EmptyQueue, SingleQueue DEF Queued
<1>4. SenderTypes'  BY <1>2, <1>3 DEF SenderTypes
<1>5. Placed'
    <2>1. \A t \in Senders : Idle(t)' <=> t \notin running' /\ ~Queued(t)'
        BY <1>2, <1>3 DEF SenderTypes, Placed, Idle
    <2>2. \A t \in running' : ~Queued(t)'  BY <1>2, <1>3 DEF SenderTypes, Placed
    <2>3. job' # "live" => Idle("main")'
        BY <1>2 DEF Placed, SenderTypes, Idle, Senders
    <2>4. pending'["beat"].kind # "transfer"
        BY <1>2 DEF Placed, SenderTypes, None, Senders
    <2> QED BY <2>1, <2>2, <2>3, <2>4 DEF Placed
<1>6. proxied => Tunnelled'
    <2> SUFFICES ASSUME proxied PROVE Tunnelled'  OBVIOUS
    <2>1. \A r \in wire' : Abandoned(r)' \/ (\E t \in running' : pending'[t] = r)
        <3> SUFFICES ASSUME NEW r \in wire' PROVE Abandoned(r)' \/ (\E t \in running' : pending'[t] = r)
            OBVIOUS
        <3>1. CASE Abandoned(r)
            <4>1. job' # "live"  BY <3>1 DEF Abandoned
            <4>2. Idle("beat") => Idle("beat")'  BY <1>2 DEF Idle, SenderTypes, Senders
            <4> QED BY <3>1, <4>1, <4>2 DEF Abandoned
        <3>2. CASE \E t \in running : pending[t] = r
            <4>1. PICK t \in running : pending[t] = r  BY <3>2
            <4>2. CASE t # s  BY <4>1, <4>2, <1>2 DEF SenderTypes
            <4>3. CASE t = s
                <5>1. s = "main" /\ job' = "failed"  BY <4>1, <4>3
                <5>2. IsUpdate("main") /\ r.stage = progress
                    BY <4>1, <4>3, <5>1 DEF IsUpdate, Tunnelled, SenderTypes
                <5> QED BY <5>1, <5>2 DEF Abandoned
            <4> QED BY <4>2, <4>3
        <3> QED BY <3>1, <3>2 DEF Tunnelled
    <2>2. \A t \in Senders : IsUpdate(t)' => t # s /\ IsUpdate(t) /\ pending'[t] = pending[t]
        BY <1>2 DEF IsUpdate, None, SenderTypes
    <2>3. \A t, u \in Senders : Before(t, u)' => Before(t, u)
        BY <1>2, <1>3 DEF Before
    <2> QED BY <2>1, <2>2, <2>3, <1>2 DEF Tunnelled, SenderTypes, Senders
<1> QED BY <1>4, <1>5, <1>6

\* The heartbeat ends the job: every request is gone, and updates on the wire
\* stay there.
LEMMA BeatFailsKeeps ==
    ASSUME SenderInv, NEW why \in {"timedOut", "connection"}, BeatFails(why),
           UNCHANGED <<proxied, progress, age, wire, seen>>
    PROVE  SenderInv'
<1> USE DEF SenderInv
<1>1. /\ queue' = <<>> /\ running' = {} /\ \A s \in Senders : pending'[s] = None
      /\ job' # "live" /\ job' \in {"timedOut", "connection", "failed"}
    BY DEF BeatFails, EndJob, SenderTypes
<1>2. SenderTypes'  BY <1>1, EmptyQueue DEF SenderTypes, BeatFails
<1>3. Placed'  BY <1>1, EmptyQueue DEF Placed, Idle, Queued, None, Senders
<1>4. proxied => Tunnelled'
    BY <1>1, <1>2, EmptyQueue DEF Tunnelled, Before, IsUpdate, None, Queued, Abandoned, Idle, Senders
<1> QED BY <1>2, <1>3, <1>4

\* The failure of the run's own request.
LEMMA MainFailsKeeps ==
    ASSUME SenderInv, ~Idle("main"), MainFails,
           UNCHANGED <<proxied, progress, age, wire, seen>>
    PROVE  SenderInv'
<1>1. Drop("main") /\ job = "live"  BY DEF MainFails, SenderInv, Placed
<1>2. CASE pending["main"].kind = "transfer" /\ UNCHANGED job
    BY <1>1, <1>2, DropKeeps DEF SenderInv, SenderTypes, Senders
<1>3. CASE EndJob("failed")
    <2>1. job' = "failed"  BY <1>1, <1>3 DEF EndJob
    <2> QED BY <1>1, <2>1, DropKeeps DEF Senders
<1> QED BY <1>2, <1>3 DEF MainFails

\* Dispatch takes the first of the queue.
LEMMA DispatchKeeps ==
    ASSUME SenderInv, Dispatch
    PROVE  SenderInv'
<1> USE DEF SenderInv
<1>s. PICK s : s = Head(queue)  OBVIOUS
<1>0. queue \in Queues /\ queue # <<>> /\ queue' = Tail(queue)  BY DEF Dispatch, SenderTypes
<1>1. /\ s \in Senders /\ queue' \in Queues
      /\ \A t : Queued(t) <=> Queued(t)' \/ t = s
      /\ ~Queued(s)' /\ \A t : Queued(t)' => Pair(queue, s, t)
      /\ \A t, o : ~Pair(queue', t, o)
    BY <1>0, <1>s, TailQueue DEF Queued
<1>2. /\ running = {} /\ running' = {s} /\ wire' = wire \cup OnWire(pending[s]) /\ queue # <<>>
      /\ UNCHANGED <<proxied, progress, job, pending, age, seen>>
    BY <1>s DEF Dispatch, ConnectionFree
<1>4. ~Idle(s) /\ pending[s] \in Request  BY <1>1, <1>2 DEF Placed, SenderTypes, Idle
<1>5. SenderTypes'  BY <1>1, <1>2, <1>4 DEF SenderTypes, OnWire
<1>6. Placed'
    <2>1. \A t \in Senders : Idle(t)' <=> t \notin running' /\ ~Queued(t)'
        BY <1>1, <1>2 DEF Placed, Idle
    <2>2. \A t \in running' : ~Queued(t)'  BY <1>1, <1>2
    <2> QED BY <1>2, <2>1, <2>2 DEF Placed, Idle
<1>7. proxied => Tunnelled'
    <2> SUFFICES ASSUME proxied PROVE Tunnelled'  OBVIOUS
    <2>1. \A t, o \in Senders : Before(t, o)' => Before(t, o)  BY <1>1, <1>2 DEF Before
    <2>2. \A r \in wire : job # "live" /\ r.stage = progress /\ s = "beat"
        <3>1. s = "beat" \/ job = "live"  BY <1>1, <1>4 DEF Placed, Senders
        <3> QED BY <1>1, <1>2, <1>4, <3>1 DEF Tunnelled, Abandoned
    <2>3. \A r \in wire : r = pending[s]
        <3> SUFFICES ASSUME NEW r \in wire PROVE r = pending[s]  OBVIOUS
        <3>1. pending[s].kind = "update"  BY <1>4, <2>2 DEF Placed, Request
        <3>2. r.stage <= pending[s].stage /\ pending[s].stage <= progress
            BY <1>1, <3>1 DEF Tunnelled, IsUpdate
        <3>3. r \in Request /\ r.kind = "update" /\ r.stage = progress  BY <2>2 DEF SenderTypes
        <3>4. r.stage = pending[s].stage  BY <1>4, <3>2, <3>3 DEF Request
        <3> QED BY <1>4, <3>1, <3>3, <3>4 DEF Request
    <2>4. \A r \in wire' : r = pending[s] /\ IsUpdate(s)
        BY <1>2, <2>3 DEF OnWire, SenderTypes, IsUpdate
    <2>5. \A t \in Senders : t # s /\ IsUpdate(t) => Before(s, t)
        <3> SUFFICES ASSUME NEW t \in Senders, t # s, IsUpdate(t) PROVE Before(s, t)  OBVIOUS
        <3>1. ~Idle(t)  BY DEF IsUpdate, Idle, None
        <3>2. Queued(t)'  BY <1>1, <1>2, <3>1 DEF Placed
        <3> QED BY <1>1, <3>2 DEF Before
    <2>6. \A r \in wire', t \in Senders : IsUpdate(t) => r.stage <= pending[t].stage
        <3> SUFFICES ASSUME NEW r \in wire', NEW t \in Senders, IsUpdate(t)
                     PROVE  r.stage <= pending[t].stage
            OBVIOUS
        <3>1. CASE t = s  BY <1>4, <2>4, <3>1 DEF Request
        <3>2. CASE t # s  BY <1>1, <2>4, <2>5, <3>2 DEF Tunnelled
        <3> QED BY <3>1, <3>2
    <2>7. \A r \in wire' : seen <= r.stage /\ r.stage <= progress
        BY <1>1, <2>4 DEF Tunnelled
    <2>8. \A r \in wire' : \E t \in running' : pending'[t] = r  BY <1>2, <2>4
    <2>9. IsUpdate("main")' <=> IsUpdate("main")  BY <1>2 DEF IsUpdate
    <2> QED BY <1>1, <1>2, <2>1, <2>4, <2>6, <2>7, <2>8, <2>9 DEF Tunnelled, IsUpdate
<1> QED BY <1>2, <1>5, <1>6, <1>7

\* What the API acts on is at most the last stage that was sent.
LEMMA ApiActsKeeps ==
    ASSUME SenderInv, ApiActs
    PROVE  SenderInv' /\ (proxied => seen' >= seen)
<1> USE DEF SenderInv
<1>1. PICK r \in wire : wire' = wire \ {r} /\ seen' = r.stage  BY DEF ApiActs
<1>2. UNCHANGED <<proxied, progress, job, pending, queue, running, age>>  BY DEF ApiActs
<1>3. SenderTypes'  BY <1>1, <1>2 DEF SenderTypes, Request
<1>4. Placed'  BY <1>2 DEF Placed, Idle, Queued
<1>5. ASSUME proxied PROVE Tunnelled' /\ seen' >= seen
    <2>1. wire' = {} /\ seen <= seen' /\ seen' <= progress
        BY <1>1, <1>5 DEF Tunnelled
    <2>2. \A t \in Senders : IsUpdate(t) => seen' <= pending[t].stage
        <3> SUFFICES ASSUME NEW t \in Senders, IsUpdate(t) PROVE seen' <= pending[t].stage
            OBVIOUS
        <3> QED BY <1>1, <1>5 DEF Tunnelled
    <2> QED BY <1>2, <1>5, <2>1, <2>2, <1>3 DEF Tunnelled, Before, IsUpdate, Queued, SenderTypes
<1> QED BY <1>2, <1>3, <1>4, <1>5

\* Time moves no request.
LEMMA TickKeeps ==
    ASSUME SenderInv, Tick
    PROVE  SenderInv'
<1> USE DEF SenderInv
<1>1. UNCHANGED <<proxied, progress, job, pending, queue, running, wire, seen>>  BY DEF Tick
<1>2. SenderTypes'  BY <1>1 DEF Tick, SenderTypes
<1>3. Placed'  BY <1>1 DEF Placed, Idle, Queued
<1>4. proxied => Tunnelled'
    <2> SUFFICES ASSUME proxied PROVE Tunnelled'  OBVIOUS
    <2>1. \A s, t \in Senders : Before(s, t)' => Before(s, t) /\ ~Idle(s) /\ ~Idle(t)
        BY <1>1, PairIn DEF Before, Queued, Placed
    <2>2. \A s \in Senders : ~Idle(s) => age'[s] = age[s] + 1  BY DEF Tick
    <2>3. \A s, t \in Senders : Before(s, t)' => age'[s] >= age'[t]
        BY <2>1, <2>2 DEF Tunnelled, SenderTypes
    <2> QED BY <1>1, <2>3 DEF Tunnelled, Before, IsUpdate, Queued, Abandoned, Idle
<1> QED BY <1>1, <1>2, <1>3, <1>4

\* Steps of the proxy alone do not concern the requests.
LEMMA SendersUnchanged ==
    ASSUME SenderInv, UNCHANGED <<proxied, progress, job, pending, queue, running, age, wire, seen>>
    PROVE  SenderInv'
BY DEF SenderInv, SenderTypes, Placed, Idle, Queued, Tunnelled, Before, IsUpdate, Abandoned

\* Nobody has asked for anything yet.
LEMMA TransportInitInv ==
    ASSUME Init
    PROVE  SenderInv
<1>1. SenderTypes
    <2>1. 0 \in 0..MaxStage  BY TransportAssumption
    <2>2. proxied \in BOOLEAN  BY TransportAssumption DEF Init
    <2> QED BY <2>1, <2>2, EmptyQueue DEF Init, SenderTypes
<1>2. Placed  BY EmptyQueue DEF Init, Placed, Idle, Queued, None, Senders
<1>3. Tunnelled
    BY EmptyQueue DEF Init, Tunnelled, Before, IsUpdate, Queued, None, Senders
<1> QED BY <1>1, <1>2, <1>3 DEF SenderInv

\* One step per action.
LEMMA TransportKeeps ==
    ASSUME SenderInv, [Next]_vars
    PROVE  SenderInv' /\ (proxied => seen' >= seen)
<1>1. seen \in Nat  BY DEF SenderInv, SenderTypes
<1>2. CASE SendProgress
    <2>0. progress \in 0..MaxStage /\ progress < MaxStage /\ progress' = progress + 1
        BY <1>2 DEF SendProgress, SenderInv, SenderTypes
    <2> DEFINE r == [kind |-> "update", stage |-> progress + 1]
    <2>1. SenderInv'
        <3>1. r \in Request /\ r.kind = "update" /\ r.stage = progress' /\ progress' <= MaxStage
            BY <2>0, TransportAssumption DEF Request
        <3>2. FetchApi("main", r)  BY <1>2 DEF SendProgress
        <3> HIDE DEF r
        <3> QED BY <2>0, <3>1, <3>2, FetchKeeps DEF Senders
    <2> QED BY <1>1, <1>2, <2>1 DEF SendProgress, FetchApi
<1>3. CASE SendTransfer
    <2> DEFINE r == [kind |-> "transfer", stage |-> 0]
    <2>1. SenderInv'
        <3>1. r \in Request /\ r.kind = "transfer"  BY TransportAssumption DEF Request
        <3>2. FetchApi("main", r) /\ progress' = progress  BY <1>3 DEF SendTransfer
        <3> HIDE DEF r
        <3> QED BY <3>1, <3>2, FetchKeeps DEF Senders
    <2> QED BY <1>1, <1>3, <2>1 DEF SendTransfer, FetchApi
<1>4. CASE Beat
    <2>1. SenderInv'
        BY <1>4, FetchKeeps DEF Beat, SenderInv, SenderTypes, Senders, Request
    <2> QED BY <1>1, <1>4, <2>1 DEF Beat, FetchApi
<1>5. CASE Dispatch  BY <1>1, <1>5, DispatchKeeps DEF Dispatch
<1>6. CASE ApiActs  BY <1>6, ApiActsKeeps
<1>7. CASE Tick  BY <1>1, <1>7, TickKeeps DEF Tick
<1>8. ASSUME NEW s \in Senders, Answered(s) PROVE SenderInv' /\ UNCHANGED seen
    BY <1>8, DropKeeps DEF Answered, SenderInv, Placed
<1>9. ASSUME NEW s \in Senders, Expires(s) PROVE SenderInv' /\ UNCHANGED seen
    <2>1. CASE s = "main"  BY <1>9, <2>1, MainFailsKeeps DEF Expires
    <2>2. CASE s = "beat"  BY <1>9, <2>2, BeatFailsKeeps DEF Expires
    <2> QED BY <2>1, <2>2 DEF Senders
<1>10. ASSUME NEW s \in Senders, Breaks(s) PROVE SenderInv' /\ UNCHANGED seen
    <2>1. ~Idle(s)  BY <1>10 DEF Breaks, SenderInv, Placed
    <2>2. CASE s = "main"  BY <1>10, <2>1, <2>2, MainFailsKeeps DEF Breaks
    <2>3. CASE s = "beat"  BY <1>10, <2>3, BeatFailsKeeps DEF Breaks
    <2> QED BY <2>2, <2>3 DEF Senders
<1>11. CASE ProxyActs
    <2>1. UNCHANGED <<proxied, progress, age, wire, seen>>  BY <1>11 DEF ProxyActs, Felt
    <2>2. CASE UNCHANGED <<pending, queue, running, job>>  BY <1>1, <2>1, <2>2, SendersUnchanged
    <2>3. CASE TunnelLost
        <3>1. CASE "beat" \in running /\ BeatFails("connection")
            BY <1>1, <2>1, <3>1, BeatFailsKeeps
        <3>2. CASE "main" \in running /\ MainFails
            <4>1. ~Idle("main")  BY <3>2 DEF SenderInv, Placed, Senders
            <4> QED BY <1>1, <2>1, <3>2, <4>1, MainFailsKeeps
        <3> QED BY <2>2, <2>3, <3>1, <3>2 DEF TunnelLost
    <2> QED BY <1>11, <2>2, <2>3 DEF ProxyActs, Felt
<1>12. CASE UNCHANGED vars
    BY <1>1, <1>12, SendersUnchanged DEF vars, tvars
<1> QED BY <1>1, <1>2, <1>3, <1>4, <1>5, <1>6, <1>7, <1>8, <1>9, <1>10, <1>11, <1>12 DEF Next

\* What goes together at every moment of the run's requests (fetchApi and
\* its dispatcher, network.js:78-95; the two senders, worker.js:245-275).
THEOREM Invariance == Spec => []SenderInv
<1>1. Init => SenderInv  BY TransportInitInv
<1>2. SenderInv /\ [Next]_vars => SenderInv'  BY TransportKeeps
<1> QED BY <1>1, <1>2, PTL DEF Spec

\* Types of the proxy's and the transport's state.
THEOREM TypeCorrect == Spec => []TypeOK
<1>1. ProxyInv /\ SenderInv => TypeOK
    <2> SUFFICES ASSUME ProxyInv, SenderInv PROVE TypeOK  OBVIOUS
    <2>1. \A c \in Clients : status[c] \in Seq(Statuses)
        <3> DEFINE Lines == {NoLine, Line(200), Line(400), Line(403), Line(405), Line(502)}
        <3>1. Lines \subseteq Seq(Statuses)  BY DEF NoLine, Line, Statuses
        <3>2. \A c \in Clients : status[c] \in Lines  BY DEF ProxyInv, ProxyTypes
        <3> HIDE DEF Lines
        <3> QED BY <3>1, <3>2
    <2>2. status \in [Clients -> Seq(Statuses)]  BY <2>1 DEF ProxyInv, ProxyTypes
    <2>3. ProxyTypeOK  BY <2>2 DEF ProxyInv, ProxyTypes, ProxyTypeOK
    <2> QED BY <2>3 DEF SenderInv, SenderTypes, TypeOK
<1> QED BY <1>1, Invariance, ProxyInvariance, UsesTheProxy, PTL

\* Through the proxy the API's view of the run's stage never goes back
\* (one connection without pipelining, network.js:81-82), for any number of
\* updates and heartbeats, answered, abandoned or late.
THEOREM StagesNeverGoBack == Spec => StagesInOrder
<1>1. SenderInv /\ [Next]_vars => [proxied => seen' >= seen]_vars  BY TransportKeeps
<1> QED BY <1>1, Invariance, PTL DEF Spec, StagesInOrder

\* Only the heartbeat's own time ends the job as timed out, and a request of
\* main's that has the connection then stands before it.
LEMMA TimedOutStep ==
    ASSUME SenderInv, [Next]_vars, proxied, job = "live", job' = "timedOut", "main" \in running
    PROVE  age["main"] >= RequestTimeout
<1>1. ASSUME NEW s \in Senders, Expires(s)
      PROVE  s = "beat" /\ ~Idle("beat") /\ age["beat"] = Limit("beat")
    BY <1>1 DEF Expires, MainFails, EndJob
<1>2. CASE \E s \in Senders : Expires(s)
    <2>1. ~Idle("beat") /\ age["beat"] = RequestTimeout
        BY <1>1, <1>2 DEF Limit, SenderInv, Placed
    <2>2. "beat" \notin running  BY DEF SenderInv, Tunnelled
    <2>3. Before("main", "beat")  BY <2>1, <2>2 DEF Before, SenderInv, Placed, Senders
    <2> QED BY <2>1, <2>3 DEF SenderInv, Tunnelled, Senders
<1>3. CASE SendProgress \/ SendTransfer \/ Beat \/ Dispatch \/ ApiActs \/ Tick \/ UNCHANGED vars
    BY <1>3 DEF SendProgress, SendTransfer, Beat, FetchApi, Dispatch, ApiActs, Tick, vars, tvars
<1>4. ASSUME NEW s \in Senders, Answered(s) \/ Breaks(s) PROVE FALSE
    BY <1>4 DEF Answered, Breaks
<1>5. CASE ProxyActs
    BY <1>5 DEF ProxyActs, Felt, TunnelLost, MainFails, BeatFails, EndJob
<1> QED BY <1>2, <1>3, <1>4, <1>5 DEF Next

\* A heartbeat that waits behind a request of main's until its time is up
\* waits for one request only, which is a transfer or out of time as well
\* (one connection, first come first served, network.js:78-83), for any
\* limits and whatever becomes of the tunnel.
THEOREM UpdatesNeverCostTheJob == Spec => BeatLostToElderOnly
<1>1. SenderInv /\ [Next]_vars => [proxied /\ job = "live" /\ job' = "timedOut" /\ "main" \in running
                                    => age["main"] >= RequestTimeout]_vars
    BY TimedOutStep
<1> QED BY <1>1, Invariance, PTL DEF Spec, BeatLostToElderOnly
=============================================================================
