----------------------------- MODULE SlicerRun -----------------------------
(***************************************************************************)
(* One execution slot running leased Slicer runs (src/src/worker.js,       *)
(* runClaim) over the HTTP protocol client (src/src/api-client.js).        *)
(*                                                                         *)
(* Three parties take steps: the run's own coroutine ("main"), the         *)
(* heartbeat timer of each run that was ever started, and the AM Pilot API *)
(* (external: only what the client can observe of it).  A request leaves   *)
(* the worker into net, where it may stay for ever, be handled after the   *)
(* caller gave up, or be answered with an answer that is lost or garbled.  *)
(***************************************************************************)
EXTENDS Naturals, FiniteSets

CONSTANTS Runs,     \* the runs the API may lease to this worker
          NoRun,    \* cur when the slot is free
          Models    \* the number of source models of a run

ASSUME NoRunAssumption  == NoRun \notin Runs
ASSUME ModelsAssumption == Models \in Nat \ {0}

VARIABLES
    \* the API
    srv,        \* each run: queued, leased, completed, failed or lost
    net,        \* requests that left the worker and were not handled yet
    \* runClaim's coroutine
    pc,         \* where it awaits or what it does next
    cur,        \* the run in the slot
    attempt,    \* completeWithRetry's attempt
    reply,      \* the answer to main's request, once it arrived
    progress,   \* the number of the last progress update merged
    raised,     \* the error on its way to the catch block
    shutdown,   \* SIGTERM or SIGINT was received
    \* the closure of each run
    reason,     \* jobSignal.reason
    timers,     \* the runs whose heartbeat interval is set
    beat,       \* the run's heartbeat callback: idle, pending or answered
    workdirs,   \* the run directories on disk
    \* history
    offered,    \* the runs with a completion request ever sent
    verdict     \* how the worker ended each run

vars == <<srv, net, pc, cur, attempt, reply, progress, raised, shutdown,
          reason, timers, beat, workdirs, offered, verdict>>
apiVars     == <<srv, net>>
closureVars == <<reason, timers, beat, workdirs>>
historyVars == <<offered, verdict>>

-----------------------------------------------------------------------------
(* The progress updates of a run, by number: downloading, then preparing   *)
(* once for every model, slicing, validating, compiling-preview and        *)
(* finalizing.  0 is the initial 'claimed' record, which is never sent.    *)
Downloading == 1
Finalizing  == Models + 5

MaxAttempts == 3

\* How an answer ends the caller's await: ok; a 5xx or 429; another 4xx or a
\* body that is no JSON; or one of LEASE_TERMINAL_CODES.
Replies == {"ok", "retryable", "fatal", "terminal"}

\* The stage a progress request reports decides nothing and is left out.
Requests == [run : Runs, kind : {"progress", "complete", "fail"},
             attempt : 0..MaxAttempts, from : {"main", "timer"}]

ProgressRequest(r, who) == [run |-> r, kind |-> "progress", attempt |-> 0, from |-> who]
CompleteRequest(r) == [run |-> r, kind |-> "complete", attempt |-> attempt, from |-> "main"]
FailRequest(r)     == [run |-> r, kind |-> "fail", attempt |-> 0, from |-> "main"]

Aborted(r) == reason[r] # "none"

\* Mutant: a code of the transport is listed among LEASE_TERMINAL_CODES.
ErrorClassBroad(answer) == IF answer \in {"terminal", "fatal"} THEN "terminal" ELSE "other"

\* The class LEASE_TERMINAL_CODES tells apart.
ErrorClass(answer) == IF answer = "terminal" THEN "terminal" ELSE "other"

\* jobAbort.abort(error): AbortSignal.any keeps the reason that came first.
AbortJob(r, why) == reason' = [reason EXCEPT ![r] = IF @ = "none" THEN why ELSE @]

TypeOK ==
    /\ srv \in [Runs -> {"queued", "leased", "completed", "failed", "lost"}]
    /\ net \subseteq Requests
    /\ pc \in {"idle", "claimed", "progress", "awaitProgress", "work", "send",
               "awaitComplete", "backoff", "catch", "awaitFail", "removing", "stopped"}
    /\ cur \in Runs \cup {NoRun}
    /\ cur = NoRun <=> pc \in {"idle", "stopped"}
    /\ attempt \in 1..MaxAttempts
    /\ reply \in Replies \cup {"none"}
    /\ raised \in {"none", "other", "terminal"}
    /\ shutdown \in BOOLEAN
    /\ progress \in 0..Finalizing
    /\ reason \in [Runs -> {"none", "other", "terminal", "shutdown"}]
    /\ timers \subseteq Runs
    /\ beat \in [Runs -> Replies \cup {"idle", "pending"}]
    /\ workdirs \subseteq Runs
    /\ offered \subseteq Runs
    /\ verdict \in [Runs -> {"open", "published", "reported", "withdrawn", "rejected", "crashed"}]

Init ==
    /\ srv = [r \in Runs |-> "queued"]
    /\ net = {}
    /\ pc = "idle"
    /\ cur = NoRun
    /\ attempt = 1
    /\ reply = "none"
    /\ raised = "none"
    /\ shutdown = FALSE
    /\ progress = 0
    /\ reason = [r \in Runs |-> "none"]
    /\ timers = {}
    /\ beat = [r \in Runs |-> "idle"]
    /\ workdirs = {}
    /\ offered = {}
    /\ verdict = [r \in Runs |-> "open"]

-----------------------------------------------------------------------------
(* The AM Pilot API.                                                       *)

\* The request whose answer main awaits.
MainAwaits(m) ==
    \/ pc = "awaitProgress" /\ m = ProgressRequest(cur, "main")
    \/ pc = "awaitComplete" /\ m = CompleteRequest(cur)
    \/ pc = "awaitFail"     /\ m = FailRequest(cur)

\* An aborted fetch has no listener: the failure report is bound to the
\* shutdown signal, every other request to the job's.
Listening(m) == IF m.kind = "fail" THEN ~shutdown ELSE ~Aborted(m.run)

\* The answer reaches its caller, if that caller still waits for it.
Deliver(m, answer) ==
    /\ Listening(m)
    /\ reply' = IF MainAwaits(m) /\ reply = "none" THEN answer ELSE reply
    /\ beat' = IF m.from = "timer" /\ beat[m.run] = "pending"
               THEN [beat EXCEPT ![m.run] = answer] ELSE beat

Lost == UNCHANGED <<reply, beat>>

\* The API acts on a request of a live lease; the answer may still be lost
\* on its way, or arrive as a body that is no JSON.
ServerAccepts(m) ==
    /\ m \in net /\ srv[m.run] = "leased"
    /\ net' = net \ {m}
    /\ srv' = [srv EXCEPT ![m.run] = IF m.kind = "complete" THEN "completed"
                                      ELSE IF m.kind = "fail" THEN "failed" ELSE @]
    /\ Deliver(m, "ok") \/ Deliver(m, "fatal") \/ Lost
    /\ UNCHANGED <<pc, cur, attempt, raised, shutdown, progress, reason,
                   timers, workdirs, historyVars>>

\* The API refuses without acting: overload, rejected evidence, or a lease
\* that is no longer this worker's.  Repeating an accepted completion may
\* also be answered as the first one was.
ServerRefuses(m) ==
    /\ m \in net
    /\ net' = net \ {m}
    /\ \/ \E answer \in {"retryable", "fatal"} : Deliver(m, answer)
       \/ srv[m.run] # "leased" /\ Deliver(m, "terminal")
       \/ m.kind = "complete" /\ srv[m.run] = "completed" /\ Deliver(m, "ok")
       \/ Lost
    /\ UNCHANGED <<srv, pc, cur, attempt, raised, shutdown, progress, reason,
                   timers, workdirs, historyVars>>

\* The lease expires, is given to another worker, or the run is cancelled.
LeaseEnds(r) ==
    /\ srv[r] = "leased"
    /\ srv' = [srv EXCEPT ![r] = "lost"]
    /\ UNCHANGED <<net, pc, cur, attempt, reply, raised, progress, shutdown,
                   closureVars, historyVars>>

-----------------------------------------------------------------------------
(* The heartbeat callback of a run.                                        *)

\* The interval fires: skipped while a callback runs or the job is aborted.
BeatFires(r) ==
    /\ r \in timers /\ beat[r] = "idle" /\ ~Aborted(r)
    /\ beat' = [beat EXCEPT ![r] = "pending"]
    /\ net' = net \cup {ProgressRequest(r, "timer")}
    /\ UNCHANGED <<srv, pc, cur, attempt, reply, raised, shutdown, progress,
                   reason, timers, workdirs, historyVars>>

\* The callback ends; whatever it threw aborts its own job.
BeatEnds(r) ==
    /\ beat[r] \in Replies
    /\ beat' = [beat EXCEPT ![r] = "idle"]
    /\ IF beat[r] = "ok" THEN UNCHANGED reason ELSE AbortJob(r, ErrorClass(beat[r]))
    /\ UNCHANGED <<apiVars, pc, cur, attempt, reply, raised, shutdown, progress,
                   timers, workdirs, historyVars>>

\* Connection error, request timeout, or the job's abort.
BeatGivesUp(r) ==
    /\ beat[r] = "pending"
    /\ beat' = [beat EXCEPT ![r] = "idle"]
    /\ AbortJob(r, "other")
    /\ UNCHANGED <<apiVars, pc, cur, attempt, reply, raised, shutdown, progress,
                   timers, workdirs, historyVars>>

-----------------------------------------------------------------------------
(* runClaim.  Every step of main goes on to its next await, throws to the  *)
(* catch block, or leaves through the finally block.                       *)

Goto(where) == pc' = where /\ reply' = "none" /\ UNCHANGED <<attempt, raised>>

\* The locals of completeWithRetry go with the exception.
Throw(class) == pc' = "catch" /\ raised' = class /\ reply' = "none" /\ attempt' = 1

\* Mutant: clearInterval is forgotten.
FinishKeepsTimer(v) ==
    /\ verdict' = IF verdict[cur] = "open" THEN [verdict EXCEPT ![cur] = v] ELSE verdict
    /\ UNCHANGED timers
    /\ pc' = "removing" /\ reply' = "none" /\ raised' = "none" /\ attempt' = 1

\* The interval is cleared at once, the directory is removed afterwards.
Finish(v) ==
    /\ verdict' = IF verdict[cur] = "open" THEN [verdict EXCEPT ![cur] = v] ELSE verdict
    /\ timers' = timers \ {cur}
    /\ pc' = "removing" /\ reply' = "none" /\ raised' = "none" /\ attempt' = 1

Claim(r) ==
    /\ pc = "idle" /\ ~shutdown /\ srv[r] = "queued"
    /\ srv' = [srv EXCEPT ![r] = "leased"]
    /\ cur' = r /\ Goto("claimed")
    /\ UNCHANGED <<net, progress, shutdown, closureVars, historyVars>>

\* validateClaimIdentity throws out of runClaim; the loop rethrows.
RejectIdentity ==
    /\ pc = "claimed"
    /\ verdict' = [verdict EXCEPT ![cur] = "rejected"]
    /\ cur' = NoRun /\ Goto("stopped")
    /\ UNCHANGED <<apiVars, progress, shutdown, closureVars, offered>>

\* validateClaim, mkdtemp, chmod, then the heartbeat interval.
Start ==
    /\ pc = "claimed"
    /\ \/ Throw("other") /\ workdirs' \in {workdirs, workdirs \cup {cur}} /\ UNCHANGED timers
       \/ /\ workdirs' = workdirs \cup {cur}
          /\ timers' = timers \cup {cur}
          /\ Goto("progress")
    /\ UNCHANGED <<apiVars, cur, progress, shutdown, reason, beat, historyVars>>

\* sendProgress merges the update and posts it; fetch refuses a signal that
\* is aborted already.
SendProgress ==
    /\ pc = "progress"
    /\ progress' = progress + 1
    /\ IF Aborted(cur)
       THEN Throw("other") /\ UNCHANGED net
       ELSE /\ net' = net \cup {ProgressRequest(cur, "main")}
            /\ Goto("awaitProgress")
    /\ UNCHANGED <<srv, cur, shutdown, closureVars, historyVars>>

ProgressAnswered ==
    /\ pc = "awaitProgress" /\ reply # "none"
    /\ IF reply = "ok" THEN Goto("work") ELSE Throw(ErrorClass(reply))
    /\ UNCHANGED <<apiVars, cur, progress, shutdown, closureVars, historyVars>>

\* The work of the current update is done: the next update, or the upload.
WorkDone ==
    /\ pc = "work"
    /\ Goto(IF progress = Finalizing THEN "send" ELSE "progress")
    /\ UNCHANGED <<apiVars, cur, progress, shutdown, closureVars, historyVars>>

\* It fails by itself, is interrupted by the abort, or (a download) learns
\* that the lease is over.
WorkFails ==
    /\ pc = "work" /\ progress # Finalizing
    /\ \/ Throw("other")
       \/ progress = Downloading /\ srv[cur] # "leased" /\ Throw("terminal")
    /\ UNCHANGED <<apiVars, cur, progress, shutdown, closureVars, historyVars>>

-----------------------------------------------------------------------------
(* completeWithRetry and the end of runClaim.                              *)

\* A failed attempt is retried twice, each time after a pause that the
\* abort interrupts.
RetryOrThrow(class, retryable) ==
    IF retryable /\ attempt < MaxAttempts THEN Goto("backoff") ELSE Throw(class)

\* Mutant: the upload is not given jobSignal.
SendCompleteUnsignalled ==
    /\ pc = "send"
    /\ net' = net \cup {CompleteRequest(cur)}
    /\ offered' = offered \cup {cur}
    /\ Goto("awaitComplete")
    /\ UNCHANGED <<srv, cur, progress, shutdown, closureVars, verdict>>

SendComplete ==
    /\ pc = "send"
    /\ \/ /\ ~Aborted(cur)
          /\ net' = net \cup {CompleteRequest(cur)}
          /\ offered' = offered \cup {cur}
          /\ Goto("awaitComplete")
       \/ Aborted(cur) /\ RetryOrThrow("other", TRUE) /\ UNCHANGED <<net, offered>>
       \/ Throw("other") /\ UNCHANGED <<net, offered>>  \* multipartLength: fs.stat
    /\ UNCHANGED <<srv, cur, progress, shutdown, closureVars, verdict>>

\* Mutant: response.ok is not looked at.
CompleteAnsweredUnchecked ==
    /\ pc = "awaitComplete" /\ reply # "none"
    /\ Finish("published")
    /\ UNCHANGED <<apiVars, cur, progress, shutdown, reason, beat, workdirs, offered>>

CompleteAnswered ==
    /\ pc = "awaitComplete" /\ reply # "none"
    /\ IF reply = "ok"
       THEN Finish("published")
       ELSE RetryOrThrow(ErrorClass(reply), reply = "retryable") /\ UNCHANGED <<timers, verdict>>
    /\ UNCHANGED <<apiVars, cur, progress, shutdown, reason, beat, workdirs, offered>>

BackoffEnds ==
    /\ pc = "backoff"
    /\ IF Aborted(cur)
       THEN Throw(ErrorClass(reason[cur]))
       ELSE pc' = "send" /\ attempt' = attempt + 1 /\ UNCHANGED <<raised, reply>>
    /\ UNCHANGED <<apiVars, cur, progress, shutdown, closureVars, historyVars>>

\* Mutant: requests carry the job's signal and no timeout of their own.
MainGivesUpOnAbortOnly ==
    /\ reply = "none" /\ cur # NoRun /\ Aborted(cur)
    /\ \/ pc = "awaitProgress" /\ Throw("other") /\ UNCHANGED <<timers, verdict>>
       \/ pc = "awaitComplete" /\ RetryOrThrow("other", TRUE) /\ UNCHANGED <<timers, verdict>>
       \/ pc = "awaitFail" /\ Finish("reported")
    /\ UNCHANGED <<apiVars, cur, progress, shutdown, reason, beat, workdirs, offered>>

\* Mutant: the failure report carries no signal at all.
MainNeverGivesUpFail ==
    /\ reply = "none"
    /\ \/ pc = "awaitProgress" /\ Throw("other")
       \/ pc = "awaitComplete" /\ RetryOrThrow("other", TRUE)
    /\ UNCHANGED <<apiVars, cur, progress, shutdown, closureVars, historyVars>>

\* Connection error, timeout or abort while main awaits an answer.
MainGivesUp ==
    /\ reply = "none"
    /\ \/ pc = "awaitProgress" /\ Throw("other") /\ UNCHANGED <<timers, verdict>>
       \/ pc = "awaitComplete" /\ RetryOrThrow("other", TRUE) /\ UNCHANGED <<timers, verdict>>
       \/ pc = "awaitFail" /\ Finish("reported")
    /\ UNCHANGED <<apiVars, cur, progress, shutdown, reason, beat, workdirs, offered>>

\* Mutant: the abort's reason is ignored.
RunErrorThrown == raised

\* The error of the run: what aborted the job, before what was thrown.
RunError == IF Aborted(cur) THEN ErrorClass(reason[cur]) ELSE raised

\* Mutant: a worker that is shutting down still reports.
CatchIgnoresShutdown ==
    /\ pc = "catch"
    /\ IF RunError # "terminal"
       THEN /\ net' = net \cup {FailRequest(cur)}
            /\ verdict' = [verdict EXCEPT ![cur] = "reported"]
            /\ pc' = "awaitFail" /\ raised' = "none"
            /\ UNCHANGED <<timers, reply, attempt>>
       ELSE Finish("withdrawn") /\ UNCHANGED net
    /\ UNCHANGED <<srv, cur, progress, shutdown, reason, beat, workdirs, offered>>

Catch ==
    /\ pc = "catch"
    /\ IF ~shutdown /\ RunError # "terminal"
       THEN /\ net' = net \cup {FailRequest(cur)}
            /\ verdict' = [verdict EXCEPT ![cur] = "reported"]
            /\ pc' = "awaitFail" /\ raised' = "none"
            /\ UNCHANGED <<timers, reply, attempt>>
       ELSE Finish("withdrawn") /\ UNCHANGED net
    /\ UNCHANGED <<srv, cur, progress, shutdown, reason, beat, workdirs, offered>>

FailAnswered ==
    /\ pc = "awaitFail" /\ reply # "none"
    /\ Finish("reported")
    /\ UNCHANGED <<apiVars, cur, progress, shutdown, reason, beat, workdirs, offered>>

\* Mutant: the directory is removed at the end of try, not in finally.
RemoveOnSuccess ==
    /\ pc = "removing"
    /\ workdirs' = IF verdict[cur] = "published" THEN workdirs \ {cur} ELSE workdirs
    /\ Goto("idle")
    /\ cur' = NoRun /\ progress' = 0
    /\ UNCHANGED <<apiVars, shutdown, reason, timers, beat, historyVars>>

\* fs.rm of the run directory; its error leaves runClaim and ends the loop.
\* The next run starts from a closure of its own.
Remove ==
    /\ pc = "removing"
    /\ \/ workdirs' = workdirs \ {cur} /\ Goto("idle")
       \/ cur \in workdirs /\ UNCHANGED workdirs /\ Goto("stopped")
    /\ cur' = NoRun /\ progress' = 0
    /\ UNCHANGED <<apiVars, shutdown, reason, timers, beat, historyVars>>

-----------------------------------------------------------------------------
(* The process.                                                            *)

\* SIGTERM or SIGINT: every job signal of the process aborts.
Shutdown ==
    /\ ~shutdown /\ pc # "stopped"
    /\ shutdown' = TRUE
    /\ reason' = [r \in Runs |-> IF reason[r] = "none" THEN "shutdown" ELSE reason[r]]
    /\ UNCHANGED <<apiVars, pc, cur, attempt, reply, raised, progress, timers,
                   beat, workdirs, historyVars>>

ExitLoop ==
    /\ pc = "idle" /\ shutdown
    /\ Goto("stopped")
    /\ UNCHANGED <<apiVars, cur, progress, shutdown, closureVars, historyVars>>

\* The process is killed and, unless it was being stopped, started again.
Crash ==
    /\ cur # NoRun
    /\ verdict' = [verdict EXCEPT ![cur] = "crashed"]
    /\ cur' = NoRun /\ progress' = 0
    /\ pc' = IF shutdown THEN "stopped" ELSE "idle"
    /\ timers' = {} /\ beat' = [r \in Runs |-> "idle"]
    /\ reply' = "none" /\ raised' = "none" /\ attempt' = 1
    /\ UNCHANGED <<apiVars, shutdown, reason, workdirs, offered>>

Main == \/ RejectIdentity \/ Start \/ SendProgress \/ ProgressAnswered
        \/ WorkDone \/ WorkFails \/ SendComplete \/ CompleteAnswered
        \/ BackoffEnds \/ MainGivesUp \/ Catch \/ FailAnswered \/ Remove
        \/ ExitLoop

Next ==
    \/ \E m \in net : ServerAccepts(m) \/ ServerRefuses(m)
    \/ \E r \in Runs : LeaseEnds(r) \/ Claim(r)
                       \/ BeatFires(r) \/ BeatEnds(r) \/ BeatGivesUp(r)
    \/ Main \/ Shutdown \/ Crash

Spec == Init /\ [][Next]_vars

\* Every await of runClaim is bounded: requests by AbortSignal.timeout, the
\* native processes by jobTimeoutMs, the rest is local work.
FairSpec == Spec /\ WF_vars(Main)

-----------------------------------------------------------------------------
(* Properties.                                                             *)

\* A run the worker logs as completed was accepted by the API: neither a
\* lost, late or garbled answer nor a retry makes a success of anything else.
PublishedIsAccepted ==
    \A r \in Runs : verdict[r] = "published" => srv[r] = "completed"

\* A run is dropped without a failure report only when its lease is over, or
\* the worker was told to stop: a transport error is never taken for that.
WithdrawnIsExcused ==
    \A r \in Runs : verdict[r] = "withdrawn" =>
        shutdown \/ srv[r] \in {"completed", "failed", "lost"}

\* "A fresh 0700 temporary directory is deleted after every completion or
\* failure": between runs of one process no directory is left behind.
DirectoryIsReleased ==
    pc = "idle" => \A r \in workdirs : verdict[r] = "crashed"

\* Artifacts are put on the wire only for the run in the slot, before it has
\* a verdict, and never once its job signal is aborted - whichever of the
\* heartbeat, the shutdown or main itself aborted it in between.
OfferUnderLiveSignal ==
    [][\A m \in net' \ net : m.kind = "complete" =>
          m.run = cur /\ verdict[cur] = "open" /\ ~Aborted(cur)]_vars

\* A failure report leaves at most once and only without a verdict; never from
\* a worker that was told to stop, even if another error came first; and never
\* when the error of the run is the end of its lease, whether the heartbeat
\* learnt of it or main did. The abort's reason is that error before what main
\* threw, so a lease's end that main meets after a heartbeat failed otherwise
\* is reported, and so is a run whose lease ended without the worker knowing.
NoFailOnLeaseError ==
    [][\A m \in net' \ net : m.kind = "fail" =>
          /\ verdict[m.run] = "open" /\ ~shutdown
          /\ IF Aborted(m.run) THEN reason[m.run] # "terminal" ELSE raised # "terminal"]_vars

\* Once the slot is given back nothing of the run goes on the wire again:
\* its heartbeat does not outlive it into the next run.
QuietAfterRelease == [][\A m \in net' \ net : m.run = cur]_vars

LeaseOf(status) == IF status = "queued" THEN "unclaimed"
                   ELSE IF status = "leased" THEN "held"
                   ELSE IF status = "completed" THEN "accepted" ELSE "ended"

\* What main published, reported and withdrew is what RunContract promises.
Contract == INSTANCE RunContract WITH
    slot <- cur,
    lease <- [r \in Runs |-> LeaseOf(srv[r])],
    mode <- IF pc = "stopped" THEN "halted" ELSE IF shutdown THEN "stopping" ELSE "serving"

ImplementsContract == Contract!ContractSpec

\* A claimed run gives the slot back, whatever the API answers or does not.
ClaimSettles == \A r \in Runs : cur = r ~> cur # r

\* After SIGTERM the worker process ends.
ShutdownStops == shutdown ~> pc = "stopped"
=============================================================================
