----------------------------- MODULE WorkerLoop -----------------------------
(***************************************************************************)
(* The worker process from start to exit (src/src/worker.js, runWorker and *)
(* runWorkerLoop; src/src/index.js): every engine is verified, then one    *)
(* loop polls the engines' queues in turn and executes what it claims.     *)
(* runClaim is one step here; module SlicerRun is its detail.              *)
(***************************************************************************)
EXTENDS Naturals

CONSTANT N  \* the number of engines this worker serves

ASSUME NAssumption == N \in Nat \ {0}

Engines == 0..(N - 1)

VARIABLES
    queued,    \* the engines whose API queue has a run
    pc,        \* where the worker is
    verified,  \* engines pushed after verification and health check
    next,      \* the engine the next claim is for
    engine,    \* the engine of the current claim
    empty,     \* claims answered empty in a row
    shutdown,  \* SIGTERM or SIGINT was received
    exit,      \* the exit code of the process
    \* history
    answers,   \* how each engine's last claim ended since the last pause
    skipped,   \* claims for other engines since each engine's last one, up to N
    cause      \* what ended the process other than the end of the loop

loopVars == <<queued, pc, verified, next, engine, empty, shutdown, exit, answers, skipped, cause>>
turnVars    == <<next, engine, skipped>>
processVars == <<verified, shutdown>>

LoopTypeOK ==
    /\ queued \subseteq Engines
    /\ pc \in {"verify", "loop", "awaitClaim", "execute", "pause", "backoff", "ended"}
    /\ verified \in 0..N
    /\ next \in Engines /\ engine \in Engines
    /\ empty \in 0..(N - 1)
    /\ shutdown \in BOOLEAN
    /\ exit \in {"none", "0", "1"}
    /\ cause \in {"none", "failure", "signal"}
    /\ exit = "none" <=> pc # "ended"
    /\ answers \in [Engines -> {"none", "run", "empty", "error"}]
    /\ skipped \in [Engines -> 0..N]

LoopInit ==
    /\ queued \in SUBSET Engines
    /\ pc = "verify" /\ verified = 0
    /\ next = 0 /\ engine = 0 /\ empty = 0
    /\ shutdown = FALSE /\ exit = "none"
    /\ answers = [e \in Engines |-> "none"]
    /\ skipped = [e \in Engines |-> 0]
    /\ cause = "none"

Goto(where) == pc' = where /\ UNCHANGED <<exit, cause>>
Return      == pc' = "ended" /\ exit' = "0" /\ UNCHANGED cause
\* An error leaves runWorker; index.js sets process.exitCode.
Escape(why) == pc' = "ended" /\ exit' = "1" /\ cause' = why

-----------------------------------------------------------------------------
\* The native engine and the API's health answer are checked, one engine
\* after the other; no claim is sent before all of them passed.
Verify ==
    /\ pc = "verify" /\ verified < N
    /\ \/ verified' = verified + 1 /\ Goto("verify")
       \/ UNCHANGED verified /\ Escape("failure")
    /\ UNCHANGED <<queued, turnVars, empty, shutdown, answers>>

EnterLoop ==
    /\ pc = "verify" /\ verified = N
    /\ Goto("loop")
    /\ UNCHANGED <<queued, turnVars, empty, processVars, answers>>

Following(e) == (e + 1) % N

\* The history stops counting where it has shown a starved engine.
Saturated(count) == IF count < N THEN count ELSE N

\* Mutant: a queue that had a run is asked again.
SendClaimStickToBusy ==
    /\ pc = "loop" /\ ~shutdown
    /\ engine' = next
    /\ next' = IF next \in queued THEN next ELSE Following(next)
    /\ skipped' = [e \in Engines |-> IF e = next THEN 0 ELSE Saturated(skipped[e] + 1)]
    /\ Goto("awaitClaim")
    /\ UNCHANGED <<queued, empty, processVars, answers>>

SendClaim ==
    /\ pc = "loop" /\ ~shutdown
    /\ engine' = next
    /\ next' = Following(next)
    /\ skipped' = [e \in Engines |-> IF e = next THEN 0 ELSE Saturated(skipped[e] + 1)]
    /\ Goto("awaitClaim")
    /\ UNCHANGED <<queued, empty, processVars, answers>>

LoopEnds ==
    /\ pc = "loop" /\ shutdown
    /\ Return
    /\ UNCHANGED <<queued, turnVars, empty, processVars, answers>>

Answered(how) == answers' = [answers EXCEPT ![engine] = how]

\* A leased run that comes back after the signal is left to its lease.
ClaimFindsRun ==
    /\ pc = "awaitClaim" /\ engine \in queued
    /\ queued' \in {queued, queued \ {engine}}
    /\ Answered("run")
    /\ IF shutdown THEN Return /\ UNCHANGED empty ELSE Goto("execute") /\ empty' = 0
    /\ UNCHANGED <<turnVars, processVars>>

ClaimFindsNothing ==
    /\ pc = "awaitClaim" /\ engine \notin queued
    /\ Answered("empty")
    /\ \/ shutdown /\ Return /\ UNCHANGED empty
       \/ ~shutdown /\ empty + 1 >= N /\ Goto("pause") /\ empty' = 0
       \/ ~shutdown /\ empty + 1 < N /\ Goto("loop") /\ empty' = empty + 1
    /\ UNCHANGED <<queued, turnVars, processVars>>

\* Mutant: a failed claim does not restart the count.
CaughtKeepsCount(retryable) ==
    /\ IF shutdown THEN Return ELSE IF retryable THEN Goto("backoff") ELSE Escape("failure")
    /\ UNCHANGED empty

\* The catch block of the loop. The length of the backoff is left out.
Caught(retryable) ==
    IF shutdown THEN Return /\ UNCHANGED empty
    ELSE /\ IF retryable THEN Goto("backoff") ELSE Escape("failure")
         /\ empty' = 0

\* Unreachable, overloaded, timed out or aborted; refused, or an answer that
\* is no JSON.  The API may have leased the run of a lost answer.
ClaimFails ==
    /\ pc = "awaitClaim"
    /\ queued' \in {queued, queued \ {engine}}
    /\ Answered("error")
    /\ \E retryable \in BOOLEAN : Caught(retryable)
    /\ UNCHANGED <<turnVars, processVars>>

ExecuteReturns ==
    /\ pc = "execute"
    /\ Goto("loop")
    /\ UNCHANGED <<queued, turnVars, empty, processVars, answers>>

\* runClaim throws for another release's claim and for a failing fs.rm.
ExecuteThrows ==
    /\ pc = "execute"
    /\ Caught(FALSE)
    /\ UNCHANGED <<queued, turnVars, processVars, answers>>

\* Mutant: the poll delay does not listen to the signal, and starts again.
PauseEndsDeaf ==
    /\ pc = "pause"
    /\ IF shutdown THEN Goto("pause") ELSE Goto("loop")
    /\ answers' = [e \in Engines |-> "none"]
    /\ UNCHANGED <<queued, turnVars, empty, processVars>>

\* wait() inside the try block: its timer fired, or the signal rejected it.
PauseEnds ==
    /\ pc = "pause"
    /\ Goto("loop") \/ (shutdown /\ Return)
    /\ answers' = [e \in Engines |-> "none"]
    /\ UNCHANGED <<queued, turnVars, empty, processVars>>

\* wait() inside the catch block: nothing catches what the signal rejects.
BackoffEnds ==
    /\ pc = "backoff"
    /\ Goto("loop") \/ (shutdown /\ Escape("signal"))
    /\ UNCHANGED <<queued, turnVars, empty, processVars, answers>>

Shutdown ==
    /\ ~shutdown /\ pc # "ended"
    /\ shutdown' = TRUE
    /\ UNCHANGED <<queued, pc, verified, turnVars, empty, exit, answers, cause>>

\* The API queues a run for an engine, or takes it back.
QueueChanges(e) ==
    /\ queued' = IF e \in queued THEN queued \ {e} ELSE queued \cup {e}
    /\ UNCHANGED <<pc, turnVars, empty, processVars, exit, answers, cause>>

Worker == \/ Verify \/ EnterLoop \/ SendClaim \/ LoopEnds
          \/ ClaimFindsRun \/ ClaimFindsNothing \/ ClaimFails
          \/ ExecuteReturns \/ ExecuteThrows \/ PauseEnds \/ BackoffEnds

LoopNext == Worker \/ Shutdown \/ \E e \in Engines : QueueChanges(e)

LoopSpec == LoopInit /\ [][LoopNext]_loopVars

\* Requests, native checks and timers are bounded, and so is runClaim
\* (SlicerRun!ClaimSettles).
FairLoop == LoopSpec /\ WF_loopVars(Worker)

-----------------------------------------------------------------------------
\* "A busy queue cannot starve the next engine": between two claims for an
\* engine every other one is asked at most once, whatever was answered,
\* failed or executed in between.
BusyQueueCannotStarve == \A e \in Engines : skipped[e] < N

\* The poll delay starts exactly when every engine's last claim since the
\* previous delay came back empty: one empty queue never delays another, a
\* failure or a run in between counts, and idle queues are not spun on.
PauseExactlyWhenIdle ==
    /\ pc = "pause" => \A e \in Engines : answers[e] = "empty"
    /\ pc = "loop" => \E e \in Engines : answers[e] # "empty"

\* A queue that has a run is asked for it, or has lost it, or the worker
\* ends: no pause, backoff or busy neighbour holds it up for ever.
QueueIsAsked ==
    \A e \in Engines :
        (e \in queued /\ pc # "verify")
            ~> ((pc = "awaitClaim" /\ engine = e) \/ pc = "ended")

\* The signal ends the process from every await.
SignalEndsProcess == shutdown ~> pc = "ended"

\* Only a failure makes the process end with a failure: a worker that was
\* told to stop exits with code 0.
SignalExitsCleanly == exit = "1" => cause = "failure"
=============================================================================
