-------------------------- MODULE SlicerRunProofs --------------------------
(***************************************************************************)
(* Theorems of SlicerRun for any set of runs and any number of models.     *)
(*                                                                         *)
(* PublishedIsAccepted and WithdrawnIsExcused are not inductive: they rest *)
(* on what an answer means while it is on its way - in reply, in beat, in  *)
(* raised and in reason - and on where main is when it may have a verdict. *)
(* IInv adds those facts.                                                  *)
(***************************************************************************)
EXTENDS SlicerRun, TLAPS

Over == {"completed", "failed", "lost"}

\* An answer, an error or an abort reason of the lease's class was given by
\* an API for which the lease is over, and a lease that is over stays over.
TerminalMeansOver ==
    /\ \A r \in Runs : beat[r] = "terminal" \/ reason[r] = "terminal" => srv[r] \in Over
    /\ cur # NoRun /\ (reply = "terminal" \/ raised = "terminal") => srv[cur] \in Over

\* main holds an answer only while it awaits one, and an ok to the upload
\* was given by an API that accepted it.
AnswerIsCurrent ==
    /\ reply # "none" => pc \in {"awaitProgress", "awaitComplete", "awaitFail"}
    /\ raised # "none" => pc = "catch"
    /\ pc = "awaitComplete" /\ reply = "ok" => srv[cur] = "completed"

\* The run has a verdict from the failure report or the finally block on.
VerdictWhenDue ==
    /\ pc \in {"claimed", "progress", "awaitProgress", "work", "send",
               "awaitComplete", "backoff", "catch"} => verdict[cur] = "open"
    /\ pc \in {"awaitFail", "removing"} => verdict[cur] # "open"

\* What was never claimed was never touched.
ClaimedFirst ==
    /\ cur # NoRun => srv[cur] # "queued"
    /\ pc = "claimed" => cur \notin offered
    /\ \A r \in Runs : srv[r] = "queued" => verdict[r] = "open" /\ r \notin offered
    /\ \A m \in net : /\ srv[m.run] # "queued"
                      /\ m.kind = "complete" => m.run \in offered

\* The shutdown signal reaches every job, and aborts no job before it came.
ShutdownAbortsJobs ==
    /\ shutdown => \A r \in Runs : reason[r] # "none"
    /\ \A r \in Runs : reason[r] = "shutdown" => shutdown

\* There is room for the next update and for the next attempt.
CountersHaveRoom ==
    /\ cur = NoRun \/ pc = "claimed" => progress = 0
    /\ pc = "progress" => progress < Finalizing
    /\ pc = "backoff" => attempt < MaxAttempts

\* Only the run between mkdtemp and the finally block has an interval.
TimerInSlot ==
    /\ timers \subseteq {cur}
    /\ pc \in {"idle", "claimed", "removing", "stopped"} => timers = {}

\* A directory belongs to the slot or to a killed process.
DirectoryAccounted ==
    pc # "stopped" => \A r \in workdirs : r = cur \/ verdict[r] = "crashed"

IInv ==
    /\ TypeOK
    /\ TerminalMeansOver
    /\ AnswerIsCurrent
    /\ VerdictWhenDue
    /\ ClaimedFirst
    /\ ShutdownAbortsJobs
    /\ CountersHaveRoom
    /\ TimerInSlot
    /\ DirectoryAccounted
    /\ PublishedIsAccepted
    /\ WithdrawnIsExcused

-----------------------------------------------------------------------------
\* Every step of the API, of a heartbeat, of main and of the process keeps
\* IInv, and so does a step that changes nothing.
LEMMA StepPreserves == ASSUME IInv, [Next]_vars PROVE IInv'
<1> USE NoRunAssumption, ModelsAssumption
    DEF IInv, TypeOK, TerminalMeansOver, AnswerIsCurrent, VerdictWhenDue, ClaimedFirst,
        ShutdownAbortsJobs, CountersHaveRoom, TimerInSlot, DirectoryAccounted,
        PublishedIsAccepted, WithdrawnIsExcused, Over, Replies, MaxAttempts, Finalizing,
        Aborted, ErrorClass, AbortJob, apiVars, closureVars, historyVars, Goto, Throw, Finish
<1>1. ASSUME NEW m \in net, ServerAccepts(m) PROVE IInv'
  <2>1. /\ m.run \in Runs /\ srv[m.run] = "leased"
        /\ UNCHANGED <<pc, cur, attempt, raised, shutdown, progress, reason, timers,
                       workdirs, offered, verdict>>
        /\ net' = net \ {m}
        /\ srv' \in [Runs -> {"queued", "leased", "completed", "failed", "lost"}]
        /\ \A r \in Runs : r # m.run => srv'[r] = srv[r]
        /\ srv'[m.run] # "queued" /\ (m.kind = "complete" => srv'[m.run] = "completed")
    BY <1>1 DEF ServerAccepts, Requests
  <2>2. /\ reply' \in {reply, "ok", "fatal"}
        /\ reply' # reply => MainAwaits(m)
        /\ beat' \in [Runs -> Replies \cup {"idle", "pending"}]
        /\ \A r \in Runs : beat'[r] = "terminal" => beat[r] = "terminal"
    BY <1>1, <2>1 DEF ServerAccepts, Deliver, Lost
  <2>3. reply' # reply => /\ m.run = cur /\ cur \in Runs
                          /\ pc \in {"awaitProgress", "awaitComplete", "awaitFail"}
                          /\ pc = "awaitComplete" => m.kind = "complete"
    BY <2>2 DEF MainAwaits, ProgressRequest, CompleteRequest, FailRequest
  <2>4. TypeOK'
    BY <2>1, <2>2
  <2>5. AnswerIsCurrent'
    BY <2>1, <2>2, <2>3
  <2>6. \A r \in Runs : srv[r] \in Over => srv'[r] \in Over
    BY <2>1
  <2>7. TerminalMeansOver'
    BY <2>1, <2>2, <2>6
  <2>8. ClaimedFirst' /\ PublishedIsAccepted' /\ WithdrawnIsExcused'
    BY <2>1 DEF Requests
  <2>9. VerdictWhenDue' /\ ShutdownAbortsJobs' /\ CountersHaveRoom' /\ TimerInSlot' /\ DirectoryAccounted'
    BY <2>1
  <2> QED
    BY <2>4, <2>5, <2>7, <2>8, <2>9
<1>2. ASSUME NEW m \in net, ServerRefuses(m) PROVE IInv'
  <2>1. /\ m.run \in Runs /\ net' = net \ {m}
        /\ UNCHANGED <<srv, pc, cur, attempt, raised, shutdown, progress, reason, timers,
                       workdirs, offered, verdict>>
    BY <1>2 DEF ServerRefuses, Requests
  <2>2. /\ reply' \in Replies \cup {"none"}
        /\ beat' \in [Runs -> Replies \cup {"idle", "pending"}]
        /\ reply' # reply => MainAwaits(m)
        /\ reply' # reply /\ reply' = "ok" => m.kind = "complete" /\ srv[m.run] = "completed"
        /\ reply' # reply /\ reply' = "terminal" => srv[m.run] # "leased"
        /\ \A r \in Runs : beat'[r] = "terminal" /\ beat[r] # "terminal"
                              => r = m.run /\ srv[m.run] # "leased"
    BY <1>2, <2>1 DEF ServerRefuses, Deliver, Lost
  <2>3. reply' # reply => /\ m.run = cur /\ cur \in Runs
                          /\ pc \in {"awaitProgress", "awaitComplete", "awaitFail"}
    BY <2>2 DEF MainAwaits, ProgressRequest, CompleteRequest, FailRequest
  <2>4. TypeOK' /\ AnswerIsCurrent'
    BY <2>1, <2>2, <2>3
  <2>5. TerminalMeansOver'
    BY <2>1, <2>2, <2>3
  <2>6. ClaimedFirst' /\ PublishedIsAccepted' /\ WithdrawnIsExcused'
    BY <2>1
  <2>7. VerdictWhenDue' /\ ShutdownAbortsJobs' /\ CountersHaveRoom' /\ TimerInSlot' /\ DirectoryAccounted'
    BY <2>1
  <2> QED
    BY <2>4, <2>5, <2>6, <2>7
<1>3. ASSUME NEW r \in Runs, LeaseEnds(r) PROVE IInv'
    BY <1>3 DEF LeaseEnds, Requests
<1>4. ASSUME NEW r \in Runs, Claim(r) PROVE IInv'
    BY <1>4 DEF Claim, Requests
<1>5. ASSUME NEW r \in Runs, BeatFires(r) PROVE IInv'
    BY <1>5 DEF BeatFires, Requests, ProgressRequest
<1>6. ASSUME NEW r \in Runs, BeatEnds(r) PROVE IInv'
    BY <1>6 DEF BeatEnds, Requests
<1>7. ASSUME NEW r \in Runs, BeatGivesUp(r) PROVE IInv'
    BY <1>7 DEF BeatGivesUp, Requests
<1>8. ASSUME RejectIdentity PROVE IInv'
    BY <1>8 DEF RejectIdentity, Requests
<1>9. ASSUME Start PROVE IInv'
    BY <1>9 DEF Start, Requests
<1>10. ASSUME SendProgress PROVE IInv'
    BY <1>10 DEF SendProgress, Requests, ProgressRequest
<1>11. ASSUME ProgressAnswered PROVE IInv'
    BY <1>11 DEF ProgressAnswered, Requests
<1>12. ASSUME WorkDone PROVE IInv'
    BY <1>12 DEF WorkDone, Requests
<1>13. ASSUME WorkFails PROVE IInv'
    BY <1>13 DEF WorkFails, Requests
<1>14. ASSUME SendComplete PROVE IInv'
    BY <1>14 DEF SendComplete, RetryOrThrow, Requests, CompleteRequest
<1>15. ASSUME CompleteAnswered PROVE IInv'
    BY <1>15 DEF CompleteAnswered, RetryOrThrow, Requests
<1>16. ASSUME BackoffEnds PROVE IInv'
    BY <1>16 DEF BackoffEnds, Requests
<1>17. ASSUME MainGivesUp PROVE IInv'
    BY <1>17 DEF MainGivesUp, RetryOrThrow, Requests
<1>18. ASSUME Catch PROVE IInv'
    BY <1>18 DEF Catch, RunError, Requests, FailRequest
<1>19. ASSUME FailAnswered PROVE IInv'
    BY <1>19 DEF FailAnswered, Requests
<1>20. ASSUME Remove PROVE IInv'
    BY <1>20 DEF Remove, Requests
<1>21. ASSUME ExitLoop PROVE IInv'
    BY <1>21 DEF ExitLoop, Requests
<1>22. ASSUME Shutdown PROVE IInv'
    BY <1>22 DEF Shutdown, Requests
<1>23. ASSUME Crash PROVE IInv'
    BY <1>23 DEF Crash, Requests
<1>24. ASSUME UNCHANGED vars PROVE IInv'
    BY <1>24 DEF vars
<1> QED
    BY <1>1, <1>2, <1>3, <1>4, <1>5, <1>6, <1>7, <1>8, <1>9, <1>10, <1>11, <1>12, <1>13, <1>14,
       <1>15, <1>16, <1>17, <1>18, <1>19, <1>20, <1>21, <1>22, <1>23, <1>24 DEF Next, Main

\* IInv holds before the first claim.
LEMMA InitEstablishes == Init => IInv
<1> SUFFICES ASSUME Init PROVE IInv
  OBVIOUS
<1> USE NoRunAssumption, ModelsAssumption DEF Init
<1>1. TypeOK
  <2>1. 0 \in 0..Finalizing /\ 1 \in 1..MaxAttempts
    BY DEF Finalizing, MaxAttempts
  <2>2. \A f, s, x : x \in s /\ f = [r \in Runs |-> x] => f \in [Runs -> s]
    OBVIOUS
  <2> QED
    BY <2>1, <2>2 DEF TypeOK, Replies
<1>2. TerminalMeansOver /\ AnswerIsCurrent /\ VerdictWhenDue
  BY DEF TerminalMeansOver, AnswerIsCurrent, VerdictWhenDue
<1>3. ClaimedFirst /\ ShutdownAbortsJobs /\ CountersHaveRoom
  BY DEF ClaimedFirst, ShutdownAbortsJobs, CountersHaveRoom
<1>4. TimerInSlot /\ DirectoryAccounted /\ PublishedIsAccepted /\ WithdrawnIsExcused
  BY DEF TimerInSlot, DirectoryAccounted, PublishedIsAccepted, WithdrawnIsExcused
<1> QED
  BY <1>1, <1>2, <1>3, <1>4 DEF IInv

\* IInv holds in every reachable state.
THEOREM Invariance == Spec => []IInv
<1>1. IInv /\ [Next]_vars => IInv'
  BY StepPreserves
<1> QED
  BY InitEstablishes, <1>1, PTL DEF Spec

\* Every variable keeps its type in every behavior, whatever Runs and Models
\* are: in particular attempt never exceeds the three of completeWithRetry.
THEOREM TypeCorrect == Spec => []TypeOK
  BY Invariance, PTL DEF IInv

\* A run logged as completed was accepted by the API, for any number of runs
\* and any loss, delay or garbling of answers.
THEOREM PublishedWasAccepted == Spec => []PublishedIsAccepted
  BY Invariance, PTL DEF IInv

\* A run is dropped silently only for a lease that is over or on shutdown.
THEOREM WithdrawnWasExcused == Spec => []WithdrawnIsExcused
  BY Invariance, PTL DEF IInv

\* No run directory survives its run, but for the process being killed.
THEOREM DirectoriesReleased == Spec => []DirectoryIsReleased
<1>1. IInv => DirectoryIsReleased
  BY NoRunAssumption DEF IInv, TypeOK, DirectoryAccounted, DirectoryIsReleased
<1> QED
  BY Invariance, <1>1, PTL
-----------------------------------------------------------------------------
(* What a step may put on the wire.                                        *)

\* What a step adds to the wire belongs to the run in the slot; an upload or a
\* failure report is added only while that run is open, the upload only under
\* a signal that is not aborted, the report only for a lease not known over.
LEMMA WireGrowth ==
  ASSUME IInv, [Next]_vars, NEW m \in net' \ net
  PROVE  /\ m.run = cur
         /\ m.kind \in {"progress", "complete", "fail"}
         /\ m.kind = "complete" => verdict[cur] = "open" /\ ~Aborted(cur)
         /\ m.kind = "fail" =>
              /\ verdict[cur] = "open" /\ ~shutdown
              /\ IF Aborted(cur) THEN reason[cur] # "terminal" ELSE raised # "terminal"
<1> USE DEF ProgressRequest, CompleteRequest, FailRequest
<1>1. CASE \E r \in Runs : BeatFires(r)
  BY <1>1 DEF BeatFires, IInv, TimerInSlot
<1>2. CASE SendProgress
  BY <1>2 DEF SendProgress
<1>3. CASE SendComplete
  BY <1>3 DEF SendComplete, RetryOrThrow, IInv, VerdictWhenDue
<1>4. CASE Catch
  BY <1>4 DEF Catch, RunError, ErrorClass, IInv, VerdictWhenDue, TypeOK
<1>5. CASE \E n \in net : ServerAccepts(n) \/ ServerRefuses(n)
  BY <1>5 DEF ServerAccepts, ServerRefuses
<1>6. CASE UNCHANGED net
  BY <1>6
<1>7. ASSUME NEW r \in Runs, LeaseEnds(r) \/ Claim(r) \/ BeatEnds(r) \/ BeatGivesUp(r)
      PROVE  UNCHANGED net
  BY <1>7 DEF LeaseEnds, Claim, BeatEnds, BeatGivesUp, apiVars
<1>8. ASSUME \/ RejectIdentity \/ Start \/ ProgressAnswered \/ WorkDone \/ WorkFails
             \/ CompleteAnswered \/ BackoffEnds \/ MainGivesUp \/ FailAnswered
             \/ Remove \/ ExitLoop \/ Shutdown \/ Crash \/ UNCHANGED vars
      PROVE  UNCHANGED net
  BY <1>8 DEF RejectIdentity, Start, ProgressAnswered, WorkDone, WorkFails, CompleteAnswered,
              BackoffEnds, MainGivesUp, FailAnswered, Remove, ExitLoop, Shutdown, Crash,
              apiVars, vars
<1> QED
  BY <1>1, <1>2, <1>3, <1>4, <1>5, <1>6, <1>7, <1>8 DEF Next, Main

\* The upload starts only for the open run in the slot under a live signal.
THEOREM OffersUnderLiveSignal == Spec => OfferUnderLiveSignal
<1>1. IInv /\ [Next]_vars => [\A m \in net' \ net : m.kind = "complete" =>
                                m.run = cur /\ verdict[cur] = "open" /\ ~Aborted(cur)]_vars
  BY WireGrowth
<1> QED
  BY Invariance, <1>1, PTL DEF Spec, OfferUnderLiveSignal

\* A failure report leaves at most once, never while the worker shuts down,
\* and never when what ended the job - the heartbeat's abort, else main's own
\* exception - says that the lease is over (worker.js:393-399).
THEOREM NeverFailsOnLeaseError == Spec => NoFailOnLeaseError
<1>1. IInv /\ [Next]_vars => [\A m \in net' \ net : m.kind = "fail" =>
          /\ verdict[m.run] = "open" /\ ~shutdown
          /\ IF Aborted(m.run) THEN reason[m.run] # "terminal" ELSE raised # "terminal"]_vars
  BY WireGrowth
<1> QED
  BY Invariance, <1>1, PTL DEF Spec, NoFailOnLeaseError

\* Nothing of a run goes on the wire after its slot was given back.
THEOREM QuietOnceReleased == Spec => QuietAfterRelease
<1>1. IInv /\ [Next]_vars => [\A m \in net' \ net : m.run = cur]_vars
  BY WireGrowth
<1> QED
  BY Invariance, <1>1, PTL DEF Spec, QuietAfterRelease

-----------------------------------------------------------------------------
(* The refinement of RunContract.                                          *)

Mode == IF pc = "stopped" THEN "halted" ELSE IF shutdown THEN "stopping" ELSE "serving"

\* Every step of SlicerRun is a step of RunContract or leaves its view of the
\* slot, the verdicts, the leases and the process alone.
LEMMA StepImplements == ASSUME IInv, IInv', [Next]_vars
                        PROVE  [Contract!ContractNext]_(Contract!cvars)
<1> DEFINE Lease == [r \in Runs |-> LeaseOf(srv[r])]
           Quiet == UNCHANGED <<cur, verdict, Lease, offered, Mode>>
<1> USE NoRunAssumption
<1>q. ASSUME Quiet PROVE UNCHANGED Contract!cvars
  BY <1>q DEF Contract!cvars, Mode
<1>1. ASSUME NEW m \in net, ServerAccepts(m)
      PROVE  Contract!Accept(m.run) \/ Contract!EndLease(m.run) \/ UNCHANGED Contract!cvars
  <2>1. /\ m.run \in Runs /\ srv[m.run] = "leased"
        /\ m.kind = "complete" => m.run \in offered
    BY <1>1 DEF ServerAccepts, Requests, IInv, TypeOK, ClaimedFirst
  <2>2. UNCHANGED <<cur, verdict, offered, Mode>>
    BY <1>1 DEF ServerAccepts, historyVars, Mode
  <2>3. CASE m.kind = "complete"
    <3>1. srv' = [srv EXCEPT ![m.run] = "completed"]
      BY <1>1, <2>3 DEF ServerAccepts
    <3>2. Contract!Accept(m.run)
      BY <2>1, <2>2, <2>3, <3>1 DEF Contract!Accept, LeaseOf, Mode, IInv, TypeOK
    <3> QED
      BY <3>2
  <2>4. CASE m.kind = "fail"
    <3>1. srv' = [srv EXCEPT ![m.run] = "failed"]
      BY <1>1, <2>4 DEF ServerAccepts
    <3>2. Contract!EndLease(m.run)
      BY <2>1, <2>2, <3>1 DEF Contract!EndLease, LeaseOf, Mode, IInv, TypeOK
    <3> QED
      BY <3>2
  <2>5. CASE m.kind \notin {"complete", "fail"}
    <3>1. srv' = srv
      BY <1>1, <2>5 DEF ServerAccepts, IInv, TypeOK
    <3> QED
      BY <2>2, <3>1, <1>q
  <2> QED
    BY <2>3, <2>4, <2>5
<1>2. ASSUME NEW m \in net, ServerRefuses(m) PROVE UNCHANGED Contract!cvars
  BY <1>2, <1>q DEF ServerRefuses, historyVars, Mode
<1>3. ASSUME NEW r \in Runs, LeaseEnds(r) PROVE Contract!EndLease(r)
  <2>1. /\ srv' = [srv EXCEPT ![r] = "lost"] /\ srv[r] = "leased"
        /\ UNCHANGED <<cur, verdict, offered, Mode>>
    BY <1>3 DEF LeaseEnds, historyVars, Mode
  <2>2. Lease[r] = "held"
    BY <2>1 DEF LeaseOf
  <2>3. \A x \in Runs : LeaseOf(srv'[x]) = IF x = r THEN "ended" ELSE LeaseOf(srv[x])
    BY <2>1 DEF LeaseOf, IInv, TypeOK
  <2>4. Lease' = [Lease EXCEPT ![r] = "ended"]
    BY <2>3
  <2> QED
    BY <2>1, <2>2, <2>4 DEF Contract!EndLease, Mode
<1>4. ASSUME NEW r \in Runs, Claim(r) PROVE Contract!Take(r)
  <2>1. /\ srv' = [srv EXCEPT ![r] = "leased"] /\ srv[r] = "queued"
        /\ cur' = r /\ UNCHANGED <<verdict, offered>>
        /\ cur = NoRun /\ verdict[r] = "open"
    BY <1>4 DEF Claim, historyVars, IInv, TypeOK, ClaimedFirst
  <2>2. Mode = "serving" /\ Mode' = "serving"
    BY <1>4 DEF Claim, Goto, Mode
  <2>3. Lease[r] = "unclaimed"
    BY <2>1 DEF LeaseOf
  <2>4. \A x \in Runs : LeaseOf(srv'[x]) = IF x = r THEN "held" ELSE LeaseOf(srv[x])
    BY <2>1 DEF LeaseOf, IInv, TypeOK
  <2>5. Lease' = [Lease EXCEPT ![r] = "held"]
    BY <2>4
  <2> QED
    BY <2>1, <2>2, <2>3, <2>5 DEF Contract!Take, Mode
<1>5. ASSUME NEW r \in Runs, BeatFires(r) \/ BeatEnds(r) \/ BeatGivesUp(r)
      PROVE  UNCHANGED Contract!cvars
  BY <1>5, <1>q DEF BeatFires, BeatEnds, BeatGivesUp, AbortJob, apiVars, historyVars, Mode
<1>6. ASSUME RejectIdentity PROVE Contract!Reject(cur)
  BY <1>6 DEF RejectIdentity, Goto, apiVars, Contract!Reject, IInv, TypeOK, VerdictWhenDue,
              ClaimedFirst
<1>7. ASSUME \/ Start \/ SendProgress \/ ProgressAnswered \/ WorkDone \/ WorkFails \/ BackoffEnds
      PROVE  UNCHANGED Contract!cvars
  BY <1>7, <1>q DEF Start, SendProgress, ProgressAnswered, WorkDone, WorkFails, BackoffEnds,
                    Goto, Throw, apiVars, closureVars, historyVars, Mode
<1>8. ASSUME SendComplete PROVE Contract!Offer(cur) \/ UNCHANGED Contract!cvars
  BY <1>8, <1>q DEF SendComplete, RetryOrThrow, Goto, Throw, Aborted, Contract!Offer, Mode,
                    IInv, TypeOK, VerdictWhenDue, ShutdownAbortsJobs
<1>9. ASSUME CompleteAnswered PROVE Contract!Settle(cur, "published") \/ UNCHANGED Contract!cvars
  BY <1>9, <1>q DEF CompleteAnswered, Finish, RetryOrThrow, Goto, Throw, apiVars,
                    Contract!Settle, Contract!Justified, LeaseOf, Mode, IInv, TypeOK,
                    AnswerIsCurrent, VerdictWhenDue
<1>10. ASSUME MainGivesUp \/ FailAnswered PROVE UNCHANGED Contract!cvars
  BY <1>10, <1>q DEF MainGivesUp, FailAnswered, Finish, RetryOrThrow, Goto, Throw, apiVars,
                     historyVars, Mode, IInv, TypeOK, VerdictWhenDue
<1>11. ASSUME Catch PROVE Contract!Settle(cur, "reported") \/ Contract!Settle(cur, "withdrawn")
  <2>1. /\ pc = "catch" /\ cur \in Runs /\ verdict[cur] = "open"
        /\ UNCHANGED <<srv, cur, offered, shutdown>>
        /\ pc' \in {"awaitFail", "removing"}
    BY <1>11 DEF Catch, Finish, IInv, TypeOK, VerdictWhenDue
  <2>2. CASE ~shutdown /\ RunError # "terminal"
    BY <1>11, <2>1, <2>2 DEF Catch, Contract!Settle, Contract!Justified, Mode
  <2>3. CASE ~(~shutdown /\ RunError # "terminal")
    <3>1. verdict' = [verdict EXCEPT ![cur] = "withdrawn"]
      BY <1>11, <2>1, <2>3 DEF Catch, Finish
    <3>2. shutdown \/ srv[cur] \in Over
      BY <2>1, <2>3 DEF RunError, ErrorClass, Aborted, IInv, TerminalMeansOver
    <3>3. Lease[cur] \in {"accepted", "ended"} \/ Mode = "stopping"
      BY <2>1, <3>2 DEF Over, LeaseOf, Mode
    <3> QED
      BY <2>1, <3>1, <3>3 DEF Contract!Settle, Contract!Justified, Mode
  <2> QED
    BY <2>2, <2>3
<1>12. ASSUME Remove PROVE Contract!Release(cur)
  BY <1>12 DEF Remove, Goto, apiVars, historyVars, Contract!Release, IInv, TypeOK,
               VerdictWhenDue
<1>13. ASSUME ExitLoop PROVE Contract!Stopped
  BY <1>13 DEF ExitLoop, Goto, apiVars, historyVars, Contract!Stopped, IInv, TypeOK
<1>14. ASSUME Shutdown PROVE Contract!StopRequested
  BY <1>14 DEF Shutdown, apiVars, historyVars, Contract!StopRequested
<1>15. ASSUME Crash PROVE Contract!Crash(cur)
  BY <1>15 DEF Crash, apiVars, Contract!Crash, IInv, TypeOK
<1>16. ASSUME UNCHANGED vars PROVE UNCHANGED Contract!cvars
  BY <1>16, <1>q DEF vars, Mode
<1>17. cur # NoRun => cur \in Runs
  BY DEF IInv, TypeOK
<1>18. \A m \in net : m.run \in Runs
  BY DEF IInv, TypeOK, Requests
<1>19. CASE Main
  <2>1. cur # NoRun \/ ExitLoop
    BY <1>19 DEF Main, RejectIdentity, Start, SendProgress, ProgressAnswered, WorkDone,
                 WorkFails, SendComplete, CompleteAnswered, BackoffEnds, MainGivesUp, Catch,
                 FailAnswered, Remove, IInv, TypeOK
  <2> QED
    BY <1>6, <1>7, <1>8, <1>9, <1>10, <1>11, <1>12, <1>13, <1>17, <1>19, <2>1
    DEF Main, Contract!ContractNext, Contract!Verdicts
<1>20. CASE Crash
  BY <1>15, <1>17, <1>20 DEF Crash, Contract!ContractNext
<1>21. CASE Shutdown \/ UNCHANGED vars
  BY <1>14, <1>16, <1>21 DEF Contract!ContractNext
<1>22. CASE \E m \in net : ServerAccepts(m) \/ ServerRefuses(m)
  BY <1>1, <1>2, <1>18, <1>22 DEF Contract!ContractNext
<1>23. CASE \E r \in Runs : LeaseEnds(r) \/ Claim(r) \/ BeatFires(r) \/ BeatEnds(r) \/ BeatGivesUp(r)
  BY <1>3, <1>4, <1>5, <1>23 DEF Contract!ContractNext
<1> QED
  BY <1>19, <1>20, <1>21, <1>22, <1>23 DEF Next

\* The worker keeps RunContract: one run at a time in the slot, artifacts
\* offered only by it, and every verdict justified by the run's lease.
THEOREM Refinement == Spec => ImplementsContract
<1>1. Init => Contract!ContractInit
  BY DEF Init, Contract!ContractInit, LeaseOf
<1>2. IInv /\ IInv' /\ [Next]_vars => [Contract!ContractNext]_(Contract!cvars)
  BY StepImplements
<1> QED
  BY Invariance, <1>1, <1>2, PTL DEF Spec, ImplementsContract, Contract!ContractSpec
=============================================================================
