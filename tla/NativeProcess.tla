--------------------------- MODULE NativeProcess ---------------------------
(***************************************************************************)
(* The native engine calls of one execution slot (src/src/process.js,      *)
(* runProcess): a promise that is settled by whichever of the child's      *)
(* close, its start error, the job timeout and the job's abort comes       *)
(* first, while the child itself may outlive its promise.  Before the      *)
(* child exists the policy of NativeCpuAffinity is awaited, which may      *)
(* refuse the call or bind the child to CPUs.                              *)
(***************************************************************************)
EXTENDS NativeCpuAffinity

CONSTANTS Calls,    \* the calls the slot makes, one after the other
          Budgets,  \* what the worker may be configured with
          Lists     \* what /proc may say when it is read

ASSUME ListsAssumption == Lists \subseteq Seq([first : Nat, last : Nat])

VARIABLES
    outcome,  \* new, pending, resolved, failed, timeout or cancelled
    child,    \* none, unstarted, alive, exited or closed
    code,     \* whether the child exited with code 0
    killed,   \* the calls whose child was sent SIGKILL
    timers,   \* the calls whose timeout is set
    armed,    \* the calls that listen to their job's abort
    aborted,  \* the calls whose job is aborted
    budget,   \* cpuAffinityCount
    listed,   \* the list each call's policy read
    cpus      \* the CPUs each child was bound to

cpuVars == <<budget, listed, cpus>>
processVars == <<outcome, child, code, killed, timers, armed, aborted, cpuVars>>

Settled == {"resolved", "failed", "timeout", "cancelled"}

ProcessTypeOK ==
    /\ outcome \in [Calls -> {"new", "pending"} \cup Settled]
    /\ child \in [Calls -> {"none", "unstarted", "alive", "exited", "closed"}]
    /\ code \in [Calls -> {"none", "zero", "other"}]
    /\ killed \subseteq Calls /\ aborted \subseteq Calls
    /\ timers \subseteq {c \in Calls : outcome[c] = "pending"}
    /\ armed = {c \in timers : child[c] # "none"}
    /\ budget \in Budgets /\ listed \in [Calls -> Lists \cup {<<>>}] /\ DOMAIN cpus = Calls

ProcessInit ==
    /\ outcome = [c \in Calls |-> "new"]
    /\ child = [c \in Calls |-> "none"]
    /\ code = [c \in Calls |-> "none"]
    /\ killed = {} /\ timers = {} /\ armed = {} /\ aborted = {}
    /\ budget \in Budgets
    /\ listed = [c \in Calls |-> <<>>] /\ cpus = [c \in Calls |-> <<>>]

\* finish: the first one settles, and disarms the others.
Finish(c, how) ==
    /\ outcome' = [outcome EXCEPT ![c] = IF @ = "pending" THEN how ELSE @]
    /\ timers' = timers \ {c}
    /\ armed' = armed \ {c}

-----------------------------------------------------------------------------
\* The run awaits one call at a time; nativeCpuInvocation is awaited before
\* the child exists.
Invoke(c) ==
    /\ outcome[c] = "new" /\ \A d \in Calls : outcome[d] # "pending"
    /\ outcome' = [outcome EXCEPT ![c] = "pending"]
    /\ UNCHANGED <<child, code, killed, timers, armed, aborted, cpuVars>>

Starting(c) == outcome[c] = "pending" /\ child[c] = "none"

AffinityFails(c) ==
    /\ Starting(c) /\ \E list \in Lists : Refused(list, budget)
    /\ outcome' = [outcome EXCEPT ![c] = "failed"]
    /\ UNCHANGED <<child, code, killed, timers, armed, aborted, cpuVars>>

CancelledBeforeSpawn(c) ==
    /\ Starting(c) /\ c \in aborted /\ \E list \in Lists : ~Refused(list, budget)
    /\ outcome' = [outcome EXCEPT ![c] = "cancelled"]
    /\ UNCHANGED <<child, code, killed, timers, armed, aborted, cpuVars>>

\* Mutant: the timeout is set with the child's first output only.
SpawnWithoutTimer(c) ==
    /\ Starting(c) /\ c \notin aborted
    /\ child' = [child EXCEPT ![c] = "alive"]
    /\ UNCHANGED <<timers, armed, outcome, code, killed, aborted, cpuVars>>

Spawn(c) ==
    /\ Starting(c) /\ c \notin aborted
    /\ \E found \in BOOLEAN : child' = [child EXCEPT ![c] = IF found THEN "alive" ELSE "unstarted"]
    /\ \E list \in Lists :
         /\ ~Refused(list, budget)
         /\ listed' = [listed EXCEPT ![c] = IF budget = NoBudget THEN <<>> ELSE list]
         /\ cpus' = [cpus EXCEPT ![c] = CpuList(list, budget)]
    /\ timers' = timers \cup {c}
    /\ armed' = armed \cup {c}
    /\ UNCHANGED <<outcome, code, killed, aborted, budget>>

\* The child's 'error' event.
StartFails(c) ==
    /\ child[c] = "unstarted"
    /\ child' = [child EXCEPT ![c] = "closed"]
    /\ Finish(c, "failed")
    /\ UNCHANGED <<code, killed, aborted, cpuVars>>

\* The child ends by itself or of the signal; its pipes are still read.
ChildExits(c) ==
    /\ child[c] = "alive"
    /\ child' = [child EXCEPT ![c] = "exited"]
    /\ \E how \in {"zero", "other"} : code' = [code EXCEPT ![c] = how]
    /\ UNCHANGED <<outcome, killed, timers, armed, aborted, cpuVars>>

\* Mutant: the exit code is not looked at.
ClosesAnyCode(c) ==
    /\ child[c] = "exited"
    /\ child' = [child EXCEPT ![c] = "closed"]
    /\ Finish(c, "resolved")
    /\ UNCHANGED <<code, killed, aborted, cpuVars>>

\* The 'close' event: the child is gone and all of its output was read.
Closes(c) ==
    /\ child[c] = "exited"
    /\ child' = [child EXCEPT ![c] = "closed"]
    /\ Finish(c, IF code[c] = "zero" THEN "resolved" ELSE "failed")
    /\ UNCHANGED <<code, killed, aborted, cpuVars>>

\* Mutant: the promise is rejected and the child left running.
KillNothing(c) == UNCHANGED killed

\* child.kill('SIGKILL'): no effect on a child that is gone.
Kill(c) == killed' = IF child[c] = "alive" THEN killed \cup {c} ELSE killed

TimesOut(c) ==
    /\ c \in timers
    /\ Kill(c) /\ Finish(c, "timeout")
    /\ UNCHANGED <<child, code, aborted, cpuVars>>

\* The job's signal: lease lost, heartbeat failed, or shutdown.
JobAborts(c) ==
    /\ c \notin aborted /\ outcome[c] \in {"new", "pending"}
    /\ aborted' = aborted \cup {c}
    /\ IF c \in armed
       THEN Kill(c) /\ Finish(c, "cancelled")
       ELSE UNCHANGED <<killed, outcome, timers, armed>>
    /\ UNCHANGED <<child, code, cpuVars>>

ProcessNext == \E c \in Calls :
    \/ Invoke(c) \/ AffinityFails(c) \/ CancelledBeforeSpawn(c) \/ Spawn(c)
    \/ StartFails(c) \/ ChildExits(c) \/ Closes(c) \/ TimesOut(c) \/ JobAborts(c)

ProcessSpec == ProcessInit /\ [][ProcessNext]_processVars

\* Reading /proc ends, and a set timer fires.  Nothing is assumed of the
\* child: it may run for ever, or leave its pipes open.
Timely(c) == AffinityFails(c) \/ CancelledBeforeSpawn(c) \/ Spawn(c) \/ TimesOut(c)

FairProcess == ProcessSpec /\ \A c \in Calls : WF_processVars(Timely(c))

-----------------------------------------------------------------------------
\* A call succeeds only for a child that ended with code 0, whose output was
\* read to the end and that was never sent SIGKILL - in whatever order its
\* end, the timeout and the abort came.
ResolvedIsFinished ==
    \A c \in Calls : outcome[c] = "resolved" =>
        child[c] = "closed" /\ code[c] = "zero" /\ c \notin killed

\* "There is one execution slot": a child nobody has ended and nobody has
\* killed is the one the run awaits, for a job that is not aborted - whenever
\* between the reading of /proc and the close of the child the abort came.
OneEngineWorks ==
    \A c \in Calls : child[c] = "alive" /\ c \notin killed =>
        outcome[c] = "pending" /\ c \notin aborted

\* "Use the actual permitted CPU set and the existing qualified engine-thread
\* budget, never host CPU count": a child of a worker with a policy has one
\* CPU per thread, the lowest of those /proc permitted when it was started,
\* however the kernel writes its list; without a policy it is left alone.
OnPermittedCpus ==
    \A c \in Calls : child[c] # "none" =>
        IF budget = NoBudget THEN cpus[c] = <<>>
        ELSE LET own == ToSet(cpus[c])
             IN /\ Cardinality(own) = budget /\ own \subseteq Permitted(listed[c])
                /\ \A cpu \in Permitted(listed[c]) \ own : \A mine \in own : mine < cpu

\* Every call settles, though its child may never end: a job is bounded by
\* jobTimeoutMs for each native call it makes.
EveryCallSettles == \A c \in Calls : outcome[c] = "pending" ~> outcome[c] \in Settled
=============================================================================
