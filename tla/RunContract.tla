---------------------------- MODULE RunContract ----------------------------
(***************************************************************************)
(* What the worker promises about the runs it claims, with no mention of   *)
(* requests, heartbeats, retries or processes: one run at a time owns the  *)
(* execution slot; the run's artifacts are offered to the API only while   *)
(* it owns the slot and is still open; and the slot is given back only     *)
(* with a verdict that the state of the run's lease justifies.             *)
(***************************************************************************)
CONSTANTS Runs,   \* the runs the API may lease to this worker
          NoRun   \* the value of slot when no run is executing

VARIABLES slot,      \* the run that owns the execution slot, or NoRun
          verdict,   \* how the worker ended each run
          lease,     \* the API's view of each run
          offered,   \* the runs whose artifacts were put on the wire
          mode       \* whether the worker process serves, stops or has ended

cvars == <<slot, verdict, lease, offered, mode>>

Verdicts == {"open", "published", "reported", "withdrawn", "rejected", "crashed"}
Leases   == {"unclaimed", "held", "accepted", "ended"}
Modes    == {"serving", "stopping", "halted"}

ContractTypeOK ==
    /\ slot \in Runs \cup {NoRun}
    /\ verdict \in [Runs -> Verdicts]
    /\ lease \in [Runs -> Leases]
    /\ offered \subseteq Runs
    /\ mode \in Modes

ContractInit ==
    /\ slot = NoRun
    /\ verdict = [r \in Runs |-> "open"]
    /\ lease = [r \in Runs |-> "unclaimed"]
    /\ offered = {}
    /\ mode = "serving"

\* The free slot takes a fresh run under a lease.
Take(r) ==
    /\ mode = "serving" /\ slot = NoRun
    /\ lease[r] = "unclaimed" /\ verdict[r] = "open"
    /\ slot' = r
    /\ lease' = [lease EXCEPT ![r] = "held"]
    /\ UNCHANGED <<verdict, offered, mode>>

\* The open run in the slot offers its artifacts to the API.
Offer(r) ==
    /\ slot = r /\ verdict[r] = "open" /\ mode = "serving"
    /\ offered' = offered \cup {r}
    /\ UNCHANGED <<slot, verdict, lease, mode>>

\* The API accepts what was offered. The offer may have been long on its
\* way: the run need not own the slot any more.
Accept(r) ==
    /\ r \in offered /\ lease[r] = "held"
    /\ lease' = [lease EXCEPT ![r] = "accepted"]
    /\ UNCHANGED <<slot, verdict, offered, mode>>

\* The lease expires, is cancelled, or ends with a failure report.
EndLease(r) ==
    /\ lease[r] = "held"
    /\ lease' = [lease EXCEPT ![r] = "ended"]
    /\ UNCHANGED <<slot, verdict, offered, mode>>

\* Success is claimed only for artifacts the API accepted; a run is dropped
\* without a report only if its lease is over or the worker is stopping.
Justified(r, v) ==
    \/ v = "published" /\ lease[r] = "accepted"
    \/ v = "reported"  /\ mode = "serving"
    \/ v = "withdrawn" /\ (lease[r] \in {"accepted", "ended"} \/ mode = "stopping")

Settle(r, v) ==
    /\ slot = r /\ verdict[r] = "open" /\ mode # "halted"
    /\ Justified(r, v)
    /\ verdict' = [verdict EXCEPT ![r] = v]
    /\ UNCHANGED <<slot, lease, offered, mode>>

\* The slot is given back, and the process may end with it.
Release(r) ==
    /\ slot = r /\ verdict[r] # "open"
    /\ slot' = NoRun
    /\ mode' \in {mode, "halted"}
    /\ UNCHANGED <<verdict, lease, offered>>

\* A claim for another release is refused: the worker ends, nothing is sent.
Reject(r) ==
    /\ slot = r /\ verdict[r] = "open" /\ r \notin offered
    /\ verdict' = [verdict EXCEPT ![r] = "rejected"]
    /\ slot' = NoRun /\ mode' = "halted"
    /\ UNCHANGED <<lease, offered>>

\* The process is killed, and perhaps started again with nothing of the run.
Crash(r) ==
    /\ slot = r /\ mode # "halted"
    /\ verdict' = [verdict EXCEPT ![r] = "crashed"]
    /\ slot' = NoRun /\ mode' \in {mode, "halted"}
    /\ UNCHANGED <<lease, offered>>

StopRequested ==
    /\ mode = "serving" /\ mode' = "stopping"
    /\ UNCHANGED <<slot, verdict, lease, offered>>

Stopped ==
    /\ mode = "stopping" /\ slot = NoRun /\ mode' = "halted"
    /\ UNCHANGED <<slot, verdict, lease, offered>>

ContractNext ==
    \/ \E r \in Runs : \/ Take(r) \/ Offer(r) \/ Accept(r) \/ EndLease(r)
                       \/ Release(r) \/ Reject(r) \/ Crash(r)
                       \/ \E v \in Verdicts : Settle(r, v)
    \/ StopRequested
    \/ Stopped

ContractSpec == ContractInit /\ [][ContractNext]_cvars
=============================================================================
