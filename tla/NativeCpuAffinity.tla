------------------------- MODULE NativeCpuAffinity -------------------------
(***************************************************************************)
(* nativeCpuInvocation (src/src/native-cpu-affinity.js): on which CPUs a   *)
(* native call runs, from the thread budget of the engine and the list the *)
(* kernel gives of those the worker may use.                               *)
(*                                                                         *)
(* A list is a sequence of ranges; one that cannot be read is empty.  Text *)
(* that is no range at all is left out: a range out of order fails alike.  *)
(***************************************************************************)
EXTENDS Integers, FiniteSets, SequencesExt

CONSTANTS NoBudget,      \* cpuAffinityCount null: no policy
          MaximumBudget  \* the 32 of nativeCpuInvocation

ASSUME BudgetAssumption == NoBudget \notin Nat /\ MaximumBudget \in Nat

Cpus(range) == [i \in 1..(range.last - range.first + 1) |-> range.first + i - 1]

\* Mutant: a range may begin with the CPU the one before it ends with.
AfterOrAt(list, k) == k = 1 \/ list[k].first >= list[k - 1].last

After(list, k) == k = 1 \/ list[k].first > list[k - 1].last

\* Every range is looked at, those behind the last selected CPU too.
WellFormed(list) == \A k \in DOMAIN list : list[k].first <= list[k].last /\ After(list, k)

\* The first CPUs of the list, as many as there are threads.
Selected(list, budget) ==
    LET all == FlattenSeq([k \in DOMAIN list |-> Cpus(list[k])])
    IN SubSeq(all, 1, IF budget <= Len(all) THEN budget ELSE Len(all))

Refused(list, budget) ==
    /\ budget # NoBudget
    /\ \/ budget \notin 1..MaximumBudget \/ list = <<>> \/ ~WellFormed(list)
       \/ Len(Selected(list, budget)) # budget

\* What taskset is told; nothing if the engine is called without it.
CpuList(list, budget) == IF budget = NoBudget THEN <<>> ELSE Selected(list, budget)

Permitted(list) == UNION {list[k].first..list[k].last : k \in DOMAIN list}
=============================================================================
