\* Two calls in turn: a dying child of the first meets the second. Three
\* threads are all CPUs there are, four are more than the policy allows.
CONSTANTS
    Calls = {c1, c2}
    NoBudget = NoBudget
    MaximumBudget = 3
    Budgets = {NoBudget, 2, 3, 4}
    LastCpu = 2
    Lists <- MCLists
SPECIFICATION FairProcess
INVARIANTS
    ResolvedIsFinished
    OneEngineWorks
    OnPermittedCpus
PROPERTIES
    EveryCallSettles
CHECK_DEADLOCK FALSE
