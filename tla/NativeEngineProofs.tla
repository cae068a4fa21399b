------------------------- MODULE NativeEngineProofs -------------------------
(* What modules NativeProcess and PreparedPrint promise of the native      *)
(* engine holds for any number of calls, and for any claim and whatever    *)
(* the engine prints for it.                                               *)
EXTENDS NativeProcess, PreparedPrint, GeometryProofs

\* Nothing is armed, nor was anything killed, before there is a child.
ArmedAfterSpawn ==
    \A c \in Calls : child[c] = "none" => c \notin timers /\ c \notin killed

\* Only the timeout and the abort kill, and each settles the call with it.
KilledIsGivenUp == \A c \in killed : outcome[c] \in {"timeout", "cancelled"}

\* A working child that is awaited has its timer, and so its listener.
AwaitedIsArmed ==
    \A c \in Calls : child[c] = "alive" /\ outcome[c] = "pending" => c \in timers

NewHasNoChild == \A c \in Calls : outcome[c] = "new" => child[c] = "none"

\* ResolvedIsFinished and OneEngineWorks are about a call whose child and
\* whose promise end independently: what is killed is already given up.
ProcessInv ==
    /\ ProcessTypeOK
    /\ ArmedAfterSpawn
    /\ KilledIsGivenUp
    /\ NewHasNoChild
    /\ AwaitedIsArmed
    /\ ResolvedIsFinished
    /\ OneEngineWorks

\* The invariant holds before the first call.
LEMMA InitEstablishes == ProcessInit => ProcessInv
  BY SMT DEF ProcessInit, ProcessInv, ProcessTypeOK, Settled, ArmedAfterSpawn, KilledIsGivenUp,
             NewHasNoChild, AwaitedIsArmed, ResolvedIsFinished, OneEngineWorks

\* Every event of the child, the timer and the job keeps the invariant.
LEMMA StepPreserves == ProcessInv /\ [ProcessNext]_processVars => ProcessInv'
  <1> SUFFICES ASSUME ProcessInv, [ProcessNext]_processVars
               PROVE  ProcessInv'
    OBVIOUS
  <1> USE DEF ProcessInv, ProcessTypeOK, Settled, ArmedAfterSpawn, KilledIsGivenUp,
              NewHasNoChild, AwaitedIsArmed, ResolvedIsFinished, OneEngineWorks
  <1>1. ASSUME NEW c \in Calls, Invoke(c)
        PROVE  ProcessInv'
    BY <1>1, SMT DEF cpuVars, Invoke
  <1>2. ASSUME NEW c \in Calls, AffinityFails(c)
        PROVE  ProcessInv'
    BY <1>2, SMT DEF cpuVars, AffinityFails, Starting
  <1>3. ASSUME NEW c \in Calls, CancelledBeforeSpawn(c)
        PROVE  ProcessInv'
    BY <1>3, SMT DEF cpuVars, CancelledBeforeSpawn, Starting
  <1>4. ASSUME NEW c \in Calls, Spawn(c)
        PROVE  ProcessInv'
    BY <1>4, SMT DEF Spawn, Starting
  <1>5. ASSUME NEW c \in Calls, StartFails(c)
        PROVE  ProcessInv'
    BY <1>5, SMT DEF cpuVars, StartFails, Finish
  <1>6. ASSUME NEW c \in Calls, ChildExits(c)
        PROVE  ProcessInv'
    BY <1>6, SMT DEF cpuVars, ChildExits
  <1>7. ASSUME NEW c \in Calls, Closes(c)
        PROVE  ProcessInv'
    BY <1>7, SMT DEF cpuVars, Closes, Finish
  <1>8. ASSUME NEW c \in Calls, TimesOut(c)
        PROVE  ProcessInv'
    BY <1>8, SMT DEF cpuVars, TimesOut, Kill, Finish
  <1>9. ASSUME NEW c \in Calls, JobAborts(c)
        PROVE  ProcessInv'
    <2>1. CASE c \in armed
      BY <1>9, <2>1, SMT DEF cpuVars, JobAborts, Kill, Finish
    <2>2. CASE c \notin armed
      BY <1>9, <2>2, SMT DEF cpuVars, JobAborts
    <2> QED BY <2>1, <2>2
  <1>10. CASE UNCHANGED processVars
    BY <1>10, SMT DEF cpuVars, processVars
  <1> QED
    BY <1>1, <1>2, <1>3, <1>4, <1>5, <1>6, <1>7, <1>8, <1>9, <1>10 DEF ProcessNext

\* The inductive invariant holds in every reachable state.
THEOREM ProcessInvariance == ProcessSpec => []ProcessInv
  BY InitEstablishes, StepPreserves, PTL DEF ProcessSpec

\* The state of every call stays within its type, and what is armed is
\* exactly what a pending call with a child armed.
THEOREM ProcessTypeCorrect == ProcessSpec => []ProcessTypeOK
  <1>1. ProcessInv => ProcessTypeOK
    BY DEF ProcessInv
  <1> QED BY <1>1, ProcessInvariance, PTL

\* Only a child that ended by itself with code 0 makes a call succeed,
\* whatever the timer and the job did meanwhile.
THEOREM SuccessIsGenuine == ProcessSpec => []ResolvedIsFinished
  <1>1. ProcessInv => ResolvedIsFinished
    BY DEF ProcessInv
  <1> QED BY <1>1, ProcessInvariance, PTL

\* No engine works for a call that was given up or a job that is aborted.
THEOREM NoOrphanWorks == ProcessSpec => []OneEngineWorks
  <1>1. ProcessInv => OneEngineWorks
    BY DEF ProcessInv
  <1> QED BY <1>1, ProcessInvariance, PTL

-----------------------------------------------------------------------------
(* The CPUs of a list.                                                     *)

\* Some CPUs in ascending order.
Ascending(s) == s \in Seq(Nat) /\ \A i, j \in DOMAIN s : i < j => s[i] < s[j]

Covers(s, list, k) ==
    /\ Ascending(s) /\ \A i \in DOMAIN s : s[i] <= list[k].last
    /\ ToSet(s) = UNION {list[j].first..list[j].last : j \in 1..k}

Ranges == [first : Nat, last : Nat]

\* Those of one range.
LEMMA CpusOfRange ==
  ASSUME NEW r \in Ranges, r.first <= r.last
  PROVE  Ascending(Cpus(r)) /\ ToSet(Cpus(r)) = r.first..r.last
  <1> DEFINE a == r.first
             z == r.last
             n == z - a + 1
  <1>1. a \in Nat /\ z \in Nat /\ a <= z
    BY DEF Ranges
  <1>2. Cpus(r) = [i \in 1..n |-> a + i - 1]
    BY DEF Cpus
  <1> HIDE DEF a, z
  <1>3. n \in Nat /\ \A i \in 1..n : a + i - 1 \in a..z
    BY <1>1
  <1>4. Cpus(r) \in Seq(Nat) /\ DOMAIN Cpus(r) = 1..n
    BY <1>1, <1>2, <1>3
  <1>5. \A i \in 1..n : Cpus(r)[i] = a + i - 1
    BY <1>2
  <1>6. Ascending(Cpus(r))
    BY <1>1, <1>3, <1>4, <1>5 DEF Ascending
  <1>7. \A cpu \in a..z : cpu - a + 1 \in 1..n /\ a + (cpu - a + 1) - 1 = cpu
    BY <1>1
  <1>8. ToSet(Cpus(r)) = a..z
    BY <1>3, <1>4, <1>5, <1>7 DEF ToSet
  <1> QED BY <1>6, <1>8 DEF a, z

\* The next range is appended to those before it.
LEMMA CoversOneMore ==
  ASSUME NEW list \in Seq(Ranges), NEW k \in Nat, k >= 1, k + 1 \in DOMAIN list,
         NEW s, Covers(s, list, k), NEW t, Ascending(t),
         ToSet(t) = list[k + 1].first..list[k + 1].last,
         list[k].last < list[k + 1].first, list[k + 1].first <= list[k + 1].last
  PROVE  Covers(s \o t, list, k + 1)
  <1> DEFINE u == s \o t
             m == Len(s)
             n == Len(t)
             a == list[k + 1].first
             z == list[k + 1].last
  <1>1. list[k].last \in Nat /\ a \in Nat /\ z \in Nat /\ list[k].last < a /\ a <= z
    <2>1. k \in DOMAIN list
      OBVIOUS
    <2>2. list[k] \in Ranges /\ list[k + 1] \in Ranges
      BY <2>1
    <2> QED BY <2>2 DEF Ranges
  <1>2. /\ m \in Nat /\ n \in Nat /\ DOMAIN s = 1..m /\ DOMAIN t = 1..n
        /\ u \in Seq(Nat) /\ DOMAIN u = 1..(m + n)
        /\ \A i \in 1..m : u[i] = s[i]
        /\ \A i \in 1..n : u[m + i] = t[i]
    <2>1. s \in Seq(Nat) /\ t \in Seq(Nat)
      BY DEF Covers, Ascending
    <2>2. u \in Seq(Nat) /\ Len(u) = m + n /\ \A i \in 1..n : u[m + i] = t[i]
      BY <2>1, Behind
    <2>3. m \in Nat /\ n \in Nat /\ DOMAIN s = 1..m /\ DOMAIN t = 1..n
      BY <2>1
    <2>4. \A i \in 1..m : u[i] = s[i]
      BY <2>1
    <2>5. DOMAIN u = 1..(m + n)
      <3> HIDE DEF u, m, n
      <3> QED BY <2>2, <2>3
    <2> QED BY <2>2, <2>3, <2>4, <2>5
  <1>3. \A i \in 1..n : t[i] \in a..z
    BY <1>2 DEF ToSet
  <1>4. \A i \in 1..m : s[i] \in Nat /\ s[i] <= list[k].last
    <2>1. s \in Seq(Nat) /\ \A i \in DOMAIN s : s[i] <= list[k].last
      BY DEF Covers, Ascending
    <2>2. \A i \in DOMAIN s : s[i] \in Nat
      BY <2>1
    <2> QED BY <1>2, <2>1, <2>2
  <1> HIDE DEF u, a, z, m, n
  <1>5. \A i \in DOMAIN u : i \in 1..m \/ (i - m \in 1..n /\ u[i] = t[i - m])
    <2> TAKE i \in DOMAIN u
    <2>1. CASE i \in 1..m
      BY <2>1
    <2>2. CASE i \notin 1..m
      <3>1. i - m \in 1..n /\ m + (i - m) = i
        BY <1>2, <2>2
      <3>2. u[m + (i - m)] = t[i - m]
        BY <1>2, <3>1
      <3> QED BY <3>1, <3>2
    <2> QED BY <2>1, <2>2
  <1>6. \A i \in DOMAIN u : i \in Nat
    BY <1>2
  <1>7. Ascending(u)
    <2> SUFFICES ASSUME NEW i \in DOMAIN u, NEW j \in DOMAIN u, i < j PROVE u[i] < u[j]
      BY <1>2 DEF Ascending
    <2>1. CASE j \in 1..m
      <3>1. i \in 1..m
        BY <1>2, <1>6, <2>1
      <3>2. s[i] < s[j]
        BY <1>2, <2>1, <3>1 DEF Covers, Ascending
      <3> QED BY <1>2, <2>1, <3>1, <3>2
    <2>2. CASE i \in 1..m /\ j \notin 1..m
      <3>1. u[i] <= list[k].last /\ u[i] \in Nat
        BY <1>2, <1>4, <2>2
      <3>2. u[j] \in a..z
        BY <1>3, <1>5, <2>2
      <3> QED BY <1>1, <3>1, <3>2
    <2>3. CASE i \notin 1..m /\ j \notin 1..m
      <3>1. /\ i - m \in 1..n /\ j - m \in 1..n /\ u[i] = t[i - m] /\ u[j] = t[j - m]
        BY <1>5, <2>3
      <3>2. i - m < j - m
        BY <1>2, <1>6
      <3> QED BY <1>2, <3>1, <3>2 DEF Ascending
    <2> QED BY <2>1, <2>2, <2>3
  <1>8. \A i \in DOMAIN u : u[i] <= z
    <2> TAKE i \in DOMAIN u
    <2>1. CASE i \in 1..m
      <3>1. u[i] = s[i] /\ s[i] \in Nat /\ s[i] <= list[k].last
        BY <1>2, <1>4, <2>1
      <3> QED BY <1>1, <3>1
    <2>2. CASE i \notin 1..m
      <3>1. u[i] \in a..z
        BY <1>3, <1>5, <2>2
      <3> QED BY <3>1
    <2> QED BY <2>1, <2>2
  <1>9. ToSet(u) = ToSet(s) \cup ToSet(t)
    <2>1. \A i \in DOMAIN u : u[i] \in ToSet(s) \cup ToSet(t)
      BY <1>2, <1>5 DEF ToSet
    <2>2. \A i \in DOMAIN s : i \in DOMAIN u /\ u[i] = s[i]
      BY <1>2
    <2>3. \A i \in DOMAIN t : m + i \in DOMAIN u /\ u[m + i] = t[i]
      BY <1>2
    <2> QED BY <2>1, <2>2, <2>3 DEF ToSet
  <1>10. ToSet(u) = UNION {list[j].first..list[j].last : j \in 1..(k + 1)}
    <2> DEFINE cpusOf(j) == list[j].first..list[j].last
    <2>1. ToSet(s) = UNION {cpusOf(j) : j \in 1..k} /\ ToSet(t) = cpusOf(k + 1)
      BY DEF Covers
    <2>2. 1..(k + 1) = (1..k) \cup {k + 1}
      OBVIOUS
    <2> HIDE DEF cpusOf
    <2>3. ToSet(u) = UNION {cpusOf(j) : j \in 1..(k + 1)}
      BY <1>9, <2>1, <2>2
    <2> QED BY <2>3 DEF cpusOf
  <1> QED BY <1>7, <1>8, <1>10 DEF Covers, u, z

\* A list that is accepted names its CPUs in ascending order, each once.
LEMMA AllCpus ==
  ASSUME NEW list \in Seq(Ranges), list # <<>>, WellFormed(list)
  PROVE  LET all == FlattenSeq([k \in DOMAIN list |-> Cpus(list[k])])
         IN  Ascending(all) /\ ToSet(all) = Permitted(list)
  <1> DEFINE seqs == [k \in DOMAIN list |-> Cpus(list[k])]
             n == Len(list)
  <1>1. n \in Nat /\ n >= 1 /\ DOMAIN list = 1..n /\ \A k \in 1..n : list[k] \in Ranges
    OBVIOUS
  <1>2. ASSUME NEW k \in 1..n
        PROVE  /\ Ascending(Cpus(list[k])) /\ ToSet(Cpus(list[k])) = list[k].first..list[k].last
               /\ list[k].first <= list[k].last /\ Cpus(list[k]) \in Seq(Nat)
    <2>1. list[k] \in Ranges /\ list[k].first <= list[k].last
      BY <1>1 DEF WellFormed
    <2> QED BY <2>1, CpusOfRange DEF Ascending
  <1>3. seqs \in Seq(Seq(Nat)) /\ Len(seqs) = n /\ seqs # <<>>
    BY <1>1, <1>2
  <1>4. \A k \in 1..n : seqs[k] = Cpus(list[k])
    BY <1>1
  <1> HIDE DEF seqs, n
  <1>5. PICK f : Joined(seqs, f) /\ FlattenSeq(seqs) = f[n]
    BY <1>3, FlattenRecursion
  <1> DEFINE T == {k \in Nat : k + 1 <= n => Covers(f[k + 1], list, k + 1)}
  <1>6. 0 \in T
    <2>1. f[1] = Cpus(list[1]) /\ 1 \in 1..n
      BY <1>1, <1>4, <1>5 DEF Joined
    <2>2. Ascending(f[1]) /\ ToSet(f[1]) = list[1].first..list[1].last
      BY <1>2, <2>1
    <2>3. \A i \in DOMAIN f[1] : f[1][i] \in list[1].first..list[1].last
      BY <2>2 DEF ToSet
    <2>4. list[1].first \in Nat /\ list[1].last \in Nat
      BY <1>1, <2>1 DEF Ranges
    <2>5. UNION {list[j].first..list[j].last : j \in 1..1} = list[1].first..list[1].last
      <3>1. 1..1 = {1}
        OBVIOUS
      <3> QED BY <3>1
    <2>6. Covers(f[1], list, 1)
      BY <2>2, <2>3, <2>4, <2>5 DEF Covers
    <2> QED BY <2>6
  <1>7. ASSUME NEW k \in T PROVE k + 1 \in T
    <2>1. k \in Nat /\ k + 1 \in Nat
      OBVIOUS
    <2>2. ASSUME k + 2 <= n PROVE Covers(f[k + 2], list, k + 2)
      <3> DEFINE m == k + 1
      <3>1. m \in Nat /\ m >= 1 /\ m + 1 = k + 2 /\ m \in 1..n /\ m + 1 \in 1..n /\ m + 1 \in 2..n /\ (m + 1) - 1 = m
        BY <1>1, <2>1, <2>2
      <3>2. Covers(f[m], list, m)
        BY <2>1, <2>2, <1>1
      <3> HIDE DEF m
      <3>3. f[m + 1] = f[m] \o Cpus(list[m + 1])
        BY <1>3, <1>4, <1>5, <3>1 DEF Joined
      <3>4. list[m].last < list[m + 1].first
        <4>1. After(list, m + 1) /\ m + 1 # 1
          BY <1>1, <3>1 DEF WellFormed
        <4>2. list[m + 1].first > list[m].last
          BY <3>1, <4>1 DEF After
        <4>3. list[m + 1].first \in Nat /\ list[m].last \in Nat
          BY <1>1, <3>1 DEF Ranges
        <4> QED BY <4>2, <4>3
      <3>5. /\ Ascending(Cpus(list[m + 1])) /\ list[m + 1].first <= list[m + 1].last
            /\ ToSet(Cpus(list[m + 1])) = list[m + 1].first..list[m + 1].last
            /\ m + 1 \in DOMAIN list
        BY <1>1, <1>2, <3>1
      <3>6. Covers(f[m + 1], list, m + 1)
        BY <3>1, <3>2, <3>3, <3>4, <3>5, CoversOneMore
      <3> QED BY <3>1, <3>6
    <2>3. (k + 1) + 1 = k + 2
      BY <2>1
    <2> HIDE DEF T
    <2>4. k + 2 <= n => k + 1 <= n
      BY <2>1, <1>1
    <2> QED BY <2>1, <2>2, <2>3 DEF T
  <1>8. T = Nat
    <2> HIDE DEF T
    <2>1. T \subseteq Nat
      BY DEF T
    <2> QED BY <1>6, <1>7, <2>1, AllNat
  <1>9. Covers(f[n], list, n)
    <2>1. n - 1 \in Nat /\ (n - 1) + 1 = n
      BY <1>1
    <2>2. n - 1 \in T
      BY <1>8, <2>1
    <2> QED BY <2>1, <2>2
  <1>10. Ascending(FlattenSeq(seqs)) /\ ToSet(FlattenSeq(seqs)) = Permitted(list)
    BY <1>1, <1>5, <1>9 DEF Covers, Permitted
  <1> QED BY <1>10 DEF seqs

\* What one call is bound to, if it is bound at all.
Bound(cpuList, list) ==
    LET own == ToSet(cpuList)
    IN /\ Cardinality(own) = budget /\ own \subseteq Permitted(list)
       /\ \A cpu \in Permitted(list) \ own : \A mine \in own : mine < cpu

\* The first CPUs of a list that is not refused are the lowest, one per thread.
LEMMA SelectedAreLowest ==
  ASSUME NEW list \in Seq(Ranges), budget # NoBudget, ~Refused(list, budget)
  PROVE  Bound(Selected(list, budget), list)
  <1> DEFINE all == FlattenSeq([k \in DOMAIN list |-> Cpus(list[k])])
             own == SubSeq(all, 1, IF budget <= Len(all) THEN budget ELSE Len(all))
  <1>1. /\ budget \in Nat /\ budget >= 1 /\ list # <<>> /\ WellFormed(list)
        /\ Len(Selected(list, budget)) = budget
    BY BudgetAssumption DEF Refused, BudgetAssumption
  <1>2. Ascending(all) /\ ToSet(all) = Permitted(list)
    BY <1>1, AllCpus
  <1>3. Selected(list, budget) = own
    BY DEF Selected
  <1> HIDE DEF all
  <1>4. all \in Seq(Nat) /\ Len(all) \in Nat /\ DOMAIN all = 1..Len(all)
    BY <1>2 DEF Ascending
  <1>5. budget <= Len(all)
    <2>1. CASE ~(budget <= Len(all))
      <3>1. own = SubSeq(all, 1, Len(all)) /\ Len(own) = Len(all)
        BY <1>4, <2>1
      <3> HIDE DEF own
      <3>2. Len(own) = budget
        BY <1>1, <1>3
      <3> QED BY <1>4, <3>1, <3>2
    <2> QED BY <2>1
  <1>6. DOMAIN own = 1..budget /\ \A i \in 1..budget : own[i] = all[i] /\ i \in DOMAIN all
    <2>1. own = SubSeq(all, 1, budget)
      BY <1>5
    <2> HIDE DEF own
    <2> QED BY <1>1, <1>4, <1>5, <2>1
  <1> HIDE DEF own
  <1>7. \A i, j \in 1..Len(all) : i < j => all[i] < all[j]
    BY <1>2, <1>4 DEF Ascending
  <1>8. \A i \in 1..Len(all) : all[i] \in Nat
    BY <1>4
  <1>9. Cardinality(ToSet(own)) = budget
    <2> DEFINE f == [i \in 1..budget |-> all[i]]
    <2>1. ToSet(own) = {f[i] : i \in 1..budget}
      BY <1>6 DEF ToSet
    <2>2. \A i, j \in 1..budget : f[i] = f[j] => i = j
      <3> SUFFICES ASSUME NEW i \in 1..budget, NEW j \in 1..budget, i < j PROVE all[i] # all[j]
        BY <1>1
      <3>1. i \in 1..Len(all) /\ j \in 1..Len(all)
        BY <1>4, <1>6
      <3> QED BY <1>7, <1>8, <3>1
    <2>3. f \in Bijection(1..budget, ToSet(own))
      BY <2>1, <2>2 DEF Bijection, Injection, Surjection, IsInjective
    <2> QED BY <1>1, <2>3, FS_CountingElements DEF ExistsBijection
  <1>10. ToSet(own) \subseteq Permitted(list)
    BY <1>2, <1>6 DEF ToSet
  <1>11. ASSUME NEW cpu \in Permitted(list) \ ToSet(own), NEW mine \in ToSet(own)
         PROVE  mine < cpu
    <2>1. PICK j \in 1..Len(all) : cpu = all[j]
      BY <1>2, <1>4 DEF ToSet
    <2>2. PICK i \in 1..budget : mine = all[i]
      BY <1>6 DEF ToSet
    <2>3. j \notin 1..budget
      <3>1. ASSUME j \in 1..budget PROVE FALSE
        <4>1. own[j] = cpu /\ j \in DOMAIN own
          BY <1>6, <2>1, <3>1
        <4> QED BY <4>1 DEF ToSet
      <3> QED BY <3>1
    <2>4. i < j /\ i \in 1..Len(all)
      BY <1>1, <1>4, <1>5, <2>3
    <2> QED BY <1>7, <2>1, <2>2, <2>4
  <1> QED BY <1>3, <1>9, <1>10, <1>11 DEF Bound

\* What a child was bound to is what the list said that its call read.
BoundAsRead ==
    \A c \in Calls : child[c] # "none" =>
        IF budget = NoBudget THEN cpus[c] = <<>>
        ELSE /\ listed[c] \in Lists /\ ~Refused(listed[c], budget)
             /\ cpus[c] = Selected(listed[c], budget)

\* A child keeps the CPUs it was started with.
LEMMA StepBinds == ProcessInv /\ BoundAsRead /\ [ProcessNext]_processVars => BoundAsRead'
  <1> SUFFICES ASSUME ProcessInv, BoundAsRead, [ProcessNext]_processVars PROVE BoundAsRead'
    OBVIOUS
  <1>0. child \in [Calls -> {"none", "unstarted", "alive", "exited", "closed"}]
        /\ DOMAIN cpus = Calls /\ DOMAIN listed = Calls
    BY DEF ProcessInv, ProcessTypeOK
  <1>1. ASSUME NEW c \in Calls, Spawn(c) PROVE BoundAsRead'
    <2>1. PICK list \in Lists :
            /\ ~Refused(list, budget)
            /\ listed' = [listed EXCEPT ![c] = IF budget = NoBudget THEN <<>> ELSE list]
            /\ cpus' = [cpus EXCEPT ![c] = CpuList(list, budget)]
      BY <1>1 DEF Spawn
    <2>2. /\ \A d \in Calls \ {c} : child'[d] = child[d] /\ listed'[d] = listed[d] /\ cpus'[d] = cpus[d]
          /\ budget' = budget
      BY <1>0, <1>1, <2>1 DEF Spawn
    <2>3. /\ cpus'[c] = CpuList(list, budget)
          /\ budget # NoBudget => listed'[c] = list
      BY <1>0, <2>1
    <2>4. IF budget = NoBudget THEN cpus'[c] = <<>>
          ELSE listed'[c] \in Lists /\ ~Refused(listed'[c], budget) /\ cpus'[c] = Selected(listed'[c], budget)
      BY <2>1, <2>3 DEF CpuList
    <2> QED BY <2>2, <2>4 DEF BoundAsRead
  <1>2. ASSUME UNCHANGED cpuVars, \A d \in Calls : child'[d] # "none" => child[d] # "none"
        PROVE  BoundAsRead'
    BY <1>2 DEF BoundAsRead, cpuVars
  <1>3. ASSUME NEW c \in Calls, StartFails(c) \/ ChildExits(c) \/ Closes(c) PROVE BoundAsRead'
    <2>1. UNCHANGED cpuVars /\ child[c] # "none"
          /\ \A d \in Calls : d # c => child'[d] = child[d]
      BY <1>0, <1>3 DEF StartFails, ChildExits, Closes
    <2> QED BY <1>2, <2>1
  <1>4. ASSUME UNCHANGED <<child, cpuVars>> PROVE BoundAsRead'
    BY <1>2, <1>4
  <1> QED
    BY <1>1, <1>3, <1>4
    DEF ProcessNext, Invoke, AffinityFails, CancelledBeforeSpawn, TimesOut, JobAborts, processVars

\* Every child of a worker with a thread budget has as many CPUs, the lowest
\* of those the kernel permitted when its call was made (nativeCpuInvocation),
\* for every list and every budget.
THEOREM BoundToPermitted == ProcessSpec => []OnPermittedCpus
  <1>1. ProcessInit => BoundAsRead
    BY DEF ProcessInit, BoundAsRead
  <1>2. BoundAsRead => OnPermittedCpus
    <2> SUFFICES ASSUME BoundAsRead, NEW c \in Calls, child[c] # "none", budget # NoBudget
                 PROVE  Bound(cpus[c], listed[c])
      BY DEF OnPermittedCpus, Bound, BoundAsRead
    <2>1. /\ listed[c] \in Lists /\ ~Refused(listed[c], budget)
          /\ cpus[c] = Selected(listed[c], budget)
      BY DEF BoundAsRead
    <2>2. listed[c] \in Seq(Ranges)
      BY <2>1, ListsAssumption DEF Ranges
    <2> QED BY <2>1, <2>2, SelectedAreLowest
  <1> QED BY <1>1, <1>2, StepBinds, ProcessInvariance, PTL DEF ProcessSpec

-----------------------------------------------------------------------------
(* The profile of a run.                                                   *)

LEMMA PhasesGrow ==
  ASSUME NEW steps, Len(steps) \in Nat
  PROVE  /\ Phases(steps, 0) = <<>>
         /\ \A n \in 1..Len(steps) :
               Phases(steps, n) = IF steps[n] \in Outside THEN Phases(steps, n - 1)
                                  ELSE Append(Phases(steps, n - 1), steps[n])
  <1> DEFINE m == Len(steps)
             X == {steps[i] : i \in 1..m}
             grow == [i \in 1..m |-> [s \in Seq(X) |->
                         IF steps[i] \in Outside THEN s ELSE Append(s, steps[i])]]
             body(f) == [k \in 0..m |-> IF k = 0 THEN <<>>
                                        ELSE IF steps[k] \in Outside THEN f[k - 1]
                                        ELSE Append(f[k - 1], steps[k])]
             phases == CHOOSE f : f = body(f)
  <1>1. m \in Nat /\ \A i \in 1..m : steps[i] \in X
    OBVIOUS
  <1>2. grow \in [1..m -> [Seq(X) -> Seq(X)]]
    <2> HIDE DEF m, X
    <2>1. ASSUME NEW i \in 1..m, NEW s \in Seq(X)
          PROVE  (IF steps[i] \in Outside THEN s ELSE Append(s, steps[i])) \in Seq(X)
      <3>1. steps[i] \in X
        BY <1>1
      <3>2. Append(s, steps[i]) \in Seq(X)
        BY <3>1, AppendProperties
      <3> QED BY <3>2
    <2> QED BY <2>1
  <1>3. <<>> \in Seq(X)
    <2> HIDE DEF X
    <2> QED OBVIOUS
  <1>4. PICK g : Iterates(g, m, Seq(X), <<>>, grow)
    <2> HIDE DEF m, X, grow
    <2> QED BY <1>1, <1>2, <1>3, RecursionUpTo
  <1>5. g = body(g)
    <2> HIDE DEF m, X
    <2>1. g \in [0..m -> Seq(X)] /\ g[0] = <<>>
      BY <1>4 DEF Iterates
    <2>2. \A k \in 1..m : k - 1 \in 0..m /\ k \in 0..m /\ k # 0
      BY <1>1
    <2>3. \A k \in 1..m : g[k] = IF steps[k] \in Outside THEN g[k - 1]
                                 ELSE Append(g[k - 1], steps[k])
      BY <1>4, <2>1, <2>2 DEF Iterates
    <2>4. \A k \in 0..m : k = 0 \/ k \in 1..m
      BY <1>1
    <2>5. \A k \in 0..m : g[k] = body(g)[k]
      BY <2>1, <2>2, <2>3, <2>4
    <2> QED BY <2>1, <2>5
  <1>6. phases = body(phases)
    <2> HIDE DEF body
    <2> QED BY <1>5
  <1>7. \A n : Phases(steps, n) = phases[n]
    BY DEF Phases
  <1> HIDE DEF phases, m, X
  <1>8. phases[0] = <<>>
    <2>1. 0 \in 0..m
      BY <1>1
    <2> QED BY <1>6, <2>1
  <1>9. \A n \in 1..m : phases[n] = IF steps[n] \in Outside THEN phases[n - 1]
                                    ELSE Append(phases[n - 1], steps[n])
    <2>1. \A n \in 1..m : n \in 0..m /\ n # 0
      BY <1>1
    <2> QED BY <1>6, <2>1
  <1> QED BY <1>7, <1>8, <1>9 DEF m

LEMMA StepsType == \A engine : Len(Steps(engine)) \in Nat /\ Len(Steps(engine)) >= 1
  BY DEF Steps

\* What a profile tells of n steps that ended and of the one that threw.
Event(ended, steps, n, failed) ==
    [outcome |-> ended, profile |-> [completed |-> Phases(steps, n), failedPhase |-> failed]]

Thrown(steps, n) == IF steps[n] \in Outside THEN None ELSE steps[n]

\* Which profile goes with which phase of the run.
ProfileInv ==
    LET steps == Steps(claim.engine)
        succeeded == <<Event("completed", steps, LastStep, None)>>
    IN /\ step \in 0..(LastStep + 1)
       /\ pc \in {"claimed", "preparing"} =>
             step = 0 /\ completed = <<>> /\ failedPhase = None /\ logged = <<>>
       /\ pc = "engine" =>
             /\ step \in 1..LastStep /\ logged = <<>>
             /\ completed = Phases(steps, step - 1) /\ failedPhase = None
       /\ pc \in {"compiling", "publishing", "done"} =>
             step = LastStep + 1 /\ logged = succeeded
       /\ pc = "failed" =>
             \/ step = 0 /\ logged = <<>>
             \/ step = LastStep + 1 /\ logged = succeeded
             \/ /\ step \in 1..LastStep
                /\ logged = <<Event("failed", steps, step - 1, Thrown(steps, step))>>
       /\ pc \in {"claimed", "preparing", "engine", "compiling", "publishing", "done", "failed"}

LEMMA InitProfiled == Init => ProfileInv
  BY PhasesGrow, StepsType DEF Init, ProfileInv, LastStep

\* The catch block records what it was in.
LEMMA ThrowProfiled ==
  ASSUME ProfileInv, Throw, pc \notin {"done", "failed"}
  PROVE  ProfileInv'
  <1> DEFINE steps == Steps(claim.engine)
  <1>1. LastStep \in Nat /\ LastStep >= 1 /\ LastStep' = LastStep
    BY StepsType DEF LastStep, Throw
  <1>2. claim' = claim /\ step' = step /\ completed' = completed /\ pc' = "failed"
    BY DEF Throw
  <1>3. steps' = steps
    BY <1>2
  <1>4. CASE pc \in {"claimed", "preparing"}
    <2>1. step = 0 /\ logged' = <<>>
      BY <1>4 DEF ProfileInv, Throw, Log
    <2> QED BY <1>1, <1>2, <1>3, <2>1 DEF ProfileInv
  <1>5. CASE pc = "engine"
    <2>1. /\ step \in 1..LastStep /\ logged = <<>> /\ completed = Phases(steps, step - 1)
          /\ failedPhase = None
      BY <1>5 DEF ProfileInv
    <2>2. failedPhase' = Thrown(steps, step)
      BY <1>5, <2>1 DEF Throw, Thrown, Now
    <2>3. step # 0
      BY <1>1, <2>1
    <2>4. logged' = Append(logged, [outcome |-> "failed", profile |-> Profile])
      BY <2>1, <2>3 DEF Throw, Log
    <2>5. logged' = <<Event("failed", steps, step - 1, Thrown(steps, step))>>
      BY <1>2, <2>1, <2>2, <2>4 DEF Event, Profile
    <2>6. step \in 0..(LastStep + 1)
      BY <1>1, <2>1
    <2> HIDE DEF steps
    <2> QED BY <1>1, <1>2, <1>3, <2>1, <2>5, <2>6 DEF ProfileInv, steps
  <1>6. CASE pc \in {"compiling", "publishing"}
    <2>1. step = LastStep + 1 /\ logged = <<Event("completed", steps, LastStep, None)>>
      BY <1>6 DEF ProfileInv
    <2>2. step # 0 /\ step \in 0..(LastStep + 1)
      BY <1>1, <2>1
    <2>3. logged' = logged
      BY <2>1, <2>2 DEF Throw, Log
    <2> HIDE DEF steps
    <2> QED BY <1>1, <1>2, <1>3, <2>1, <2>2, <2>3 DEF ProfileInv, steps
  <1> QED BY <1>4, <1>5, <1>6 DEF ProfileInv

LEMMA StepProfiled == ProfileInv /\ [Next]_vars => ProfileInv'
  <1> SUFFICES ASSUME ProfileInv, [Next]_vars PROVE ProfileInv'
    OBVIOUS
  <1> DEFINE steps == Steps(claim.engine)
  <1>0. LastStep \in Nat /\ LastStep >= 1 /\ LastStep = Len(steps)
    BY StepsType DEF LastStep
  <1>1. CASE Throw /\ pc \notin {"done", "failed"}
    BY <1>1, ThrowProfiled
  <1>2. ASSUME UNCHANGED <<claim, step, completed, failedPhase, logged>>,
               \/ pc' = pc
               \/ pc = "claimed" /\ pc' = "preparing"
               \/ pc = "compiling" /\ pc' = "publishing"
               \/ pc = "publishing" /\ pc' = "done"
        PROVE  ProfileInv'
    BY <1>2 DEF ProfileInv, LastStep
  <1>3. CASE Package
    <2>1. /\ pc = "preparing" /\ pc' = "engine" /\ step' = 1 /\ claim' = claim
          /\ completed' = completed /\ failedPhase' = failedPhase /\ logged' = logged
      BY <1>3 DEF Package
    <2>2. completed = <<>> /\ failedPhase = None /\ logged = <<>>
      BY <2>1 DEF ProfileInv
    <2>3. completed' = Phases(steps, 0)
      BY <2>1, <2>2, PhasesGrow, StepsType
    <2>4. step' - 1 = 0 /\ step' \in 1..LastStep /\ step' \in 0..(LastStep + 1)
      BY <1>0, <2>1
    <2>5. LastStep' = LastStep /\ steps' = steps
      BY <2>1 DEF LastStep
    <2> HIDE DEF steps
    <2> QED BY <2>1, <2>2, <2>3, <2>4, <2>5 DEF ProfileInv, steps
  <1>4. ASSUME pc = "engine", Completes, step' = step + 1, claim' = claim
        PROVE  /\ completed' = Phases(steps, step) /\ failedPhase' = None
               /\ step \in 1..LastStep /\ logged = <<>>
               /\ LastStep' = LastStep /\ steps' = steps
    <2>1. /\ step \in 1..LastStep /\ logged = <<>> /\ completed = Phases(steps, step - 1)
          /\ failedPhase = None
      BY <1>4 DEF ProfileInv
    <2>2. step \in 1..Len(steps)
      BY <1>0, <2>1
    <2>3. Phases(steps, step) = IF steps[step] \in Outside THEN Phases(steps, step - 1)
                                ELSE Append(Phases(steps, step - 1), steps[step])
      BY <2>2, PhasesGrow, StepsType
    <2>4. completed' = Phases(steps, step) /\ failedPhase' = None
      BY <1>4, <2>1, <2>3 DEF Completes, Now
    <2> QED BY <1>4, <2>1, <2>4 DEF LastStep
  <1>5. CASE EngineStep
    <2>1. /\ pc = "engine" /\ pc' = pc /\ Completes /\ step' = step + 1 /\ claim' = claim
          /\ logged' = logged /\ step < LastStep
      BY <1>5 DEF EngineStep
    <2>2. /\ completed' = Phases(steps, step) /\ failedPhase' = None
          /\ step \in 1..LastStep /\ logged = <<>> /\ LastStep' = LastStep /\ steps' = steps
      BY <1>4, <2>1
    <2>3. step' - 1 = step /\ step' \in 1..LastStep /\ step' \in 0..(LastStep + 1)
      BY <1>0, <2>1, <2>2
    <2> HIDE DEF steps
    <2> QED BY <2>1, <2>2, <2>3 DEF ProfileInv, steps
  <1>6. CASE EndOfFile /\ ~Throw
    <2>1. /\ pc = "engine" /\ step = LastStep /\ Completes /\ step' = step + 1 /\ claim' = claim
          /\ pc' = "compiling" /\ Log("completed")
      BY <1>6 DEF EndOfFile
    <2>2. /\ completed' = Phases(steps, step) /\ failedPhase' = None
          /\ step \in 1..LastStep /\ logged = <<>> /\ LastStep' = LastStep /\ steps' = steps
      BY <1>4, <2>1
    <2>3. logged' = <<[outcome |-> "completed", profile |-> Profile]>>
      BY <1>0, <2>1, <2>2 DEF Log
    <2>4. logged' = <<Event("completed", steps, LastStep, None)>>
      BY <2>1, <2>2, <2>3 DEF Profile, Event
    <2>5. step' = LastStep + 1 /\ step' \in 0..(LastStep + 1)
      BY <1>0, <2>1
    <2> HIDE DEF steps
    <2> QED BY <2>1, <2>2, <2>4, <2>5 DEF ProfileInv, steps
  <1> USE DEF profileVars
  <1>7. CASE Validate
    BY <1>1, <1>2, <1>7 DEF Validate
  <1>8. CASE PrepareObject
    BY <1>2, <1>8 DEF PrepareObject, Sliced
  <1>9. CASE SharePaint
    BY <1>2, <1>9 DEF SharePaint, Sliced
  <1>10. CASE PaintObject
    BY <1>2, <1>10 DEF PaintObject, Sliced
  <1>11. CASE ReadLine
    <2>1. pc = "engine"
      BY <1>11 DEF ReadLine
    <2> QED BY <1>1, <1>2, <1>11, <2>1 DEF ReadLine
  <1>12. CASE EndOfFile /\ Throw
    BY <1>1, <1>12 DEF EndOfFile
  <1>13. CASE CompileChunk
    BY <1>2, <1>13 DEF CompileChunk
  <1>14. CASE Manifest
    BY <1>2, <1>14 DEF Manifest
  <1>15. CASE Publish
    BY <1>2, <1>15 DEF Publish
  <1>16. CASE Fails
    BY <1>1, <1>16 DEF Fails
  <1>17. CASE UNCHANGED vars
    BY <1>2, <1>17 DEF vars
  <1> QED
    BY <1>3, <1>5, <1>6, <1>7, <1>8, <1>9, <1>10, <1>11, <1>12, <1>13, <1>14, <1>15, <1>16,
       <1>17 DEF Next

THEOREM ProfileInvariance == Spec => []ProfileInv
  BY InitProfiled, StepProfiled, PTL DEF Spec

\* One event per run that reached its engine, and it tells which phases
\* ended and which one threw, wherever the run fails.
THEOREM ProfileIsTrue == Spec => []OneTrueProfile
  <1> DEFINE steps == Steps(claim.engine)
  <1>1. ASSUME ProfileInv PROVE OneTrueProfile
    <2>0. LastStep \in Nat /\ LastStep >= 1
      BY StepsType DEF LastStep
    <2>1. ASSUME NEW ended, NEW n, NEW failed, logged = <<Event(ended, steps, n, failed)>>
          PROVE  /\ Len(logged) = 1 /\ logged[1].outcome = ended
                 /\ logged[1].profile.completed = Phases(steps, n)
                 /\ logged[1].profile.failedPhase = failed
      BY <2>1 DEF Event
    <2>2. CASE step = LastStep + 1 /\ logged = <<Event("completed", steps, LastStep, None)>>
      <3>1. step > LastStep /\ ~(step <= LastStep) /\ step - 1 = LastStep /\ step # 0
        BY <2>0, <2>2
      <3>2. pc \notin {"claimed", "preparing", "engine"}
        BY <1>1, <2>0, <2>2 DEF ProfileInv
      <3> HIDE DEF steps
      <3> QED BY <2>1, <2>2, <3>1, <3>2 DEF OneTrueProfile, Finished, steps
    <2>3. CASE /\ step \in 1..LastStep /\ pc = "failed"
               /\ logged = <<Event("failed", steps, step - 1, Thrown(steps, step))>>
      <3>1. ~(step > LastStep) /\ step <= LastStep /\ step # 0
        BY <2>0, <2>3
      <3>2. Thrown(steps, step) = IF step <= LastStep /\ Now \notin Outside THEN Now ELSE None
        BY <3>1 DEF Thrown, Now
      <3> HIDE DEF steps
      <3> QED BY <2>1, <2>3, <3>1, <3>2 DEF OneTrueProfile, Finished, steps
    <2>4. CASE step = 0 /\ logged = <<>>
      BY <1>1, <2>0, <2>4 DEF OneTrueProfile, ProfileInv
    <2>5. CASE pc = "engine"
      BY <1>1, <2>5 DEF OneTrueProfile, ProfileInv
    <2> QED BY <1>1, <2>2, <2>3, <2>4, <2>5 DEF ProfileInv
  <1> QED BY <1>1, ProfileInvariance, PTL

-----------------------------------------------------------------------------
(* Texts and their pieces.                                                 *)

\* What stands between two ends of lines is from L.
Pieces(L) == [done : Seq(Seq(L)), open : Seq(L), cr : BOOLEAN]

LineEnd == {CR, LF}

LEMMA FeedCases ==
  ASSUME NEW p, NEW c
  PROVE  /\ c = CR => Feed(p, c) = Separate(p, TRUE)
         /\ c = LF /\ p.cr => Feed(p, c) = [p EXCEPT !.cr = FALSE]
         /\ c = LF /\ ~p.cr => Feed(p, c) = Separate(p, FALSE)
         /\ c \notin LineEnd => Feed(p, c) = Extend(p, c)
  BY LineEndsAssumption DEF Feed, LineEnd

LEMMA FeedType ==
  ASSUME NEW L, NEW p \in Pieces(L), NEW c \in L \cup LineEnd
  PROVE  Feed(p, c) \in Pieces(L)
  <1>0. p.done \in Seq(Seq(L)) /\ p.open \in Seq(L) /\ p.cr \in BOOLEAN
    BY DEF Pieces
  <1>1. \A cr \in BOOLEAN : Separate(p, cr) \in Pieces(L)
    BY DEF Separate, Pieces
  <1>2. ASSUME c \in L PROVE Extend(p, c) \in Pieces(L)
    <2>1. Append(p.open, c) \in Seq(L)
      BY <1>0, <1>2, AppendProperties
    <2> QED BY <1>0, <2>1 DEF Extend, Pieces
  <1>3. [p EXCEPT !.cr = FALSE] \in Pieces(L)
    BY DEF Pieces
  <1> QED BY <1>0, <1>1, <1>2, <1>3, FeedCases DEF LineEnd

LEMMA FeedTextType ==
  ASSUME NEW L, NEW p \in Pieces(L \cup {CR}), NEW c \in L \cup LineEnd
  PROVE  FeedText(p, c) \in Pieces(L \cup {CR})
  <1>1. p.done \in Seq(Seq(L \cup {CR})) /\ p.open \in Seq(L \cup {CR})
    BY DEF Pieces
  <1>2. CASE c = LF
    BY <1>1, <1>2 DEF FeedText, Separate, Pieces
  <1>3. CASE c # LF
    <2>1. c \in L \cup {CR}
      BY <1>3 DEF LineEnd
    <2>2. Append(p.open, c) \in Seq(L \cup {CR})
      BY <1>1, <2>1, AppendProperties
    <2> QED BY <1>1, <1>3, <2>2 DEF FeedText, Extend, Pieces
  <1> QED BY <1>2, <1>3

LEMMA NothingFed == \A L : NoPieces \in Pieces(L) /\ NoPieces \in Pieces(L \cup {CR})
  BY DEF NoPieces, Pieces

\* What Feed, and FeedText, make of each character of a text.
Feeds(L, text)     == [k \in 1..Len(text) |-> [p \in Pieces(L) |-> Feed(p, text[k])]]
FeedTexts(L, text) == [k \in 1..Len(text) |-> [p \in Pieces(L \cup {CR}) |-> FeedText(p, text[k])]]

Fed(L, text, f) == Iterates(f, Len(text), Pieces(L), NoPieces, Feeds(L, text))
FedText(L, text, f) == Iterates(f, Len(text), Pieces(L \cup {CR}), NoPieces, FeedTexts(L, text))

LEMMA FeedsType ==
  ASSUME NEW L, NEW text \in Seq(L \cup LineEnd)
  PROVE  /\ Feeds(L, text) \in [1..Len(text) -> [Pieces(L) -> Pieces(L)]]
         /\ FeedTexts(L, text) \in [1..Len(text) -> [Pieces(L \cup {CR}) -> Pieces(L \cup {CR})]]
  <1>1. \A k \in 1..Len(text) : text[k] \in L \cup LineEnd
    OBVIOUS
  <1> QED BY <1>1, FeedType, FeedTextType DEF Feeds, FeedTexts

LEMMA FedExists ==
  ASSUME NEW L, NEW text \in Seq(L \cup LineEnd)
  PROVE  (\E f : Fed(L, text, f)) /\ (\E f : FedText(L, text, f))
  <1>1. Len(text) \in Nat
    OBVIOUS
  <1> QED BY <1>1, FeedsType, NothingFed, RecursionUpTo DEF Fed, FedText

LEMMA FoldOfFeed ==
  ASSUME NEW L, NEW text \in Seq(L \cup LineEnd), NEW f, Fed(L, text, f)
  PROVE  FoldLeft(Feed, NoPieces, text) = f[Len(text)]
  <1> DEFINE n == Len(text)
             X == Pieces(L)
             body(g) == [S \in SUBSET (1..n) |->
                            IF S = {} THEN NoPieces
                            ELSE Feed(g[S \ {Max(S)}], text[Max(S)])]
             iter == CHOOSE g : g = body(g)
  <1>1. n \in Nat /\ DOMAIN text = 1..n
    OBVIOUS
  <1>2. FoldLeft(Feed, NoPieces, text) = iter[1..n]
    BY <1>1 DEF FoldLeft, MapThenFoldSet
  <1>3. NoPieces \in X /\ Feeds(L, text) \in [1..n -> [X -> X]]
    BY FeedsType, NothingFed
  <1>4. Iterates(f, n, X, NoPieces, Feeds(L, text))
    BY DEF Fed
  <1>5. \E h : h = body(h)
    <2>1. PICK h : FoldsBy(h, X, NoPieces, n, Feeds(L, text))
      <3> HIDE DEF n, X
      <3> QED BY <1>1, <1>3, FoldExists
    <2>2. \A S \in (SUBSET (1..n)) \ {{}} : h[S] = Feed(h[S \ {Max(S)}], text[Max(S)])
      <3> HIDE DEF n, X
      <3>1. \A S \in (SUBSET (1..n)) \ {{}} : h[S \ {Max(S)}] \in X
        BY <2>1 DEF FoldsBy
      <3> QED BY <2>1, <3>1 DEF FoldsBy, Feeds, n, X
    <2>3. h = body(h)
      <3> HIDE DEF n, X
      <3> QED BY <2>1, <2>2 DEF FoldsBy
    <2> QED BY <2>3
  <1>6. iter = body(iter)
    <2> HIDE DEF body
    <2> QED BY <1>5
  <1>7. Folding(iter, X, NoPieces, n, Feeds(L, text))
    <2> HIDE DEF iter, n, X
    <2>1. \A S \in (SUBSET (1..n)) \ {{}} : Max(S) \in 1..n
      BY <1>1, GreatestOf
    <2>2. iter[{}] = NoPieces
      BY <1>6
    <2>3. \A S \in (SUBSET (1..n)) \ {{}} :
             iter[S] = Feed(iter[S \ {Max(S)}], text[Max(S)])
      BY <1>6
    <2> QED BY <2>1, <2>2, <2>3 DEF Folding, Feeds, n, X
  <1>8. iter[1..n] = f[n]
    <2> HIDE DEF iter, n, X, body
    <2>1. n \in Nat
      BY <1>1
    <2> QED BY <1>3, <1>4, <1>7, <2>1, FoldEnds
  <1> QED BY <1>2, <1>8

LEMMA FoldOfFeedText ==
  ASSUME NEW L, NEW text \in Seq(L \cup LineEnd), NEW f, FedText(L, text, f)
  PROVE  FoldLeft(FeedText, NoPieces, text) = f[Len(text)]
  <1> DEFINE n == Len(text)
             X == Pieces(L \cup {CR})
             body(g) == [S \in SUBSET (1..n) |->
                            IF S = {} THEN NoPieces
                            ELSE FeedText(g[S \ {Max(S)}], text[Max(S)])]
             iter == CHOOSE g : g = body(g)
  <1>1. n \in Nat /\ DOMAIN text = 1..n
    OBVIOUS
  <1>2. FoldLeft(FeedText, NoPieces, text) = iter[1..n]
    BY <1>1 DEF FoldLeft, MapThenFoldSet
  <1>3. NoPieces \in X /\ FeedTexts(L, text) \in [1..n -> [X -> X]]
    BY FeedsType, NothingFed
  <1>4. Iterates(f, n, X, NoPieces, FeedTexts(L, text))
    BY DEF FedText
  <1>5. \E h : h = body(h)
    <2>1. PICK h : FoldsBy(h, X, NoPieces, n, FeedTexts(L, text))
      <3> HIDE DEF n, X
      <3> QED BY <1>1, <1>3, FoldExists
    <2>2. \A S \in (SUBSET (1..n)) \ {{}} : h[S] = FeedText(h[S \ {Max(S)}], text[Max(S)])
      <3> HIDE DEF n, X
      <3>1. \A S \in (SUBSET (1..n)) \ {{}} : h[S \ {Max(S)}] \in X
        BY <2>1 DEF FoldsBy
      <3> QED BY <2>1, <3>1 DEF FoldsBy, FeedTexts, n, X
    <2>3. h = body(h)
      <3> HIDE DEF n, X
      <3> QED BY <2>1, <2>2 DEF FoldsBy
    <2> QED BY <2>3
  <1>6. iter = body(iter)
    <2> HIDE DEF body
    <2> QED BY <1>5
  <1>7. Folding(iter, X, NoPieces, n, FeedTexts(L, text))
    <2> HIDE DEF iter, n, X
    <2>1. \A S \in (SUBSET (1..n)) \ {{}} : Max(S) \in 1..n
      BY <1>1, GreatestOf
    <2>2. iter[{}] = NoPieces
      BY <1>6
    <2>3. \A S \in (SUBSET (1..n)) \ {{}} :
             iter[S] = FeedText(iter[S \ {Max(S)}], text[Max(S)])
      BY <1>6
    <2> QED BY <2>1, <2>2, <2>3 DEF Folding, FeedTexts, n, X
  <1>8. iter[1..n] = f[n]
    <2> HIDE DEF iter, n, X, body
    <2>1. n \in Nat
      BY <1>1
    <2> QED BY <1>3, <1>4, <1>7, <2>1, FoldEnds
  <1> QED BY <1>2, <1>8

LEMMA FedSteps ==
  ASSUME NEW L, NEW text \in Seq(L \cup LineEnd), NEW f, Fed(L, text, f)
  PROVE  /\ f[0] = NoPieces /\ \A k \in 0..Len(text) : f[k] \in Pieces(L)
         /\ \A k \in 1..Len(text) : /\ f[k] = Feed(f[k - 1], text[k])
                                    /\ text[k] \in L \cup LineEnd
  <1>1. Len(text) \in Nat /\ \A k \in 1..Len(text) : k - 1 \in 0..Len(text)
    OBVIOUS
  <1>2. f[0] = NoPieces /\ \A k \in 0..Len(text) : f[k] \in Pieces(L)
    BY DEF Fed, Iterates
  <1>3. \A k \in 1..Len(text) : f[k] = Feeds(L, text)[k][f[k - 1]]
    BY DEF Fed, Iterates
  <1>4. \A k \in 1..Len(text) : f[k] = Feed(f[k - 1], text[k])
    BY <1>1, <1>2, <1>3 DEF Feeds
  <1>5. \A k \in 1..Len(text) : text[k] \in L \cup LineEnd
    OBVIOUS
  <1> QED BY <1>2, <1>4, <1>5

LEMMA FeedMeetsCr ==
  ASSUME NEW L, NEW p \in Pieces(L), NEW c
  PROVE  Feed(p, c).cr <=> c = CR
  BY FeedCases, LineEndsAssumption DEF Pieces, Separate, Extend, LineEnd

\* p is q behind other pieces.
Resumes(p, q, d) == p.done = d \o q.done /\ p.open = q.open

LEMMA SeparateResumes ==
  ASSUME NEW X, NEW p, NEW q, q.done \in Seq(X), q.open \in X, NEW d \in Seq(X),
         Resumes(p, q, d), NEW cr
  PROVE  Resumes(Separate(p, cr), Separate(q, cr), d)
  <1>1. PICK t : t = q.done
    OBVIOUS
  <1>2. PICK x : x = q.open
    OBVIOUS
  <1>3. Append(d \o t, x) = d \o Append(t, x)
    <2>1. t \in Seq(X) /\ d \in Seq(X) /\ x \in X
      BY <1>1, <1>2
    <2> QED BY ONLY <2>1
  <1> QED BY <1>1, <1>2, <1>3 DEF Resumes, Separate

LEMMA FeedResumes ==
  ASSUME NEW L, NEW p \in Pieces(L), NEW q \in Pieces(L), NEW d \in Seq(Seq(L)),
         NEW c \in L \cup LineEnd, Resumes(p, q, d), p.cr = q.cr \/ c # LF
  PROVE  Resumes(Feed(p, c), Feed(q, c), d)
  <1> DEFINE X == Seq(L)
  <1>1. q.done \in Seq(X) /\ q.open \in X /\ d \in Seq(X)
    BY DEF Pieces
  <1>2. p.open = q.open /\ p.done = d \o q.done
    BY DEF Resumes
  <1>3. \A cr \in BOOLEAN : Resumes(Separate(p, cr), Separate(q, cr), d)
    <2> HIDE DEF X
    <2> QED BY <1>1, SeparateResumes
  <1>4. Resumes(Extend(p, c), Extend(q, c), d)
    BY <1>2 DEF Extend, Resumes
  <1>5. Resumes([p EXCEPT !.cr = FALSE], [q EXCEPT !.cr = FALSE], d)
    BY <1>2 DEF Pieces, Resumes
  <1> QED BY <1>3, <1>4, <1>5, FeedCases DEF LineEnd

\* What is carried over from one chunk to the next is one open piece.
LEMMA CarryFeeds ==
  ASSUME NEW L, L \cap LineEnd = {}, NEW carry \in Seq(L), NEW rest \in Seq(L \cup LineEnd),
         NEW g, Fed(L, carry \o rest, g)
  PROVE  g[Len(carry)] = [done |-> <<>>, open |-> carry, cr |-> FALSE]
  <1> DEFINE n == Len(carry)
             text == carry \o rest
             at(j) == [done |-> <<>>, open |-> SubSeq(carry, 1, j), cr |-> FALSE]
             T == {j \in Nat : j <= n => g[j] = at(j)}
  <1>1. /\ n \in Nat /\ text \in Seq(L \cup LineEnd) /\ n <= Len(text)
        /\ \A j \in 1..n : text[j] = carry[j] /\ carry[j] \in L
    OBVIOUS
  <1>2. /\ g[0] = NoPieces /\ \A j \in 0..Len(text) : g[j] \in Pieces(L)
        /\ \A j \in 1..Len(text) : /\ g[j] = Feed(g[j - 1], text[j])
                                   /\ text[j] \in L \cup LineEnd
    <2>1. Fed(L, text, g)
      OBVIOUS
    <2>2. text \in Seq(L \cup LineEnd)
      BY <1>1
    <2> HIDE DEF text
    <2> QED BY <2>1, <2>2, FedSteps
  <1>3. 0 \in T
    <2>1. SubSeq(carry, 1, 0) = <<>>
      OBVIOUS
    <2> QED BY <1>2, <2>1 DEF NoPieces
  <1>4. ASSUME NEW j \in T PROVE j + 1 \in T
    <2> SUFFICES ASSUME j + 1 <= n PROVE g[j + 1] = at(j + 1)
      OBVIOUS
    <2>1. j \in Nat /\ g[j] = at(j) /\ j + 1 \in 1..n /\ j + 1 \in 1..Len(text) /\ (j + 1) - 1 = j
      <3> HIDE DEF text, at
      <3> QED BY <1>1
    <2>2. g[j + 1] = Feed(at(j), carry[j + 1]) /\ carry[j + 1] \notin LineEnd
      <3> HIDE DEF text, at
      <3> QED BY <1>1, <1>2, <2>1
    <2>3. g[j + 1] = Extend(at(j), carry[j + 1])
      BY <2>2, FeedCases
    <2>4. Append(SubSeq(carry, 1, j), carry[j + 1]) = SubSeq(carry, 1, j + 1)
      BY <1>1, <2>1
    <2> QED BY <2>3, <2>4 DEF Extend
  <1>5. T = Nat
    <2> HIDE DEF T
    <2>1. T \subseteq Nat
      BY DEF T
    <2> QED BY <1>3, <1>4, <2>1, AllNat
  <1>6. g[n] = at(n)
    <2> HIDE DEF at, text
    <2> QED BY <1>1, <1>5
  <1>7. SubSeq(carry, 1, n) = carry
    OBVIOUS
  <1> QED BY <1>6, <1>7

LEMMA LastOfAll ==
  ASSUME NEW X, NEW s \in Seq(X), NEW x
  PROVE  Front(Append(s, x)) = s /\ Last(Append(s, x)) = x
  <1>1. Len(Append(s, x)) = Len(s) + 1 /\ Append(s, x)[Len(s) + 1] = x /\ Len(s) \in Nat
    OBVIOUS
  <1>2. SubSeq(Append(s, x), 1, Len(s)) = s
    OBVIOUS
  <1> QED BY <1>1, <1>2 DEF Front, Last

LEMMA BeginsWith ==
  ASSUME NEW X, NEW s \in Seq(X), NEW a
  PROVE  IsPrefix(<<a>>, s) <=> s # <<>> /\ s[1] = a
  <1> DEFINE u == SubSeq(s, 1, 1)
             v == SubSeq(<<a>>, 1, 1)
  <1>1. CASE s = <<>>
    BY <1>1 DEF IsPrefix
  <1>2. CASE s # <<>>
    <2>1. Len(s) \in Nat /\ Len(s) >= 1 /\ Len(<<a>>) = 1
      BY <1>2
    <2>2. u \in Seq(X) /\ Len(u) = 1 /\ u[1] = s[1]
      BY <2>1, SubSeqProperties
    <2>3. v = <<a>>
      <3>1. <<a>> \in Seq({a}) /\ Len(<<a>>) = 1
        OBVIOUS
      <3> QED BY <3>1, SubSeqFull
    <2>4. IsPrefix(<<a>>, s) <=> v = u
      <3> HIDE DEF u, v
      <3> QED BY <2>1 DEF IsPrefix, u, v
    <2> HIDE DEF u, v
    <2>5. <<a>> = u <=> s[1] = a
      BY <2>2
    <2> QED BY <1>2, <2>3, <2>4, <2>5
  <1> QED BY <1>1, <1>2

LEMMA EndsInCr ==
  ASSUME NEW X, NEW s \in Seq(X)
  PROVE  IsSuffix(<<CR>>, s) <=> s # <<>> /\ s[Len(s)] = CR
  <1> DEFINE r == Reverse(s)
  <1>1. Reverse(<<CR>>) = <<CR>>
    BY DEF Reverse
  <1>2. r \in Seq(X) /\ Len(r) = Len(s) /\ (s # <<>> => r[1] = s[Len(s)])
    BY DEF Reverse
  <1>3. s # <<>> <=> r # <<>>
    <2> HIDE DEF r
    <2> QED BY <1>2
  <1>4. IsSuffix(<<CR>>, s) <=> IsPrefix(<<CR>>, r)
    BY <1>1 DEF IsSuffix
  <1> HIDE DEF r
  <1> QED BY <1>2, <1>3, <1>4, BeginsWith

\* What stands in a text behind its first i characters, and is not the other
\* half of a CR LF.
Stands(text, f, i, m, rest) ==
    /\ i + m <= Len(text) /\ Len(rest) = m /\ \A j \in 1..m : rest[j] = text[i + j]
    /\ m > 0 /\ f[i].cr => text[i + 1] # LF

\* It is read as it is fed.
ReadOn(f, i, m, pieces) ==
    Last(pieces) = f[i + m].open /\ f[i].done \o Front(pieces) = f[i + m].done

\* A text is resumed behind what is carried over.
LEMMA RestFeeds ==
  ASSUME NEW L, L \cap LineEnd = {}, NEW text \in Seq(L \cup LineEnd), NEW f, Fed(L, text, f),
         NEW i \in Nat, NEW m \in Nat,
         NEW rest \in Seq(L \cup LineEnd), Stands(text, f, i, m, rest)
  PROVE  ReadOn(f, i, m, Split(f[i].open \o rest))
  <1> DEFINE n == Len(text)
             carry == f[i].open
             c == Len(carry)
             whole == carry \o rest
             P == Pieces(L)
  <1>0. /\ i + m <= Len(text) /\ Len(rest) = m /\ \A j \in 1..m : rest[j] = text[i + j]
        /\ m > 0 /\ f[i].cr => text[i + 1] # LF
    BY DEF Stands
  <1>1. /\ \A k \in 0..n : f[k] \in P
        /\ \A k \in 1..n : f[k] = Feed(f[k - 1], text[k]) /\ text[k] \in L \cup LineEnd
    BY FedSteps
  <1>2. n \in Nat /\ i \in 0..n /\ f[i] \in P
    <2>1. n \in Nat
      OBVIOUS
    <2>2. i \in 0..n
      <3> HIDE DEF P
      <3> QED BY <1>0, <2>1
    <2> HIDE DEF P, n
    <2> QED BY <1>1, <2>1, <2>2
  <1>3. carry \in Seq(L) /\ f[i].done \in Seq(Seq(L)) /\ f[i].cr \in BOOLEAN
    BY <1>2 DEF Pieces
  <1>4. /\ whole \in Seq(L \cup LineEnd) /\ Len(whole) = c + m /\ c \in Nat
        /\ \A j \in 1..m : whole[c + j] = rest[j]
    <2> DEFINE A == L \cup LineEnd
    <2>1. carry \in Seq(A) /\ rest \in Seq(A)
      BY <1>3
    <2> HIDE DEF carry, A
    <2>2. /\ whole \in Seq(A) /\ Len(whole) = c + m /\ c \in Nat
          /\ \A j \in 1..m : whole[c + j] = rest[j]
      <3>1. Len(rest) = m
        BY <1>0
      <3>2. /\ whole \in Seq(A) /\ Len(whole) = c + Len(rest) /\ c \in Nat
            /\ \A j \in 1..Len(rest) : whole[c + j] = rest[j]
        <4>1. whole \in Seq(A) /\ Len(whole) = c + Len(rest) /\ c \in Nat
          BY <2>1, Behind, Zenon
        <4>2. \A j \in 1..Len(rest) : whole[c + j] = rest[j]
          BY <2>1, Behind
        <4> QED BY <4>1, <4>2
      <3> QED BY <3>1, <3>2, Zenon
    <2> QED BY <2>2 DEF A
  <1> HIDE DEF whole, carry, c, n, P
  <1>5. PICK g : Fed(L, whole, g)
    BY <1>4, FedExists
  <1>6. /\ \A k \in 0..(c + m) : g[k] \in P
        /\ \A k \in 1..(c + m) : g[k] = Feed(g[k - 1], whole[k])
    <2>1. /\ \A k \in 0..Len(whole) : g[k] \in P
          /\ \A k \in 1..Len(whole) : /\ g[k] = Feed(g[k - 1], whole[k])
                                      /\ whole[k] \in L \cup LineEnd
      <3>1. whole \in Seq(L \cup LineEnd) /\ Fed(L, whole, g)
        BY <1>4, <1>5
      <3> QED BY <3>1, FedSteps DEF P
    <2> QED BY <1>4, <2>1
  <1>7. g[c] = [done |-> <<>>, open |-> carry, cr |-> FALSE]
    BY <1>3, <1>5, CarryFeeds DEF whole, c
  <1> DEFINE Same(j) == /\ Resumes(f[i + j], g[c + j], f[i].done)
                        /\ j > 0 => f[i + j].cr = g[c + j].cr
             T == {j \in Nat : j <= m => Same(j)}
  <1>8. 0 \in T
    <2>1. i + 0 = i /\ c + 0 = c
      BY <1>4
    <2>2. f[i].done = f[i].done \o <<>>
      BY <1>3
    <2>3. g[c].done = <<>> /\ g[c].open = f[i].open
      BY <1>7 DEF carry
    <2>4. Resumes(f[i + 0], g[c + 0], f[i].done)
      BY <2>1, <2>2, <2>3 DEF Resumes
    <2> QED BY <2>4
  <1>9. ASSUME NEW j \in T PROVE j + 1 \in T
    <2> SUFFICES ASSUME j + 1 <= m PROVE Same(j + 1)
      OBVIOUS
    <2>1. j \in Nat /\ Same(j)
      OBVIOUS
    <2>2. /\ i + (j + 1) \in 1..n /\ (i + (j + 1)) - 1 = i + j /\ i + j \in 0..n
          /\ c + (j + 1) \in 1..(c + m) /\ (c + (j + 1)) - 1 = c + j /\ c + j \in 0..(c + m)
          /\ j + 1 \in 1..m
      <3> HIDE DEF Same
      <3> QED BY <1>0, <1>2, <1>4, <2>1 DEF n
    <2> DEFINE ch == text[i + (j + 1)]
    <2>3. /\ f[i + (j + 1)] = Feed(f[i + j], ch) /\ g[c + (j + 1)] = Feed(g[c + j], ch)
          /\ ch \in L \cup LineEnd /\ f[i + j] \in P /\ g[c + j] \in P
      <3>1. whole[c + (j + 1)] = ch
        BY <1>0, <1>4, <2>2
      <3> QED BY <1>1, <1>6, <2>2, <3>1
    <2>4. f[i + j].cr = g[c + j].cr \/ ch # LF
      <3>1. CASE j > 0
        BY <2>1, <3>1
      <3>2. CASE j = 0
        <4>1. i + j = i /\ c + j = c /\ i + (j + 1) = i + 1 /\ m > 0
          BY <1>4, <2>1, <2>2, <3>2
        <4>2. f[i].cr => ch # LF
          BY <1>0, <4>1
        <4>3. g[c + j].cr = FALSE
          BY <1>7, <4>1
        <4> HIDE DEF ch
        <4> QED BY <1>3, <4>1, <4>2, <4>3
      <3> QED BY <2>1, <3>1, <3>2
    <2>5. Resumes(f[i + j], g[c + j], f[i].done)
      BY <2>1
    <2> HIDE DEF ch
    <2>6. Resumes(f[i + (j + 1)], g[c + (j + 1)], f[i].done)
      <3>1. Resumes(Feed(f[i + j], ch), Feed(g[c + j], ch), f[i].done)
        BY <1>3, <2>3, <2>4, <2>5, FeedResumes DEF P
      <3> QED BY <2>3, <3>1
    <2>7. f[i + (j + 1)].cr = g[c + (j + 1)].cr
      <3>1. f[i + (j + 1)] \in P /\ g[c + (j + 1)] \in P
        BY <2>3, FeedType DEF P
      <3>2. f[i + (j + 1)].cr \in BOOLEAN /\ g[c + (j + 1)].cr \in BOOLEAN
        BY <3>1 DEF P, Pieces
      <3>3. (f[i + (j + 1)].cr <=> ch = CR) /\ (g[c + (j + 1)].cr <=> ch = CR)
        BY <2>3, FeedMeetsCr DEF P
      <3> QED BY <3>2, <3>3
    <2> QED BY <2>6, <2>7
  <1>10. T = Nat
    <2> HIDE DEF T
    <2>1. T \subseteq Nat
      BY DEF T
    <2> QED BY <1>8, <1>9, <2>1, AllNat
  <1>11. Resumes(f[i + m], g[c + m], f[i].done)
    <2>1. Same(m)
      BY <1>10
    <2> QED BY <2>1
  <1>12. Split(whole) = Append(g[c + m].done, g[c + m].open)
    <2>1. FoldLeft(Feed, NoPieces, whole) = g[Len(whole)]
      BY <1>4, <1>5, FoldOfFeed
    <2> QED BY <1>4, <2>1 DEF Split, All
  <1>13. Last(Split(whole)) = g[c + m].open /\ Front(Split(whole)) = g[c + m].done
    <2>1. c + m \in 0..(c + m)
      BY <1>4
    <2>2. g[c + m].done \in Seq(Seq(L))
      BY <1>6, <2>1 DEF P, Pieces
    <2> QED BY <1>12, <2>2, LastOfAll
  <1> QED BY <1>11, <1>13 DEF Resumes, ReadOn, whole, carry

\* Wherever a text is cut, what was read of it is what is fed of it.
Reads(f, k, r) == r = [carry |-> f[k].open, skipLf |-> f[k].cr, lines |-> f[k].done]

LEMMA ChunkFeeds ==
  ASSUME NEW L, L \cap LineEnd = {}, NEW text \in Seq(L \cup LineEnd), NEW f, Fed(L, text, f),
         NEW k \in Nat, NEW n \in Nat, k + n <= Len(text), NEW r, Reads(f, k, r)
  PROVE  Reads(f, k + n, ReadChunk(r, SubSeq(text, k + 1, k + n)))
  <1> DEFINE A == L \cup LineEnd
             N == Len(text)
             chunk == SubSeq(text, k + 1, k + n)
             skips == r.skipLf /\ IsPrefix(<<LF>>, chunk)
             rest == IF skips THEN Tail(chunk) ELSE chunk
             o == IF skips THEN 1 ELSE 0
             pieces == Split(r.carry \o rest)
  <1>1. N \in Nat /\ text \in Seq(A) /\ k \in 0..N
    <2>1. N \in Nat
      OBVIOUS
    <2> HIDE DEF N
    <2> QED BY <2>1 DEF N
  <1>2. /\ chunk \in Seq(A) /\ Len(chunk) = n
        /\ \A j \in 1..n : chunk[j] = text[k + j]
    <2> HIDE DEF A
    <2>1. k + 1 \in 1..(N + 1) /\ k + n \in (k + 1) - 1..N /\ (k + n) - (k + 1) + 1 = n
      BY <1>1
    <2>2. \A j \in 1..n : (k + 1) + j - 1 = k + j
      OBVIOUS
    <2>3. /\ chunk \in Seq(A) /\ Len(chunk) = (k + n) - (k + 1) + 1
          /\ \A j \in 1..((k + n) - (k + 1) + 1) : chunk[j] = text[(k + 1) + j - 1]
      BY <1>1, <2>1, SubSeqProperties
    <2> HIDE DEF chunk
    <2> QED BY <2>1, <2>2, <2>3
  <1>3. r.carry = f[k].open /\ r.skipLf = f[k].cr /\ r.lines = f[k].done
    BY DEF Reads
  <1>4. /\ \A i \in 0..N : f[i] \in Pieces(L)
        /\ \A i \in 1..N : f[i] = Feed(f[i - 1], text[i]) /\ text[i] \in L \cup LineEnd
    BY FedSteps
  <1> HIDE DEF A, N, chunk
  <1>5. CASE n = 0
    <2>1. chunk = <<>>
      BY <1>2, <1>5
    <2>2. k + n = k
      BY <1>5
    <2> QED BY <2>1, <2>2 DEF ReadChunk, Passed, chunk
  <1>6. CASE n > 0
    <2>1. chunk # <<>> /\ 1 \in 1..n
      BY <1>2, <1>6
    <2>2. skips <=> f[k].cr /\ text[k + 1] = LF
      <3>1. chunk[1] = text[k + 1]
        BY <1>2, <2>1
      <3> QED BY <1>2, <1>3, <2>1, <3>1, BeginsWith
    <2> HIDE DEF skips
    <2>3. o \in {0, 1} /\ o <= n /\ n - o \in Nat /\ k + o \in Nat /\ k + o + (n - o) = k + n
      BY <1>6
    <2>4. /\ rest \in Seq(A) /\ Len(rest) = n - o
          /\ \A j \in 1..(n - o) : rest[j] = text[k + o + j]
      <3>1. CASE skips
        BY <1>2, <2>1, <3>1
      <3>2. CASE ~skips
        BY <1>2, <3>2
      <3> QED BY <3>1, <3>2
    <2>5. f[k + o].open = f[k].open /\ f[k + o].done = f[k].done
      <3>1. CASE skips
        <4>1. k + 1 \in 1..N /\ (k + 1) - 1 = k
          BY <1>1, <1>6 DEF N
        <4>2. f[k + 1] = Feed(f[k], text[k + 1]) /\ f[k] \in Pieces(L)
          BY <1>1, <1>4, <4>1
        <4>3. f[k + 1] = [f[k] EXCEPT !.cr = FALSE]
          BY <2>2, <3>1, <4>2, FeedCases
        <4> QED BY <3>1, <4>2, <4>3 DEF Pieces
      <3>2. CASE ~skips
        BY <3>2
      <3> QED BY <3>1, <3>2
    <2>6. n - o > 0 /\ f[k + o].cr => text[k + o + 1] # LF
      <3>1. CASE skips
        <4>1. k + 1 \in 1..N /\ (k + 1) - 1 = k
          BY <1>1, <1>6 DEF N
        <4>2. f[k + 1] = Feed(f[k], text[k + 1]) /\ f[k] \in Pieces(L)
          BY <1>1, <1>4, <4>1
        <4>3. ~f[k + 1].cr
          BY <2>2, <3>1, <4>2, FeedMeetsCr, LineEndsAssumption
        <4> QED BY <3>1, <4>3
      <3>2. CASE ~skips
        <4>1. k + o = k
          BY <3>2
        <4> QED BY <2>2, <3>2, <4>1
      <3> QED BY <3>1, <3>2
    <2> HIDE DEF o, rest
    <2>7. /\ Last(pieces) = f[k + n].open
          /\ r.lines \o Front(pieces) = f[k + n].done
      <3> DEFINE i == k + o
                 m == n - o
      <3>1. i \in Nat /\ m \in Nat /\ i + m <= Len(text)
        BY <2>3
      <3>2. rest \in Seq(L \cup LineEnd) /\ Stands(text, f, i, m, rest)
        BY <2>4, <2>6, <3>1 DEF A, Stands
      <3> HIDE DEF i, m
      <3>3. ReadOn(f, i, m, Split(f[i].open \o rest))
        BY <3>1, <3>2, RestFeeds
      <3>4. i + m = k + n
        BY <2>3 DEF i, m
      <3> QED BY <1>3, <2>5, <3>3, <3>4 DEF i, ReadOn
    <2>8. IsSuffix(<<CR>>, rest) = f[k + n].cr
      <3>1. k + n \in 1..N /\ (k + n) - 1 \in 0..N
        BY <1>6 DEF N
      <3>2. f[k + n] \in Pieces(L) /\ (f[k + n].cr <=> text[k + n] = CR)
        BY <1>4, <3>1, FeedMeetsCr, FeedType
      <3>3. f[k + n].cr \in BOOLEAN
        BY <3>2 DEF Pieces
      <3>4. IsSuffix(<<CR>>, rest) <=> text[k + n] = CR
        <4>1. CASE n - o = 0
          <5>1. rest = <<>>
            BY <2>4, <4>1
          <5>2. text[k + n] = LF
            BY <2>2, <2>3, <4>1, <1>6 DEF o
          <5>3. ~IsSuffix(<<CR>>, rest)
            BY <2>4, <5>1, EndsInCr
          <5> QED BY <5>2, <5>3, LineEndsAssumption
        <4>2. CASE n - o > 0
          <5>1. n - o \in 1..(n - o) /\ rest[n - o] = text[k + n] /\ rest # <<>>
            BY <2>3, <2>4, <4>2
          <5> QED BY <2>4, <5>1, EndsInCr
        <4> QED BY <2>3, <4>1, <4>2
      <3> QED BY <3>2, <3>3, <3>4 DEF IsSuffix, IsPrefix
    <2>9. ReadChunk(r, chunk) = [carry |-> Last(pieces), skipLf |-> IsSuffix(<<CR>>, rest),
                                 lines |-> r.lines \o Front(pieces)]
      BY <2>1 DEF ReadChunk, Passed, rest, skips
    <2> QED BY <2>7, <2>8, <2>9 DEF Reads, chunk
  <1> QED BY <1>5, <1>6

-----------------------------------------------------------------------------
(* The readers of the whole text.                                          *)

LEMMA FedTextSteps ==
  ASSUME NEW L, NEW text \in Seq(L \cup LineEnd), NEW f, FedText(L, text, f)
  PROVE  /\ f[0] = NoPieces /\ \A k \in 0..Len(text) : f[k] \in Pieces(L \cup {CR})
         /\ \A k \in 1..Len(text) : f[k] = FeedText(f[k - 1], text[k])
  <1>1. Len(text) \in Nat /\ \A k \in 1..Len(text) : k - 1 \in 0..Len(text)
    OBVIOUS
  <1>2. f[0] = NoPieces /\ \A k \in 0..Len(text) : f[k] \in Pieces(L \cup {CR})
    BY DEF FedText, Iterates
  <1>3. \A k \in 1..Len(text) : f[k] = FeedTexts(L, text)[k][f[k - 1]]
    BY DEF FedText, Iterates
  <1>4. \A k \in 1..Len(text) : f[k] = FeedText(f[k - 1], text[k])
    BY <1>1, <1>2, <1>3 DEF FeedTexts
  <1> QED BY <1>2, <1>4

LEMMA UnturnedLine ==
  ASSUME NEW L, CR \notin L, NEW line \in Seq(L)
  PROVE  Unturned(line) = line /\ Unturned(Append(line, CR)) = line
  <1>1. ~IsSuffix(<<CR>>, line)
    BY EndsInCr
  <1>2. Front(Append(line, CR)) = line /\ Last(Append(line, CR)) = CR
    BY LastOfAll
  <1> DEFINE M == L \cup {CR}
             long == Append(line, CR)
  <1>3. long \in Seq(M) /\ long # <<>> /\ long[Len(long)] = CR
    <2>1. line \in Seq(M) /\ CR \in M
      OBVIOUS
    <2> HIDE DEF M
    <2> QED BY <2>1
  <1>4. IsSuffix(<<CR>>, long)
    <2> HIDE DEF M, long
    <2> QED BY <1>3, EndsInCr
  <1> QED BY <1>1, <1>2, <1>4 DEF Unturned

Trimmed(lines) == [i \in DOMAIN lines |-> Unturned(lines[i])]

LEMMA TrimmedAppend ==
  ASSUME NEW X, NEW lines \in Seq(X), NEW line
  PROVE  Trimmed(Append(lines, line)) = Append(Trimmed(lines), Unturned(line))
  <1> DEFINE n == Len(lines)
             a == Trimmed(Append(lines, line))
             t == Trimmed(lines)
             b == Append(t, Unturned(line))
  <1>1. n \in Nat /\ DOMAIN lines = 1..n
    OBVIOUS
  <1>2. DOMAIN Append(lines, line) = 1..(n + 1)
    OBVIOUS
  <1>3. /\ \A i \in 1..n : Append(lines, line)[i] = lines[i]
        /\ Append(lines, line)[n + 1] = line
    OBVIOUS
  <1> HIDE DEF n
  <1>4. a = [i \in 1..(n + 1) |-> IF i = n + 1 THEN Unturned(line) ELSE Unturned(lines[i])]
    BY <1>1, <1>2, <1>3 DEF Trimmed
  <1>5. t = [i \in 1..n |-> Unturned(lines[i])]
    BY <1>1 DEF Trimmed
  <1> HIDE DEF a, t
  <1>6. b = [i \in 1..(n + 1) |-> IF i = n + 1 THEN Unturned(line) ELSE Unturned(lines[i])]
    <2>1. t \in Seq({Unturned(lines[i]) : i \in 1..n}) /\ Len(t) = n
      BY <1>1, <1>5
    <2>2. Len(b) = n + 1 /\ DOMAIN b = 1..(n + 1) /\ b[n + 1] = Unturned(line)
          /\ (\A i \in 1..n : b[i] = t[i])
      BY <2>1
    <2> QED BY <1>1, <1>5, <2>2
  <1> QED BY <1>4, <1>6 DEF a, b, t

\* What the two ways to cut a text have made of it so far.
Agrees(L, p, q) ==
    IF p.cr THEN /\ p.open = <<>>
                 /\ \E line \in Seq(L) : /\ p.done = Append(Trimmed(q.done), line)
                                         /\ q.open = Append(line, CR)
    ELSE p.done = Trimmed(q.done) /\ q.open = p.open

LEMMA AgreesOn ==
  ASSUME NEW L, L \cap LineEnd = {}, NEW p \in Pieces(L), NEW q \in Pieces(L \cup {CR}),
         NEW c \in L \cup LineEnd, p.cr => c = LF, Agrees(L, p, q)
  PROVE  Agrees(L, Feed(p, c), FeedText(q, c))
  <1> DEFINE u == Feed(p, c)
             v == FeedText(q, c)
  <1>1. /\ p.open \in Seq(L) /\ p.cr \in BOOLEAN /\ CR \notin L /\ LF \notin L /\ CR # LF
        /\ q.done \in Seq(Seq(L \cup {CR}))
    BY LineEndsAssumption DEF Pieces, LineEnd
  <1>2. \A line : Trimmed(Append(q.done, line)) = Append(Trimmed(q.done), Unturned(line))
    BY <1>1, TrimmedAppend
  <1>3. \A line \in Seq(L) : Unturned(line) = line /\ Unturned(Append(line, CR)) = line
    BY <1>1, UnturnedLine
  <1>4. CASE c = CR
    <2>1. ~p.cr
      BY <1>1, <1>4
    <2>2. /\ u.done = Append(p.done, p.open) /\ u.open = <<>> /\ u.cr
          /\ v.done = q.done /\ v.open = Append(q.open, CR)
      BY <1>1, <1>4, FeedCases DEF Separate, FeedText, Extend
    <2>3. p.done = Trimmed(q.done) /\ q.open = p.open
      BY <2>1 DEF Agrees
    <2> HIDE DEF u, v
    <2>4. Agrees(L, u, v)
      BY <1>1, <2>2, <2>3 DEF Agrees
    <2> QED BY <2>4 DEF u, v
  <1>5. CASE c = LF /\ p.cr
    <2>1. PICK line \in Seq(L) : /\ p.done = Append(Trimmed(q.done), line)
                                 /\ q.open = Append(line, CR)
      BY <1>5 DEF Agrees
    <2>2. p.open = <<>>
      BY <1>5 DEF Agrees
    <2>3. u.done = p.done /\ u.open = <<>> /\ u.cr = FALSE
      <3>1. u = [p EXCEPT !.cr = FALSE]
        BY <1>5, FeedCases
      <3> HIDE DEF u
      <3> QED BY <2>2, <3>1 DEF Pieces
    <2>4. v.done = Append(q.done, q.open) /\ v.open = <<>>
      BY <1>5 DEF FeedText, Separate
    <2> HIDE DEF u, v
    <2>5. Trimmed(v.done) = u.done
      BY <1>2, <1>3, <2>1, <2>3, <2>4
    <2>6. Agrees(L, u, v)
      BY <2>3, <2>4, <2>5 DEF Agrees
    <2> QED BY <2>6 DEF u, v
  <1>6. CASE c = LF /\ ~p.cr
    <2>1. p.done = Trimmed(q.done) /\ q.open = p.open
      BY <1>6 DEF Agrees
    <2>2. u.done = Append(p.done, p.open) /\ u.open = <<>> /\ u.cr = FALSE
      BY <1>6, FeedCases DEF Separate
    <2>3. v.done = Append(q.done, q.open) /\ v.open = <<>>
      BY <1>6 DEF FeedText, Separate
    <2> HIDE DEF u, v
    <2>4. Trimmed(v.done) = u.done
      BY <1>1, <1>2, <1>3, <2>1, <2>2, <2>3
    <2>5. Agrees(L, u, v)
      BY <2>2, <2>3, <2>4 DEF Agrees
    <2> QED BY <2>5 DEF u, v
  <1>7. CASE c \in L
    <2>1. c \notin LineEnd /\ ~p.cr
      BY <1>1, <1>7 DEF LineEnd
    <2>2. p.done = Trimmed(q.done) /\ q.open = p.open
      BY <2>1 DEF Agrees
    <2>3. u.done = p.done /\ u.open = Append(p.open, c) /\ u.cr = FALSE
      <3>1. u = Extend(p, c)
        BY <2>1, FeedCases
      <3> HIDE DEF u
      <3> QED BY <3>1 DEF Extend
    <2>4. v.done = q.done /\ v.open = Append(q.open, c)
      BY <2>1 DEF FeedText, Extend, LineEnd
    <2> HIDE DEF u, v
    <2>5. Agrees(L, u, v)
      BY <2>2, <2>3, <2>4 DEF Agrees
    <2> QED BY <2>5 DEF u, v
  <1> QED BY <1>1, <1>4, <1>5, <1>6, <1>7 DEF LineEnd

\* No line ends in a CR alone.
Tidy(text) == \A k \in 1..Len(text) : text[k] = CR => k + 1 \in 1..Len(text) /\ text[k + 1] = LF

LEMMA TrimmedOfFront ==
  ASSUME NEW X, NEW done \in Seq(X), NEW open
  PROVE  /\ Closed(Append(done, open)) = IF open = <<>> THEN done ELSE Append(done, open)
  BY LastOfAll DEF Closed

LEMMA TidyTexts ==
  ASSUME NEW L, L \cap LineEnd = {}, NEW text \in Seq(L \cup LineEnd), Tidy(text)
  PROVE  LinesOfText(text) = Readline(text)
  <1> DEFINE n == Len(text)
  <1>1. n \in Nat
    OBVIOUS
  <1>2. PICK f : Fed(L, text, f)
    BY FedExists
  <1>3. PICK q : FedText(L, text, q)
    BY FedExists
  <1>4. /\ f[0] = NoPieces /\ \A k \in 0..n : f[k] \in Pieces(L)
        /\ \A k \in 1..n : f[k] = Feed(f[k - 1], text[k]) /\ text[k] \in L \cup LineEnd
    BY <1>2, FedSteps
  <1>5. /\ q[0] = NoPieces /\ \A k \in 0..n : q[k] \in Pieces(L \cup {CR})
        /\ \A k \in 1..n : q[k] = FeedText(q[k - 1], text[k])
    <2> HIDE DEF n
    <2>1. /\ q[0] = NoPieces /\ \A k \in 0..Len(text) : q[k] \in Pieces(L \cup {CR})
          /\ \A k \in 1..Len(text) : q[k] = FeedText(q[k - 1], text[k])
      BY ONLY text \in Seq(L \cup LineEnd), <1>3, FedTextSteps
    <2> QED BY <2>1 DEF n
  <1>6. \A k \in 1..n : f[k].cr <=> text[k] = CR
    <2> SUFFICES ASSUME NEW k \in 1..n PROVE f[k].cr <=> text[k] = CR
      OBVIOUS
    <2>1. k - 1 \in 0..n
      BY <1>1
    <2> QED BY <1>4, <2>1, FeedMeetsCr
  <1>7. \A k \in 1..n : text[k] = CR => k + 1 \in 1..n /\ text[k + 1] = LF
    BY DEF Tidy
  <1> HIDE DEF n
  <1> DEFINE T == {k \in Nat : k <= n => Agrees(L, f[k], q[k])}
  <1>8. 0 \in T
    <2>1. Trimmed(<<>>) = <<>>
      BY DEF Trimmed
    <2>2. Agrees(L, NoPieces, NoPieces)
      BY <2>1 DEF Agrees, NoPieces
    <2> QED BY <1>4, <1>5, <2>2
  <1>9. ASSUME NEW k \in T PROVE k + 1 \in T
    <2> SUFFICES ASSUME k + 1 <= n PROVE Agrees(L, f[k + 1], q[k + 1])
      OBVIOUS
    <2>1. k \in 0..n /\ k + 1 \in 1..n /\ (k + 1) - 1 = k /\ Agrees(L, f[k], q[k])
      BY <1>1
    <2>2. f[k].cr => text[k + 1] = LF
      <3>1. CASE k = 0
        BY <1>4, <3>1 DEF NoPieces
      <3>2. CASE k # 0
        <4>1. k \in 1..n
          BY <2>1, <3>2
        <4> QED BY <1>6, <1>7, <4>1
      <3> QED BY <3>1, <3>2
    <2>3. /\ f[k] \in Pieces(L) /\ q[k] \in Pieces(L \cup {CR}) /\ text[k + 1] \in L \cup LineEnd
          /\ f[k + 1] = Feed(f[k], text[k + 1]) /\ q[k + 1] = FeedText(q[k], text[k + 1])
      BY <1>4, <1>5, <2>1
    <2> QED BY <2>1, <2>2, <2>3, AgreesOn
  <1>10. T = Nat
    <2> HIDE DEF T
    <2>1. T \subseteq Nat
      BY DEF T
    <2> QED BY <1>8, <1>9, <2>1, AllNat
  <1>11. Agrees(L, f[n], q[n]) /\ n \in 0..n
    BY <1>1, <1>10
  <1>12. ~f[n].cr
    <2>1. CASE n = 0
      BY <1>4, <2>1 DEF NoPieces
    <2>2. CASE n # 0
      <3>1. n \in 1..n /\ n + 1 \notin 1..n
        BY <1>1, <2>2
      <3> QED BY <1>6, <1>7, <3>1
    <2> QED BY <2>1, <2>2
  <1>13. f[n].done = Trimmed(q[n].done) /\ q[n].open = f[n].open
    BY <1>11, <1>12 DEF Agrees
  <1>14. /\ f[n].done \in Seq(Seq(L)) /\ f[n].open \in Seq(L)
         /\ q[n].done \in Seq(Seq(L \cup {CR}))
    BY <1>4, <1>5, <1>11 DEF Pieces
  <1>15. Readline(text) = Closed(Append(f[n].done, f[n].open))
    BY <1>2, FoldOfFeed DEF Readline, Split, All, n
  <1>16. LinesOfText(text) = Trimmed(Closed(Append(q[n].done, q[n].open)))
    BY <1>3, FoldOfFeedText DEF LinesOfText, Trimmed, All, n
  <1>17. Unturned(f[n].open) = f[n].open
    <2>1. CR \notin L
      BY DEF LineEnd
    <2> QED BY <1>14, <2>1, UnturnedLine
  <1>18. Trimmed(Append(q[n].done, q[n].open)) = Append(f[n].done, f[n].open)
    BY <1>13, <1>14, <1>17, TrimmedAppend
  <1>19. /\ Closed(Append(f[n].done, f[n].open))
               = IF f[n].open = <<>> THEN f[n].done ELSE Append(f[n].done, f[n].open)
         /\ Closed(Append(q[n].done, q[n].open))
               = IF q[n].open = <<>> THEN q[n].done ELSE Append(q[n].done, q[n].open)
    BY <1>14, TrimmedOfFront
  <1> QED BY <1>13, <1>15, <1>16, <1>18, <1>19

-----------------------------------------------------------------------------
(* The text of a printed file.                                             *)

LEMMA TidyBehind ==
  ASSUME NEW X, NEW s \in Seq(X), NEW t \in Seq(X), Tidy(s), Tidy(t)
  PROVE  Tidy(s \o t)
  <1> DEFINE u == s \o t
             m == Len(s)
             n == Len(t)
  <1>1. m \in Nat /\ n \in Nat /\ Len(u) = m + n
    OBVIOUS
  <1>2. \A k \in 1..m : u[k] = s[k]
    OBVIOUS
  <1>3. \A k \in 1..n : u[m + k] = t[k]
    OBVIOUS
  <1>4. /\ \A k \in 1..m : s[k] = CR => k + 1 \in 1..m /\ s[k + 1] = LF
        /\ \A k \in 1..n : t[k] = CR => k + 1 \in 1..n /\ t[k + 1] = LF
    BY DEF Tidy
  <1> HIDE DEF u, m, n
  <1>5. ASSUME NEW k \in 1..(m + n), u[k] = CR PROVE k + 1 \in 1..(m + n) /\ u[k + 1] = LF
    <2>1. CASE k \in 1..m
      <3>1. k + 1 \in 1..m /\ s[k + 1] = LF
        BY <1>2, <1>4, <1>5, <2>1
      <3> QED BY <1>1, <1>2, <3>1
    <2>2. CASE k \notin 1..m
      <3> DEFINE i == k - m
      <3>1. i \in 1..n /\ m + i = k /\ m + (i + 1) = k + 1
        BY <1>1, <2>2
      <3> HIDE DEF i
      <3>2. t[i] = CR
        BY <1>3, <1>5, <3>1
      <3>3. i + 1 \in 1..n /\ t[i + 1] = LF
        BY <1>4, <3>1, <3>2
      <3> QED BY <1>1, <1>3, <3>1, <3>3
    <2> QED BY <2>1, <2>2
  <1>6. Tidy(u)
    BY <1>1, <1>5 DEF Tidy
  <1> QED BY <1>6 DEF u

AllTidy(seqs) == \A i \in 1..Len(seqs) : Tidy(seqs[i])

LEMMA JoinedTidily ==
  ASSUME NEW X, NEW seqs \in Seq(Seq(X)), seqs # <<>>
  PROVE  /\ FlattenSeq(seqs) \in Seq(X)
         /\ AllTidy(seqs) => Tidy(FlattenSeq(seqs))
  <1> DEFINE n == Len(seqs)
  <1>1. n \in Nat /\ n >= 1 /\ \A i \in 1..n : seqs[i] \in Seq(X)
    OBVIOUS
  <1>2. PICK f : Joined(seqs, f) /\ FlattenSeq(seqs) = f[n]
    BY FlattenRecursion
  <1>3. f[1] = seqs[1] /\ \A i \in 2..n : f[i] = f[i - 1] \o seqs[i]
    BY <1>2 DEF Joined
  <1> DEFINE Good(s) == s \in Seq(X) /\ (AllTidy(seqs) => Tidy(s))
             T == {k \in Nat : k + 1 <= n => Good(f[k + 1])}
  <1>4. \A i \in 1..n : Good(seqs[i])
    BY <1>1 DEF AllTidy
  <1>5. \A s, t : Good(s) /\ Good(t) => Good(s \o t)
    <2> SUFFICES ASSUME NEW s, NEW t, Good(s), Good(t) PROVE Good(s \o t)
      OBVIOUS
    <2>1. s \o t \in Seq(X)
      OBVIOUS
    <2> QED BY <2>1, TidyBehind
  <1> HIDE DEF n, Good
  <1>6. 0 \in T
    <2>1. 0 + 1 = 1 /\ 1 \in 1..n
      BY <1>1
    <2> QED BY <1>3, <1>4, <2>1
  <1>7. ASSUME NEW k \in T PROVE k + 1 \in T
    <2> SUFFICES ASSUME k + 1 + 1 <= n PROVE Good(f[k + 1 + 1])
      OBVIOUS
    <2>1. k + 1 + 1 \in 2..n /\ (k + 1 + 1) - 1 = k + 1 /\ k + 1 + 1 \in 1..n /\ k + 1 <= n
      BY <1>1
    <2>2. Good(f[k + 1])
      BY <2>1
    <2> QED BY <1>3, <1>4, <1>5, <2>1, <2>2
  <1>8. T = Nat
    <2> HIDE DEF T
    <2>1. T \subseteq Nat
      BY DEF T
    <2> QED BY <1>6, <1>7, <2>1, AllNat
  <1>9. Good(f[n])
    <2>1. n - 1 \in Nat /\ (n - 1) + 1 = n
      BY <1>1
    <2>2. n - 1 \in T
      BY <1>8, <2>1
    <2> QED BY <2>1, <2>2
  <1> QED BY <1>2, <1>9 DEF Good

LEMMA TidyLine ==
  ASSUME NEW L, L \cap LineEnd = {}, NEW line \in Seq(L),
         NEW end \in {<<>>, <<LF>>, <<CR, LF>>}
  PROVE  Tidy(line \o end)
  <1>1. Tidy(line)
    BY DEF Tidy, LineEnd
  <1> DEFINE A == L \cup LineEnd
  <1>2. line \in Seq(A) /\ end \in Seq(A)
    <2>1. line \in Seq(A)
      OBVIOUS
    <2>2. CR \in A /\ LF \in A
      BY DEF LineEnd
    <2> HIDE DEF A
    <2>3. <<>> \in Seq(A) /\ <<LF>> \in Seq(A) /\ <<CR, LF>> \in Seq(A)
      BY <2>2
    <2> QED BY <2>1, <2>3
  <1>3. Tidy(end)
    <2>1. Tidy(<<>>)
      BY DEF Tidy
    <2>2. Tidy(<<LF>>)
      BY LineEndsAssumption DEF Tidy
    <2>3. Tidy(<<CR, LF>>)
      BY LineEndsAssumption DEF Tidy
    <2> QED BY <2>1, <2>2, <2>3
  <1> HIDE DEF A
  <1> QED BY <1>1, <1>2, <1>3, TidyBehind

-----------------------------------------------------------------------------
(* The lines that are counted.                                             *)

\* What the compiler has read so far of a file it may read.
Compiled ==
    /\ stream = [text |-> stream.text, at |-> stream.at, read |-> stream.read]
    /\ stream.text \in Seq(Lines(claim) \cup LineEnd) /\ Readline(stream.text) = Characters
    /\ HasActions(claim) => Tidy(stream.text)
    /\ stream.at \in 0..Len(stream.text)
    /\ \E f : Fed(Lines(claim), stream.text, f) /\ Reads(f, stream.at, stream.read)

ReadersInv ==
    /\ claim \in Claims
    /\ printed \in Seq(Lines(claim)) /\ Len(printed) <= LineLimit(claim)
    /\ pc \in {"claimed", "preparing", "engine"} =>
         stream = [text |-> <<>>, at |-> 0, read |-> Unread]
    /\ pc \in {"compiling", "publishing"} => Compiled
    /\ pc = "publishing" => stream.at = Len(stream.text)

LEMMA LinesAreNoLineEnds == \A c \in Claims : Lines(c) \cap LineEnd = {}
  BY LineEndsAssumption DEF LineEnd

\* Every text that holds the printed lines may be read.
LEMMA TextsAreRead ==
  ASSUME ReadersInv, printed # <<>>, NEW text \in Texts
  PROVE  /\ text \in Seq(Lines(claim) \cup LineEnd) /\ Readline(text) = Characters
         /\ HasActions(claim) => Tidy(text)
  <1> DEFINE L == Lines(claim)
             A == L \cup LineEnd
             n == Len(printed)
             limit == LineLimit(claim)
  <1>1. /\ n \in Nat /\ \A i \in 1..n : printed[i] \in L
        /\ DOMAIN printed = 1..n
    BY DEF ReadersInv
  <1>2. n \in 1..limit
    <2>1. n # 0
      BY DEF ReadersInv
    <2>2. limit \in Nat /\ n <= limit
      BY PrintAssumption DEF ReadersInv, LineLimit
    <2> HIDE DEF n, limit
    <2> QED BY <1>1, <2>1, <2>2
  <1>3. PICK ends \in LineEnds(claim, n) :
           text = FlattenSeq([i \in DOMAIN printed |-> Characters[i] \o ends[i]])
    BY DEF Texts
  <1>4. Readline(text) = Characters
    BY DEF Texts
  <1>5. /\ ends \in [1..n -> {<<>>, <<LF>>, <<CR, LF>>, <<CR>>}]
        /\ HasActions(claim) => \A i \in 1..n : \/ ends[i] \in {<<LF>>, <<CR, LF>>}
                                                \/ i = n /\ ends[i] = <<>>
    BY <1>2, LineEndsAssumption DEF ReadersInv
  <1> DEFINE line(i) == Characters[i] \o ends[i]
             seqs == [i \in 1..n |-> line(i)]
  <1> HIDE DEF n
  <1>6. \A i \in 1..n : Characters[i] \in Seq(L)
    BY <1>1 DEF Characters
  <1>7. \A i \in 1..n : line(i) \in Seq(A)
    <2> SUFFICES ASSUME NEW i \in 1..n PROVE line(i) \in Seq(A)
      OBVIOUS
    <2>1. Characters[i] \in Seq(A)
      BY <1>6
    <2>2. CR \in A /\ LF \in A
      BY DEF LineEnd
    <2> HIDE DEF A
    <2>3. <<>> \in Seq(A) /\ <<LF>> \in Seq(A) /\ <<CR, LF>> \in Seq(A) /\ <<CR>> \in Seq(A)
      BY <2>2
    <2>4. ends[i] \in Seq(A)
      BY <1>5, <2>3
    <2> QED BY <2>1, <2>4
  <1>8. HasActions(claim) => \A i \in 1..n : Tidy(line(i))
    <2> SUFFICES ASSUME HasActions(claim), NEW i \in 1..n PROVE Tidy(line(i))
      OBVIOUS
    <2>1. L \cap LineEnd = {}
      BY LinesAreNoLineEnds DEF ReadersInv
    <2>2. ends[i] \in {<<>>, <<LF>>, <<CR, LF>>}
      BY <1>5
    <2>3. Characters[i] \in Seq(L)
      BY <1>6
    <2> HIDE DEF L
    <2> QED BY <2>1, <2>2, <2>3, TidyLine
  <1> HIDE DEF line, A
  <1>9. seqs \in Seq(Seq(A)) /\ Len(seqs) = n /\ seqs # <<>> /\ \A i \in 1..n : seqs[i] = line(i)
    <2> DEFINE X == Seq(A)
    <2> HIDE DEF X
    <2>1. \A i \in 1..n : line(i) \in X
      BY <1>7 DEF X
    <2>2. seqs \in Seq(X) /\ Len(seqs) = n /\ seqs # <<>>
      BY <1>1, <1>2, <2>1
    <2> QED BY <2>2 DEF X
  <1>10. text = FlattenSeq(seqs)
    BY <1>1, <1>3 DEF line
  <1> HIDE DEF seqs
  <1>11. HasActions(claim) => AllTidy(seqs)
    BY <1>8, <1>9 DEF AllTidy
  <1>12. text \in Seq(A) /\ (HasActions(claim) => Tidy(text))
    BY <1>9, <1>10, <1>11, JoinedTidily
  <1> QED BY <1>4, <1>12 DEF A

LEMMA InitRead == Init => ReadersInv
  BY PrintAssumption DEF Init, ReadersInv, LineLimit

LEMMA ThrowRead == ReadersInv /\ Throw => ReadersInv'
  BY DEF Throw, fileVars, ReadersInv

LEMMA ReadLineRead ==
  ASSUME ReadersInv, ReadLine, ~Throw
  PROVE  ReadersInv'
  <1>1. PICK l \in Lines(claim) : printed' = Append(printed, l)
    BY DEF ReadLine
  <1>2. claim' = claim /\ pc' = pc /\ stream' = stream /\ pc = "engine"
        /\ Len(printed) < LineLimit(claim)
    BY DEF ReadLine
  <1> DEFINE L == Lines(claim)
             limit == LineLimit(claim)
  <1>3. printed \in Seq(L) /\ claim \in Claims /\ limit \in Nat
        /\ stream = [text |-> <<>>, at |-> 0, read |-> Unread]
    BY <1>2, PrintAssumption DEF ReadersInv, LineLimit
  <1>4. printed' \in Seq(L) /\ Len(printed') <= limit
    <2> HIDE DEF L, limit
    <2> QED BY <1>1, <1>2, <1>3 DEF L, limit
  <1> QED BY <1>2, <1>3, <1>4 DEF ReadersInv

LEMMA EndOfFileRead ==
  ASSUME ReadersInv, EndOfFile, ~Throw
  PROVE  ReadersInv'
  <1>1. /\ claim' = claim /\ pc' = "compiling" /\ printed' = printed /\ pc = "engine"
        /\ printed # <<>>
    BY DEF EndOfFile
  <1>2. PICK text \in Texts : stream' = [stream EXCEPT !.text = text]
    BY DEF EndOfFile
  <1>3. stream' = [text |-> text, at |-> 0, read |-> Unread]
    BY <1>1, <1>2 DEF ReadersInv
  <1>4. /\ text \in Seq(Lines(claim) \cup LineEnd) /\ Readline(text) = Characters
        /\ HasActions(claim) => Tidy(text)
    BY <1>1, TextsAreRead
  <1>5. PICK f : Fed(Lines(claim), text, f)
    BY <1>4, FedExists
  <1>6. Reads(f, 0, Unread)
    <2>1. f[0] = NoPieces
      BY <1>5 DEF Fed, Iterates
    <2> QED BY <2>1 DEF Reads, Unread, NoPieces
  <1>7. 0 \in 0..Len(text)
    BY <1>4
  <1>8. Characters' = Characters
    BY <1>1 DEF Characters
  <1>9. Compiled'
    BY <1>1, <1>3, <1>4, <1>5, <1>6, <1>7, <1>8 DEF Compiled
  <1> QED BY <1>1, <1>9 DEF ReadersInv

LEMMA CompileChunkRead ==
  ASSUME ReadersInv, CompileChunk
  PROVE  ReadersInv'
  <1>1. claim' = claim /\ pc' = pc /\ printed' = printed /\ pc = "compiling" /\ Compiled
    BY DEF CompileChunk, ReadersInv
  <1> DEFINE text == stream.text
             at == stream.at
             L == Lines(claim)
  <1>2. PICK n \in Nat : /\ at + n <= Len(text)
                         /\ stream' = [text |-> text, at |-> at + n,
                                       read |-> ReadChunk(stream.read, SubSeq(text, at + 1, at + n))]
    <2>1. PICK n \in IF Len(printed) > MaxCutLines THEN {Len(text)} ELSE 0..MaxChunk :
             /\ at + n <= Len(text)
             /\ stream' = [stream EXCEPT !.at = @ + n,
                                         !.read = ReadChunk(@, SubSeq(text, at + 1, at + n))]
      BY DEF CompileChunk
    <2>2. n \in Nat
      BY <1>1, PrintAssumption DEF Compiled
    <2>3. stream = [text |-> text, at |-> at, read |-> stream.read]
      BY <1>1 DEF Compiled
    <2> DEFINE read == stream.read
               x == ReadChunk(read, SubSeq(text, at + 1, at + n))
    <2>4. stream = [text |-> text, at |-> at, read |-> read]
          /\ stream' = [stream EXCEPT !.at = @ + n,
                                      !.read = ReadChunk(@, SubSeq(text, at + 1, at + n))]
      BY <2>1, <2>3
    <2> HIDE DEF text, at, read
    <2>5. stream' = [text |-> text, at |-> at + n, read |-> x]
      BY <2>4
    <2> QED BY <2>1, <2>2, <2>5 DEF read
  <1>3. /\ text \in Seq(L \cup LineEnd) /\ Readline(text) = Characters
        /\ HasActions(claim) => Tidy(text)
        /\ at \in 0..Len(text)
    BY <1>1 DEF Compiled
  <1>4. PICK f : Fed(L, text, f) /\ Reads(f, at, stream.read)
    BY <1>1 DEF Compiled
  <1>5. L \cap LineEnd = {}
    BY LinesAreNoLineEnds DEF ReadersInv
  <1>6. Len(text) \in Nat /\ at \in Nat
    BY <1>3
  <1> DEFINE read == stream.read
  <1> HIDE DEF text, at, L, read
  <1>7. Reads(f, at + n, ReadChunk(read, SubSeq(text, at + 1, at + n)))
    BY <1>2, <1>3, <1>4, <1>5, <1>6, ChunkFeeds DEF read
  <1>8. at + n \in 0..Len(text)
    BY <1>2, <1>3, <1>6
  <1>9. Characters' = Characters
    BY <1>1 DEF Characters
  <1>10. Compiled'
    BY <1>1, <1>2, <1>3, <1>4, <1>7, <1>8, <1>9 DEF Compiled, L, read
  <1> QED BY <1>1, <1>10 DEF ReadersInv

LEMMA StepRead == ReadersInv /\ [Next]_vars => ReadersInv'
  <1> SUFFICES ASSUME ReadersInv, [Next]_vars PROVE ReadersInv'
    OBVIOUS
  <1>1. CASE Throw
    BY <1>1, ThrowRead
  <1>2. ASSUME UNCHANGED <<claim, printed, stream>>,
               \/ pc' = pc
               \/ pc = "claimed" /\ pc' = "preparing"
               \/ pc = "preparing" /\ pc' = "engine"
               \/ pc = "compiling" /\ pc' = "publishing" /\ stream.at = Len(stream.text)
               \/ pc = "publishing" /\ pc' = "done"
        PROVE  ReadersInv'
    BY <1>2 DEF ReadersInv, Compiled, Characters
  <1> USE DEF fileVars
  <1>3. CASE Validate
    BY <1>1, <1>2, <1>3 DEF Validate
  <1>4. CASE PrepareObject
    BY <1>2, <1>4 DEF PrepareObject, Sliced
  <1>5. CASE SharePaint
    BY <1>2, <1>5 DEF SharePaint, Sliced
  <1>6. CASE PaintObject
    BY <1>2, <1>6 DEF PaintObject, Sliced
  <1>7. CASE Package
    BY <1>2, <1>7 DEF Package
  <1>8. CASE EngineStep
    BY <1>2, <1>8 DEF EngineStep
  <1>9. CASE ReadLine /\ ~Throw
    BY <1>9, ReadLineRead
  <1>10. CASE EndOfFile /\ ~Throw
    BY <1>10, EndOfFileRead
  <1>11. CASE CompileChunk
    BY <1>11, CompileChunkRead
  <1>12. CASE Manifest
    BY <1>2, <1>12 DEF Manifest
  <1>13. CASE Publish
    BY <1>2, <1>13 DEF Publish
  <1>14. CASE Fails
    BY <1>1, <1>14 DEF Fails
  <1>15. CASE UNCHANGED vars
    BY <1>2, <1>15 DEF vars
  <1> QED
    BY <1>1, <1>3, <1>4, <1>5, <1>6, <1>7, <1>8, <1>9, <1>10, <1>11, <1>12, <1>13, <1>14,
       <1>15 DEF Next

THEOREM ReadersInvariance == Spec => []ReadersInv
  BY InitRead, StepRead, PTL DEF Spec

\* However the native engine ends its lines, and wherever the stream is cut,
\* the preview is made from the lines that the summary counted, and, if there
\* are layer actions, that their readers found.
THEOREM LinesAreCountedAlike == Spec => []ReadersCountTheSameLines
  <1>1. ASSUME ReadersInv PROVE ReadersCountTheSameLines
    <2> SUFFICES ASSUME pc = "publishing"
                 PROVE  /\ Batches(stream.read) = Characters
                        /\ HasActions(claim) => LinesOfText(stream.text) = Characters
      BY DEF ReadersCountTheSameLines
    <2> DEFINE text == stream.text
               L == Lines(claim)
    <2>1. /\ text \in Seq(L \cup LineEnd) /\ Readline(text) = Characters
          /\ HasActions(claim) => Tidy(text)
          /\ stream.at = Len(text)
      BY <1>1 DEF ReadersInv, Compiled
    <2>2. PICK f : Fed(L, text, f) /\ Reads(f, stream.at, stream.read)
      BY <1>1 DEF ReadersInv, Compiled
    <2>3. L \cap LineEnd = {}
      BY <1>1, LinesAreNoLineEnds DEF ReadersInv
    <2> HIDE DEF text, L
    <2>4. Batches(stream.read) = Readline(text)
      <3>1. FoldLeft(Feed, NoPieces, text) = f[Len(text)]
        BY <2>1, <2>2, FoldOfFeed
      <3> QED BY <2>1, <2>2, <3>1 DEF Batches, Readline, Split, All, Reads
    <2>5. HasActions(claim) => LinesOfText(text) = Readline(text)
      BY <2>1, <2>3, TidyTexts
    <2> QED BY <2>1, <2>4, <2>5 DEF text
  <1> QED BY <1>1, ReadersInvariance, PTL

-----------------------------------------------------------------------------
(* The trees of a paint.                                                   *)

Trees == Seq({"0", "3", "4", "8"})

\* Where a tree may begin, and what may be left once it is read.
Starts(n) == [rest : 0..n, depth : 0..(MaxDepth + 1), nodes : 0..MaxNodes]
Rests(n)  == [ok : BOOLEAN, rest : 0..n, nodes : 0..MaxNodes]

Unreadable(tree, at) == at.nodes = MaxNodes \/ at.depth > MaxDepth \/ at.rest = 0

TokenRead(at) == [ok |-> TRUE, rest |-> at.rest - 1, nodes |-> at.nodes + 1]

Below(at, r) == [rest |-> r.rest, depth |-> at.depth + 1, nodes |-> r.nodes]

Child(f, at, r) == IF r.ok THEN f[Below(at, r)] ELSE Broken

TreeFrom(tree, f, at) ==
    IF Unreadable(tree, at) THEN Broken
    ELSE IF tree[at.rest] # "3" THEN TokenRead(at)
    ELSE Child(f, at, Child(f, at, Child(f, at, Child(f, at, TokenRead(at)))))

\* The function that Read defines.
ReadBy(tree, f) ==
    /\ f \in [Starts(Len(tree)) -> Rests(Len(tree))]
    /\ \A at \in Starts(Len(tree)) : f[at] = TreeFrom(tree, f, at)

LEMMA LimitsAreNat == MaxNodes \in Nat /\ MaxDepth \in Nat
  BY PaintAssumption

LEMMA ReadTypes ==
  ASSUME NEW tree, NEW n \in Nat, NEW at \in Starts(n)
  PROVE  /\ Broken \in Rests(n)
         /\ ~Unreadable(tree, at) => /\ TokenRead(at) \in Rests(n)
                                  /\ \A r \in Rests(n) : Below(at, r) \in Starts(n)
  <1>1. /\ at.rest \in 0..n /\ at.depth \in 0..(MaxDepth + 1) /\ at.nodes \in 0..MaxNodes
    BY DEF Starts
  <1>2. 0 \in 0..n /\ 0 \in 0..MaxNodes
    BY LimitsAreNat
  <1>3. Broken \in Rests(n)
    BY <1>2 DEF Broken, Rests
  <1>4. ASSUME ~Unreadable(tree, at)
        PROVE  at.rest - 1 \in 0..n /\ at.nodes + 1 \in 0..MaxNodes
               /\ at.depth + 1 \in 0..(MaxDepth + 1)
    BY <1>1, <1>4, LimitsAreNat DEF Unreadable
  <1>5. ASSUME ~Unreadable(tree, at) PROVE TokenRead(at) \in Rests(n)
    BY <1>4, <1>5 DEF TokenRead, Rests
  <1>6. ASSUME ~Unreadable(tree, at), NEW r \in Rests(n) PROVE Below(at, r) \in Starts(n)
    BY <1>4, <1>6 DEF Below, Rests, Starts
  <1> QED BY <1>3, <1>5, <1>6

\* What the deeper trees leave decides what this one does.
LEMMA TreeFromType ==
  ASSUME NEW tree, NEW n \in Nat, NEW at \in Starts(n), NEW f,
         \A y \in Starts(n) : y.depth = at.depth + 1 => f[y] \in Rests(n)
  PROVE  /\ TreeFrom(tree, f, at) \in Rests(n)
         /\ ~Unreadable(tree, at) => \A r \in Rests(n) : Child(f, at, r) \in Rests(n)
  <1>1. CASE Unreadable(tree, at)
    BY <1>1, ReadTypes DEF TreeFrom
  <1>2. CASE ~Unreadable(tree, at)
    <2>1. TokenRead(at) \in Rests(n)
      BY <1>2, ReadTypes
    <2>2. ASSUME NEW r \in Rests(n) PROVE Child(f, at, r) \in Rests(n)
      <3>1. Below(at, r) \in Starts(n) /\ Broken \in Rests(n)
        BY <1>2, ReadTypes
      <3>2. Below(at, r).depth = at.depth + 1
        BY DEF Below
      <3> QED BY <3>1, <3>2 DEF Child
    <2> QED BY <1>2, <2>1, <2>2 DEF TreeFrom
  <1> QED BY <1>1, <1>2

LEMMA ReadRecursion ==
  ASSUME NEW tree \in Trees
  PROVE  \E f : /\ ReadBy(tree, f)
                /\ \A used : Read(tree, used) =
                                f[[rest |-> Len(tree), depth |-> 0, nodes |-> used]]
  <1> DEFINE n == Len(tree)
             D == Starts(n)
             X == [D -> Rests(n)]
             F == [f \in X |-> [at \in D |-> TreeFrom(tree, f, at)]]
             m == [at \in D |-> MaxDepth + 1 - at.depth]
             body(f) == [at \in D |-> TreeFrom(tree, f, at)]
             read == CHOOSE f : f = body(f)
  <1>1. n \in Nat
    BY DEF Trees
  <1> HIDE DEF n
  <1>2. F \in [X -> X]
    BY <1>1, TreeFromType
  <1>3. m \in [D -> 0..(MaxDepth + 1)] /\ MaxDepth + 1 \in Nat
    BY LimitsAreNat DEF Starts
  <1>4. X # {}
    <2>1. Broken \in Rests(n)
      <3>1. 0 \in 0..n /\ 0 \in 0..MaxNodes
        BY <1>1, LimitsAreNat
      <3> QED BY <3>1 DEF Broken, Rests
    <2>2. [at \in D |-> Broken] \in X
      BY <2>1
    <2> QED BY <2>2
  <1>5. ASSUME NEW f \in X, NEW g \in X, NEW at \in D, \A y \in D : m[y] < m[at] => f[y] = g[y]
        PROVE  TreeFrom(tree, f, at) = TreeFrom(tree, g, at)
    <2>1. CASE Unreadable(tree, at)
      BY <2>1 DEF TreeFrom
    <2>2. CASE ~Unreadable(tree, at)
      <3>1. TokenRead(at) \in Rests(n) /\ \A r \in Rests(n) : Below(at, r) \in D
        BY <1>1, <2>2, ReadTypes
      <3>2. \A r \in Rests(n) : m[Below(at, r)] < m[at]
        <4>1. at.depth \in 0..(MaxDepth + 1)
          BY DEF Starts
        <4>2. \A r : Below(at, r).depth = at.depth + 1
          BY DEF Below
        <4> QED BY <3>1, <4>1, <4>2, LimitsAreNat
      <3>3. \A r \in Rests(n) : Child(f, at, r) = Child(g, at, r)
        <4> HIDE DEF m, D
        <4> QED BY <1>5, <3>1, <3>2 DEF Child
      <3>4. \A r \in Rests(n) : Child(f, at, r) \in Rests(n)
        BY <1>1, <2>2, TreeFromType
      <3> HIDE DEF m, D, X
      <3> QED BY <2>2, <3>1, <3>3, <3>4 DEF TreeFrom
    <2> QED BY <2>1, <2>2
  <1>6. Looks(F, D, m, X)
    <2> HIDE DEF m, D
    <2> QED BY <1>5 DEF Looks
  <1>7. PICK h \in X : h = F[h]
    <2>1. Measured(F, D, Rests(n), m, MaxDepth + 1)
      <3> HIDE DEF F, D, m
      <3> QED BY <1>2, <1>3, <1>4, <1>6 DEF Measured
    <2> HIDE DEF F, D, m
    <2> QED BY <2>1, MeasuredRecursion
  <1>8. h = body(h)
    <2> HIDE DEF D
    <2> QED BY <1>7
  <1>9. read = body(read)
    <2> HIDE DEF body
    <2> QED BY <1>8
  <1>10. \A used : Read(tree, used) = read[[rest |-> n, depth |-> 0, nodes |-> used]]
    BY DEF Read, TreeFrom, Unreadable, TokenRead, Child, Below, Starts, n
  <1> HIDE DEF read
  <1>11. DOMAIN read = D /\ \A at \in D : read[at] = TreeFrom(tree, read, at)
    <2> HIDE DEF D
    <2> QED BY <1>9
  <1> DEFINE T == {k \in Nat : \A at \in D : m[at] < k => read[at] \in Rests(n)}
  <1>12. 0 \in T
    <2> HIDE DEF D, m
    <2>1. \A at \in D : ~(m[at] < 0)
      BY <1>3
    <2> QED BY <2>1
  <1>13. ASSUME NEW k \in T PROVE k + 1 \in T
    <2> SUFFICES ASSUME NEW at \in D, m[at] < k + 1 PROVE read[at] \in Rests(n)
      OBVIOUS
    <2>1. ASSUME NEW y \in D, y.depth = at.depth + 1 PROVE read[y] \in Rests(n)
      <3>1. at.depth \in Int /\ MaxDepth \in Int /\ k \in Int
        BY LimitsAreNat DEF Starts
      <3>2. m[y] < k
        BY <2>1, <3>1
      <3> HIDE DEF m, D
      <3> QED BY <3>2
    <2> QED BY <1>1, <1>11, <2>1, TreeFromType
  <1>14. T = Nat
    <2>1. T \subseteq Nat
      OBVIOUS
    <2> HIDE DEF T
    <2> QED BY <1>12, <1>13, <2>1, AllNat
  <1>15. \A at \in D : read[at] \in Rests(n)
    <2>1. MaxDepth + 2 \in T
      <3> HIDE DEF T
      <3> QED BY <1>14, LimitsAreNat
    <2>2. \A at \in D : m[at] < MaxDepth + 2
      <3> HIDE DEF m, D
      <3> QED BY <1>3, LimitsAreNat
    <2> HIDE DEF m, D
    <2> QED BY <2>1, <2>2
  <1>16. ReadBy(tree, read)
    <2> HIDE DEF D
    <2>1. read \in [D -> Rests(n)]
      <3>1. read = [at \in D |-> read[at]]
        BY <1>9
      <3> QED BY <1>15, <3>1
    <2> QED BY <1>11, <2>1 DEF ReadBy, D, n
  <1> QED BY <1>10, <1>16 DEF n

\* The divided tokens among the last k.
DividedIn(tree, k) == {j \in (Len(tree) - k + 1)..Len(tree) : tree[j] = "3"}

LEMMA OwedCounts ==
  ASSUME NEW tree \in Trees, NEW k \in 0..Len(tree)
  PROVE  /\ Cardinality(DividedIn(tree, k)) \in Nat /\ IsFiniteSet(DividedIn(tree, k))
         /\ Owed(tree, k) = 1 + 4 * Cardinality(DividedIn(tree, k)) - k
  <1> DEFINE n == Len(tree)
             read == SubSeq(tree, n - k + 1, n)
             here == {i \in DOMAIN read : read[i] = "3"}
             move == [i \in here |-> n - k + i]
  <1>1. n \in Nat /\ k \in Nat /\ k <= n /\ DOMAIN tree = 1..n
    BY DEF Trees
  <1>2. DOMAIN read = 1..k /\ \A i \in 1..k : read[i] = tree[n - k + i]
    <2>1. n - k + 1 \in Int /\ n \in Int /\ \A i \in (n - k + 1)..n : i \in 1..n
      BY <1>1
    <2>2. \A i \in 1..n : tree[i] \in {"0", "3", "4", "8"}
      BY DEF Trees
    <2>3. /\ read \in Seq({"0", "3", "4", "8"})
          /\ Len(read) = IF n - k + 1 <= n THEN n - (n - k + 1) + 1 ELSE 0
          /\ \A i \in 1..(n - (n - k + 1) + 1) : read[i] = tree[(n - k + 1) + i - 1]
      <3> DEFINE S == {"0", "3", "4", "8"}
                 a == n - k + 1
      <3>1. \A i \in a..n : tree[i] \in S
        BY <2>1, <2>2
      <3>2. a \in Int /\ n \in Int
        BY <2>1
      <3> HIDE DEF n, S, a
      <3>3. /\ SubSeq(tree, a, n) \in Seq(S)
            /\ Len(SubSeq(tree, a, n)) = IF a <= n THEN n - a + 1 ELSE 0
            /\ \A i \in 1..(n - a + 1) : SubSeq(tree, a, n)[i] = tree[a + i - 1]
        BY <3>1, <3>2, SubSeqProperties
      <3> QED BY <3>3 DEF S, a
    <2>4. Len(read) = k /\ DOMAIN read = 1..Len(read)
      <3> HIDE DEF n, read
      <3> QED BY <1>1, <2>3
    <2>5. n - (n - k + 1) + 1 = k /\ \A i \in 1..k : (n - k + 1) + i - 1 = n - k + i
      <3> HIDE DEF n
      <3> QED BY <1>1
    <2> HIDE DEF n, read
    <2> QED BY <2>3, <2>4, <2>5
  <1> HIDE DEF n, read
  <1>3. move \in Bijection(here, DividedIn(tree, k))
    <2>1. \A i \in here : n - k + i \in DividedIn(tree, k)
      BY <1>1, <1>2 DEF DividedIn, n
    <2>2. \A j \in DividedIn(tree, k) : j - (n - k) \in here /\ (n - k) + (j - (n - k)) = j
      <3> SUFFICES ASSUME NEW j \in DividedIn(tree, k)
                   PROVE  j - (n - k) \in here /\ (n - k) + (j - (n - k)) = j
        OBVIOUS
      <3>1. j \in (n - k + 1)..n /\ tree[j] = "3"
        BY DEF DividedIn, n
      <3>2. j - (n - k) \in 1..k /\ n - k + (j - (n - k)) = j
        BY <1>1, <3>1
      <3> QED BY <1>2, <3>1, <3>2
    <2>3. \A i, j \in here : move[i] = move[j] => i = j
      BY <1>1, <1>2
    <2>4. move \in [here -> DividedIn(tree, k)]
      BY <2>1
    <2>5. \A j \in DividedIn(tree, k) : \E i \in here : move[i] = j
      BY <2>2
    <2> HIDE DEF here, move
    <2> QED BY <2>3, <2>4, <2>5 DEF Bijection, Injection, Surjection, IsInjective
  <1>4. IsFiniteSet(here)
    <2>1. here \in SUBSET (1..k) /\ IsFiniteSet(1..k)
      BY <1>1, <1>2, FS_Interval
    <2> QED BY <2>1, FS_Subset
  <1>5. IsFiniteSet(DividedIn(tree, k)) /\ Cardinality(DividedIn(tree, k)) = Cardinality(here)
    <2> HIDE DEF here, move
    <2> QED BY <1>3, <1>4, FS_Bijection DEF ExistsBijection
  <1>6. Cardinality(here) \in Nat
    <2> HIDE DEF here
    <2> QED BY <1>4, FS_CardinalityType
  <1>7. Owed(tree, k) = 1 + 3 * Cardinality(here) - (k - Cardinality(here))
    BY DEF Owed, read, n
  <1> HIDE DEF here
  <1> QED BY <1>1, <1>5, <1>6, <1>7

LEMMA OwedSteps ==
  ASSUME NEW tree \in Trees
  PROVE  /\ Owed(tree, 0) = 1
         /\ \A k \in 0..Len(tree) : Owed(tree, k) \in Int
         /\ \A k \in 1..Len(tree) :
               Owed(tree, k) = IF tree[Len(tree) - k + 1] = "3"
                               THEN Owed(tree, k - 1) + 3 ELSE Owed(tree, k - 1) - 1
  <1> DEFINE n == Len(tree)
             c(k) == Cardinality(DividedIn(tree, k))
  <1>1. n \in Nat
    BY DEF Trees
  <1> HIDE DEF n
  <1>2. \A k \in 0..n : /\ c(k) \in Nat /\ IsFiniteSet(DividedIn(tree, k))
                        /\ Owed(tree, k) = 1 + 4 * c(k) - k
    BY OwedCounts DEF n
  <1>3. c(0) = 0
    <2>1. DividedIn(tree, 0) = {}
      BY <1>1 DEF DividedIn, n
    <2> QED BY <2>1, FS_EmptySet
  <1>4. ASSUME NEW k \in 1..n
        PROVE  c(k) = IF tree[n - k + 1] = "3" THEN c(k - 1) + 1 ELSE c(k - 1)
    <2> DEFINE j == n - k + 1
               before == DividedIn(tree, k - 1)
    <2>1. j \in Int /\ j..n = {j} \cup ((n - (k - 1) + 1)..n) /\ j \notin (n - (k - 1) + 1)..n
      BY <1>1
    <2>2. DividedIn(tree, k) = IF tree[j] = "3" THEN before \cup {j} ELSE before
      BY <2>1 DEF DividedIn, n
    <2>3. j \notin before
      BY <2>1 DEF DividedIn, n
    <2>4. IsFiniteSet(before)
      <3>1. k - 1 \in 0..n
        BY <1>1
      <3> QED BY <1>2, <3>1
    <2> HIDE DEF before, j
    <2>5. Cardinality(before \cup {j}) = Cardinality(before) + 1
      BY <2>3, <2>4, FS_AddElement
    <2> QED BY <2>2, <2>5 DEF before, j
  <1>5. \A k \in 1..n : k \in 0..n /\ k - 1 \in 0..n
    BY <1>1
  <1> HIDE DEF c
  <1>6. Owed(tree, 0) = 1
    BY <1>1, <1>2, <1>3
  <1>7. ASSUME NEW k \in 1..n
        PROVE  Owed(tree, k) = IF tree[n - k + 1] = "3"
                               THEN Owed(tree, k - 1) + 3 ELSE Owed(tree, k - 1) - 1
    <2>1. /\ c(k) \in Nat /\ c(k - 1) \in Nat
          /\ Owed(tree, k) = 1 + 4 * c(k) - k
          /\ Owed(tree, k - 1) = 1 + 4 * c(k - 1) - (k - 1)
      BY <1>2, <1>5
    <2> QED BY <1>4, <2>1
  <1>8. \A k \in 0..n : Owed(tree, k) \in Int
    BY <1>2
  <1> QED BY <1>6, <1>7, <1>8 DEF n

\* Reading that began after a tokens owes so many more trees, if it goes on;
\* on the way it never owed fewer than when it began.
Owes(tree, a, more, r) ==
    r.ok => LET b == Len(tree) - r.rest
            IN /\ a < b /\ Owed(tree, b) = Owed(tree, a) + more
               /\ \A k \in a..(b - 1) : Owed(tree, k) >= Owed(tree, a)

LEMMA ChildIsOwed ==
  ASSUME NEW tree \in Trees, NEW a \in 0..Len(tree), NEW more \in Nat,
         NEW r \in Rests(Len(tree)), r.ok, Owes(tree, a, more, r),
         NEW c \in Rests(Len(tree)), Owes(tree, Len(tree) - r.rest, -1, c)
  PROVE  Owes(tree, a, more - 1, c)
  <1> DEFINE n == Len(tree)
             b == n - r.rest
             z == n - c.rest
  <1>1. SUFFICES ASSUME c.ok
                 PROVE  /\ a < z /\ Owed(tree, z) = Owed(tree, a) + (more - 1)
                        /\ \A k \in a..(z - 1) : Owed(tree, k) >= Owed(tree, a)
    BY DEF Owes
  <1>2. n \in Nat /\ r.rest \in 0..n /\ c.rest \in 0..n
    BY DEF Trees, Rests
  <1>3. b \in 0..n /\ z \in 0..n /\ a \in 0..n
    BY <1>2
  <1>4. \A k \in 0..n : Owed(tree, k) \in Int
    BY OwedSteps
  <1>5. /\ a < b /\ Owed(tree, b) = Owed(tree, a) + more
        /\ \A k \in a..(b - 1) : Owed(tree, k) >= Owed(tree, a)
    BY DEF Owes
  <1>6. /\ b < z /\ Owed(tree, z) = Owed(tree, b) + (-1)
        /\ \A k \in b..(z - 1) : Owed(tree, k) >= Owed(tree, b)
    BY <1>1 DEF Owes
  <1> HIDE DEF n, b, z
  <1>7. Owed(tree, a) \in Int /\ Owed(tree, b) \in Int /\ Owed(tree, z) \in Int
    BY <1>3, <1>4
  <1>8. ASSUME NEW k \in a..(z - 1) PROVE Owed(tree, k) >= Owed(tree, a)
    <2>1. CASE k \in a..(b - 1)
      BY <1>5, <2>1
    <2>2. CASE k \notin a..(b - 1)
      <3>1. k \in b..(z - 1) /\ k \in 0..n
        BY <1>2, <1>3, <2>2
      <3>2. Owed(tree, k) >= Owed(tree, b) /\ Owed(tree, k) \in Int
        BY <1>4, <1>6, <3>1
      <3> QED BY <1>5, <1>7, <3>2
    <2> QED BY <2>1, <2>2
  <1>9. a < z /\ Owed(tree, z) = Owed(tree, a) + (more - 1)
    BY <1>2, <1>3, <1>5, <1>6, <1>7
  <1> QED BY <1>8, <1>9

\* One token: three trees more if it is divided, one fewer if not.
LEMMA TokenIsOwed ==
  ASSUME NEW tree \in Trees, NEW at \in Starts(Len(tree)), ~Unreadable(tree, at)
  PROVE  Owes(tree, Len(tree) - at.rest, IF tree[at.rest] = "3" THEN 3 ELSE -1, TokenRead(at))
  <1> DEFINE n == Len(tree)
             a == n - at.rest
             more == IF tree[at.rest] = "3" THEN 3 ELSE -1
  <1>1. n \in Nat /\ at.rest \in 0..n /\ at.rest # 0
    BY DEF Trees, Starts, Unreadable
  <1>2. n - TokenRead(at).rest = a + 1
    <2>1. TokenRead(at).rest = at.rest - 1
      BY DEF TokenRead
    <2> QED BY <1>1, <2>1
  <1>3. a + 1 \in 1..n /\ (a + 1) - 1 = a /\ n - (a + 1) + 1 = at.rest /\ a \in 0..n
    BY <1>1
  <1> HIDE DEF n, a
  <1>4. Owed(tree, a + 1) = Owed(tree, a) + more /\ Owed(tree, a) \in Int
    <2>1. /\ Owed(tree, a) \in Int
          /\ Owed(tree, a + 1) = IF tree[n - (a + 1) + 1] = "3"
                                 THEN Owed(tree, (a + 1) - 1) + 3 ELSE Owed(tree, (a + 1) - 1) - 1
      BY <1>3, OwedSteps DEF n
    <2>2. Owed(tree, a + 1) = IF tree[at.rest] = "3" THEN Owed(tree, a) + 3 ELSE Owed(tree, a) - 1
      BY <1>3, <2>1
    <2> QED BY <2>1, <2>2
  <1>5. \A k \in a..((a + 1) - 1) : k = a
    BY <1>3
  <1>6. a < a + 1 /\ \A k \in a..((a + 1) - 1) : Owed(tree, k) >= Owed(tree, a)
    BY <1>3, <1>4, <1>5
  <1> HIDE DEF more
  <1>7. Owes(tree, a, more, TokenRead(at))
    BY <1>2, <1>4, <1>6 DEF Owes, n
  <1> QED BY <1>7 DEF a, n, more

LEMMA TreesAreOwed ==
  ASSUME NEW tree \in Trees, NEW f, ReadBy(tree, f)
  PROVE  \A at \in Starts(Len(tree)) : Owes(tree, Len(tree) - at.rest, -1, f[at])
  <1> DEFINE n == Len(tree)
             D == Starts(n)
             T == {k \in Nat : \A at \in D : at.rest < k => Owes(tree, n - at.rest, -1, f[at])}
  <1>1. n \in Nat
    BY DEF Trees
  <1>2. /\ \A at \in D : f[at] \in Rests(n) /\ f[at] = TreeFrom(tree, f, at)
        /\ \A at \in D : at.rest \in 0..n
    BY DEF ReadBy, Starts
  <1>3. \A a : Owes(tree, a, -1, Broken)
    BY DEF Owes, Broken
  <1>4. 0 \in T
    BY <1>2
  <1>5. ASSUME NEW i \in T PROVE i + 1 \in T
    <2> SUFFICES ASSUME NEW at \in D, at.rest < i + 1
                 PROVE  Owes(tree, n - at.rest, -1, f[at])
      OBVIOUS
    <2> DEFINE a == n - at.rest
    <2>1. i \in Nat /\ \A y \in D : y.rest < i => Owes(tree, n - y.rest, -1, f[y])
      OBVIOUS
    <2>2. a \in 0..n
      BY <1>1, <1>2
    <2> HIDE DEF T, D, n
    <2>3. CASE Unreadable(tree, at)
      BY <1>2, <1>3, <2>3 DEF TreeFrom
    <2>4. CASE ~Unreadable(tree, at)
      <3>1. TokenRead(at) \in Rests(n) /\ TokenRead(at).ok
        BY <1>1, <2>4, ReadTypes DEF TokenRead, D
      <3>2. \A r \in Rests(n) : Child(f, at, r) \in Rests(n)
        <4>1. \A y \in D : y.depth = at.depth + 1 => f[y] \in Rests(n)
          BY <1>2
        <4> QED BY <1>1, <2>4, <4>1, TreeFromType DEF D
      <3>3. ASSUME NEW r \in Rests(n), NEW more \in Nat, Owes(tree, a, more, r)
            PROVE  Owes(tree, a, more - 1, Child(f, at, r))
        <4>1. CASE r.ok
          <5> DEFINE y == Below(at, r)
          <5>1. y \in D /\ y.rest = r.rest
            <6>1. y \in D
              BY <1>1, <2>4, ReadTypes DEF D
            <6> QED BY <6>1 DEF Below
          <5> HIDE DEF y
          <5>2. r.rest < i
            <6>1. a < n - r.rest
              BY <3>3, <4>1 DEF Owes, n
            <6>2. r.rest \in 0..n /\ at.rest \in 0..n
              BY <1>2 DEF Rests
            <6> QED BY <1>1, <2>1, <6>1, <6>2
          <5>3. Owes(tree, n - r.rest, -1, f[y]) /\ f[y] \in Rests(n)
            BY <1>2, <2>1, <5>1, <5>2
          <5>4. Owes(tree, a, more - 1, f[y])
            <6> HIDE DEF a
            <6> QED BY <2>2, <3>3, <4>1, <5>3, ChildIsOwed DEF n
          <5> QED BY <4>1, <5>4 DEF Child, y
        <4>2. CASE ~r.ok
          BY <4>2 DEF Child, Owes, Broken
        <4> QED BY <4>1, <4>2
      <3>4. Owes(tree, a, IF tree[at.rest] = "3" THEN 3 ELSE -1, TokenRead(at))
        BY <2>4, TokenIsOwed DEF D, n
      <3> DEFINE r0 == TokenRead(at)
                 r1 == Child(f, at, r0)
                 r2 == Child(f, at, r1)
                 r3 == Child(f, at, r2)
                 r4 == Child(f, at, r3)
      <3>5. CASE tree[at.rest] # "3"
        <4>1. f[at] = r0
          BY <1>2, <2>4, <3>5 DEF TreeFrom
        <4> QED BY <3>4, <3>5, <4>1
      <3>6. CASE tree[at.rest] = "3"
        <4>1. f[at] = r4
          BY <1>2, <2>4, <3>6 DEF TreeFrom
        <4>2. r0 \in Rests(n) /\ Owes(tree, a, 3, r0)
          BY <3>1, <3>4, <3>6
        <4> HIDE DEF r0, a
        <4>3. r1 \in Rests(n) /\ Owes(tree, a, 2, r1)
          <5>1. Owes(tree, a, 3 - 1, r1) /\ 3 - 1 = 2
            BY <3>3, <4>2
          <5> QED BY <3>2, <4>2, <5>1
        <4> HIDE DEF r1
        <4>4. r2 \in Rests(n) /\ Owes(tree, a, 1, r2)
          <5>1. Owes(tree, a, 2 - 1, r2) /\ 2 - 1 = 1
            BY <3>3, <4>3
          <5> QED BY <3>2, <4>3, <5>1
        <4> HIDE DEF r2
        <4>5. r3 \in Rests(n) /\ Owes(tree, a, 0, r3)
          <5>1. Owes(tree, a, 1 - 1, r3) /\ 1 - 1 = 0
            BY <3>3, <4>4
          <5> QED BY <3>2, <4>4, <5>1
        <4> HIDE DEF r3
        <4>6. Owes(tree, a, 0 - 1, r4) /\ 0 - 1 = -1
          BY <3>3, <4>5
        <4> HIDE DEF r4
        <4> QED BY <4>1, <4>6 DEF a
      <3> QED BY <3>5, <3>6
    <2> QED BY <2>3, <2>4
  <1>6. T = Nat
    <2>1. T \subseteq Nat
      OBVIOUS
    <2> HIDE DEF T
    <2> QED BY <1>4, <1>5, <2>1, AllNat
  <1>7. n + 1 \in T
    <2> HIDE DEF T
    <2> QED BY <1>1, <1>6
  <1>8. \A at \in D : at.rest < n + 1
    BY <1>1, <1>2
  <1> QED BY <1>7, <1>8

\* What is read as a whole tree is one.
LEMMA WholeIsTree ==
  ASSUME NEW tree \in Trees, NEW used \in 0..MaxNodes
  PROVE  /\ Read(tree, used) \in Rests(Len(tree))
         /\ Read(tree, used).ok /\ Read(tree, used).rest = 0 => IsTree(tree)
  <1> DEFINE n == Len(tree)
             at == [rest |-> n, depth |-> 0, nodes |-> used]
  <1>1. n \in Nat
    BY DEF Trees
  <1>2. PICK f : ReadBy(tree, f) /\ Read(tree, used) = f[at]
    BY ReadRecursion
  <1>3. at \in Starts(n)
    <2>1. n \in 0..n /\ 0 \in 0..(MaxDepth + 1)
      BY <1>1, LimitsAreNat
    <2> HIDE DEF n
    <2> QED BY <2>1 DEF Starts
  <1>4. Owes(tree, n - n, -1, f[at]) /\ f[at] \in Rests(n)
    <2>1. Owes(tree, n - at.rest, -1, f[at])
      <3> HIDE DEF at
      <3> QED BY <1>2, <1>3, TreesAreOwed
    <2>2. f[at] \in Rests(n)
      BY <1>2, <1>3 DEF ReadBy
    <2> QED BY <2>1, <2>2
  <1>5. ASSUME f[at].ok, f[at].rest = 0 PROVE IsTree(tree)
    <2>1. n - n = 0 /\ n - 0 = n
      BY <1>1
    <2> HIDE DEF at
    <2>2. /\ Owed(tree, n) = Owed(tree, 0) + (-1)
          /\ \A k \in 0..(n - 1) : Owed(tree, k) >= Owed(tree, 0)
      BY <1>4, <1>5, <2>1 DEF Owes
    <2>3. Owed(tree, 0) = 1 /\ \A k \in 0..n : Owed(tree, k) \in Int
      BY OwedSteps
    <2>4. \A k \in 0..(n - 1) : k \in 0..n
      BY <1>1
    <2> HIDE DEF n
    <2>5. Owed(tree, n) = 0
      BY <2>2, <2>3
    <2>6. \A k \in 0..(n - 1) : Owed(tree, k) > 0
      <3> TAKE k \in 0..(n - 1)
      <3>1. Owed(tree, k) \in Int /\ Owed(tree, k) >= 1
        BY <2>2, <2>3, <2>4
      <3> QED BY <3>1
    <2> QED BY <2>5, <2>6 DEF IsTree, n
  <1> QED BY <1>2, <1>4, <1>5

Records == [facet : Nat, tree : Trees]

IsWhole(r) == r.ok /\ r.rest = 0

NextTree(r, record) == IF IsWhole(r) THEN Read(record.tree, r.nodes) ELSE Broken

NothingRead == [ok |-> TRUE, rest |-> 0, nodes |-> 0]

AnyRest == [ok : BOOLEAN, rest : Nat, nodes : 0..MaxNodes]

LEMMA NextTreeType ==
  ASSUME NEW r \in AnyRest, NEW record \in Records
  PROVE  NextTree(r, record) \in AnyRest
  <1>1. record.tree \in Trees /\ r.nodes \in 0..MaxNodes
    BY DEF Records, AnyRest
  <1>2. Read(record.tree, r.nodes) \in Rests(Len(record.tree))
    BY <1>1, WholeIsTree
  <1>3. Len(record.tree) \in Nat
    BY <1>1 DEF Trees
  <1>4. \A n \in Nat : \A x \in Rests(n) : x \in AnyRest
    BY DEF Rests, AnyRest
  <1>5. Broken \in AnyRest
    BY LimitsAreNat DEF Broken, AnyRest
  <1> QED BY <1>2, <1>3, <1>4, <1>5 DEF NextTree

\* The trees of all records, one after the other.
LEMMA FoldOfTrees ==
  ASSUME NEW data \in Seq(Records)
  PROVE  \E f : /\ f[0] = NothingRead
                /\ \A i \in 0..Len(data) : f[i] \in AnyRest
                /\ \A i \in 1..Len(data) : f[i] = NextTree(f[i - 1], data[i])
                /\ f[Len(data)] = FoldLeft(NextTree, NothingRead, data)
  <1> DEFINE n == Len(data)
             X == AnyRest
             next == [i \in 1..n |-> [r \in X |-> NextTree(r, data[i])]]
             body(g) == [S \in SUBSET (1..n) |->
                            IF S = {} THEN NothingRead
                            ELSE NextTree(g[S \ {Max(S)}], data[Max(S)])]
             iter == CHOOSE g : g = body(g)
  <1>1. n \in Nat /\ DOMAIN data = 1..n /\ \A i \in 1..n : data[i] \in Records
    OBVIOUS
  <1>2. FoldLeft(NextTree, NothingRead, data) = iter[1..n]
    BY <1>1 DEF FoldLeft, MapThenFoldSet
  <1> HIDE DEF n
  <1>3. NothingRead \in X
    <2>1. 0 \in Nat /\ 0 \in 0..MaxNodes
      BY LimitsAreNat
    <2> QED BY <2>1 DEF NothingRead, AnyRest
  <1>4. next \in [1..n -> [X -> X]]
    <2> HIDE DEF X
    <2>1. \A i \in 1..n : \A r \in X : NextTree(r, data[i]) \in X
      BY <1>1, NextTreeType DEF X
    <2> QED BY <2>1
  <1>5. PICK f : Iterates(f, n, X, NothingRead, next)
    <2> HIDE DEF X, next
    <2> QED BY <1>1, <1>3, <1>4, RecursionUpTo
  <1>6. \A i \in 1..n : \A r \in X : next[i][r] = NextTree(r, data[i])
    <2> HIDE DEF X
    <2> QED OBVIOUS
  <1> HIDE DEF X, next
  <1>7. \E h : h = body(h)
    <2>1. PICK h : FoldsBy(h, X, NothingRead, n, next)
      BY <1>1, <1>3, <1>4, FoldExists
    <2>2. \A S \in (SUBSET (1..n)) \ {{}} : h[S \ {Max(S)}] \in X
      BY <2>1 DEF FoldsBy
    <2>3. \A S \in (SUBSET (1..n)) \ {{}} : h[S] = NextTree(h[S \ {Max(S)}], data[Max(S)])
      BY <1>6, <2>1, <2>2 DEF FoldsBy
    <2>4. h = body(h)
      BY <2>1, <2>3 DEF FoldsBy
    <2> QED BY <2>4
  <1>8. iter = body(iter)
    <2> HIDE DEF body
    <2> QED BY <1>7
  <1> HIDE DEF iter
  <1>9. Folding(iter, X, NothingRead, n, next)
    <2>1. \A S \in (SUBSET (1..n)) \ {{}} : Max(S) \in 1..n
      BY <1>1, GreatestOf
    <2>2. iter[{}] = NothingRead
      BY <1>8
    <2>3. \A S \in (SUBSET (1..n)) \ {{}} :
             iter[S] = NextTree(iter[S \ {Max(S)}], data[Max(S)])
      BY <1>8
    <2> QED BY <1>6, <2>1, <2>2, <2>3 DEF Folding
  <1> HIDE DEF body
  <1>10. iter[1..n] = f[n]
    <2>1. n \in Nat
      BY <1>1
    <2> QED BY <1>3, <1>4, <1>5, <1>9, <2>1, FoldEnds
  <1>11. f[0] = NothingRead /\ \A i \in 0..n : f[i] \in X
    BY <1>5 DEF Iterates
  <1>12. \A i \in 1..n : f[i] = NextTree(f[i - 1], data[i])
    <2>1. \A i \in 1..n : i - 1 \in 0..n
      BY <1>1
    <2> QED BY <1>5, <1>6, <1>11, <2>1 DEF Iterates
  <1> QED BY <1>2, <1>10, <1>11, <1>12 DEF n, X

LEMMA DataIsTrees ==
  ASSUME NEW paint, paint.data \in Seq(Records), DataValid(paint)
  PROVE  \A r \in ToSet(paint.data) : IsTree(r.tree)
  <1> DEFINE data == paint.data
             n == Len(data)
  <1>1. n \in Nat /\ DOMAIN data = 1..n /\ \A i \in 1..n : data[i] \in Records
    OBVIOUS
  <1>2. IsWhole(FoldLeft(NextTree, NothingRead, data))
    BY DEF DataValid, IsWhole, NextTree, NothingRead
  <1> HIDE DEF data
  <1>3. PICK f : /\ f[0] = NothingRead
                 /\ \A i \in 0..n : f[i] \in AnyRest
                 /\ \A i \in 1..n : f[i] = NextTree(f[i - 1], data[i])
                 /\ f[n] = FoldLeft(NextTree, NothingRead, data)
    BY FoldOfTrees DEF data
  <1> HIDE DEF n
  <1> DEFINE T == {k \in Nat : k <= n => IsWhole(f[n - k])}
  <1>4. 0 \in T
    <2>1. n - 0 = n
      BY <1>1
    <2> QED BY <1>2, <1>3, <2>1
  <1>5. ASSUME NEW k \in T PROVE k + 1 \in T
    <2> SUFFICES ASSUME k + 1 <= n PROVE IsWhole(f[n - (k + 1)])
      OBVIOUS
    <2>1. n - k \in 1..n /\ (n - k) - 1 = n - (k + 1) /\ k <= n
      BY <1>1
    <2>2. IsWhole(f[n - k])
      BY <2>1
    <2>3. f[n - k] = NextTree(f[n - (k + 1)], data[n - k])
      BY <1>3, <2>1
    <2>4. ~IsWhole(Broken)
      BY DEF IsWhole, Broken
    <2> QED BY <2>2, <2>3, <2>4 DEF NextTree
  <1>6. T = Nat
    <2>1. T \subseteq Nat
      OBVIOUS
    <2> HIDE DEF T
    <2> QED BY <1>4, <1>5, <2>1, AllNat
  <1>7. \A i \in 0..n : IsWhole(f[i])
    <2> TAKE i \in 0..n
    <2>1. n - i \in Nat /\ n - i <= n /\ n - (n - i) = i
      BY <1>1
    <2>2. n - i \in T
      <3> HIDE DEF T
      <3> QED BY <1>6, <2>1
    <2> QED BY <2>1, <2>2
  <1>8. ASSUME NEW i \in 1..n PROVE IsTree(data[i].tree)
    <2>1. i \in 0..n /\ i - 1 \in 0..n
      BY <1>1
    <2>2. data[i].tree \in Trees /\ f[i - 1].nodes \in 0..MaxNodes
      <3>1. data[i] \in Records /\ f[i - 1] \in AnyRest
        BY <1>1, <1>3, <2>1
      <3> QED BY <3>1 DEF Records, AnyRest
    <2>3. f[i] = Read(data[i].tree, f[i - 1].nodes)
      BY <1>3, <1>7, <2>1 DEF NextTree
    <2>4. f[i].ok /\ f[i].rest = 0
      BY <1>7, <2>1 DEF IsWhole
    <2> QED BY <2>2, <2>3, <2>4, WholeIsTree
  <1> QED BY <1>1, <1>8 DEF ToSet, data

-----------------------------------------------------------------------------
(* The mesh that is painted.                                               *)

Facets == [1..3 -> Int]

NextVertex(seen, v) == IF Contains(seen, v) THEN seen ELSE Append(seen, v)

LEMMA NextVertexHolds ==
  ASSUME NEW seen \in Seq(Int), NEW v \in Int
  PROVE  /\ NextVertex(seen, v) \in Seq(Int)
         /\ ToSet(seen) \subseteq ToSet(NextVertex(seen, v)) /\ v \in ToSet(NextVertex(seen, v))
  <1>1. CASE Contains(seen, v)
    BY <1>1 DEF NextVertex, Contains, ToSet
  <1>2. CASE ~Contains(seen, v)
    <2> DEFINE u == Append(seen, v)
               n == Len(seen)
    <2>1. /\ u \in Seq(Int) /\ Len(u) = n + 1 /\ n \in Nat /\ DOMAIN seen = 1..n
          /\ DOMAIN u = 1..(n + 1) /\ u[n + 1] = v /\ \A i \in 1..n : u[i] = seen[i]
      OBVIOUS
    <2> HIDE DEF u, n
    <2>2. \A i \in 1..n : i \in 1..(n + 1)
      BY <2>1
    <2>3. n + 1 \in 1..(n + 1)
      BY <2>1
    <2>4. ToSet(seen) \subseteq ToSet(u) /\ v \in ToSet(u)
      BY <2>1, <2>2, <2>3 DEF ToSet
    <2> QED BY <1>2, <2>1, <2>4 DEF NextVertex, u
  <1> QED BY <1>1, <1>2

\* Every point is a vertex.
LEMMA FoldOfVertices ==
  ASSUME NEW points \in Seq(Int)
  PROVE  /\ FoldLeft(NextVertex, <<>>, points) \in Seq(Int)
         /\ ToSet(points) \subseteq ToSet(FoldLeft(NextVertex, <<>>, points))
  <1> DEFINE n == Len(points)
             X == Seq(Int)
             next == [i \in 1..n |-> [s \in X |-> NextVertex(s, points[i])]]
             body(g) == [S \in SUBSET (1..n) |->
                            IF S = {} THEN <<>>
                            ELSE NextVertex(g[S \ {Max(S)}], points[Max(S)])]
             iter == CHOOSE g : g = body(g)
  <1>1. n \in Nat /\ DOMAIN points = 1..n /\ \A i \in 1..n : points[i] \in Int
    OBVIOUS
  <1>2. FoldLeft(NextVertex, <<>>, points) = iter[1..n]
    BY <1>1 DEF FoldLeft, MapThenFoldSet
  <1> HIDE DEF n
  <1>3. <<>> \in X
    OBVIOUS
  <1>4. next \in [1..n -> [X -> X]]
    <2> HIDE DEF X
    <2>1. \A i \in 1..n : \A s \in X : NextVertex(s, points[i]) \in X
      BY <1>1, NextVertexHolds DEF X
    <2> QED BY <2>1
  <1>5. PICK f : Iterates(f, n, X, <<>>, next)
    <2> HIDE DEF X, next
    <2>1. n \in Nat
      BY <1>1
    <2> QED BY <1>3, <1>4, <2>1, RecursionUpTo
  <1>6. \A i \in 1..n : \A s \in X : next[i][s] = NextVertex(s, points[i])
    <2> HIDE DEF X
    <2> QED OBVIOUS
  <1> HIDE DEF X, next
  <1>7. \E h : h = body(h)
    <2>1. PICK h : FoldsBy(h, X, <<>>, n, next)
      BY <1>1, <1>3, <1>4, FoldExists
    <2>2. \A S \in (SUBSET (1..n)) \ {{}} : h[S \ {Max(S)}] \in X
      BY <2>1 DEF FoldsBy
    <2>3. \A S \in (SUBSET (1..n)) \ {{}} : h[S] = NextVertex(h[S \ {Max(S)}], points[Max(S)])
      BY <1>6, <2>1, <2>2 DEF FoldsBy
    <2>4. h = body(h)
      BY <2>1, <2>3 DEF FoldsBy
    <2> QED BY <2>4
  <1>8. iter = body(iter)
    <2> HIDE DEF body
    <2> QED BY <1>7
  <1> HIDE DEF iter
  <1>9. Folding(iter, X, <<>>, n, next)
    <2>1. \A S \in (SUBSET (1..n)) \ {{}} : Max(S) \in 1..n
      BY <1>1, GreatestOf
    <2>2. iter[{}] = <<>>
      BY <1>8
    <2>3. \A S \in (SUBSET (1..n)) \ {{}} :
             iter[S] = NextVertex(iter[S \ {Max(S)}], points[Max(S)])
      BY <1>8
    <2> QED BY <1>6, <2>1, <2>2, <2>3 DEF Folding
  <1> HIDE DEF body
  <1>10. iter[1..n] = f[n]
    <2>1. n \in Nat
      BY <1>1
    <2> QED BY <1>3, <1>4, <1>5, <1>9, <2>1, FoldEnds
  <1>11. /\ \A i \in 0..n : f[i] \in X
         /\ \A i \in 1..n : f[i] = NextVertex(f[i - 1], points[i])
    <2>1. \A i \in 0..n : f[i] \in X
      BY <1>5 DEF Iterates
    <2>2. \A i \in 1..n : i - 1 \in 0..n
      BY <1>1
    <2> QED BY <1>5, <1>6, <2>1, <2>2 DEF Iterates
  <1> DEFINE Held(i) == \A j \in 1..i : points[j] \in ToSet(f[i])
             T == {k \in Nat : k <= n => Held(k)}
  <1>12. 0 \in T
    OBVIOUS
  <1>13. ASSUME NEW k \in T PROVE k + 1 \in T
    <2> SUFFICES ASSUME k + 1 <= n PROVE Held(k + 1)
      OBVIOUS
    <2>1. k \in Nat /\ k + 1 \in 1..n /\ k \in 0..n /\ (k + 1) - 1 = k /\ Held(k)
      BY <1>1
    <2>2. f[k] \in Seq(Int) /\ points[k + 1] \in Int /\ f[k + 1] = NextVertex(f[k], points[k + 1])
      BY <1>1, <1>11, <2>1 DEF X
    <2>3. ToSet(f[k]) \subseteq ToSet(f[k + 1]) /\ points[k + 1] \in ToSet(f[k + 1])
      BY <2>2, NextVertexHolds
    <2>4. \A j \in 1..(k + 1) : j \in 1..k \/ j = k + 1
      BY <2>1
    <2> QED BY <2>1, <2>3, <2>4
  <1>14. T = Nat
    <2>1. T \subseteq Nat
      OBVIOUS
    <2> HIDE DEF T
    <2> QED BY <1>12, <1>13, <2>1, AllNat
  <1>15. Held(n) /\ n \in 0..n
    <2>1. n \in T /\ n \in 0..n
      <3> HIDE DEF T
      <3> QED BY <1>1, <1>14
    <2> QED BY <1>1, <2>1
  <1>16. ToSet(points) \subseteq ToSet(f[n])
    BY <1>1, <1>15 DEF ToSet
  <1> QED BY <1>2, <1>10, <1>11, <1>15, <1>16 DEF X

LEMMA VerticesHold ==
  ASSUME NEW stl \in Seq(Facets), stl # <<>>
  PROVE  /\ Vertices(stl) \in Seq(Int) /\ ToSet(Vertices(stl)) # {}
         /\ \A i \in 1..Len(stl) : \A k \in 1..3 : stl[i][k] \in ToSet(Vertices(stl))
  <1> DEFINE points == FlattenSeq(stl)
             n == Len(stl)
  <1>1. n \in Nat /\ n >= 1 /\ \A i \in 1..n : stl[i] \in Facets
    OBVIOUS
  <1>2. ASSUME NEW f \in Facets PROVE f \in Seq(Int) /\ DOMAIN f = 1..3
    <2>1. 3 \in Nat /\ f \in [1..3 -> Int]
      BY DEF Facets
    <2>2. \A m \in Nat : \A g \in [1..m -> Int] : g \in Seq(Int)
      OBVIOUS
    <2> QED BY <2>1, <2>2
  <1>3. stl \in Seq(Seq(Int))
    <2> DEFINE Y == Seq(Int)
    <2>1. Facets \subseteq Y
      BY <1>2
    <2> HIDE DEF Y
    <2>2. stl \in Seq(Y)
      BY <2>1
    <2> QED BY <2>2 DEF Y
  <1>4. /\ points \in Seq(Int)
        /\ \A i \in 1..n : ToSet(stl[i]) \subseteq ToSet(points)
    BY <1>3, FlattenHolds
  <1> HIDE DEF points
  <1>5. Vertices(stl) = FoldLeft(NextVertex, <<>>, points)
    BY DEF Vertices, NextVertex, points
  <1>6. Vertices(stl) \in Seq(Int) /\ ToSet(points) \subseteq ToSet(Vertices(stl))
    BY <1>4, <1>5, FoldOfVertices
  <1> HIDE DEF n
  <1>7. \A i \in 1..n : \A k \in 1..3 : stl[i][k] \in ToSet(stl[i])
    BY <1>1, <1>2 DEF ToSet
  <1>8. \A i \in 1..n : \A k \in 1..3 : stl[i][k] \in ToSet(Vertices(stl))
    BY <1>4, <1>6, <1>7
  <1>9. ToSet(Vertices(stl)) # {}
    <2>1. 1 \in 1..n /\ 1 \in 1..3
      BY <1>1
    <2> QED BY <1>8, <2>1
  <1> QED BY <1>6, <1>8, <1>9 DEF n

\* The index of a vertex leads back to it.
LEMMA IndexLeadsBack ==
  ASSUME NEW vertices \in Seq(Int), NEW v \in ToSet(vertices)
  PROVE  Index(vertices, v) + 1 \in 1..Len(vertices) /\ vertices[Index(vertices, v) + 1] = v
  <1> DEFINE I == {i \in 1..Len(vertices) : vertices[i] = v}
  <1>1. I \in SUBSET Nat /\ I # {}
    BY DEF ToSet
  <1>2. \E x \in I : \A y \in I : x <= y
    <2> HIDE DEF I
    <2> QED BY <1>1, LeastNat
  <1>3. Min(I) \in I
    <2> HIDE DEF I
    <2>1. Min(I) = CHOOSE x \in I : \A y \in I : x <= y
      BY DEF Min
    <2> QED BY <1>2, <2>1, Zenon
  <1>4. Index(vertices, v) = Min(I) - 1
    BY <1>1 DEF Index, SelectInSeq
  <1>5. Min(I) \in 1..Len(vertices) /\ vertices[Min(I)] = v
    <2> DEFINE m == Min(I)
    <2>1. m \in I
      BY <1>3
    <2> HIDE DEF m
    <2> QED BY <2>1 DEF m
  <1> HIDE DEF I
  <1>6. Index(vertices, v) + 1 = Min(I)
    BY <1>4, <1>5
  <1> QED BY <1>5, <1>6

-----------------------------------------------------------------------------
(* What comes back.                                                        *)

LEMMA DistinctDiffer ==
  ASSUME NEW n \in Nat, NEW c, DOMAIN c = 1..n, c = [i \in 1..n |-> c[i]], Distinct(c)
  PROVE  Cardinality(ToSet(c)) = n /\ \A i, j \in 1..n : c[i] = c[j] => i = j
  <1>1. Len(c) = n /\ c \in Surjection(1..n, ToSet(c))
    BY FamilyLength
  <1>2. Cardinality(ToSet(c)) = n
    BY <1>1 DEF Distinct
  <1>3. IsFiniteSet(1..n) /\ Cardinality(1..n) = n
    BY FS_Interval
  <1>4. c \in Injection(1..n, ToSet(c))
    BY <1>1, <1>2, <1>3, FS_SurjSameCardinalityImpliesInj
  <1>5. \A i, j \in 1..n : c[i] = c[j] => i = j
    BY <1>4 DEF Injection, IsInjective
  <1> QED BY <1>2, <1>5

LEMMA CenterIsInt ==
  ASSUME NEW mesh, mesh.vertices \in Seq(Int), ToSet(mesh.vertices) # {}
  PROVE  Center(mesh) \in Int
  <1> DEFINE s == mesh.vertices
  <1>1. Len(s) \in Nat /\ DOMAIN s = 1..Len(s) /\ s = [i \in 1..Len(s) |-> s[i]]
        /\ \A i \in 1..Len(s) : s[i] \in Int
    OBVIOUS
  <1>2. ToSet(s) \in SUBSET Int
    BY <1>1 DEF ToSet
  <1> HIDE DEF s
  <1>3. IsFiniteSet(ToSet(s))
    BY <1>1, FamilyLength
  <1>4. Min(ToSet(s)) \in Int /\ Max(ToSet(s)) \in Int
    BY <1>2, <1>3, FiniteBounds DEF s
  <1> QED BY <1>4 DEF Center, s

MeshFacets == [v : [1..3 -> Int], paint : Trees]

IsMesh(mesh) == mesh.vertices \in Seq(Int) /\ mesh.triangles \in Seq(MeshFacets)

\* What is painted has the corners of the source.
LEMMA PaintedCorners ==
  ASSUME NEW stl \in Seq(Facets), stl # <<>>, NEW paint, NEW shift \in Int
  PROVE  LET sent == Corners(Painted(stl, paint), shift)
         IN /\ DOMAIN sent = 1..Len(stl) /\ sent = [i \in 1..Len(stl) |-> sent[i]]
            /\ \A i \in 1..Len(stl) : /\ sent[i] = [k \in 1..3 |-> stl[i][k] - shift]
                                      /\ Painted(stl, paint).triangles[i].paint =
                                            Annotation(paint, i - 1)
  <1> DEFINE n == Len(stl)
             before == Painted(stl, paint)
             vs == Vertices(stl)
             sent == Corners(before, shift)
  <1>1. n \in Nat /\ DOMAIN stl = 1..n /\ \A i \in 1..n : stl[i] \in Facets
    OBVIOUS
  <1> HIDE DEF n
  <1>2. /\ before.vertices = vs /\ DOMAIN before.triangles = 1..n
        /\ \A i \in 1..n : /\ before.triangles[i].v = [k \in 1..3 |-> Index(vs, stl[i][k])]
                           /\ before.triangles[i].paint = Annotation(paint, i - 1)
    <2> HIDE DEF vs
    <2> QED BY <1>1 DEF Painted, Mesh, Annotated, vs
  <1> HIDE DEF before
  <1>3. vs \in Seq(Int) /\ \A i \in 1..n : \A k \in 1..3 : stl[i][k] \in ToSet(vs)
    BY VerticesHold DEF n
  <1> HIDE DEF vs
  <1>4. \A i \in 1..n : \A k \in 1..3 : vs[before.triangles[i].v[k] + 1] = stl[i][k]
    <2> SUFFICES ASSUME NEW i \in 1..n, NEW k \in 1..3
                 PROVE  vs[before.triangles[i].v[k] + 1] = stl[i][k]
      OBVIOUS
    <2>1. before.triangles[i].v[k] = Index(vs, stl[i][k])
      BY <1>2
    <2>2. vs[Index(vs, stl[i][k]) + 1] = stl[i][k]
      BY <1>3, IndexLeadsBack
    <2> QED BY <2>1, <2>2
  <1>5. sent = [i \in 1..n |-> [k \in 1..3 |-> vs[before.triangles[i].v[k] + 1] - shift]]
    BY <1>2 DEF Corners
  <1>6. \A i \in 1..n : sent[i] = [k \in 1..3 |-> stl[i][k] - shift]
    <2> HIDE DEF sent
    <2> TAKE i \in 1..n
    <2>1. sent[i] = [k \in 1..3 |-> vs[before.triangles[i].v[k] + 1] - shift]
      BY <1>5
    <2> QED BY <1>4, <2>1
  <1> HIDE DEF sent
  <1>7. DOMAIN sent = 1..n /\ sent = [i \in 1..n |-> sent[i]]
    BY <1>5
  <1> QED BY <1>2, <1>6, <1>7 DEF sent, before, n

\* In what comes back, in either frame.
LEMMA MeshCorners ==
  ASSUME NEW mesh, IsMesh(mesh), InRange(mesh), NEW shift \in Int
  PROVE  LET received == Corners(mesh, 0)
             placed == Corners(mesh, -shift)
             m == Len(mesh.triangles)
         IN /\ m \in Nat /\ DOMAIN mesh.triangles = 1..m
            /\ DOMAIN received = 1..m /\ received = [j \in 1..m |-> received[j]]
            /\ DOMAIN placed = 1..m /\ placed = [j \in 1..m |-> placed[j]]
            /\ \A j \in 1..m : received[j] \in Facets
            /\ \A j \in 1..m : placed[j] = [k \in 1..3 |-> received[j][k] + shift]
  <1> DEFINE ts == mesh.triangles
             vs == mesh.vertices
             m == Len(ts)
             at(j, k) == vs[ts[j].v[k] + 1]
             received == Corners(mesh, 0)
             placed == Corners(mesh, -shift)
  <1>1. m \in Nat /\ DOMAIN ts = 1..m /\ ts \in Seq(MeshFacets)
    BY DEF IsMesh
  <1>2. \A i \in 1..Len(vs) : vs[i] \in Int
    BY DEF IsMesh
  <1>3. Len(vs) \in Nat
    BY DEF IsMesh
  <1>4. \A j \in 1..m : \A k \in 1..3 : ts[j].v[k] \in 0..(Len(vs) - 1)
    BY <1>1 DEF InRange, ToSet
  <1>5. received = [j \in 1..m |-> [k \in 1..3 |-> at(j, k) - 0]]
    BY <1>1 DEF Corners
  <1>6. placed = [j \in 1..m |-> [k \in 1..3 |-> at(j, k) - (-shift)]]
    BY <1>1 DEF Corners
  <1> HIDE DEF ts, vs, m, received, placed
  <1>7. \A j \in 1..m : \A k \in 1..3 : at(j, k) \in Int
    <2> TAKE j \in 1..m
    <2> TAKE k \in 1..3
    <2>1. ts[j].v[k] \in 0..(Len(vs) - 1)
      BY <1>4
    <2>2. ts[j].v[k] + 1 \in 1..Len(vs)
      BY <1>3, <2>1
    <2> QED BY <1>2, <2>2
  <1> HIDE DEF at
  <1>8. \A j \in 1..m : \A k \in 1..3 :
           at(j, k) - 0 = at(j, k) /\ at(j, k) - (-shift) = at(j, k) + shift
    <2>1. \A x \in Int : x - 0 = x /\ x - (-shift) = x + shift
      OBVIOUS
    <2> QED BY <1>7, <2>1
  <1>9. \A j \in 1..m : received[j] = [k \in 1..3 |-> at(j, k)]
    BY <1>5, <1>8
  <1>10. \A j \in 1..m : received[j] \in Facets
    BY <1>7, <1>9 DEF Facets
  <1>11. \A j \in 1..m : placed[j] = [k \in 1..3 |-> at(j, k) + shift]
    BY <1>6, <1>8
  <1>12. \A j \in 1..m : \A k \in 1..3 : received[j][k] = at(j, k)
    BY <1>9
  <1>13. \A j \in 1..m : placed[j] = [k \in 1..3 |-> received[j][k] + shift]
    BY <1>11, <1>12
  <1>14. /\ DOMAIN received = 1..m /\ received = [j \in 1..m |-> received[j]]
         /\ DOMAIN placed = 1..m /\ placed = [j \in 1..m |-> placed[j]]
    BY <1>5, <1>6
  <1> QED BY <1>1, <1>10, <1>13, <1>14 DEF received, placed, m, ts

\* A mesh that passes the comparison holds the source and its paint.
LEMMA RoundtripSurvives ==
  ASSUME NEW stl \in Seq(Facets), NEW paint, paint.data \in Seq(Records), CanPaint(stl, paint),
         NEW mesh, IsMesh(mesh), Roundtrip(Painted(stl, paint), mesh)
  PROVE  Survives(stl, paint, mesh)
  <1> DEFINE before == Painted(stl, paint)
             n == Len(stl)
             m == Len(mesh.triangles)
             center == Center(before)
             native == Matrix(1, center)
             shift == IF mesh.frame = Identity THEN 0 ELSE native.t
             sent == Corners(before, shift)
             received == Corners(mesh, 0)
             placed == Corners(mesh, -mesh.frame.t)
  <1>1. n \in Nat /\ n >= 1 /\ DOMAIN stl = 1..n /\ (\A i \in 1..n : stl[i] \in Facets)
        /\ n = paint.count
    BY DEF CanPaint, StlValid
  <1>2. stl # <<>>
    BY <1>1
  <1>3. before.vertices = Vertices(stl)
    <2> DEFINE vs == Vertices(stl)
    <2> HIDE DEF vs
    <2> QED BY DEF Painted, Mesh, vs
  <1>4. center \in Int
    <2>1. before.vertices \in Seq(Int) /\ ToSet(before.vertices) # {}
      BY <1>2, <1>3, VerticesHold
    <2> HIDE DEF before
    <2> QED BY <2>1, CenterIsInt
  <1>5. /\ mesh.frame \in {Identity, native} /\ InRange(mesh)
        /\ Distinct(sent) /\ Distinct(received) /\ ToSet(sent) = ToSet(received)
        /\ \A i \in DOMAIN sent : \A j \in DOMAIN received :
              sent[i] = received[j] => before.triangles[i].paint = mesh.triangles[j].paint
    BY DEF Roundtrip
  <1> HIDE DEF center
  <1>6. shift \in Int /\ mesh.frame.t = shift
    BY <1>4, <1>5 DEF Identity, Matrix
  <1> HIDE DEF native, shift, n
  <1>7. /\ DOMAIN sent = 1..n /\ sent = [i \in 1..n |-> sent[i]]
        /\ \A i \in 1..n : /\ sent[i] = [k \in 1..3 |-> stl[i][k] - shift]
                           /\ before.triangles[i].paint = Annotation(paint, i - 1)
    BY <1>2, <1>6, PaintedCorners DEF n
  <1>17. placed = Corners(mesh, -shift)
    BY <1>6
  <1>8. /\ m \in Nat /\ DOMAIN received = 1..m /\ received = [j \in 1..m |-> received[j]]
        /\ DOMAIN placed = 1..m /\ placed = [j \in 1..m |-> placed[j]]
        /\ \A j \in 1..m : received[j] \in Facets
        /\ \A j \in 1..m : placed[j] = [k \in 1..3 |-> received[j][k] + shift]
    <2>1. InRange(mesh) /\ shift \in Int
      BY <1>5, <1>6
    <2>2. received = Corners(mesh, 0) /\ m = Len(mesh.triangles)
      OBVIOUS
    <2> HIDE DEF received, placed, m
    <2> QED BY <1>17, <2>1, <2>2, MeshCorners
  <1> HIDE DEF sent, received, placed, before, m
  <1>9. Cardinality(ToSet(sent)) = n
    BY <1>1, <1>5, <1>7, DistinctDiffer
  <1>10. Cardinality(ToSet(received)) = m /\ \A i, j \in 1..m : received[i] = received[j] => i = j
    BY <1>5, <1>8, DistinctDiffer
  <1>11. Len(placed) = n
    <2>1. Len(placed) = m
      BY <1>8, FamilyLength
    <2> QED BY <1>5, <1>9, <1>10, <2>1
  <1>12. \A i \in 1..n : \A j \in 1..m : placed[j] = stl[i] <=> received[j] = sent[i]
    <2> TAKE i \in 1..n
    <2> TAKE j \in 1..m
    <2> DEFINE a == stl[i]
               b == received[j]
               there == placed[j]
               back == sent[i]
    <2>1. a \in Facets /\ b \in Facets /\ shift \in Int
      BY <1>1, <1>6, <1>8
    <2>2. /\ there = [k \in 1..3 |-> b[k] + shift]
          /\ back = [k \in 1..3 |-> a[k] - shift]
      BY <1>7, <1>8
    <2> HIDE DEF a, b, there, back
    <2>3. \A k \in 1..3 : a[k] \in Int /\ b[k] \in Int
      BY <2>1 DEF Facets
    <2>4. \A k \in 1..3 : b[k] + shift = a[k] <=> b[k] = a[k] - shift
      <3>1. \A x, y \in Int : y + shift = x <=> y = x - shift
        BY <2>1
      <3> QED BY <2>3, <3>1
    <2>5. a = [k \in 1..3 |-> a[k]] /\ b = [k \in 1..3 |-> b[k]]
      BY <2>1 DEF Facets
    <2>6. there = a <=> \A k \in 1..3 : b[k] + shift = a[k]
      BY <2>2, <2>5
    <2>7. b = back <=> \A k \in 1..3 : b[k] = a[k] - shift
      BY <2>2, <2>5
    <2>8. there = a <=> b = back
      BY <2>4, <2>6, <2>7
    <2> QED BY <2>8 DEF a, b, there, back
  <1>13. ASSUME NEW i \in 1..n
         PROVE  \E j \in 1..m :
                   /\ mesh.triangles[j].paint = AskedPaint(paint, i - 1)
                   /\ \A k \in 1..m : placed[k] = stl[i] <=> k = j
    <2>1. sent[i] \in ToSet(received)
      BY <1>5, <1>7 DEF ToSet
    <2>2. PICK j \in 1..m : received[j] = sent[i]
      BY <1>8, <2>1 DEF ToSet
    <2>3. mesh.triangles[j].paint = Annotation(paint, i - 1)
      BY <1>5, <1>7, <1>8, <2>2
    <2>4. Annotation(paint, i - 1) = AskedPaint(paint, i - 1)
      BY DEF Annotation, AskedPaint, ToSet
    <2>5. \A k \in 1..m : placed[k] = stl[i] <=> k = j
      BY <1>10, <1>12, <2>2
    <2> QED BY <2>3, <2>4, <2>5
  <1>14. DataValid(paint)
    BY DEF CanPaint, PaintValid
  <1>15. ASSUME NEW r \in ToSet(paint.data) PROVE IsTree(r.tree) /\ r.facet \in 0..(n - 1)
    <2>1. IsTree(r.tree)
      BY <1>14, DataIsTrees
    <2>2. PICK i \in DOMAIN paint.data : r = paint.data[i]
      BY DEF ToSet
    <2>3. r \in Records
      BY <2>2
    <2>4. r.facet \in Nat
      BY <2>3 DEF Records
    <2>5. r.facet < n
      BY <1>1, <1>14, <2>2 DEF DataValid
    <2> QED BY <1>1, <2>1, <2>4, <2>5
  <1>16. /\ \A r \in ToSet(paint.data) : IsTree(r.tree) /\ r.facet \in 0..(n - 1)
         /\ Len(placed) = n
         /\ \A i \in 1..n : \E j \in 1..m :
               /\ mesh.triangles[j].paint = AskedPaint(paint, i - 1)
               /\ \A k \in 1..m : placed[k] = stl[i] <=> k = j
    BY <1>11, <1>13, <1>15
  <1>18. /\ \A r \in ToSet(paint.data) : IsTree(r.tree) /\ r.facet \in 0..(Len(stl) - 1)
         /\ Len(placed) = Len(stl)
         /\ \A i \in DOMAIN stl : \E j \in DOMAIN placed :
               /\ mesh.triangles[j].paint = AskedPaint(paint, i - 1)
               /\ \A k \in DOMAIN placed : placed[k] = stl[i] <=> k = j
    <2>1. DOMAIN stl = 1..n /\ DOMAIN placed = 1..m /\ n = Len(stl)
      BY <1>1, <1>8 DEF n
    <2> QED BY <1>16, <2>1
  <1> QED BY <1>18 DEF Survives, placed

\* Nothing is painted but objects of the claim, each from its own paint.
PaintInv ==
    /\ claim \in Claims
    /\ \E X : sources \in Seq(X)
    /\ PaintSurvives

LEMMA InitPainted == Init => PaintInv
  <1> SUFFICES ASSUME Init PROVE PaintInv
    OBVIOUS
  <1>1. sources \in Seq({})
    BY DEF Init
  <1>2. DOMAIN meshes = {}
    BY DEF Init
  <1> QED BY <1>1, <1>2 DEF Init, PaintInv, PaintSurvives

LEMMA SamePaint ==
  ASSUME PaintInv, UNCHANGED <<claim, sources, meshes>>
  PROVE  PaintInv'
  BY DEF PaintInv, PaintSurvives, Objects

LEMMA SlicedGrows ==
  ASSUME NEW doc, Sliced(doc), \E X : sources \in Seq(X)
  PROVE  (\E X : sources' \in Seq(X)) /\ claim' = claim
  <1>1. PICK X : sources \in Seq(X)
    OBVIOUS
  <1>2. sources' = Append(sources, doc) /\ claim' = claim
    BY DEF Sliced
  <1>3. sources \in Seq(X \cup {doc}) /\ doc \in X \cup {doc}
    BY <1>1, SeqMonotonic
  <1> DEFINE Y == X \cup {doc}
  <1> HIDE DEF Y
  <1>4. Append(sources, doc) \in Seq(Y)
    <2>1. sources \in Seq(Y) /\ doc \in Y
      BY <1>3 DEF Y
    <2> QED BY <2>1
  <1> QED BY <1>2, <1>4

\* One more painted object.
LEMMA OneMorePainted ==
  ASSUME PaintSurvives, claim' = claim, NEW n, n = Len(sources) + 1, NEW mesh, Accepted(mesh),
         Survives(Stls[Objects[n].file], Objects[n].paint, mesh)
  PROVE  PaintSurvives'
  <1>1. \A i \in DOMAIN meshes' : IF i = n THEN meshes'[i] = mesh
                                  ELSE i \in DOMAIN meshes /\ meshes'[i] = meshes[i]
    BY DEF Accepted
  <1>2. Objects' = Objects
    BY DEF Objects
  <1>3. ASSUME NEW i \in DOMAIN meshes'
        PROVE  Survives(Stls[Objects[i].file], Objects[i].paint, meshes'[i])
    BY <1>1, <1>3 DEF PaintSurvives
  <1> QED BY <1>2, <1>3 DEF PaintSurvives

LEMMA StepPainted == PaintInv /\ [Next]_vars => PaintInv'
  <1> SUFFICES ASSUME PaintInv, [Next]_vars PROVE PaintInv'
    OBVIOUS
  <1> DEFINE n == Len(sources) + 1
  <1>0. PaintSurvives /\ claim \in Claims /\ \E X : sources \in Seq(X)
    BY DEF PaintInv
  <1>1. CASE PrepareObject
    <2>1. PICK doc : Sliced(doc) /\ UNCHANGED meshes
      BY <1>1 DEF PrepareObject
    <2>2. (\E X : sources' \in Seq(X)) /\ claim' = claim
      BY <1>0, <2>1, SlicedGrows
    <2>3. PaintSurvives'
      BY <1>0, <2>1, <2>2 DEF PaintSurvives, Objects
    <2> QED BY <1>0, <2>2, <2>3 DEF PaintInv
  <1>2. CASE SharePaint
    <2>1. PICK i \in DOMAIN meshes : /\ SourceKey(Objects[i]) = SourceKey(Object)
                                     /\ Sliced(sources[i])
                                     /\ Accepted(meshes[i])
      BY <1>2 DEF SharePaint
    <2>2. (\E X : sources' \in Seq(X)) /\ claim' = claim
      BY <1>0, <2>1, SlicedGrows
    <2>3. Objects[n].file = Objects[i].file /\ Objects[n].paint = Objects[i].paint
      BY <2>1 DEF SourceKey, Object
    <2>4. Survives(Stls[Objects[n].file], Objects[n].paint, meshes[i])
      BY <1>0, <2>1, <2>3 DEF PaintSurvives
    <2>5. PaintSurvives'
      BY <1>0, <2>1, <2>2, <2>4, OneMorePainted
    <2> QED BY <1>0, <2>2, <2>5 DEF PaintInv
  <1>3. CASE PaintObject
    <2> DEFINE stl == Stls[Object.file]
               before == Painted(stl, Object.paint)
    <2>1. /\ Len(sources) < Len(Objects) /\ IsPainted(Object)
          /\ Object.file \in DOMAIN Stls /\ CanPaint(stl, Object.paint)
      BY <1>3 DEF PaintObject
    <2>2. PICK after \in Conversions(before) : /\ Roundtrip(before, after)
                                               /\ Sliced(DocumentOf(after))
                                               /\ Accepted(after)
      BY <1>3 DEF PaintObject
    <2>3. (\E X : sources' \in Seq(X)) /\ claim' = claim
      BY <1>0, <2>2, SlicedGrows
    <2>4. Object = Objects[n] /\ Object \in ToSet(claim.plate.objects)
      <3>1. Len(sources) \in Nat
        BY <1>0
      <3>2. Objects \in Seq(ToSet(Objects))
        BY <1>0, PaintsAssumption DEF Objects
      <3>3. DOMAIN Objects = 1..Len(Objects) /\ Len(Objects) \in Nat
        BY <3>2
      <3>4. n \in DOMAIN Objects
        BY <2>1, <3>1, <3>3
      <3> QED BY <3>4 DEF Object, Objects, ToSet
    <2>5. /\ stl \in Seq(Facets) /\ Object.paint.data \in Seq(Records) /\ IsMesh(after)
      BY <1>0, <2>1, <2>2, <2>4, PaintsAssumption DEF Facets, Records, Trees, Paints, IsMesh, MeshFacets
    <2>6. Survives(stl, Object.paint, after)
      <3> HIDE DEF stl
      <3> QED BY <2>1, <2>2, <2>5, RoundtripSurvives DEF before
    <2>7. Survives(Stls[Objects[n].file], Objects[n].paint, after)
      BY <2>4, <2>6
    <2>8. PaintSurvives'
      BY <1>0, <2>2, <2>3, <2>7, OneMorePainted
    <2> QED BY <1>0, <2>3, <2>8 DEF PaintInv
  <1>4. CASE UNCHANGED <<claim, sources, meshes>>
    BY <1>4, SamePaint
  <1>5. CASE Throw
    BY <1>5, <1>4 DEF Throw, inputVars
  <1>6. CASE Validate
    BY <1>4, <1>5, <1>6 DEF Validate, inputVars
  <1>7. CASE Package
    BY <1>4, <1>7 DEF Package
  <1>8. CASE EngineStep
    BY <1>4, <1>8 DEF EngineStep, inputVars
  <1>9. CASE ReadLine
    <2>1. Throw \/ UNCHANGED <<claim, inputVars>>
      BY <1>9 DEF ReadLine
    <2> QED BY <1>4, <1>5, <2>1 DEF inputVars
  <1>10. CASE EndOfFile
    BY <1>4, <1>5, <1>10 DEF EndOfFile, inputVars
  <1>11. CASE CompileChunk
    BY <1>4, <1>11 DEF CompileChunk, inputVars
  <1>12. CASE Manifest \/ Publish
    BY <1>4, <1>12 DEF Manifest, Publish, inputVars
  <1>13. CASE Fails
    BY <1>5, <1>13 DEF Fails
  <1>14. CASE UNCHANGED vars
    BY <1>4, <1>14 DEF vars
  <1> QED BY <1>1, <1>2, <1>3, <1>6, <1>7, <1>8, <1>9, <1>10, <1>11, <1>12, <1>13, <1>14
          DEF Next

\* Whatever a native converter returns and whatever paint a claim brings, a
\* painted object that is accepted has every facet of its source, once, where
\* it was, with the annotation that was asked for it, and every annotation is
\* a whole tree (assertSupportPaintRoundtrip, validateSupportPaint).
THEOREM PaintIsKept == Spec => []PaintSurvives
  <1>1. PaintInv => PaintSurvives
    BY DEF PaintInv
  <1> QED BY <1>1, InitPainted, StepPainted, PTL DEF Spec

-----------------------------------------------------------------------------
(* What the readers of the printed file make of its lines.                 *)

\* A file with one more line.
Longer(n, file, line, more) ==
    /\ n \in Nat /\ Len(file) = n /\ DOMAIN file = 1..n
    /\ Len(more) = n + 1 /\ DOMAIN more = 1..(n + 1)
    /\ more[n + 1] = line /\ \A k \in 1..n : more[k] = file[k]

LEMMA AppendIsLonger ==
  ASSUME NEW X, NEW file \in Seq(X), NEW line \in X
  PROVE  Longer(Len(file), file, line, Append(file, line))
  BY AppendProperties, LenProperties DEF Longer

LEMMA InsideGrows ==
  ASSUME NEW n, NEW file, NEW line, NEW more, Longer(n, file, line, more)
  PROVE  /\ \A k \in 1..(n + 1) : Inside(more, k) <=> Inside(file, k)
         /\ Inside(more, n + 2) <=> Scope(Inside(file, n + 1), line)
  <1>1. /\ n \in Nat /\ more[n + 1] = line /\ \A k \in 1..n : more[k] = file[k]
    BY DEF Longer
  <1>2. ASSUME NEW k \in 1..(n + 1) PROVE Inside(more, k) <=> Inside(file, k)
    <2>1. \A j \in 1..(k - 1) : j \in 1..n /\ more[j] = file[j]
      BY <1>1
    <2>2. \A b \in 1..(k - 1) : \A j \in (b + 1)..(k - 1) : j \in 1..(k - 1)
      BY <1>1
    <2> QED BY <2>1, <2>2 DEF Inside
  <1>3. Inside(more, n + 2) <=>
          \E b \in 1..(n + 1) : /\ more[b].kind = "begin"
                                /\ \A j \in (b + 1)..(n + 1) : more[j].kind # "end"
    <2>1. (n + 2) - 1 = n + 1
      BY <1>1
    <2> QED BY <2>1 DEF Inside
  <1>4. Inside(file, n + 1) <=>
          \E b \in 1..n : /\ more[b].kind = "begin"
                          /\ \A j \in (b + 1)..n : more[j].kind # "end"
    <2>1. (n + 1) - 1 = n /\ n + 1 \in 1..(n + 1)
      BY <1>1
    <2> QED BY <1>2, <2>1 DEF Inside
  <1>5. ASSUME line.kind = "begin"
        PROVE  Inside(more, n + 2) <=> Scope(Inside(file, n + 1), line)
    <2>1. n + 1 \in 1..(n + 1) /\ (n + 2)..(n + 1) = {} /\ (n + 1) + 1 = n + 2
      BY <1>1
    <2> QED BY <1>1, <1>3, <1>5, <2>1 DEF Scope, IsMarker
  <1>6. ASSUME line.kind = "end"
        PROVE  Inside(more, n + 2) <=> Scope(Inside(file, n + 1), line)
    <2>1. \A b \in 1..(n + 1) : b = n + 1 \/ n + 1 \in (b + 1)..(n + 1)
      BY <1>1
    <2> QED BY <1>1, <1>3, <1>6, <2>1 DEF Scope, IsMarker
  <1>7. ASSUME ~IsMarker(line)
        PROVE  Inside(more, n + 2) <=> Scope(Inside(file, n + 1), line)
    <2>1. line.kind # "begin" /\ line.kind # "end"
      BY <1>7 DEF IsMarker
    <2>2. \A b \in 1..(n + 1) : b = n + 1 \/ b \in 1..n
      BY <1>1
    <2>3. \A b \in 1..n : b \in 1..(n + 1) /\ \A j \in (b + 1)..(n + 1) : j = n + 1 \/ j \in (b + 1)..n
      BY <1>1
    <2>4. \A b \in 1..n : \A j \in (b + 1)..n : j \in (b + 1)..(n + 1)
      BY <1>1
    <2>5. Inside(more, n + 2) <=> Inside(file, n + 1)
      BY <1>1, <1>3, <1>4, <2>1, <2>2, <2>3, <2>4
    <2> QED BY <1>7, <2>5 DEF Scope
  <1> QED BY <1>2, <1>5, <1>6, <1>7 DEF IsMarker

NativePauses(file) == {k \in Native(file) : file[k] = Pause}

LEMMA NativeGrows ==
  ASSUME NEW n, NEW file, NEW line, NEW more, Longer(n, file, line, more)
  PROVE  LET skips == Skips(Inside(file, n + 1), line)
         IN  /\ Native(file) \subseteq 1..n
             /\ Native(more) = Native(file) \cup IF skips THEN {} ELSE {n + 1}
             /\ NativeLayers(more) = NativeLayers(file) \cup
                                        IF ~skips /\ line.kind = "layer" THEN {n + 1} ELSE {}
             /\ NativePauses(more) = NativePauses(file) \cup
                                        IF ~skips /\ line = Pause THEN {n + 1} ELSE {}
  <1> DEFINE skips == Skips(Inside(file, n + 1), line)
  <1>1. /\ n \in Nat /\ more[n + 1] = line /\ \A k \in 1..n : more[k] = file[k]
        /\ DOMAIN file = 1..n /\ DOMAIN more = 1..(n + 1)
    BY DEF Longer
  <1>2. 1..(n + 1) = (1..n) \cup {n + 1} /\ n + 1 \notin 1..n
    BY <1>1
  <1>3. \A k \in 1..n : k \in Native(more) <=> k \in Native(file)
    BY <1>1, <1>2, InsideGrows DEF Native
  <1>4. n + 1 \in Native(more) <=> ~skips
    <2>1. Inside(more, n + 1) <=> Inside(file, n + 1)
      BY <1>2, InsideGrows
    <2> QED BY <1>1, <1>2, <2>1 DEF Native, Skips
  <1>5. Native(file) \subseteq 1..n /\ Native(more) \subseteq 1..(n + 1)
    BY <1>1 DEF Native
  <1> HIDE DEF skips
  <1>6. Native(more) = Native(file) \cup IF skips THEN {} ELSE {n + 1}
    BY <1>2, <1>3, <1>4, <1>5
  <1>7. NativeLayers(more) = NativeLayers(file) \cup IF ~skips /\ line.kind = "layer" THEN {n + 1} ELSE {}
    BY <1>1, <1>5, <1>6 DEF NativeLayers
  <1>8. NativePauses(more) = NativePauses(file) \cup IF ~skips /\ line = Pause THEN {n + 1} ELSE {}
    BY <1>1, <1>5, <1>6 DEF NativePauses
  <1> QED BY <1>5, <1>6, <1>7, <1>8 DEF skips

LEMMA HeightGrows ==
  ASSUME NEW n, NEW file, NEW line, NEW more, Longer(n, file, line, more)
  PROVE  /\ \A k \in 1..(n + 1) : HeightAt(more, k) = HeightAt(file, k)
         /\ HeightAt(more, n + 2) =
               IF ~Skips(Inside(file, n + 1), line) /\ line.kind = "layer" THEN line.arg
               ELSE HeightAt(file, n + 1)
  <1> DEFINE layer == ~Skips(Inside(file, n + 1), line) /\ line.kind = "layer"
             before(k) == {j \in NativeLayers(file) : j < k}
             later(k)  == {j \in NativeLayers(more) : j < k}
  <1>1. /\ n \in Nat /\ more[n + 1] = line /\ \A k \in 1..n : more[k] = file[k]
    BY DEF Longer
  <1>2. /\ NativeLayers(file) \subseteq 1..n
        /\ NativeLayers(more) = NativeLayers(file) \cup IF layer THEN {n + 1} ELSE {}
    BY NativeGrows DEF NativeLayers
  <1> HIDE DEF layer
  <1>3. \A k \in 1..(n + 1) : later(k) = before(k)
    BY <1>1, <1>2
  <1>4. ASSUME NEW k, before(k) # {} PROVE Max(before(k)) \in 1..n
    <2>1. before(k) \in (SUBSET (1..n)) \ {{}}
      BY <1>2, <1>4
    <2> HIDE DEF before
    <2> QED BY <1>1, <2>1, GreatestOf
  <1>5. \A k \in 1..(n + 1) : HeightAt(more, k) = HeightAt(file, k)
    BY <1>1, <1>3, <1>4 DEF HeightAt
  <1>6. later(n + 2) = before(n + 1) \cup IF layer THEN {n + 1} ELSE {}
    BY <1>1, <1>2
  <1>7. HeightAt(more, n + 2) = IF layer THEN line.arg ELSE HeightAt(file, n + 1)
    <2>1. CASE layer
      <3>1. later(n + 2) \in (SUBSET (1..(n + 1))) \ {{}} /\ n + 1 \in later(n + 2)
        BY <1>1, <1>2, <1>6, <2>1
      <3>2. Max(later(n + 2)) = n + 1
        <4> HIDE DEF later
        <4>1. /\ Max(later(n + 2)) \in later(n + 2)
              /\ \A y \in later(n + 2) : Max(later(n + 2)) >= y
          BY <1>1, <3>1, GreatestOf
        <4> QED BY <1>1, <3>1, <4>1
      <3> QED BY <1>1, <2>1, <3>1, <3>2 DEF HeightAt
    <2>2. CASE ~layer
      <3>1. later(n + 2) = before(n + 1)
        BY <1>6, <2>2
      <3> QED BY <1>1, <1>4, <2>2, <3>1 DEF HeightAt
    <2> QED BY <2>1, <2>2
  <1> QED BY <1>5, <1>7 DEF layer

\* inspectGcode knows whether a script is open, and how many layers there were.
SummarySeen(r, file) ==
    /\ r.active \in BOOLEAN /\ (r.active <=> Inside(file, Len(file) + 1))
    /\ r.layerCount = Cardinality(NativeLayers(file))

LEMMA InspectSees ==
  ASSUME NEW n, NEW file, NEW line, NEW more, Longer(n, file, line, more),
         NEW r, SummarySeen(r, file)
  PROVE  SummarySeen(Inspect(r, line), more)
  <1> DEFINE s == Inspect(r, line)
             layer == ~Skips(Inside(file, n + 1), line) /\ line.kind = "layer"
  <1>1. n \in Nat /\ Len(file) = n /\ Len(more) = n + 1 /\ (n + 1) + 1 = n + 2
    BY DEF Longer
  <1>2. r.active \in BOOLEAN /\ (r.active <=> Inside(file, n + 1))
        /\ r.layerCount = Cardinality(NativeLayers(file))
    BY <1>1 DEF SummarySeen
  <1>3. s.active \in BOOLEAN /\ (s.active <=> Inside(more, n + 2))
    <2>1. s.active = Scope(r.active, line)
      BY DEF Inspect
    <2>2. Inside(more, n + 2) <=> Scope(Inside(file, n + 1), line)
      BY InsideGrows
    <2> HIDE DEF s
    <2> QED BY <1>2, <2>1, <2>2 DEF Scope
  <1>4. s.layerCount = IF layer THEN r.layerCount + 1 ELSE r.layerCount
    BY <1>2 DEF Inspect, Skips
  <1>5. NativeLayers(file) \in SUBSET (1..n)
        /\ NativeLayers(more) = NativeLayers(file) \cup IF layer THEN {n + 1} ELSE {}
    BY NativeGrows DEF NativeLayers
  <1>6. IsFiniteSet(NativeLayers(file)) /\ n + 1 \notin NativeLayers(file)
    <2>1. n + 1 \notin 1..n
      BY <1>1
    <2> QED BY <1>1, <1>5, <2>1, NumbersInOrder
  <1> HIDE DEF s, layer
  <1>7. s.layerCount = Cardinality(NativeLayers(more))
    <2>1. CASE layer
      <3>1. Cardinality(NativeLayers(file) \cup {n + 1}) = Cardinality(NativeLayers(file)) + 1
        BY <1>6, FS_AddElement
      <3> QED BY <1>2, <1>4, <1>5, <2>1, <3>1
    <2>2. CASE ~layer
      <3>1. NativeLayers(more) = NativeLayers(file)
        BY <1>5, <2>2
      <3> QED BY <1>2, <1>4, <2>2, <3>1
    <2> QED BY <2>1, <2>2
  <1>8. SummarySeen(s, more)
    BY <1>1, <1>3, <1>7 DEF SummarySeen
  <1> QED BY <1>8 DEF s

\* What both readers of layer actions know of the layers.
Args(file)    == [k \in DOMAIN file |-> file[k].arg]
HeightsOf(file) == [k \in DOMAIN file |-> HeightAt(file, k)]

LayersSeen(r, file) ==
    /\ r.z = HeightAt(file, Len(file) + 1)
    /\ Collects(r.layers, NativeLayers(file), Args(file))

LEMMA LayersAreSeen ==
  ASSUME NEW n, NEW file, NEW line, NEW more, Longer(n, file, line, more),
         NEW r, LayersSeen(r, file), NEW s,
         LET layer == ~Skips(Inside(file, n + 1), line) /\ line.kind = "layer"
         IN  /\ s.z = IF layer THEN line.arg ELSE r.z
             /\ s.layers = IF layer THEN Append(r.layers, line.arg) ELSE r.layers
  PROVE  LayersSeen(s, more)
  <1> DEFINE layer == ~Skips(Inside(file, n + 1), line) /\ line.kind = "layer"
             S == NativeLayers(file)
  <1>1. /\ n \in Nat /\ Len(file) = n /\ Len(more) = n + 1 /\ (n + 1) + 1 = n + 2
        /\ DOMAIN file = 1..n /\ DOMAIN more = 1..(n + 1)
        /\ more[n + 1] = line /\ \A k \in 1..n : more[k] = file[k]
    BY DEF Longer
  <1>2. s.z = HeightAt(more, n + 2)
    <2>1. r.z = HeightAt(file, n + 1)
      BY <1>1 DEF LayersSeen
    <2> QED BY <2>1, HeightGrows
  <1>3. S \in SUBSET (1..n) /\ NativeLayers(more) = S \cup IF layer THEN {n + 1} ELSE {}
    BY NativeGrows DEF NativeLayers
  <1>4. s.layers = IF layer THEN Append(r.layers, line.arg) ELSE r.layers
    OBVIOUS
  <1>5. (\A k \in S : Args(more)[k] = Args(file)[k]) /\ Args(more)[n + 1] = line.arg
    <2>1. \A k \in 1..n : k \in 1..(n + 1)
      BY <1>1
    <2>2. n + 1 \in 1..(n + 1)
      BY <1>1
    <2>3. \A k \in 1..n : Args(more)[k] = Args(file)[k]
      BY <1>1, <2>1 DEF Args
    <2>4. Args(more)[n + 1] = line.arg
      BY <1>1, <2>2 DEF Args
    <2> QED BY <1>3, <2>3, <2>4
  <1>6. Collects(r.layers, S, Args(file))
    BY DEF LayersSeen
  <1> HIDE DEF layer, S
  <1>7. Collects(s.layers, NativeLayers(more), Args(more))
    <2>1. CASE layer
      <3>1. Collects(Append(r.layers, line.arg), S \cup {n + 1}, Args(more))
        BY <1>1, <1>3, <1>5, <1>6, OneMoreCollected
      <3> QED BY <1>3, <1>4, <2>1, <3>1
    <2>2. CASE ~layer
      <3>1. NativeLayers(more) = S
        BY <1>3, <2>2
      <3> QED BY <1>4, <1>5, <1>6, <2>2, <3>1, SameCollected
    <2> QED BY <2>1, <2>2
  <1> QED BY <1>1, <1>2, <1>7 DEF LayersSeen

\* verifyNativePauseEvents knows the height of every pause of the engine.
PauseRecord(r) == r = [active |-> r.active, z |-> r.z, layers |-> r.layers, events |-> r.events]

PausesSeen(r, file) ==
    /\ PauseRecord(r)
    /\ r.active \in BOOLEAN /\ (r.active <=> Inside(file, Len(file) + 1))
    /\ LayersSeen(r, file)
    /\ Collects(r.events, NativePauses(file), HeightsOf(file))

LEMMA ReadPauseSteps ==
  ASSUME NEW r, PauseRecord(r), NEW line
  PROVE  LET skips == Skips(r.active, line)
             layer == line.kind = "layer"
             s == ReadPause(r, line)
         IN  /\ PauseRecord(s)
             /\ s.active = IF skips THEN Scope(r.active, line) ELSE r.active
             /\ s.z = IF ~skips /\ layer THEN line.arg ELSE r.z
             /\ s.layers = IF ~skips /\ layer THEN Append(r.layers, line.arg) ELSE r.layers
             /\ s.events = IF ~skips /\ ~layer /\ line = Pause THEN Append(r.events, r.z)
                           ELSE r.events
  BY DEF PauseRecord, ReadPause

LEMMA ReadPauseSees ==
  ASSUME NEW n, NEW file, NEW line, NEW more, Longer(n, file, line, more),
         NEW r, PausesSeen(r, file)
  PROVE  PausesSeen(ReadPause(r, line), more)
  <1> DEFINE s == ReadPause(r, line)
             skips == Skips(Inside(file, n + 1), line)
             S == NativePauses(file)
  <1>1. /\ n \in Nat /\ Len(file) = n /\ Len(more) = n + 1 /\ (n + 1) + 1 = n + 2
        /\ DOMAIN file = 1..n /\ DOMAIN more = 1..(n + 1)
    BY DEF Longer
  <1>2. /\ r.active \in BOOLEAN /\ (r.active <=> Inside(file, n + 1)) /\ PauseRecord(r)
        /\ Collects(r.events, S, HeightsOf(file)) /\ LayersSeen(r, file)
    BY <1>1 DEF PausesSeen
  <1>3. Skips(r.active, line) <=> skips
    BY <1>2 DEF Skips
  <1>4. /\ PauseRecord(s)
        /\ s.active = IF skips THEN Scope(r.active, line) ELSE r.active
        /\ s.z = IF ~skips /\ line.kind = "layer" THEN line.arg ELSE r.z
        /\ s.layers = IF ~skips /\ line.kind = "layer" THEN Append(r.layers, line.arg) ELSE r.layers
        /\ s.events = IF ~skips /\ line.kind # "layer" /\ line = Pause THEN Append(r.events, r.z)
                      ELSE r.events
    <2> DEFINE own == Skips(r.active, line)
    <2>1. /\ PauseRecord(s)
          /\ s.active = IF own THEN Scope(r.active, line) ELSE r.active
          /\ s.z = IF ~own /\ line.kind = "layer" THEN line.arg ELSE r.z
          /\ s.layers = IF ~own /\ line.kind = "layer" THEN Append(r.layers, line.arg)
                        ELSE r.layers
          /\ s.events = IF ~own /\ line.kind # "layer" /\ line = Pause
                        THEN Append(r.events, r.z) ELSE r.events
      BY <1>2, ReadPauseSteps
    <2> HIDE DEF s, skips, own
    <2>2. own <=> skips
      BY <1>3 DEF own
    <2> QED BY <2>1, <2>2
  <1>5. s.active \in BOOLEAN /\ (s.active <=> Inside(more, n + 2))
    <2>1. Inside(more, n + 2) <=> Scope(Inside(file, n + 1), line)
      BY InsideGrows
    <2>2. ~skips => Scope(Inside(file, n + 1), line) = Inside(file, n + 1)
      BY DEF Scope, Skips
    <2>3. Scope(r.active, line) \in BOOLEAN /\ (Scope(r.active, line) <=> Scope(Inside(file, n + 1), line))
      BY <1>2 DEF Scope
    <2> HIDE DEF s, skips
    <2> QED BY <1>2, <1>4, <2>1, <2>2, <2>3
  <1>6. LayersSeen(s, more)
    <2> HIDE DEF s
    <2> QED BY <1>2, <1>4, LayersAreSeen
  <1>7. Collects(s.events, NativePauses(more), HeightsOf(more))
    <2>1. S \in SUBSET (1..n) /\ NativePauses(more) = S \cup IF ~skips /\ line = Pause THEN {n + 1} ELSE {}
      BY NativeGrows DEF NativePauses
    <2>2. line = Pause => line.kind # "layer"
      BY DEF Pause, Line
    <2>3. r.z = HeightAt(file, n + 1)
      BY <1>1, <1>2 DEF LayersSeen
    <2>4. /\ \A k \in 1..n : HeightsOf(more)[k] = HeightsOf(file)[k]
          /\ HeightsOf(more)[n + 1] = r.z
      <3>1. \A k \in 1..n : k \in 1..(n + 1)
        BY <1>1
      <3>2. n + 1 \in 1..(n + 1)
        BY <1>1
      <3>3. \A k \in 1..(n + 1) : HeightAt(more, k) = HeightAt(file, k)
        BY HeightGrows
      <3> QED BY <1>1, <2>3, <3>1, <3>2, <3>3 DEF HeightsOf
    <2> HIDE DEF s, skips, S
    <2>5. \A k \in S : HeightsOf(more)[k] = HeightsOf(file)[k]
      BY <2>1, <2>4
    <2>6. CASE ~skips /\ line = Pause
      <3>1. Collects(Append(r.events, r.z), S \cup {n + 1}, HeightsOf(more))
        BY <1>1, <1>2, <2>1, <2>4, <2>5, OneMoreCollected
      <3> QED BY <1>4, <2>1, <2>2, <2>6, <3>1
    <2>7. CASE ~(~skips /\ line = Pause)
      <3>1. NativePauses(more) = S /\ s.events = r.events
        BY <1>4, <2>1, <2>7
      <3> QED BY <1>2, <2>5, <3>1, SameCollected
    <2> QED BY <2>6, <2>7
  <1> HIDE DEF s
  <1>8. PausesSeen(s, more)
    BY <1>1, <1>4, <1>5, <1>6, <1>7 DEF PausesSeen
  <1> QED BY <1>8 DEF s

-----------------------------------------------------------------------------
(* verifyNativeLayerGcode.                                                 *)

ScriptRecord(r) == r = [ok |-> r.ok, active |-> r.active, z |-> r.z, body |-> r.body,
                        events |-> r.events, layers |-> r.layers]

\* What one line does to what is known of the scripts.
ScriptStep(r, line, points, s) ==
    /\ ScriptRecord(s)
    /\ line.kind = "begin" =>
         /\ s.ok = Begins(r, line.arg, points)
         /\ s.active = line.arg /\ s.body = <<>>
         /\ s.events = [id \in DOMAIN r.events \cup {line.arg} |->
                           IF id = line.arg THEN r.z ELSE r.events[id]]
    /\ line.kind # "begin" => s.events = r.events
    /\ line.kind = "end" => s.ok = Ends(r, line.arg, points) /\ s.active = Nobody
    /\ ~IsMarker(line) =>
         /\ s.ok = r.ok /\ s.active = r.active
         /\ s.body = IF r.active # Nobody THEN Append(r.body, line) ELSE r.body
    /\ LET layer == ~IsMarker(line) /\ r.active = Nobody /\ line.kind = "layer"
       IN  /\ s.z = IF layer THEN line.arg ELSE r.z
           /\ s.layers = IF layer THEN Append(r.layers, line.arg) ELSE r.layers

LEMMA ReadScriptSteps ==
  ASSUME NEW r, ScriptRecord(r), NEW line, NEW points
  PROVE  ScriptStep(r, line, points, ReadScript(r, line, points))
  <1>1. CASE line.kind = "begin"
    BY <1>1 DEF ScriptStep, ScriptRecord, ReadScript, IsMarker
  <1>2. CASE line.kind = "end"
    BY <1>2 DEF ScriptStep, ScriptRecord, ReadScript, IsMarker
  <1>3. CASE ~IsMarker(line) /\ r.active # Nobody
    BY <1>3 DEF ScriptStep, ScriptRecord, ReadScript, IsMarker
  <1>4. CASE ~IsMarker(line) /\ r.active = Nobody /\ line.kind = "layer"
    BY <1>4 DEF ScriptStep, ScriptRecord, ReadScript, IsMarker
  <1>5. CASE ~IsMarker(line) /\ r.active = Nobody /\ line.kind # "layer"
    BY <1>5 DEF ScriptStep, ScriptRecord, ReadScript, IsMarker
  <1> QED BY <1>1, <1>2, <1>3, <1>4, <1>5 DEF IsMarker

\* A sequence that stands in a file from a line on.
Holds(file, k, seq) ==
    /\ \E Y : seq \in Seq(Y)
    /\ k + Len(seq) - 1 <= Len(file)
    /\ \A i \in 1..Len(seq) : file[k + i - 1] = seq[i]

\* A script that was begun at a line: it is open, or stands there whole.
Opened(r, file, points, id, k) ==
    /\ k \in 1..Len(file) /\ file[k] = Begin(id)
    /\ \A j \in 1..Len(file) : file[j] = Begin(id) => j = k
    /\ r.events[id] = HeightAt(file, k)
    /\ id = r.active => Holds(file, k + 1, r.body) /\ k + Len(r.body) = Len(file)
    /\ id # r.active => /\ Holds(file, k, Block(ScriptOf(points, id)))
                        /\ Len(Block(ScriptOf(points, id))) > 0

Markers(file) == {k \in DOMAIN file : IsMarker(file[k])}

ScriptsSeen(r, file, points) ==
    /\ ScriptRecord(r) /\ r.ok = TRUE
    /\ LayersSeen(r, file)
    /\ r.active # Nobody <=> Inside(file, Len(file) + 1)
    /\ r.active # Nobody => r.active \in DOMAIN r.events
    /\ IsFiniteSet(DOMAIN r.events) /\ DOMAIN r.events \subseteq Ids(points)
    /\ \A id : \A k \in 1..Len(file) : file[k] = Begin(id) => id \in DOMAIN r.events
    /\ \A id \in DOMAIN r.events : \E k : Opened(r, file, points, id, k)
    /\ IsFiniteSet(Markers(file))
    /\ Cardinality(Markers(file)) + (IF r.active = Nobody THEN 0 ELSE 1)
          = 2 * Cardinality(DOMAIN r.events)

LEMMA MarkersGrow ==
  ASSUME NEW n, NEW file, NEW line, NEW more, Longer(n, file, line, more),
         IsFiniteSet(Markers(file))
  PROVE  /\ IsFiniteSet(Markers(more)) /\ Cardinality(Markers(file)) \in Nat
         /\ Cardinality(Markers(more)) = IF IsMarker(line) THEN Cardinality(Markers(file)) + 1
                                         ELSE Cardinality(Markers(file))
  <1>1. /\ n \in Nat /\ DOMAIN file = 1..n /\ DOMAIN more = 1..(n + 1)
        /\ more[n + 1] = line /\ \A k \in 1..n : more[k] = file[k]
    BY DEF Longer
  <1>2. 1..(n + 1) = (1..n) \cup {n + 1} /\ n + 1 \notin 1..n
    BY <1>1
  <1>3. /\ n + 1 \notin Markers(file)
        /\ Markers(more) = IF IsMarker(line) THEN Markers(file) \cup {n + 1} ELSE Markers(file)
    BY <1>1, <1>2 DEF Markers
  <1> QED BY <1>3, FS_AddElement, FS_CardinalityType

LEMMA StillHolds ==
  ASSUME NEW n, NEW file, NEW line, NEW more, Longer(n, file, line, more),
         NEW k \in Nat \ {0}, NEW seq, Holds(file, k, seq)
  PROVE  Holds(more, k, seq)
  <1>1. /\ n \in Nat /\ Len(file) = n /\ Len(more) = n + 1 /\ \A j \in 1..n : more[j] = file[j]
    BY DEF Longer
  <1>2. (\E Y : seq \in Seq(Y)) /\ k + Len(seq) - 1 <= n
        /\ \A i \in 1..Len(seq) : file[k + i - 1] = seq[i]
    BY <1>1 DEF Holds
  <1>3. Len(seq) \in Nat
    BY <1>2
  <1>4. \A i \in 1..Len(seq) : k + i - 1 \in 1..n
    BY <1>1, <1>2, <1>3
  <1> QED BY <1>1, <1>2, <1>3, <1>4 DEF Holds

\* A script that is not open is not affected by another line.
LEMMA StaysClosed ==
  ASSUME NEW n, NEW file, NEW line, NEW more, Longer(n, file, line, more),
         NEW r, NEW s, NEW points, NEW id, NEW k, Opened(r, file, points, id, k),
         line # Begin(id), id # r.active, id # s.active, s.events[id] = r.events[id]
  PROVE  Opened(s, more, points, id, k)
  <1>1. /\ n \in Nat /\ Len(file) = n /\ Len(more) = n + 1
        /\ more[n + 1] = line /\ \A j \in 1..n : more[j] = file[j]
        /\ \A j \in 1..(n + 1) : j = n + 1 \/ j \in 1..n
    BY DEF Longer
  <1>2. k \in 1..n /\ k \in 1..(n + 1) /\ k \in Nat \ {0}
    BY <1>1 DEF Opened
  <1>3. more[k] = Begin(id) /\ \A j \in 1..(n + 1) : more[j] = Begin(id) => j = k
    BY <1>1, <1>2 DEF Opened
  <1>4. s.events[id] = HeightAt(more, k)
    BY <1>2, HeightGrows DEF Opened
  <1>5. Holds(more, k, Block(ScriptOf(points, id))) /\ Len(Block(ScriptOf(points, id))) > 0
    BY <1>2, StillHolds DEF Opened
  <1> QED BY <1>1, <1>2, <1>3, <1>4, <1>5 DEF Opened

\* A script begins.
LEMMA BeginIsSeen ==
  ASSUME NEW n, NEW file, NEW line, NEW more, Longer(n, file, line, more),
         NEW r, NEW points, ScriptsSeen(r, file, points), Nobody \notin Ids(points),
         NEW new, line = Begin(new), Begins(r, new, points),
         NEW s, s = ReadScript(r, line, points)
  PROVE  ScriptsSeen(s, more, points)
  <1>1. /\ n \in Nat /\ Len(file) = n /\ Len(more) = n + 1 /\ (n + 1) + 1 = n + 2
        /\ more[n + 1] = line /\ \A j \in 1..n : more[j] = file[j]
        /\ \A j \in 1..(n + 1) : j = n + 1 \/ j \in 1..n
        /\ n + 1 \in 1..(n + 1) /\ \A j \in 1..n : j \in 1..(n + 1)
    BY DEF Longer
  <1>2. line.kind = "begin" /\ line.arg = new /\ IsMarker(line)
    BY DEF Begin, Line, IsMarker
  <1>3. r.active = Nobody /\ new \in Ids(points) /\ new \notin DOMAIN r.events /\ new # Nobody
    BY DEF Begins
  <1>4. /\ ScriptRecord(s) /\ s.ok = TRUE /\ s.active = new /\ s.body = <<>>
        /\ s.events = [id \in DOMAIN r.events \cup {new} |-> IF id = new THEN r.z ELSE r.events[id]]
        /\ s.z = r.z /\ s.layers = r.layers
    <2>1. ScriptStep(r, line, points, s)
      BY ReadScriptSteps DEF ScriptsSeen
    <2>2. /\ ScriptRecord(s) /\ s.ok = Begins(r, new, points) /\ s.active = new /\ s.body = <<>>
          /\ s.events = [id \in DOMAIN r.events \cup {new} |->
                           IF id = new THEN r.z ELSE r.events[id]]
      <3>1. line.kind = "begin" /\ line.arg = new
        BY <1>2
      <3>2. /\ ScriptRecord(s) /\ s.ok = Begins(r, line.arg, points)
            /\ s.active = line.arg /\ s.body = <<>>
            /\ s.events = [id \in DOMAIN r.events \cup {line.arg} |->
                             IF id = line.arg THEN r.z ELSE r.events[id]]
        BY ONLY <3>1, <2>1, Zenon DEF ScriptStep
      <3> QED BY ONLY <3>1, <3>2, Zenon
    <2>3. s.z = r.z /\ s.layers = r.layers
      BY <1>2, <2>1 DEF ScriptStep
    <2>4. s.ok = TRUE
      <3>1. Begins(r, new, points) = TRUE
        OBVIOUS
      <3> QED BY <2>2, <3>1
    <2> QED BY <2>2, <2>3, <2>4
  <1>5. LayersSeen(s, more)
    <2>1. LayersSeen(r, file) /\ Skips(Inside(file, n + 1), line)
      BY <1>2 DEF ScriptsSeen, Skips
    <2> QED BY <1>4, <2>1, LayersAreSeen
  <1>6. Inside(more, n + 2)
    BY <1>2, InsideGrows DEF Scope
  <1>7. /\ DOMAIN s.events = DOMAIN r.events \cup {new} /\ s.events[new] = r.z
        /\ \A id \in DOMAIN r.events : s.events[id] = r.events[id]
    BY <1>3, <1>4
  <1>8. /\ IsFiniteSet(DOMAIN s.events) /\ DOMAIN s.events \subseteq Ids(points)
        /\ Cardinality(DOMAIN s.events) = Cardinality(DOMAIN r.events) + 1
        /\ Cardinality(DOMAIN r.events) \in Nat
    BY <1>3, <1>7, FS_AddElement, FS_CardinalityType DEF ScriptsSeen
  <1>9. ASSUME NEW id, NEW k \in 1..(n + 1), more[k] = Begin(id) PROVE id \in DOMAIN s.events
    <2>1. CASE k = n + 1
      <3>1. Begin(id).arg = id
        BY DEF Begin, Line
      <3> QED BY <1>1, <1>2, <1>7, <1>9, <2>1, <3>1
    <2>2. CASE k \in 1..n
      BY <1>1, <1>7, <1>9, <2>2 DEF ScriptsSeen
    <2> QED BY <1>1, <2>1, <2>2
  <1>10. Opened(s, more, points, new, n + 1)
    <2>1. ASSUME NEW j \in 1..(n + 1), more[j] = Begin(new) PROVE j = n + 1
      <3>1. j \in 1..n => new \in DOMAIN r.events
        BY <1>1, <2>1 DEF ScriptsSeen
      <3> QED BY <1>1, <1>3, <3>1
    <2>2. s.events[new] = HeightAt(more, n + 1)
      <3>1. r.z = HeightAt(file, n + 1)
        BY <1>1 DEF ScriptsSeen, LayersSeen
      <3> QED BY <1>1, <1>7, <3>1, HeightGrows
    <2>3. Holds(more, (n + 1) + 1, s.body) /\ (n + 1) + Len(s.body) = Len(more)
      <3>1. s.body \in Seq({}) /\ Len(s.body) = 0
        BY <1>4
      <3> QED BY <1>1, <3>1 DEF Holds
    <2> QED BY <1>1, <1>4, <2>1, <2>2, <2>3 DEF Opened
  <1>11. ASSUME NEW id \in DOMAIN r.events PROVE \E k : Opened(s, more, points, id, k)
    <2>1. PICK k : Opened(r, file, points, id, k)
      BY DEF ScriptsSeen
    <2>2. id # new /\ id # r.active
      BY <1>3 DEF ScriptsSeen
    <2>3. line # Begin(id)
      <3>1. Begin(id).arg = id
        BY DEF Begin, Line
      <3> QED BY <1>2, <2>2, <3>1
    <2>4. Opened(s, more, points, id, k)
      BY <1>4, <1>7, <2>1, <2>2, <2>3, StaysClosed
    <2> QED BY <2>4
  <1>12. /\ IsFiniteSet(Markers(more))
         /\ Cardinality(Markers(more)) + (IF s.active = Nobody THEN 0 ELSE 1)
               = 2 * Cardinality(DOMAIN s.events)
    <2>1. IsFiniteSet(Markers(file)) /\ Cardinality(Markers(file)) = 2 * Cardinality(DOMAIN r.events)
      <3>1. Cardinality(Markers(file)) + 0 = 2 * Cardinality(DOMAIN r.events)
        BY <1>3 DEF ScriptsSeen
      <3>2. IsFiniteSet(Markers(file)) /\ Cardinality(Markers(file)) \in Nat
        BY FS_CardinalityType DEF ScriptsSeen
      <3> QED BY <3>1, <3>2
    <2>2. IsFiniteSet(Markers(more)) /\ Cardinality(Markers(more)) = Cardinality(Markers(file)) + 1
      BY <1>2, <2>1, MarkersGrow
    <2> QED BY <1>3, <1>4, <1>8, <2>1, <2>2
  <1>13. \A id \in DOMAIN s.events : \E k : Opened(s, more, points, id, k)
    BY <1>7, <1>10, <1>11
  <1> QED
    BY <1>1, <1>3, <1>4, <1>5, <1>6, <1>7, <1>8, <1>9, <1>12, <1>13 DEF ScriptsSeen

\* A script that ends with the body it has stands there whole.
LEMMA BlockHolds ==
  ASSUME NEW file, NEW k \in Nat \ {0}, NEW n \in Nat, NEW body, Len(file) = n + 1,
         Holds(file, k + 1, body), k + Len(body) = n, NEW first, NEW last,
         file[k] = first, file[n + 1] = last
  PROVE  /\ Holds(file, k, <<first>> \o body \o <<last>>)
         /\ Len(<<first>> \o body \o <<last>>) > 0
  <1> DEFINE m == Len(body)
             block == <<first>> \o body \o <<last>>
  <1>1. PICK X : body \in Seq(X)
    BY DEF Holds
  <1>2. m \in Nat /\ n = k + m
    BY <1>1
  <1>3. \A i \in 1..m : file[k + i] = body[i]
    <2> TAKE i \in 1..m
    <2>1. (k + 1) + i - 1 = k + i
      BY <1>2
    <2>2. file[(k + 1) + i - 1] = body[i]
      BY DEF Holds
    <2> QED BY <2>1, <2>2
  <1> DEFINE Y == X \cup {first, last}
             front == <<first>> \o body
  <1>4. body \in Seq(Y) /\ <<first>> \in Seq(Y) /\ <<last>> \in Seq(Y)
        /\ Len(<<first>>) = 1 /\ Len(<<last>>) = 1 /\ <<first>>[1] = first /\ <<last>>[1] = last
    BY <1>1
  <1> HIDE DEF Y
  <1>5. /\ front \in Seq(Y) /\ Len(front) = 1 + m
        /\ front[1] = first /\ \A i \in 1..m : front[i + 1] = body[i]
    <2>1. front \in Seq(Y) /\ Len(front) = Len(<<first>>) + Len(body)
          /\ \A i \in 1..(Len(<<first>>) + Len(body)) :
                front[i] = IF i <= Len(<<first>>) THEN <<first>>[i] ELSE body[i - Len(<<first>>)]
      BY <1>4, ConcatProperties
    <2> HIDE DEF front
    <2>2. \A i \in 1..(1 + m) : front[i] = IF i <= 1 THEN <<first>>[i] ELSE body[i - 1]
      BY <1>4, <2>1
    <2>3. \A i \in 1..m : i + 1 \in 1..(1 + m) /\ ~(i + 1 <= 1) /\ (i + 1) - 1 = i
      BY <1>2
    <2>4. 1 \in 1..(1 + m)
      BY <1>2
    <2> QED BY <1>4, <2>1, <2>2, <2>3, <2>4
  <1> HIDE DEF front
  <1>6. /\ block \in Seq(Y) /\ Len(block) = m + 2
        /\ block[1] = first /\ block[m + 2] = last
        /\ \A i \in 1..m : block[i + 1] = body[i]
    <2>1. /\ front \o <<last>> \in Seq(Y) /\ Len(front \o <<last>>) = Len(front) + Len(<<last>>)
          /\ \A i \in 1..(Len(front) + Len(<<last>>)) :
                (front \o <<last>>)[i] = IF i <= Len(front) THEN front[i] ELSE <<last>>[i - Len(front)]
      BY <1>4, <1>5, ConcatProperties
    <2>2. block = front \o <<last>>
      BY DEF front
    <2> HIDE DEF block
    <2>3. \A i \in 1..(m + 2) : block[i] = IF i <= 1 + m THEN front[i] ELSE <<last>>[i - (1 + m)]
      BY <1>2, <1>4, <1>5, <2>1, <2>2
    <2>4. /\ 1 \in 1..(m + 2) /\ 1 <= 1 + m
          /\ m + 2 \in 1..(m + 2) /\ ~(m + 2 <= 1 + m) /\ (m + 2) - (1 + m) = 1
          /\ \A i \in 1..m : i + 1 \in 1..(m + 2) /\ i + 1 <= 1 + m
      BY <1>2
    <2>5. Len(block) = m + 2
      BY <1>2, <1>4, <1>5, <2>1, <2>2
    <2> QED BY <1>4, <1>5, <2>1, <2>2, <2>3, <2>4, <2>5
  <1> HIDE DEF block, m
  <1>7. k + Len(block) - 1 <= Len(file)
    BY <1>2, <1>6
  <1>8. ASSUME NEW i \in 1..Len(block) PROVE file[k + i - 1] = block[i]
    <2>1. i = 1 \/ i = m + 2 \/ \E j \in 1..m : i = j + 1
      <3>1. i \in 1..(m + 2)
        BY <1>6
      <3>2. i # 1 /\ i # m + 2 => i - 1 \in 1..m /\ i = (i - 1) + 1
        BY <1>2, <3>1
      <3> QED BY <3>2
    <2>2. CASE i = 1
      <3>1. k + 1 - 1 = k
        OBVIOUS
      <3> QED BY <1>6, <2>2, <3>1
    <2>3. CASE i = m + 2
      <3>1. k + (m + 2) - 1 = n + 1
        BY <1>2
      <3> QED BY <1>6, <2>3, <3>1
    <2>4. ASSUME NEW j \in 1..m, i = j + 1 PROVE file[k + i - 1] = block[i]
      <3>1. k + (j + 1) - 1 = k + j
        BY <1>2
      <3> QED BY <1>3, <1>6, <2>4, <3>1
    <2> QED BY <2>1, <2>2, <2>3, <2>4
  <1>9. Holds(file, k, block)
    BY <1>6, <1>7, <1>8 DEF Holds
  <1>10. Len(block) > 0
    BY <1>2, <1>6
  <1> QED BY <1>9, <1>10 DEF block

\* A line more of a script that is open.
LEMMA BodyGrows ==
  ASSUME NEW n, NEW file, NEW line, NEW more, Longer(n, file, line, more),
         NEW k \in Nat \ {0}, NEW body, Holds(file, k + 1, body), k + Len(body) = n
  PROVE  Holds(more, k + 1, Append(body, line)) /\ k + Len(Append(body, line)) = n + 1
  <1> DEFINE m == Len(body)
             longer == Append(body, line)
  <1>1. /\ n \in Nat /\ Len(more) = n + 1 /\ more[n + 1] = line
    BY DEF Longer
  <1>2. PICK X : body \in Seq(X)
    BY DEF Holds
  <1>3. /\ longer \in Seq(X \cup {line}) /\ Len(longer) = m + 1 /\ longer[m + 1] = line
        /\ \A i \in 1..m : longer[i] = body[i]
    <2>1. body \in Seq(X \cup {line})
      BY <1>2
    <2> QED BY <2>1, AppendProperties
  <1>4. Holds(more, k + 1, body) /\ k + 1 \in Nat \ {0}
    BY StillHolds
  <1>5. m \in Nat /\ n = k + m
    BY <1>2
  <1>6. \A i \in 1..m : more[(k + 1) + i - 1] = body[i]
    BY <1>4 DEF Holds
  <1> HIDE DEF longer, m
  <1>7. ASSUME NEW i \in 1..(m + 1) PROVE more[(k + 1) + i - 1] = longer[i]
    <2>1. i \in 1..m \/ i = m + 1
      BY <1>5
    <2>2. (k + 1) + (m + 1) - 1 = n + 1
      BY <1>5
    <2> QED BY <1>1, <1>3, <1>6, <2>1, <2>2
  <1>8. (k + 1) + Len(longer) - 1 <= Len(more) /\ k + Len(longer) = n + 1
    BY <1>1, <1>3, <1>5
  <1>9. Holds(more, k + 1, longer)
    BY <1>3, <1>7, <1>8 DEF Holds
  <1> QED BY <1>8, <1>9 DEF longer

\* The begins of the ids of a plate stay where they are.
LEMMA BeginsStay ==
  ASSUME NEW n, NEW file, NEW line, NEW more, Longer(n, file, line, more),
         NEW r, NEW s, NEW points, ScriptsSeen(r, file, points),
         line.kind # "begin", s.events = r.events
  PROVE  \A id : \A k \in 1..Len(more) : more[k] = Begin(id) => id \in DOMAIN s.events
  <1>1. /\ n \in Nat /\ Len(file) = n /\ Len(more) = n + 1
        /\ more[n + 1] = line /\ \A j \in 1..n : more[j] = file[j]
        /\ \A j \in 1..(n + 1) : j = n + 1 \/ j \in 1..n
    BY DEF Longer
  <1>2. ASSUME NEW id, NEW k \in 1..(n + 1), more[k] = Begin(id) PROVE id \in DOMAIN s.events
    <2>1. Begin(id).kind = "begin"
      BY DEF Begin, Line
    <2>2. k \in 1..n /\ file[k] = Begin(id)
      BY <1>1, <1>2, <2>1
    <2> QED BY <1>1, <2>2 DEF ScriptsSeen
  <1> QED BY <1>1, <1>2

\* The script that is open ends.
LEMMA EndIsSeen ==
  ASSUME NEW n, NEW file, NEW line, NEW more, Longer(n, file, line, more),
         NEW r, NEW points, ScriptsSeen(r, file, points), Nobody \notin Ids(points),
         \A id \in Ids(points) : ScriptOf(points, id).id = id,
         NEW old, line = End(old), Ends(r, old, points),
         NEW s, s = ReadScript(r, line, points)
  PROVE  ScriptsSeen(s, more, points)
  <1>1. /\ n \in Nat /\ Len(file) = n /\ Len(more) = n + 1 /\ (n + 1) + 1 = n + 2
        /\ more[n + 1] = line /\ \A j \in 1..n : more[j] = file[j]
        /\ \A j \in 1..(n + 1) : j = n + 1 \/ j \in 1..n
        /\ \A j \in 1..n : j \in 1..(n + 1)
    BY DEF Longer
  <1>2. line.kind = "end" /\ line.arg = old /\ line.kind # "begin" /\ IsMarker(line)
    BY DEF End, Line, IsMarker
  <1>3. /\ r.active # Nobody /\ old = r.active /\ r.body = ScriptOf(points, old).gcode
        /\ old \in DOMAIN r.events /\ old \in Ids(points)
    BY DEF Ends, ScriptsSeen
  <1>4. /\ ScriptRecord(s) /\ s.ok = TRUE /\ s.active = Nobody /\ s.events = r.events
        /\ s.z = r.z /\ s.layers = r.layers
    <2>1. ScriptStep(r, line, points, s)
      BY ReadScriptSteps DEF ScriptsSeen
    <2>2. /\ ScriptRecord(s) /\ s.ok = Ends(r, old, points) /\ s.active = Nobody
          /\ s.events = r.events
      <3>1. line.kind = "end" /\ line.arg = old /\ line.kind # "begin"
        BY <1>2
      <3>2. /\ ScriptRecord(s) /\ s.ok = Ends(r, line.arg, points) /\ s.active = Nobody
            /\ s.events = r.events
        BY ONLY <3>1, <2>1, Zenon DEF ScriptStep
      <3> QED BY ONLY <3>1, <3>2, Zenon
    <2>3. s.z = r.z /\ s.layers = r.layers
      BY <1>2, <2>1 DEF ScriptStep
    <2>4. s.ok = TRUE
      <3>1. Ends(r, old, points) = TRUE
        BY DEF Ends
      <3> QED BY <2>2, <3>1
    <2> QED BY <2>2, <2>3, <2>4
  <1>5. LayersSeen(s, more)
    <2>1. LayersSeen(r, file) /\ Skips(Inside(file, n + 1), line)
      BY <1>2 DEF ScriptsSeen, Skips
    <2> QED BY <1>4, <2>1, LayersAreSeen
  <1>6. ~Inside(more, n + 2)
    BY <1>2, InsideGrows DEF Scope
  <1>7. \A id : \A k \in 1..Len(more) : more[k] = Begin(id) => id \in DOMAIN s.events
    BY <1>2, <1>4, BeginsStay
  <1>8. ASSUME NEW id \in DOMAIN r.events PROVE \E k : Opened(s, more, points, id, k)
    <2>1. PICK k : Opened(r, file, points, id, k)
      BY DEF ScriptsSeen
    <2>2. id # Nobody /\ id \in Ids(points)
      BY DEF ScriptsSeen
    <2>3. line # Begin(id)
      <3>1. Begin(id).kind = "begin"
        BY DEF Begin, Line
      <3> QED BY <1>2, <3>1
    <2>4. CASE id # old
      <3>1. Opened(s, more, points, id, k)
        BY <1>3, <1>4, <2>1, <2>2, <2>3, <2>4, StaysClosed
      <3> QED BY <3>1
    <2>5. CASE id = old
      <3>1. /\ k \in 1..n /\ k \in Nat \ {0} /\ file[k] = Begin(id)
            /\ \A j \in 1..n : file[j] = Begin(id) => j = k
            /\ r.events[id] = HeightAt(file, k)
            /\ Holds(file, k + 1, r.body) /\ k + Len(r.body) = n
        BY <1>1, <1>3, <2>1, <2>5 DEF Opened
      <3>2. k \in 1..(n + 1) /\ more[k] = Begin(id)
            /\ \A j \in 1..(n + 1) : more[j] = Begin(id) => j = k
        BY <1>1, <2>3, <3>1
      <3>3. s.events[id] = HeightAt(more, k)
        BY <1>4, <3>1, <3>2, HeightGrows
      <3>4. Holds(more, k + 1, r.body)
        BY <3>1, StillHolds
      <3>5. /\ Holds(more, k, <<Begin(id)>> \o r.body \o <<End(id)>>)
            /\ Len(<<Begin(id)>> \o r.body \o <<End(id)>>) > 0
        <4>1. more[n + 1] = End(id)
          BY <1>1, <2>5
        <4> QED BY <1>1, <3>1, <3>2, <3>4, <4>1, BlockHolds
      <3>6. Block(ScriptOf(points, id)) = <<Begin(id)>> \o r.body \o <<End(id)>>
        <4>1. ScriptOf(points, id).id = id /\ ScriptOf(points, id).gcode = r.body
          BY <1>3, <2>2, <2>5
        <4> QED BY <4>1 DEF Block
      <3>7. id # s.active
        BY <1>4, <2>2
      <3>8. Opened(s, more, points, id, k)
        BY <1>1, <3>2, <3>3, <3>5, <3>6, <3>7 DEF Opened
      <3> QED BY <3>8
    <2> QED BY <2>4, <2>5
  <1>9. /\ IsFiniteSet(Markers(more))
        /\ Cardinality(Markers(more)) + (IF s.active = Nobody THEN 0 ELSE 1)
              = 2 * Cardinality(DOMAIN s.events)
    <2>1. IsFiniteSet(Markers(file)) /\ Cardinality(Markers(file)) + 1 = 2 * Cardinality(DOMAIN r.events)
      BY <1>3 DEF ScriptsSeen
    <2>2. /\ IsFiniteSet(Markers(more)) /\ Cardinality(Markers(file)) \in Nat
          /\ Cardinality(Markers(more)) = Cardinality(Markers(file)) + 1
      BY <1>2, <2>1, MarkersGrow
    <2> QED BY <1>4, <2>1, <2>2
  <1>10. IsFiniteSet(DOMAIN s.events) /\ DOMAIN s.events \subseteq Ids(points)
    BY <1>4 DEF ScriptsSeen
  <1>11. \A id \in DOMAIN s.events : \E k : Opened(s, more, points, id, k)
    BY <1>4, <1>8
  <1> QED
    BY <1>1, <1>4, <1>5, <1>6, <1>7, <1>9, <1>10, <1>11 DEF ScriptsSeen

\* Any other line belongs to the script that is open, or to the engine.
LEMMA PlainIsSeen ==
  ASSUME NEW n, NEW file, NEW line, NEW more, Longer(n, file, line, more),
         NEW r, NEW points, ScriptsSeen(r, file, points), Nobody \notin Ids(points),
         ~IsMarker(line), NEW s, s = ReadScript(r, line, points)
  PROVE  ScriptsSeen(s, more, points)
  <1>1. /\ n \in Nat /\ Len(file) = n /\ Len(more) = n + 1 /\ (n + 1) + 1 = n + 2
        /\ more[n + 1] = line /\ \A j \in 1..n : more[j] = file[j]
        /\ \A j \in 1..(n + 1) : j = n + 1 \/ j \in 1..n
        /\ \A j \in 1..n : j \in 1..(n + 1)
    BY DEF Longer
  <1>2. line.kind # "begin" /\ line.kind # "end"
    BY DEF IsMarker
  <1>3. /\ ScriptRecord(s) /\ s.ok = TRUE /\ s.active = r.active /\ s.events = r.events
        /\ s.body = IF r.active # Nobody THEN Append(r.body, line) ELSE r.body
        /\ LET layer == r.active = Nobody /\ line.kind = "layer"
           IN  /\ s.z = IF layer THEN line.arg ELSE r.z
               /\ s.layers = IF layer THEN Append(r.layers, line.arg) ELSE r.layers
    <2>1. ScriptStep(r, line, points, s) /\ r.ok = TRUE
      BY ReadScriptSteps DEF ScriptsSeen
    <2> QED BY <1>2, <2>1 DEF ScriptStep
  <1>4. r.active # Nobody <=> Inside(file, n + 1)
    BY <1>1 DEF ScriptsSeen
  <1>5. LayersSeen(s, more)
    <2>1. LayersSeen(r, file)
      BY DEF ScriptsSeen
    <2>2. Skips(Inside(file, n + 1), line) <=> r.active # Nobody
      BY <1>4 DEF Skips
    <2> QED BY <1>3, <2>1, <2>2, LayersAreSeen
  <1>6. s.active # Nobody <=> Inside(more, n + 2)
    <2>1. Inside(more, n + 2) <=> Scope(Inside(file, n + 1), line)
      BY InsideGrows
    <2> QED BY <1>3, <1>4, <2>1 DEF Scope
  <1>7. \A id : \A k \in 1..Len(more) : more[k] = Begin(id) => id \in DOMAIN s.events
    BY <1>2, <1>3, BeginsStay
  <1>8. ASSUME NEW id \in DOMAIN r.events PROVE \E k : Opened(s, more, points, id, k)
    <2>1. PICK k : Opened(r, file, points, id, k)
      BY DEF ScriptsSeen
    <2>2. id # Nobody
      BY DEF ScriptsSeen
    <2>3. line # Begin(id)
      <3>1. Begin(id).kind = "begin"
        BY DEF Begin, Line
      <3> QED BY <1>2, <3>1
    <2>4. CASE id # r.active
      <3>1. id # s.active /\ s.events[id] = r.events[id]
        BY <1>3, <2>4
      <3>2. Opened(s, more, points, id, k)
        BY ONLY Longer(n, file, line, more), <2>1, <2>3, <2>4, <3>1, StaysClosed
      <3> QED BY <3>2
    <2>5. CASE id = r.active
      <3>1. /\ k \in 1..n /\ k \in Nat \ {0} /\ file[k] = Begin(id)
            /\ \A j \in 1..n : file[j] = Begin(id) => j = k
            /\ r.events[id] = HeightAt(file, k)
            /\ Holds(file, k + 1, r.body) /\ k + Len(r.body) = n
        <4>1. n \in Nat /\ Len(file) = n
          BY <1>1
        <4> QED BY ONLY <2>1, <2>5, <4>1 DEF Opened
      <3>2. k \in 1..(n + 1) /\ more[k] = Begin(id)
            /\ \A j \in 1..(n + 1) : more[j] = Begin(id) => j = k
        BY <1>1, <2>3, <3>1
      <3>3. s.events[id] = HeightAt(more, k)
        BY <1>3, <3>1, <3>2, HeightGrows
      <3>4. Holds(more, k + 1, s.body) /\ k + Len(s.body) = n + 1
        <4>1. s.body = Append(r.body, line)
          BY <1>3, <2>2, <2>5
        <4>2. Holds(more, k + 1, Append(r.body, line)) /\ k + Len(Append(r.body, line)) = n + 1
          BY <3>1, BodyGrows
        <4> QED BY ONLY <4>1, <4>2
      <3>5. id = s.active
        BY <1>3, <2>5
      <3>6. Opened(s, more, points, id, k)
        BY <1>1, <3>2, <3>3, <3>4, <3>5 DEF Opened
      <3> QED BY <3>6
    <2> QED BY <2>4, <2>5
  <1>9. /\ IsFiniteSet(Markers(more))
        /\ Cardinality(Markers(more)) + (IF s.active = Nobody THEN 0 ELSE 1)
              = 2 * Cardinality(DOMAIN s.events)
    <2>1. /\ IsFiniteSet(Markers(file))
          /\ Cardinality(Markers(file)) + (IF r.active = Nobody THEN 0 ELSE 1)
                = 2 * Cardinality(DOMAIN r.events)
      BY DEF ScriptsSeen
    <2>2. IsFiniteSet(Markers(more)) /\ Cardinality(Markers(more)) = Cardinality(Markers(file))
      BY <2>1, MarkersGrow
    <2> QED BY <1>3, <2>1, <2>2
  <1>10. /\ s.active # Nobody => s.active \in DOMAIN s.events
         /\ IsFiniteSet(DOMAIN s.events) /\ DOMAIN s.events \subseteq Ids(points)
    BY <1>3 DEF ScriptsSeen
  <1>11. \A id \in DOMAIN s.events : \E k : Opened(s, more, points, id, k)
    BY <1>3, <1>8
  <1> QED
    BY <1>1, <1>3, <1>5, <1>6, <1>7, <1>9, <1>10, <1>11 DEF ScriptsSeen

\* What is read without objection is known.
LEMMA ReadScriptSees ==
  ASSUME NEW n, NEW file, NEW line, NEW more, Longer(n, file, line, more),
         line = Line(line.kind, line.arg),
         NEW r, NEW points, ScriptsSeen(r, file, points), Nobody \notin Ids(points),
         \A id \in Ids(points) : ScriptOf(points, id).id = id,
         NEW s, s = ReadScript(r, line, points), s.ok
  PROVE  ScriptsSeen(s, more, points)
  <1>1. ScriptStep(r, line, points, s)
    BY ReadScriptSteps DEF ScriptsSeen
  <1>2. CASE line.kind = "begin"
    <2>1. Begins(r, line.arg, points)
      BY <1>1, <1>2 DEF ScriptStep
    <2>2. line = Begin(line.arg)
      BY <1>2 DEF Begin
    <2> QED BY <2>1, <2>2, BeginIsSeen
  <1>3. CASE line.kind = "end"
    <2>1. Ends(r, line.arg, points)
      BY <1>1, <1>3 DEF ScriptStep
    <2>2. line = End(line.arg)
      BY <1>3 DEF End
    <2> QED BY <2>1, <2>2, EndIsSeen
  <1>4. CASE ~IsMarker(line)
    BY <1>4, PlainIsSeen
  <1> QED BY <1>2, <1>3, <1>4 DEF IsMarker

-----------------------------------------------------------------------------
(* What the readers demand of a file at its end.                           *)

\* The layer actions of one kind: a list, no two alike.
Listed(points) ==
    /\ points \in Seq(ToSet(points)) /\ Unique(points)
    /\ \A i \in DOMAIN points : points[i].z \in Int

LEMMA ListedLength ==
  ASSUME NEW points, Listed(points)
  PROVE  Len(points) \in Nat /\ DOMAIN points = 1..Len(points)
  BY LenProperties DEF Listed

\* Something that tells the members of a list apart is as often there.
LEMMA AsManyAsListed ==
  ASSUME NEW points, NEW n \in Nat, DOMAIN points = 1..n, NEW attr, NEW S,
         S = {attr[i] : i \in 1..n}, attr \in [1..n -> S]
  PROVE  /\ IsFiniteSet(S) /\ Cardinality(S) <= n /\ Cardinality(S) \in Nat
         /\ (\A i, j \in 1..n : i # j => attr[i] # attr[j]) => Cardinality(S) = n
  <1>1. IsFiniteSet(1..n) /\ Cardinality(1..n) = n
    <2>1. 1 \in Int /\ n \in Int
      OBVIOUS
    <2>2. /\ IsFiniteSet(1..n)
          /\ IF 1 > n THEN Cardinality(1..n) = 0 ELSE Cardinality(1..n) = n - 1 + 1
      BY <2>1, FS_Interval
    <2> QED BY <2>2
  <1>2. attr \in Surjection(1..n, S)
    BY DEF Surjection
  <1>3. IsFiniteSet(S) /\ Cardinality(S) <= n
        /\ (attr \in Injection(1..n, S) => Cardinality(S) = n)
    BY <1>1, <1>2, FS_Surjection
  <1>4. (\A i, j \in 1..n : i # j => attr[i] # attr[j]) => attr \in Injection(1..n, S)
    BY DEF Injection, IsInjective
  <1> QED BY <1>3, <1>4, FS_CardinalityType

LEMMA IdsAndHeights ==
  ASSUME NEW points, Listed(points)
  PROVE  /\ IsFiniteSet(Ids(points)) /\ Cardinality(Ids(points)) = Len(points)
         /\ IsFiniteSet(Heights(points)) /\ Cardinality(Heights(points)) \in Nat
         /\ Cardinality(Heights(points)) <= Len(points)
         /\ Cardinality(ToSet(points)) = Len(points) /\ IsFiniteSet(ToSet(points))
  <1> DEFINE n == Len(points)
             id == [i \in 1..n |-> points[i].id]
             z == [i \in 1..n |-> points[i].z]
  <1>1. n \in Nat /\ DOMAIN points = 1..n
    BY ListedLength
  <1>2. /\ Ids(points) = {id[i] : i \in 1..n} /\ id \in [1..n -> Ids(points)]
        /\ Heights(points) = {z[i] : i \in 1..n} /\ z \in [1..n -> Heights(points)]
    BY <1>1 DEF Ids, Heights
  <1>3. \A i, j \in 1..n : i # j => id[i] # id[j] /\ points[i] # points[j]
    BY <1>1 DEF Listed, Unique
  <1>4. ToSet(points) = {points[i] : i \in 1..n} /\ points \in [1..n -> ToSet(points)]
    BY <1>1, LenProperties DEF Listed, ToSet
  <1> HIDE DEF n, id, z
  <1>5. IsFiniteSet(Ids(points)) /\ Cardinality(Ids(points)) = n
    BY <1>1, <1>2, <1>3, AsManyAsListed
  <1>6. /\ IsFiniteSet(Heights(points)) /\ Cardinality(Heights(points)) \in Nat
        /\ Cardinality(Heights(points)) <= n
    BY <1>1, <1>2, AsManyAsListed
  <1>7. IsFiniteSet(ToSet(points)) /\ Cardinality(ToSet(points)) = n
    BY <1>1, <1>3, <1>4, AsManyAsListed
  <1> QED BY <1>5, <1>6, <1>7 DEF n

\* Sorting keeps the members and their number.
LEMMA SortedByHeight ==
  ASSUME NEW points, Listed(points)
  PROVE  LET q == SortByHeight(points)
         IN  /\ DOMAIN q = 1..Len(points) /\ Len(q) = Len(points)
             /\ ToSet(q) = ToSet(points)
  <1> DEFINE S == ToSet(points)
             n == Len(points)
             key == [p \in S |-> p.z]
             q == SortByHeight(points)
  <1>1. n \in Nat /\ DOMAIN points = 1..n /\ Cardinality(S) = n
    BY ListedLength, IdsAndHeights
  <1>2. Keyed(S, key)
    <2>1. IsFiniteSet(S)
      BY IdsAndHeights
    <2>2. key \in [S -> Int]
      BY DEF Listed, ToSet
    <2>3. \A x, y \in S : key[x] = key[y] => x = y
      BY DEF Listed, Unique, ToSet
    <2> HIDE DEF key, S
    <2> QED BY <2>1, <2>2, <2>3 DEF Keyed
  <1>3. \A p \in S : Rank(S, key, p) = Cardinality({o \in S : o.z <= p.z})
    <2> TAKE p \in S
    <2>1. {o \in S : o.z <= p.z} = {o \in S : key[o] <= key[p]}
      OBVIOUS
    <2> QED BY <2>1 DEF Rank
  <1>4. \A p \in S : Rank(S, key, p) \in 1..n
    <2> HIDE DEF key, S
    <2> QED BY <1>1, <1>2, RankInRange
  <1>5. OneEach(S, key)
    <2> HIDE DEF key, S
    <2> QED BY <1>2, RankIsOnto
  <1>6. q = [k \in 1..n |-> CHOOSE p \in S : Cardinality({o \in S : o.z <= p.z}) = k]
    BY <1>1 DEF SortByHeight
  <1> HIDE DEF S, n, key, q
  <1>7. DOMAIN q = 1..n /\ Len(q) = n
    BY <1>1, <1>6
  <1>8. ASSUME NEW k \in 1..n PROVE q[k] \in S /\ Rank(S, key, q[k]) = k
    <2>1. \E p \in S : Cardinality({o \in S : o.z <= p.z}) = k
      BY <1>1, <1>3, <1>5 DEF OneEach
    <2>2. q[k] = CHOOSE p \in S : Cardinality({o \in S : o.z <= p.z}) = k
      BY <1>6
    <2>3. q[k] \in S /\ Cardinality({o \in S : o.z <= q[k].z}) = k
      BY <2>1, <2>2
    <2> QED BY <1>3, <2>3
  <1>9. ASSUME NEW p \in S PROVE p = q[Rank(S, key, p)]
    BY <1>4, <1>5, <1>8 DEF OneEach
  <1>10. ToSet(q) = S
    BY <1>4, <1>7, <1>8, <1>9 DEF ToSet
  <1> QED BY <1>7, <1>10 DEF S, n, q

\* The script of an id is the one of its point.
LEMMA ScriptOfPoint ==
  ASSUME NEW points, Listed(points), NEW i \in DOMAIN points
  PROVE  ScriptOf(points, points[i].id) = Script(points[i]) /\ Script(points[i]).id = points[i].id
  <1> DEFINE n == Len(points)
             made == [j \in DOMAIN points |-> Script(points[j])]
  <1>1. n \in Nat /\ DOMAIN points = 1..n
    BY ListedLength
  <1>2. \A j \in 1..n : made[j] = Script(points[j]) /\ made[j].id = points[j].id /\ made[j].z = points[j].z
    BY <1>1 DEF Script
  <1>3. ToSet(made) = {Script(points[j]) : j \in 1..n}
    BY <1>1 DEF ToSet
  <1>4. made \in Seq(ToSet(made)) /\ DOMAIN made = 1..n
    <2>1. \A j \in 1..n : Script(points[j]) \in ToSet(made)
      BY <1>3
    <2> DEFINE T == ToSet(made)
    <2>2. made = [j \in 1..n |-> Script(points[j])]
      BY <1>1
    <2> HIDE DEF T
    <2>3. made \in [1..n -> T]
      BY <2>1, <2>2 DEF T
    <2>4. made \in Seq(T)
      BY <1>1, <2>3, SeqDef
    <2> QED BY <1>1, <2>4 DEF T
  <1>5. Listed(made)
    <2>1. \A j, k \in 1..n : j # k => points[j].id # points[k].id /\ points[j].z # points[k].z
      BY <1>1 DEF Listed, Unique
    <2>2. \A j \in 1..n : points[j].z \in Int
      BY <1>1 DEF Listed
    <2> HIDE DEF made
    <2>3. Unique(made)
      BY <1>2, <1>4, <2>1 DEF Unique
    <2>4. \A j \in DOMAIN made : made[j].z \in Int
      BY <1>2, <1>4, <2>2
    <2> QED BY <1>4, <2>3, <2>4 DEF Listed
  <1>6. ToSet(Scripts(points)) = {Script(points[j]) : j \in 1..n}
    <2>1. Scripts(points) = SortByHeight(made)
      BY DEF Scripts
    <2> HIDE DEF made
    <2> QED BY <1>3, <1>5, <2>1, SortedByHeight
  <1>7. Script(points[i]) \in ToSet(Scripts(points)) /\ Script(points[i]).id = points[i].id
    BY <1>1, <1>6 DEF Script
  <1>8. \A p \in ToSet(Scripts(points)) : p.id = points[i].id => p = Script(points[i])
    <2>1. \A j \in 1..n : points[j].id = points[i].id => j = i
      BY <1>1 DEF Listed, Unique
    <2>2. \A j \in 1..n : Script(points[j]).id = points[j].id
      BY DEF Script
    <2> QED BY <1>6, <2>1, <2>2
  <1>9. ScriptOf(points, points[i].id) = Script(points[i])
    <2> DEFINE T == ToSet(Scripts(points))
               own == Script(points[i])
               id == points[i].id
    <2>1. ScriptOf(points, id) = CHOOSE p \in T : p.id = id
      BY DEF ScriptOf
    <2>2. own \in T /\ own.id = id /\ \A p \in T : p.id = id => p = own
      BY <1>7, <1>8
    <2> HIDE DEF T, own, id
    <2> QED BY <2>1, <2>2 DEF id, own
  <1> QED BY <1>7, <1>9

\* The layer a reader waits for is the first that reaches the height.
LEMMA TargetIsReached ==
  ASSUME NEW n \in Nat, NEW file, DOMAIN file = 1..n,
         NEW r, LayersSeen(r, file), NEW z, Target(r.layers, z) # Unknown
  PROVE  /\ Reaching(file, z) # {}
         /\ Target(r.layers, z) = file[Min(Reaching(file, z))].arg
  <1> DEFINE S == NativeLayers(file)
             W == Reaching(file, z)
             I == {i \in 1..Len(r.layers) : r.layers[i] + Epsilon >= z}
  <1>1. S \in SUBSET (1..n) /\ W \in SUBSET S
    BY DEF NativeLayers, Native, Reaching
  <1>2. Collects(r.layers, S, Args(file))
    BY DEF LayersSeen
  <1>3. \A k \in 1..n : Args(file)[k] = file[k].arg
    BY DEF Args
  <1>4. /\ Len(r.layers) = Cardinality(S) /\ Cardinality(S) \in Nat
        /\ \A k \in S : r.layers[UpTo(S, k)] = file[k].arg
        /\ \A k \in S : UpTo(S, k) \in 1..Len(r.layers)
        /\ \A i \in 1..Len(r.layers) : \E k \in S : UpTo(S, k) = i
    BY <1>1, <1>2, <1>3, NumbersInOrder DEF Collects
  <1>5. \A k \in S : k \in W <=> file[k].arg + Epsilon >= z
    BY DEF Reaching
  <1>6. I = Places(r.layers, S, W)
    <2>1. ASSUME NEW i \in 1..Len(r.layers)
          PROVE  r.layers[i] + Epsilon >= z <=> \E k \in W : i = UpTo(S, k)
      <3> HIDE DEF S, W
      <3>1. PICK k \in S : UpTo(S, k) = i
        BY <1>4
      <3>2. r.layers[i] = file[k].arg
        BY <1>4, <3>1
      <3>3. ASSUME NEW j \in W, i = UpTo(S, j) PROVE r.layers[i] + Epsilon >= z
        BY <1>1, <1>4, <1>5, <3>3
      <3> QED BY <1>5, <3>1, <3>2, <3>3
    <2> HIDE DEF S, W
    <2> QED BY <2>1 DEF Places
  <1>7. Target(r.layers, z) = IF I # {} THEN IF Min(I) = 0 THEN Unknown ELSE r.layers[Min(I)]
                              ELSE Unknown
    BY DEF Target, SelectInSeq
  <1> HIDE DEF I, S, W
  <1>8. I # {} /\ Target(r.layers, z) = r.layers[Min(I)]
    BY <1>7
  <1>9. W # {} /\ r.layers[Min(I)] = Args(file)[Min(W)] /\ Min(W) \in W
    <2> DEFINE J == Places(r.layers, S, W)
               val == Args(file)
               seq == r.layers
    <2>1. Collects(seq, S, val) /\ I = J
      BY <1>2, <1>6
    <2> HIDE DEF val, seq
    <2>2. /\ Places(seq, S, W) = {} <=> W = {}
          /\ Places(seq, S, W) # {} => seq[Min(Places(seq, S, W))] = val[Min(W)] /\ Min(W) \in W
      BY <1>1, <2>1, FirstCollected
    <2>3. J = Places(seq, S, W)
      BY DEF seq
    <2> HIDE DEF J
    <2> QED BY <1>8, <2>1, <2>2, <2>3 DEF seq, val
  <1>10. Min(W) \in 1..n
    BY <1>1, <1>9
  <1> QED BY <1>3, <1>8, <1>9, <1>10 DEF W

LEMMA PausesAccepted ==
  ASSUME NEW n \in Nat, NEW file, DOMAIN file = 1..n,
         NEW r, PausesSeen(r, file), NEW points, Listed(points), points # <<>>,
         PausesVerified(r, points)
  PROVE  PausesPrinted(file, points)
  <1> DEFINE asked == SortByHeight(points)
             S == NativePauses(file)
             m == Len(points)
             expected == [i \in 1..m |-> Target(r.layers, asked[i].z)]
  <1>1. m \in Nat /\ DOMAIN asked = 1..m /\ Len(asked) = m
    BY ListedLength, SortedByHeight
  <1>2. S \in SUBSET (1..n) /\ \A k \in S : HeightsOf(file)[k] = HeightAt(file, k)
    BY DEF NativePauses, Native, HeightsOf
  <1>3. /\ Len(r.events) = Cardinality(S)
        /\ \A k \in S : UpTo(S, k) \in 1..Cardinality(S) /\ r.events[UpTo(S, k)] = HeightAt(file, k)
    <2>1. Collects(r.events, S, HeightsOf(file))
      BY DEF PausesSeen
    <2> HIDE DEF S
    <2> QED BY <1>2, <2>1, NumbersInOrder DEF Collects
  <1>4. /\ Len(r.events) = m
        /\ \A i \in 1..m : /\ expected[i] # Unknown /\ r.events[i] # Unknown
                           /\ Near(r.events[i], expected[i])
    <2>1. expected = [i \in DOMAIN Pauses(points) |-> Target(r.layers, Pauses(points)[i].z)]
      BY <1>1 DEF Pauses
    <2>2. Len(expected) = m /\ DOMAIN expected = 1..m
      <3> HIDE DEF m
      <3> QED BY <1>1
    <2>3. /\ Len(r.events) = Len(expected)
          /\ \A i \in DOMAIN expected : /\ expected[i] # Unknown /\ r.events[i] # Unknown
                                        /\ Near(r.events[i], expected[i])
      <3> HIDE DEF expected
      <3> QED BY <2>1 DEF PausesVerified
    <2> HIDE DEF expected, m
    <2> QED BY <2>2, <2>3
  <1>5. \A i \in 1..m : expected[i] = Target(r.layers, asked[i].z)
    OBVIOUS
  <1>6. LayersSeen(r, file)
    BY DEF PausesSeen
  <1> HIDE DEF asked, S, m, expected
  <1>7. ASSUME NEW k \in S PROVE PrintedAt(file, k, asked[UpTo(S, k)].z)
    <2> DEFINE i == UpTo(S, k)
               z == asked[i].z
    <2>1. i \in 1..m /\ r.events[i] = HeightAt(file, k)
      BY <1>3, <1>4
    <2>2. /\ Target(r.layers, z) # Unknown /\ HeightAt(file, k) # Unknown
          /\ Near(HeightAt(file, k), Target(r.layers, z))
      BY <1>4, <1>5, <2>1
    <2> HIDE DEF z
    <2>3. /\ Reaching(file, z) # {}
          /\ Target(r.layers, z) = file[Min(Reaching(file, z))].arg
      BY <1>6, <2>2, TargetIsReached
    <2>4. PrintedAt(file, k, z)
      BY <2>2, <2>3 DEF PrintedAt
    <2> QED BY <2>4 DEF z
  <1>8. Cardinality(S) = Len(asked)
    BY <1>1, <1>3, <1>4
  <1> QED BY <1>7, <1>8 DEF PausesPrinted, S, asked, NativePauses, UpTo

\* What a file holds from a line on stands at that line.
LEMMA HeldStands ==
  ASSUME NEW X, NEW file \in Seq(X), NEW k \in Nat \ {0}, NEW block,
         Holds(file, k, block), Len(block) > 0
  PROVE  /\ StandsAt(file, k, block) /\ block[1] = file[k]
         /\ \A j \in DOMAIN file : StandsAt(file, j, block) => file[j] = block[1]
  <1> DEFINE m == Len(block)
             n == Len(file)
  <1>1. PICK Y : block \in Seq(Y)
    BY DEF Holds
  <1>2. m \in Nat \ {0} /\ n \in Nat /\ DOMAIN file = 1..n /\ block \in Seq(X \cup Y)
    BY <1>1, LenProperties
  <1>3. file \in Seq(X \cup Y) /\ \A j \in 1..n : file[j] \in X \cup Y
    OBVIOUS
  <1>4. k + m - 1 <= n /\ \A i \in 1..m : file[k + i - 1] = block[i]
    BY DEF Holds
  <1> HIDE DEF m, n
  <1>5. SubSeq(file, k, k + m - 1) = block
    <2> DEFINE part == SubSeq(file, k, k + m - 1)
    <2>1. k \in Int /\ k + m - 1 \in Int /\ k <= k + m - 1 /\ (k + m - 1) - k + 1 = m
      BY <1>2
    <2>2. \A i \in k..(k + m - 1) : file[i] \in X \cup Y
      BY <1>2, <1>3, <1>4
    <2>3. /\ part \in Seq(X \cup Y)
          /\ Len(part) = IF k <= k + m - 1 THEN (k + m - 1) - k + 1 ELSE 0
          /\ \A i \in 1..((k + m - 1) - k + 1) : part[i] = file[k + i - 1]
      BY <2>1, <2>2, SubSeqProperties
    <2> HIDE DEF part
    <2>4. Len(part) = m /\ \A i \in 1..m : part[i] = file[k + i - 1]
      BY <2>1, <2>3
    <2>5. part = block
      BY <1>2, <1>4, <2>3, <2>4, SeqEqual DEF m
    <2> QED BY <2>5 DEF part
  <1>6. block[1] = file[k]
    <2>1. 1 \in 1..m /\ k + 1 - 1 = k
      BY <1>2
    <2> QED BY <1>4, <2>1
  <1>7. ASSUME NEW j \in 1..n, j + m - 1 <= n, SubSeq(file, j, j + m - 1) = block
        PROVE  file[j] = block[1]
    <2>1. j \in Int /\ j + m - 1 \in Int /\ 1 \in 1..((j + m - 1) - j + 1) /\ j + 1 - 1 = j
      BY <1>2
    <2>2. \A i \in j..(j + m - 1) : file[i] \in X \cup Y
      BY <1>2, <1>3, <1>7
    <2>3. \A i \in 1..((j + m - 1) - j + 1) : SubSeq(file, j, j + m - 1)[i] = file[j + i - 1]
      BY <2>1, <2>2, SubSeqProperties
    <2>4. SubSeq(file, j, j + m - 1)[1] = file[j]
      BY <2>1, <2>3
    <2> QED BY <1>7, <2>4
  <1> QED BY <1>2, <1>4, <1>5, <1>6, <1>7 DEF StandsAt, m, n

LEMMA ScriptsAccepted ==
  ASSUME NEW X, NEW file \in Seq(X), NEW r, NEW points, NEW pauses,
         ScriptsSeen(r, file, points), Listed(points), points # <<>>, Nobody \notin Ids(points),
         ScriptsVerified(r, points, pauses)
  PROVE  ScriptsPrinted(file, points)
  <1> DEFINE n == Len(file)
             target(z) == Target(r.layers, z)
  <1>1. n \in Nat /\ DOMAIN file = 1..n
    BY LenProperties
  <1>2. /\ r.active = Nobody /\ DOMAIN r.events = Ids(points)
        /\ \A z \in Heights(points) : target(z) # Unknown
        /\ \A i \in DOMAIN points : /\ r.events[points[i].id] # Unknown
                                    /\ Near(r.events[points[i].id], target(points[i].z))
    BY DEF ScriptsVerified
  <1>3. LayersSeen(r, file)
    BY DEF ScriptsSeen
  <1> HIDE DEF n
  <1>4. ASSUME NEW i \in DOMAIN points
        PROVE  LET block == Block(Script(points[i]))
               IN \E k \in DOMAIN file : /\ PrintedAt(file, k, points[i].z)
                                         /\ \A j \in DOMAIN file : StandsAt(file, j, block) <=> j = k
    <2> DEFINE id == points[i].id
               z == points[i].z
               block == Block(Script(points[i]))
    <2>1. id \in DOMAIN r.events /\ z \in Heights(points)
      BY <1>2 DEF Ids, Heights
    <2>2. PICK k : Opened(r, file, points, id, k)
      BY <2>1 DEF ScriptsSeen
    <2>3. block = Block(ScriptOf(points, id)) /\ Script(points[i]).id = id
      BY ScriptOfPoint
    <2>4. id # r.active
      BY <1>2, <2>1
    <2> HIDE DEF block, id, z
    <2>5. /\ k \in 1..n /\ file[k] = Begin(id)
          /\ \A j \in 1..n : file[j] = Begin(id) => j = k
          /\ r.events[id] = HeightAt(file, k)
          /\ Holds(file, k, block) /\ Len(block) > 0
      BY <2>2, <2>3, <2>4 DEF Opened, n
    <2>6. /\ StandsAt(file, k, block) /\ block[1] = file[k]
          /\ \A j \in DOMAIN file : StandsAt(file, j, block) => file[j] = block[1]
      <3>1. k \in Nat \ {0}
        BY <1>1, <2>5
      <3> QED BY <2>5, <3>1, HeldStands
    <2>7. \A j \in DOMAIN file : StandsAt(file, j, block) <=> j = k
      BY <1>1, <2>5, <2>6
    <2>8. PrintedAt(file, k, z)
      <3>1. /\ target(z) # Unknown /\ HeightAt(file, k) # Unknown
            /\ Near(HeightAt(file, k), target(z))
        BY <1>2, <2>1, <2>5 DEF id, z
      <3>2. /\ Reaching(file, z) # {}
            /\ target(z) = file[Min(Reaching(file, z))].arg
        BY <1>1, <1>3, <3>1, TargetIsReached
      <3> QED BY <3>1, <3>2 DEF PrintedAt
    <2> QED BY <1>1, <2>5, <2>7, <2>8 DEF block, z
  <1>5. Cardinality({k \in DOMAIN file : IsMarker(file[k])}) = 2 * Len(points)
    <2>1. Cardinality(Markers(file)) + 0 = 2 * Cardinality(Ids(points))
      BY <1>2 DEF ScriptsSeen
    <2>2. Cardinality(Markers(file)) \in Nat
      BY FS_CardinalityType DEF ScriptsSeen
    <2>3. Cardinality(Ids(points)) = Len(points)
      BY IdsAndHeights
    <2> QED BY <2>1, <2>2, <2>3 DEF Markers
  <1> QED BY <1>4, <1>5 DEF ScriptsPrinted

LEMMA LayersAreShared ==
  ASSUME NEW n \in Nat, NEW file, DOMAIN file = 1..n, NEW r, NEW points, NEW pauses,
         LayersSeen(r, file), Listed(points), Listed(pauses), points # <<>>,
         ScriptsVerified(r, points, pauses)
  PROVE  OneActionPerLayer(file, Heights(points) \cup Heights(pauses))
  <1> DEFINE H == Heights(points) \cup Heights(pauses)
             target == [z \in H |-> Target(r.layers, z)]
             T == {Target(r.layers, z) : z \in H}
  <1>1. /\ \A z \in H : Target(r.layers, z) # Unknown
        /\ Cardinality(T) = Len(points) + Len(pauses)
    BY DEF ScriptsVerified
  <1>2. target \in Surjection(H, T)
    BY DEF Surjection
  <1>3. \A z \in H : target[z] = Target(r.layers, z)
    OBVIOUS
  <1>4. IsFiniteSet(H) /\ Cardinality(H) <= Len(points) + Len(pauses) /\ Cardinality(H) \in Nat
    <2> DEFINE A == Heights(points)
               B == Heights(pauses)
    <2>1. /\ IsFiniteSet(A) /\ Cardinality(A) \in Nat /\ Cardinality(A) <= Len(points)
          /\ IsFiniteSet(B) /\ Cardinality(B) \in Nat /\ Cardinality(B) <= Len(pauses)
          /\ Len(points) \in Nat /\ Len(pauses) \in Nat
      BY IdsAndHeights, ListedLength
    <2> HIDE DEF A, B
    <2>2. /\ IsFiniteSet(A \cup B)
          /\ Cardinality(A \cup B) = Cardinality(A) + Cardinality(B) - Cardinality(A \cap B)
      BY <2>1, FS_Union
    <2>3. Cardinality(A \cap B) \in Nat
      BY <2>1, FS_Intersection, FS_CardinalityType
    <2>4. Cardinality(A \cup B) \in Nat
      BY <2>2, FS_CardinalityType
    <2>5. H = A \cup B
      BY DEF A, B
    <2> HIDE DEF H
    <2> QED BY <2>1, <2>2, <2>3, <2>4, <2>5
  <1> HIDE DEF H, target, T
  <1>5. target \in Injection(H, T)
    <2>1. /\ IsFiniteSet(T) /\ Cardinality(T) <= Cardinality(H)
          /\ Cardinality(T) = Cardinality(H) => target \in Injection(H, T)
      BY <1>2, <1>4, FS_Surjection
    <2>2. Cardinality(T) \in Nat
      BY <2>1, FS_CardinalityType
    <2> QED BY <1>1, <1>4, <2>1, <2>2
  <1>6. \A z \in H : file[Min(Reaching(file, z))].arg = target[z]
    BY <1>1, <1>3, TargetIsReached
  <1>7. \A y, z \in H : target[y] = target[z] => y = z
    BY <1>5 DEF Injection, IsInjective
  <1> QED BY <1>6, <1>7 DEF OneActionPerLayer, H

-----------------------------------------------------------------------------
(* From the readers to the accepted file.                                  *)

\* Points are compared only where the contract let a claim through.
LEMMA ActionsAreListed ==
  ASSUME NEW c \in Claims, ClaimValid(c)
  PROVE  Listed(c.plate.pauses) /\ Listed(c.plate.scripts) /\ Nobody \notin Ids(c.plate.scripts)
  <1> DEFINE pauses == c.plate.pauses
             scripts == c.plate.scripts
  <1>1. /\ pauses \in Seq(ToSet(pauses)) /\ scripts \in Seq(ToSet(scripts))
        /\ \A point \in ToSet(pauses) \cup ToSet(scripts) : point.z \in Int
        /\ Nobody \notin Ids(scripts)
        /\ c.plate.declared \/ ~HasActions(c)
    BY PointsAssumption
  <1>2. Unique(pauses) /\ Unique(scripts)
    <2>1. CASE c.plate.declared
      BY <2>1 DEF ClaimValid, PlateValid, PausesValid, ScriptsValid
    <2>2. CASE pauses = <<>> /\ scripts = <<>>
      BY <2>2 DEF Unique
    <2> QED BY <1>1, <2>1, <2>2 DEF HasActions
  <1>3. \A i \in DOMAIN pauses : pauses[i].z \in Int
    BY <1>1 DEF ToSet
  <1>4. \A i \in DOMAIN scripts : scripts[i].z \in Int
    BY <1>1 DEF ToSet
  <1> QED BY <1>1, <1>2, <1>3, <1>4 DEF Listed

\* All of them know nothing of an empty file.
LEMMA NothingSeen ==
  ASSUME NEW points
  PROVE  /\ SummarySeen(InspectionBegins, <<>>) /\ PausesSeen(PausesBegin, <<>>)
         /\ ScriptsSeen(ScriptsBegin, <<>>, points)
  <1>1. Len(<<>>) = 0 /\ DOMAIN <<>> = {}
    OBVIOUS
  <1>2. ~Inside(<<>>, 0 + 1)
    BY DEF Inside
  <1>3. Native(<<>>) = {} /\ NativeLayers(<<>>) = {} /\ NativePauses(<<>>) = {} /\ Markers(<<>>) = {}
    BY DEF Native, NativeLayers, NativePauses, Markers
  <1>4. HeightAt(<<>>, 0 + 1) = Unknown
    BY <1>3 DEF HeightAt
  <1>5. IsFiniteSet({}) /\ Cardinality({}) = 0
    BY FS_EmptySet
  <1>6. SummarySeen(InspectionBegins, <<>>)
    BY <1>1, <1>2, <1>3, <1>5 DEF SummarySeen, InspectionBegins
  <1>7. LayersSeen(PausesBegin, <<>>) /\ LayersSeen(ScriptsBegin, <<>>)
    BY <1>1, <1>3, <1>4, NothingCollected DEF LayersSeen, PausesBegin, ScriptsBegin
  <1>8. PausesSeen(PausesBegin, <<>>)
    <2>1. PausesBegin.events = <<>> /\ PausesBegin.active = FALSE /\ PauseRecord(PausesBegin)
      BY DEF PausesBegin, PauseRecord
    <2> QED BY <1>1, <1>2, <1>3, <1>7, <2>1, NothingCollected DEF PausesSeen
  <1>9. ScriptsSeen(ScriptsBegin, <<>>, points)
    <2>1. /\ ScriptsBegin.events = <<>> /\ ScriptsBegin.active = Nobody
          /\ ScriptsBegin.ok = TRUE /\ ScriptRecord(ScriptsBegin)
      BY DEF ScriptsBegin, ScriptRecord
    <2>2. /\ IsFiniteSet(DOMAIN ScriptsBegin.events) /\ DOMAIN ScriptsBegin.events \subseteq Ids(points)
          /\ \A id \in DOMAIN ScriptsBegin.events : \E k : Opened(ScriptsBegin, <<>>, points, id, k)
          /\ Cardinality(DOMAIN ScriptsBegin.events) = 0
      BY <1>1, <1>5, <2>1
    <2>3. \A id : \A k \in 1..Len(<<>>) : <<>>[k] = Begin(id) => id \in DOMAIN ScriptsBegin.events
      <3>1. 1..Len(<<>>) = {}
        BY <1>1
      <3> QED BY <3>1
    <2>4. IsFiniteSet(Markers(<<>>)) /\ Cardinality(Markers(<<>>)) = 0
      BY <1>3, <1>5
    <2>5. 0 + 0 = 2 * 0
      OBVIOUS
    <2>6. ScriptsBegin.active # Nobody <=> Inside(<<>>, Len(<<>>) + 1)
      BY <1>1, <1>2, <2>1
    <2> QED BY <1>7, <2>1, <2>2, <2>3, <2>4, <2>5, <2>6 DEF ScriptsSeen
  <1> QED BY <1>6, <1>8, <1>9

\* What an accepted file must do.
PrintsAsAsked(file, plate) ==
    /\ plate.scripts # <<>> =>
         /\ ScriptsPrinted(file, plate.scripts)
         /\ OneActionPerLayer(file, Heights(plate.scripts) \cup Heights(plate.pauses))
    /\ plate.pauses # <<>> => PausesPrinted(file, plate.pauses)

CountsItsLayers(m) == m # <<>> => m.layerCount = Cardinality(NativeLayers(m.gcode))

\* The readers know the lines printed so far, whatever they object to next.
EvidenceInv ==
    /\ claim \in Claims
    /\ pc \notin {"claimed", "failed"} => ClaimValid(claim)
    /\ printed \in Seq(Lines(claim))
    /\ SummarySeen(reading.summary, printed)
    /\ PausesSeen(reading.pauses, printed)
    /\ claim.plate.scripts # <<>> => ScriptsSeen(reading.scripts, printed, claim.plate.scripts)
    /\ pc \in {"compiling", "publishing", "done"} => PrintsAsAsked(printed, claim.plate)
    /\ CountsItsLayers(manifest)

LEMMA InitEvident == Init => EvidenceInv
  <1> SUFFICES ASSUME Init PROVE EvidenceInv
    OBVIOUS
  <1>1. /\ claim \in Claims /\ pc = "claimed" /\ printed = <<>> /\ manifest = <<>>
        /\ reading = [summary |-> InspectionBegins, pauses |-> PausesBegin,
                      scripts |-> ScriptsBegin]
    BY DEF Init
  <1>2. printed \in Seq(Lines(claim))
    BY <1>1
  <1> QED BY <1>1, <1>2, NothingSeen DEF EvidenceInv, CountsItsLayers

LEMMA ReadLineEvident ==
  ASSUME EvidenceInv, ReadLine, ~Throw
  PROVE  EvidenceInv'
  <1> DEFINE points == claim.plate.scripts
             n == Len(printed)
  <1>1. PICK line \in Lines(claim) :
          LET scripts == IF points = <<>> THEN reading.scripts
                         ELSE ReadScript(reading.scripts, line, points)
          IN /\ scripts.ok
             /\ printed' = Append(printed, line)
             /\ reading' = [summary |-> Inspect(reading.summary, line),
                            pauses  |-> ReadPause(reading.pauses, line),
                            scripts |-> scripts]
    BY DEF ReadLine
  <1>2. claim' = claim /\ pc' = pc /\ manifest' = manifest /\ pc = "engine"
    BY DEF ReadLine
  <1>3. /\ claim \in Claims /\ ClaimValid(claim) /\ printed \in Seq(Lines(claim))
        /\ SummarySeen(reading.summary, printed) /\ PausesSeen(reading.pauses, printed)
        /\ points # <<>> => ScriptsSeen(reading.scripts, printed, points)
    BY <1>2 DEF EvidenceInv
  <1>4. Longer(n, printed, line, printed') /\ printed' \in Seq(Lines(claim))
    BY <1>1, <1>3, AppendIsLonger
  <1>5. SummarySeen(reading'.summary, printed')
    BY <1>1, <1>3, <1>4, InspectSees
  <1>6. PausesSeen(reading'.pauses, printed')
    BY <1>1, <1>3, <1>4, ReadPauseSees
  <1>7. ASSUME points # <<>> PROVE ScriptsSeen(reading'.scripts, printed', points)
    <2>1. Listed(points) /\ Nobody \notin Ids(points)
      BY <1>3, ActionsAreListed
    <2>2. \A id \in Ids(points) : ScriptOf(points, id).id = id
      BY <2>1, ScriptOfPoint DEF Ids
    <2>3. line = Line(line.kind, line.arg)
      BY <1>3, PointsAssumption
    <2> DEFINE r == reading.scripts
               s == ReadScript(r, line, points)
    <2>4. s.ok /\ reading'.scripts = s
      BY <1>1, <1>7
    <2> HIDE DEF s, points
    <2>5. ScriptsSeen(s, printed', points)
      BY <1>3, <1>4, <1>7, <2>1, <2>2, <2>3, <2>4, ReadScriptSees DEF s
    <2> QED BY <2>4, <2>5
  <1> QED BY <1>2, <1>3, <1>4, <1>5, <1>6, <1>7 DEF EvidenceInv

\* What is still there when the file ends was asked for.
LEMMA EndOfFileEvident ==
  ASSUME EvidenceInv, EndOfFile, ~Throw
  PROVE  EvidenceInv'
  <1> DEFINE scripts == claim.plate.scripts
             pauses == claim.plate.pauses
  <1>1. /\ ScriptsVerified(reading.scripts, scripts, pauses)
        /\ PausesVerified(reading.pauses, pauses)
        /\ pc = "engine" /\ pc' = "compiling"
        /\ UNCHANGED <<claim, printed, reading, manifest>>
    BY DEF EndOfFile
  <1>2. /\ claim \in Claims /\ ClaimValid(claim) /\ printed \in Seq(Lines(claim))
        /\ PausesSeen(reading.pauses, printed)
        /\ scripts # <<>> => ScriptsSeen(reading.scripts, printed, scripts)
    BY <1>1 DEF EvidenceInv
  <1>3. Listed(pauses) /\ Listed(scripts) /\ Nobody \notin Ids(scripts)
    BY <1>2, ActionsAreListed
  <1>4. Len(printed) \in Nat /\ DOMAIN printed = 1..Len(printed)
    BY <1>2, LenProperties
  <1>5. pauses # <<>> => PausesPrinted(printed, pauses)
    BY <1>1, <1>2, <1>3, <1>4, PausesAccepted
  <1>6. scripts # <<>> => ScriptsPrinted(printed, scripts)
    BY <1>1, <1>2, <1>3, ScriptsAccepted
  <1>7. scripts # <<>> => OneActionPerLayer(printed, Heights(scripts) \cup Heights(pauses))
    <2>1. scripts # <<>> => LayersSeen(reading.scripts, printed)
      BY <1>2 DEF ScriptsSeen
    <2> QED BY <1>1, <1>3, <1>4, <2>1, LayersAreShared
  <1>8. PrintsAsAsked(printed, claim.plate)
    BY <1>5, <1>6, <1>7 DEF PrintsAsAsked
  <1> QED BY <1>1, <1>2, <1>8 DEF EvidenceInv, CountsItsLayers

LEMMA StepEvident == EvidenceInv /\ [Next]_vars => EvidenceInv'
  <1> SUFFICES ASSUME EvidenceInv, [Next]_vars PROVE EvidenceInv'
    OBVIOUS
  <1>1. ASSUME UNCHANGED <<claim, printed, reading, manifest>>,
               \/ pc' = pc
               \/ pc' = "failed"
               \/ pc' = "preparing" /\ ClaimValid(claim)
               \/ pc = "preparing" /\ pc' = "engine"
               \/ pc = "publishing" /\ pc' = "done"
        PROVE  EvidenceInv'
    BY <1>1 DEF EvidenceInv, CountsItsLayers, PrintsAsAsked
  <1> USE DEF fileVars
  <1>2. CASE Throw
    BY <1>1, <1>2 DEF Throw
  <1>3. CASE Validate
    BY <1>1, <1>2, <1>3 DEF Validate
  <1>4. CASE PrepareObject
    BY <1>1, <1>4 DEF PrepareObject, Sliced
  <1>5. CASE SharePaint
    BY <1>1, <1>5 DEF SharePaint, Sliced
  <1>6. CASE PaintObject
    BY <1>1, <1>6 DEF PaintObject, Sliced
  <1>7. CASE Package
    BY <1>1, <1>7 DEF Package
  <1>8. CASE EngineStep
    BY <1>1, <1>8 DEF EngineStep
  <1>9. CASE ReadLine /\ ~Throw
    BY <1>9, ReadLineEvident
  <1>10. CASE EndOfFile /\ ~Throw
    BY <1>10, EndOfFileEvident
  <1>11. CASE CompileChunk
    BY <1>1, <1>11 DEF CompileChunk
  <1>12. CASE Manifest
    <2>1. /\ manifest' = [gcode |-> printed, layerCount |-> reading.summary.layerCount]
          /\ pc = "compiling" /\ pc' = "publishing" /\ UNCHANGED <<claim, printed, reading>>
      BY <1>12 DEF Manifest
    <2>2. CountsItsLayers(manifest')
      BY <2>1 DEF EvidenceInv, SummarySeen, CountsItsLayers
    <2> QED BY <2>1, <2>2 DEF EvidenceInv, CountsItsLayers
  <1>13. CASE Publish
    BY <1>1, <1>13 DEF Publish
  <1>14. CASE Fails
    BY <1>2, <1>14 DEF Fails
  <1>15. CASE UNCHANGED vars
    BY <1>1, <1>15 DEF vars
  <1> QED
    BY <1>2, <1>3, <1>4, <1>5, <1>6, <1>7, <1>8, <1>9, <1>10, <1>11, <1>12, <1>13, <1>14,
       <1>15 DEF Next

\* The readers are right about every line that has been printed.
THEOREM EvidenceInvariance == Spec => []EvidenceInv
  BY InitEvident, StepEvident, PTL DEF Spec

\* Whatever the native engine prints, a file that is accepted does at every
\* height what was asked for it there: its scripts stand where the layer is
\* printed, once and word for word, the engine pauses as often as asked, no two
\* actions share a layer, and the manifest counts its layers (inspectGcode,
\* verifyNativePauseEvents, verifyNativeLayerGcode).
THEOREM AcceptedDoesAsAsked == Spec => []AcceptedPrintsAsAsked
  <1>1. EvidenceInv => AcceptedPrintsAsAsked
    BY DEF EvidenceInv, PrintsAsAsked, CountsItsLayers, AcceptedPrintsAsAsked
  <1> QED BY <1>1, EvidenceInvariance, PTL

-----------------------------------------------------------------------------
(* The sources of a run, and the package that is made of them.             *)

\* Every object has a document, its own if it is not painted; those that are
\* painted have a mesh; and objects of one source have the same document.
SourcesInv ==
    LET count == Len(sources)
    IN /\ claim \in Claims
       /\ IsList(sources) /\ count <= Len(Objects)
       /\ DOMAIN meshes = {i \in 1..count : IsPainted(Objects[i])}
       /\ \A i \in 1..count : /\ IsDocument(sources[i])
                              /\ ~IsPainted(Objects[i]) => sources[i] = Documents[Objects[i].file]
       /\ \A i, j \in 1..count :
            SourceKey(Objects[i]) = SourceKey(Objects[j]) => sources[i] = sources[j]

PlacedInv ==
    /\ SourcesInv
    /\ pc = "engine" => step \in Nat /\ step >= 1
    /\ PlacementsAreOwn

\* The objects of a plate are a list of them.
LEMMA ObjectsListed ==
  ASSUME claim \in Claims
  PROVE  /\ Len(Objects) \in Nat /\ DOMAIN Objects = 1..Len(Objects)
         /\ \A i \in 1..Len(Objects) : Objects[i] \in ToSet(claim.plate.objects)
  <1>1. Objects \in Seq(ToSet(Objects))
    BY PaintsAssumption DEF Objects
  <1>2. Len(Objects) \in Nat /\ DOMAIN Objects = 1..Len(Objects)
    BY <1>1
  <1> QED BY <1>2 DEF Objects, ToSet

\* What is made of a painted mesh is a document.
LEMMA PaintedDocument ==
  ASSUME NEW stl \in Seq(Facets), NEW paint, CanPaint(stl, paint),
         NEW mesh, IsMesh(mesh), Roundtrip(Painted(stl, paint), mesh)
  PROVE  IsDocument(DocumentOf(mesh))
  <1> DEFINE before == Painted(stl, paint)
             center == Center(before)
             placements == Seq([ref : Nat, m : Matrices])
             geometries == [vertices : Seq(Int),
                            triangles : Seq([v : [1..3 -> Int], paint : Paints])]
             doc == DocumentOf(mesh)
             g == Geometry(mesh.vertices, mesh.triangles)
  <1>1. stl # <<>>
    BY DEF CanPaint, StlValid
  <1>2. before.vertices = Vertices(stl)
    <2> DEFINE vs == Vertices(stl)
    <2> HIDE DEF vs
    <2> QED BY DEF Painted, Mesh, vs
  <1>3. center \in Int
    <2>1. before.vertices \in Seq(Int) /\ ToSet(before.vertices) # {}
      BY <1>1, <1>2, VerticesHold
    <2> HIDE DEF before
    <2> QED BY <2>1, CenterIsInt
  <1>4. mesh.frame \in Matrices
    <2>1. mesh.frame \in {Identity, Matrix(1, center)}
      BY DEF Roundtrip
    <2> HIDE DEF center
    <2> QED BY <1>3, <2>1 DEF Identity, Matrix, Matrices
  <1>5. doc.objects = [id \in {1} |-> MeshObject(g)] /\ doc.items = <<Placement(1, mesh.frame)>>
    BY DEF DocumentOf
  <1>6. doc.items \in placements
    <2> DEFINE one == Placement(1, mesh.frame)
               P == [ref : Nat, m : Matrices]
    <2>1. one \in P
      BY <1>4 DEF Placement
    <2> HIDE DEF one, P
    <2>2. <<one>> \in Seq(P)
      BY <2>1
    <2> QED BY <1>5, <2>2 DEF one, P
  <1>7. g \in geometries
    <2> DEFINE T == [v : [1..3 -> Int], paint : Paints]
    <2>1. Trees = Paints
      BY DEF Trees, Paints
    <2>2. MeshFacets \subseteq T
      BY <2>1 DEF MeshFacets
    <2> HIDE DEF T
    <2>3. mesh.triangles \in Seq(T) /\ mesh.vertices \in Seq(Int)
      BY <2>2 DEF IsMesh
    <2> QED BY <2>3 DEF Geometry, T
  <1>8. MeshObject(g) \in [mesh : BOOLEAN, components : placements, geometry : geometries]
    <2>1. <<>> \in placements
      OBVIOUS
    <2> HIDE DEF g, geometries, placements
    <2> QED BY <1>7, <2>1 DEF MeshObject
  <1>9. DOMAIN doc.objects \subseteq Nat /\ \A id \in DOMAIN doc.objects : doc.objects[id] = MeshObject(g)
    BY <1>5
  <1> HIDE DEF doc, g
  <1> QED BY <1>6, <1>8, <1>9 DEF IsDocument, doc

\* One more source.
LEMMA OneMoreSource ==
  ASSUME SourcesInv, NEW n, n = Len(sources) + 1, n <= Len(Objects), NEW doc, Sliced(doc),
         IsDocument(doc),
         DOMAIN meshes' = IF IsPainted(Objects[n]) THEN DOMAIN meshes \cup {n} ELSE DOMAIN meshes,
         ~IsPainted(Objects[n]) => doc = Documents[Objects[n].file],
         \A i \in 1..Len(sources) : SourceKey(Objects[i]) = SourceKey(Objects[n]) => sources[i] = doc
  PROVE  SourcesInv'
  <1> DEFINE count == Len(sources)
             later == sources'
             painted(i) == IsPainted(Objects[i])
             key(i) == SourceKey(Objects[i])
             own(i) == Documents[Objects[i].file]
  <1>1. /\ later = Append(sources, doc) /\ claim' = claim /\ Objects' = Objects
    BY DEF Sliced, Objects
  <1>2. /\ IsList(sources) /\ count \in Nat /\ n = count + 1 /\ n <= Len(Objects) /\ claim \in Claims
        /\ DOMAIN meshes = {i \in 1..count : painted(i)}
        /\ \A i \in 1..count : IsDocument(sources[i]) /\ (~painted(i) => sources[i] = own(i))
        /\ \A i, j \in 1..count : key(i) = key(j) => sources[i] = sources[j]
    BY DEF SourcesInv, IsList
  <1>3. /\ IsList(later) /\ Len(later) = n /\ later[n] = doc
        /\ \A i \in 1..count : later[i] = sources[i]
    <2> DEFINE more == Append(sources, doc)
    <2>1. /\ IsList(more) /\ Len(more) = count + 1 /\ more[count + 1] = doc
          /\ \A i \in 1..count : more[i] = sources[i]
      <3>1. IsList(sources)
        BY <1>2
      <3> QED BY <3>1, ListAppend, Zenon
    <2> HIDE DEF more, later
    <2>2. later = more
      BY <1>1 DEF more, later
    <2> QED BY <1>2, <2>1, <2>2
  <1>4. /\ ~painted(n) => doc = own(n)
        /\ \A i \in 1..count : key(i) = key(n) => sources[i] = doc
        /\ DOMAIN meshes' = IF painted(n) THEN DOMAIN meshes \cup {n} ELSE DOMAIN meshes
    OBVIOUS
  <1> HIDE DEF later, painted, key, own, count
  <1>5. 1..n = 1..count \cup {n} /\ n \notin 1..count
    BY <1>2
  <1>6. DOMAIN meshes' = {i \in 1..n : painted(i)}
    BY <1>2, <1>4, <1>5
  <1>7. \A i \in 1..n : IsDocument(later[i]) /\ (~painted(i) => later[i] = own(i))
    BY <1>2, <1>3, <1>4, <1>5
  <1>8. \A i, j \in 1..n : key(i) = key(j) => later[i] = later[j]
    <2> SUFFICES ASSUME NEW i \in 1..n, NEW j \in 1..n, key(i) = key(j) PROVE later[i] = later[j]
      OBVIOUS
    <2>1. CASE i = n /\ j = n
      BY <2>1
    <2>2. CASE i = n /\ j # n
      BY <1>3, <1>4, <1>5, <2>2
    <2>3. CASE i # n /\ j = n
      BY <1>3, <1>4, <1>5, <2>3
    <2>4. CASE i # n /\ j # n
      BY <1>2, <1>3, <1>5, <2>4
    <2> QED BY <2>1, <2>2, <2>3, <2>4
  <1>9. IsList(sources') /\ Len(sources') = n
    BY <1>3 DEF later
  <1>10. \A i \in 1..n : /\ IsDocument(sources'[i])
                         /\ ~IsPainted(Objects[i]) => sources'[i] = Documents[Objects[i].file]
    BY <1>7 DEF later, painted, own
  <1>11. \A i, j \in 1..n : SourceKey(Objects[i]) = SourceKey(Objects[j]) => sources'[i] = sources'[j]
    BY <1>8 DEF later, key
  <1>12. DOMAIN meshes' = {i \in 1..n : IsPainted(Objects[i])}
    BY <1>6 DEF painted
  <1> QED BY <1>1, <1>2, <1>9, <1>10, <1>11, <1>12 DEF SourcesInv

\* The meshes that are accepted are those of painted objects.
LEMMA AcceptedDomain ==
  ASSUME NEW mesh, Accepted(mesh)
  PROVE  DOMAIN meshes' = DOMAIN meshes \cup {Len(sources) + 1}
  BY DEF Accepted

\* No package yet.
LEMMA InitPlaced == Init => PlacedInv
  <1> SUFFICES ASSUME Init PROVE PlacedInv
    OBVIOUS
  <1>1. sources = <<>> /\ meshes = <<>> /\ claim \in Claims /\ pc = "claimed"
    BY DEF Init
  <1>2. IsList(sources) /\ Len(sources) = 0
    <2>1. sources \in Seq({}) /\ Len(sources) = 0
      BY <1>1
    <2> QED BY <2>1, SeqIsList
  <1>3. Len(Objects) \in Nat
    BY <1>1, ObjectsListed
  <1>4. 1..0 = {} /\ DOMAIN meshes = {}
    BY <1>1
  <1>5. SourcesInv
    BY <1>1, <1>2, <1>3, <1>4 DEF SourcesInv
  <1> QED BY <1>1, <1>5 DEF PlacedInv, PlacementsAreOwn

\* The package, when it is made of such sources.
LEMMA PackageIsOwn == SourcesInv /\ Package => PlacementsAreOwn'
  <1> SUFFICES ASSUME SourcesInv, Package PROVE PlacementsAreOwn'
    OBVIOUS
  <1> DEFINE count == Len(sources)
             plate == BuildAdvanced(Bambu, claim.plate, sources)
             asked(k) == AskedParts(Objects[k], sources[k], ~Bambu \/ IsPainted(Objects[k]))
             advanced == HasAdvanced(claim.plate)
  <1>1. /\ count = Len(Objects) /\ claim' = claim /\ sources' = sources /\ Objects' = Objects
        /\ Bambu' = Bambu /\ Combined' = Combined
    BY DEF Package, Objects, Bambu, Combined
  <1>2. /\ claim \in Claims /\ IsList(sources) /\ count \in Nat
        /\ \A i \in 1..count : IsDocument(sources[i])
        /\ \A i, j \in 1..count :
              SourceKey(Objects[i]) = SourceKey(Objects[j]) => sources[i] = sources[j]
    BY DEF SourcesInv, IsList
  <1>3. DOMAIN Objects = 1..count /\ \A i \in 1..count : Objects[i] \in ToSet(claim.plate.objects)
    BY <1>1, <1>2, ObjectsListed
  <1>4. \A i \in 1..count : PlacedWell(Objects[i])
    BY <1>2, <1>3, PlacesAssumption DEF PlacedWell
  <1>5. Sources(Objects, sources)
    BY <1>2, <1>4 DEF Sources
  <1>6. Bambu \in BOOLEAN /\ claim.plate.objects = Objects
    BY DEF Bambu, Objects
  <1> HIDE DEF count
  <1>7. CASE Combined
    <2>1. plate.ok /\ package'.plate = plate
      BY <1>7 DEF Package
    <2>2. IF Bambu THEN BambuUpTo(Objects, sources, Len(sources), plate)
                   ELSE PrusaUpTo(Objects, sources, Len(sources), plate)
      BY <1>5, <1>6, <2>1, AdvancedBuilt
    <2> HIDE DEF plate
    <2>3. ASSUME NEW k \in 1..count
          PROVE  /\ Len(plate.items) = count
                 /\ Cardinality({r.id : r \in ToSet(plate.resources)}) = Len(plate.resources)
                 /\ RecordOf(plate, k).overrides = Objects[k].overrides
                 /\ asked(k) = IF Bambu THEN FoundBambu(plate, k) ELSE FoundPrusa(plate, k)
      <3> DEFINE p == IsPainted(Objects[k])
      <3>0. p \in BOOLEAN /\ k \in 1..Len(sources)
        BY DEF IsPainted, count
      <3>1. CASE Bambu
        <4> DEFINE found == FoundBambu(plate, k)
        <4>1. BambuUpTo(Objects, sources, Len(sources), plate)
          BY <2>2, <3>1
        <4>2. MeansItsOwn(Objects, sources, k, p, plate, found)
          BY <1>5, <3>0, <4>1, BambuFound
        <4> HIDE DEF p, found
        <4>3. (~Bambu \/ p) = p
          BY <3>0, <3>1
        <4>4. AskedParts(Objects[k], sources[k], ~Bambu \/ p) = found
          BY <4>2, <4>3 DEF MeansItsOwn
        <4> QED BY <3>1, <4>2, <4>4 DEF p, found, count, MeansItsOwn
      <3>2. CASE ~Bambu
        <4> DEFINE found == FoundPrusa(plate, k)
        <4>1. PrusaUpTo(Objects, sources, Len(sources), plate)
          BY <2>2, <3>2
        <4>2. MeansItsOwn(Objects, sources, k, TRUE, plate, found)
          BY <1>5, <3>0, <4>1, PrusaFound
        <4> HIDE DEF p, found
        <4>3. (~Bambu \/ p) = TRUE
          BY <3>0, <3>2
        <4>4. AskedParts(Objects[k], sources[k], ~Bambu \/ p) = found
          BY <4>2, <4>3 DEF MeansItsOwn
        <4> QED BY <3>2, <4>2, <4>4 DEF p, found, count, MeansItsOwn
      <3> QED BY <3>1, <3>2
    <2> QED BY <1>1, <1>3, <1>7, <2>1, <2>3 DEF PlacementsAreOwn
  <1>8. CASE ~Combined
    <2> DEFINE own(k) == BuildTransformed(Objects[k], sources[k])
    <2>1. package' = [files |-> [k \in DOMAIN sources |-> own(k)]] /\ ~Bambu /\ ~advanced
      BY <1>8 DEF Package, Combined
    <2>2. DOMAIN sources = 1..count
      BY <1>2 DEF IsList, count
    <2>3. \A k \in 1..count : package'.files[k] = own(k)
      BY <2>1, <2>2
    <2>4. ASSUME NEW k \in 1..count
          PROVE  /\ FlattenSource(sources[k], Identity).ok =>
                       asked(k) = <<Part(Built(own(k).resources, own(k).items), FALSE, {})>>
                 /\ \A id \in DOMAIN own(k).overrides : own(k).overrides[id] = Objects[k].overrides
                 /\ Objects[k].overrides # {} => DOMAIN own(k).overrides = MeshIds(sources[k])
      <3>1. Objects[k].modifiers = <<>>
        BY <1>3, <1>6, <2>1 DEF HasAdvanced
      <3>2. (~Bambu \/ IsPainted(Objects[k])) = TRUE
        BY <2>1
      <3>3. asked(k) = AskedParts(Objects[k], sources[k], TRUE)
        BY <3>2
      <3>4. PlacedWell(Objects[k]) /\ IsDocument(sources[k])
        BY <1>2, <1>4 DEF count
      <3> HIDE DEF asked
      <3> QED BY <3>1, <3>3, <3>4, FileOwn
    <2> SUFFICES ASSUME NEW k \in 1..count
                 PROVE  LET file == package'.files[k]
                        IN /\ FlattenSource(sources[k], Identity).ok =>
                                asked(k) = <<Part(Built(file.resources, file.items), FALSE, {})>>
                           /\ \A id \in DOMAIN file.overrides :
                                file.overrides[id] = Objects[k].overrides
                           /\ Objects[k].overrides # {} =>
                                DOMAIN file.overrides = MeshIds(sources[k])
      BY <1>1, <1>3, <1>8 DEF PlacementsAreOwn
    <2> HIDE DEF own, asked
    <2> QED BY <2>3, <2>4
  <1> QED BY <1>7, <1>8

\* Steps that leave the sources alone, the package too, or the engine behind.
LEMMA SameSources ==
  ASSUME SourcesInv, UNCHANGED <<claim, sources, meshes>>
  PROVE  SourcesInv'
  BY DEF SourcesInv, Objects

LEMMA SamePackage ==
  ASSUME PlacedInv, UNCHANGED <<claim, pc, sources, meshes, package, step>>
  PROVE  PlacedInv'
  <1>1. SourcesInv'
    BY SameSources DEF PlacedInv
  <1>2. Objects' = Objects /\ Bambu' = Bambu /\ Combined' = Combined
    BY DEF Objects, Bambu, Combined
  <1>3. PlacementsAreOwn'
    BY <1>2 DEF PlacedInv, PlacementsAreOwn
  <1> QED BY <1>1, <1>3 DEF PlacedInv

LEMMA ElsewherePlaced ==
  ASSUME SourcesInv', pc' # "engine"
  PROVE  PlacedInv'
  BY DEF PlacedInv, PlacementsAreOwn

\* An object is normalized, shares a paint, or is painted.
LEMMA ObjectPlaced ==
  ASSUME SourcesInv, PrepareObject \/ SharePaint \/ PaintObject
  PROVE  SourcesInv' /\ pc' = pc /\ pc = "preparing"
  <1> DEFINE n == Len(sources) + 1
             key(i) == SourceKey(Objects[i])
  <1>1. /\ pc = "preparing" /\ Len(sources) < Len(Objects) /\ Object = Objects[n]
    BY DEF PrepareObject, SharePaint, PaintObject, Object
  <1>2. /\ claim \in Claims /\ Len(sources) \in Nat
        /\ DOMAIN meshes = {i \in 1..Len(sources) : IsPainted(Objects[i])}
        /\ \A i \in 1..Len(sources) :
             /\ IsDocument(sources[i])
             /\ ~IsPainted(Objects[i]) => sources[i] = Documents[Objects[i].file]
        /\ \A i, j \in 1..Len(sources) : key(i) = key(j) => sources[i] = sources[j]
    BY DEF SourcesInv, IsList
  <1>3. n \in DOMAIN Objects /\ n <= Len(Objects) /\ Object \in ToSet(claim.plate.objects)
    BY <1>1, <1>2, ObjectsListed
  <1>4. \A i \in 1..Len(sources) : key(i) = key(n) =>
           /\ Objects[i].file = Object.file
           /\ IsPainted(Objects[i]) <=> IsPainted(Object)
    BY <1>1 DEF SourceKey, IsPainted
  <1>5. CASE PrepareObject
    <2> DEFINE doc == Documents[Object.file]
    <2>1. ~IsPainted(Object) /\ Sliced(doc) /\ meshes' = meshes /\ Object.file \in DOMAIN Documents
      BY <1>5 DEF PrepareObject
    <2>2. IsDocument(doc)
      BY <2>1, PlacesAssumption
    <2>3. \A i \in 1..Len(sources) : key(i) = key(n) => sources[i] = doc
      BY <1>2, <1>4, <2>1
    <2>4. pc' = pc
      BY <2>1 DEF Sliced
    <2>5. SourcesInv'
      BY <1>1, <1>3, <2>1, <2>2, <2>3, OneMoreSource
    <2> QED BY <1>1, <2>4, <2>5
  <1>6. CASE SharePaint
    <2>1. PICK i \in DOMAIN meshes : /\ key(i) = SourceKey(Object)
                                     /\ Sliced(sources[i])
                                     /\ Accepted(meshes[i])
      BY <1>6 DEF SharePaint
    <2> DEFINE doc == sources[i]
    <2>2. IsPainted(Object) /\ i \in 1..Len(sources) /\ key(i) = key(n)
      BY <1>1, <1>2, <1>6, <2>1 DEF SharePaint
    <2>3. IsDocument(doc) /\ \A j \in 1..Len(sources) : key(j) = key(n) => sources[j] = doc
      BY <1>2, <2>2
    <2>4. DOMAIN meshes' = DOMAIN meshes \cup {n}
      BY <2>1, AcceptedDomain
    <2>5. pc' = pc
      BY <2>1 DEF Sliced
    <2>6. SourcesInv'
      BY <1>1, <1>3, <2>1, <2>2, <2>3, <2>4, OneMoreSource
    <2> QED BY <1>1, <2>5, <2>6
  <1>7. CASE PaintObject
    <2> DEFINE stl == Stls[Object.file]
               before == Painted(stl, Object.paint)
    <2>1. /\ IsPainted(Object) /\ Object.file \in DOMAIN Stls /\ CanPaint(stl, Object.paint)
          /\ \A i \in DOMAIN meshes : key(i) # SourceKey(Object)
      BY <1>7 DEF PaintObject
    <2>2. PICK after \in Conversions(before) : /\ Roundtrip(before, after)
                                               /\ Sliced(DocumentOf(after))
                                               /\ Accepted(after)
      BY <1>7 DEF PaintObject
    <2> DEFINE doc == DocumentOf(after)
    <2>3. stl \in Seq(Facets) /\ IsMesh(after)
      BY <1>2, <1>3, <2>1, <2>2, PaintsAssumption DEF Facets, Trees, Paints, IsMesh, MeshFacets
    <2>4. IsDocument(doc)
      <3> HIDE DEF stl
      <3> QED BY <2>1, <2>2, <2>3, PaintedDocument DEF before
    <2>5. \A i \in 1..Len(sources) : key(i) # key(n)
      BY <1>1, <1>2, <1>4, <2>1
    <2>6. DOMAIN meshes' = DOMAIN meshes \cup {n}
      BY <2>2, AcceptedDomain
    <2>7. pc' = pc
      BY <2>2 DEF Sliced
    <2> HIDE DEF doc
    <2>8. Sliced(doc)
      BY <2>2 DEF doc
    <2>9. SourcesInv'
      BY <1>1, <1>3, <2>1, <2>4, <2>5, <2>6, <2>8, OneMoreSource
    <2> QED BY <1>1, <2>7, <2>9
  <1> QED BY <1>5, <1>6, <1>7

\* Every step keeps it; the package is what it means when the engine begins.
LEMMA StepPlaced == PlacedInv /\ [Next]_vars => PlacedInv'
  <1> SUFFICES ASSUME PlacedInv, [Next]_vars PROVE PlacedInv'
    OBVIOUS
  <1>0. SourcesInv /\ (pc = "engine" => step \in Nat /\ step >= 1)
    BY DEF PlacedInv
  <1>1. CASE PrepareObject \/ SharePaint \/ PaintObject
    <2>1. SourcesInv' /\ pc' # "engine"
      BY <1>0, <1>1, ObjectPlaced
    <2> QED BY <2>1, ElsewherePlaced
  <1>2. CASE Package
    <2>1. SourcesInv' /\ step' = 1
      BY <1>0, <1>2, SameSources DEF Package
    <2>2. PlacementsAreOwn'
      BY <1>0, <1>2, PackageIsOwn
    <2> QED BY <2>1, <2>2 DEF PlacedInv
  <1>3. CASE EngineStep
    <2>1. SourcesInv' /\ step' = step + 1 /\ pc = "engine"
      BY <1>0, <1>3, SameSources DEF EngineStep, inputVars
    <2>2. step' \in Nat /\ step' >= 2
      BY <1>0, <2>1
    <2>3. PlacementsAreOwn'
      BY <2>2 DEF PlacementsAreOwn
    <2> QED BY <2>1, <2>2, <2>3 DEF PlacedInv
  <1>4. CASE Throw
    <2>1. SourcesInv' /\ pc' # "engine"
      BY <1>0, <1>4, SameSources DEF Throw, inputVars
    <2> QED BY <2>1, ElsewherePlaced
  <1>5. CASE Validate \/ EndOfFile \/ CompileChunk \/ Manifest \/ Publish
    <2>1. UNCHANGED <<claim, sources, meshes>>
      BY <1>5 DEF Validate, EndOfFile, CompileChunk, Manifest, Publish, Throw, inputVars
    <2>2. pc' # "engine"
      BY <1>5 DEF Validate, EndOfFile, CompileChunk, Manifest, Publish, Throw
    <2>3. SourcesInv'
      BY <1>0, <2>1, SameSources
    <2> QED BY <2>2, <2>3, ElsewherePlaced
  <1>6. CASE ReadLine
    <2>1. Throw \/ UNCHANGED <<claim, pc, sources, meshes, package, step>>
      BY <1>6 DEF ReadLine, inputVars, profileVars
    <2> QED BY <1>4, <2>1, SamePackage
  <1>7. CASE Fails
    BY <1>4, <1>7 DEF Fails
  <1>8. CASE UNCHANGED vars
    BY <1>8, SamePackage DEF vars
  <1> QED BY <1>1, <1>2, <1>3, <1>5, <1>6, <1>7, <1>8 DEF Next

\* The package means the plate: the object graph of a source flattened,
\* placed, joined with its modifiers and numbered, or moved in its own file,
\* every placement has the geometry, the paint, the modifiers and the settings
\* of its own object, and linked instances share only what both asked for
\* (buildAdvancedPlate3mf, flattenSource, buildTransformed3mf).
THEOREM PackageMeansThePlate == Spec => []PlacementsAreOwn
  <1>1. PlacedInv => PlacementsAreOwn
    BY DEF PlacedInv
  <1> QED BY <1>1, InitPlaced, StepPlaced, PTL DEF Spec
=============================================================================
