---------------------------- MODULE WorkerProofs ----------------------------
(***************************************************************************)
(* Theorems of what a worker process keeps from one run to the next:       *)
(* WorkerLoop for any number of engines, then NormalizationCache, who owns *)
(* which buffer, for any number of sources, buffers and limits.            *)
(*                                                                         *)
(* BusyQueueCannotStarve and PauseExactlyWhenIdle are not inductive: they  *)
(* rest on where each engine stands in the rotation.  Since(next, e) is   *)
(* the number of claims sent since e's own turn; the history never counts  *)
(* more, and the counter empty covers exactly the engines closest behind.  *)
(***************************************************************************)
EXTENDS WorkerLoop, NormalizationCache, DataInduction

Since(n, e) == IF e < n THEN n - 1 - e ELSE n + N - 1 - e

\* Nobody was passed over more often than the rotation stands ahead of it.
SkippedInTurn == \A e \in Engines : skipped[e] <= Since(next, e)

\* The last claim was for the engine right behind next.
EngineIsLast == pc = "awaitClaim" => Since(next, engine) = 0

\* The claims the counter counts are the last ones, and all came back empty;
\* the one before them did not.  A claim in flight is not answered yet.
CountIsExact ==
    /\ pc \in {"verify", "loop", "execute", "backoff"} =>
         \A e \in Engines : /\ Since(next, e) < empty => answers[e] = "empty"
                            /\ Since(next, e) = empty => answers[e] # "empty"
    /\ pc = "awaitClaim" =>
         \A e \in Engines : /\ Since(next, e) \in 1..empty => answers[e] = "empty"
                            /\ Since(next, e) = empty + 1 => answers[e] # "empty"
    /\ pc = "pause" => empty = 0 /\ \A e \in Engines : answers[e] = "empty"

LoopInv == LoopTypeOK /\ SkippedInTurn /\ EngineIsLast /\ CountIsExact

-----------------------------------------------------------------------------
\* The rotation wraps after the last engine.
LEMMA FollowingWraps ==
  ASSUME NEW e \in Engines
  PROVE  /\ Following(e) = IF e + 1 = N THEN 0 ELSE e + 1
         /\ Following(e) \in Engines
<1>1. CASE e + 1 = N
  <2>1. N % N = 0
    BY NAssumption
  <2> QED
    BY <1>1, <2>1, NAssumption DEF Following, Engines
<1>2. CASE e + 1 < N
  <2>1. (e + 1) % N = e + 1
    BY <1>2, NAssumption DEF Engines
  <2> QED
    BY <1>2, <2>1, NAssumption DEF Following, Engines
<1> QED
  BY <1>1, <1>2, NAssumption DEF Engines

\* Every place in the rotation is some engine's.
LEMMA PlaceTaken ==
  ASSUME next \in Engines, NEW k \in 0..(N - 1)
  PROVE  \E e \in Engines : Since(next, e) = k
<1>1. CASE k < next
  <2>1. next - 1 - k \in Engines /\ Since(next, next - 1 - k) = k
    BY <1>1, NAssumption DEF Engines, Since
  <2> QED
    BY <2>1
<1>2. CASE next <= k
  <2>1. next + N - 1 - k \in Engines /\ Since(next, next + N - 1 - k) = k
    BY <1>2, NAssumption DEF Engines, Since
  <2> QED
    BY <2>1
<1> QED
  BY <1>1, <1>2, NAssumption DEF Engines

\* A claim moves every other engine one place back and puts its own last.
LEMMA TurnPasses ==
  ASSUME next \in Engines, next' = Following(next), NEW e \in Engines
  PROVE  /\ Since(next, e) \in 0..(N - 1)
         /\ Since(next', e) = IF e = next THEN 0 ELSE Since(next, e) + 1
<1>1. next' = IF next + 1 = N THEN 0 ELSE next + 1
  BY FollowingWraps
<1> QED
  BY <1>1, NAssumption DEF Engines, Since

\* Every step of the worker, of the signal and of the queues keeps LoopInv.
LEMMA LoopGoesOn == ASSUME LoopInv, [LoopNext]_loopVars PROVE LoopInv'
<1> USE NAssumption DEF LoopInv
<1>a. ASSUME UNCHANGED turnVars, pc' = "awaitClaim" => pc = "awaitClaim"
      PROVE  SkippedInTurn' /\ EngineIsLast'
  BY <1>a DEF turnVars, SkippedInTurn, EngineIsLast
<1>b. \A e \in Engines : Since(next, e) \in 0..(N - 1)
  BY DEF LoopTypeOK, Engines, Since
<1>c. pc = "awaitClaim" => \A e \in Engines : Since(next, e) = 0 => e = engine
  BY DEF LoopTypeOK, EngineIsLast, Engines, Since
<1>d. ASSUME NEW how \in {"run", "error"}, pc = "awaitClaim", UNCHANGED turnVars,
             answers' = [answers EXCEPT ![engine] = how],
             pc' \in {"execute", "backoff"} => empty' = 0, pc' \in {"execute", "backoff", "ended"}
      PROVE  CountIsExact'
  <2>1. ASSUME NEW e \in Engines
        PROVE  /\ ~(Since(next, e) < 0)
               /\ Since(next, e) = 0 => answers'[e] # "empty"
    BY <1>b, <1>c, <1>d DEF LoopTypeOK
  <2> QED
    BY <1>d, <2>1 DEF CountIsExact, turnVars
<1>1. ASSUME SendClaim PROVE LoopInv'
  <2>1. /\ next' = Following(next) /\ engine' = next /\ next' \in Engines
        /\ pc = "loop" /\ pc' = "awaitClaim"
        /\ UNCHANGED <<queued, empty, verified, shutdown, answers, exit, cause>>
    BY <1>1, FollowingWraps DEF SendClaim, Goto, processVars, LoopTypeOK
  <2>2. \A e \in Engines : Since(next', e) = IF e = next THEN 0 ELSE Since(next, e) + 1
    BY <2>1, TurnPasses DEF LoopTypeOK
  <2>3. /\ skipped' \in [Engines -> 0..N]
        /\ \A e \in Engines : skipped'[e] <= IF e = next THEN 0 ELSE skipped[e] + 1
    BY <1>1 DEF SendClaim, Saturated, LoopTypeOK
  <2>4. LoopTypeOK'
    BY <2>1, <2>3 DEF LoopTypeOK
  <2>5. SkippedInTurn'
    BY <2>2, <2>3, <1>b DEF SkippedInTurn, LoopTypeOK
  <2>6. EngineIsLast'
    BY <2>1, <2>2 DEF EngineIsLast, LoopTypeOK
  <2>7. CountIsExact'
    <3>1. \A e \in Engines : /\ Since(next, e) < empty => answers[e] = "empty"
                             /\ Since(next, e) = empty => answers[e] # "empty"
      BY <2>1 DEF CountIsExact
    <3>2. ASSUME NEW e \in Engines
          PROVE  /\ Since(next', e) \in 1..empty => answers[e] = "empty"
                 /\ Since(next', e) = empty + 1 => answers[e] # "empty"
      BY <3>1, <2>2, <1>b DEF LoopTypeOK
    <3> QED
      BY <2>1, <3>2 DEF CountIsExact
  <2> QED
    BY <2>4, <2>5, <2>6, <2>7
<1>2. ASSUME Verify PROVE LoopInv'
  <2>1. SkippedInTurn' /\ EngineIsLast'
    BY <1>2, <1>a DEF Verify, Goto, Escape, turnVars
  <2>2. LoopTypeOK'
    BY <1>2 DEF Verify, Goto, Escape, turnVars, LoopTypeOK, Engines
  <2>3. CountIsExact'
    BY <1>2, <1>b, <1>c DEF Verify, Goto, Escape, turnVars, LoopTypeOK, Engines, CountIsExact
  <2> QED
    BY <2>1, <2>2, <2>3
<1>3. ASSUME EnterLoop PROVE LoopInv'
  <2>1. SkippedInTurn' /\ EngineIsLast'
    BY <1>3, <1>a DEF EnterLoop, Goto, turnVars
  <2>2. LoopTypeOK'
    BY <1>3 DEF EnterLoop, Goto, turnVars, processVars, LoopTypeOK, Engines
  <2>3. CountIsExact'
    BY <1>3, <1>b, <1>c DEF EnterLoop, Goto, turnVars, LoopTypeOK, Engines, CountIsExact
  <2> QED
    BY <2>1, <2>2, <2>3
<1>4. ASSUME LoopEnds PROVE LoopInv'
  <2>1. SkippedInTurn' /\ EngineIsLast'
    BY <1>4, <1>a DEF LoopEnds, Return, turnVars
  <2>2. LoopTypeOK'
    BY <1>4 DEF LoopEnds, Return, turnVars, processVars, LoopTypeOK, Engines
  <2>3. CountIsExact'
    BY <1>4, <1>b, <1>c DEF LoopEnds, Return, turnVars, LoopTypeOK, Engines, CountIsExact
  <2> QED
    BY <2>1, <2>2, <2>3
<1>5. ASSUME ClaimFindsRun PROVE LoopInv'
  <2>1. SkippedInTurn' /\ EngineIsLast'
    BY <1>5, <1>a DEF ClaimFindsRun, Goto, Return, turnVars
  <2>2. LoopTypeOK'
    BY <1>5 DEF ClaimFindsRun, Goto, Return, Answered, turnVars, processVars, LoopTypeOK, Engines
  <2>3. CountIsExact'
    BY <1>5, <1>d DEF ClaimFindsRun, Goto, Return, Answered
  <2> QED
    BY <2>1, <2>2, <2>3
<1>6. ASSUME ClaimFindsNothing PROVE LoopInv'
  <2>1. SkippedInTurn' /\ EngineIsLast'
    BY <1>6, <1>a DEF ClaimFindsNothing, Goto, Return, turnVars
  <2>2. LoopTypeOK'
    BY <1>6 DEF ClaimFindsNothing, Goto, Return, Answered, turnVars, processVars, LoopTypeOK,
                Engines
  <2>3. CountIsExact'
    <3>1. pc = "awaitClaim" /\ next' = next /\ answers' = [answers EXCEPT ![engine] = "empty"]
      BY <1>6 DEF ClaimFindsNothing, Answered, turnVars
    <3>2. ASSUME NEW e \in Engines
          PROVE  /\ Since(next, e) < empty + 1 => answers'[e] = "empty"
                 /\ Since(next, e) = empty + 1 => answers'[e] # "empty"
      <4>1. CASE e = engine
        BY <3>1, <4>1 DEF EngineIsLast, LoopTypeOK
      <4>2. CASE e # engine
        <5>1. answers'[e] = answers[e] /\ Since(next, e) \in 1..(N - 1)
          BY <3>1, <4>2, <1>b, <1>c DEF LoopTypeOK
        <5> QED
          BY <3>1, <5>1 DEF CountIsExact, LoopTypeOK
      <4> QED
        BY <4>1, <4>2
    <3>3. CASE pc' = "pause"
      <4>1. empty + 1 >= N /\ empty' = 0
        BY <1>6, <3>3 DEF ClaimFindsNothing, Goto, Return
      <4>2. \A e \in Engines : answers'[e] = "empty"
        BY <3>2, <4>1, <1>b DEF LoopTypeOK
      <4> QED
        BY <3>3, <4>1, <4>2 DEF CountIsExact
    <3>4. CASE pc' = "loop"
      <4>1. empty' = empty + 1
        BY <1>6, <3>4 DEF ClaimFindsNothing, Goto, Return
      <4> QED
        BY <3>1, <3>2, <3>4, <4>1 DEF CountIsExact
    <3>5. pc' \in {"pause", "loop", "ended"}
      BY <1>6 DEF ClaimFindsNothing, Goto, Return
    <3> QED
      BY <3>3, <3>4, <3>5 DEF CountIsExact
  <2> QED
    BY <2>1, <2>2, <2>3
<1>7. ASSUME ClaimFails PROVE LoopInv'
  <2>1. SkippedInTurn' /\ EngineIsLast'
    BY <1>7, <1>a DEF ClaimFails, Goto, Return, Escape, Caught, turnVars
  <2>2. LoopTypeOK'
    BY <1>7 DEF ClaimFails, Goto, Return, Escape, Caught, Answered, turnVars, processVars,
                LoopTypeOK, Engines
  <2>3. CountIsExact'
    BY <1>7, <1>d DEF ClaimFails, Goto, Return, Escape, Caught, Answered
  <2> QED
    BY <2>1, <2>2, <2>3
<1>8. ASSUME ExecuteReturns PROVE LoopInv'
  <2>1. SkippedInTurn' /\ EngineIsLast'
    BY <1>8, <1>a DEF ExecuteReturns, Goto, turnVars
  <2>2. LoopTypeOK'
    BY <1>8 DEF ExecuteReturns, Goto, turnVars, processVars, LoopTypeOK, Engines
  <2>3. CountIsExact'
    BY <1>8, <1>b, <1>c DEF ExecuteReturns, Goto, turnVars, LoopTypeOK, Engines, CountIsExact
  <2> QED
    BY <2>1, <2>2, <2>3
<1>9. ASSUME ExecuteThrows PROVE LoopInv'
  <2>1. SkippedInTurn' /\ EngineIsLast'
    BY <1>9, <1>a DEF ExecuteThrows, Goto, Return, Escape, Caught, turnVars
  <2>2. LoopTypeOK'
    BY <1>9 DEF ExecuteThrows, Goto, Return, Escape, Caught, turnVars, processVars, LoopTypeOK,
                Engines
  <2>3. CountIsExact'
    BY <1>9, <1>b, <1>c DEF ExecuteThrows, Goto, Return, Escape, Caught, turnVars, LoopTypeOK,
                            Engines, CountIsExact
  <2> QED
    BY <2>1, <2>2, <2>3
<1>10. ASSUME PauseEnds PROVE LoopInv'
  <2>1. SkippedInTurn' /\ EngineIsLast'
    BY <1>10, <1>a DEF PauseEnds, Goto, Return, turnVars
  <2>2. LoopTypeOK'
    BY <1>10 DEF PauseEnds, Goto, Return, turnVars, processVars, LoopTypeOK, Engines
  <2>3. CountIsExact'
    <3>1. /\ pc' \in {"loop", "ended"} /\ empty' = 0 /\ next' = next
          /\ \A e \in Engines : answers'[e] = "none"
      BY <1>10 DEF PauseEnds, Goto, Return, turnVars, CountIsExact
    <3>2. \A e \in Engines : ~(Since(next, e) < 0)
      BY <1>b
    <3> QED
      BY <3>1, <3>2 DEF CountIsExact
  <2> QED
    BY <2>1, <2>2, <2>3
<1>11. ASSUME BackoffEnds PROVE LoopInv'
  <2>1. SkippedInTurn' /\ EngineIsLast'
    BY <1>11, <1>a DEF BackoffEnds, Goto, Escape, turnVars
  <2>2. LoopTypeOK'
    BY <1>11 DEF BackoffEnds, Goto, Escape, turnVars, processVars, LoopTypeOK, Engines
  <2>3. CountIsExact'
    BY <1>11, <1>b, <1>c DEF BackoffEnds, Goto, Escape, turnVars, LoopTypeOK, Engines, CountIsExact
  <2> QED
    BY <2>1, <2>2, <2>3
<1>12. ASSUME Shutdown PROVE LoopInv'
  <2>1. SkippedInTurn' /\ EngineIsLast'
    BY <1>12, <1>a DEF Shutdown, turnVars
  <2>2. LoopTypeOK'
    BY <1>12 DEF Shutdown, turnVars, LoopTypeOK, Engines
  <2>3. CountIsExact'
    BY <1>12, <1>b, <1>c DEF Shutdown, turnVars, LoopTypeOK, Engines, CountIsExact
  <2> QED
    BY <2>1, <2>2, <2>3
<1>13. ASSUME NEW e \in Engines, QueueChanges(e) PROVE LoopInv'
  <2>1. SkippedInTurn' /\ EngineIsLast'
    BY <1>13, <1>a DEF QueueChanges, turnVars
  <2>2. LoopTypeOK' /\ CountIsExact'
    BY <1>13 DEF QueueChanges, turnVars, processVars, LoopTypeOK, CountIsExact
  <2> QED
    BY <2>1, <2>2
<1>14. ASSUME UNCHANGED loopVars PROVE LoopInv'
  BY <1>14 DEF loopVars, LoopTypeOK, SkippedInTurn, EngineIsLast, CountIsExact
<1> QED
  BY <1>1, <1>2, <1>3, <1>4, <1>5, <1>6, <1>7, <1>8, <1>9, <1>10, <1>11, <1>12, <1>13, <1>14
  DEF LoopNext, Worker

\* LoopInv holds before the first engine is verified.
LEMMA LoopBegins == LoopInit => LoopInv
<1> SUFFICES ASSUME LoopInit PROVE LoopInv
  OBVIOUS
<1> USE NAssumption DEF LoopInit
<1>1. 0 \in Engines
  BY DEF Engines
<1>2. LoopTypeOK
  <2>1. 0 \in 0..(N - 1) /\ 0 \in 0..N
    OBVIOUS
  <2>2. answers \in [Engines -> {"none", "run", "empty", "error"}]
    OBVIOUS
  <2>3. skipped \in [Engines -> 0..N]
    BY <2>1
  <2> QED
    BY <1>1, <2>1, <2>2, <2>3 DEF LoopTypeOK
<1>3. \A e \in Engines : Since(next, e) \in 0..(N - 1)
  BY DEF Since, Engines
<1>4. SkippedInTurn /\ EngineIsLast
  BY <1>3 DEF SkippedInTurn, EngineIsLast
<1>5. CountIsExact
  BY <1>3 DEF CountIsExact
<1> QED
  BY <1>2, <1>4, <1>5 DEF LoopInv

\* LoopInv holds in every reachable state.
THEOREM LoopInvariance == LoopSpec => []LoopInv
<1>1. LoopInv /\ [LoopNext]_loopVars => LoopInv'
  BY LoopGoesOn
<1> QED
  BY LoopBegins, <1>1, PTL DEF LoopSpec

\* Every variable keeps its type: the index stays inside engines, and the
\* count of empty answers never reaches the number of engines unnoticed.
THEOREM LoopTypeCorrect == LoopSpec => []LoopTypeOK
  BY LoopInvariance, PTL DEF LoopInv

\* However many engines share the slot, none is passed over twice by another.
THEOREM NoStarvation == LoopSpec => []BusyQueueCannotStarve
<1>1. LoopInv => BusyQueueCannotStarve
  BY NAssumption DEF LoopInv, LoopTypeOK, SkippedInTurn, Since, BusyQueueCannotStarve, Engines
<1> QED
  BY LoopInvariance, <1>1, PTL

\* The worker pauses exactly when it knows every queue to be empty.
THEOREM PausesWhenIdle == LoopSpec => []PauseExactlyWhenIdle
<1>1. LoopInv => PauseExactlyWhenIdle
  <2> SUFFICES ASSUME LoopInv PROVE PauseExactlyWhenIdle
    OBVIOUS
  <2>1. \E e \in Engines : Since(next, e) = empty
    BY PlaceTaken DEF LoopInv, LoopTypeOK
  <2> QED
    BY <2>1 DEF LoopInv, CountIsExact, PauseExactlyWhenIdle
<1> QED
  BY LoopInvariance, <1>1, PTL

-----------------------------------------------------------------------------
(* The cache.                                                              *)

\* No buffer is shared: not by two entries, not by two holders, and not by
\* an entry and a holder.
Separate ==
    /\ \A e, f \in entries : e.buf = f.buf => e = f
    /\ \A h \in held : h.buf \notin Retained(entries)
    /\ \A g, h \in held : g.buf = h.buf => g = h

\* A hit changes nothing about when an entry expires.
Timed == \A e \in entries : e.expiresAt = storedAt[e.key] + Ttl

IInv == TypeOK /\ Separate /\ HeldIsOwn /\ Timed

EntryType == [key : Identities, buf : Buffers, expiresAt : 1..(MaxClock + Ttl)]
HeldType  == [buf : Buffers, id : Identities, dirty : BOOLEAN]
Contents  == Identities \cup {"zero", "scribbled"}

\* The constants, as far as the proofs need them.
LEMMA Bounds == Ttl \in Nat /\ Ttl >= 1 /\ MaxClock \in Nat /\ NoIdentity \notin Identities
  BY LimitsAssumption DEF LimitsAssumption

\* Eviction only takes entries away.
LEMMA EvictedFrom == ASSUME NEW es, NEW id PROVE Evicted(es, id) \subseteq es
  BY DEF Evicted, After

\* Only cells that are free are filled, each with a source.
Fillable(filled) == DOMAIN filled \subseteq Free /\ \A b \in DOMAIN filled : filled[b] \in Identities

\* What becomes of the heap when the entries in kept remain.
Intact(kept, filled) ==
    /\ Wiped(kept, filled) \in [Buffers -> Contents]
    /\ \A e \in kept : Wiped(kept, filled)[e.buf] = e.key
    /\ \A h \in held : Wiped(kept, filled)[h.buf] = mem[h.buf]
    /\ \A b \in DOMAIN filled : Wiped(kept, filled)[b] = filled[b]
    /\ \A b \in Retained(entries) \ Retained(kept) : Wiped(kept, filled)[b] = "zero"

\* Buffers that go are zeroed, those that stay or are held keep their
\* contents, and new ones get theirs.
LEMMA WipedBuffers ==
  ASSUME IInv, NEW kept \in SUBSET entries, NEW filled, Fillable(filled)
  PROVE  Intact(kept, filled)
  <1>1. mem \in [Buffers -> Contents]
    BY DEF IInv, TypeOK, Contents
  <1>2. /\ \A e \in entries : e.buf \in Buffers /\ e.buf \in Retained(entries)
        /\ \A h \in held : h.buf \in Buffers /\ h.buf \notin Retained(entries)
    BY DEF IInv, TypeOK, Separate, Retained
  <1>3. /\ DOMAIN filled \subseteq Buffers
        /\ \A b \in DOMAIN filled : b \notin Retained(entries) /\ \A h \in held : b # h.buf
    BY DEF Free, Fillable
  <1>4. \A b \in Buffers :
           Wiped(kept, filled)[b] = IF b \in DOMAIN filled THEN filled[b]
                                    ELSE IF b \in Retained(entries) \ Retained(kept) THEN "zero"
                                    ELSE mem[b]
    BY DEF Wiped
  <1>5. Wiped(kept, filled) \in [Buffers -> Contents]
    <2>1. \A b \in Buffers : Wiped(kept, filled)[b] \in Contents
      BY <1>1, <1>4 DEF Contents, Fillable
    <2> QED BY <2>1 DEF Wiped
  <1>6. ASSUME NEW e \in kept PROVE Wiped(kept, filled)[e.buf] = e.key
    <2>1. e \in entries /\ e.buf \in Retained(kept)
      BY DEF Retained
    <2> QED BY <2>1, <1>2, <1>3, <1>4 DEF IInv, HeldIsOwn
  <1>7. ASSUME NEW h \in held PROVE Wiped(kept, filled)[h.buf] = mem[h.buf]
    BY <1>2, <1>3, <1>4
  <1>8. \A b \in Retained(entries) : b \in Buffers
    BY <1>2 DEF Retained
  <1> QED BY <1>3, <1>4, <1>5, <1>6, <1>7, <1>8 DEF Intact

\* Nothing is filled when nothing is handed out.
LEMMA NothingFilled == Fillable(<<>>)
  BY DEF Fillable

\* normalizedSource hands out a buffer nobody has.
LEMMA HandedOut ==
  ASSUME IInv, NEW b \in Free, NEW id \in Identities,
         held' = held \cup {[buf |-> b, id |-> id, dirty |-> FALSE]}
  PROVE  /\ held' \subseteq HeldType
         /\ \A h \in held' : h \in held \/ (h.buf = b /\ h.id = id /\ h.dirty = FALSE)
         /\ \A g, h \in held' : g.buf = h.buf => g = h
         /\ b \in Buffers /\ b \notin Retained(entries) /\ \A h \in held : h.buf # b
  <1> DEFINE given == [buf |-> b, id |-> id, dirty |-> FALSE]
  <1>1. b \in Buffers /\ b \notin Retained(entries) /\ \A h \in held : h.buf # b
    BY DEF Free
  <1>2. given.buf = b /\ given.id = id /\ given.dirty = FALSE /\ given \in HeldType
    BY <1>1 DEF HeldType
  <1>3. held' = held \cup {given}
    OBVIOUS
  <1>4. held \subseteq HeldType
    BY DEF IInv, TypeOK, HeldType
  <1>5. \A g, h \in held : g.buf = h.buf => g = h
    BY DEF IInv, Separate
  <1> HIDE DEF given
  <1> QED BY <1>1, <1>2, <1>3, <1>4, <1>5

-----------------------------------------------------------------------------
(* The steps.                                                              *)

\* The cache is empty and nobody holds anything.
LEMMA InitEstablishes == Init => IInv
  <1> SUFFICES ASSUME Init PROVE IInv
    OBVIOUS
  <1>1. TypeOK
    <2>1. 0 \in 0..MaxClock
      BY Bounds
    <2>2. storedAt \in [Identities -> 0..MaxClock] /\ clock \in 0..MaxClock
      BY <2>1 DEF Init
    <2>3. mem \in [Buffers -> Identities \cup {"zero", "scribbled"}]
      BY DEF Init
    <2> QED BY <2>2, <2>3 DEF Init, TypeOK
  <1>2. Separate /\ HeldIsOwn /\ Timed
    BY DEF Init, Separate, HeldIsOwn, Timed
  <1> QED BY <1>1, <1>2 DEF IInv

\* The orders keep to the identities.
LEMMA OrdersTyped ==
  ASSUME IInv
  PROVE  /\ \A keys : Among(before, keys) \subseteq Identities \X Identities
         /\ \A keys : Among(older, keys) \subseteq Identities \X Identities
         /\ \A key \in Identities, keys \in SUBSET Identities :
               /\ MovedLast(before, key, keys) \subseteq Identities \X Identities
               /\ MovedLast(older, key, keys) \subseteq Identities \X Identities
         /\ \A es \in SUBSET EntryType : KeysIn(es) \subseteq Identities
         /\ \A es : Kept(es) \subseteq Identities
  BY DEF IInv, TypeOK, Among, MovedLast, KeysIn, Kept, EntryType

\* prune leaves what every entry and every holder had.
LEMMA PrunesPreserves ==
  ASSUME IInv, Prunes(<<>>), Unmoved, UNCHANGED <<closed, held, clock, storedAt>>,
         pending' \in Identities \cup {NoIdentity}
  PROVE  IInv'
  <1>1. Pruned \in SUBSET entries
    BY DEF Pruned
  <1>2. /\ entries' = Pruned /\ mem' = Wiped(Pruned, <<>>)
        /\ mem' \in [Buffers -> Contents]
        /\ \A e \in entries' : mem'[e.buf] = e.key
        /\ \A h \in held : mem'[h.buf] = mem[h.buf]
    <2>1. Intact(Pruned, <<>>)
      BY <1>1, WipedBuffers, NothingFilled
    <2> QED BY <2>1 DEF Prunes, Intact
  <1>3. before' \subseteq Identities \X Identities /\ older' \subseteq Identities \X Identities
    BY OrdersTyped DEF Unmoved
  <1>4. TypeOK'
    BY <1>1, <1>2, <1>3 DEF IInv, TypeOK, Contents
  <1>5. Separate'
    BY <1>1, <1>2 DEF IInv, Separate, Retained
  <1>6. HeldIsOwn' /\ Timed'
    BY <1>1, <1>2 DEF IInv, HeldIsOwn, Timed
  <1> QED BY <1>4, <1>5, <1>6 DEF IInv

\* A hit gives the run a buffer nobody else has.
LEMMA HitPreserves ==
  ASSUME IInv, NEW id \in Identities, Hit(id)
  PROVE  IInv'
  <1>1. PICK e \in Pruned, b \in Free :
          /\ e.key = id /\ mem[e.buf] \in Identities
          /\ held' = held \cup {[buf |-> b, id |-> id, dirty |-> FALSE]}
          /\ entries' = (Pruned \ {e}) \cup {e}
          /\ mem' = Wiped(Pruned, [x \in {b} |-> mem[e.buf]])
          /\ before' = MovedLast(before, e.key, KeysIn(Pruned))
          /\ older' = MovedLast(older, id, Kept(Pruned))
    BY DEF Hit, KeyFor, HitEntry
  <1>2. Pruned \in SUBSET entries /\ entries' = Pruned /\ e \in entries /\ mem[e.buf] = id
    BY <1>1 DEF Pruned, IInv, HeldIsOwn
  <1> DEFINE filled == [x \in {b} |-> mem[e.buf]]
  <1>3. /\ DOMAIN filled = {b} /\ filled[b] = id /\ b \in Free
        /\ b \in Buffers /\ b \notin Retained(entries) /\ \A h \in held : h.buf # b
        /\ held' \subseteq HeldType
        /\ \A h \in held' : h \in held \/ (h.buf = b /\ h.id = id /\ h.dirty = FALSE)
        /\ \A g, h \in held' : g.buf = h.buf => g = h
    BY <1>1, <1>2, HandedOut
  <1>4. /\ mem' \in [Buffers -> Contents] /\ mem'[b] = id
        /\ \A f \in entries' : mem'[f.buf] = f.key
        /\ \A h \in held : mem'[h.buf] = mem[h.buf]
    <2>1. mem' = Wiped(Pruned, filled)
      BY <1>1
    <2>2. Fillable(filled)
      BY <1>3 DEF Fillable
    <2> HIDE DEF filled
    <2>3. Intact(Pruned, filled)
      BY <2>2, <1>2, WipedBuffers
    <2> QED BY <2>1, <2>3, <1>2, <1>3 DEF Intact
  <1>5. before' \subseteq Identities \X Identities /\ older' \subseteq Identities \X Identities
    <2>1. Pruned \in SUBSET EntryType
      BY <1>2 DEF IInv, TypeOK, EntryType
    <2> QED BY <2>1, <1>1, OrdersTyped
  <1>6. TypeOK'
    BY <1>2, <1>3, <1>4, <1>5 DEF IInv, TypeOK, Contents, HeldType, Hit
  <1>7. Separate'
    BY <1>2, <1>3 DEF IInv, Separate, Retained
  <1>8. HeldIsOwn' /\ Timed'
    <2>1. HeldIsOwn'
      BY <1>2, <1>3, <1>4 DEF IInv, HeldIsOwn
    <2>2. Timed'
      BY <1>2 DEF IInv, Timed, Hit
    <2> QED BY <2>1, <2>2
  <1> QED BY <1>6, <1>7, <1>8 DEF IInv

\* A put gives the cache one buffer and the run another.
LEMMA PutPreserves ==
  ASSUME IInv, NormalizeAndPut, Size[pending] <= MaximumBytes
  PROVE  IInv'
  <1>1. PICK b \in Free, c \in Free :
          /\ b # c
          /\ held' = held \cup {[buf |-> b, id |-> pending, dirty |-> FALSE]}
          /\ Put(pending, b, c)
    BY LimitsAssumption DEF NormalizeAndPut, KeyFor, Owned, LimitsAssumption, IInv, TypeOK
  <1> DEFINE kept   == Evicted({e \in Pruned : e.key # pending}, pending)
             new    == [key |-> pending, buf |-> c, expiresAt |-> clock + Ttl]
             filled == [x \in {b, c} |-> pending]
  <1>2. /\ pending \in Identities /\ pending' = NoIdentity /\ closed' = closed /\ clock' = clock
    BY DEF NormalizeAndPut, IInv, TypeOK
  <1>3. /\ entries' = kept \cup {new} /\ mem' = Wiped(kept, filled)
        /\ before' = MovedLast(before, pending, KeysIn(entries'))
        /\ older' = MovedLast(older, pending, Kept(entries'))
        /\ storedAt' = [storedAt EXCEPT ![pending] = clock]
    BY <1>1 DEF Put
  <1>4. kept \in SUBSET entries /\ \A e \in kept : e.key # pending
    BY EvictedFrom DEF Pruned
  <1>5. /\ b \in Buffers /\ c \in Buffers /\ b # c
        /\ b \notin Retained(entries) /\ c \notin Retained(entries)
        /\ \A h \in held : h.buf # b /\ h.buf # c
        /\ held' \subseteq HeldType
        /\ \A h \in held' : h \in held \/ (h.buf = b /\ h.id = pending /\ h.dirty = FALSE)
        /\ \A g, h \in held' : g.buf = h.buf => g = h
    <2>1. c \in Buffers /\ c \notin Retained(entries) /\ \A h \in held : h.buf # c
      BY DEF Free
    <2> QED BY <1>1, <1>2, <2>1, HandedOut
  <1>6. /\ clock \in 0..MaxClock /\ clock + Ttl \in 1..(MaxClock + Ttl)
    BY Bounds DEF IInv, TypeOK
  <1>7. new \in EntryType
    BY <1>2, <1>5, <1>6 DEF EntryType
  <1>8. /\ mem' \in [Buffers -> Contents] /\ mem'[b] = pending /\ mem'[c] = pending
        /\ \A e \in kept : mem'[e.buf] = e.key
        /\ \A h \in held : mem'[h.buf] = mem[h.buf]
    <2>1. DOMAIN filled = {b, c} /\ filled[b] = pending /\ filled[c] = pending
      OBVIOUS
    <2>2. Fillable(filled)
      BY <1>1, <1>2 DEF Fillable
    <2>3. kept \in SUBSET entries
      BY <1>4
    <2> HIDE DEF filled, kept
    <2>4. Intact(kept, filled)
      BY <2>2, <2>3, WipedBuffers
    <2> QED BY <2>1, <2>4, <1>3 DEF Intact
  <1>9. entries' \in SUBSET EntryType
    BY <1>3, <1>4, <1>7 DEF IInv, TypeOK, EntryType
  <1>10. before' \subseteq Identities \X Identities /\ older' \subseteq Identities \X Identities
    BY <1>2, <1>3, <1>9, OrdersTyped
  <1> HIDE DEF kept, new, filled
  <1>11. new.key = pending /\ new.buf = c /\ new.expiresAt = clock + Ttl
    BY DEF new
  <1>12. storedAt' \in [Identities -> 0..MaxClock]
    BY <1>2, <1>3, <1>6 DEF IInv, TypeOK
  <1>13. TypeOK'
    BY <1>2, <1>5, <1>8, <1>9, <1>10, <1>12 DEF IInv, TypeOK, Contents, EntryType, HeldType
  <1>14. Separate'
    <2>1. \A e \in kept : e.buf # c /\ e.buf # b
      BY <1>4, <1>5 DEF Retained
    <2>2. \A e, f \in entries' : e.buf = f.buf => e = f
      BY <2>1, <1>3, <1>4, <1>11 DEF IInv, Separate
    <2>3. \A h \in held' : h.buf \notin Retained(entries')
      BY <2>1, <1>3, <1>4, <1>5, <1>11 DEF IInv, Separate, Retained
    <2>4. \A g, h \in held' : g.buf = h.buf => g = h
      BY <1>5
    <2> QED BY <2>2, <2>3, <2>4 DEF Separate
  <1>15. HeldIsOwn'
    BY <1>3, <1>5, <1>8, <1>11 DEF IInv, HeldIsOwn
  <1>16. Timed'
    <2>1. ASSUME NEW e \in kept PROVE e.expiresAt = storedAt'[e.key] + Ttl
      <3>1. e \in entries /\ e.key \in Identities /\ e.key # pending
        BY <1>4 DEF IInv, TypeOK
      <3>2. storedAt'[e.key] = storedAt[e.key]
        BY <3>1, <1>3 DEF IInv, TypeOK
      <3> QED BY <3>1, <3>2 DEF IInv, Timed
    <2>2. storedAt'[pending] = clock
      BY <1>2, <1>3 DEF IInv, TypeOK
    <2> QED BY <2>1, <2>2, <1>3, <1>11 DEF Timed
  <1> QED BY <1>13, <1>14, <1>15, <1>16 DEF IInv

\* A value too large for the cache is the run's alone.
LEMMA TooLargePreserves ==
  ASSUME IInv, NormalizeAndPut, Size[pending] > MaximumBytes
  PROVE  IInv'
  <1>1. PICK b \in Free :
          /\ held' = held \cup {[buf |-> b, id |-> pending, dirty |-> FALSE]}
          /\ mem' = [mem EXCEPT ![b] = pending]
          /\ UNCHANGED <<entries, before, bytes, storedAt, older>>
    BY DEF NormalizeAndPut, mapVars, historyVars
  <1>2. pending \in Identities /\ pending' = NoIdentity /\ closed' = closed /\ clock' = clock
    BY DEF NormalizeAndPut, IInv, TypeOK
  <1>3. /\ b \in Buffers /\ b \notin Retained(entries) /\ \A h \in held : h.buf # b
        /\ held' \subseteq HeldType
        /\ \A h \in held' : h \in held \/ (h.buf = b /\ h.id = pending /\ h.dirty = FALSE)
        /\ \A g, h \in held' : g.buf = h.buf => g = h
    BY <1>1, <1>2, HandedOut
  <1>4. TypeOK'
    BY <1>1, <1>2, <1>3 DEF IInv, TypeOK, HeldType
  <1>5. Separate'
    BY <1>1, <1>3 DEF IInv, Separate, Retained
  <1>6. HeldIsOwn'
    BY <1>1, <1>2, <1>3 DEF IInv, TypeOK, HeldIsOwn, Retained
  <1>7. Timed'
    BY <1>1 DEF IInv, Timed
  <1> QED BY <1>4, <1>5, <1>6, <1>7 DEF IInv

\* What a run does to its own buffer is its own business.
LEMMA HolderPreserves ==
  ASSUME IInv, NEW h \in held, Scribble(h) \/ LetGo(h)
  PROVE  IInv'
  <1>1. h \in HeldType /\ h.buf \in Buffers /\ h.buf \notin Retained(entries)
    BY DEF IInv, TypeOK, HeldType, Separate
  <1>2. /\ \A e \in entries : e.buf # h.buf
        /\ \A g \in held : g # h => g.buf # h.buf
    BY <1>1 DEF IInv, Separate, Retained
  <1>3. CASE Scribble(h)
    <2> DEFINE dirty == [h EXCEPT !.dirty = TRUE]
    <2>1. dirty \in HeldType /\ dirty.buf = h.buf /\ dirty.dirty = TRUE
      BY <1>1 DEF HeldType
    <2>2. /\ held' = (held \ {h}) \cup {dirty} /\ mem' = [mem EXCEPT ![h.buf] = "scribbled"]
          /\ UNCHANGED <<entries, before, bytes, closed, pending, clock, storedAt, older>>
      BY <1>3 DEF Scribble, mapVars, historyVars
    <2> HIDE DEF dirty
    <2>3. TypeOK'
      BY <2>1, <2>2 DEF IInv, TypeOK, HeldType
    <2>4. Separate'
      BY <2>1, <2>2, <1>1, <1>2 DEF IInv, Separate, Retained
    <2>5. HeldIsOwn' /\ Timed'
      BY <2>1, <2>2, <1>1, <1>2 DEF IInv, TypeOK, HeldIsOwn, Timed
    <2> QED BY <2>3, <2>4, <2>5 DEF IInv
  <1>4. CASE LetGo(h)
    <2>1. /\ held' = held \ {h} /\ mem' = [mem EXCEPT ![h.buf] = "zero"]
          /\ UNCHANGED <<entries, before, bytes, closed, pending, clock, storedAt, older>>
      BY <1>1, <1>4 DEF LetGo, mapVars, historyVars
    <2>2. TypeOK'
      BY <2>1 DEF IInv, TypeOK
    <2>3. Separate'
      BY <2>1 DEF IInv, Separate, Retained
    <2>4. HeldIsOwn' /\ Timed'
      BY <2>1, <1>1, <1>2 DEF IInv, TypeOK, HeldIsOwn, Timed
    <2> QED BY <2>2, <2>3, <2>4 DEF IInv
  <1> QED BY <1>3, <1>4

\* Nothing is left to be wrong once the cache is disposed.
LEMMA DisposePreserves == ASSUME IInv, Dispose PROVE IInv'
  <1>1. /\ mem' = Wiped({}, <<>>) /\ entries' = {} /\ held' = held /\ held = {}
        /\ before' = {} /\ older' = {} /\ closed' = TRUE
        /\ UNCHANGED <<pending, clock, storedAt>>
    BY DEF Dispose
  <1>2. mem' \in [Buffers -> Contents]
    <2>1. Intact({}, <<>>)
      BY WipedBuffers, NothingFilled
    <2> QED BY <1>1, <2>1 DEF Intact
  <1> QED BY <1>1, <1>2 DEF IInv, TypeOK, Contents, Separate, HeldIsOwn, Timed, Retained

\* Every step keeps the invariant.
LEMMA StepPreserves == IInv /\ [Next]_vars => IInv'
  <1> SUFFICES ASSUME IInv, [Next]_vars PROVE IInv'
    OBVIOUS
  <1>1. ASSUME NEW id \in Identities, Miss(id) PROVE IInv'
    BY <1>1, PrunesPreserves DEF Miss
  <1>2. ASSUME NEW id \in Identities, Hit(id) PROVE IInv'
    BY <1>2, HitPreserves
  <1>3. ASSUME NEW h \in held, Scribble(h) \/ LetGo(h) PROVE IInv'
    BY <1>3, HolderPreserves
  <1>4. CASE NormalizeAndPut
    <2>1. CASE Size[pending] > MaximumBytes
      BY <1>4, <2>1, TooLargePreserves
    <2>2. CASE Size[pending] <= MaximumBytes
      BY <1>4, <2>2, PutPreserves
    <2>3. Size[pending] \in Nat /\ MaximumBytes \in Nat
      BY <1>4, LimitsAssumption DEF LimitsAssumption, NormalizeAndPut, IInv, TypeOK
    <2> QED BY <2>1, <2>2, <2>3
  <1>5. CASE NormalizeFails
    BY <1>5 DEF NormalizeFails, mapVars, historyVars, IInv, TypeOK, Separate, HeldIsOwn, Timed, Retained
  <1>6. CASE Prune
    <2>1. pending' \in Identities \cup {NoIdentity}
      BY <1>6 DEF Prune, IInv, TypeOK
    <2> QED BY <1>6, <2>1, PrunesPreserves DEF Prune
  <1>7. CASE Dispose
    BY <1>7, DisposePreserves
  <1>8. CASE Tick
    <2>1. clock' \in 0..MaxClock
      BY <1>8, Bounds DEF Tick, IInv, TypeOK
    <2> QED BY <1>8, <2>1 DEF Tick, mapVars, historyVars, IInv, TypeOK, Separate, HeldIsOwn, Timed, Retained
  <1>9. CASE UNCHANGED vars
    BY <1>9 DEF vars, mapVars, historyVars, IInv, TypeOK, Separate, HeldIsOwn, Timed, Retained
  <1> QED BY <1>1, <1>2, <1>3, <1>4, <1>5, <1>6, <1>7, <1>8, <1>9 DEF Next

\* The invariant holds throughout the life of the process.
THEOREM Invariance == Spec => []IInv
  BY InitEstablishes, StepPreserves, PTL DEF Spec

\* Types of the Map, its orders, the heap and the clock.
THEOREM TypeCorrect == Spec => []TypeOK
  <1>1. IInv => TypeOK
    BY DEF IInv
  <1> QED BY <1>1, Invariance, PTL

\* A run and an entry hold their own source, whoever scribbles over what and
\* whatever is evicted (Buffer.from in get and put).
THEOREM CopiesAreOwn == Spec => []HeldIsOwn
  <1>1. IInv => HeldIsOwn
    BY DEF IInv
  <1> QED BY <1>1, Invariance, PTL

-----------------------------------------------------------------------------
(* What a step may never do.                                               *)

\* Nothing is handed out ttlMs or more after it was put, however often it
\* was hit before (prune in get, and set without a new expiry).
THEOREM ReuseEndsAtTtl == Spec => ReuseWithinTtl
  <1> DEFINE InTime == \A h \in held' \ held : pending = NoIdentity /\ ~h.dirty =>
                          \/ \E g \in held : g.buf = h.buf
                          \/ clock < storedAt[h.id] + Ttl
  <1>1. IInv /\ [Next]_vars => [InTime]_vars
    <2> SUFFICES ASSUME IInv, Next PROVE InTime
      OBVIOUS
    <2>1. ASSUME NEW id \in Identities, Hit(id) PROVE InTime
      <3>1. PICK e \in Pruned, b \in Free :
               e.key = id /\ held' = held \cup {[buf |-> b, id |-> id, dirty |-> FALSE]}
        BY <2>1 DEF Hit, KeyFor
      <3>2. e \in entries /\ ~(e.expiresAt <= clock) /\ e.expiresAt = storedAt[id] + Ttl
        BY <3>1 DEF Pruned, Expired, IInv, Timed
      <3>3. storedAt[id] \in Nat /\ clock \in Nat
        BY DEF IInv, TypeOK
      <3>4. clock < storedAt[id] + Ttl
        BY <3>2, <3>3, Bounds
      <3> QED BY <3>1, <3>4
    <2>2. ASSUME NEW h \in held, Scribble(h) PROVE InTime
      <3>1. held' = (held \ {h}) \cup {[h EXCEPT !.dirty = TRUE]}
        BY <2>2 DEF Scribble
      <3>2. [h EXCEPT !.dirty = TRUE].dirty = TRUE
        BY DEF IInv, TypeOK
      <3> QED BY <3>1, <3>2
    <2>3. ASSUME NEW h \in held, LetGo(h) PROVE InTime
      BY <2>3 DEF LetGo
    <2>4. CASE NormalizeAndPut
      BY <2>4 DEF NormalizeAndPut
    <2>5. ASSUME held' = held PROVE InTime
      BY <2>5
    <2> QED BY <2>1, <2>2, <2>3, <2>4, <2>5 DEF Next, Miss, NormalizeFails, Prune, Dispose, Tick
  <1> QED BY <1>1, Invariance, PTL DEF Spec, ReuseWithinTtl

\* Memory the cache gives up is zero in the step that gives it up: on
\* expiry, eviction, replacement and shutdown (remove).
THEOREM ReleasesZeroed == Spec => ReleasedIsZeroed
  <1> DEFINE Zeroed == \A b \in Retained(entries) \ Retained(entries') : mem'[b] = "zero"
  <1>1. IInv /\ [Next]_vars => [Zeroed]_vars
    <2> SUFFICES ASSUME IInv, Next PROVE Zeroed
      OBVIOUS
    <2>1. Pruned \in SUBSET entries
      BY DEF Pruned
    <2>2. ASSUME Prunes(<<>>) PROVE Zeroed
      <3>1. Intact(Pruned, <<>>)
        BY <2>1, WipedBuffers, NothingFilled
      <3> QED BY <2>2, <3>1 DEF Prunes, Intact
    <2>3. ASSUME NEW id \in Identities, Hit(id) PROVE Zeroed
      <3>1. PICK e \in Pruned, b \in Free :
              /\ entries' = (Pruned \ {e}) \cup {e} /\ mem[e.buf] \in Identities
              /\ mem' = Wiped(Pruned, [x \in {b} |-> mem[e.buf]])
        BY <2>3 DEF Hit, HitEntry
      <3> DEFINE filled == [x \in {b} |-> mem[e.buf]]
      <3>2. Fillable(filled)
        BY <3>1 DEF Fillable
      <3>3. mem' = Wiped(Pruned, filled) /\ entries' = Pruned
        BY <3>1
      <3> HIDE DEF filled
      <3>4. Intact(Pruned, filled)
        BY <2>1, <3>2, WipedBuffers
      <3> QED BY <3>3, <3>4 DEF Intact
    <2>4. CASE NormalizeAndPut
      <3>1. CASE entries' = entries
        BY <3>1
      <3>2. CASE \E b \in Free, c \in Free : Put(pending, b, c)
        <4>1. PICK b \in Free, c \in Free : Put(pending, b, c)
          BY <3>2
        <4> DEFINE kept   == Evicted({e \in Pruned : e.key # pending}, pending)
                   filled == [x \in {b, c} |-> pending]
        <4>2. pending \in Identities
          BY <2>4 DEF NormalizeAndPut, IInv, TypeOK
        <4>3. Fillable(filled)
          BY <4>1, <4>2 DEF Fillable
        <4>4. kept \in SUBSET entries
          BY <2>1, EvictedFrom
        <4>5. mem' = Wiped(kept, filled) /\ kept \subseteq entries'
          BY <4>1 DEF Put
        <4> HIDE DEF kept, filled
        <4>6. Intact(kept, filled)
          BY <4>3, <4>4, WipedBuffers
        <4> QED BY <4>5, <4>6 DEF Intact, Retained
      <3> QED BY <2>4, <3>1, <3>2 DEF NormalizeAndPut, KeyFor, Owned, mapVars
    <2>5. CASE Dispose
      <3>1. Intact({}, <<>>)
        BY WipedBuffers, NothingFilled
      <3> QED BY <2>5, <3>1 DEF Dispose, Intact
    <2>6. ASSUME entries' = entries PROVE Zeroed
      BY <2>6
    <2> QED BY <2>2, <2>3, <2>4, <2>5, <2>6
            DEF Next, Miss, Prune, Scribble, LetGo, NormalizeFails, Tick, mapVars
  <1> QED BY <1>1, Invariance, PTL DEF Spec, ReleasedIsZeroed

-----------------------------------------------------------------------------
(* The account and the order of the Map.                                   *)

\* A strict total order of the keys.
Orders(order, keys) ==
    /\ order \subseteq keys \X keys
    /\ \A k \in keys : <<k, k>> \notin order
    /\ \A k, l, m \in keys : <<k, l>> \in order /\ <<l, m>> \in order => <<k, m>> \in order
    /\ \A k, l \in keys : k # l => <<k, l>> \in order \/ <<l, k>> \in order

\* A Map has one entry of a key, and iterates all of them, the least
\* recently used first; a source that is being normalized has none.
Ordered ==
    /\ \A e, f \in entries : e.key = f.key => e = f
    /\ Orders(before, KeysIn(entries))
    /\ older = before
    /\ pending \notin KeysIn(entries)

JInv == IsFiniteSet(entries) /\ WithinBudget /\ Ordered

\* The limits, as far as the proofs need them.
LEMMA Limits ==
    /\ MaximumBytes \in Nat /\ MaximumEntries \in Nat /\ MaximumEntries >= 1
    /\ \A id \in Identities : Size[id] \in Nat
  BY LimitsAssumption DEF LimitsAssumption

\* What is added up.
LEMMA BytesWeights ==
  ASSUME NEW es \in SUBSET EntryType, IsFiniteSet(es)
  PROVE  Weights([e \in es |-> Size[e.key]], es)
  BY Limits DEF Weights, EntryType

\* The bytes of a part and of the rest.
LEMMA BytesSplit ==
  ASSUME NEW es \in SUBSET EntryType, IsFiniteSet(es), NEW part \in SUBSET es
  PROVE  /\ BytesIn(es) \in Nat /\ BytesIn(part) \in Nat /\ BytesIn(es \ part) \in Nat
         /\ BytesIn(es) = BytesIn(part) + BytesIn(es \ part)
         /\ IsFiniteSet(part) /\ Cardinality(part) \in Nat /\ Cardinality(es) \in Nat
         /\ Cardinality(part) <= Cardinality(es)
  <1> DEFINE w == [e \in es |-> Size[e.key]]
  <1>1. Weights(w, es)
    BY BytesWeights
  <1>2. \A A \in SUBSET es : /\ BytesIn(A) = SumFunction(Restrict(w, A))
                             /\ Weights(Restrict(w, A), A)
    <2> TAKE A \in SUBSET es
    <2>1. [e \in A |-> Size[e.key]] = Restrict(w, A)
      BY DEF Restrict
    <2> HIDE DEF w
    <2> QED BY <1>1, <2>1, PartWeights DEF BytesIn
  <1>3. BytesIn(es) = SumFunction(w)
    BY DEF BytesIn
  <1> HIDE DEF w
  <1>4. SumFunction(w) = SumFunction(Restrict(w, part)) + SumFunction(Restrict(w, es \ part))
    BY <1>1, SumSplit
  <1>5. /\ BytesIn(es) = BytesIn(part) + BytesIn(es \ part)
        /\ BytesIn(es) \in Nat /\ BytesIn(part) \in Nat /\ BytesIn(es \ part) \in Nat
    <2>1. part \in SUBSET es /\ es \ part \in SUBSET es
      OBVIOUS
    <2>2. BytesIn(part) = SumFunction(Restrict(w, part)) /\ Weights(Restrict(w, part), part)
      BY <1>2, <2>1
    <2>3. BytesIn(es \ part) = SumFunction(Restrict(w, es \ part)) /\ Weights(Restrict(w, es \ part), es \ part)
      BY <1>2, <2>1
    <2>4. BytesIn(part) \in Nat
      BY <2>2, SumIsNat
    <2>5. BytesIn(es \ part) \in Nat
      BY <2>3, SumIsNat
    <2>6. BytesIn(es) \in Nat
      BY <1>1, <1>3, SumIsNat
    <2> QED BY <1>3, <1>4, <2>2, <2>3, <2>4, <2>5, <2>6
  <1> QED BY <1>5, FS_Subset, FS_CardinalityType

\* Nothing has no bytes, and one more entry adds its own.
LEMMA BytesOfOneMore ==
  ASSUME NEW es \in SUBSET EntryType, IsFiniteSet(es), NEW e \in EntryType, e \notin es
  PROVE  /\ BytesIn({}) = 0
         /\ IsFiniteSet(es \cup {e}) /\ Cardinality(es \cup {e}) = Cardinality(es) + 1
         /\ BytesIn(es \cup {e}) = BytesIn(es) + Size[e.key]
  <1> DEFINE more == es \cup {e}
             w == [f \in more |-> Size[f.key]]
  <1>1. more \in SUBSET EntryType /\ IsFiniteSet(more) /\ Cardinality(more) = Cardinality(es) + 1
    BY FS_AddElement
  <1>2. BytesIn({}) = 0
    <2>1. {} \in SUBSET EntryType /\ IsFiniteSet({})
      BY FS_EmptySet
    <2>2. Weights([f \in {} |-> Size[f.key]], {})
      BY <2>1, BytesWeights
    <2> QED BY <2>2, SumIsNat DEF BytesIn
  <1>3. BytesIn(more) = w[e] + SumFunction(Restrict(w, more \ {e}))
    <2>1. Weights(w, more)
      BY <1>1, BytesWeights
    <2>2. e \in more
      OBVIOUS
    <2>3. SumFunction(w) = w[e] + SumFunction(Restrict(w, more \ {e}))
      <3> HIDE DEF w, more
      <3> QED BY <2>1, <2>2, SumWithout
    <2>4. BytesIn(more) = SumFunction(w)
      BY DEF BytesIn
    <2> QED BY <2>3, <2>4
  <1>4. Restrict(w, more \ {e}) = [f \in es |-> Size[f.key]] /\ w[e] = Size[e.key]
    <2>1. more \ {e} = es
      OBVIOUS
    <2> QED BY <2>1 DEF Restrict
  <1>5. SumFunction(Restrict(w, more \ {e})) = BytesIn(es)
    BY <1>4 DEF BytesIn
  <1>6. BytesIn(es) \in Nat /\ Size[e.key] \in Nat
    <2>1. e.key \in Identities
      BY DEF EntryType
    <2> QED BY <2>1, Limits, BytesSplit
  <1> QED BY <1>1, <1>2, <1>3, <1>4, <1>5, <1>6

\* What is left of an order is one, and so is an order with a last key.
LEMMA OrderKept ==
  ASSUME NEW order, NEW keys, Orders(order, keys), NEW rest, rest \subseteq keys
  PROVE  Orders(Among(order, rest), rest)
  BY DEF Orders, Among

LEMMA OrderWithLast ==
  ASSUME NEW order, NEW keys, Orders(order, keys), NEW rest, NEW key \in rest,
         rest \ {key} \subseteq keys
  PROVE  Orders(MovedLast(order, key, rest), rest)
  <1> DEFINE others == rest \ {key}
             head == Among(order, others)
  <1>1. Orders(head, others)
    BY OrderKept
  <1>2. MovedLast(order, key, rest) = head \cup (others \X {key})
    BY DEF MovedLast
  <1>3. /\ key \notin others /\ rest = others \cup {key}
    OBVIOUS
  <1> HIDE DEF others, head
  <1>4. \A k, l : <<k, l>> \in MovedLast(order, key, rest)
                    <=> <<k, l>> \in head \/ (k \in others /\ l = key)
    BY <1>2
  <1> DEFINE o == MovedLast(order, key, rest)
  <1>5. o \subseteq rest \X rest
    BY <1>1, <1>2, <1>3 DEF Orders
  <1>6. \A k, l : <<k, l>> \in head => k \in others /\ l \in others
    BY <1>1 DEF Orders
  <1> HIDE DEF o
  <1>7. \A k, l : <<k, l>> \in o <=> <<k, l>> \in head \/ (k \in others /\ l = key)
    BY <1>4 DEF o
  <1>8. \A k \in rest : <<k, k>> \notin o
    BY <1>1, <1>3, <1>7 DEF Orders
  <1>9. \A k, l, m \in rest : <<k, l>> \in o /\ <<l, m>> \in o => <<k, m>> \in o
    BY <1>1, <1>3, <1>6, <1>7 DEF Orders
  <1>10. \A k, l \in rest : k # l => <<k, l>> \in o \/ <<l, k>> \in o
    BY <1>1, <1>3, <1>7 DEF Orders
  <1> QED BY <1>5, <1>8, <1>9, <1>10 DEF Orders, o

-----------------------------------------------------------------------------
(* The eviction loop ends with room for the value.                         *)

\* Entries the loop may work on: one of a key, in the order of the Map.
Iterated(es) ==
    /\ es \in SUBSET EntryType /\ IsFiniteSet(es)
    /\ \A e, f \in es : e.key = f.key => e = f
    /\ Orders(Among(before, KeysIn(es)), KeysIn(es))

\* What comes after an entry.
LEMMA AfterShrinks ==
  ASSUME NEW es, Iterated(es)
  PROVE  /\ \A e \in es : /\ After(es, e) \subseteq es /\ e \notin After(es, e)
                          /\ IsFiniteSet(After(es, e)) /\ Cardinality(After(es, e)) \in Nat
         /\ \A e, f \in es : e # f => e \in After(es, f) \/ f \in After(es, e)
         /\ \A e, f \in es : e \in After(es, f) =>
               /\ After(es, e) \subseteq After(es, f) /\ f \notin After(es, e)
               /\ Cardinality(After(es, e)) < Cardinality(After(es, f))
  <1> DEFINE o == Among(before, KeysIn(es))
  <1>1. \A e, f \in es : f \in After(es, e) <=> <<e.key, f.key>> \in o
    BY DEF After, Among, KeysIn
  <1>2. \A e \in es : e.key \in KeysIn(es)
    BY DEF KeysIn
  <1>3. Orders(o, KeysIn(es)) /\ \A e, f \in es : e.key = f.key => e = f
    BY DEF Iterated
  <1> HIDE DEF o
  <1>4. \A e \in es : After(es, e) \subseteq es
    BY DEF After
  <1>5. \A e \in es : e \notin After(es, e)
    BY <1>1, <1>2, <1>3 DEF Orders
  <1>6. \A e \in es : IsFiniteSet(After(es, e)) /\ Cardinality(After(es, e)) \in Nat
    BY <1>4, FS_Subset, FS_CardinalityType DEF Iterated
  <1>7. \A e, f \in es : e # f => e \in After(es, f) \/ f \in After(es, e)
    BY <1>1, <1>2, <1>3 DEF Orders
  <1>8. ASSUME NEW e \in es, NEW f \in es, e \in After(es, f)
        PROVE  /\ After(es, e) \subseteq After(es, f) /\ f \notin After(es, e)
               /\ Cardinality(After(es, e)) < Cardinality(After(es, f))
    <2>1. After(es, e) \subseteq After(es, f) /\ f \notin After(es, e)
      BY <1>1, <1>2, <1>3, <1>4, <1>5, <1>8 DEF Orders
    <2>2. After(es, e) # After(es, f)
      BY <1>5, <1>8
    <2>3. Cardinality(After(es, e)) < Cardinality(After(es, f))
      BY <1>6, <2>1, <2>2, FS_Subset
    <2> QED BY <2>1, <2>3
  <1> QED BY <1>4, <1>5, <1>6, <1>7, <1>8

\* The last entry that is evicted: the first after which there is room.
Goes(es, id, last) ==
    /\ last \in es /\ Fits(After(es, last), id)
    /\ \A f \in es : last \in After(es, f) => ~Fits(After(es, f), id)

\* Some entry is that one, if there is no room and the value is not too large
\* for an empty cache.
LEMMA SomeGoes ==
  ASSUME NEW es, Iterated(es), NEW id \in Identities, Size[id] <= MaximumBytes, ~Fits(es, id)
  PROVE  \E last : Goes(es, id, last)
  <1> DEFINE n(e) == Cardinality(After(es, e))
             fitting == {e \in es : Fits(After(es, e), id)}
  <1>1. Fits({}, id)
    <2>1. BytesIn({}) = 0
      <3>1. {} \in SUBSET EntryType /\ IsFiniteSet({})
        BY FS_EmptySet
      <3>2. Weights([f \in {} |-> Size[f.key]], {})
        BY <3>1, BytesWeights
      <3> QED BY <3>2, SumIsNat DEF BytesIn
    <2> QED BY <2>1, Limits, FS_EmptySet DEF Fits
  <1>2. \A e \in es : n(e) \in Nat
    BY AfterShrinks
  <1>3. \E e \in es : \A f \in es : n(e) <= n(f)
    <2> DEFINE T == {n(e) : e \in es}
    <2>1. es # {}
      BY <1>1
    <2>2. T \in SUBSET Nat /\ T # {}
      BY <1>2, <2>1
    <2>3. \E x \in T : \A y \in T : x <= y
      <3> HIDE DEF T
      <3> QED BY <2>2, LeastNat
    <2> QED BY <2>3
  <1>4. fitting # {}
    <2>1. PICK e \in es : \A f \in es : n(e) <= n(f)
      BY <1>3
    <2>2. \A f \in es : f \notin After(es, e)
      <3> SUFFICES ASSUME NEW f \in es, f \in After(es, e) PROVE FALSE
        OBVIOUS
      <3>1. n(f) < n(e)
        BY AfterShrinks
      <3>2. n(e) <= n(f) /\ n(e) \in Nat /\ n(f) \in Nat
        BY <1>2, <2>1
      <3> HIDE DEF n
      <3> QED BY <3>1, <3>2
    <2>3. After(es, e) = {}
      BY <2>2 DEF After
    <2> QED BY <1>1, <2>1, <2>3
  <1>5. \E e \in fitting : \A f \in fitting : n(f) <= n(e)
    <2> DEFINE all == Cardinality(es)
               T == {all - n(e) : e \in fitting}
    <2>1. all \in Nat /\ \A e \in es : n(e) <= all /\ all - n(e) \in Nat
      <3>1. IsFiniteSet(es)
        BY DEF Iterated
      <3>2. \A e \in es : n(e) <= all
        BY <3>1, AfterShrinks, FS_Subset
      <3>3. all \in Nat
        BY <3>1, FS_CardinalityType
      <3> HIDE DEF all, n
      <3> QED BY <1>2, <3>2, <3>3
    <2>2. T \in SUBSET Nat /\ T # {}
      BY <1>4, <2>1
    <2>3. \E x \in T : \A y \in T : x <= y
      <3> HIDE DEF T
      <3> QED BY <2>2, LeastNat
    <2>4. PICK e \in fitting : \A f \in fitting : all - n(e) <= all - n(f)
      BY <2>3
    <2>5. e \in es /\ fitting \subseteq es
      OBVIOUS
    <2>6. \A f \in fitting : n(f) <= n(e)
      <3> HIDE DEF all, n, fitting
      <3> QED BY <1>2, <2>1, <2>4, <2>5
    <2> QED BY <2>6
  <1>6. PICK last \in fitting : \A f \in fitting : n(f) <= n(last)
    BY <1>5
  <1>7. ASSUME NEW f \in es, last \in After(es, f), Fits(After(es, f), id) PROVE FALSE
    <2>1. f \in fitting /\ last \in es
      BY <1>7
    <2>2. n(last) < n(f)
      BY <1>7, <2>1, AfterShrinks
    <2>3. n(f) <= n(last) /\ n(f) \in Nat /\ n(last) \in Nat
      BY <1>2, <1>6, <2>1
    <2> HIDE DEF n
    <2> QED BY <2>2, <2>3
  <1>8. Goes(es, id, last)
    BY <1>7 DEF Goes
  <1> QED BY <1>8

\* So the loop ends there.
LEMMA EvictedUpTo ==
  ASSUME NEW es, Iterated(es), NEW id \in Identities, Size[id] <= MaximumBytes
  PROVE  /\ Fits(Evicted(es, id), id)
         /\ ~Fits(es, id) => \E last : Goes(es, id, last) /\ Evicted(es, id) = After(es, last)
  <1>1. CASE Fits(es, id)
    BY <1>1 DEF Evicted
  <1>2. CASE ~Fits(es, id)
    <2> DEFINE last == CHOOSE e \in es : /\ Fits(After(es, e), id)
                                         /\ \A f \in es : e \in After(es, f) => ~Fits(After(es, f), id)
    <2>1. Goes(es, id, last)
      <3>1. \E e : Goes(es, id, e)
        BY <1>2, SomeGoes
      <3> QED BY <3>1 DEF Goes
    <2>2. Evicted(es, id) = After(es, last)
      BY <1>2 DEF Evicted
    <2> HIDE DEF last
    <2> QED BY <2>1, <2>2 DEF Goes
  <1> QED BY <1>1, <1>2

-----------------------------------------------------------------------------
(* The account and the order through the steps.                            *)

\* What holds of any part of the entries.
LEMMA PartOfEntries ==
  ASSUME IInv, JInv, NEW kept \in SUBSET entries
  PROVE  /\ Iterated(kept) /\ KeysIn(kept) \subseteq KeysIn(entries)
         /\ Account(kept) = BytesIn(kept) /\ BytesIn(kept) \in Nat /\ BytesIn(kept) <= MaximumBytes
         /\ Cardinality(kept) \in Nat /\ Cardinality(kept) <= MaximumEntries
         /\ Kept(kept) = KeysIn(kept)
         /\ Among(older, Kept(kept)) = Among(before, KeysIn(kept))
  <1>1. entries \in SUBSET EntryType /\ IsFiniteSet(entries) /\ kept \in SUBSET EntryType
    BY DEF IInv, TypeOK, EntryType, JInv
  <1>2. /\ BytesIn(entries) \in Nat /\ BytesIn(kept) \in Nat /\ BytesIn(entries \ kept) \in Nat
        /\ BytesIn(entries) = BytesIn(kept) + BytesIn(entries \ kept)
        /\ IsFiniteSet(kept) /\ Cardinality(kept) \in Nat /\ Cardinality(entries) \in Nat
        /\ Cardinality(kept) <= Cardinality(entries)
    BY <1>1, BytesSplit
  <1>3. /\ bytes = BytesIn(entries) /\ bytes <= MaximumBytes /\ Cardinality(entries) <= MaximumEntries
        /\ MaximumBytes \in Nat /\ MaximumEntries \in Nat
    BY Limits DEF JInv, WithinBudget
  <1>4. Account(kept) = BytesIn(kept) /\ BytesIn(kept) <= MaximumBytes
    BY <1>2, <1>3 DEF Account
  <1>5. Cardinality(kept) <= MaximumEntries
    BY <1>2, <1>3
  <1>6. KeysIn(kept) \subseteq KeysIn(entries)
    BY DEF KeysIn
  <1>7. Iterated(kept)
    <2>1. Orders(Among(before, KeysIn(kept)), KeysIn(kept))
      BY <1>6, OrderKept DEF JInv, Ordered
    <2>2. \A e, f \in kept : e.key = f.key => e = f
      BY DEF JInv, Ordered
    <2> QED BY <1>1, <1>2, <2>1, <2>2 DEF Iterated
  <1>8. Kept(kept) = KeysIn(kept)
    BY <1>1 DEF Kept, KeysIn, KeyFor, EntryType
  <1> QED BY <1>2, <1>4, <1>5, <1>6, <1>7, <1>8 DEF JInv, Ordered

\* The cache is empty at first.
LEMMA InitAccounts == Init => JInv
  <1> SUFFICES ASSUME Init PROVE JInv
    OBVIOUS
  <1>1. entries = {} /\ before = {} /\ older = {} /\ bytes = 0 /\ KeysIn(entries) = {}
    BY DEF Init, KeysIn
  <1>2. IsFiniteSet(entries) /\ Cardinality(entries) = 0
    BY <1>1, FS_EmptySet
  <1>3. BytesIn(entries) = 0
    <2>1. Weights([e \in entries |-> Size[e.key]], entries)
      BY <1>1, <1>2, BytesWeights
    <2> QED BY <1>1, <2>1, SumIsNat DEF BytesIn
  <1>4. WithinBudget
    BY <1>1, <1>2, <1>3, Limits DEF WithinBudget
  <1>5. Ordered
    BY <1>1 DEF Ordered, Orders
  <1> QED BY <1>2, <1>4, <1>5 DEF JInv

\* A part of the entries, in their order or with one of them last, is a Map
\* within its budget.
LEMMA PartAccounts ==
  ASSUME IInv, JInv, entries' \in SUBSET entries, bytes' = Account(entries'),
         older' = before', Orders(before', KeysIn(entries')), pending' \notin KeysIn(entries')
  PROVE  JInv'
  <1> DEFINE rest == entries'
  <1>1. rest \in SUBSET entries /\ bytes' = Account(rest)
    OBVIOUS
  <1> HIDE DEF rest
  <1>2. /\ Iterated(rest) /\ Account(rest) = BytesIn(rest) /\ BytesIn(rest) <= MaximumBytes
        /\ Cardinality(rest) <= MaximumEntries
    BY <1>1, PartOfEntries
  <1>3. IsFiniteSet(entries') /\ bytes' = BytesIn(entries') /\ bytes' <= MaximumBytes
        /\ Cardinality(entries') <= MaximumEntries
    BY <1>1, <1>2 DEF rest, Iterated
  <1>4. WithinBudget'
    BY <1>3 DEF WithinBudget, BytesIn
  <1>5. Ordered'
    BY <1>1, <1>2 DEF rest, Iterated, Ordered, KeysIn
  <1> QED BY <1>3, <1>4, <1>5 DEF JInv

\* prune leaves a part in its order.
LEMMA PrunesAccount ==
  ASSUME IInv, JInv, Prunes(<<>>), Unmoved, pending' \notin KeysIn(Pruned)
  PROVE  JInv'
  <1>1. Pruned \in SUBSET entries
    BY DEF Pruned
  <1>2. /\ Iterated(Pruned) /\ Among(older, Kept(Pruned)) = Among(before, KeysIn(Pruned))
    BY <1>1, PartOfEntries
  <1>3. /\ entries' = Pruned /\ bytes' = Account(Pruned)
        /\ before' = Among(before, KeysIn(Pruned)) /\ older' = before'
    BY <1>2 DEF Prunes, Unmoved
  <1> QED BY <1>1, <1>2, <1>3, PartAccounts DEF Iterated

\* A hit moves its entry to the end.
LEMMA HitAccounts ==
  ASSUME IInv, JInv, NEW id \in Identities, Hit(id)
  PROVE  JInv'
  <1>1. PICK e \in Pruned :
          /\ e.key = id /\ entries' = (Pruned \ {e}) \cup {e} /\ bytes' = Account(Pruned)
          /\ before' = MovedLast(before, e.key, KeysIn(Pruned)) /\ older' = MovedLast(older, id, Kept(Pruned))
    BY DEF Hit, KeyFor, HitEntry
  <1>2. Pruned \in SUBSET entries /\ entries' = Pruned
    BY <1>1 DEF Pruned
  <1>3. Kept(Pruned) = KeysIn(Pruned) /\ KeysIn(Pruned) \subseteq KeysIn(entries)
    BY <1>2, PartOfEntries
  <1>4. before' = MovedLast(before, id, KeysIn(Pruned)) /\ older' = before'
    BY <1>1, <1>3 DEF JInv, Ordered
  <1>5. Orders(before', KeysIn(entries'))
    <2>1. id \in KeysIn(Pruned)
      BY <1>1 DEF KeysIn
    <2> QED BY <1>2, <1>3, <1>4, <2>1, OrderWithLast DEF JInv, Ordered
  <1>6. pending' \notin KeysIn(entries')
    BY <1>2, <1>3 DEF Hit, JInv, Ordered
  <1> QED BY <1>1, <1>2, <1>4, <1>5, <1>6, PartAccounts

\* A put takes away what has to go, and adds one.
LEMMA PutAccounts ==
  ASSUME IInv, JInv, NormalizeAndPut, Size[pending] <= MaximumBytes
  PROVE  JInv'
  <1>1. PICK c \in Buffers : \E b \in Buffers : Put(pending, b, c)
    BY LimitsAssumption DEF NormalizeAndPut, KeyFor, Owned, Free, LimitsAssumption, IInv, TypeOK
  <1>2. pending \in Identities /\ pending' = NoIdentity /\ pending' \notin Identities
    BY Bounds DEF NormalizeAndPut, IInv, TypeOK
  <1> DEFINE others == {e \in Pruned : e.key # pending}
             kept   == Evicted(others, pending)
             new    == [key |-> pending, buf |-> c, expiresAt |-> clock + Ttl]
  <1>3. /\ entries' = kept \cup {new} /\ bytes' = Account(kept) + Size[pending]
        /\ before' = MovedLast(before, pending, KeysIn(entries'))
        /\ older' = MovedLast(older, pending, Kept(entries'))
    BY <1>1 DEF Put
  <1>4. others \in SUBSET entries /\ kept \in SUBSET entries /\ \A e \in kept : e.key # pending
    BY EvictedFrom DEF Pruned
  <1>5. new \in EntryType /\ new.key = pending
    <2>1. clock + Ttl \in 1..(MaxClock + Ttl)
      BY Bounds DEF IInv, TypeOK
    <2> QED BY <1>2, <2>1 DEF EntryType
  <1>6. Fits(kept, pending)
    <2>1. Iterated(others)
      BY <1>4, PartOfEntries
    <2> HIDE DEF others
    <2> QED BY <1>2, <2>1, EvictedUpTo
  <1> HIDE DEF others, kept, new
  <1>7. /\ Iterated(kept) /\ KeysIn(kept) \subseteq KeysIn(entries)
        /\ Account(kept) = BytesIn(kept) /\ BytesIn(kept) \in Nat /\ Cardinality(kept) \in Nat
    BY <1>4, PartOfEntries
  <1>8. /\ IsFiniteSet(entries') /\ Cardinality(entries') = Cardinality(kept) + 1
        /\ BytesIn(kept \cup {new}) = BytesIn(kept) + Size[pending]
    <2>1. new \notin kept
      BY <1>4, <1>5
    <2>2. kept \in SUBSET EntryType /\ IsFiniteSet(kept)
      BY <1>7 DEF Iterated
    <2> QED BY <1>3, <1>5, <2>1, <2>2, BytesOfOneMore
  <1>9. WithinBudget'
    <2>1. BytesIn(entries)' = BytesIn(kept \cup {new})
      BY <1>3 DEF BytesIn
    <2>2. bytes' = BytesIn(kept) + Size[pending]
      BY <1>3, <1>7
    <2> QED BY <1>6, <1>7, <1>8, <2>1, <2>2, Limits DEF WithinBudget, Fits
  <1>10. KeysIn(entries') = KeysIn(kept) \cup {pending} /\ pending \notin KeysIn(kept)
    BY <1>3, <1>4, <1>5 DEF KeysIn
  <1>11. Kept(entries') = KeysIn(entries')
    <2>1. KeysIn(entries') \subseteq Identities
      BY <1>2, <1>7, <1>10 DEF KeysIn, Iterated, EntryType
    <2> QED BY <2>1 DEF Kept, KeyFor
  <1>12. older' = before'
    BY <1>3, <1>11 DEF JInv, Ordered
  <1>13. Orders(before', KeysIn(entries'))
    <2>1. pending \in KeysIn(entries') /\ KeysIn(entries') \ {pending} \subseteq KeysIn(entries)
      BY <1>7, <1>10
    <2> QED BY <1>3, <2>1, OrderWithLast DEF JInv, Ordered
  <1>14. \A e, f \in entries' : e.key = f.key => e = f
    BY <1>3, <1>4, <1>5, <1>7 DEF Iterated
  <1>15. pending' \notin KeysIn(entries')
    BY <1>2, <1>7, <1>10 DEF KeysIn, Iterated, EntryType
  <1>16. Ordered'
    BY <1>12, <1>13, <1>14, <1>15 DEF Ordered, KeysIn
  <1> QED BY <1>8, <1>9, <1>16 DEF JInv

\* An emptied cache retains nothing.
LEMMA DisposeAccounts == ASSUME IInv, JInv, Dispose PROVE JInv'
  <1>1. entries' = {} /\ before' = {} /\ older' = {} /\ bytes' = Account({}) /\ KeysIn(entries') = {}
    BY DEF Dispose, KeysIn
  <1>2. Orders(before', KeysIn(entries'))
    BY <1>1 DEF Orders
  <1> QED BY <1>1, <1>2, PartAccounts

\* Every step keeps the account and the order.
LEMMA StepAccounts == IInv /\ JInv /\ [Next]_vars => JInv'
  <1> SUFFICES ASSUME IInv, JInv, [Next]_vars PROVE JInv'
    OBVIOUS
  <1>1. ASSUME UNCHANGED <<mapVars, older>>, pending' \in {pending, NoIdentity} PROVE JInv'
    <2>1. entries' = entries /\ before' = before /\ bytes' = bytes /\ older' = older
      BY <1>1 DEF mapVars
    <2>2. NoIdentity \notin KeysIn(entries)
      BY Bounds DEF KeysIn, IInv, TypeOK
    <2> QED BY <1>1, <2>1, <2>2 DEF JInv, WithinBudget, Ordered, KeysIn, BytesIn
  <1>2. Pruned \in SUBSET entries /\ KeysIn(Pruned) \subseteq KeysIn(entries)
    BY DEF Pruned, KeysIn
  <1>3. ASSUME NEW id \in Identities, Miss(id) PROVE JInv'
    BY <1>3, PrunesAccount DEF Miss, KeyFor
  <1>4. ASSUME NEW id \in Identities, Hit(id) PROVE JInv'
    BY <1>4, HitAccounts
  <1>5. ASSUME NEW h \in held, Scribble(h) \/ LetGo(h) PROVE JInv'
    BY <1>1, <1>5 DEF Scribble, LetGo, historyVars
  <1>6. CASE NormalizeAndPut
    <2>1. CASE Size[pending] > MaximumBytes
      BY <1>1, <1>6, <2>1 DEF NormalizeAndPut, historyVars
    <2>2. CASE Size[pending] <= MaximumBytes
      BY <1>6, <2>2, PutAccounts
    <2>3. Size[pending] \in Nat /\ MaximumBytes \in Nat
      BY <1>6, Limits DEF NormalizeAndPut, IInv, TypeOK
    <2> QED BY <2>1, <2>2, <2>3
  <1>7. CASE NormalizeFails
    BY <1>1, <1>7 DEF NormalizeFails, historyVars
  <1>8. CASE Prune
    <2>1. pending' \notin KeysIn(Pruned)
      BY <1>2, <1>8 DEF Prune, JInv, Ordered
    <2> QED BY <1>8, <2>1, PrunesAccount DEF Prune
  <1>9. CASE Dispose
    BY <1>9, DisposeAccounts
  <1>10. CASE Tick
    BY <1>1, <1>10 DEF Tick, historyVars
  <1>11. CASE UNCHANGED vars
    BY <1>1, <1>11 DEF vars, historyVars
  <1> QED BY <1>3, <1>4, <1>5, <1>6, <1>7, <1>8, <1>9, <1>10, <1>11 DEF Next

\* The account and the order hold throughout.
THEOREM AccountInvariance == Spec => []JInv
  BY InitAccounts, StepAccounts, Invariance, PTL DEF Spec

\* bytes is what the entries add up to, and neither limit is ever exceeded
\* (the counters of put, remove and prune, and the eviction loop of put).
THEOREM BudgetKept == Spec => []WithinBudget
  <1>1. JInv => WithinBudget
    BY DEF JInv
  <1> QED BY <1>1, AccountInvariance, PTL

-----------------------------------------------------------------------------
(* What goes, and why.                                                     *)

\* An entry and what comes after it are what comes after the one before it.
LEMMA OneBefore ==
  ASSUME NEW es, Iterated(es), NEW e \in es, {e} \cup After(es, e) # es
  PROVE  \E g \in es : e \in After(es, g) /\ After(es, g) = {e} \cup After(es, e)
  <1> DEFINE n(g) == Cardinality(After(es, g))
             earlier == {g \in es : e \in After(es, g)}
             T == {n(g) : g \in earlier}
  <1>1. \A g \in es : n(g) \in Nat
    BY AfterShrinks
  <1>2. earlier # {}
    <2>1. PICK x \in es : x # e /\ x \notin After(es, e)
      BY AfterShrinks
    <2> QED BY <2>1, AfterShrinks
  <1>3. T \in SUBSET Nat /\ T # {}
    BY <1>1, <1>2
  <1>4. \E x \in T : \A y \in T : x <= y
    <2> HIDE DEF T
    <2> QED BY <1>3, LeastNat
  <1>5. PICK g \in earlier : \A h \in earlier : n(g) <= n(h)
    BY <1>4
  <1>6. g \in es /\ e \in After(es, g)
    OBVIOUS
  <1>7. ASSUME NEW x \in After(es, g), x # e, x \notin After(es, e) PROVE FALSE
    <2>1. x \in es /\ e \in After(es, x)
      BY <1>6, <1>7, AfterShrinks
    <2>2. n(x) < n(g)
      BY <1>6, <2>1, AfterShrinks
    <2>3. n(g) <= n(x) /\ n(g) \in Nat /\ n(x) \in Nat
      BY <1>1, <1>5, <1>6, <2>1
    <2> HIDE DEF n
    <2> QED BY <2>2, <2>3
  <1>8. After(es, e) \subseteq After(es, g)
    BY <1>6, AfterShrinks
  <1> QED BY <1>6, <1>7, <1>8

\* What the loop evicts does not fit beside the value and what comes after.
LEMMA EvictedDoesNotFit ==
  ASSUME NEW es, Iterated(es), NEW id \in Identities, Size[id] <= MaximumBytes,
         NEW e \in es, e \notin Evicted(es, id)
  PROVE  /\ \E last \in es : e \notin After(es, last) /\ Evicted(es, id) = After(es, last)
         /\ ~Fits({e} \cup After(es, e), id)
  <1>1. ~Fits(es, id)
    BY DEF Evicted
  <1>2. PICK last : Goes(es, id, last) /\ Evicted(es, id) = After(es, last)
    BY <1>1, EvictedUpTo
  <1>3. last \in es /\ e \notin After(es, last)
    BY <1>2 DEF Goes
  <1>4. ASSUME {e} \cup After(es, e) # es PROVE ~Fits({e} \cup After(es, e), id)
    <2>1. PICK g \in es : e \in After(es, g) /\ After(es, g) = {e} \cup After(es, e)
      BY <1>4, OneBefore
    <2>2. last \in After(es, g)
      <3>1. last = e \/ last \in After(es, e)
        BY <1>3, AfterShrinks
      <3> QED BY <2>1, <3>1
    <2> QED BY <1>2, <2>1, <2>2 DEF Goes
  <1> QED BY <1>1, <1>2, <1>3, <1>4

\* The clauses of EvictsLeastRecent.
InOrder(id) == \A other \in Identities : <<other, id>> \in older => other \notin Kept(entries')

Crowded(es) == Cardinality(es) > MaximumEntries \/ BytesIn(es) > MaximumBytes

\* A put keeps both.
LEMMA PutEvicts ==
  ASSUME IInv, JInv, NormalizeAndPut, Size[pending] <= MaximumBytes, NEW id \in GoneEarly
  PROVE  InOrder(id) /\ Crowded(From(id) \cup (entries' \ Pruned))
  <1>1. PICK c \in Buffers : \E b \in Buffers : Put(pending, b, c)
    BY LimitsAssumption DEF NormalizeAndPut, KeyFor, Owned, Free, LimitsAssumption, IInv, TypeOK
  <1>2. pending \in Identities
    BY DEF NormalizeAndPut, IInv, TypeOK
  <1> DEFINE kept == Evicted(Pruned, pending)
             new  == [key |-> pending, buf |-> c, expiresAt |-> clock + Ttl]
  <1>3. Pruned \in SUBSET entries /\ \A e \in entries : e.key # pending
    BY DEF Pruned, JInv, Ordered, KeysIn
  <1>4. /\ entries' = kept \cup {new} /\ new.key = pending /\ kept \in SUBSET Pruned
    <2>1. {e \in Pruned : e.key # pending} = Pruned
      BY <1>3
    <2>2. entries' = Evicted({e \in Pruned : e.key # pending}, pending) \cup {new}
      BY <1>1 DEF Put
    <2> QED BY <2>1, <2>2, EvictedFrom
  <1>5. new \in EntryType
    <2>1. clock + Ttl \in 1..(MaxClock + Ttl)
      BY Bounds DEF IInv, TypeOK
    <2> QED BY <1>2, <2>1 DEF EntryType
  <1> HIDE DEF kept, new
  <1>6. entries' \ Pruned = {new}
    BY <1>3, <1>4
  <1>7. Iterated(Pruned)
    BY <1>3, PartOfEntries
  <1>8. PICK e \in Pruned : e.key = id /\ e \notin kept
    BY <1>4 DEF GoneEarly, Kept, KeyFor, KeysIn
  <1>9. /\ ~Fits({e} \cup After(Pruned, e), pending)
        /\ \E last \in Pruned : e \notin After(Pruned, last) /\ kept = After(Pruned, last)
    BY <1>2, <1>7, <1>8, EvictedDoesNotFit DEF kept
  <1>10. /\ older = before /\ before \subseteq KeysIn(entries) \X KeysIn(entries)
         /\ KeysIn(entries) \subseteq Identities
         /\ \A f, g \in entries : f.key = g.key => f = g
    BY DEF JInv, Ordered, Orders, KeysIn, IInv, TypeOK
  <1>11. InOrder(id)
    <2> SUFFICES ASSUME NEW other \in Identities, <<other, id>> \in before, other \in Kept(entries')
                 PROVE FALSE
      BY <1>10 DEF InOrder
    <2>1. PICK last \in Pruned : e \notin After(Pruned, last) /\ kept = After(Pruned, last)
      BY <1>9
    <2>2. PICK f \in entries' : f.key = other
      BY DEF Kept, KeyFor, KeysIn
    <2>3. other # pending
      BY <1>10 DEF JInv, Ordered
    <2>4. f \in kept
      BY <1>4, <2>2, <2>3
    <2>5. f \in After(Pruned, last) /\ f \in Pruned /\ e \in After(Pruned, f)
      BY <1>4, <1>8, <2>1, <2>2, <2>4 DEF After
    <2>6. After(Pruned, f) \subseteq After(Pruned, last)
      BY <1>7, <2>5, AfterShrinks
    <2> QED BY <2>1, <2>5, <2>6
  <1>12. From(id) = {e} \cup After(Pruned, e)
    <2>1. \A f \in Pruned : f.key = id <=> f = e
      BY <1>3, <1>8, <1>10
    <2>2. \A f \in Pruned : f.key \in Identities
      BY <1>3, <1>10 DEF KeysIn
    <2> QED BY <1>8, <1>10, <2>1, <2>2 DEF From, KeyFor, After
  <1>13. From(id) \in SUBSET Pruned /\ From(id) \in SUBSET EntryType /\ IsFiniteSet(From(id))
    <2>1. From(id) \in SUBSET Pruned
      BY DEF From
    <2> QED BY <1>7, <2>1, FS_Subset DEF Iterated
  <1>14. /\ Cardinality(From(id) \cup {new}) = Cardinality(From(id)) + 1
         /\ BytesIn(From(id) \cup {new}) = BytesIn(From(id)) + Size[pending]
    <2>1. new \notin From(id)
      BY <1>3, <1>4, <1>13
    <2> QED BY <1>4, <1>5, <1>13, <2>1, BytesOfOneMore
  <1>15. BytesIn(From(id)) \in Nat /\ Cardinality(From(id)) \in Nat
    BY <1>13, BytesSplit
  <1>16. ~Fits(From(id), pending)
    BY <1>9, <1>12
  <1>17. Crowded(From(id) \cup {new})
    <2>1. Size[pending] \in Nat /\ MaximumBytes \in Nat /\ MaximumEntries \in Nat
      BY <1>2, Limits
    <2> QED BY <1>14, <1>15, <1>16, <2>1 DEF Crowded, Fits
  <1> QED BY <1>6, <1>11, <1>17

\* A source goes before its time only after those used less recently, and
\* only if it cannot be kept with the new one and those used more recently
\* (the eviction loop of put over the Map's own order, which get renews).
THEOREM LeastRecentGoFirst == Spec => EvictsLeastRecent
  <1> DEFINE Rightly == ~closed' => \A id \in GoneEarly :
                          /\ InOrder(id)
                          /\ Crowded(From(id) \cup (entries' \ Pruned))
  <1>1. IInv /\ JInv /\ [Next]_vars => [Rightly]_vars
    <2> SUFFICES ASSUME IInv, JInv, Next PROVE Rightly
      OBVIOUS
    <2>1. ASSUME Pruned \subseteq entries' PROVE Rightly
      BY <2>1 DEF GoneEarly, Kept, KeysIn
    <2>2. Pruned \subseteq entries
      BY DEF Pruned
    <2>3. ASSUME NEW id \in Identities, Hit(id) PROVE Rightly
      BY <2>1, <2>3 DEF Hit, HitEntry
    <2>4. CASE NormalizeAndPut
      <3>1. CASE Size[pending] > MaximumBytes
        BY <2>1, <2>2, <2>4, <3>1 DEF NormalizeAndPut, mapVars
      <3>2. CASE Size[pending] <= MaximumBytes
        BY <2>4, <3>2, PutEvicts
      <3>3. Size[pending] \in Nat /\ MaximumBytes \in Nat
        BY <2>4, Limits DEF NormalizeAndPut, IInv, TypeOK
      <3> QED BY <3>1, <3>2, <3>3
    <2>5. CASE Dispose
      BY <2>5 DEF Dispose
    <2>6. ASSUME entries' \in {entries, Pruned} PROVE Rightly
      BY <2>1, <2>2, <2>6
    <2> QED BY <2>3, <2>4, <2>5, <2>6
            DEF Next, Miss, Prune, Prunes, Scribble, LetGo, NormalizeFails, Tick, mapVars
  <1>2. EvictsLeastRecent <=> [][Rightly]_vars
    BY PTL DEF EvictsLeastRecent, InOrder, Crowded
  <1> QED BY <1>1, <1>2, Invariance, AccountInvariance, PTL DEF Spec
=============================================================================
