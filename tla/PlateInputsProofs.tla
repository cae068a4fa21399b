------------------------- MODULE PlateInputsProofs -------------------------
(***************************************************************************)
(* Proofs about PlateInputs, for all models, paints, plates and limits:    *)
(* whatever the cache kept or forgot, the engine is given what was asked.  *)
(***************************************************************************)
EXTENDS PlateInputs, DataInduction

\* The bytes an identity stands for.
Asked(key) == [file |-> key.file, paint |-> key.paint, faithful |-> TRUE]

Source(f) == [file |-> f, paint |-> NoPaint]

\* The bytes in hand are those of their names.
HeldInv ==
    /\ sources \in [DOMAIN sources -> Bytes] /\ DOMAIN sources \subseteq Files
    /\ \A f \in DOMAIN sources : sources[f] = Asked(Source(f))
    /\ painted \in [DOMAIN painted -> Bytes] /\ DOMAIN painted \subseteq Key
    /\ \A k \in DOMAIN painted : painted[k] = Asked(k)
    /\ retained \subseteq [key : Key, bytes : Bytes]
    /\ \A e \in retained : e.bytes = Asked(e.key)

Calling == pc \in {"lookup", "converting"}

\* The first loop has the source of every model behind its index.
ModelsInv ==
    (pc = "models" \/ (Calling /\ want.paint = NoPaint)) =>
        /\ result = <<>> /\ index <= Len(Models) + 1
        /\ \A i \in 1..Len(Models) : i < index => Models[i] \in DOMAIN sources
        /\ Calling => index <= Len(Models) /\ want.file = Models[index]

\* The second has them all, and an input for every object behind its index.
ObjectsInv ==
    (pc \in {"objects", "done"} \/ (Calling /\ want.paint # NoPaint)) =>
        /\ Files \subseteq DOMAIN sources
        /\ index = Len(result) + 1 /\ index <= Len(objects) + 1
        /\ \A k \in 1..Len(result) : result[k] = Asked(objects[k])
        /\ pc = "done" => index > Len(objects)

RangesInv ==
    /\ run \in 1..MaxRuns /\ combined \in BOOLEAN /\ aborted \in BOOLEAN
    /\ objects \in Seq(Key) /\ objects \in Plates
    /\ pc \in {"models", "objects", "lookup", "converting", "done", "failed"}
    /\ index \in 1..(Len(Models) + Len(objects) + 1)
    /\ want \in Key
    /\ total \in 0..MaximumTotalNormalizedBytes
    /\ plateTotal \in 0..MaximumPlateInputBytes
    /\ result \in Seq(Bytes) /\ Len(result) <= Len(objects)

IInv == RangesInv /\ HeldInv /\ ModelsInv /\ ObjectsInv

-----------------------------------------------------------------------------
\* The list of models is never empty and its members are the files.
LEMMA ModelsType ==
    /\ Len(Models) \in Nat \ {0}
    /\ Files = {Models[i] : i \in 1..Len(Models)}
    /\ \A i \in 1..Len(Models) : Models[i] \in Files
  BY ModelsAssumption DEF Files, Range

\* A plate is a sequence of identities.
LEMMA PlatesAreSequences == Plates \subseteq Seq(Key)
  BY DEF Plates

\* An identity's bytes are bytes.
LEMMA AskedType == \A key \in Key : Asked(key) \in Bytes
  BY DEF Asked, Key, Bytes

\* The start of a run satisfies the invariant whatever faithful bytes the
\* cache holds.
LEMMA InitInv == Init => IInv
<1> SUFFICES ASSUME Init PROVE IInv
  OBVIOUS
<1>1. FirstKey \in Key
  BY ModelsType DEF FirstKey, Key
<1>2. objects \in Seq(Key)
  BY PlatesAreSequences DEF Init
<1>3. RangesInv
  <2>1. Len(objects) \in Nat /\ result \in Seq(Bytes) /\ Len(result) = 0
    BY <1>2 DEF Init
  <2>2. /\ run \in 1..MaxRuns /\ total \in 0..MaximumTotalNormalizedBytes
        /\ plateTotal \in 0..MaximumPlateInputBytes
    BY LimitsAssumption DEF Init
  <2>3. index \in 1..(Len(Models) + Len(objects) + 1)
    BY <2>1, ModelsType DEF Init
  <2>4. Len(result) <= Len(objects)
    BY <2>1
  <2>5. /\ combined \in BOOLEAN /\ aborted \in BOOLEAN /\ want \in Key
        /\ objects \in Plates /\ pc = "models"
    BY <1>1 DEF Init
  <2> QED
    BY <1>2, <2>1, <2>2, <2>3, <2>4, <2>5 DEF RangesInv
<1>4. HeldInv
  <2>1. \A f \in DOMAIN <<>> : FALSE
    OBVIOUS
  <2>2. <<>> \in [DOMAIN <<>> -> Bytes]
    BY <2>1
  <2> QED
    BY <2>1, <2>2 DEF Init, HeldInv
<1>5. ModelsInv
  BY ModelsType DEF Init, ModelsInv, Calling
<1>6. ObjectsInv
  BY DEF Init, ObjectsInv, Calling
<1> QED
  BY <1>3, <1>4, <1>5, <1>6 DEF IInv

\* A run that fails keeps what it holds and owes nothing more.
LEMMA FailKeepsInv ==
    ASSUME IInv, Fail, HeldInv'
    PROVE  IInv'
<1>1. RangesInv'
  BY DEF IInv, RangesInv, Fail, jobVars, loopVars, bytesVars
<1>2. ModelsInv' /\ ObjectsInv'
  BY DEF Fail, ModelsInv, ObjectsInv, Calling
<1> QED
  BY <1>1, <1>2 DEF IInv

\* The bytes that were asked for are taken into the loop that asked.
LEMMA ReturnKeepsInv ==
    ASSUME IInv, Calling, Return(Asked(want)),
           retained' \subseteq [key : Key, bytes : Bytes],
           \A e \in retained' : e.bytes = Asked(e.key)
    PROVE  IInv'
<1> DEFINE b == Asked(want)
<1>0. want \in Key /\ want.file \in Files /\ b \in Bytes /\ b.file = want.file
  BY AskedType DEF IInv, RangesInv, Key, Asked
<1>1. total' \in 0..MaximumTotalNormalizedBytes
  BY <1>0, LimitsAssumption DEF Return, FitsTotal, Counted, IInv, RangesInv
<1>2. CASE want.paint = NoPaint
  <2>1. /\ sources' = Set(sources, want.file, b) /\ UNCHANGED painted
        /\ index' = index + 1 /\ pc' = "models"
        /\ UNCHANGED <<jobVars, want, result, plateTotal, aborted>>
    BY <1>2, <1>0 DEF Return
  <2>2. index \in 1..Len(Models) /\ want.file = Models[index] /\ result = <<>>
    BY <1>2, ModelsType DEF IInv, ModelsInv, RangesInv
  <2>3. b = Asked(Source(want.file))
    BY <1>2 DEF Asked, Source
  <2>4. /\ DOMAIN sources' = DOMAIN sources \cup {want.file}
        /\ sources'[want.file] = b
        /\ \A f \in DOMAIN sources : f # want.file => sources'[f] = sources[f]
    BY <2>1 DEF Set
  <2>5. HeldInv'
    <3>1. sources' = [x \in DOMAIN sources' |-> sources'[x]]
      BY <2>1 DEF Set
    <3>2. \A f \in DOMAIN sources' : sources'[f] = Asked(Source(f)) /\ sources'[f] \in Bytes
      BY <2>3, <2>4, <1>0 DEF IInv, HeldInv
    <3> QED
      BY <3>1, <3>2, <2>1, <2>4, <1>0 DEF IInv, HeldInv
  <2>6. RangesInv'
    BY <1>1, <2>1, <2>2, ModelsType DEF IInv, RangesInv, jobVars
  <2>7. ModelsInv'
    <3>1. \A i \in 1..Len(Models) : i < index => Models[i] \in DOMAIN sources
      BY <1>2 DEF IInv, ModelsInv
    <3>2. \A i \in 1..Len(Models) : i < index + 1 => Models[i] \in DOMAIN sources'
      BY <3>1, <2>2, <2>4, ModelsType, SMTT(30)
    <3> QED
      BY <3>2, <2>1, <2>2, ModelsType DEF ModelsInv, Calling
  <2>8. ObjectsInv'
    BY <2>1, <1>2 DEF ObjectsInv, Calling
  <2> QED
    BY <2>5, <2>6, <2>7, <2>8 DEF IInv
<1>3. CASE want.paint # NoPaint
  <2>1. /\ painted' = Set(painted, want, b)
        /\ pc' = "objects" /\ UNCHANGED <<sources, index>>
        /\ UNCHANGED <<jobVars, want, result, plateTotal, aborted>>
    BY <1>3 DEF Return, PaintedKey
  <2>2. /\ DOMAIN painted' = DOMAIN painted \cup {want}
        /\ painted'[want] = b
        /\ \A k \in DOMAIN painted : k # want => painted'[k] = painted[k]
    BY <2>1 DEF Set
  <2>3. HeldInv'
    <3>1. painted' = [x \in DOMAIN painted' |-> painted'[x]]
      BY <2>1 DEF Set
    <3>2. \A k \in DOMAIN painted' : painted'[k] = Asked(k) /\ painted'[k] \in Bytes
      BY <2>2, <1>0 DEF IInv, HeldInv
    <3> QED
      BY <3>1, <3>2, <2>1, <2>2, <1>0 DEF IInv, HeldInv
  <2>4. RangesInv'
    BY <1>1, <2>1 DEF IInv, RangesInv, jobVars
  <2>5. ModelsInv'
    BY <2>1 DEF ModelsInv, Calling
  <2>6. ObjectsInv'
    BY <2>1, <1>3 DEF IInv, ObjectsInv, Calling, jobVars
  <2> QED
    BY <2>3, <2>4, <2>5, <2>6 DEF IInv
<1> QED
  BY <1>2, <1>3

\* What comes out of the cache or of a conversion and is acceptable is what
\* the identity stands for.
LEMMA AcceptedIsAsked ==
    ASSUME IInv, NEW faithful \in {TRUE, want.paint = NoPaint},
           Acceptable([file |-> want.file, paint |-> want.paint, faithful |-> faithful])
    PROVE  [file |-> want.file, paint |-> want.paint, faithful |-> faithful] = Asked(want)
<1>1. CASE want.paint = NoPaint
  BY <1>1 DEF Asked
<1>2. CASE want.paint # NoPaint
  BY <1>2 DEF Asked, Acceptable
<1> QED
  BY <1>1, <1>2

\* A failure leaves the bytes in hand; the cache may take what is faithful.
LEMMA FailKeepsHeld ==
    ASSUME IInv, Fail,
           retained' \subseteq [key : Key, bytes : Bytes],
           \A e \in retained' : e.bytes = Asked(e.key)
    PROVE  IInv'
<1>1. HeldInv'
  BY DEF IInv, HeldInv, Fail, bytesVars
<1> QED
  BY <1>1, FailKeepsInv

\* A step that touches neither the cache nor the bytes in hand keeps them.
LEMMA HeldUnchanged ==
    ASSUME IInv, UNCHANGED <<bytesVars, retained>>
    PROVE  HeldInv'
  BY DEF IInv, HeldInv, bytesVars

\* A hit of the cache is what the key stands for.
LEMMA ReuseStep == ASSUME IInv, Reuse PROVE IInv'
<1>1. PICK e \in retained :
        /\ e.key = want
        /\ IF Acceptable(e.bytes) THEN ReturnOrFail(e.bytes) ELSE Fail
  BY DEF Reuse
<1>2. /\ e.bytes = Asked(want) /\ UNCHANGED retained /\ Calling
      /\ retained \subseteq [key : Key, bytes : Bytes]
      /\ \A x \in retained : x.bytes = Asked(x.key)
  BY <1>1 DEF Reuse, IInv, HeldInv, Calling
<1>3. CASE Return(e.bytes)
  BY <1>2, <1>3, ReturnKeepsInv
<1>4. CASE Fail
  BY <1>2, <1>4, FailKeepsHeld
<1> QED
  BY <1>1, <1>3, <1>4 DEF ReturnOrFail

\* A conversion that is kept was checked first.
LEMMA ConvertedStep == ASSUME IInv, Converted PROVE IInv'
<1>1. PICK faithful \in {TRUE, want.paint = NoPaint} :
        LET b == [file |-> want.file, paint |-> want.paint, faithful |-> faithful]
        IN IF Acceptable(b)
           THEN /\ retained' \in {retained, retained \cup {[key |-> want, bytes |-> b]}}
                /\ ReturnOrFail(b)
           ELSE Fail /\ UNCHANGED retained
  BY DEF Converted
<1> DEFINE b == [file |-> want.file, paint |-> want.paint, faithful |-> faithful]
<1>2. /\ Calling /\ want \in Key
      /\ retained \subseteq [key : Key, bytes : Bytes]
      /\ \A x \in retained : x.bytes = Asked(x.key)
  BY DEF Converted, IInv, HeldInv, RangesInv, Calling
<1>3. CASE Acceptable(b)
  <2>1. b = Asked(want) /\ b \in Bytes
    BY <1>2, <1>3, AcceptedIsAsked, AskedType
  <2>2. /\ retained' \in {retained, retained \cup {[key |-> want, bytes |-> b]}}
        /\ ReturnOrFail(b)
    BY <1>1, <1>3
  <2>3. /\ retained' \subseteq [key : Key, bytes : Bytes]
        /\ \A x \in retained' : x.bytes = Asked(x.key)
    BY <1>2, <2>1, <2>2
  <2>4. CASE Return(b)
    BY <1>2, <2>1, <2>3, <2>4, ReturnKeepsInv
  <2>5. CASE Fail
    BY <2>3, <2>5, FailKeepsHeld
  <2> QED
    BY <2>2, <2>4, <2>5 DEF ReturnOrFail
<1>4. CASE ~Acceptable(b)
  BY <1>1, <1>2, <1>4, FailKeepsHeld
<1> QED
  BY <1>3, <1>4

\* The second loop gives each object its own input.
LEMMA AddObjectStep == ASSUME IInv, AddObject PROVE IInv'
<1> DEFINE o == objects[index]
<1>1. /\ pc = "objects" /\ index \in 1..Len(objects) /\ o \in Key /\ Len(objects) \in Nat
      /\ index = Len(result) + 1 /\ result \in Seq(Bytes)
  BY DEF AddObject, IInv, RangesInv, ObjectsInv
<1>2. SourceOf(o) = Asked(o)
  <2>1. CASE o.paint = NoPaint
    <3>1. o.file \in DOMAIN sources /\ Asked(Source(o.file)) = Asked(o)
      BY <1>1, <2>1 DEF IInv, ObjectsInv, Key, Asked, Source
    <3> QED
      BY <2>1, <3>1 DEF IInv, HeldInv, SourceOf
  <2>2. CASE o.paint # NoPaint
    BY <2>2 DEF AddObject, Unpainted, PaintedKey, IInv, HeldInv, SourceOf
  <2> QED
    BY <2>1, <2>2
<1>3. /\ result' = Append(result, Asked(o)) /\ index' = index + 1
      /\ UNCHANGED <<jobVars, pc, want, bytesVars, aborted, retained>>
  BY <1>2 DEF AddObject
<1>4. /\ result' \in Seq(Bytes) /\ Len(result') = Len(result) + 1
      /\ result'[Len(result) + 1] = Asked(o)
      /\ \A k \in 1..Len(result) : result'[k] = result[k]
  BY <1>1, <1>3, AskedType
<1>5. plateTotal' \in 0..MaximumPlateInputBytes
  <2>1. \A size \in 1..MaxInput : plateTotal + size \in Nat
    BY LimitsAssumption DEF IInv, RangesInv
  <2>2. plateTotal' \in Nat
    BY <2>1, LimitsAssumption DEF AddObject, IInv, RangesInv
  <2> QED
    BY <2>2, LimitsAssumption DEF AddObject
<1>6. RangesInv'
  <2>1. /\ index' \in 1..(Len(Models) + Len(objects) + 1)
        /\ Len(result') <= Len(objects)
    BY <1>1, <1>3, <1>4, ModelsType
  <2> QED
    BY <1>3, <1>4, <1>5, <2>1 DEF IInv, RangesInv, jobVars, bytesVars
<1>7. HeldInv'
  BY <1>3, HeldUnchanged
<1>8. ModelsInv'
  BY <1>1, <1>3 DEF ModelsInv, Calling
<1>9. ObjectsInv'
  <2>1. \A k \in 1..Len(result') : result'[k] = Asked(objects[k])
    BY <1>1, <1>4 DEF IInv, ObjectsInv
  <2> QED
    BY <1>1, <1>3, <1>4, <2>1 DEF IInv, ObjectsInv, jobVars, bytesVars
<1> QED
  BY <1>6, <1>7, <1>8, <1>9 DEF IInv

\* The bookkeeping of both loops.
LEMMA LoopStep ==
    ASSUME IInv, NextModel \/ ModelsDone \/ Paint \/ ObjectsDone
    PROVE  IInv'
<1>1. HeldInv'
  BY HeldUnchanged DEF NextModel, ModelsDone, Paint, ObjectsDone, bytesVars
<1>2. CASE NextModel
  <2>1. /\ pc = "models" /\ index \in 1..Len(Models) /\ pc' = "lookup"
        /\ want' = Source(Models[index])
        /\ UNCHANGED <<jobVars, loopVars, bytesVars, aborted, retained>>
    BY <1>2, ModelsType DEF NextModel, Call, Source, IInv, RangesInv
  <2>2. want' \in Key
    BY <2>1, ModelsType DEF Key, Source
  <2>3. RangesInv'
    BY <2>1, <2>2 DEF IInv, RangesInv, jobVars, loopVars, bytesVars
  <2>4. want'.paint = NoPaint /\ want'.file = Models[index]
    BY <2>1 DEF Source
  <2>5. ModelsInv'
    BY <2>1, <2>4 DEF IInv, ModelsInv, loopVars, bytesVars
  <2>6. ObjectsInv'
    BY <2>1, <2>4 DEF ObjectsInv
  <2> QED
    BY <1>1, <2>3, <2>5, <2>6 DEF IInv
<1>3. CASE ModelsDone
  <2>1. /\ pc = "models" /\ index > Len(Models) /\ pc' = "objects" /\ index' = 1
        /\ UNCHANGED <<jobVars, want, bytesVars, result, plateTotal, aborted, retained>>
    BY <1>3 DEF ModelsDone
  <2>2. result = <<>> /\ Len(objects) \in Nat
    BY <2>1 DEF IInv, ModelsInv, RangesInv
  <2>3. \A i \in 1..Len(Models) : i < index => Models[i] \in DOMAIN sources
    BY <2>1 DEF IInv, ModelsInv
  <2>4. Files \subseteq DOMAIN sources
    BY <2>1, <2>3, ModelsType DEF IInv, RangesInv
  <2>5. RangesInv'
    BY <2>1, <2>2, ModelsType DEF IInv, RangesInv, jobVars, bytesVars
  <2>6. ModelsInv'
    BY <2>1 DEF ModelsInv, Calling
  <2>7. ObjectsInv'
    BY <2>1, <2>2, <2>4 DEF ObjectsInv, jobVars, bytesVars
  <2> QED
    BY <1>1, <2>5, <2>6, <2>7 DEF IInv
<1>4. CASE Paint
  <2>1. /\ pc = "objects" /\ index \in 1..Len(objects) /\ objects[index].paint # NoPaint
        /\ pc' = "lookup" /\ want' = objects[index]
        /\ UNCHANGED <<jobVars, loopVars, bytesVars, aborted, retained>>
    BY <1>4 DEF Paint, Unpainted, Call, IInv, RangesInv
  <2>2. want' \in Key
    BY <2>1 DEF IInv, RangesInv
  <2>3. RangesInv'
    BY <2>1, <2>2 DEF IInv, RangesInv, jobVars, loopVars, bytesVars
  <2>4. ModelsInv' /\ ObjectsInv'
    BY <2>1 DEF IInv, ModelsInv, ObjectsInv, jobVars, loopVars, bytesVars
  <2> QED
    BY <1>1, <2>3, <2>4 DEF IInv
<1>5. CASE ObjectsDone
  <2>1. /\ pc = "objects" /\ index > Len(objects) /\ pc' = "done"
        /\ UNCHANGED <<jobVars, loopVars, want, bytesVars, aborted, retained>>
    BY <1>5 DEF ObjectsDone
  <2>2. RangesInv'
    BY <2>1 DEF IInv, RangesInv, jobVars, loopVars, bytesVars
  <2>3. ModelsInv' /\ ObjectsInv'
    BY <2>1 DEF IInv, ModelsInv, ObjectsInv, Calling, jobVars, loopVars, bytesVars
  <2> QED
    BY <1>1, <2>2, <2>3 DEF IInv
<1> QED
  BY <1>2, <1>3, <1>4, <1>5

\* The next run starts from the cache alone.
LEMMA NextRunStep == ASSUME IInv, NextRun PROVE IInv'
<1>1. /\ run' = run + 1 /\ run < MaxRuns /\ objects' \in Plates /\ combined' \in BOOLEAN
      /\ pc' = "models" /\ index' = 1 /\ want' = FirstKey
      /\ sources' = <<>> /\ painted' = <<>> /\ total' = 0 /\ plateTotal' = 0
      /\ result' = <<>> /\ aborted' = FALSE
      /\ UNCHANGED retained
  BY DEF NextRun
<1>2. want' \in Key
  BY <1>1, ModelsType DEF FirstKey, Key
<1>3. objects' \in Seq(Key) /\ Len(objects') \in Nat
  BY <1>1, PlatesAreSequences
<1>4. RangesInv'
  <2>1. /\ run' \in 1..MaxRuns /\ total' \in 0..MaximumTotalNormalizedBytes
        /\ plateTotal' \in 0..MaximumPlateInputBytes
    BY <1>1, LimitsAssumption DEF IInv, RangesInv
  <2>2. index' \in 1..(Len(Models) + Len(objects') + 1)
    BY <1>1, <1>3, ModelsType
  <2>3. result' \in Seq(Bytes) /\ Len(result') <= Len(objects')
    BY <1>1, <1>3
  <2> QED
    BY <1>1, <1>2, <1>3, <2>1, <2>2, <2>3 DEF RangesInv
<1>5. HeldInv'
  <2>1. \A f \in DOMAIN <<>> : FALSE
    OBVIOUS
  <2>2. <<>> \in [DOMAIN <<>> -> Bytes]
    BY <2>1
  <2> QED
    BY <1>1, <2>1, <2>2 DEF IInv, HeldInv
<1>6. ModelsInv'
  BY <1>1, ModelsType DEF ModelsInv, Calling
<1>7. ObjectsInv'
  BY <1>1 DEF ObjectsInv, Calling
<1> QED
  BY <1>4, <1>5, <1>6, <1>7 DEF IInv

\* Waiting, refusing, aborting and forgetting change no bytes.
LEMMA OtherStep ==
    ASSUME IInv, Convert \/ Refused \/ Abort \/ CacheForgets \/ UNCHANGED vars
    PROVE  IInv'
<1>1. CASE Fail /\ UNCHANGED retained
  BY <1>1, FailKeepsHeld DEF IInv, HeldInv
<1>2. CASE Convert /\ ~aborted
  <2>1. /\ pc = "lookup" /\ pc' = "converting"
        /\ UNCHANGED <<jobVars, loopVars, want, bytesVars, aborted, retained>>
    BY <1>2 DEF Convert
  <2>2. RangesInv' /\ HeldInv'
    BY <2>1, HeldUnchanged DEF IInv, RangesInv, jobVars, loopVars, bytesVars
  <2>3. ModelsInv' /\ ObjectsInv'
    BY <2>1 DEF IInv, ModelsInv, ObjectsInv, Calling, jobVars, loopVars, bytesVars
  <2> QED
    BY <2>2, <2>3 DEF IInv
<1>3. CASE Abort \/ CacheForgets \/ UNCHANGED vars
  <2>1. /\ UNCHANGED <<jobVars, pc, loopVars, want, bytesVars>> /\ retained' \subseteq retained
        /\ aborted' \in BOOLEAN
    BY <1>3 DEF Abort, CacheForgets, vars, jobVars, loopVars, bytesVars, IInv, RangesInv
  <2>2. HeldInv'
    BY <2>1 DEF IInv, HeldInv, bytesVars
  <2>3. RangesInv'
    BY <2>1 DEF IInv, RangesInv, jobVars, loopVars, bytesVars
  <2>4. ModelsInv' /\ ObjectsInv'
    BY <2>1 DEF IInv, ModelsInv, ObjectsInv, Calling, jobVars, loopVars, bytesVars
  <2> QED
    BY <2>2, <2>3, <2>4 DEF IInv
<1> QED
  BY <1>1, <1>2, <1>3 DEF Convert, Refused

\* Every step keeps the invariant.
LEMMA NextInv == IInv /\ [Next]_vars => IInv'
  BY ReuseStep, ConvertedStep, AddObjectStep, LoopStep, NextRunStep, OtherStep DEF Next

\* The invariant holds throughout: of every run of the process, with every
\* cache it may find.
THEOREM Invariance == Spec => []IInv
  BY InitInv, NextInv, PTL DEF Spec

-----------------------------------------------------------------------------
\* The state is well formed, and both byte sums stay within their limits.
THEOREM TypeCorrect == Spec => []TypeOK
<1>1. IInv => TypeOK
  <2> SUFFICES ASSUME IInv PROVE TypeOK
    OBVIOUS
  <2>1. Range(sources) \subseteq Bytes /\ Range(painted) \subseteq Bytes
    BY DEF IInv, HeldInv, Range
  <2>2. Range(result) \subseteq Bytes
    BY DEF IInv, RangesInv, Range
  <2> QED
    BY <2>1, <2>2 DEF IInv, RangesInv, HeldInv, TypeOK
<1> QED
  BY <1>1, Invariance, PTL

\* materializePlateInputs gives the engine one input per object, in order,
\* each of its own file with its own paint.
THEOREM EngineGetsThePlate == Spec => []PreparedAsAsked
<1>1. IInv => PreparedAsAsked
  <2> SUFFICES ASSUME IInv, pc = "done"
               PROVE  /\ Len(result) = Len(objects)
                      /\ \A k \in DOMAIN objects : result[k] = Asked(objects[k])
    BY DEF PreparedAsAsked, Asked
  <2>1. Len(result) = Len(objects)
    BY DEF IInv, ObjectsInv, RangesInv
  <2> QED
    BY <2>1 DEF IInv, ObjectsInv, RangesInv
<1> QED
  BY <1>1, Invariance, PTL

\* The normalization cache never holds bytes that are not what their
\* identity stands for, whatever failed before.
THEOREM CacheIsFaithful == Spec => []ReuseIsFaithful
<1>1. IInv => ReuseIsFaithful
  BY DEF IInv, HeldInv, ReuseIsFaithful, Asked
<1> QED
  BY <1>1, Invariance, PTL

-----------------------------------------------------------------------------
(* The sum of the normalized bytes.                                        *)

\* What is asked for has not been counted yet: the first loop asks for each
\* model once, the second for paint it does not have.
UncountedInv ==
    /\ (pc = "models" \/ (Calling /\ want.paint = NoPaint)) =>
          DOMAIN sources \subseteq {Models[i] : i \in 1..(index - 1)}
    /\ Calling /\ want.paint # NoPaint => want \notin DOMAIN painted

SumInv == IsFiniteSet(DOMAIN sources) /\ IsFiniteSet(DOMAIN painted) /\ MemoryIsCounted

\* What each adds to the sum.
SourceSizes(names) == [f \in names |-> Size[f]]
PaintedSizes(keys) == [k \in keys |-> Size[k.file]]

\* Both are sums of numbers.
LEMMA SizesAreWeights ==
    /\ \A names \in SUBSET Files : IsFiniteSet(names) => Weights(SourceSizes(names), names)
    /\ \A keys \in SUBSET Key : IsFiniteSet(keys) => Weights(PaintedSizes(keys), keys)
<1>1. \A f \in Files : Size[f] \in Nat
  BY LimitsAssumption
<1>2. \A k \in Key : k.file \in Files
  BY DEF Key
<1> QED
  BY <1>1, <1>2 DEF Weights, SourceSizes, PaintedSizes

\* One more of each adds its own size.
LEMMA SourceSizesGrow ==
    ASSUME NEW names \in SUBSET Files, IsFiniteSet(names), NEW new \in Files, new \notin names
    PROVE  /\ IsFiniteSet(names \cup {new})
           /\ SumFunction(SourceSizes(names \cup {new})) = SumFunction(SourceSizes(names)) + Size[new]
<1> DEFINE more == names \cup {new}
           w == SourceSizes(names)
           v == SourceSizes(more)
<1>1. Weights(w, names) /\ more \in SUBSET Files /\ IsFiniteSet(more)
  BY SizesAreWeights, FS_AddElement
<1>2. Weights(v, more)
  BY <1>1, SizesAreWeights
<1>3. v[new] = Size[new] /\ \A x \in names : v[x] = w[x]
  BY DEF SourceSizes
<1>4. /\ DOMAIN v = names \cup {new} /\ v = [x \in DOMAIN v |-> v[x]]
      /\ v[new] \in Nat
  <2>1. new \in more
    OBVIOUS
  <2>2. DOMAIN v = more
    BY DEF SourceSizes
  <2> HIDE DEF v
  <2> QED
    BY <1>2, <2>1, <2>2 DEF Weights
<1> HIDE DEF w, v
<1>5. SumFunction(v) = SumFunction(w) + v[new]
  BY <1>1, <1>3, <1>4, SumOfOneMore
<1> QED
  BY <1>1, <1>3, <1>5 DEF w, v

\* The same for a painted one.
LEMMA PaintedSizesGrow ==
    ASSUME NEW keys \in SUBSET Key, IsFiniteSet(keys), NEW new \in Key, new \notin keys
    PROVE  /\ IsFiniteSet(keys \cup {new})
           /\ SumFunction(PaintedSizes(keys \cup {new})) = SumFunction(PaintedSizes(keys)) + Size[new.file]
<1> DEFINE more == keys \cup {new}
           w == PaintedSizes(keys)
           v == PaintedSizes(more)
<1>1. Weights(w, keys) /\ more \in SUBSET Key /\ IsFiniteSet(more)
  BY SizesAreWeights, FS_AddElement
<1>2. Weights(v, more)
  BY <1>1, SizesAreWeights
<1>3. v[new] = Size[new.file] /\ \A x \in keys : v[x] = w[x]
  BY DEF PaintedSizes
<1>4. /\ DOMAIN v = keys \cup {new} /\ v = [x \in DOMAIN v |-> v[x]]
      /\ v[new] \in Nat
  <2>1. new \in more
    OBVIOUS
  <2>2. DOMAIN v = more
    BY DEF PaintedSizes
  <2> HIDE DEF v
  <2> QED
    BY <1>2, <2>1, <2>2 DEF Weights
<1> HIDE DEF w, v
<1>5. SumFunction(v) = SumFunction(w) + v[new]
  BY <1>1, <1>3, <1>4, SumOfOneMore
<1> QED
  BY <1>1, <1>3, <1>5 DEF w, v

\* A run starts with nothing.
LEMMA NothingIsCounted ==
    ASSUME sources = <<>>, painted = <<>>, total = 0
    PROVE  SumInv
<1>1. DOMAIN sources = {} /\ DOMAIN painted = {} /\ IsFiniteSet({})
  BY FS_EmptySet
<1>2. Weights(SourceSizes({}), {}) /\ Weights(PaintedSizes({}), {})
  BY <1>1, SizesAreWeights
<1>3. SumFunction(SourceSizes({})) = 0 /\ SumFunction(PaintedSizes({})) = 0
  BY <1>2, SumIsNat
<1> QED
  BY <1>1, <1>3 DEF SumInv, MemoryIsCounted, SourceSizes, PaintedSizes

\* The first state counts nothing.
LEMMA InitCounts == Init => UncountedInv /\ SumInv
<1> SUFFICES ASSUME Init PROVE UncountedInv /\ SumInv
  OBVIOUS
<1>1. sources = <<>> /\ painted = <<>> /\ total = 0 /\ pc = "models"
  BY DEF Init
<1> QED
  BY <1>1, NothingIsCounted DEF UncountedInv, Calling

\* Steps that take in no bytes count none.
LEMMA SumUnchanged ==
    ASSUME SumInv, UNCHANGED bytesVars
    PROVE  SumInv'
  BY DEF SumInv, MemoryIsCounted, bytesVars

\* Bytes taken in are counted once.
LEMMA ReturnCounts ==
    ASSUME IInv, UncountedInv, SumInv, Calling, Return(Asked(want))
    PROVE  UncountedInv' /\ SumInv'
<1> DEFINE b == Asked(want)
<1>1. /\ want \in Key /\ want.file \in Files /\ b.file = want.file
      /\ DOMAIN sources \in SUBSET Files /\ DOMAIN painted \in SUBSET Key
  BY DEF IInv, RangesInv, HeldInv, Key, Asked
<1>2. /\ total' = total + Size[want.file] /\ UNCHANGED want /\ Size[want.file] \in Nat
      /\ IF want.paint = NoPaint
         THEN /\ sources' = Set(sources, want.file, b)
              /\ index' = index + 1 /\ pc' = "models" /\ UNCHANGED painted
         ELSE /\ painted' = Set(painted, want, b)
              /\ pc' = "objects" /\ UNCHANGED <<sources, index>>
  BY <1>1, LimitsAssumption DEF Return, Counted, PaintedKey
<1> HIDE DEF b
<1> DEFINE files == DOMAIN sources
           keys  == DOMAIN painted
           w == SourceSizes(files)
           v == PaintedSizes(keys)
<1>3. /\ Weights(w, files) /\ Weights(v, keys)
      /\ total = SumFunction(w) + SumFunction(v)
      /\ SumFunction(w) \in Nat /\ SumFunction(v) \in Nat
  <2>1. Weights(w, files) /\ Weights(v, keys)
    BY <1>1, SizesAreWeights DEF SumInv
  <2>2. total = SumFunction(w) + SumFunction(v)
    BY DEF SumInv, MemoryIsCounted, SourceSizes, PaintedSizes
  <2> HIDE DEF w, v, files, keys
  <2> QED
    BY <2>1, <2>2, SumIsNat
<1>4. CASE want.paint = NoPaint
  <2> DEFINE files1 == files \cup {want.file}
             w1 == SourceSizes(files1)
  <2>1. index \in 1..Len(Models) /\ want.file = Models[index]
    BY <1>4, ModelsType DEF IInv, ModelsInv, RangesInv
  <2>2. want.file \notin files
    <3>1. files \subseteq {Models[i] : i \in 1..(index - 1)}
      BY <1>4 DEF UncountedInv
    <3>2. \A i \in 1..(index - 1) : i \in DOMAIN Models /\ index \in DOMAIN Models /\ i # index
      BY <2>1, ModelsAssumption
    <3> QED
      BY <2>1, <3>1, <3>2, ModelsAssumption
  <2>3. DOMAIN sources' = files1 /\ painted' = painted
    BY <1>2, <1>4 DEF Set
  <2>4. IsFiniteSet(files1) /\ SumFunction(w1) = SumFunction(w) + Size[want.file]
    BY <1>1, <2>2, SourceSizesGrow DEF SumInv
  <2>5. total' = SumFunction(w1) + SumFunction(v)
    <3> HIDE DEF w, w1, v
    <3> QED
      BY <1>2, <1>3, <2>4
  <2>6. SumInv'
    BY <2>3, <2>4, <2>5 DEF SumInv, MemoryIsCounted, SourceSizes, PaintedSizes
  <2>7. UncountedInv'
    <3>1. files \subseteq {Models[i] : i \in 1..(index - 1)}
      BY <1>4 DEF UncountedInv
    <3>2. index' = index + 1 /\ pc' = "models"
      BY <1>2, <1>4
    <3>3. files1 \subseteq {Models[i] : i \in 1..index}
      BY <2>1, <3>1
    <3> QED
      BY <1>4, <1>2, <2>1, <2>3, <3>2, <3>3 DEF UncountedInv, Calling
  <2> QED
    BY <2>6, <2>7
<1>5. CASE want.paint # NoPaint
  <2> DEFINE keys1 == keys \cup {want}
             v1 == PaintedSizes(keys1)
  <2>1. want \notin keys
    BY <1>5 DEF UncountedInv
  <2>2. DOMAIN painted' = keys1 /\ sources' = sources
    BY <1>2, <1>5 DEF Set
  <2>3. IsFiniteSet(keys1) /\ SumFunction(v1) = SumFunction(v) + Size[want.file]
    BY <1>1, <2>1, PaintedSizesGrow DEF SumInv
  <2>4. total' = SumFunction(w) + SumFunction(v1)
    <3> HIDE DEF v, v1, w
    <3> QED
      BY <1>2, <1>3, <2>3
  <2>5. SumInv'
    BY <2>2, <2>3, <2>4 DEF SumInv, MemoryIsCounted, SourceSizes, PaintedSizes
  <2>6. UncountedInv'
    BY <1>2, <1>5 DEF UncountedInv, Calling
  <2> QED
    BY <2>5, <2>6
<1> QED
  BY <1>4, <1>5

\* Every step counts what it takes in, and asks for what is not counted.
LEMMA StepCounts ==
    ASSUME IInv, UncountedInv, SumInv, [Next]_vars
    PROVE  UncountedInv' /\ SumInv'
<1>1. ASSUME Fail PROVE UncountedInv' /\ SumInv'
  BY <1>1, SumUnchanged DEF Fail, UncountedInv, Calling
<1>2. CASE Reuse
  <2>1. PICK e \in retained :
          /\ e.key = want
          /\ IF Acceptable(e.bytes) THEN ReturnOrFail(e.bytes) ELSE Fail
    BY <1>2 DEF Reuse
  <2>2. e.bytes = Asked(want) /\ Calling
    BY <1>2, <2>1 DEF Reuse, Calling, IInv, HeldInv
  <2> QED
    BY <1>1, <2>1, <2>2, ReturnCounts DEF ReturnOrFail
<1>3. CASE Converted
  <2>1. PICK faithful \in {TRUE, want.paint = NoPaint} :
          LET b == [file |-> want.file, paint |-> want.paint, faithful |-> faithful]
          IN IF Acceptable(b) THEN ReturnOrFail(b) ELSE Fail
    BY <1>3 DEF Converted
  <2> DEFINE b == [file |-> want.file, paint |-> want.paint, faithful |-> faithful]
  <2>2. Calling
    BY <1>3 DEF Converted, Calling
  <2>3. CASE Acceptable(b)
    <3>1. b = Asked(want)
      BY <2>3, AcceptedIsAsked
    <3> QED
      BY <1>1, <2>1, <2>2, <2>3, <3>1, ReturnCounts DEF ReturnOrFail
  <2> QED
    BY <1>1, <2>1, <2>3
<1>4. CASE NextModel
  <2>1. /\ pc = "models" /\ UNCHANGED <<loopVars, bytesVars>>
        /\ want'.paint = NoPaint
    BY <1>4 DEF NextModel, Call
  <2> QED
    BY <2>1, SumUnchanged DEF UncountedInv, loopVars, bytesVars
<1>5. CASE ModelsDone
  BY <1>5, SumUnchanged DEF ModelsDone, UncountedInv, Calling
<1>6. CASE Paint
  <2>1. /\ want'.paint # NoPaint /\ want' \notin DOMAIN painted
        /\ pc' = "lookup" /\ UNCHANGED bytesVars
    BY <1>6 DEF Paint, Unpainted, PaintedKey, Call
  <2> QED
    BY <2>1, SumUnchanged DEF UncountedInv, bytesVars
<1>7. CASE AddObject \/ ObjectsDone
  BY <1>7, SumUnchanged DEF AddObject, ObjectsDone, UncountedInv, Calling
<1>8. CASE Convert \/ Refused
  <2>1. CASE Fail
    BY <1>1, <2>1
  <2>2. CASE Convert /\ ~Fail
    BY <2>2, SumUnchanged DEF Convert, UncountedInv, Calling, loopVars, bytesVars
  <2> QED
    BY <1>8, <2>1, <2>2 DEF Refused
<1>9. CASE Abort \/ CacheForgets \/ UNCHANGED vars
  <2>1. UNCHANGED <<pc, loopVars, want, bytesVars>>
    BY <1>9 DEF Abort, CacheForgets, vars, loopVars, bytesVars
  <2> QED
    BY <2>1, SumUnchanged DEF UncountedInv, Calling, loopVars, bytesVars
<1>10. CASE NextRun
  <2>1. sources' = <<>> /\ painted' = <<>> /\ total' = 0 /\ pc' = "models"
    BY <1>10 DEF NextRun
  <2>2. (sources = <<>> /\ painted = <<>> /\ total = 0 => SumInv)'
    BY NothingIsCounted, PTL
  <2>3. UncountedInv'
    BY <2>1 DEF UncountedInv, Calling
  <2> QED
    BY <2>1, <2>2, <2>3
<1> QED
  BY <1>2, <1>3, <1>4, <1>5, <1>6, <1>7, <1>8, <1>9, <1>10 DEF Next

\* totalNormalizedBytes is the size of what sourceByProjectFileId and
\* paintedSources hold, whatever came from the cache (both loops of
\* materializePlateInputs).
THEOREM EveryByteIsCounted == Spec => []MemoryIsCounted
<1>1. Init => UncountedInv /\ SumInv
  BY InitCounts
<1>2. IInv /\ UncountedInv /\ SumInv /\ [Next]_vars => (UncountedInv /\ SumInv)'
  BY StepCounts
<1>3. SumInv => MemoryIsCounted
  BY DEF SumInv
<1> QED
  BY <1>1, <1>2, <1>3, Invariance, PTL DEF Spec
=============================================================================
