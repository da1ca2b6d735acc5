-------------------------- MODULE PipelineProofs --------------------------
(***************************************************************************)
(* Proofs about Pipeline for every finite set of names and every registry: *)
(* Kahn's loop orders the enrichers so that no enricher is dispatched      *)
(* before a dependency, reports a cycle only when there is one, keeps the  *)
(* registration order of what waits for nothing, and the SBOM is stamped   *)
(* only when every enricher ran.                                           *)
(***************************************************************************)
EXTENDS Pipeline, Functions, FiniteSetTheorems, SequenceTheorems, WellFoundedInduction, TLAPS

-----------------------------------------------------------------------------
(* The elements of the ready queue and of the output under Append and Tail.  *)

\* What appending an element does to the elements of a sequence.
LEMMA RangeAppend ==
  ASSUME NEW S, NEW s \in Seq(S), NEW k \in S
  PROVE  Range(Append(s, k)) = Range(s) \cup {k}
<1>1. /\ DOMAIN s = 1 .. Len(s) /\ Len(s) \in Nat
      /\ DOMAIN Append(s, k) = 1 .. Len(s) + 1
      /\ \A n \in 1 .. Len(s) : Append(s, k)[n] = s[n]
      /\ Append(s, k)[Len(s) + 1] = k
  OBVIOUS
<1>2. \A n \in 1 .. Len(s) + 1 : n \in 1 .. Len(s) \/ n = Len(s) + 1
  BY <1>1
<1>3. 1 .. Len(s) \subseteq 1 .. Len(s) + 1 /\ Len(s) + 1 \in 1 .. Len(s) + 1
  BY <1>1
<1>4. Range(Append(s, k)) \subseteq Range(s) \cup {k}
  BY <1>1, <1>2 DEF Range
<1>5. Range(s) \cup {k} \subseteq Range(Append(s, k))
  BY <1>1, <1>3 DEF Range
<1>6. QED BY <1>4, <1>5

\* Dropping the head loses at most the head.
LEMMA RangeTail ==
  ASSUME NEW S, NEW s \in Seq(S), s # <<>>
  PROVE  /\ Range(s) \ {Head(s)} \subseteq Range(Tail(s))
         /\ Range(Tail(s)) \subseteq Range(s)
<1>1. /\ Tail(s) \in Seq(S) /\ Len(Tail(s)) = Len(s) - 1 /\ Len(s) \in Nat \ {0}
      /\ DOMAIN s = 1 .. Len(s) /\ DOMAIN Tail(s) = 1 .. Len(s) - 1
      /\ \A n \in 1 .. Len(s) - 1 : Tail(s)[n] = s[n + 1]
      /\ Head(s) = s[1]
  BY HeadTailProperties, LenProperties, EmptySeq
<1>2. \A n \in 1 .. Len(s) : n # 1 => n - 1 \in 1 .. Len(s) - 1 /\ Tail(s)[n - 1] = s[n]
  BY <1>1
<1>3. \A n \in 1 .. Len(s) - 1 : n + 1 \in 1 .. Len(s)
  BY <1>1
<1>4. ASSUME NEW x \in Range(s), x # Head(s) PROVE x \in Range(Tail(s))
  <2>1. PICK n \in 1 .. Len(s) : x = s[n]
    BY <1>1 DEF Range
  <2>2. n # 1 /\ n - 1 \in 1 .. Len(s) - 1 /\ Tail(s)[n - 1] = x
    BY <1>1, <1>2, <1>4, <2>1
  <2>3. QED BY <1>1, <2>2 DEF Range
<1>5. ASSUME NEW x \in Range(Tail(s)) PROVE x \in Range(s)
  <2>1. PICK n \in 1 .. Len(s) - 1 : x = Tail(s)[n]
    BY <1>1 DEF Range
  <2>2. n + 1 \in 1 .. Len(s) /\ x = s[n + 1]
    BY <1>1, <1>3, <2>1
  <2>3. QED BY <1>1, <2>2 DEF Range
<1>6. QED BY <1>4, <1>5

\* A sequence without repetition has exactly as many places as elements.
LEMMA InjectiveCardinality ==
  ASSUME NEW S, NEW s \in Seq(S), IsInjective(s)
  PROVE  IsFiniteSet(Range(s)) /\ Cardinality(Range(s)) = Len(s)
<1>1. Len(s) \in Nat /\ DOMAIN s = 1 .. Len(s) /\ s \in [1 .. Len(s) -> S]
  BY LenProperties
<1>2. s \in Surjection(1 .. Len(s), Range(s)) /\ s \in Injection(1 .. Len(s), Range(s))
  BY <1>1 DEF Surjection, Injection, Range
<1>3. IsFiniteSet(1 .. Len(s)) /\ Cardinality(1 .. Len(s)) = Len(s)
  BY <1>1, FS_Interval
<1>4. QED BY <1>2, <1>3, FS_Surjection

\* Appending a new element keeps the places of a sequence distinct.
LEMMA InjectiveAppend ==
  ASSUME NEW S, NEW s \in Seq(S), NEW k \in S, IsInjective(s), k \notin Range(s)
  PROVE  IsInjective(Append(s, k))
<1>1. /\ DOMAIN s = 1 .. Len(s) /\ Len(s) \in Nat
      /\ DOMAIN Append(s, k) = 1 .. Len(s) + 1
      /\ \A n \in 1 .. Len(s) : Append(s, k)[n] = s[n] /\ s[n] # k
      /\ Append(s, k)[Len(s) + 1] = k
  BY DEF Range
<1>2. \A n \in 1 .. Len(s) + 1 : n \in 1 .. Len(s) \/ n = Len(s) + 1
  BY <1>1
<1>3. QED BY <1>1, <1>2 DEF IsInjective

\* The tail of a sequence without repetition loses exactly the head.
LEMMA InjectiveTail ==
  ASSUME NEW S, NEW s \in Seq(S), s # <<>>, IsInjective(s)
  PROVE  /\ IsInjective(Tail(s))
         /\ Range(Tail(s)) = Range(s) \ {Head(s)}
         /\ Head(s) \in Range(s)
<1>1. /\ Tail(s) \in Seq(S) /\ Len(Tail(s)) = Len(s) - 1 /\ Len(s) \in Nat \ {0}
      /\ DOMAIN s = 1 .. Len(s) /\ DOMAIN Tail(s) = 1 .. Len(s) - 1
      /\ \A n \in 1 .. Len(s) - 1 : Tail(s)[n] = s[n + 1]
      /\ Head(s) = s[1]
  BY HeadTailProperties, LenProperties, EmptySeq
<1>2. \A n \in 1 .. Len(s) - 1 : n + 1 \in 1 .. Len(s) /\ n + 1 # 1
  BY <1>1
<1>3. IsInjective(Tail(s))
  <2> SUFFICES ASSUME NEW n \in 1 .. Len(s) - 1, NEW m \in 1 .. Len(s) - 1,
                      Tail(s)[n] = Tail(s)[m]
               PROVE  n = m
    BY <1>1 DEF IsInjective
  <2>1. s[n + 1] = s[m + 1] /\ n + 1 \in DOMAIN s /\ m + 1 \in DOMAIN s
    BY <1>1, <1>2
  <2>2. n + 1 = m + 1
    BY <2>1 DEF IsInjective
  <2>3. QED BY <2>2
<1>4. Head(s) \notin Range(Tail(s))
  <2> SUFFICES ASSUME NEW n \in 1 .. Len(s) - 1, Tail(s)[n] = s[1] PROVE FALSE
    BY <1>1 DEF Range
  <2>1. s[n + 1] = s[1] /\ n + 1 \in DOMAIN s /\ 1 \in DOMAIN s
    BY <1>1, <1>2
  <2>2. n + 1 = 1
    BY <2>1 DEF IsInjective
  <2>3. QED BY <2>2
<1>5. Head(s) \in Range(s)
  BY <1>1 DEF Range
<1>6. QED BY <1>3, <1>4, <1>5, RangeTail

-----------------------------------------------------------------------------

Sorting == phase \in {"seed", "pop", "release"}

\* The enrichers the running loop has walked past.
Past(e) == \E n \in 1 .. i - 1 : n <= Len(enrichers) /\ enrichers[n] = e

\* The retired enrichers that e's in-degree no longer counts.
Settled(e) == IF phase = "release" /\ ~Past(e) THEN Range(out) \ {head} ELSE Range(out)

\* The in-degree of an enricher counts its dependencies that are not settled.
CountInv == Sorting => \A e \in Present : inDegree[e] = Cardinality(RealDeps(e) \ Settled(e))

\* Queue and output never share or repeat an enricher.
QueueInv ==
  /\ IsInjective(queue) /\ IsInjective(out)
  /\ Range(queue) \cap Range(out) = {}
  /\ Range(queue) \cup Range(out) \subseteq Present

\* An enricher is in the queue or in the output exactly when its in-degree
\* is zero; during the first loop this holds for the part walked.
ReadyInv ==
  /\ Sorting => \A e \in Range(queue) \cup Range(out) : inDegree[e] = 0
  /\ phase = "seed" => /\ out = <<>>
                       /\ \A e \in Range(queue) : Past(e)
                       /\ \A e \in Present : Past(e) /\ inDegree[e] = 0 => e \in Range(queue)
  /\ phase \in {"pop", "release"} =>
       \A e \in Present : inDegree[e] = 0 => e \in Range(queue) \cup Range(out)
  /\ phase = "release" => head \in Range(out)

\* The output lists the dependencies of each of its enrichers before it.
OrderInv == \A n \in 1 .. Len(out) : RealDeps(out[n]) \subseteq {out[m] : m \in 1 .. n - 1}

\* What holds around the sort: before it nothing is queued, after it the
\* whole registry is ordered, and ran is a prefix of the order.
RunInv ==
  /\ phase = "index" => queue = <<>> /\ out = <<>> /\ i = 1
  /\ phase \in {"index", "seed", "pop", "release"} => ran = <<>>
  /\ phase \notin {"index", "failed"} => IsInjective(enrichers)
  /\ phase \in {"run", "enrich", "done"} =>
       /\ Range(out) = Present
       /\ Len(out) = Len(enrichers)
       /\ Len(ran) = i - 1 /\ i <= Len(out) + 1
       /\ \A m \in 1 .. i - 1 : ran[m] = out[m]
  /\ phase = "done" => i = Len(out) + 1
  /\ stamped <=> phase = "done"
  /\ failure # "none" <=> phase = "failed"

KahnInv == CountInv /\ QueueInv /\ ReadyInv /\ OrderInv /\ RunInv /\ CycleIsReal

-----------------------------------------------------------------------------
\* Every set of enrichers in play is finite.
LEMMA Finite ==
  ASSUME TypeOK
  PROVE  /\ Present \subseteq Names
         /\ \A S \in SUBSET Names : IsFiniteSet(S) /\ Cardinality(S) \in Nat
         /\ \A e : RealDeps(e) \subseteq Names
<1>1. Present \subseteq Names
  BY LenProperties DEF TypeOK, Present, Range
<1>2. ASSUME NEW S \in SUBSET Names PROVE IsFiniteSet(S) /\ Cardinality(S) \in Nat
  BY <1>2, RegistryAssumption, FS_Subset, FS_CardinalityType
<1>3. QED BY <1>1, <1>2 DEF RealDeps

\* The variables keep their types (Pipeline.Run on any registry).
THEOREM TypeCorrect == Spec => []TypeOK
<1>1. Init => TypeOK
  <2> SUFFICES ASSUME Init PROVE TypeOK
    OBVIOUS
  <2>1. enrichers \in Seq(Names) /\ deps \in [Names -> SUBSET Names]
    BY RegistryAssumption DEF Init
  <2>2. queue \in Seq(Names) /\ out \in Seq(Names) /\ ran \in Seq(Names)
    BY DEF Init
  <2>3. /\ inDegree \in [Names -> Int]
        /\ counted \in [{"success", "error"} -> Nat]
        /\ i \in Nat \ {0}
    BY DEF Init
  <2>4. phase = "index" /\ head = NoName /\ cancelled = FALSE /\ failure = "none" /\ stamped = FALSE
    BY DEF Init
  <2>5. QED BY <2>1, <2>2, <2>3, <2>4 DEF TypeOK
<1>2. TypeOK /\ [Next]_vars => TypeOK'
  <2> SUFFICES ASSUME TypeOK, [Next]_vars PROVE TypeOK'
    OBVIOUS
  <2>1. CASE IndexByName
    <3>1. \A n \in Names : Cardinality(RealDeps(n)) \in Int
      BY Finite DEF RealDeps
    <3>2. inDegree' \in [Names -> Int]
      BY <2>1, <3>1 DEF IndexByName, TypeOK
    <3>3. QED BY <2>1, <3>2 DEF IndexByName, Fail, TypeOK, registry
  <2>2. CASE Seed
    <3>1. i <= Len(enrichers) => enrichers[i] \in Names
      BY ElementOfSeq DEF TypeOK
    <3>2. queue' \in Seq(Names)
      <4>1. queue' = queue \/ (i <= Len(enrichers) /\ queue' = Append(queue, enrichers[i]))
        BY <2>2 DEF Seed
      <4>2. queue \in Seq(Names)
        BY DEF TypeOK
      <4>3. ASSUME NEW e \in Names PROVE Append(queue, e) \in Seq(Names)
        BY <4>2
      <4>4. QED BY <3>1, <4>1, <4>2, <4>3, Zenon
    <3>3. i' \in Nat \ {0} /\ phase' \in {"seed", "pop"}
      BY <2>2 DEF Seed, TypeOK
    <3>4. UNCHANGED <<registry, inDegree, head, out, ran, cancelled, failure, stamped, counted>>
      BY <2>2 DEF Seed
    <3>5. QED BY <3>2, <3>3, <3>4 DEF TypeOK, registry
  <2>3. CASE Pop
    <3>1. Head(queue) \in Names /\ Tail(queue) \in Seq(Names)
      BY <2>3, HeadTailProperties DEF Pop, TypeOK
    <3>2. Append(out, Head(queue)) \in Seq(Names)
      BY <3>1 DEF TypeOK
    <3>3. QED BY <2>3, <3>1, <3>2 DEF Pop, TypeOK, registry
  <2>4. CASE Release
    <3>1. i <= Len(enrichers) => enrichers[i] \in Names
      BY ElementOfSeq DEF TypeOK
    <3>2. inDegree' \in [Names -> Int]
      BY <2>4, <3>1 DEF Release, TypeOK
    <3>3. queue' \in Seq(Names)
      <4>1. queue' = queue \/ (i <= Len(enrichers) /\ queue' = Append(queue, enrichers[i]))
        BY <2>4 DEF Release
      <4>2. queue \in Seq(Names)
        BY DEF TypeOK
      <4>3. ASSUME NEW e \in Names PROVE Append(queue, e) \in Seq(Names)
        BY <4>2
      <4>4. QED BY <3>1, <4>1, <4>2, <4>3, Zenon
    <3>4. i' \in Nat \ {0} /\ phase' \in {"pop", "release"}
      BY <2>4 DEF Release, TypeOK
    <3>5. phase = "release" /\ UNCHANGED <<registry, head, out, ran, cancelled, failure, stamped, counted>>
      BY <2>4 DEF Release
    <3>6. QED BY <3>2, <3>3, <3>4, <3>5 DEF TypeOK, registry
  <2>5. CASE Sorted
    BY <2>5 DEF Sorted, Fail, TypeOK, registry, sorting
  <2>6. CASE Dispatch
    <3>1. counted' \in [{"success", "error"} -> Nat]
      BY <2>6 DEF Dispatch, Count, TypeOK
    <3>2. QED BY <2>6, <3>1 DEF Dispatch, Fail, TypeOK, registry, sorting
  <2>7. CASE EnrichSucceeds
    <3>1. out[i] \in Names
      BY <2>7, ElementOfSeq DEF EnrichSucceeds, TypeOK
    <3>2. Append(ran, out[i]) \in Seq(Names)
      BY <3>1 DEF TypeOK
    <3>3. QED BY <2>7, <3>2 DEF EnrichSucceeds, TypeOK, registry, sorting
  <2>8. CASE EnrichFails
    <3>1. counted' \in [{"success", "error"} -> Nat]
      BY <2>8 DEF EnrichFails, Count, TypeOK
    <3>2. QED BY <2>8, <3>1 DEF EnrichFails, Fail, TypeOK, registry, sorting
  <2>9. CASE Finish
    <3>1. counted' \in [{"success", "error"} -> Nat]
      BY <2>9 DEF Finish, Count, TypeOK
    <3>2. QED BY <2>9, <3>1 DEF Finish, TypeOK, registry, sorting
  <2>10. CASE Cancel
    BY <2>10 DEF Cancel, TypeOK, registry, sorting
  <2>11. CASE UNCHANGED vars
    BY <2>11 DEF vars, TypeOK, registry, sorting
  <2>12. QED BY <2>1, <2>2, <2>3, <2>4, <2>5, <2>6, <2>7, <2>8, <2>9, <2>10, <2>11
             DEF Next, Step
<1>3. QED BY <1>1, <1>2, PTL DEF Spec
-----------------------------------------------------------------------------
(* Kahn's loop, one lemma per action.                                      *)

\* No action changes the registry.
LEMMA Frame ==
  ASSUME UNCHANGED registry
  PROVE  /\ Present' = Present
         /\ \A e : (RealDeps(e))' = RealDeps(e)
BY DEF registry, Present, RealDeps

\* A loop over the enrichers stands at one it has not walked past; the next
\* iteration has walked past exactly one more, and the end past all.
LEMMA Walk ==
  ASSUME TypeOK, IsInjective(enrichers)
  PROVE  /\ i <= Len(enrichers) => enrichers[i] \in Present /\ ~Past(enrichers[i])
         /\ i <= Len(enrichers) /\ i' = i + 1 /\ UNCHANGED registry =>
              \A e : (Past(e))' <=> Past(e) \/ e = enrichers[i]
         /\ i > Len(enrichers) => \A e \in Present : Past(e)
         /\ i' = 1 => \A e : ~(Past(e))'
<1>1. i \in Nat \ {0} /\ Len(enrichers) \in Nat /\ DOMAIN enrichers = 1 .. Len(enrichers)
  BY LenProperties DEF TypeOK
<1>2. i <= Len(enrichers) => enrichers[i] \in Present /\ ~Past(enrichers[i])
  BY <1>1 DEF Past, Present, Range, IsInjective
<1>3. ASSUME i <= Len(enrichers), i' = i + 1, UNCHANGED registry, NEW e
      PROVE  (Past(e))' <=> Past(e) \/ e = enrichers[i]
  <2>1. enrichers' = enrichers
    BY <1>3 DEF registry
  <2>2. (Past(e))' <=> \E n \in 1 .. i : n <= Len(enrichers) /\ enrichers[n] = e
    BY <1>1, <1>3, <2>1 DEF Past
  <2>3. \A n \in 1 .. i : n \in 1 .. i - 1 \/ n = i
    BY <1>1
  <2>4. 1 .. i - 1 \subseteq 1 .. i /\ i \in 1 .. i
    BY <1>1
  <2>5. QED BY <1>3, <2>2, <2>3, <2>4 DEF Past
<1>4. i > Len(enrichers) => \A e \in Present : Past(e)
  <2> SUFFICES ASSUME i > Len(enrichers), NEW n \in 1 .. Len(enrichers) PROVE Past(enrichers[n])
    BY <1>1 DEF Present, Range
  <2>1. n \in 1 .. i - 1 /\ n <= Len(enrichers)
    BY <1>1
  <2>2. QED BY <2>1 DEF Past
<1>5. i' = 1 => \A e : ~(Past(e))'
  BY DEF Past
<1>6. QED BY <1>2, <1>3, <1>4, <1>5

\* The empty sequence has no elements.
LEMMA EmptyRange == Range(<<>>) = {} /\ IsInjective(<<>>)
BY DEF Range, IsInjective

LEMMA KahnIndex ==
  ASSUME TypeOK, KahnInv, IndexByName
  PROVE  KahnInv'
<1>1. /\ phase = "index" /\ queue = <<>> /\ out = <<>> /\ ran = <<>> /\ i = 1
      /\ failure = "none" /\ ~stamped
  BY DEF IndexByName, KahnInv, RunInv, TypeOK
<1>2. queue' = <<>> /\ out' = <<>> /\ ran' = <<>> /\ i' = 1 /\ ~stamped' /\ UNCHANGED registry
  BY <1>1 DEF IndexByName
<1>3. Present' = Present /\ \A e : (RealDeps(e))' = RealDeps(e)
  BY <1>2, Frame
<1>4. CASE ~IsInjective(enrichers)
  <2>1. phase' = "failed" /\ failure' = "duplicate"
    BY <1>4 DEF IndexByName, Fail
  <2>2. QED
    BY <1>2, <2>1, EmptyRange
    DEF KahnInv, CountInv, QueueInv, ReadyInv, OrderInv, RunInv, CycleIsReal, Sorting
<1>5. CASE IsInjective(enrichers)
  <2>1. /\ phase' = IF enrichers = <<>> THEN "run" ELSE "seed"
        /\ inDegree' = [n \in Names |-> IF n \in Present THEN Cardinality(RealDeps(n)) ELSE 0]
        /\ failure' = "none"
    BY <1>1, <1>5 DEF IndexByName
  <2>2. enrichers' = enrichers /\ IsInjective(enrichers')
    BY <1>2, <1>5 DEF registry
  <2>3. CountInv'
    <3> SUFFICES ASSUME phase' = "seed", NEW e \in Present
                 PROVE  inDegree'[e] = Cardinality(RealDeps(e) \ (Settled(e))')
      BY <1>3, <2>1 DEF CountInv, Sorting
    <3>1. (Settled(e))' = {}
      BY <1>2, EmptyRange DEF Settled
    <3>2. e \in Names
      BY Finite
    <3>3. RealDeps(e) \ (Settled(e))' = RealDeps(e)
      BY <3>1
    <3>4. QED BY <2>1, <3>2, <3>3
  <2>4. QueueInv' /\ OrderInv'
    BY <1>2, EmptyRange DEF QueueInv, OrderInv
  <2>5. ReadyInv'
    <3>1. \A e : ~(Past(e))'
      BY <1>2 DEF Past
    <3>2. QED BY <1>2, <2>1, <3>1, EmptyRange DEF ReadyInv, Sorting
  <2>6. RunInv'
    <3>1. phase' = "run" => Range(out') = Present' /\ Len(out') = Len(enrichers')
      BY <1>2, <1>3, <2>1, <2>2, EmptyRange DEF Present
    <3>2. QED BY <1>2, <2>1, <2>2, <3>1 DEF RunInv
  <2>7. CycleIsReal'
    BY <2>1 DEF CycleIsReal
  <2>8. QED BY <2>3, <2>4, <2>5, <2>6, <2>7 DEF KahnInv
<1>6. QED BY <1>4, <1>5

LEMMA KahnSeed ==
  ASSUME TypeOK, KahnInv, Seed
  PROVE  KahnInv'
<1>1. /\ phase = "seed" /\ out = <<>> /\ ran = <<>> /\ failure = "none" /\ ~stamped
      /\ IsInjective(enrichers)
      /\ \A e \in Range(queue) : Past(e)
  BY DEF Seed, KahnInv, RunInv, ReadyInv, TypeOK
<1>2. /\ UNCHANGED <<registry, inDegree, head, out, ran, failure, stamped>>
      /\ enrichers' = enrichers
  BY DEF Seed, registry
<1>3. Present' = Present /\ \A e : (RealDeps(e))' = RealDeps(e)
  BY <1>2, Frame
<1>4. phase' \in {"seed", "pop"}
  BY <1>1 DEF Seed
<1>5. CountInv'
  <2>1. \A e : (Settled(e))' = Settled(e)
    BY <1>1, <1>2, <1>4 DEF Settled
  <2>2. QED BY <1>1, <1>2, <1>3, <2>1 DEF KahnInv, CountInv, Sorting
<1>6. OrderInv' /\ CycleIsReal'
  BY <1>1, <1>2 DEF OrderInv, CycleIsReal
<1>7. RunInv'
  BY <1>1, <1>2, <1>4 DEF RunInv
<1>8. CASE i <= Len(enrichers)
  <2> DEFINE e == enrichers[i]
  <2>1. /\ e \in Present /\ ~Past(e)
        /\ \A x : (Past(x))' <=> Past(x) \/ x = e
    BY <1>1, <1>2, <1>8, Walk DEF Seed
  <2>2. e \in Names /\ e \notin Range(queue) /\ e \notin Range(out)
    BY <1>1, <2>1, Finite, EmptyRange
  <2>3. phase' = "seed"
    BY <1>1, <1>8 DEF Seed
  <2>4. CASE inDegree[e] = 0
    <3>1. queue' = Append(queue, e) /\ queue \in Seq(Names)
      BY <1>8, <2>4 DEF Seed, TypeOK
    <3>2. Range(queue') = Range(queue) \cup {e}
      BY <2>2, <3>1, RangeAppend
    <3>3. IsInjective(queue')
      BY <2>2, <3>1, InjectiveAppend DEF KahnInv, QueueInv
    <3>4. QueueInv'
      BY <1>2, <1>3, <2>1, <2>2, <3>2, <3>3 DEF KahnInv, QueueInv
    <3>5. ReadyInv'
      BY <1>1, <1>2, <1>3, <2>1, <2>3, <2>4, <3>2 DEF KahnInv, ReadyInv, Sorting
    <3>6. QED BY <1>5, <1>6, <1>7, <3>4, <3>5 DEF KahnInv
  <2>5. CASE inDegree[e] # 0
    <3>1. queue' = queue
      BY <1>8, <2>5 DEF Seed
    <3>2. QueueInv'
      BY <1>2, <1>3, <3>1 DEF KahnInv, QueueInv
    <3>3. ReadyInv'
      BY <1>1, <1>2, <1>3, <2>1, <2>3, <2>5, <3>1 DEF KahnInv, ReadyInv, Sorting
    <3>4. QED BY <1>5, <1>6, <1>7, <3>2, <3>3 DEF KahnInv
  <2>6. QED BY <2>4, <2>5
<1>9. CASE ~(i <= Len(enrichers))
  <2>1. queue' = queue /\ phase' = "pop"
    BY <1>9 DEF Seed
  <2>2. i > Len(enrichers)
    BY <1>9, LenProperties DEF TypeOK
  <2>3. \A e \in Present : Past(e)
    BY <1>1, <2>2, Walk
  <2>4. QueueInv'
    BY <1>2, <1>3, <2>1 DEF KahnInv, QueueInv
  <2>5. ReadyInv'
    BY <1>1, <1>2, <1>3, <2>1, <2>3 DEF KahnInv, ReadyInv, Sorting
  <2>6. QED BY <1>5, <1>6, <1>7, <2>4, <2>5 DEF KahnInv
<1>10. QED BY <1>8, <1>9

LEMMA KahnPop ==
  ASSUME TypeOK, KahnInv, Pop
  PROVE  KahnInv'
<1> DEFINE h == Head(queue)
<1>1. /\ phase = "pop" /\ ran = <<>> /\ failure = "none" /\ ~stamped
      /\ IsInjective(enrichers)
  BY DEF Pop, KahnInv, RunInv, TypeOK
<1>2. /\ UNCHANGED <<registry, inDegree, ran, failure, stamped>>
      /\ enrichers' = enrichers
      /\ phase' = "release" /\ i' = 1
      /\ head' = h /\ queue' = Tail(queue) /\ out' = Append(out, h)
  BY DEF Pop, registry
<1>3. Present' = Present /\ \A e : (RealDeps(e))' = RealDeps(e)
  BY <1>2, Frame
<1>4. queue \in Seq(Names) /\ queue # <<>> /\ out \in Seq(Names)
  BY DEF Pop, TypeOK
<1>5. IsInjective(queue') /\ Range(queue') = Range(queue) \ {h} /\ h \in Range(queue)
  BY <1>2, <1>4, InjectiveTail DEF KahnInv, QueueInv
<1>6. h \in Present /\ h \in Names /\ h \notin Range(out) /\ inDegree[h] = 0
  BY <1>1, <1>5, Finite DEF KahnInv, QueueInv, ReadyInv, Sorting
<1>7. Range(out') = Range(out) \cup {h} /\ IsInjective(out')
  BY <1>2, <1>4, <1>6, RangeAppend, InjectiveAppend DEF KahnInv, QueueInv
<1>8. QueueInv'
  BY <1>3, <1>5, <1>6, <1>7 DEF KahnInv, QueueInv
<1>9. CountInv'
  <2>1. \A e : ~(Past(e))'
    BY <1>2 DEF Past
  <2>2. \A e : (Settled(e))' = Range(out) /\ Settled(e) = Range(out)
    BY <1>1, <1>2, <1>6, <1>7, <2>1 DEF Settled
  <2>3. QED BY <1>1, <1>2, <1>3, <2>2 DEF KahnInv, CountInv, Sorting
<1>10. ReadyInv'
  <2>1. Range(queue') \cup Range(out') = Range(queue) \cup Range(out)
    BY <1>5, <1>7
  <2>2. QED BY <1>1, <1>2, <1>3, <1>7, <2>1 DEF KahnInv, ReadyInv, Sorting
<1>11. RealDeps(h) \subseteq Range(out)
  <2>1. Settled(h) = Range(out)
    BY <1>1 DEF Settled
  <2>2. Cardinality(RealDeps(h) \ Range(out)) = 0
    BY <1>1, <1>6, <2>1 DEF KahnInv, CountInv, Sorting
  <2>3. IsFiniteSet(RealDeps(h) \ Range(out))
    BY Finite
  <2>4. QED BY <2>2, <2>3, FS_EmptySet
<1>12. OrderInv'
  <2>1. /\ Len(out) \in Nat /\ DOMAIN out = 1 .. Len(out)
        /\ Len(out') = Len(out) + 1
        /\ out'[Len(out) + 1] = h
        /\ \A m \in 1 .. Len(out) : out'[m] = out[m]
    BY <1>2, <1>4, <1>6
  <2>2. \A n \in 1 .. Len(out) : RealDeps(out'[n]) \subseteq {out'[m] : m \in 1 .. n - 1}
    <3> SUFFICES ASSUME NEW n \in 1 .. Len(out)
                 PROVE  RealDeps(out'[n]) \subseteq {out'[m] : m \in 1 .. n - 1}
      OBVIOUS
    <3>1. \A m \in 1 .. n - 1 : out'[m] = out[m]
      BY <2>1
    <3>2. {out'[m] : m \in 1 .. n - 1} = {out[m] : m \in 1 .. n - 1}
      BY <3>1
    <3>3. QED BY <2>1, <3>2 DEF KahnInv, OrderInv
  <2>3. Range(out) \subseteq {out'[m] : m \in 1 .. (Len(out) + 1) - 1}
    BY <2>1 DEF Range
  <2>4. \A n \in 1 .. Len(out') : n \in 1 .. Len(out) \/ n = Len(out) + 1
    BY <2>1
  <2>5. \A n \in 1 .. Len(out') : RealDeps(out'[n]) \subseteq {out'[m] : m \in 1 .. n - 1}
    BY <1>11, <2>1, <2>2, <2>3, <2>4
  <2>6. QED BY <1>3, <2>5 DEF OrderInv
<1>13. RunInv' /\ CycleIsReal'
  BY <1>1, <1>2 DEF RunInv, CycleIsReal
<1>14. QED BY <1>8, <1>9, <1>10, <1>12, <1>13 DEF KahnInv

LEMMA KahnRelease ==
  ASSUME TypeOK, KahnInv, Release
  PROVE  KahnInv'
<1>1. /\ phase = "release" /\ ran = <<>> /\ failure = "none" /\ ~stamped
      /\ IsInjective(enrichers)
      /\ head \in Range(out) /\ head \in Present
  BY DEF Release, KahnInv, RunInv, ReadyInv, QueueInv, TypeOK
<1>2. /\ UNCHANGED <<registry, head, out, ran, failure, stamped>>
      /\ enrichers' = enrichers
      /\ phase' \in {"release", "pop"}
  BY <1>1 DEF Release, registry
<1>3. Present' = Present /\ \A e : (RealDeps(e))' = RealDeps(e)
  BY <1>2, Frame
<1>4. OrderInv'
  BY <1>2, <1>3 DEF KahnInv, OrderInv
<1>5. RunInv' /\ CycleIsReal'
  BY <1>1, <1>2 DEF RunInv, CycleIsReal
<1>6. CASE i <= Len(enrichers)
  <2>0. PICK e \in Present : e = enrichers[i]
    BY <1>1, <1>6, Walk
  <2>1. /\ e \in Present /\ ~Past(e)
        /\ \A x : (Past(x))' <=> Past(x) \/ x = e
    BY <1>1, <1>2, <1>6, <2>0, Walk DEF Release
  <2>2. /\ e \in Names /\ phase' = "release"
        /\ inDegree' = IF head \in deps[e] THEN [inDegree EXCEPT ![e] = @ - 1] ELSE inDegree
        /\ queue' = IF head \in deps[e] /\ inDegree[e] = 1 THEN Append(queue, e) ELSE queue
    BY <1>1, <1>6, <2>0, <2>1, Finite DEF Release
  <2>3. /\ Settled(e) = Range(out) \ {head} /\ (Settled(e))' = Range(out)
        /\ \A x : x # e => (Settled(x))' = Settled(x)
    BY <1>1, <1>2, <2>1, <2>2 DEF Settled
  <2>4. inDegree \in [Names -> Int] /\ queue \in Seq(Names)
    BY DEF TypeOK
  <2>5. CASE head \notin deps[e]
    <3>1. inDegree' = inDegree /\ queue' = queue
      BY <2>2, <2>5
    <3>2. RealDeps(e) \ Range(out) = RealDeps(e) \ (Range(out) \ {head})
      BY <2>5 DEF RealDeps
    <3>3. CountInv'
      BY <1>1, <1>3, <2>3, <3>1, <3>2 DEF KahnInv, CountInv, Sorting
    <3>4. QueueInv'
      BY <1>2, <1>3, <3>1 DEF KahnInv, QueueInv
    <3>5. ReadyInv'
      BY <1>1, <1>2, <1>3, <2>2, <3>1 DEF KahnInv, ReadyInv, Sorting
    <3>6. QED BY <1>4, <1>5, <3>3, <3>4, <3>5 DEF KahnInv
  <2>6. CASE head \in deps[e]
    <3> DEFINE wait == RealDeps(e) \ (Range(out) \ {head})
    <3>1. head \in wait /\ wait \ {head} = RealDeps(e) \ Range(out)
      BY <1>1, <2>6 DEF RealDeps
    <3>2. IsFiniteSet(wait) /\ Cardinality(wait) \in Nat
      BY Finite
    <3>3. Cardinality(wait \ {head}) = Cardinality(wait) - 1 /\ Cardinality(wait) # 0
      BY <3>1, <3>2, FS_RemoveElement, FS_EmptySet
    <3>4. inDegree[e] = Cardinality(wait)
      BY <1>1, <2>1, <2>3 DEF KahnInv, CountInv, Sorting
    <3>5. e \notin Range(queue) /\ e \notin Range(out)
      BY <1>1, <3>3, <3>4 DEF KahnInv, ReadyInv, Sorting
    <3>6. inDegree'[e] = inDegree[e] - 1 /\ \A x \in Names : x # e => inDegree'[x] = inDegree[x]
      BY <2>2, <2>4, <2>6
    <3>7. CountInv'
      <4> SUFFICES ASSUME NEW x \in Present
                   PROVE  inDegree'[x] = Cardinality(RealDeps(x) \ (Settled(x))')
        BY <1>3 DEF CountInv
      <4>1. x \in Names
        BY Finite
      <4>2. CASE x = e
        BY <2>3, <3>1, <3>3, <3>4, <3>6, <4>2
      <4>3. CASE x # e
        BY <1>1, <2>3, <3>6, <4>1, <4>3 DEF KahnInv, CountInv, Sorting
      <4>4. QED BY <4>2, <4>3
    <3>8. QueueInv' /\ Range(queue') = Range(queue) \cup (IF inDegree[e] = 1 THEN {e} ELSE {})
      <4>1. CASE inDegree[e] = 1
        <5>1. queue' = Append(queue, e)
          BY <2>2, <2>6, <4>1
        <5>2. Range(queue') = Range(queue) \cup {e} /\ IsInjective(queue')
          BY <2>2, <2>4, <3>5, <5>1, RangeAppend, InjectiveAppend DEF KahnInv, QueueInv
        <5>3. QED BY <1>2, <1>3, <2>1, <3>5, <4>1, <5>2 DEF KahnInv, QueueInv
      <4>2. CASE inDegree[e] # 1
        BY <1>2, <1>3, <2>2, <4>2 DEF KahnInv, QueueInv
      <4>3. QED BY <4>1, <4>2
    <3>9. ReadyInv'
      <4>1. \A x \in Present : x \in Names
        BY Finite
      <4>2. inDegree'[e] = 0 <=> inDegree[e] = 1
        BY <2>2, <2>4, <3>6
      <4>3. \A x \in Range(queue) \cup Range(out) : x \in Present /\ x # e
        BY <3>5 DEF KahnInv, QueueInv
      <4>4. \A x \in Range(queue') \cup Range(out') : inDegree'[x] = 0
        BY <1>1, <1>2, <3>6, <3>8, <4>1, <4>2, <4>3 DEF KahnInv, ReadyInv, Sorting
      <4>5. \A x \in Present : inDegree'[x] = 0 => x \in Range(queue') \cup Range(out')
        BY <1>1, <1>2, <3>6, <3>8, <4>1, <4>2 DEF KahnInv, ReadyInv
      <4>6. QED BY <1>1, <1>2, <1>3, <2>2, <4>4, <4>5 DEF ReadyInv
    <3>10. QED BY <1>4, <1>5, <3>7, <3>8, <3>9 DEF KahnInv
  <2>7. QED BY <2>5, <2>6
<1>7. CASE ~(i <= Len(enrichers))
  <2>1. queue' = queue /\ inDegree' = inDegree /\ phase' = "pop"
    BY <1>7 DEF Release
  <2>2. i > Len(enrichers)
    BY <1>7, LenProperties DEF TypeOK
  <2>3. \A e \in Present : Past(e)
    BY <1>1, <2>2, Walk
  <2>4. \A e \in Present : (Settled(e))' = Settled(e)
    BY <1>1, <1>2, <2>1, <2>3 DEF Settled
  <2>5. CountInv'
    BY <1>1, <1>3, <2>1, <2>4 DEF KahnInv, CountInv, Sorting
  <2>6. QueueInv'
    BY <1>2, <1>3, <2>1 DEF KahnInv, QueueInv
  <2>7. ReadyInv'
    BY <1>1, <1>2, <1>3, <2>1 DEF KahnInv, ReadyInv, Sorting
  <2>8. QED BY <1>4, <1>5, <2>5, <2>6, <2>7 DEF KahnInv
<1>8. QED BY <1>6, <1>7

LEMMA KahnSorted ==
  ASSUME TypeOK, KahnInv, Sorted
  PROVE  KahnInv'
<1>1. /\ phase = "pop" /\ queue = <<>> /\ ran = <<>> /\ failure = "none" /\ ~stamped
      /\ IsInjective(enrichers)
  BY DEF Sorted, KahnInv, RunInv, TypeOK
<1>2. /\ UNCHANGED <<registry, sorting, ran, stamped>>
      /\ enrichers' = enrichers /\ queue' = queue /\ out' = out
      /\ phase' \in {"run", "failed"}
  BY DEF Sorted, registry, sorting, Fail
<1>3. Present' = Present /\ \A e : (RealDeps(e))' = RealDeps(e)
  BY <1>2, Frame
<1>4. CountInv' /\ QueueInv' /\ ReadyInv' /\ OrderInv'
  <2>1. CountInv' /\ ReadyInv'
    BY <1>2 DEF CountInv, ReadyInv, Sorting
  <2>2. QueueInv' /\ OrderInv'
    BY <1>2, <1>3 DEF KahnInv, QueueInv, OrderInv
  <2>3. QED BY <2>1, <2>2
<1>5. /\ Range(out) \subseteq Present
      /\ IsFiniteSet(Present) /\ Cardinality(Present) = Len(enrichers)
      /\ Cardinality(Range(out)) = Len(out)
  <2>1. Range(out) \subseteq Present /\ IsInjective(out)
    BY DEF KahnInv, QueueInv
  <2>2. enrichers \in Seq(Names) /\ out \in Seq(Names)
    BY DEF TypeOK
  <2>3. QED BY <1>1, <2>1, <2>2, InjectiveCardinality DEF Present
<1>6. CASE Len(out) = Len(enrichers)
  <2>1. phase' = "run" /\ i' = 1 /\ failure' = "none"
    BY <1>1, <1>6 DEF Sorted
  <2>2. Range(out) = Present
    BY <1>5, <1>6, FS_Subset
  <2>3. Len(out) \in Nat
    BY LenProperties DEF TypeOK
  <2>4. RunInv'
    BY <1>1, <1>2, <1>3, <1>6, <2>1, <2>2, <2>3 DEF RunInv
  <2>5. CycleIsReal'
    BY <2>1 DEF CycleIsReal
  <2>6. QED BY <1>4, <2>4, <2>5 DEF KahnInv
<1>7. CASE Len(out) # Len(enrichers)
  <2> DEFINE stuck == Present \ Range(out)
  <2>1. phase' = "failed" /\ failure' = "cycle"
    BY <1>7 DEF Sorted, Fail
  <2>2. RunInv'
    BY <1>1, <1>2, <2>1 DEF RunInv
  <2>3. stuck # {}
    <3>1. ASSUME stuck = {} PROVE Range(out) = Present
      BY <1>5, <3>1
    <3>2. Range(out) # Present
      BY <1>5, <1>7
    <3>3. QED BY <3>1, <3>2
  <2>4. ASSUME NEW e \in stuck PROVE RealDeps(e) \cap stuck # {}
    <3>1. e \notin Range(queue) \cup Range(out)
      BY <1>1, EmptyRange
    <3>2. inDegree[e] # 0
      BY <1>1, <3>1 DEF KahnInv, ReadyInv
    <3>3. inDegree[e] = Cardinality(RealDeps(e) \ Range(out))
      BY <1>1 DEF KahnInv, CountInv, Sorting, Settled
    <3>4. RealDeps(e) \ Range(out) # {}
      BY <3>2, <3>3, FS_EmptySet
    <3>5. QED BY <3>4 DEF RealDeps
  <2>5. CycleIsReal'
    BY <1>2, <1>3, <2>3, <2>4 DEF CycleIsReal
  <2>6. QED BY <1>4, <2>2, <2>5 DEF KahnInv
<1>8. QED BY <1>6, <1>7

\* Dispatching, and a cancellation at any point, leave the order alone.
LEMMA KahnRun ==
  ASSUME TypeOK, KahnInv,
         Dispatch \/ EnrichSucceeds \/ EnrichFails \/ Finish \/ Cancel \/ UNCHANGED vars
  PROVE  KahnInv'
<1>1. UNCHANGED <<registry, sorting>> /\ enrichers' = enrichers /\ queue' = queue /\ out' = out
      /\ inDegree' = inDegree /\ head' = head
  BY DEF Dispatch, EnrichSucceeds, EnrichFails, Finish, Cancel, vars, registry, sorting
<1>2. Present' = Present /\ \A e : (RealDeps(e))' = RealDeps(e)
  BY <1>1, Frame
<1>3. QueueInv' /\ OrderInv'
  <2>1. QueueInv'
    BY <1>1, <1>2 DEF KahnInv, QueueInv
  <2>2. \A n \in 1 .. Len(out) : RealDeps(out[n]) \subseteq {out[m] : m \in 1 .. n - 1}
    BY DEF KahnInv, OrderInv
  <2>3. OrderInv'
    BY <1>1, <1>2, <2>2 DEF OrderInv
  <2>4. QED BY <2>1, <2>3
<1>4. (Sorting \/ Sorting' \/ phase = "index" \/ phase' = "index") => UNCHANGED <<phase, i>>
  BY DEF Dispatch, EnrichSucceeds, EnrichFails, Finish, Cancel, vars, Sorting, Fail, TypeOK
<1>5. Sorting \/ Sorting' => \A e : ((Past(e))' <=> Past(e)) /\ (Settled(e))' = Settled(e)
  BY <1>1, <1>4 DEF Past, Settled
<1>6. CountInv'
  BY <1>1, <1>2, <1>4, <1>5 DEF KahnInv, CountInv, Sorting
<1>7. ReadyInv'
  BY <1>1, <1>2, <1>4, <1>5 DEF KahnInv, ReadyInv, Sorting
<1>8. CycleIsReal'
  <2>1. failure' = "cycle" => failure = "cycle"
    BY DEF Dispatch, EnrichSucceeds, EnrichFails, Finish, Cancel, vars, Fail
  <2>2. QED BY <1>1, <1>2, <2>1 DEF KahnInv, CycleIsReal
<1>9. RunInv'
  <2>1. i \in Nat \ {0} /\ Len(out) \in Nat /\ ran \in Seq(Names) /\ out \in Seq(Names)
    BY LenProperties DEF TypeOK
  <2>2. CASE Dispatch
    BY <1>1, <1>2, <2>1, <2>2 DEF Dispatch, Fail, KahnInv, RunInv
  <2>3. CASE EnrichSucceeds
    <3>1. /\ phase = "enrich" /\ phase' = "run" /\ i' = i + 1 /\ ran' = Append(ran, out[i])
          /\ UNCHANGED <<failure, stamped>>
      BY <2>3 DEF EnrichSucceeds
    <3>2. /\ Range(out) = Present /\ Len(out) = Len(enrichers) /\ Len(ran) = i - 1
          /\ \A m \in 1 .. i - 1 : ran[m] = out[m]
          /\ IsInjective(enrichers) /\ failure = "none" /\ ~stamped
      BY <3>1 DEF KahnInv, RunInv
    <3>3. i <= Len(out) /\ out[i] \in Names
      BY <2>1, <3>1, ElementOfSeq DEF TypeOK
    <3>4. /\ Len(ran') = i
          /\ \A m \in 1 .. i - 1 : ran'[m] = ran[m]
          /\ ran'[i] = out[i]
      BY <2>1, <3>1, <3>2, <3>3
    <3>5. \A m \in 1 .. i : ran'[m] = out[m]
      BY <2>1, <3>2, <3>4
    <3>6. (i + 1) - 1 = i /\ i + 1 <= Len(out) + 1
      BY <2>1, <3>3
    <3>7. QED BY <1>1, <1>2, <3>1, <3>2, <3>4, <3>5, <3>6 DEF RunInv
  <2>4. CASE EnrichFails
    BY <1>1, <1>2, <2>4 DEF EnrichFails, Fail, KahnInv, RunInv
  <2>5. CASE Finish
    <3>1. /\ phase = "run" /\ phase' = "done" /\ i > Len(out) /\ stamped'
          /\ UNCHANGED <<i, ran, failure>>
      BY <2>5 DEF Finish
    <3>2. i = Len(out) + 1
      BY <2>1, <3>1 DEF KahnInv, RunInv
    <3>3. QED BY <1>1, <1>2, <3>1, <3>2 DEF KahnInv, RunInv
  <2>6. CASE Cancel
    BY <1>1, <1>2, <2>6 DEF Cancel, KahnInv, RunInv
  <2>7. CASE UNCHANGED vars
    BY <1>1, <1>2, <2>7 DEF vars, KahnInv, RunInv
  <2>8. QED BY <2>2, <2>3, <2>4, <2>5, <2>6, <2>7
<1>10. QED BY <1>3, <1>6, <1>7, <1>8, <1>9 DEF KahnInv

\* Kahn's loop keeps its bookkeeping exact on every registry: in-degrees count
\* the dependencies still to retire, and the output lists dependencies first.
THEOREM KahnInvariant == Spec => []KahnInv
<1>1. Init => KahnInv
  <2> SUFFICES ASSUME Init PROVE KahnInv
    OBVIOUS
  <2>1. phase = "index" /\ queue = <<>> /\ out = <<>> /\ ran = <<>> /\ i = 1 /\ ~stamped /\ failure = "none"
    BY DEF Init
  <2>2. CountInv /\ ReadyInv /\ CycleIsReal /\ RunInv
    BY <2>1 DEF CountInv, ReadyInv, CycleIsReal, RunInv, Sorting
  <2>3. QueueInv /\ OrderInv
    BY <2>1, EmptyRange DEF QueueInv, OrderInv
  <2>4. QED BY <2>2, <2>3 DEF KahnInv
<1>2. TypeOK /\ KahnInv /\ [Next]_vars => KahnInv'
  BY KahnIndex, KahnSeed, KahnPop, KahnRelease, KahnSorted, KahnRun DEF Next, Step
<1>3. QED BY <1>1, <1>2, TypeCorrect, PTL DEF Spec

\* No enricher is dispatched before a dependency it declares, nor twice, on
\* any registry (runEnrichers over the order TopoSort returns).
THEOREM DependenciesFirstTheorem == Spec => []DependenciesFirst
<1>1. TypeOK /\ KahnInv => DependenciesFirst
  <2> SUFFICES ASSUME TypeOK, KahnInv, phase = "enrich"
               PROVE  RealDeps(out[i]) \subseteq Range(ran) /\ out[i] \notin Range(ran)
    BY DEF DependenciesFirst
  <2>1. /\ i \in Nat \ {0} /\ i <= Len(out) /\ Len(ran) = i - 1 /\ Len(out) \in Nat
        /\ DOMAIN ran = 1 .. i - 1 /\ DOMAIN out = 1 .. Len(out)
        /\ \A m \in 1 .. i - 1 : ran[m] = out[m]
    BY LenProperties DEF TypeOK, KahnInv, RunInv
  <2>2. Range(ran) = {out[m] : m \in 1 .. i - 1}
    BY <2>1 DEF Range
  <2>3. RealDeps(out[i]) \subseteq Range(ran)
    BY <2>1, <2>2 DEF KahnInv, OrderInv
  <2>4. ASSUME NEW m \in 1 .. i - 1, out[m] = out[i] PROVE FALSE
    <3>1. m \in DOMAIN out /\ i \in DOMAIN out /\ m # i
      BY <2>1
    <3>2. QED BY <2>4, <3>1 DEF KahnInv, QueueInv, IsInjective
  <2>5. QED BY <2>2, <2>3, <2>4
<1>2. QED BY <1>1, TypeCorrect, KahnInvariant, PTL

\* The SBOM is stamped as enriched exactly when every enricher ran once.
THEOREM StampTheorem == Spec => []StampMeansAllRan
<1>1. TypeOK /\ KahnInv => StampMeansAllRan
  <2> SUFFICES ASSUME TypeOK, KahnInv PROVE StampMeansAllRan
    OBVIOUS
  <2>1. stamped <=> phase = "done"
    BY DEF KahnInv, RunInv
  <2>2. ASSUME stamped
        PROVE  Range(ran) = Present /\ Len(ran) = Len(enrichers) /\ failure = "none"
    <3>1. /\ Range(out) = Present /\ Len(out) = Len(enrichers) /\ Len(ran) = i - 1
          /\ i = Len(out) + 1 /\ failure = "none"
          /\ \A m \in 1 .. i - 1 : ran[m] = out[m]
      BY <2>1, <2>2 DEF KahnInv, RunInv
    <3>2. /\ Len(out) \in Nat /\ DOMAIN out = 1 .. Len(out)
          /\ Len(ran) = Len(out) /\ DOMAIN ran = 1 .. Len(out) /\ i - 1 = Len(out)
      BY <3>1, LenProperties DEF TypeOK
    <3>3. Range(ran) = Range(out)
      BY <3>1, <3>2 DEF Range
    <3>4. QED BY <3>1, <3>2, <3>3
  <2>3. QED BY <2>1, <2>2 DEF StampMeansAllRan
<1>2. QED BY <1>1, TypeCorrect, KahnInvariant, PTL

\* kahn reports a cycle only over enrichers that do wait for one another.
THEOREM CycleTheorem == Spec => []CycleIsReal
<1>1. KahnInv => CycleIsReal
  BY DEF KahnInv
<1>2. QED BY <1>1, KahnInvariant, PTL

\* A cyclic registry is never dispatched: the first member of the order that
\* belongs to a set of enrichers waits for none of the set.
THEOREM NoCycleRunTheorem == Spec => []CyclesNeverRun
<1>1. TypeOK /\ KahnInv => CyclesNeverRun
  <2> SUFFICES ASSUME TypeOK, KahnInv, phase \in {"run", "enrich", "done"},
                      NEW S \in SUBSET Present, S # {}
               PROVE  \E e \in S : RealDeps(e) \cap S = {}
    BY DEF CyclesNeverRun
  <2> DEFINE T == {n \in 1 .. Len(out) : out[n] \in S}
  <2>1. Range(out) = Present /\ Len(out) \in Nat /\ DOMAIN out = 1 .. Len(out)
    BY LenProperties DEF TypeOK, KahnInv, RunInv
  <2>2. T # {} /\ T \subseteq Nat
    BY <2>1 DEF Range
  <2>3. PICK n \in T : \A m \in T : ~(<<m, n>> \in OpToRel(<, Nat))
    <3> HIDE DEF T
    <3>1. QED BY <2>2, NatLessThanWellFounded, WFMin
  <2>4. \A m \in T : ~(m < n)
    BY <2>2, <2>3 DEF OpToRel
  <2>5. \A m \in 1 .. n - 1 : out[m] \notin S
    BY <2>1, <2>4
  <2>6. RealDeps(out[n]) \subseteq {out[m] : m \in 1 .. n - 1}
    BY <2>3 DEF KahnInv, OrderInv
  <2>7. RealDeps(out[n]) \cap S = {} /\ out[n] \in S
    BY <2>3, <2>5, <2>6
  <2>8. QED BY <2>7
<1>2. QED BY <1>1, TypeCorrect, KahnInvariant, PTL

-----------------------------------------------------------------------------
(* Registration order.                                                     *)

\* An enricher that waits for nothing stands before those registered behind
\* it: in the output, and in the queue unless it has left that already.
LineInv ==
  \A a, b \in Names : FreeBefore(enrichers, deps, a, b) =>
    /\ \A q \in 1 .. Len(queue) : queue[q] = b => a \in Range(out) \/ \E p \in 1 .. q - 1 : queue[p] = a
    /\ \A q \in 1 .. Len(out) : out[q] = b => \E p \in 1 .. q - 1 : out[p] = a

\* An enricher that waits for nothing has in-degree zero, so that the queue
\* holds it once the first loop has walked past it, until it is retired.
LEMMA FreeIsQueued ==
  ASSUME TypeOK, KahnInv, Sorting, NEW a \in Names, NEW b \in Names,
         FreeBefore(enrichers, deps, a, b), phase = "seed" => Past(a)
  PROVE  a \in Range(queue) \cup Range(out)
<1>1. a \in Present /\ RealDeps(a) = {}
  BY DEF FreeBefore, Present, RealDeps, Range
<1>2. inDegree[a] = Cardinality({})
  BY <1>1 DEF KahnInv, CountInv
<1>3. inDegree[a] = 0
  BY <1>2, FS_EmptySet
<1>4. QED BY <1>1, <1>3 DEF KahnInv, ReadyInv, Sorting

\* Joining the queue behind everything registered before it that waits for
\* nothing keeps the line in order.
LEMMA LineJoin ==
  ASSUME TypeOK, LineInv, UNCHANGED <<registry, out>>, NEW e \in Names, queue' = Append(queue, e),
         \A a \in Names : FreeBefore(enrichers, deps, a, e) => a \in Range(queue) \cup Range(out)
  PROVE  LineInv'
<1>1. /\ queue \in Seq(Names) /\ Len(queue) \in Nat /\ DOMAIN queue = 1 .. Len(queue)
      /\ Len(queue') = Len(queue) + 1
      /\ \A q \in 1 .. Len(queue) : queue'[q] = queue[q]
      /\ queue'[Len(queue) + 1] = e
  BY LenProperties DEF TypeOK
<1>2. enrichers' = enrichers /\ deps' = deps /\ out' = out
  BY DEF registry
<1> SUFFICES ASSUME NEW a \in Names, NEW b \in Names, FreeBefore(enrichers, deps, a, b),
                    NEW q \in 1 .. Len(queue) + 1, queue'[q] = b
             PROVE  a \in Range(out) \/ \E p \in 1 .. q - 1 : queue'[p] = a
  BY <1>1, <1>2 DEF LineInv
<1>3. CASE q = Len(queue) + 1
  <2>1. a \in Range(queue) \cup Range(out)
    BY <1>1, <1>3
  <2>2. a \in Range(queue) => \E p \in 1 .. Len(queue) : queue[p] = a
    BY <1>1 DEF Range
  <2>3. q - 1 = Len(queue)
    BY <1>1, <1>3
  <2>4. QED BY <1>1, <2>1, <2>2, <2>3
<1>4. CASE q \in 1 .. Len(queue)
  <2>1. a \in Range(out) \/ \E p \in 1 .. q - 1 : queue[p] = a
    BY <1>1, <1>4 DEF LineInv
  <2>2. 1 .. q - 1 \subseteq 1 .. Len(queue)
    BY <1>1, <1>4
  <2>3. QED BY <1>1, <2>1, <2>2
<1>5. QED BY <1>1, <1>3, <1>4

\* The first loop queues in registration order.
LEMMA LineSeed ==
  ASSUME TypeOK, KahnInv, LineInv, Seed
  PROVE  LineInv'
<1>1. /\ UNCHANGED <<registry, out>> /\ enrichers' = enrichers /\ deps' = deps /\ out' = out
      /\ phase = "seed" /\ IsInjective(enrichers)
  BY DEF Seed, registry, KahnInv, RunInv
<1>2. CASE queue' = queue
  BY <1>1, <1>2 DEF LineInv
<1>3. CASE queue' # queue
  <2> DEFINE e == enrichers[i]
  <2>1. i <= Len(enrichers) /\ queue' = Append(queue, e)
    BY <1>3 DEF Seed
  <2>2. /\ i \in Nat \ {0} /\ Len(enrichers) \in Nat /\ DOMAIN enrichers = 1 .. Len(enrichers)
        /\ e \in Names
    BY <2>1, LenProperties, ElementOfSeq DEF TypeOK
  <2>3. ASSUME NEW a \in Names, FreeBefore(enrichers, deps, a, e)
        PROVE  a \in Range(queue) \cup Range(out)
    <3>1. PICK j, k \in DOMAIN enrichers : j < k /\ enrichers[j] = a /\ enrichers[k] = e
      BY <2>3 DEF FreeBefore
    <3>2. i \in DOMAIN enrichers
      BY <2>1, <2>2
    <3>3. k = i
      BY <1>1, <3>1, <3>2 DEF IsInjective
    <3>4. j \in 1 .. i - 1 /\ j <= Len(enrichers)
      BY <2>2, <3>1, <3>3
    <3>5. Past(a)
      BY <3>1, <3>4 DEF Past
    <3>6. QED BY <1>1, <2>2, <2>3, <3>5, FreeIsQueued DEF Sorting
  <2> HIDE DEF e
  <2>4. QED BY <1>1, <2>1, <2>2, <2>3, LineJoin
<1>4. QED BY <1>2, <1>3

\* Retiring the head of the queue moves the line on by one.
LEMMA LinePop ==
  ASSUME TypeOK, LineInv, Pop
  PROVE  LineInv'
<1> DEFINE h == Head(queue)
<1>1. /\ enrichers' = enrichers /\ deps' = deps
      /\ queue' = Tail(queue) /\ out' = Append(out, h)
      /\ queue \in Seq(Names) /\ queue # <<>> /\ out \in Seq(Names)
  BY DEF Pop, registry, TypeOK
<1>2. /\ Len(queue) \in Nat \ {0} /\ DOMAIN queue = 1 .. Len(queue) /\ h = queue[1] /\ h \in Names
      /\ Len(queue') = Len(queue) - 1
      /\ \A q \in 1 .. Len(queue) - 1 : queue'[q] = queue[q + 1]
  BY <1>1, HeadTailProperties, LenProperties, EmptySeq
<1>3. /\ Len(out) \in Nat /\ DOMAIN out = 1 .. Len(out)
      /\ Len(out') = Len(out) + 1
      /\ \A q \in 1 .. Len(out) : out'[q] = out[q]
      /\ out'[Len(out) + 1] = h
      /\ Range(out') = Range(out) \cup {h}
  BY <1>1, <1>2, LenProperties, RangeAppend
<1> HIDE DEF h
<1> SUFFICES ASSUME NEW a \in Names, NEW b \in Names, FreeBefore(enrichers, deps, a, b)
             PROVE  /\ \A q \in 1 .. Len(queue') : queue'[q] = b =>
                         a \in Range(out') \/ \E p \in 1 .. q - 1 : queue'[p] = a
                    /\ \A q \in 1 .. Len(out') : out'[q] = b => \E p \in 1 .. q - 1 : out'[p] = a
  BY <1>1 DEF LineInv
<1>4. ASSUME NEW q \in 1 .. Len(queue), queue[q] = b
      PROVE  a \in Range(out) \/ \E p \in 1 .. q - 1 : queue[p] = a
  BY <1>4 DEF LineInv
<1>5. ASSUME NEW q \in 1 .. Len(out), out[q] = b
      PROVE  \E p \in 1 .. q - 1 : out[p] = a
  BY <1>5 DEF LineInv
<1>6. ASSUME NEW q \in 1 .. Len(queue'), queue'[q] = b, a \notin Range(out')
      PROVE  \E p \in 1 .. q - 1 : queue'[p] = a
  <2>1. q \in 1 .. Len(queue) - 1 /\ q + 1 \in 1 .. Len(queue) /\ queue[q + 1] = b
    BY <1>2, <1>6
  <2>2. PICK p \in 1 .. (q + 1) - 1 : queue[p] = a
    BY <1>3, <1>4, <1>6, <2>1
  <2>3. p # 1
    BY <1>2, <1>3, <1>6, <2>2
  <2>4. p - 1 \in 1 .. q - 1 /\ p - 1 \in 1 .. Len(queue) - 1 /\ (p - 1) + 1 = p
    BY <1>2, <2>1, <2>2, <2>3
  <2>5. queue'[p - 1] = a
    BY <1>2, <2>2, <2>4
  <2>6. QED BY <2>4, <2>5
<1>7. ASSUME NEW q \in 1 .. Len(out'), out'[q] = b
      PROVE  \E p \in 1 .. q - 1 : out'[p] = a
  <2>1. CASE q = Len(out) + 1
    <3>1. queue[1] = b /\ 1 \in 1 .. Len(queue)
      BY <1>2, <1>3, <1>7, <2>1
    <3>2. a \in Range(out)
      BY <1>4, <3>1
    <3>3. PICK p \in 1 .. Len(out) : out[p] = a
      BY <1>3, <3>2 DEF Range
    <3>4. p \in 1 .. q - 1 /\ out'[p] = a
      BY <1>3, <2>1, <3>3
    <3>5. QED BY <3>4
  <2>2. CASE q \in 1 .. Len(out)
    <3>1. PICK p \in 1 .. q - 1 : out[p] = a
      BY <1>3, <1>5, <1>7, <2>2
    <3>2. p \in 1 .. Len(out)
      BY <1>3, <2>2, <3>1
    <3>3. QED BY <1>3, <3>1, <3>2
  <2>3. QED BY <1>3, <2>1, <2>2
<1>8. QED BY <1>6, <1>7

\* What a retirement releases joins behind all that waited for nothing.
LEMMA LineRelease ==
  ASSUME TypeOK, KahnInv, LineInv, Release
  PROVE  LineInv'
<1>1. /\ UNCHANGED <<registry, out>> /\ enrichers' = enrichers /\ deps' = deps /\ out' = out
      /\ phase = "release"
  BY DEF Release, registry
<1>2. CASE queue' = queue
  BY <1>1, <1>2 DEF LineInv
<1>3. CASE queue' # queue
  <2> DEFINE e == enrichers[i]
  <2>1. i <= Len(enrichers) /\ queue' = Append(queue, e)
    BY <1>3 DEF Release
  <2>2. e \in Names
    BY <2>1, ElementOfSeq DEF TypeOK
  <2> HIDE DEF e
  <2>3. \A a \in Names : FreeBefore(enrichers, deps, a, e) => a \in Range(queue) \cup Range(out)
    BY <1>1, <2>2, FreeIsQueued DEF Sorting
  <2>4. QED BY <1>1, <2>1, <2>2, <2>3, LineJoin
<1>4. QED BY <1>2, <1>3

\* Kahn's queue is first in, first out: an enricher that waits for nothing is
\* dispatched before every one registered behind it, on any registry.
THEOREM FreeOrderTheorem == Spec => []FreeRunInOrder
<1>1. Init => LineInv
  <2> SUFFICES ASSUME Init PROVE LineInv
    OBVIOUS
  <2>1. Len(queue) = 0 /\ Len(out) = 0
    BY DEF Init
  <2>2. QED BY <2>1 DEF LineInv
<1>2. TypeOK /\ KahnInv /\ LineInv /\ [Next]_vars => LineInv'
  <2> SUFFICES ASSUME TypeOK, KahnInv, LineInv, [Next]_vars PROVE LineInv'
    OBVIOUS
  <2>1. CASE Seed \/ Pop \/ Release
    BY <2>1, LineSeed, LinePop, LineRelease
  <2>2. CASE ~(Seed \/ Pop \/ Release)
    <3>1. enrichers' = enrichers /\ deps' = deps /\ queue' = queue /\ out' = out
      BY <2>2 DEF Next, Step, IndexByName, Sorted, Dispatch, EnrichSucceeds, EnrichFails, Finish,
                  Cancel, vars, registry, sorting
    <3>2. QED BY <3>1 DEF LineInv
  <2>3. QED BY <2>1, <2>2
<1>3. TypeOK /\ KahnInv /\ LineInv => FreeRunInOrder
  <2> SUFFICES ASSUME TypeOK, KahnInv, LineInv, phase = "enrich",
                      NEW a \in Names, FreeBefore(enrichers, deps, a, out[i])
               PROVE  a \in Range(ran)
    BY DEF FreeRunInOrder
  <2>1. /\ i \in Nat \ {0} /\ i <= Len(out) /\ Len(out) \in Nat
        /\ DOMAIN ran = 1 .. i - 1
        /\ \A m \in 1 .. i - 1 : ran[m] = out[m]
    BY LenProperties DEF TypeOK, KahnInv, RunInv
  <2>2. i \in 1 .. Len(out) /\ out[i] \in Names
    BY <2>1, ElementOfSeq DEF TypeOK
  <2>3. PICK p \in 1 .. i - 1 : out[p] = a
    BY <2>2 DEF LineInv
  <2>4. QED BY <2>1, <2>3 DEF Range
<1>4. QED BY <1>1, <1>2, <1>3, TypeCorrect, KahnInvariant, PTL DEF Spec

\* Where attribution is registered before basediff and waits for nothing, as
\* in every selection of the command's enrichers, it runs first, although
\* basediff declares no dependency on it.
THEOREM AttributionTheorem ==
  Spec => [](AttributionFirst(enrichers, deps) => AttributionBeforeBasediff)
<1>1. TypeOK /\ KahnInv /\ FreeRunInOrder => (AttributionFirst(enrichers, deps) => AttributionBeforeBasediff)
  <2> SUFFICES ASSUME TypeOK, KahnInv, FreeRunInOrder, AttributionFirst(enrichers, deps),
                      phase = "enrich", out[i] = "basediff", "attribution" \in Present
               PROVE  "attribution" \in Range(ran)
    BY DEF AttributionBeforeBasediff
  <2>1. i \in DOMAIN out
    BY LenProperties DEF TypeOK
  <2>2. "basediff" \in Present
    BY <2>1 DEF KahnInv, QueueInv, Range
  <2>3. FreeBefore(enrichers, deps, "attribution", "basediff")
    BY <2>2 DEF AttributionFirst, Present
  <2>4. "attribution" \in Names
    BY Finite
  <2>5. QED BY <2>3, <2>4 DEF FreeRunInOrder
<1>2. QED BY <1>1, TypeCorrect, KahnInvariant, FreeOrderTheorem, PTL

-----------------------------------------------------------------------------
(* Pipeline implements EnrichmentRun.                                      *)

\* A step that keeps ran and the registry and moves between running phases,
\* or to "failed", is a stutter or the failure of the run.
LEMMA QuietStep ==
  ASSUME UNCHANGED <<registry, ran>>, phase \notin {"done", "failed"}, phase' # "done"
  PROVE  [Promise!Next]_(Promise!vars)
<1>1. enrichers' = enrichers /\ deps' = deps /\ Range(ran)' = Range(ran)
  BY DEF registry
<1>2. Outcome = "running" /\ (Outcome' = "running" \/ Outcome' = "failed")
  BY DEF Outcome
<1>3. CASE Outcome' = "running"
  BY <1>1, <1>2, <1>3 DEF Promise!vars
<1>4. CASE Outcome' = "failed"
  <2>1. Promise!Fail
    BY <1>1, <1>2, <1>4 DEF Promise!Fail
  <2>2. QED BY <2>1 DEF Promise!Next
<1>5. QED BY <1>2, <1>3, <1>4

\* Every behaviour of Run, whatever the registry and wherever it fails or is
\* cancelled, is a behaviour the abstract run allows.
THEOREM RefinementTheorem == Spec => ImplementsEnrichmentRun
<1>1. Init => Promise!Init
  <2> SUFFICES ASSUME Init PROVE Promise!Init
    OBVIOUS
  <2>1. Outcome = "running" /\ Range(ran) = {}
    BY EmptyRange DEF Init, Outcome
  <2>2. QED BY <2>1 DEF Init, Promise!Init
<1>2. TypeOK /\ KahnInv /\ DependenciesFirst /\ StampMeansAllRan /\ StampMeansAllRan' /\ [Next]_vars
        => [Promise!Next]_(Promise!vars)
  <2> SUFFICES ASSUME TypeOK, KahnInv, DependenciesFirst, StampMeansAllRan, StampMeansAllRan', [Next]_vars
               PROVE  [Promise!Next]_(Promise!vars)
    OBVIOUS
  <2>1. CASE IndexByName \/ Seed \/ Pop \/ Release \/ Sorted \/ Dispatch \/ EnrichFails \/ Cancel
    <3>1. UNCHANGED <<registry, ran>> /\ phase \notin {"done", "failed"} /\ phase' # "done"
      BY <2>1 DEF IndexByName, Seed, Pop, Release, Sorted, Dispatch, EnrichFails, Cancel, Fail
    <3>2. QED BY <3>1, QuietStep
  <2>2. CASE EnrichSucceeds
    <3>1. PICK e : e = out[i]
      OBVIOUS
    <3>2. /\ phase = "enrich" /\ phase' = "run" /\ ran' = Append(ran, e)
          /\ enrichers' = enrichers /\ deps' = deps
      BY <2>2, <3>1 DEF EnrichSucceeds, registry
    <3>3. RealDeps(e) \subseteq Range(ran) /\ e \notin Range(ran)
      BY <3>1, <3>2 DEF DependenciesFirst
    <3>4. e \in Present /\ e \in Names
      <4>1. i \in DOMAIN out
        BY <3>2, LenProperties DEF TypeOK
      <4>2. e \in Range(out)
        BY <3>1, <4>1 DEF Range
      <4>3. QED BY <4>2, Finite DEF KahnInv, QueueInv
    <3>5. Range(ran') = Range(ran) \cup {e}
      <4>1. ran \in Seq(Names)
        BY DEF TypeOK
      <4>2. QED BY <3>2, <3>4, <4>1, RangeAppend
    <3>6. Outcome = "running" /\ Outcome' = "running"
      BY <3>2 DEF Outcome
    <3>7. Promise!Perform(e)
      BY <3>2, <3>3, <3>4, <3>5, <3>6 DEF Promise!Perform, RealDeps, Present, Range, Promise!Range
    <3>8. QED BY <3>4, <3>7 DEF Promise!Next, Present, Range, Promise!Range
  <2>3. CASE Finish
    <3>1. /\ phase = "run" /\ phase' = "done" /\ ran' = ran /\ stamped'
          /\ enrichers' = enrichers /\ deps' = deps
      BY <2>3 DEF Finish, registry
    <3>2. Range(ran) = Present
      BY <3>1, Frame DEF StampMeansAllRan, Present
    <3>3. Outcome = "running" /\ Outcome' = "enriched"
      BY <3>1 DEF Outcome
    <3>4. Promise!Succeed
      BY <3>1, <3>2, <3>3 DEF Promise!Succeed, Present, Range, Promise!Range
    <3>5. QED BY <3>4 DEF Promise!Next
  <2>4. CASE UNCHANGED vars
    BY <2>4 DEF vars, registry, Promise!vars, Outcome
  <2>5. QED BY <2>1, <2>2, <2>3, <2>4 DEF Next, Step
<1>3. QED
  BY <1>1, <1>2, TypeCorrect, KahnInvariant, DependenciesFirstTheorem, StampTheorem, PTL
  DEF Spec, ImplementsEnrichmentRun, Promise!Spec
=============================================================================
