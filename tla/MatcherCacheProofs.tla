------------------------ MODULE MatcherCacheProofs ------------------------
(***************************************************************************)
(* Proofs about MatcherCache, for every number of goroutines, every finite *)
(* set of keys, every capacity and every TTL.                              *)
(***************************************************************************)
EXTENDS MatcherCache, Functions, FiniteSetTheorems, SequenceTheorems, TLAPS

-----------------------------------------------------------------------------
(* The elements of the eviction queue under Append and Tail.                 *)

\* What appending an element does to the elements of a sequence.
LEMMA RangeAppend ==
  ASSUME NEW S, NEW s \in Seq(S), NEW k \in S
  PROVE  Range(Append(s, k)) = Range(s) \cup {k}
<1>1. /\ DOMAIN s = 1 .. Len(s) /\ Len(s) \in Nat
      /\ DOMAIN Append(s, k) = 1 .. Len(s) + 1
      /\ \A i \in 1 .. Len(s) : Append(s, k)[i] = s[i]
      /\ Append(s, k)[Len(s) + 1] = k
  OBVIOUS
<1>2. \A i \in 1 .. Len(s) + 1 : i \in 1 .. Len(s) \/ i = Len(s) + 1
  BY <1>1
<1>3. 1 .. Len(s) \subseteq 1 .. Len(s) + 1 /\ Len(s) + 1 \in 1 .. Len(s) + 1
  BY <1>1
<1>4. Range(Append(s, k)) \subseteq Range(s) \cup {k}
  BY <1>1, <1>2 DEF Range
<1>5. Range(s) \cup {k} \subseteq Range(Append(s, k))
  BY <1>1, <1>3 DEF Range
<1>6. QED BY <1>4, <1>5

\* Dropping the head loses at most the head.
LEMMA RangeTail ==
  ASSUME NEW S, NEW s \in Seq(S), s # <<>>
  PROVE  /\ Range(s) \ {Head(s)} \subseteq Range(Tail(s))
         /\ Range(Tail(s)) \subseteq Range(s)
<1>1. /\ Tail(s) \in Seq(S) /\ Len(Tail(s)) = Len(s) - 1 /\ Len(s) \in Nat \ {0}
      /\ DOMAIN s = 1 .. Len(s) /\ DOMAIN Tail(s) = 1 .. Len(s) - 1
      /\ \A i \in 1 .. Len(s) - 1 : Tail(s)[i] = s[i + 1]
      /\ Head(s) = s[1]
  BY HeadTailProperties, LenProperties, EmptySeq
<1>2. \A i \in 1 .. Len(s) : i # 1 => i - 1 \in 1 .. Len(s) - 1 /\ Tail(s)[i - 1] = s[i]
  BY <1>1
<1>3. \A i \in 1 .. Len(s) - 1 : i + 1 \in 1 .. Len(s)
  BY <1>1
<1>4. ASSUME NEW x \in Range(s), x # Head(s) PROVE x \in Range(Tail(s))
  <2>1. PICK i \in 1 .. Len(s) : x = s[i]
    BY <1>1 DEF Range
  <2>2. i # 1 /\ i - 1 \in 1 .. Len(s) - 1 /\ Tail(s)[i - 1] = x
    BY <1>1, <1>2, <1>4, <2>1
  <2>3. QED BY <1>1, <2>2 DEF Range
<1>5. ASSUME NEW x \in Range(Tail(s)) PROVE x \in Range(s)
  <2>1. PICK i \in 1 .. Len(s) - 1 : x = Tail(s)[i]
    BY <1>1 DEF Range
  <2>2. i + 1 \in 1 .. Len(s) /\ x = s[i + 1]
    BY <1>1, <1>3, <2>1
  <2>3. QED BY <1>1, <2>2 DEF Range
<1>6. QED BY <1>4, <1>5

\* A sequence has at least as many places as elements.
LEMMA RangeCardinality ==
  ASSUME NEW S, NEW s \in Seq(S)
  PROVE  IsFiniteSet(Range(s)) /\ Cardinality(Range(s)) <= Len(s)
<1>1. Len(s) \in Nat /\ DOMAIN s = 1 .. Len(s) /\ s \in [1 .. Len(s) -> S]
  BY LenProperties
<1>2. s \in Surjection(1 .. Len(s), Range(s))
  BY <1>1 DEF Surjection, Range
<1>3. IsFiniteSet(1 .. Len(s)) /\ Cardinality(1 .. Len(s)) = Len(s)
  BY <1>1, FS_Interval
<1>4. QED BY <1>2, <1>3, FS_Surjection

\* Appending a new element keeps the places of a sequence distinct.
LEMMA InjectiveAppend ==
  ASSUME NEW S, NEW s \in Seq(S), NEW k \in S, IsInjective(s), k \notin Range(s)
  PROVE  IsInjective(Append(s, k))
<1>1. /\ DOMAIN s = 1 .. Len(s) /\ Len(s) \in Nat
      /\ DOMAIN Append(s, k) = 1 .. Len(s) + 1
      /\ \A i \in 1 .. Len(s) : Append(s, k)[i] = s[i] /\ s[i] # k
      /\ Append(s, k)[Len(s) + 1] = k
  BY DEF Range
<1>2. \A i \in 1 .. Len(s) + 1 : i \in 1 .. Len(s) \/ i = Len(s) + 1
  BY <1>1
<1>3. QED BY <1>1, <1>2 DEF IsInjective

\* The tail of a sequence without repetition loses exactly the head.
LEMMA InjectiveTail ==
  ASSUME NEW S, NEW s \in Seq(S), s # <<>>, IsInjective(s)
  PROVE  /\ IsInjective(Tail(s))
         /\ Range(Tail(s)) = Range(s) \ {Head(s)}
         /\ Head(s) \in Range(s)
<1>1. /\ Tail(s) \in Seq(S) /\ Len(Tail(s)) = Len(s) - 1 /\ Len(s) \in Nat \ {0}
      /\ DOMAIN s = 1 .. Len(s) /\ DOMAIN Tail(s) = 1 .. Len(s) - 1
      /\ \A i \in 1 .. Len(s) - 1 : Tail(s)[i] = s[i + 1]
      /\ Head(s) = s[1]
  BY HeadTailProperties, LenProperties, EmptySeq
<1>2. \A i \in 1 .. Len(s) - 1 : i + 1 \in 1 .. Len(s) /\ i + 1 # 1
  BY <1>1
<1>3. IsInjective(Tail(s))
  <2> SUFFICES ASSUME NEW i \in 1 .. Len(s) - 1, NEW j \in 1 .. Len(s) - 1,
                      Tail(s)[i] = Tail(s)[j]
               PROVE  i = j
    BY <1>1 DEF IsInjective
  <2>1. s[i + 1] = s[j + 1] /\ i + 1 \in DOMAIN s /\ j + 1 \in DOMAIN s
    BY <1>1, <1>2
  <2>2. i + 1 = j + 1
    BY <2>1 DEF IsInjective
  <2>3. QED BY <2>2
<1>4. Head(s) \notin Range(Tail(s))
  <2> SUFFICES ASSUME NEW i \in 1 .. Len(s) - 1, Tail(s)[i] = s[1] PROVE FALSE
    BY <1>1 DEF Range
  <2>1. s[i + 1] = s[1] /\ i + 1 \in DOMAIN s /\ 1 \in DOMAIN s
    BY <1>1, <1>2
  <2>2. i + 1 = 1
    BY <2>1 DEF IsInjective
  <2>3. QED BY <2>2
<1>5. Head(s) \in Range(s)
  BY <1>1 DEF Range
<1>6. QED BY <1>3, <1>4, <1>5, RangeTail

-----------------------------------------------------------------------------
\* The invariant BoundUpToExpiries rests on, without its last conjunct: the
\* queue covers the map, and is longer than it by at most one place per
\* expiry removal.
QueueInv ==
  /\ Live \subseteq Queued
  /\ Len(order) <= Cardinality(Live) + expired
  /\ Len(order) <= MaxEntries + expired

\* The types of all variables are kept (CachedMatcher.Lookup with any number
\* of goroutines).
THEOREM TypeCorrect == Spec => []TypeOK
<1>1. Init => TypeOK
  BY CacheAssumption DEF Init, TypeOK
<1>2. TypeOK /\ [Next]_vars => TypeOK'
  <2> SUFFICES ASSUME TypeOK, [Next]_vars PROVE TypeOK'
    OBVIOUS
  <2>1. ASSUME NEW c \in Callers, NEW k \in Keys, Lookup(c, k) PROVE TypeOK'
    BY <2>1 DEF TypeOK, Lookup
  <2>2. ASSUME NEW c \in Callers, CheckAge(c) PROVE TypeOK'
    BY <2>2 DEF TypeOK, CheckAge
  <2>3. ASSUME NEW c \in Callers, Expire(c) PROVE TypeOK'
    BY <2>3 DEF TypeOK, Expire
  <2>4. ASSUME NEW c \in Callers, InnerAnswers(c) PROVE TypeOK'
    <3>1. PICK v \in Matches \cup {NoMatch} :
            held' = [held EXCEPT ![c] = [val |-> v, insert |-> now]]
      BY <2>4 DEF InnerAnswers
    <3>2. [val |-> v, insert |-> now] \in Entry
      BY DEF TypeOK, Entry
    <3>3. [val |-> v, insert |-> now] # NoEntry
      BY <3>2, CacheAssumption
    <3>4. QED BY <2>4, <3>1, <3>2, <3>3 DEF TypeOK, InnerAnswers
  <2>5. ASSUME NEW c \in Callers, InnerFails(c) PROVE TypeOK'
    BY <2>5 DEF TypeOK, InnerFails
  <2>6. ASSUME NEW c \in Callers, Store(c) PROVE TypeOK'
    <3>1. key[c] \in Keys /\ held[c] \in Entry
      BY <2>6 DEF TypeOK, Store
    <3>2. order # <<>> => Head(order) \in Keys /\ Tail(order) \in Seq(Keys)
      BY HeadTailProperties DEF TypeOK
    <3>3. entries' \in [Keys -> Entry \cup {NoEntry}]
      BY <2>6, <3>1, <3>2 DEF TypeOK, Store, Write
    <3>4. order' \in Seq(Keys)
      <4>1. order \in Seq(Keys)
        BY DEF TypeOK
      <4>2. \/ order' = order
            \/ order' = Append(order, key[c])
            \/ order # <<>> /\ order' = Append(Tail(order), key[c])
        BY <2>6 DEF Store, Write
      <4>3. QED BY <3>1, <3>2, <4>1, <4>2
    <3>5. QED BY <2>6, <3>3, <3>4 DEF TypeOK, Store
  <2>7. CASE Tick
    BY <2>7 DEF TypeOK, Tick
  <2>8. CASE UNCHANGED vars
    BY <2>8 DEF TypeOK, vars
  <2>9. QED BY <2>1, <2>2, <2>3, <2>4, <2>5, <2>6, <2>7, <2>8 DEF Next, Progress
<1>3. QED BY <1>1, <1>2, PTL DEF Spec

\* What Write does to the set of live keys and to the queue.
LEMMA WriteEffect ==
  ASSUME TypeOK, NEW k \in Keys, NEW e \in Entry, Write(k, e)
  PROVE  \/ /\ k \in Live /\ Live' = Live /\ order' = order
         \/ /\ k \notin Live /\ (~Full \/ order = <<>>)
            /\ Live' = Live \cup {k} /\ order' = Append(order, k)
         \/ /\ k \notin Live /\ Full /\ order # <<>>
            /\ Live' = (Live \ {Head(order)}) \cup {k}
            /\ order' = Append(Tail(order), k)
<1>0. e # NoEntry
  BY CacheAssumption
<1>1. CASE k \in Live
  <2>1. entries' = [entries EXCEPT ![k] = e] /\ order' = order
    BY <1>1 DEF Write
  <2>2. Live' = Live
    BY <2>1, <1>0, <1>1 DEF Live, TypeOK
  <2>3. QED BY <1>1, <2>1, <2>2
<1>2. CASE k \notin Live /\ (~Full \/ order = <<>>)
  <2>1. entries' = [entries EXCEPT ![k] = e] /\ order' = Append(order, k)
    BY <1>2 DEF Write
  <2>2. Live' = Live \cup {k}
    BY <2>1, <1>0 DEF Live, TypeOK
  <2>3. QED BY <1>2, <2>1, <2>2
<1>3. CASE k \notin Live /\ Full /\ order # <<>>
  <2>1. /\ entries' = [entries EXCEPT ![Head(order)] = NoEntry, ![k] = e]
        /\ order' = Append(Tail(order), k)
    BY <1>3 DEF Write
  <2>2. Head(order) \in Keys
    BY <1>3, HeadTailProperties DEF TypeOK
  <2>3. Live' = (Live \ {Head(order)}) \cup {k}
    BY <2>1, <2>2, <1>0 DEF Live, TypeOK
  <2>4. QED BY <1>3, <2>1, <2>3
<1>4. QED BY <1>1, <1>2, <1>3

\* store keeps the queue invariant.
LEMMA WriteKeepsQueueInv ==
  ASSUME TypeOK, QueueInv, NEW k \in Keys, NEW e \in Entry, Write(k, e),
         expired' = expired
  PROVE  QueueInv'
<1>1. /\ IsFiniteSet(Live) /\ Cardinality(Live) \in Nat
      /\ Len(order) \in Nat /\ order \in Seq(Keys)
      /\ MaxEntries \in Nat \ {0} /\ expired \in Nat
  BY FS_Subset, FS_CardinalityType, CacheAssumption DEF Live, TypeOK
<1>2. Queued = Range(order) /\ Queued' = Range(order')
  BY DEF Queued, Range
<1>3. CASE k \in Live /\ Live' = Live /\ order' = order
  BY <1>2, <1>3 DEF QueueInv
<1>4. CASE k \notin Live /\ ~Full /\ Live' = Live \cup {k} /\ order' = Append(order, k)
  <2>1. Cardinality(Live') = Cardinality(Live) + 1
    BY <1>1, <1>4, FS_AddElement
  <2>2. Len(order') = Len(order) + 1
    BY <1>1, <1>4
  <2>3. Queued' = Queued \cup {k}
    BY <1>1, <1>2, <1>4, RangeAppend
  <2>4. Cardinality(Live) < MaxEntries
    BY <1>1, <1>4 DEF Full
  <2>5. QED BY <1>1, <1>4, <2>1, <2>2, <2>3, <2>4 DEF QueueInv
<1>5. CASE /\ k \notin Live /\ Full /\ order # <<>>
           /\ Live' = (Live \ {Head(order)}) \cup {k}
           /\ order' = Append(Tail(order), k)
  <2>1. Tail(order) \in Seq(Keys) /\ Len(Tail(order)) = Len(order) - 1
    BY <1>1, <1>5, HeadTailProperties
  <2>2. Len(order') = Len(order)
    BY <1>1, <1>5, <2>1
  <2>3. Range(order) \ {Head(order)} \subseteq Range(Tail(order))
    BY <1>1, <1>5, RangeTail
  <2>4. Queued' = Range(Tail(order)) \cup {k}
    BY <1>2, <1>5, <2>1, RangeAppend
  <2>5. Live' \subseteq Queued'
    BY <1>2, <1>5, <2>3, <2>4 DEF QueueInv
  <2>6. Cardinality(Live') >= Cardinality(Live)
    <3> DEFINE L == Live \ {Head(order)}
    <3>1. /\ IsFiniteSet(L)
          /\ Cardinality(L) = IF Head(order) \in Live THEN Cardinality(Live) - 1
                                                     ELSE Cardinality(Live)
      BY <1>1, FS_RemoveElement
    <3>2. Cardinality(L \cup {k}) = Cardinality(L) + 1
      BY <1>5, <3>1, FS_AddElement
    <3>3. QED BY <1>1, <1>5, <3>1, <3>2
  <2>7. Cardinality(Live') \in Nat
    BY FS_Subset, FS_CardinalityType, CacheAssumption DEF Live
  <2>8. QED BY <1>1, <2>2, <2>5, <2>6, <2>7 DEF QueueInv
<1>6. ASSUME k \notin Live, Full, order = <<>> PROVE FALSE
  <2>1. Queued = {}
    BY <1>6 DEF Queued, Range
  <2>2. Live = {}
    BY <2>1 DEF QueueInv
  <2>3. Cardinality(Live) = 0
    BY <2>2, FS_EmptySet
  <2>4. QED BY <1>1, <1>6, <2>3 DEF Full
<1>7. QED BY WriteEffect, <1>3, <1>4, <1>5, <1>6

\* The queue invariant holds in every state.
THEOREM QueueInvariant == Spec => []QueueInv
<1>1. Init => QueueInv
  <2> SUFFICES ASSUME Init PROVE QueueInv
    OBVIOUS
  <2>1. Live = {} /\ Cardinality(Live) = 0 /\ Len(order) = 0
    BY FS_EmptySet DEF Init, Live
  <2>2. QED BY <2>1, CacheAssumption DEF Init, QueueInv
<1>2. TypeOK /\ QueueInv /\ [Next]_vars => QueueInv'
  <2> SUFFICES ASSUME TypeOK, QueueInv, [Next]_vars PROVE QueueInv'
    OBVIOUS
  <2>1. ASSUME UNCHANGED <<entries, order, expired>> PROVE QueueInv'
    BY <2>1 DEF QueueInv, Live, Queued
  <2>2. ASSUME NEW c \in Callers, Expire(c) PROVE QueueInv'
    <3>1. key[c] \in Keys /\ expired \in Nat /\ Len(order) \in Nat /\ MaxEntries \in Nat
      BY CacheAssumption DEF TypeOK
    <3>2. IsFiniteSet(Live) /\ Cardinality(Live) \in Nat
      BY FS_Subset, FS_CardinalityType, CacheAssumption DEF Live
    <3>3. Live' = Live \ {key[c]} /\ order' = order
      BY <2>2, <3>1 DEF Expire, Live, TypeOK
    <3>4. Queued' = Queued
      BY <3>3 DEF Queued
    <3>5. Cardinality(Live') = IF key[c] \in Live THEN Cardinality(Live) - 1
                                                  ELSE Cardinality(Live)
      BY <3>2, <3>3, FS_RemoveElement
    <3>6. expired' = IF key[c] \in Live THEN expired + 1 ELSE expired
      BY <2>2 DEF Expire
    <3>7. QED BY <3>1, <3>2, <3>3, <3>4, <3>5, <3>6 DEF QueueInv
  <2>3. ASSUME NEW c \in Callers, Store(c) PROVE QueueInv'
    <3>1. key[c] \in Keys /\ held[c] \in Entry
      BY <2>3 DEF TypeOK, Store
    <3>2. QED BY <2>3, <3>1, WriteKeepsQueueInv DEF Store
  <2>4. QED
    BY <2>1, <2>2, <2>3
    DEF Next, Progress, Lookup, CheckAge, InnerAnswers, InnerFails, Tick, vars
<1>3. QED BY <1>1, <1>2, TypeCorrect, PTL DEF Spec

\* Every entry of the map can be evicted.
THEOREM CoverTheorem == Spec => []OrderCoversEntries
<1>1. QueueInv => OrderCoversEntries
  BY DEF QueueInv, OrderCoversEntries
<1>2. QED BY <1>1, QueueInvariant, PTL

\* The cache never holds more than MaxEntries entries plus one for each entry
\* that read() has expired, and c.order never grows beyond that either.
THEOREM BoundTheorem == Spec => []BoundUpToExpiries
<1>1. TypeOK /\ QueueInv => BoundUpToExpiries
  <2> SUFFICES ASSUME TypeOK, QueueInv PROVE BoundUpToExpiries
    OBVIOUS
  <2>1. IsFiniteSet(Queued) /\ Cardinality(Queued) <= Len(order)
    BY RangeCardinality DEF TypeOK, Queued, Range
  <2>2. Cardinality(Live) <= Cardinality(Queued)
    BY <2>1, FS_Subset DEF QueueInv
  <2>3. Cardinality(Live) \in Nat /\ Cardinality(Queued) \in Nat /\ Len(order) \in Nat
        /\ expired \in Nat /\ MaxEntries \in Nat
    BY <2>1, FS_Subset, FS_CardinalityType, CacheAssumption DEF Live, TypeOK
  <2>4. QED BY <2>1, <2>2, <2>3 DEF QueueInv, BoundUpToExpiries
<1>2. QED BY <1>1, TypeCorrect, QueueInvariant, PTL

-----------------------------------------------------------------------------
\* Until the first expiry c.order is exactly the FIFO queue of the map's keys,
\* for every interleaving of the goroutines' reads, fills and stores.
THEOREM ExactQueueTheorem == Spec => []ExactQueueUntilExpiry
<1> DEFINE Exact == expired = 0 => Range(order) = Live /\ IsInjective(order)
<1>1. Exact <=> ExactQueueUntilExpiry
  BY DEF ExactQueueUntilExpiry, Range, IsInjective, Queued
<1>2. Init => Exact
  BY DEF Init, Range, IsInjective, Live
<1>3. TypeOK /\ Exact /\ [Next]_vars => Exact'
  <2> SUFFICES ASSUME TypeOK, Exact, [Next]_vars, expired' = 0
               PROVE  Range(order') = Live' /\ IsInjective(order')
    OBVIOUS
  <2>1. ASSUME UNCHANGED <<entries, order, expired>> PROVE Range(order') = Live' /\ IsInjective(order')
    BY <2>1 DEF Live
  <2>2. ASSUME NEW c \in Callers, Expire(c) PROVE Range(order') = Live' /\ IsInjective(order')
    <3>1. key[c] \notin Live /\ expired = 0
      BY <2>2 DEF Expire, TypeOK
    <3>2. Live' = Live /\ order' = order
      BY <2>2, <3>1 DEF Expire, Live, TypeOK
    <3>3. QED BY <3>1, <3>2
  <2>3. ASSUME NEW c \in Callers, Store(c) PROVE Range(order') = Live' /\ IsInjective(order')
    <3>1. /\ key[c] \in Keys /\ held[c] \in Entry /\ Write(key[c], held[c])
          /\ order \in Seq(Keys)
      BY <2>3 DEF TypeOK, Store
    <3>2. Range(order) = Live /\ IsInjective(order)
      BY <2>3 DEF Store
    <3>3. CASE Live' = Live /\ order' = order
      BY <3>2, <3>3
    <3>4. CASE key[c] \notin Live /\ Live' = Live \cup {key[c]} /\ order' = Append(order, key[c])
      BY <3>1, <3>2, <3>4, RangeAppend, InjectiveAppend
    <3>5. CASE /\ key[c] \notin Live /\ order # <<>>
               /\ Live' = (Live \ {Head(order)}) \cup {key[c]}
               /\ order' = Append(Tail(order), key[c])
      <4>1. Tail(order) \in Seq(Keys)
        BY <3>1, <3>5, HeadTailProperties
      <4>2. IsInjective(Tail(order)) /\ Range(Tail(order)) = Live \ {Head(order)}
        BY <3>1, <3>2, <3>5, InjectiveTail
      <4>3. key[c] \notin Range(Tail(order))
        BY <3>5, <4>2
      <4>4. Range(Append(Tail(order), key[c])) = Range(Tail(order)) \cup {key[c]}
        <5>1. \A s \in Seq(Keys), k \in Keys : Range(Append(s, k)) = Range(s) \cup {k}
          BY RangeAppend
        <5>2. key[c] \in Keys
          BY <3>1
        <5>3. QED BY <4>1, <5>1, <5>2, Zenon
      <4>5. IsInjective(order')
        BY <3>1, <3>5, <4>1, <4>2, <4>3, InjectiveAppend
      <4>6. QED BY <3>5, <4>2, <4>4, <4>5
    <3>6. QED BY <3>1, <3>3, <3>4, <3>5, WriteEffect
  <2>4. QED
    BY <2>1, <2>2, <2>3
    DEF Next, Progress, Lookup, CheckAge, InnerAnswers, InnerFails, Tick, vars
<1>4. QED BY <1>1, <1>2, <1>3, TypeCorrect, PTL DEF Spec
=============================================================================
