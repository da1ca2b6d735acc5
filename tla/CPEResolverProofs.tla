------------------------- MODULE CPEResolverProofs --------------------------
(***************************************************************************)
(* What the CPE resolver promises, for every list of components, every set *)
(* of sources and whatever they know, every drip rate of the token bucket  *)
(* and every delay and failure of the requests.                            *)
(***************************************************************************)
EXTENDS CPEResolver, SequenceTheorems, TLAPS

Packages == {Package(Lookups[n]) : n \in DOMAIN Lookups}

\* The answer a is complete and sound for package k.
Own(k, a) ==
  /\ \A s \in Sources : ~s.network => Range(Candidates(s, k)) \subseteq Range(a)
  /\ Range(a) \subseteq UNION {Range(Candidates(s, k)) : s \in chain}

\* Each component so far has the cached answer of its package, each cached
\* answer is that package's own, and no package is resolved twice.
AnswerInv ==
  /\ Len(answers) = i - 1 /\ i <= Len(Lookups) + 1
  /\ \A j \in DOMAIN answers : /\ Package(Lookups[j]) \in DOMAIN cache
                               /\ answers[j] = cache[Package(Lookups[j])]
  /\ \A k \in DOMAIN cache : Own(k, cache[k])
  /\ phase # "cache" => i <= Len(Lookups) /\ Current \notin DOMAIN cache

\* What was found has been said by the sources asked, all that the offline ones
\* of them know is in it, and a high confidence among that has been noticed.
WalkInv ==
  phase # "cache" =>
    /\ acc.all \in Seq(Range(acc.all))
    /\ Range(acc.all) \subseteq UNION {Range(Candidates(s, Current)) : s \in chain}
    /\ \A s \in chain \ left : ~s.network =>
         /\ Range(Candidates(s, Current)) \subseteq Range(acc.all)
         /\ High(Candidates(s, Current)) => acc.high

\* Who is waited for: a service, and at the token bucket the NVD, which there
\* was a reason to ask.
WaitInv ==
  /\ phase \in {"sleep", "request"} => \A s \in left : Due(s) => s.network
  /\ phase = "sleep" => \A s \in left : Due(s) => s.name = "nvd-api" /\ ~Skipped(s)

ResolveInv == AnswerInv /\ WalkInv /\ WaitInv

\* A request was for a package that is resolved, or for the one at hand; there
\* its source is not asked again.
RequestInv ==
  \A s \in Sources : \A n \in DOMAIN requests[s] :
    \/ requests[s][n].key \in DOMAIN cache
    \/ /\ phase # "cache" /\ requests[s][n].key = Current
       /\ s \in left => phase = "request" /\ Due(s)

\* The requests of a service are for different packages.
OnceInv ==
  \A s \in Sources : \A j, k \in DOMAIN requests[s] : requests[s][j].key = requests[s][k].key => j = k

\* From any request to the NVD on, the requests and what is left in the bucket
\* are paid for by a full bucket and the time since.
LedgerInv ==
  \A s \in Sources : s.name = "nvd-api" =>
    \A j \in DOMAIN requests[s] :
      /\ requests[s][j].at <= lastRefill
      /\ (Len(requests[s]) - j + 1) * Period + tokens <= burst * Period + (lastRefill - requests[s][j].at)

-----------------------------------------------------------------------------
(* Lists of candidates, of answers and of requests.                        *)

\* A sequence over some set is a sequence of its own elements.
LEMMA SeqOfOwn ==
  ASSUME NEW S, NEW s \in Seq(S)
  PROVE  s \in Seq(Range(s))
<1>1. Len(s) \in Nat /\ s \in [1 .. Len(s) -> S] /\ DOMAIN s = 1 .. Len(s)
  BY LenProperties
<1>2. s \in [1 .. Len(s) -> Range(s)]
  BY <1>1 DEF Range
<1>3. QED BY <1>1, <1>2

\* What one more answer does to the list of answers (append in Enrich).
LEMMA OneMore ==
  ASSUME NEW s, s \in Seq(Range(s)), NEW x
  PROVE  /\ Append(s, x) \in Seq(Range(Append(s, x)))
         /\ Len(s) \in Nat /\ Len(Append(s, x)) = Len(s) + 1
         /\ DOMAIN s = 1 .. Len(s) /\ DOMAIN Append(s, x) = 1 .. Len(s) + 1
         /\ \A n \in 1 .. Len(s) : Append(s, x)[n] = s[n]
         /\ Append(s, x)[Len(s) + 1] = x
<1> DEFINE S == Range(s) \cup {x}
<1>1. s \in Seq(S) /\ x \in S
  BY SeqMonotonic
<1> HIDE DEF S
<1>2. Append(s, x) \in Seq(S) /\ DOMAIN s = 1 .. Len(s) /\ Len(s) \in Nat
  BY <1>1, AppendProperties, LenProperties
<1>3. Len(Append(s, x)) = Len(s) + 1 /\ DOMAIN Append(s, x) = 1 .. Len(s) + 1
  BY <1>1, <1>2, AppendProperties, LenProperties
<1>4. /\ \A n \in 1 .. Len(s) : Append(s, x)[n] = s[n]
      /\ Append(s, x)[Len(s) + 1] = x
  BY <1>1, AppendProperties
<1>5. Append(s, x) \in Seq(Range(Append(s, x)))
  BY <1>2, SeqOfOwn
<1>6. QED BY <1>2, <1>3, <1>4, <1>5

\* Joining two lists of candidates joins what they hold (append in resolveCtx).
LEMMA Joined ==
  ASSUME NEW s, NEW t, s \in Seq(Range(s)), t \in Seq(Range(t))
  PROVE  s \o t \in Seq(Range(s \o t)) /\ Range(s \o t) = Range(s) \cup Range(t)
<1> DEFINE S == Range(s) \cup Range(t)
<1>1. s \in Seq(S) /\ t \in Seq(S)
  BY SeqMonotonic
<1> HIDE DEF S
<1>2. QED BY <1>1, ConcatProperties, RangeConcatenation, SeqOfOwn

\* The list of nothing.
LEMMA NoneFound == <<>> \in Seq(Range(<<>>)) /\ Range(<<>>) = {} /\ DOMAIN <<>> = {} /\ Len(<<>>) = 0
<1>1. <<>> \in Seq({}) /\ Len(<<>>) = 0
  BY EmptySeq
<1>2. DOMAIN <<>> = 1 .. 0
  BY <1>1, LenProperties
<1>3. QED BY <1>1, <1>2, SeqOfOwn DEF Range

\* What is known of the requests a source was sent.
LEMMA Sent ==
  ASSUME TypeOK, NEW s \in Sources
  PROVE  /\ requests[s] \in Seq([key : Packages, at : 0 .. now])
         /\ Len(requests[s]) \in Nat /\ DOMAIN requests[s] = 1 .. Len(requests[s])
         /\ \A n \in DOMAIN requests[s] : requests[s][n].key \in Packages /\ requests[s][n].at \in 0 .. now
<1>1. requests[s] \in Seq([key : Packages, at : 0 .. now])
  BY DEF TypeOK, Packages
<1>2. /\ Len(requests[s]) \in Nat /\ DOMAIN requests[s] = 1 .. Len(requests[s])
      /\ requests[s] \in [1 .. Len(requests[s]) -> [key : Packages, at : 0 .. now]]
  BY <1>1, LenProperties
<1>3. QED BY <1>1, <1>2

\* A request is the last one of its source, for the package at hand and of
\* now; the other sources' requests stay.
LEMMA Sending ==
  ASSUME TypeOK, NEW s \in Sources, Send(s)
  PROVE  /\ \A t \in Sources : t # s => requests'[t] = requests[t]
         /\ requests'[s] = Append(requests[s], [key |-> Current, at |-> now])
         /\ Len(requests'[s]) = Len(requests[s]) + 1
         /\ DOMAIN requests'[s] = 1 .. Len(requests[s]) + 1
         /\ \A n \in 1 .. Len(requests[s]) : requests'[s][n] = requests[s][n]
         /\ requests'[s][Len(requests[s]) + 1] = [key |-> Current, at |-> now]
<1>1. requests \in [Sources -> Seq([key : Packages, at : 0 .. now])]
  BY DEF TypeOK, Packages
<1>2. /\ \A t \in Sources : t # s => requests'[t] = requests[t]
      /\ requests'[s] = Append(requests[s], [key |-> Current, at |-> now])
  BY <1>1 DEF Send
<1>3. requests[s] \in Seq(Range(requests[s]))
  BY Sent, SeqOfOwn
<1>4. QED BY <1>2, <1>3, OneMore

\* A lookup is of one of the packages of the SBOM.
LEMMA AtHand ==
  ASSUME TypeOK, NEW where, At(where)
  PROVE  Current \in Packages /\ i \in DOMAIN Lookups /\ Key = Current
<1>1. DOMAIN Lookups = 1 .. Len(Lookups) /\ Len(Lookups) \in Nat
  BY ResolverAssumption, LenProperties
<1>2. i \in DOMAIN Lookups
  BY <1>1 DEF TypeOK, At
<1>3. QED BY <1>2 DEF Packages, Current, Key, purlCacheKey

\* The order of the walk is decided by the priorities (sort in NewMultiSource):
\* one source is due.
LEMMA OneDue ==
  ASSUME TypeOK, NEW s \in left, NEW t \in left, Due(s), Due(t)
  PROVE  s = t
<1>1. s \in Sources /\ t \in Sources
  BY DEF TypeOK, buildSources
<1>2. s.priority \in Nat /\ t.priority \in Nat
  BY <1>1, SourcesAssumption
<1>3. s.priority = t.priority
  BY <1>2 DEF Due
<1>4. QED BY <1>1, <1>3, SourcesAssumption

\* The dictionaries are registered in every mode (buildCPEEnricher).
LEMMA OfflineRegistered ==
  ASSUME TypeOK, NEW s \in Sources, ~s.network
  PROVE  s \in chain
BY SourcesAssumption DEF TypeOK, buildSources

\* What a walk of the token bucket may do (tokenBucket.tryAcquire): a token is
\* spent and the request sent, or neither.
LEMMA Acquiring ==
  ASSUME TypeOK, NEW s \in left, TryAcquire(s)
  PROVE  /\ lastRefill' = now /\ tokens' \in 0 .. Period
         /\ \/ /\ phase' = "request" /\ Send(s) /\ wakeAt' = wakeAt
               /\ tokens' + Period <= Period /\ tokens' + Period <= tokens + (now - lastRefill)
            \/ /\ phase' = "sleep" /\ requests' = requests /\ wakeAt' \in Nat
               /\ tokens' <= tokens + (now - lastRefill)
         /\ UNCHANGED <<fixed, i, left, acc, cache, answers, now>>
<1> DEFINE level == refilled(now - lastRefill)
<1>1. now \in Nat /\ lastRefill \in 0 .. now /\ tokens \in 0 .. Period /\ Period \in Nat /\ wakeAt \in Nat
  BY ResolverAssumption DEF TypeOK, burst
<1>2. level \in 0 .. Period /\ level <= tokens + (now - lastRefill)
  BY <1>1 DEF refilled, burst
<1>3. /\ lastRefill' = now
      /\ IF level >= Period
         THEN tokens' = level - Period /\ phase' = "request" /\ Send(s) /\ wakeAt' = wakeAt
         ELSE tokens' = level /\ phase' = "sleep" /\ wakeAt' = now + (Period - level) /\ requests' = requests
      /\ UNCHANGED <<fixed, i, left, acc, cache, answers, now>>
  BY DEF TryAcquire
<1> HIDE DEF level
<1>4. QED BY <1>1, <1>2, <1>3

\* The variables keep their types: in particular the bucket holds between
\* nothing and its burst, and requests are for packages of the SBOM and not in
\* the future (resolveCtx, tryAcquire).
THEOREM TypeCorrect == Spec => []TypeOK
<1>1. Init => TypeOK
  <2> SUFFICES ASSUME Init PROVE TypeOK
    OBVIOUS
  <2>1. /\ requests \in [Sources -> Seq([key : {Package(Lookups[n]) : n \in DOMAIN Lookups}, at : 0 .. now])]
        /\ answers \in Seq(Range(answers))
    BY NoneFound, EmptySeq DEF Init
  <2>2. QED BY <2>1, ResolverAssumption DEF Init, TypeOK, Nothing, burst
<1>2. TypeOK /\ [Next]_vars => TypeOK'
  <2> SUFFICES ASSUME TypeOK, [Next]_vars PROVE TypeOK'
    OBVIOUS
  <2> DEFINE Requests(t) == [Sources -> Seq([key : Packages, at : 0 .. t])]
  <2>a. answers \in Seq(Range(answers)) /\ now \in Nat /\ requests \in Requests(now)
    BY DEF TypeOK, Packages
  <2>b. ASSUME NEW s \in Sources, NEW where, At(where), Send(s), now' = now
        PROVE  requests' \in Requests(now')
    <3>1. [key |-> Current, at |-> now] \in [key : Packages, at : 0 .. now]
      BY <2>a, <2>b, AtHand
    <3>2. requests[s] \in Seq([key : Packages, at : 0 .. now])
      BY <2>a
    <3>3. Append(requests[s], [key |-> Current, at |-> now]) \in Seq([key : Packages, at : 0 .. now])
      BY <3>1, <3>2, AppendProperties
    <3>4. QED BY <2>a, <2>b, <3>3 DEF Send
  <2>c. \A s \in left : s \in Sources
    BY DEF TypeOK, buildSources
  <2>d. ASSUME NEW s, NEW cands, acc' = With(s, cands)
        PROVE  acc' = [all |-> acc'.all, high |-> acc'.high] /\ acc'.high \in BOOLEAN
    BY <2>d DEF With, settled
  <2>1. CASE Hit
    <3>1. answers' \in Seq(Range(answers'))
      BY <2>1, <2>a, OneMore DEF Hit
    <3>2. QED BY <2>1, <3>1 DEF Hit, TypeOK, fixed, bucket
  <2>2. CASE Miss
    BY <2>2 DEF Miss, TypeOK, fixed, bucket, Nothing
  <2>3. CASE Store
    <3>1. answers' \in Seq(Range(answers'))
      BY <2>3, <2>a, OneMore DEF Store
    <3>2. /\ UNCHANGED <<mode, chain, keyed, loaded, left, acc, now, wakeAt, tokens, lastRefill, requests>>
          /\ phase' = "cache" /\ i' = i + 1
      BY <2>3 DEF Store, fixed, bucket
    <3>3. i' \in Nat \ {0}
      BY <3>2 DEF TypeOK
    <3>4. QED BY <3>1, <3>2, <3>3 DEF TypeOK
  <2>4. CASE Tick
    <3>1. now' = now + 1 /\ requests' = requests
      BY <2>4 DEF Tick
    <3>2. \A s \in Sources : requests[s] \in Seq([key : Packages, at : 0 .. now + 1])
      <4> TAKE s \in Sources
      <4>1. requests[s] \in Seq([key : Packages, at : 0 .. now])
        BY Sent
      <4>2. [key : Packages, at : 0 .. now] \subseteq [key : Packages, at : 0 .. now + 1]
        BY DEF TypeOK
      <4>3. QED BY <4>1, <4>2, SeqMonotonic
    <3>3. requests' \in Requests(now')
      BY <2>a, <3>1, <3>2
    <3>4. UNCHANGED <<mode, chain, keyed, loaded, i, phase, left, acc, answers, wakeAt, tokens, lastRefill>>
      BY <2>4 DEF Tick, fixed, bucket
    <3>5. now' \in Nat /\ lastRefill' \in 0 .. now'
      BY <3>1, <3>4 DEF TypeOK
    <3>6. QED BY <3>3, <3>4, <3>5 DEF TypeOK, Packages
  <2>5. ASSUME NEW s \in left, Skip(s) PROVE TypeOK'
    BY <2>5 DEF Skip, TypeOK, fixed, bucket
  <2>6. ASSUME NEW s \in left, AskOffline(s) PROVE TypeOK'
    <3>1. acc' = [all |-> acc'.all, high |-> acc'.high] /\ acc'.high \in BOOLEAN
      BY <2>6, <2>d DEF AskOffline
    <3>2. QED BY <2>6, <3>1 DEF AskOffline, TypeOK, fixed, bucket
  <2>7. ASSUME NEW s \in left, NEW where, At(where), TryAcquire(s) PROVE TypeOK'
    <3>1. requests' \in Requests(now')
      BY <2>7, <2>a, <2>b, <2>c, Acquiring
    <3>2. /\ lastRefill' = now /\ tokens' \in 0 .. burst * Period /\ wakeAt' \in Nat
          /\ phase' \in {"request", "sleep"}
          /\ UNCHANGED <<fixed, i, left, acc, cache, answers, now>>
      <4>1. wakeAt \in Nat /\ burst * Period = Period
        BY ResolverAssumption DEF TypeOK, burst
      <4>2. QED BY <2>7, <4>1, Acquiring
    <3>3. lastRefill' \in 0 .. now' /\ now' \in Nat
      BY <2>a, <3>2
    <3>4. QED BY <3>1, <3>2, <3>3 DEF TypeOK, fixed, Packages
  <2>8. ASSUME NEW s \in left, AskClearlyDefined(s) PROVE TypeOK'
    <3>1. requests' \in Requests(now')
      BY <2>8, <2>a, <2>b, <2>c DEF AskClearlyDefined
    <3>2. QED BY <2>8, <3>1 DEF AskClearlyDefined, TypeOK, fixed, bucket, Packages
  <2>9. ASSUME NEW s \in left, Answer(s) PROVE TypeOK'
    <3>1. acc' = [all |-> acc'.all, high |-> acc'.high] /\ acc'.high \in BOOLEAN
      BY <2>9, <2>d DEF Answer
    <3>2. QED BY <2>9, <3>1 DEF Answer, TypeOK, fixed, bucket
  <2>10. CASE UNCHANGED vars
    BY <2>10 DEF vars, fixed, bucket, TypeOK
  <2>11. QED
    BY <2>1, <2>2, <2>3, <2>4, <2>5, <2>6, <2>7, <2>8, <2>9, <2>10 DEF Next, AskNVD, Wake
<1>3. QED BY <1>1, <1>2, PTL DEF Spec

-----------------------------------------------------------------------------
(* The walk over the sources and the cache.                                *)

\* What a source's candidates add to what was found: a dictionary's are all
\* in it then, and no other source's are lost.
LEMMA Walked ==
  ASSUME TypeOK, WalkInv, phase # "cache", i \in DOMAIN Lookups,
         NEW s \in left, left' = left \ {s}, UNCHANGED <<chain, i>>,
         NEW cands, cands \in {Candidates(s, Current), <<>>}, acc' = With(s, cands),
         ~s.network => cands = Candidates(s, Current)
  PROVE  WalkInv'
<1> DEFINE known(t) == Range(Candidates(t, Current))
<1>1. s \in Sources /\ s \in chain /\ Current' = Current
  BY DEF TypeOK, buildSources, Current
<1>2. cands \in Seq(Range(cands)) /\ Range(cands) \subseteq known(s)
  <2>1. Candidates(s, Current) \in Seq(known(s))
    BY <1>1, SourcesAssumption DEF Current
  <2>2. QED BY <2>1, NoneFound
<1>3. acc'.all = acc.all \o cands /\ acc'.high = (acc.high \/ (~s.network /\ High(cands)))
  BY DEF With, settled
<1>4. /\ acc.all \in Seq(Range(acc.all)) /\ Range(acc.all) \subseteq UNION {known(t) : t \in chain}
      /\ \A t \in chain \ left : ~t.network =>
           known(t) \subseteq Range(acc.all) /\ (High(Candidates(t, Current)) => acc.high)
  BY DEF WalkInv
<1>5. acc'.all \in Seq(Range(acc'.all)) /\ Range(acc'.all) = Range(acc.all) \cup Range(cands)
  BY <1>2, <1>3, <1>4, Joined
<1>6. Range(acc'.all) \subseteq UNION {known(t) : t \in chain}
  BY <1>1, <1>2, <1>4, <1>5
<1>7. ASSUME NEW t \in chain \ left', ~t.network
      PROVE  known(t) \subseteq Range(acc'.all) /\ (High(Candidates(t, Current)) => acc'.high)
  <2>1. CASE t = s
    BY <1>3, <1>5, <1>7, <2>1
  <2>2. CASE t # s
    BY <1>3, <1>4, <1>5, <1>7, <2>2
  <2>3. QED BY <2>1, <2>2
<1>8. QED BY <1>1, <1>5, <1>6, <1>7 DEF WalkInv

\* A walk that goes on disturbs neither cache nor answers.
LEMMA AnswersStay ==
  ASSUME AnswerInv, phase # "cache", UNCHANGED <<chain, i, cache, answers>>
  PROVE  AnswerInv'
BY DEF AnswerInv, Own, Current

\* A wait for the source that is due is a wait for a service.
LEMMA Waiting ==
  ASSUME TypeOK, WaitInv, NEW s \in left, Due(s), s.network, phase' \in {"sleep", "request"},
         phase' = "sleep" => s.name = "nvd-api" /\ ~Skipped(s), UNCHANGED <<left, mode, acc>>
  PROVE  WaitInv'
<1>1. \A t \in left : Due(t) => t = s
  BY OneDue
<1>2. \A t : Due(t)' = Due(t) /\ Skipped(t)' = Skipped(t)
  BY DEF Due, Skipped
<1>3. QED BY <1>1, <1>2 DEF WaitInv

\* An answer is what the walk over all sources found, and it is the package's
\* own (the end of resolveCtx).
LEMMA Stored ==
  ASSUME TypeOK, ResolveInv, Store
  PROVE  AnswerInv'
<1>1. /\ phase = "walk" /\ left = {} /\ i' = i + 1 /\ chain' = chain
      /\ answers' = Append(answers, acc.all) /\ phase' = "cache" /\ Key = Current
      /\ cache' = [k \in DOMAIN cache \cup {Current} |-> IF k = Current THEN acc.all ELSE cache[k]]
  BY AtHand DEF Store, At, fixed
<1>2. i \in Nat \ {0} /\ answers \in Seq(Range(answers)) /\ i <= Len(Lookups)
  BY DEF Store, At, TypeOK
<1>3. Len(Lookups) \in Nat
  BY ResolverAssumption, LenProperties
<1>4. /\ Len(answers') = Len(answers) + 1 /\ DOMAIN answers = 1 .. Len(answers) /\ Len(answers) \in Nat
      /\ DOMAIN answers' = 1 .. Len(answers) + 1
      /\ \A j \in 1 .. Len(answers) : answers'[j] = answers[j]
      /\ answers'[Len(answers) + 1] = acc.all
  BY <1>1, <1>2, OneMore
<1>5. Len(answers) = i - 1
  BY DEF ResolveInv, AnswerInv
<1>6. Len(answers') = i' - 1 /\ i' <= Len(Lookups) + 1
  BY <1>1, <1>2, <1>3, <1>4, <1>5
<1>7. Current \notin DOMAIN cache /\ DOMAIN cache' = DOMAIN cache \cup {Current}
  BY <1>1 DEF ResolveInv, AnswerInv
<1>8. Own(Current, acc.all)
  <2>1. \A s \in Sources : ~s.network => s \in chain \ left
    BY <1>1, OfflineRegistered
  <2>2. QED BY <1>1, <2>1 DEF ResolveInv, WalkInv, Own
<1>9. (\A k \in DOMAIN cache : Own(k, cache[k]))'
  <2>1. \A k \in DOMAIN cache' : Own(k, cache'[k])
    BY <1>1, <1>7, <1>8 DEF ResolveInv, AnswerInv
  <2>2. QED BY <1>1, <2>1 DEF Own
<1>10. ASSUME NEW j \in DOMAIN answers'
       PROVE  Package(Lookups[j]) \in DOMAIN cache' /\ answers'[j] = cache'[Package(Lookups[j])]
  <2>1. CASE j = i
    BY <1>1, <1>4, <1>5, <1>2, <1>7, <2>1 DEF Current
  <2>2. CASE j # i
    <3>1. j \in 1 .. Len(answers)
      BY <1>2, <1>4, <1>5, <2>2
    <3>2. Package(Lookups[j]) \in DOMAIN cache /\ answers[j] = cache[Package(Lookups[j])]
      BY <1>4, <3>1 DEF ResolveInv, AnswerInv
    <3>3. QED BY <1>1, <1>4, <1>7, <3>1, <3>2
  <2>3. QED BY <2>1, <2>2
<1>11. QED BY <1>1, <1>6, <1>9, <1>10 DEF AnswerInv

\* A cached answer is given as it is (Cache.Get).
LEMMA Served ==
  ASSUME TypeOK, AnswerInv, Hit
  PROVE  AnswerInv'
<1>1. /\ phase = "cache" /\ i' = i + 1 /\ chain' = chain /\ Key = Current /\ Current \in DOMAIN cache
      /\ answers' = Append(answers, cache[Current]) /\ phase' = "cache" /\ cache' = cache
  BY AtHand DEF Hit, At, fixed
<1>2. i \in Nat \ {0} /\ answers \in Seq(Range(answers)) /\ i <= Len(Lookups)
  BY DEF Hit, At, TypeOK
<1>3. Len(Lookups) \in Nat
  BY ResolverAssumption, LenProperties
<1>4. /\ Len(answers') = Len(answers) + 1 /\ DOMAIN answers = 1 .. Len(answers) /\ Len(answers) \in Nat
      /\ DOMAIN answers' = 1 .. Len(answers) + 1
      /\ \A j \in 1 .. Len(answers) : answers'[j] = answers[j]
      /\ answers'[Len(answers) + 1] = cache[Current]
  BY <1>1, <1>2, OneMore
<1>5. Len(answers) = i - 1
  BY DEF AnswerInv
<1>6. Len(answers') = i' - 1 /\ i' <= Len(Lookups) + 1
  BY <1>1, <1>2, <1>3, <1>4, <1>5
<1>7. ASSUME NEW j \in DOMAIN answers'
      PROVE  Package(Lookups[j]) \in DOMAIN cache /\ answers'[j] = cache[Package(Lookups[j])]
  <2>1. CASE j = i
    BY <1>1, <1>4, <1>5, <1>2, <2>1 DEF Current
  <2>2. CASE j # i
    <3>1. j \in 1 .. Len(answers)
      BY <1>2, <1>4, <1>5, <2>2
    <3>2. QED BY <1>4, <3>1 DEF AnswerInv
  <2>3. QED BY <2>1, <2>2
<1>8. \A k \in DOMAIN cache : Own(k, cache[k])'
  BY <1>1 DEF AnswerInv, Own
<1>9. QED BY <1>1, <1>6, <1>7, <1>8 DEF AnswerInv

\* No step of the resolver breaks the agreement of cache, answers and walk.
LEMMA ResolveStep ==
  ASSUME TypeOK, ResolveInv, [Next]_vars
  PROVE  ResolveInv'
<1> USE DEF ResolveInv
<1>1. CASE Hit
  <2>1. phase' = "cache"
    BY <1>1 DEF Hit, At
  <2>2. QED BY <1>1, <2>1, Served DEF WalkInv, WaitInv
<1>2. CASE Miss
  <2>1. /\ phase' = "walk" /\ left' = chain /\ acc' = Nothing /\ Key = Current /\ i <= Len(Lookups)
        /\ Key \notin DOMAIN cache /\ UNCHANGED <<chain, i, cache, answers>> /\ Current' = Current
    BY <1>2, AtHand DEF Miss, At, fixed, Current
  <2>2. AnswerInv'
    BY <2>1 DEF AnswerInv, Own
  <2>3. WalkInv'
    BY <2>1, NoneFound DEF WalkInv, Nothing
  <2>4. QED BY <2>1, <2>2, <2>3 DEF WaitInv
<1>3. CASE Store
  <2>1. phase' = "cache"
    BY <1>3 DEF Store
  <2>2. QED BY <1>3, <2>1, Stored DEF WalkInv, WaitInv
<1>4. CASE Tick
  <2>1. phase # "cache" /\ UNCHANGED <<fixed, i, phase, left, acc, cache, answers>>
    BY <1>4 DEF Tick, At
  <2>2. QED BY <2>1, AnswersStay DEF fixed, WalkInv, WaitInv, Due, Skipped, Current
<1>5. ASSUME NEW s \in left, Skip(s) PROVE ResolveInv'
  <2>1. /\ phase = "walk" /\ phase' = "walk" /\ s.network /\ left' = left \ {s}
        /\ UNCHANGED <<chain, i, cache, answers, acc>> /\ Current' = Current
    BY <1>5 DEF Skip, At, Skipped, fixed, Current
  <2>2. WalkInv'
    BY <2>1 DEF WalkInv
  <2>3. QED BY <2>1, <2>2, AnswersStay DEF WaitInv
<1>6. ASSUME NEW s \in left, AskOffline(s) PROVE ResolveInv'
  <2>1. /\ phase = "walk" /\ phase' = "walk" /\ ~s.network /\ left' = left \ {s}
        /\ UNCHANGED <<chain, i, cache, answers>> /\ acc' = With(s, Candidates(s, Current))
        /\ i \in DOMAIN Lookups
    BY <1>6, AtHand DEF AskOffline, At, fixed
  <2>2. WalkInv'
    BY <2>1, Walked
  <2>3. QED BY <2>1, <2>2, AnswersStay DEF WaitInv
<1>7. ASSUME NEW s \in left, AskNVD(s) \/ Wake(s) PROVE ResolveInv'
  <2>1. /\ phase # "cache" /\ Due(s) /\ TryAcquire(s) /\ ~Skipped(s) /\ s.name = "nvd-api"
    BY <1>7 DEF AskNVD, Wake, At, WaitInv
  <2>2. /\ phase' \in {"request", "sleep"} /\ UNCHANGED <<fixed, i, left, acc, cache, answers>>
    BY <2>1, Acquiring
  <2>3. s.network
    BY <2>1, SourcesAssumption DEF TypeOK, buildSources
  <2>4. WaitInv'
    BY <2>1, <2>2, <2>3, Waiting DEF fixed
  <2>5. QED BY <2>1, <2>2, <2>4, AnswersStay DEF WalkInv, fixed, Current
<1>8. ASSUME NEW s \in left, AskClearlyDefined(s) PROVE ResolveInv'
  <2>1. /\ phase = "walk" /\ Due(s) /\ s.name = "clearly-defined"
        /\ \/ phase' = "request" /\ left' = left
           \/ phase' = "walk" /\ left' = left \ {s}
        /\ UNCHANGED <<fixed, i, acc, cache, answers>> /\ Current' = Current
    BY <1>8 DEF AskClearlyDefined, At, Current
  <2>2. s.network
    BY <2>1, SourcesAssumption DEF TypeOK, buildSources
  <2>3. AnswerInv'
    BY <2>1, AnswersStay DEF fixed
  <2>4. WalkInv'
    BY <2>1, <2>2 DEF WalkInv, fixed
  <2>5. WaitInv'
    <3>1. CASE phase' = "request" /\ left' = left
      BY <2>1, <2>2, <3>1, Waiting DEF fixed
    <3>2. CASE phase' = "walk"
      BY <3>2 DEF WaitInv
    <3>3. QED BY <2>1, <3>1, <3>2
  <2>6. QED BY <2>3, <2>4, <2>5
<1>9. ASSUME NEW s \in left, Answer(s) PROVE ResolveInv'
  <2>1. /\ phase = "request" /\ phase' = "walk" /\ Due(s) /\ left' = left \ {s}
        /\ UNCHANGED <<chain, i, cache, answers>> /\ i \in DOMAIN Lookups
    BY <1>9, AtHand DEF Answer, At, fixed
  <2>2. PICK cands \in {Candidates(s, Current), <<>>} : acc' = With(s, cands)
    BY <1>9 DEF Answer
  <2>3. s.network
    BY <2>1 DEF WaitInv
  <2>4. WalkInv'
    BY <2>1, <2>2, <2>3, Walked
  <2>5. QED BY <2>1, <2>4, AnswersStay DEF WaitInv
<1>10. CASE UNCHANGED vars
  BY <1>10 DEF vars, fixed, bucket, AnswerInv, WalkInv, WaitInv, Own, Due, Skipped, Current
<1>11. QED
  BY <1>1, <1>2, <1>3, <1>4, <1>5, <1>6, <1>7, <1>8, <1>9, <1>10 DEF Next

\* In every state the answers are the cached ones, the cached ones are complete
\* and sound, and the walk under way has lost nothing (Resolve, resolveCtx).
THEOREM ResolveInvariant == Spec => []ResolveInv
<1>1. Init => ResolveInv
  <2> SUFFICES ASSUME Init PROVE ResolveInv
    OBVIOUS
  <2>1. Len(Lookups) \in Nat
    BY ResolverAssumption, LenProperties
  <2>2. QED BY <2>1, NoneFound DEF Init, ResolveInv, AnswerInv, WalkInv, WaitInv
<1>2. TypeOK /\ ResolveInv /\ [Next]_vars => ResolveInv'
  BY ResolveStep
<1>3. QED BY <1>1, <1>2, TypeCorrect, PTL DEF Spec

\* Every answer has all that the dictionaries know of its package, whatever
\* requests failed, and nothing that no registered source said (resolveCtx keeps
\* the candidates of the other sources when one errs).
THEOREM OwnTheorem == Spec => []AnswersAreTheirOwn
<1>1. ResolveInv => AnswersAreTheirOwn
  BY DEF ResolveInv, AnswerInv, Own, AnswersAreTheirOwn
<1>2. QED BY <1>1, ResolveInvariant, PTL

-----------------------------------------------------------------------------
(* The requests.                                                           *)

\* What a step does to the requests: it leaves them alone, or it sends one, to
\* the service that is due and that there is a reason to ask.
LEMMA RequestsGrow ==
  ASSUME TypeOK, ResolveInv, [Next]_vars
  PROVE  \/ requests' = requests
         \/ \E s \in left :
              /\ Send(s) /\ Due(s) /\ s.network /\ ~Skipped(s) /\ phase \in {"walk", "sleep"}
              /\ phase' = "request" /\ UNCHANGED <<fixed, i, left, acc, cache, answers, now>>
<1>1. ASSUME NEW s \in left, AskNVD(s) \/ Wake(s), requests' # requests
      PROVE  /\ Send(s) /\ Due(s) /\ s.network /\ ~Skipped(s) /\ phase \in {"walk", "sleep"}
             /\ phase' = "request" /\ UNCHANGED <<fixed, i, left, acc, cache, answers, now>>
  <2>1. Due(s) /\ TryAcquire(s) /\ ~Skipped(s) /\ s.name = "nvd-api" /\ phase \in {"walk", "sleep"}
    BY <1>1 DEF AskNVD, Wake, At, ResolveInv, WaitInv
  <2>2. s.network
    BY <2>1, SourcesAssumption DEF TypeOK, buildSources
  <2>3. QED BY <1>1, <2>1, <2>2, Acquiring
<1>2. ASSUME NEW s \in left, AskClearlyDefined(s), requests' # requests
      PROVE  /\ Send(s) /\ Due(s) /\ s.network /\ ~Skipped(s) /\ phase \in {"walk", "sleep"}
             /\ phase' = "request" /\ UNCHANGED <<fixed, i, left, acc, cache, answers, now>>
  <2>1. s.name = "clearly-defined"
    BY <1>2 DEF AskClearlyDefined
  <2>2. s.network
    BY <2>1, SourcesAssumption DEF TypeOK, buildSources
  <2>3. QED BY <1>2, <2>2 DEF AskClearlyDefined, At
<1>3. Hit \/ Miss \/ Store \/ Tick \/ UNCHANGED vars => requests' = requests
  BY DEF Hit, Miss, Store, Tick, vars
<1>4. \A s \in left : Skip(s) \/ AskOffline(s) \/ Answer(s) => requests' = requests
  BY DEF Skip, AskOffline, Answer
<1>5. QED BY <1>1, <1>2, <1>3, <1>4 DEF Next

\* A step that sends nothing leaves no request behind: its package is resolved
\* when the walk over its sources ends, and until then its source is not asked
\* again.
LEMMA RequestsSettle ==
  ASSUME TypeOK, ResolveInv, RequestInv, [Next]_vars, requests' = requests
  PROVE  RequestInv'
<1> DEFINE Settled(s, k) == k \in DOMAIN cache
           Pending(s, k) == phase # "cache" /\ k = Current /\ (s \in left => phase = "request" /\ Due(s))
<1> SUFFICES ASSUME NEW s \in Sources, NEW n \in DOMAIN requests[s]
             PROVE  Settled(s, requests[s][n].key)' \/ Pending(s, requests[s][n].key)'
  BY DEF RequestInv
<1> DEFINE k == requests[s][n].key
<1>0. Settled(s, k) \/ Pending(s, k)
  BY DEF RequestInv
<1>k. k' = k
  OBVIOUS
<1>1. CASE Hit \/ Miss
  BY <1>0, <1>k, <1>1 DEF Hit, Miss, At
<1>2. CASE Store
  <2>1. Key = Current /\ DOMAIN cache' = DOMAIN cache \cup {Key}
    BY <1>2, AtHand DEF Store
  <2>2. QED BY <1>0, <1>k, <2>1
<1>3. CASE Tick \/ UNCHANGED vars
  BY <1>0, <1>k, <1>3 DEF Tick, vars, fixed, bucket, Due, Current
<1>4. ASSUME NEW t \in left, Skip(t) \/ AskOffline(t) PROVE Settled(s, k)' \/ Pending(s, k)'
  BY <1>0, <1>k, <1>4 DEF Skip, AskOffline, At, Current
<1>5. ASSUME NEW t \in left, AskNVD(t) \/ Wake(t) PROVE Settled(s, k)' \/ Pending(s, k)'
  <2>1. TryAcquire(t) /\ phase \in {"walk", "sleep"}
    BY <1>5 DEF AskNVD, Wake, At
  <2>2. UNCHANGED <<i, left, cache>> /\ phase' # "cache"
    BY <2>1, Acquiring
  <2>3. QED BY <1>0, <1>k, <2>1, <2>2 DEF Current
<1>6. ASSUME NEW t \in left, AskClearlyDefined(t) PROVE Settled(s, k)' \/ Pending(s, k)'
  BY <1>0, <1>k, <1>6 DEF AskClearlyDefined, At, Current
<1>7. ASSUME NEW t \in left, Answer(t) PROVE Settled(s, k)' \/ Pending(s, k)'
  <2>1. /\ phase = "request" /\ phase' = "walk" /\ left' = left \ {t} /\ Due(t)
        /\ UNCHANGED <<i, cache>> /\ Current' = Current
    BY <1>7 DEF Answer, At, Current
  <2>2. s \in left /\ Due(s) => s = t
    BY <2>1, OneDue
  <2>3. QED BY <1>0, <1>k, <2>1, <2>2
<1>8. QED
  BY <1>1, <1>2, <1>3, <1>4, <1>5, <1>6, <1>7 DEF Next

\* No service is sent a package twice: a package is resolved once, and within
\* that a source is asked once (resolveCtx with its cache).
LEMMA OnceStep ==
  ASSUME TypeOK, ResolveInv, RequestInv, OnceInv, [Next]_vars
  PROVE  RequestInv' /\ OnceInv'
<1>1. CASE requests' = requests
  BY <1>1, RequestsSettle DEF OnceInv
<1>2. ASSUME NEW s \in left, Send(s), Due(s), phase \in {"walk", "sleep"},
             phase' = "request", UNCHANGED <<fixed, i, left, acc, cache, answers, now>>
      PROVE  RequestInv' /\ OnceInv'
  <2>1. s \in Sources /\ Current' = Current /\ Due(s)'
    BY <1>2 DEF TypeOK, buildSources, Due, Current
  <2>2. /\ \A t \in Sources : t # s => requests'[t] = requests[t]
        /\ DOMAIN requests'[s] = 1 .. Len(requests[s]) + 1
        /\ \A n \in 1 .. Len(requests[s]) : requests'[s][n] = requests[s][n]
        /\ requests'[s][Len(requests[s]) + 1].key = Current
    BY <1>2, <2>1, Sending
  <2>3. Len(requests[s]) \in Nat /\ DOMAIN requests[s] = 1 .. Len(requests[s])
    BY <2>1, Sent
  <2>4. \A n \in DOMAIN requests'[s] : n \in 1 .. Len(requests[s]) \/ n = Len(requests[s]) + 1
    BY <2>2, <2>3
  <2>5. \A n \in 1 .. Len(requests[s]) : requests[s][n].key # Current
    BY <1>2, <2>1, <2>3 DEF RequestInv, ResolveInv, AnswerInv
  <2>6. ASSUME NEW t \in Sources, NEW n \in DOMAIN requests'[t]
        PROVE  \/ requests'[t][n].key \in DOMAIN cache
               \/ requests'[t][n].key = Current /\ (t \in left => t = s)
    <3>1. CASE t = s
      BY <2>2, <2>3, <2>4, <2>5, <2>6, <3>1, <1>2 DEF RequestInv
    <3>2. CASE t # s
      BY <1>2, <2>2, <3>2, <2>6 DEF RequestInv
    <3>3. QED BY <3>1, <3>2
  <2>7. RequestInv'
    BY <1>2, <2>1, <2>6 DEF RequestInv
  <2>8. OnceInv'
    <3> SUFFICES ASSUME NEW t \in Sources, NEW j \in DOMAIN requests'[t], NEW k \in DOMAIN requests'[t],
                        requests'[t][j].key = requests'[t][k].key
                 PROVE  j = k
      BY DEF OnceInv
    <3>1. CASE t # s
      BY <2>2, <3>1 DEF OnceInv
    <3>2. CASE t = s
      <4>1. CASE j \in 1 .. Len(requests[s]) /\ k \in 1 .. Len(requests[s])
        BY <2>1, <2>2, <2>3, <3>2, <4>1 DEF OnceInv
      <4>2. CASE j \notin 1 .. Len(requests[s]) \/ k \notin 1 .. Len(requests[s])
        BY <2>2, <2>4, <2>5, <3>2, <4>2
      <4>3. QED BY <4>1, <4>2
    <3>3. QED BY <3>1, <3>2
  <2>9. QED BY <2>7, <2>8
<1>3. QED BY <1>1, <1>2, RequestsGrow

\* Components of one package get one answer, and cost each service one request,
\* however many of them there are and whatever fails (resolveCtx).
THEOREM SameAnswerTheorem == Spec => []SamePURLSameAnswer
<1>1. Init => RequestInv /\ OnceInv
  BY NoneFound DEF Init, RequestInv, OnceInv
<1>2. TypeOK /\ ResolveInv /\ RequestInv /\ OnceInv /\ [Next]_vars => RequestInv' /\ OnceInv'
  BY OnceStep
<1>3. ResolveInv /\ OnceInv => SamePURLSameAnswer
  <2>1. ResolveInv => \A j, k \in DOMAIN answers :
                        Package(Lookups[j]) = Package(Lookups[k]) => answers[j] = answers[k]
    BY DEF ResolveInv, AnswerInv
  <2>2. QED BY <2>1 DEF OnceInv, SamePURLSameAnswer
<1>4. QED BY <1>1, <1>2, <1>3, TypeCorrect, ResolveInvariant, PTL DEF Spec

\* A request is sent only where the mode lets it, and in hybrid mode only after
\* every dictionary of a higher priority had nothing that settles the package
\* (the skip in resolveCtx, buildCPEEnricher and shouldSkipAnonymousNVDInHybrid).
THEOREM NeededTheorem == Spec => []NetworkOnlyWhenNeeded
<1>1. Init => NetworkOnlyWhenNeeded
  BY NoneFound DEF Init, NetworkOnlyWhenNeeded
<1>2. TypeOK /\ ResolveInv /\ NetworkOnlyWhenNeeded /\ [Next]_vars => NetworkOnlyWhenNeeded'
  <2> SUFFICES ASSUME TypeOK, ResolveInv, NetworkOnlyWhenNeeded, [Next]_vars
               PROVE  NetworkOnlyWhenNeeded'
    OBVIOUS
  <2>0. UNCHANGED <<mode, keyed, loaded>>
    BY DEF Next, vars, fixed, Hit, Miss, Store, Tick, Skip, AskOffline, AskNVD, Wake, TryAcquire,
           AskClearlyDefined, Answer
  <2>1. CASE requests' = requests
    BY <2>0, <2>1 DEF NetworkOnlyWhenNeeded
  <2>2. ASSUME NEW s \in left, Send(s), Due(s), s.network, ~Skipped(s), phase \in {"walk", "sleep"}
        PROVE  NetworkOnlyWhenNeeded'
    <3>1. s \in Sources /\ s \in chain /\ chain = buildSources(mode, keyed, loaded)
      BY DEF TypeOK, buildSources
    <3>2. mode # "offline" /\ (mode = "hybrid" /\ ~keyed /\ s.name = "nvd-api" => loaded <= Threshold)
      <4>1. mode # "offline" /\ (s.name = "nvd-api" => ~shouldSkipAnonymousNVDInHybrid(mode, keyed, loaded))
        BY <2>2, <3>1 DEF buildSources
      <4>2. loaded \in Nat /\ Threshold \in Nat
        BY ResolverAssumption DEF TypeOK
      <4>3. QED BY <4>1, <4>2 DEF shouldSkipAnonymousNVDInHybrid
    <3>3. ASSUME mode = "hybrid", NEW t \in Sources, ~t.network, t.priority > s.priority
          PROVE  ~High(Candidates(t, Current))
      <4>1. t.priority \in Nat /\ s.priority \in Nat
        BY <3>1, SourcesAssumption
      <4>2. t \in chain \ left
        BY <2>2, <3>3, <4>1, OfflineRegistered DEF Due
      <4>3. ~acc.high
        BY <2>2, <3>3 DEF Skipped
      <4>4. QED BY <2>2, <3>3, <4>2, <4>3 DEF ResolveInv, WalkInv
    <3>4. /\ \A t \in Sources : t # s => requests'[t] = requests[t]
          /\ DOMAIN requests'[s] = 1 .. Len(requests[s]) + 1
          /\ \A n \in 1 .. Len(requests[s]) : requests'[s][n] = requests[s][n]
          /\ requests'[s][Len(requests[s]) + 1].key = Current
      BY <2>2, <3>1, Sending
    <3>5. DOMAIN requests[s] = 1 .. Len(requests[s]) /\ Len(requests[s]) \in Nat
      BY <3>1, Sent
    <3>6. ASSUME NEW u \in Sources, NEW n \in DOMAIN requests'[u]
          PROVE  /\ mode # "offline"
                 /\ mode = "hybrid" => \A t \in Sources : ~t.network /\ t.priority > u.priority =>
                                         ~High(Candidates(t, requests'[u][n].key))
                 /\ mode = "hybrid" /\ ~keyed /\ u.name = "nvd-api" => loaded <= Threshold
      <4>1. CASE u = s /\ n = Len(requests[s]) + 1
        BY <3>2, <3>3, <3>4, <4>1
      <4>2. CASE ~(u = s /\ n = Len(requests[s]) + 1)
        <5>1. n \in DOMAIN requests[u] /\ requests'[u][n] = requests[u][n]
          BY <3>4, <3>5, <3>6, <4>2
        <5>2. QED BY <5>1 DEF NetworkOnlyWhenNeeded
      <4>3. QED BY <4>1, <4>2
    <3>7. QED BY <2>0, <3>6 DEF NetworkOnlyWhenNeeded
  <2>3. QED BY <2>1, <2>2, RequestsGrow
<1>3. QED BY <1>1, <1>2, TypeCorrect, ResolveInvariant, PTL DEF Spec

-----------------------------------------------------------------------------
(* The token bucket.                                                       *)

\* One request more costs one Period more.
LEMMA Costs ==
  ASSUME NEW k \in Int, NEW p \in Nat
  PROVE  k * p \in Int /\ (k + 1) * p = k * p + p
OBVIOUS

\* Time that went by since the last refill pays for what is added.
LEMMA Drips ==
  ASSUME NEW cost \in Int, NEW at \in Int, NEW full \in Int, NEW t \in Int, NEW last \in Int,
         NEW have \in Int, NEW get \in Int,
         cost + have <= full + (last - at), get <= have + (t - last)
  PROVE  cost + get <= full + (t - at)
OBVIOUS

\* Every request to the NVD is paid for: by the full bucket or by the time since
\* the earlier one it is counted from (tryAcquire adds the time that went by,
\* at most to the brim, before it takes a token).
LEMMA LedgerStep ==
  ASSUME TypeOK, ResolveInv, LedgerInv, [Next]_vars
  PROVE  LedgerInv'
<1> SUFFICES ASSUME NEW s \in Sources, s.name = "nvd-api", NEW j \in DOMAIN requests'[s]
             PROVE  /\ requests'[s][j].at <= lastRefill'
                    /\ (Len(requests'[s]) - j + 1) * Period + tokens' <= burst * Period + (lastRefill' - requests'[s][j].at)
  BY DEF LedgerInv
<1> DEFINE L == Len(requests[s])
<1>1. /\ L \in Nat /\ DOMAIN requests[s] = 1 .. L /\ Period \in Nat /\ burst * Period = Period
      /\ now \in Nat /\ lastRefill \in 0 .. now /\ tokens \in 0 .. Period
      /\ \A n \in 1 .. L : requests[s][n].at \in Nat
  <2>1. /\ Period \in Nat /\ burst * Period = Period
        /\ now \in Nat /\ lastRefill \in 0 .. now /\ tokens \in 0 .. Period
    BY ResolverAssumption DEF TypeOK, burst
  <2>2. L \in Nat /\ DOMAIN requests[s] = 1 .. L /\ \A n \in 1 .. L : requests[s][n].at \in 0 .. now
    BY Sent
  <2>3. \A n \in 1 .. L : requests[s][n].at \in Nat
    BY <2>1, <2>2
  <2>4. QED BY <2>1, <2>2, <2>3
<1>a. Period \in Int /\ now \in Int /\ lastRefill \in Int /\ tokens \in Int
  <2> HIDE DEF L
  <2>1. QED BY <1>1
<1>2. ASSUME j \in 1 .. L
      PROVE  requests[s][j].at <= lastRefill /\ (L - j + 1) * Period + tokens <= Period + (lastRefill - requests[s][j].at)
  BY <1>1, <1>2 DEF LedgerInv
<1>3. ASSUME requests'[s] = requests[s], lastRefill' = lastRefill, tokens' = tokens
      PROVE  /\ requests'[s][j].at <= lastRefill'
             /\ (Len(requests'[s]) - j + 1) * Period + tokens' <= burst * Period + (lastRefill' - requests'[s][j].at)
  BY <1>1, <1>2, <1>3
<1>4. ASSUME NEW t \in left, TryAcquire(t), t.name = "nvd-api"
      PROVE  /\ requests'[s][j].at <= lastRefill'
             /\ (Len(requests'[s]) - j + 1) * Period + tokens' <= burst * Period + (lastRefill' - requests'[s][j].at)
  <2>1. t = s
    BY <1>4, SourcesAssumption DEF TypeOK, buildSources
  <2>2. /\ lastRefill' = now /\ tokens' \in 0 .. Period
        /\ \/ Send(s) /\ tokens' + Period <= Period /\ tokens' + Period <= tokens + (now - lastRefill)
           \/ requests' = requests /\ tokens' <= tokens + (now - lastRefill)
    BY <1>4, <2>1, Acquiring
  <2>a. tokens' \in Int /\ tokens' + Period \in Int
    BY <1>a, <2>2
  <2>3. CASE requests' = requests /\ tokens' <= tokens + (now - lastRefill)
    <3> DEFINE cost == (L - j + 1) * Period
    <3>1. j \in 1 .. L /\ L - j + 1 \in Int /\ Len(requests'[s]) = L /\ requests'[s] = requests[s]
      BY <1>1, <2>3
    <3>2. cost \in Int /\ cost + tokens <= Period + (lastRefill - requests[s][j].at)
      BY <1>1, <1>2, <3>1, Costs
    <3>3. requests[s][j].at <= lastRefill /\ requests[s][j].at \in Nat
      BY <1>1, <1>2, <3>1
    <3>4. cost + tokens' <= Period + (now - requests[s][j].at)
      <4> HIDE DEF cost, L
      <4>1. requests[s][j].at \in Int
        BY <3>3
      <4>2. QED BY <1>a, <2>3, <2>a, <3>2, <4>1, Drips
    <3>5. requests[s][j].at <= now
      BY <1>1, <3>3
    <3>6. QED BY <1>1, <2>2, <3>1, <3>4, <3>5
  <2>4. CASE Send(s) /\ tokens' + Period <= Period /\ tokens' + Period <= tokens + (now - lastRefill)
    <3>1. /\ Len(requests'[s]) = L + 1 /\ DOMAIN requests'[s] = 1 .. L + 1
          /\ \A n \in 1 .. L : requests'[s][n] = requests[s][n]
          /\ requests'[s][L + 1].at = now
      BY <2>4, Sending
    <3>2. CASE j = L + 1
      <4>1. (L + 1 - j + 1) * Period = Period /\ tokens' <= Period
        BY <1>1, <2>2, <3>2
      <4>2. QED BY <1>1, <2>2, <2>4, <3>1, <3>2, <4>1
    <3>3. CASE j # L + 1
      <4> DEFINE cost == (L - j + 1) * Period
      <4>1. j \in 1 .. L /\ L - j + 1 \in Int
        BY <1>1, <3>1, <3>3
      <4>2. cost \in Int
        BY <1>1, <4>1, Costs
      <4>3. /\ cost + tokens <= Period + (lastRefill - requests[s][j].at)
            /\ requests[s][j].at <= lastRefill /\ requests[s][j].at \in Nat
        BY <1>1, <1>2, <4>1
      <4>4. cost + (tokens' + Period) <= Period + (now - requests[s][j].at)
        <5> HIDE DEF cost, L
        <5>1. requests[s][j].at \in Int
          BY <4>3
        <5>2. QED BY <1>a, <2>4, <2>a, <4>2, <4>3, <5>1, Drips
      <4>5. requests[s][j].at <= now /\ requests'[s][j] = requests[s][j]
        <5>1. requests[s][j].at \in Nat /\ requests[s][j].at <= lastRefill /\ lastRefill \in 0 .. now /\ now \in Nat
          BY <1>1, <4>3
        <5>2. requests'[s][j] = requests[s][j]
          BY <3>1, <4>1
        <5> HIDE DEF cost, L
        <5>3. QED BY <5>1, <5>2
      <4>6. (Len(requests'[s]) - j + 1) * Period + tokens' = cost + (tokens' + Period)
        <5>1. tokens' \in Int /\ Period \in Int
          BY <1>a, <2>a
        <5>2. Len(requests'[s]) - j + 1 = (L - j + 1) + 1
          BY <1>1, <3>1, <4>1
        <5>3. (Len(requests'[s]) - j + 1) * Period = cost + Period
          BY <1>1, <4>1, <5>2, Costs
        <5> HIDE DEF cost, L
        <5>4. QED BY <4>2, <5>1, <5>3
      <4>7. burst * Period = Period /\ lastRefill' = now
        BY <1>1, <2>2
      <4> HIDE DEF cost, L
      <4>8. requests'[s][j].at <= lastRefill'
        BY <4>5, <4>7, Zenon
      <4>9. cost + (tokens' + Period) <= burst * Period + (lastRefill' - requests'[s][j].at)
        BY <4>4, <4>5, <4>7, Zenon
      <4>10. QED BY <4>6, <4>8, <4>9, Zenon
    <3>4. QED BY <3>2, <3>3
  <2>5. QED BY <2>2, <2>3, <2>4
<1>5. ASSUME NEW t \in left, AskClearlyDefined(t)
      PROVE  requests'[s] = requests[s] /\ lastRefill' = lastRefill /\ tokens' = tokens
  <2>1. t \in Sources /\ t # s /\ (Send(t) \/ requests' = requests)
    BY <1>5 DEF AskClearlyDefined, TypeOK, buildSources
  <2>2. QED BY <1>5, <2>1, Sending DEF AskClearlyDefined, bucket
<1>6. ASSUME NEW t \in left, Wake(t) PROVE t.name = "nvd-api"
  BY <1>6 DEF Wake, At, ResolveInv, WaitInv
<1>7. QED
  BY <1>3, <1>4, <1>5, <1>6
     DEF Next, vars, fixed, bucket, Hit, Miss, Store, Tick, Skip, AskOffline, Answer, AskNVD, Wake

\* However slow or fast the requests are, the NVD gets no more of them in any
\* stretch of time than a full bucket and what drips into it meanwhile
\* (tokenBucket in nvd_api.go).
THEOREM RateTheorem == Spec => []NVDRateBound
<1>1. Init => LedgerInv /\ NVDRateBound
  BY NoneFound DEF Init, LedgerInv, NVDRateBound
<1>2. TypeOK /\ ResolveInv /\ LedgerInv /\ [Next]_vars => LedgerInv'
  BY LedgerStep
<1>3. TypeOK /\ TypeOK' /\ ResolveInv /\ LedgerInv' /\ NVDRateBound /\ [Next]_vars => NVDRateBound'
  <2> SUFFICES ASSUME TypeOK, TypeOK', ResolveInv, LedgerInv', NVDRateBound, [Next]_vars
               PROVE  NVDRateBound'
    OBVIOUS
  <2>1. CASE requests' = requests
    BY <2>1 DEF NVDRateBound
  <2>2. ASSUME NEW t \in left, Send(t), UNCHANGED <<fixed, i, left, acc, cache, answers, now>>
        PROVE  NVDRateBound'
    <3> SUFFICES ASSUME NEW s \in Sources, s.name = "nvd-api",
                        NEW j \in DOMAIN requests'[s], NEW k \in DOMAIN requests'[s], j < k
                 PROVE  (k - j + 1 - burst) * Period <= requests'[s][k].at - requests'[s][j].at
      BY DEF NVDRateBound
    <3>1. t \in Sources
      BY DEF TypeOK, buildSources
    <3>2. CASE t # s
      BY <2>2, <3>1, <3>2, Sending DEF NVDRateBound
    <3>3. CASE t = s
      <4> DEFINE L == Len(requests[s])
      <4>1. /\ L \in Nat /\ DOMAIN requests[s] = 1 .. L
            /\ Period \in Nat /\ burst = 1 /\ now \in Nat
            /\ \A n \in 1 .. L : requests[s][n].at \in Nat
        <5>1. Period \in Nat /\ burst = 1 /\ now \in Nat
          BY ResolverAssumption DEF TypeOK, burst
        <5>2. QED BY <5>1, Sent
      <4>2. /\ Len(requests'[s]) = L + 1 /\ DOMAIN requests'[s] = 1 .. L + 1
            /\ \A n \in 1 .. L : requests'[s][n] = requests[s][n]
            /\ requests'[s][L + 1].at = now
        BY <2>2, <3>3, Sending
      <4>3. j \in 1 .. L
        BY <4>1, <4>2
      <4>4. CASE k \in 1 .. L
        BY <4>1, <4>2, <4>3, <4>4 DEF NVDRateBound
      <4>5. CASE k = L + 1
        <5> DEFINE cost == (L + 1 - j) * Period
        <5>1. /\ L + 1 - j \in Int /\ Len(requests'[s]) - j + 1 = (L + 1 - j) + 1
              /\ k - j + 1 - burst = L + 1 - j /\ burst * Period = Period
          BY <4>1, <4>2, <4>3, <4>5
        <5>2. ((L + 1 - j) + 1) * Period = cost + Period /\ cost \in Int
          BY <4>1, <5>1, Costs
        <5>3. (Len(requests'[s]) - j + 1) * Period + tokens' <= burst * Period + (lastRefill' - requests'[s][j].at)
          BY DEF LedgerInv
        <5>4. cost + Period + tokens' <= Period + (lastRefill' - requests[s][j].at)
          BY <4>2, <4>3, <5>1, <5>2, <5>3
        <5>5. lastRefill' \in Int /\ tokens' \in Nat /\ lastRefill' <= now
          BY <2>2, <4>1 DEF TypeOK
        <5>6. requests[s][j].at \in Nat
          BY <4>1, <4>3
        <5>7. cost <= now - requests[s][j].at
          <6>1. cost \in Int /\ Period \in Int /\ now \in Int
            BY <4>1, <5>2
          <6> HIDE DEF cost, L
          <6>2. QED BY <5>4, <5>5, <5>6, <6>1
        <5>8. QED BY <4>2, <4>3, <4>5, <5>1, <5>7 DEF cost
      <4>6. QED BY <4>1, <4>2, <4>4, <4>5
    <3>4. QED BY <3>2, <3>3
  <2>3. QED BY <2>1, <2>2, RequestsGrow
<1>4. QED BY <1>1, <1>2, <1>3, TypeCorrect, ResolveInvariant, PTL DEF Spec

=============================================================================
