---------------------------- MODULE CPEResolver -----------------------------
(***************************************************************************)
(* The resolver behind the CPE enricher, call by call                      *)
(* (internal/enrich/cpe/sources: multi.go, cache.go, nvd_api.go): the      *)
(* components of an SBOM are looked up one after another, each in its      *)
(* sources by priority, answers are kept per PURL, and requests to the NVD *)
(* wait for a token.  A request may fail, and may take long.               *)
(*                                                                         *)
(* What a source knows about a package is a parameter: module CPE defines  *)
(* it for the sources of the program.  Time is in ticks; a token is worth  *)
(* Period of the units the bucket gains, one per tick.                     *)
(***************************************************************************)
EXTENDS Integers, Sequences, FiniteSets, Functions

CONSTANTS
  Sources,          \* the backends: [name, priority, network]
  Package(_),       \* ParsePURL: what a PURL says without its qualifiers
  Candidates(_, _), \* Match of a source for a package, when it does not fail
  High(_),          \* hasHighConfidence
  Coordinates(_),   \* whether ClearlyDefined can be asked about a package
  Lookups,          \* the PURLs of the components, in the order of the walk
  Modes,            \* --cpe-mode
  Threshold,        \* nvdHybridSkipThreshold
  Loaded,           \* the numbers of components the SBOM may have had when it was read
  Period,           \* ticks per token
  Slow              \* until when a request or a timer may be late

ASSUME ResolverAssumption ==
  /\ Modes \subseteq {"offline", "hybrid", "online"}
  /\ Period \in Nat \ {0} /\ Threshold \in Nat /\ Slow \in Nat /\ Loaded \subseteq Nat
  /\ Lookups \in Seq(Range(Lookups))

\* The backends differ in name and in priority, two of them are services, and
\* each answers with a list.
ASSUME SourcesAssumption ==
  /\ \A s \in Sources : s.priority \in Nat /\ (s.network <=> s.name \in {"nvd-api", "clearly-defined"})
  /\ \A s, t \in Sources : s.name = t.name \/ s.priority = t.priority => s = t
  /\ \A s \in Sources : \A n \in DOMAIN Lookups :
       LET cands == Candidates(s, Package(Lookups[n])) IN cands \in Seq(Range(cands))

VARIABLES
  mode, chain,         \* of the run: --cpe-mode and the sources registered for it
  keyed, loaded,       \* whether there is an API key, and the number of components read
  i,                   \* the component being looked up
  phase,               \* "cache" is asked, "walk" over the sources, "sleep" for a token, "request" under way
  left,                \* its sources still to be asked
  acc,                 \* [all, high]: candidates so far, and whether one settles it offline
  cache, answers,
  now, wakeAt, tokens, lastRefill,
  requests             \* history: what each source was sent, [key, at]

bucket == <<wakeAt, tokens, lastRefill>>
fixed == <<mode, chain, keyed, loaded>>
vars == <<fixed, i, phase, left, acc, cache, answers, now, bucket, requests>>

-----------------------------------------------------------------------------
shouldSkipAnonymousNVDInHybrid(m, key, count) == m = "hybrid" /\ ~key /\ count > Threshold

(* buildCPEEnricher and NewMultiSource: the sources for the mode. *)
buildSources(m, key, count) ==
  {s \in Sources : /\ s.network => m # "offline"
                   /\ s.name = "nvd-api" => ~shouldSkipAnonymousNVDInHybrid(m, key, count)}

\* Faulty variant: the qualifiers are part of the key.
purlCacheKeyWhole(purl) == purl

(* purlCacheKey *)
purlCacheKey(purl) == Package(purl)

burst == 1

\* Faulty variant: the bucket has no lid.
refilledForever(elapsed) == tokens + elapsed

(* tryAcquire: the bucket after the time since the last call. *)
refilled(elapsed) ==
  IF tokens + elapsed > burst * Period THEN burst * Period ELSE tokens + elapsed

\* Faulty variant: what network sources say settles it, what offline ones say does not.
settledByNetwork(high, s, cands) == high \/ (s.network /\ High(cands))

settled(high, s, cands) == high \/ (~s.network /\ High(cands))

-----------------------------------------------------------------------------
Current == Package(Lookups[i])
Key == purlCacheKey(Lookups[i])

Nothing == [all |-> <<>>, high |-> FALSE]
With(s, cands) == [all |-> acc.all \o cands, high |-> settled(acc.high, s, cands)]

Init ==
  /\ mode \in Modes /\ keyed \in BOOLEAN /\ loaded \in Loaded
  /\ chain = buildSources(mode, keyed, loaded)
  /\ i = 1 /\ phase = "cache" /\ left = {} /\ acc = Nothing
  /\ cache = <<>> /\ answers = <<>>
  /\ now = 0 /\ wakeAt = 0 /\ tokens = burst * Period /\ lastRefill = 0
  /\ requests = [s \in Sources |-> <<>>]

At(where) == i <= Len(Lookups) /\ phase = where

(* Cache.Get *)
Hit ==
  /\ At("cache") /\ Key \in DOMAIN cache
  /\ answers' = Append(answers, cache[Key]) /\ i' = i + 1
  /\ UNCHANGED <<fixed, phase, left, acc, cache, now, bucket, requests>>

Miss ==
  /\ At("cache") /\ Key \notin DOMAIN cache
  /\ phase' = "walk" /\ left' = chain /\ acc' = Nothing
  /\ UNCHANGED <<fixed, i, cache, answers, now, bucket, requests>>

(* The sources are sorted by priority. *)
Due(s) == \A t \in left : t.priority <= s.priority

Skipped(s) == mode = "hybrid" /\ acc.high /\ s.network

Skip(s) ==
  /\ At("walk") /\ Due(s) /\ Skipped(s)
  /\ left' = left \ {s}
  /\ UNCHANGED <<fixed, i, phase, acc, cache, answers, now, bucket, requests>>

AskOffline(s) ==
  /\ At("walk") /\ Due(s) /\ ~s.network
  /\ acc' = With(s, Candidates(s, Current))
  /\ left' = left \ {s}
  /\ UNCHANGED <<fixed, i, phase, cache, answers, now, bucket, requests>>

Send(s) == requests' = [requests EXCEPT ![s] = Append(@, [key |-> Current, at |-> now])]

(* tryAcquire; the wait is never zero without a token. *)
TryAcquire(s) ==
  LET level == refilled(now - lastRefill) IN
  /\ lastRefill' = now
  /\ IF level >= Period
     THEN tokens' = level - Period /\ phase' = "request" /\ Send(s) /\ UNCHANGED wakeAt
     ELSE tokens' = level /\ phase' = "sleep" /\ wakeAt' = now + (Period - level) /\ UNCHANGED requests
  /\ UNCHANGED <<fixed, i, left, acc, cache, answers, now>>

AskNVD(s) == At("walk") /\ Due(s) /\ ~Skipped(s) /\ s.name = "nvd-api" /\ TryAcquire(s)

Wake(s) == At("sleep") /\ Due(s) /\ now >= wakeAt /\ TryAcquire(s)

(* A PURL without coordinates is answered without a request. *)
AskClearlyDefined(s) ==
  /\ At("walk") /\ Due(s) /\ ~Skipped(s) /\ s.name = "clearly-defined"
  /\ IF Coordinates(Current)
     THEN phase' = "request" /\ Send(s) /\ UNCHANGED left
     ELSE left' = left \ {s} /\ UNCHANGED <<phase, requests>>
  /\ UNCHANGED <<fixed, i, acc, cache, answers, now, bucket>>

\* Faulty variant: an error discards what other sources found.
AnswerOrNothing(s) ==
  /\ At("request") /\ Due(s)
  /\ acc' \in {With(s, Candidates(s, Current)), Nothing}
  /\ phase' = "walk" /\ left' = left \ {s}
  /\ UNCHANGED <<fixed, i, cache, answers, now, bucket, requests>>

(* The answer, or an error, which leaves the source out. *)
Answer(s) ==
  /\ At("request") /\ Due(s)
  /\ \E cands \in {Candidates(s, Current), <<>>} : acc' = With(s, cands)
  /\ phase' = "walk" /\ left' = left \ {s}
  /\ UNCHANGED <<fixed, i, cache, answers, now, bucket, requests>>

(* Cache.Set, of an empty answer too. *)
Store ==
  /\ At("walk") /\ left = {}
  /\ cache' = [k \in DOMAIN cache \cup {Key} |-> IF k = Key THEN acc.all ELSE cache[k]]
  /\ answers' = Append(answers, acc.all)
  /\ i' = i + 1 /\ phase' = "cache"
  /\ UNCHANGED <<fixed, left, acc, now, bucket, requests>>

Tick ==
  /\ \/ At("request") /\ now < Slow
     \/ At("sleep") /\ (now < wakeAt \/ now < Slow)
  /\ now' = now + 1
  /\ UNCHANGED <<fixed, i, phase, left, acc, cache, answers, bucket, requests>>

Next ==
  \/ Hit \/ Miss \/ Store \/ Tick
  \/ \E s \in left : Skip(s) \/ AskOffline(s) \/ AskNVD(s) \/ Wake(s) \/ AskClearlyDefined(s) \/ Answer(s)

Spec == Init /\ [][Next]_vars

\* Resolve runs on the enricher's goroutine; requests and timers end.
FairSpec == Spec /\ WF_vars(Next)

-----------------------------------------------------------------------------
TypeOK ==
  /\ mode \in Modes /\ keyed \in BOOLEAN /\ loaded \in Loaded
  /\ chain = buildSources(mode, keyed, loaded)
  /\ i \in Nat \ {0}
  /\ phase \in {"cache", "walk", "sleep", "request"}
  /\ left \subseteq chain
  /\ acc = [all |-> acc.all, high |-> acc.high] /\ acc.high \in BOOLEAN
  /\ answers \in Seq(Range(answers))
  /\ now \in Nat /\ wakeAt \in Nat /\ lastRefill \in 0 .. now /\ tokens \in 0 .. burst * Period
  /\ requests \in [Sources -> Seq([key : {Package(Lookups[n]) : n \in DOMAIN Lookups}, at : 0 .. now])]

\* However slow requests are, the NVD gets no more of them in any stretch of time
\* than the bucket's size and what drips into it meanwhile (tokenBucket).
NVDRateBound ==
  \A s \in Sources : s.name = "nvd-api" =>
    \A j, k \in DOMAIN requests[s] :
      j < k => (k - j + 1 - burst) * Period <= requests[s][k].at - requests[s][j].at

\* Components of one package get one answer in a run, whatever fails in between,
\* and cost each service one request (resolveCtx and its cache).
SamePURLSameAnswer ==
  /\ \A j, k \in DOMAIN answers : Package(Lookups[j]) = Package(Lookups[k]) => answers[j] = answers[k]
  /\ \A s \in Sources : \A j, k \in DOMAIN requests[s] : requests[s][j].key = requests[s][k].key => j = k

\* A request means that no offline mode was asked for, that in hybrid mode no
\* dictionary walked before the service settles the package, and that the
\* anonymous NVD is not asked for a large SBOM.
NetworkOnlyWhenNeeded ==
  \A s \in Sources : \A n \in DOMAIN requests[s] :
    /\ mode # "offline"
    /\ mode = "hybrid" => \A t \in Sources : ~t.network /\ t.priority > s.priority =>
                            ~High(Candidates(t, requests[s][n].key))
    /\ mode = "hybrid" /\ ~keyed /\ s.name = "nvd-api" => loaded <= Threshold

\* An answer has all that the offline sources know of its package, whatever
\* fails, and nothing that no source said of it.
AnswersAreTheirOwn ==
  \A j \in DOMAIN answers :
    LET known(s) == Range(Candidates(s, Package(Lookups[j]))) IN
    /\ \A s \in Sources : ~s.network => known(s) \subseteq Range(answers[j])
    /\ Range(answers[j]) \subseteq UNION {known(s) : s \in chain}

\* Every component is answered in the end, completely: waiting for tokens ends,
\* and a failed request holds nothing up and discards nothing.
AllAnswered == <>(Len(answers) = Len(Lookups) /\ AnswersAreTheirOwn)
=============================================================================
