----------------------------- MODULE RateLimit -----------------------------
(***************************************************************************)
(* RateLimitedMatcher (src/internal/fingerprint/matcher/ratelimit.go): the *)
(* token bucket in front of Software Heritage, shared by the workers of    *)
(* the untracked enricher.  refill and the test for a token are two        *)
(* critical sections, so other callers, and time, pass between them.       *)
(*                                                                         *)
(* Tokens are counted in parts, Unit parts to a token, so that the refill  *)
(* of a tick (Rate parts) can be a fraction of a token as it is in the     *)
(* code's float64.                                                         *)
(***************************************************************************)
EXTENDS Integers, Sequences, FiniteSets

CONSTANTS
  Callers,    \* goroutines inside Lookup
  Burst,      \* RateLimitOptions.Burst, in tokens
  Unit,       \* parts of a token
  Rate,       \* RateLimitOptions.PerSecond, in parts per tick
  Poll,       \* the polling interval of acquire, in ticks
  MaxTime     \* bound on the clock

ASSUME RateAssumption ==
  /\ Burst \in Nat \ {0} /\ Unit \in Nat \ {0}
  /\ Rate \in Nat \ {0} /\ Poll \in Nat \ {0}
  /\ MaxTime \in Nat
  /\ IsFiniteSet(Callers)

VARIABLES
  now,        \* r.clock()
  tokens,     \* r.tokens, in parts
  lastRefill, \* r.lastRefill
  pc,         \* where each caller is in acquire
  wake,       \* when the caller's time.After fires
  grants      \* history: the times at which a token was taken

vars == <<now, tokens, lastRefill, pc, wake, grants>>

MaxTokens == Burst * Unit

Init ==
  /\ now = 0
  /\ tokens = MaxTokens
  /\ lastRefill = 0
  /\ pc = [c \in Callers |-> "idle"]
  /\ wake = [c \in Callers |-> 0]
  /\ grants = <<>>

\* Lookup calls acquire.
Begin(c) ==
  /\ pc[c] = "idle"
  /\ pc' = [pc EXCEPT ![c] = "refill"]
  /\ UNCHANGED <<now, tokens, lastRefill, wake, grants>>

Refilled == tokens + (now - lastRefill) * Rate

\* Faulty variant: lastRefill is not advanced, so time is credited again.
RefillTwice(c) ==
  /\ pc[c] = "refill"
  /\ tokens' = IF Refilled > MaxTokens THEN MaxTokens ELSE Refilled
  /\ pc' = [pc EXCEPT ![c] = "take"]
  /\ UNCHANGED <<now, lastRefill, wake, grants>>

\* refill: nothing is added when no time has passed.
Refill(c) ==
  /\ pc[c] = "refill"
  /\ tokens' = IF Refilled > MaxTokens THEN MaxTokens ELSE Refilled
  /\ lastRefill' = now
  /\ pc' = [pc EXCEPT ![c] = "take"]
  /\ UNCHANGED <<now, wake, grants>>

\* Faulty variant: the token is not taken out of the bucket.
TakeWithoutSpending(c) ==
  /\ pc[c] = "take"
  /\ tokens >= Unit
  /\ grants' = Append(grants, now)
  /\ pc' = [pc EXCEPT ![c] = "idle"]
  /\ UNCHANGED <<now, tokens, lastRefill, wake>>

\* The second critical section of acquire: a token is there.
Take(c) ==
  /\ pc[c] = "take"
  /\ tokens >= Unit
  /\ tokens' = tokens - Unit
  /\ grants' = Append(grants, now)
  /\ pc' = [pc EXCEPT ![c] = "idle"]
  /\ UNCHANGED <<now, lastRefill, wake>>

\* There is none: sleep until the next poll.
Sleep(c) ==
  /\ pc[c] = "take"
  /\ tokens < Unit
  /\ wake' = [wake EXCEPT ![c] = now + Poll]
  /\ pc' = [pc EXCEPT ![c] = "sleep"]
  /\ UNCHANGED <<now, tokens, lastRefill, grants>>

Wake(c) ==
  /\ pc[c] = "sleep"
  /\ now >= wake[c]
  /\ pc' = [pc EXCEPT ![c] = "refill"]
  /\ UNCHANGED <<now, tokens, lastRefill, wake, grants>>

\* The caller's context ends while it sleeps (the matcher timeout).
GiveUp(c) ==
  /\ pc[c] = "sleep"
  /\ pc' = [pc EXCEPT ![c] = "idle"]
  /\ UNCHANGED <<now, tokens, lastRefill, wake, grants>>

Tick ==
  /\ now < MaxTime
  /\ now' = now + 1
  /\ UNCHANGED <<tokens, lastRefill, pc, wake, grants>>

Next ==
  \/ \E c \in Callers : Begin(c) \/ Refill(c) \/ Take(c) \/ Sleep(c) \/ Wake(c) \/ GiveUp(c)
  \/ Tick

Spec == Init /\ [][Next]_vars

-----------------------------------------------------------------------------
(* Properties.                                                             *)

TypeOK ==
  /\ now \in Nat
  /\ tokens \in 0 .. MaxTokens
  /\ lastRefill \in Nat /\ lastRefill <= now
  /\ pc \in [Callers -> {"idle", "refill", "take", "sleep"}]
  /\ wake \in [Callers -> Nat]
  /\ grants \in Seq(Nat)

\* From the start, the catalogue is asked at most Burst times plus once for
\* every token the elapsed time has earned.
RateBound == Len(grants) * Unit <= MaxTokens + Rate * now

\* In any stretch of time the grants exceed the bucket's burst and what the
\* stretch earned by at most one per caller: those that refilled before the
\* stretch and took their token in it.
WindowBound ==
  \A i, j \in DOMAIN grants :
    i <= j => (j - i + 1) * Unit
                <= MaxTokens + Cardinality(Callers) * Unit + Rate * (grants[j] - grants[i])
=============================================================================
