--------------------------- MODULE MatcherCache ---------------------------
(***************************************************************************)
(* CachedMatcher (src/internal/fingerprint/matcher/cached.go): a TTL cache *)
(* with a size bound around a slow matcher, shared by the goroutines of    *)
(* the untracked enricher's worker pool.                                   *)
(*                                                                         *)
(* The mutex is held for single map accesses only.  A Lookup is therefore  *)
(* cut at every place where another goroutine can run: after the RLock'd   *)
(* map read, between the age check and the Lock'd delete, during the inner *)
(* lookup, and between the clock reading and the Lock'd store.             *)
(***************************************************************************)
EXTENDS Integers, Sequences, FiniteSets, Functions

CONSTANTS
  Callers,     \* goroutines that share the cache
  Keys,        \* "alg:digest" keys
  Matches,     \* what the inner matcher may identify
  NoMatch,     \* the cached ErrNoMatch
  NoEntry,     \* a key the entries map does not hold
  MaxEntries,  \* CacheOptions.MaxEntries
  TTL,         \* CacheOptions.TTL, in clock ticks
  MaxTime,     \* bound: the clock stops here
  MaxLookups   \* bound: lookups started in one behaviour

Entry == [val : Matches \cup {NoMatch}, insert : Nat]

ASSUME CacheAssumption ==
  /\ IsFiniteSet(Keys) /\ Keys # {}
  /\ MaxEntries \in Nat \ {0}   \* NewCached replaces 0 by 4096
  /\ TTL \in Nat \ {0}          \* NewCached replaces 0 by an hour
  /\ MaxTime \in Nat
  /\ MaxLookups \in Nat
  /\ NoEntry \notin Entry

VARIABLES
  now,      \* c.clock()
  entries,  \* c.entries
  order,    \* c.order
  pc,       \* where each goroutine is in Lookup
  key,      \* its key
  held,     \* the cachedEntry in its hands: read from the map, or to be stored
  lookups,  \* lookups started so far
  expired   \* history: entries that the expiry branch of read removed

vars == <<now, entries, order, pc, key, held, lookups, expired>>

\* The keys the entries map holds: len(c.entries) is its cardinality.
Live == {k \in Keys : entries[k] # NoEntry}

\* The keys c.order mentions.
Queued == Range(order)

Init ==
  /\ now = 0
  /\ entries = [k \in Keys |-> NoEntry]
  /\ order = <<>>
  /\ pc = [c \in Callers |-> "idle"]
  /\ key = [c \in Callers |-> CHOOSE k \in Keys : TRUE]  \* not read before Lookup sets it
  /\ held = [c \in Callers |-> NoEntry]
  /\ lookups = 0
  /\ expired = 0

-----------------------------------------------------------------------------
(* The steps of Lookup.                                                    *)

\* Lookup begins: the map read of read(), under RLock.
Lookup(c, k) ==
  /\ pc[c] = "idle"
  /\ lookups < MaxLookups
  /\ lookups' = lookups + 1
  /\ key' = [key EXCEPT ![c] = k]
  /\ held' = [held EXCEPT ![c] = entries[k]]
  /\ pc' = [pc EXCEPT ![c] = IF entries[k] = NoEntry THEN "call" ELSE "age"]
  /\ UNCHANGED <<now, entries, order, expired>>

\* Faulty variant: an expired entry is re-read and never deleted.
CheckAgeRereads(c) ==
  /\ pc[c] = "age"
  /\ pc' = [pc EXCEPT ![c] = IF now - held[c].insert > TTL THEN "age" ELSE "idle"]
  /\ UNCHANGED <<now, entries, order, key, held, lookups, expired>>

\* The unlocked age check: a fresh entry is returned, an expired one goes on
\* to the delete.
CheckAge(c) ==
  /\ pc[c] = "age"
  /\ IF now - held[c].insert > TTL
     THEN /\ pc' = [pc EXCEPT ![c] = "expire"]
          /\ UNCHANGED held
     ELSE /\ pc' = [pc EXCEPT ![c] = "idle"]
          /\ held' = [held EXCEPT ![c] = NoEntry]
  /\ UNCHANGED <<now, entries, order, key, lookups, expired>>

\* The Lock'd delete of read(): whatever the map now holds under the key
\* goes; c.order keeps the key.
Expire(c) ==
  /\ pc[c] = "expire"
  /\ entries' = [entries EXCEPT ![key[c]] = NoEntry]
  /\ expired' = IF key[c] \in Live THEN expired + 1 ELSE expired
  /\ pc' = [pc EXCEPT ![c] = "call"]
  /\ held' = [held EXCEPT ![c] = NoEntry]
  /\ UNCHANGED <<now, order, key, lookups>>

\* The inner matcher answers with a match or with ErrNoMatch, and the
\* answer is stamped with the clock.
InnerAnswers(c) ==
  /\ pc[c] = "call"
  /\ \E v \in Matches \cup {NoMatch} :
        held' = [held EXCEPT ![c] = [val |-> v, insert |-> now]]
  /\ pc' = [pc EXCEPT ![c] = "store"]
  /\ UNCHANGED <<now, entries, order, key, lookups, expired>>

\* The inner matcher fails (network, 5xx, the lookup's deadline): the error
\* is returned and nothing is cached.
InnerFails(c) ==
  /\ pc[c] = "call"
  /\ pc' = [pc EXCEPT ![c] = "idle"]
  /\ UNCHANGED <<now, entries, order, key, held, lookups, expired>>

\* store: under Lock, a new key at capacity pushes out the head of c.order.
Full == Cardinality(Live) >= MaxEntries

\* Faulty variants of store.
WriteWithoutEviction(k, e) ==
  /\ entries' = [entries EXCEPT ![k] = e]
  /\ order' = IF k \in Live THEN order ELSE Append(order, k)
WriteWithoutQueueing(k, e) ==
  /\ entries' = [entries EXCEPT ![k] = e]
  /\ UNCHANGED order
WriteQueueingAgain(k, e) ==
  /\ entries' = IF k \notin Live /\ Full /\ order # <<>>
                THEN [entries EXCEPT ![Head(order)] = NoEntry, ![k] = e]
                ELSE [entries EXCEPT ![k] = e]
  /\ order' = IF k \notin Live /\ Full /\ order # <<>>
              THEN Append(Tail(order), k)
              ELSE Append(order, k)

Write(k, e) ==
  IF k \notin Live /\ Full /\ order # <<>>
  THEN /\ entries' = [entries EXCEPT ![Head(order)] = NoEntry, ![k] = e]
       /\ order' = Append(Tail(order), k)
  ELSE /\ entries' = [entries EXCEPT ![k] = e]
       /\ order' = IF k \in Live THEN order ELSE Append(order, k)

Store(c) ==
  /\ pc[c] = "store"
  /\ Write(key[c], held[c])
  /\ pc' = [pc EXCEPT ![c] = "idle"]
  /\ held' = [held EXCEPT ![c] = NoEntry]
  /\ UNCHANGED <<now, key, lookups, expired>>

Tick ==
  /\ now < MaxTime
  /\ now' = now + 1
  /\ UNCHANGED <<entries, order, pc, key, held, lookups, expired>>

Progress(c) == CheckAge(c) \/ Expire(c) \/ InnerAnswers(c) \/ InnerFails(c) \/ Store(c)

Next ==
  \/ \E c \in Callers, k \in Keys : Lookup(c, k)
  \/ \E c \in Callers : Progress(c)
  \/ Tick

Spec == Init /\ [][Next]_vars

\* A goroutine inside Lookup is scheduled, and the inner call ends: every
\* lookup runs under a context with a deadline (MatcherTimeout).
FairSpec == Spec /\ \A c \in Callers : WF_vars(Progress(c))

-----------------------------------------------------------------------------
(* Properties.                                                             *)

\* Every variable has its type; in particular only answers are ever held by
\* the map, and each goroutine that checks or stores holds an entry.
TypeOK ==
  /\ now \in Nat
  /\ entries \in [Keys -> Entry \cup {NoEntry}]
  /\ order \in Seq(Keys)
  /\ pc \in [Callers -> {"idle", "age", "expire", "call", "store"}]
  /\ key \in [Callers -> Keys]
  /\ held \in [Callers -> Entry \cup {NoEntry}]
  /\ lookups \in Nat
  /\ expired \in Nat
  /\ \A c \in Callers : pc[c] \in {"age", "expire", "store"} => held[c] # NoEntry

\* Every entry of the map can still be evicted: its key is in c.order.  An
\* entry outside c.order would stay until its key is looked up again.
OrderCoversEntries == Live \subseteq Queued

\* c.order and len(c.entries) differ by at most one per expiry removal, so
\* the cache outgrows MaxEntries by no more than the number of entries that
\* read() has expired.
BoundUpToExpiries ==
  /\ Len(order) <= Cardinality(Live) + expired
  /\ Len(order) <= MaxEntries + expired
  /\ Cardinality(Live) <= MaxEntries + expired

\* Until an entry expires, c.order lists the keys of the map exactly once
\* each, whatever the goroutines' interleaving: first in, first out.
ExactQueueUntilExpiry ==
  expired = 0 =>
    /\ Queued = Live
    /\ IsInjective(order)

\* Every lookup returns to its caller.
LookupReturns == \A c \in Callers : pc[c] # "idle" ~> pc[c] = "idle"
=============================================================================
