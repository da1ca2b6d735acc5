-------------------------- MODULE UntrackedProofs --------------------------
(***************************************************************************)
(* What the untracked enricher promises of the components it adds, for     *)
(* every image, every SBOM it starts from, every number of workers and     *)
(* every order in which they receive, answer and return.                   *)
(***************************************************************************)
EXTENDS Untracked, Functions, FiniteSetTheorems, SequenceTheorems, TLAPS

-----------------------------------------------------------------------------
(* Sequences of whatever they hold: the components, tasks and channel.      *)

IsSeq(s) == s \in Seq(Range(s))

\* A sequence over some set is a sequence of its own elements.
LEMMA SeqOfOwn ==
  ASSUME NEW S, NEW s \in Seq(S)
  PROVE  IsSeq(s)
<1>1. Len(s) \in Nat /\ s \in [1 .. Len(s) -> S] /\ DOMAIN s = 1 .. Len(s)
  BY LenProperties
<1>2. s \in [1 .. Len(s) -> Range(s)]
  BY <1>1 DEF Range
<1>3. s \in Seq(Range(s))
  BY <1>1, <1>2
<1>4. QED BY <1>3 DEF IsSeq

\* The places of a sequence are numbered from one.
LEMMA SeqPlaces ==
  ASSUME NEW s, IsSeq(s)
  PROVE  /\ Len(s) \in Nat /\ DOMAIN s = 1 .. Len(s)
         /\ s = <<>> <=> Len(s) = 0
BY LenProperties, EmptySeq DEF IsSeq

\* What appending an element does to the places of a sequence.
LEMMA SeqAppend ==
  ASSUME NEW s, IsSeq(s), NEW x
  PROVE  /\ IsSeq(Append(s, x)) /\ Len(Append(s, x)) = Len(s) + 1
         /\ DOMAIN Append(s, x) = 1 .. Len(s) + 1
         /\ \A n \in 1 .. Len(s) : Append(s, x)[n] = s[n]
         /\ Append(s, x)[Len(s) + 1] = x
<1> DEFINE S == Range(s) \cup {x}
<1>1. /\ Len(s) \in Nat /\ s \in [1 .. Len(s) -> Range(s)] /\ DOMAIN s = 1 .. Len(s)
  BY LenProperties DEF IsSeq
<1>2. s \in [1 .. Len(s) -> S]
  BY <1>1
<1>3. s \in Seq(S) /\ x \in S
  BY <1>1, <1>2
<1> HIDE DEF S
<1>4. /\ Append(s, x) \in Seq(S) /\ Len(Append(s, x)) = Len(s) + 1
      /\ DOMAIN Append(s, x) = 1 .. Len(s) + 1
      /\ \A n \in 1 .. Len(s) : Append(s, x)[n] = s[n]
      /\ Append(s, x)[Len(s) + 1] = x
  BY <1>3
<1>5. QED BY <1>4, SeqOfOwn

\* What dropping the head does to the places of a sequence.
LEMMA SeqTail ==
  ASSUME NEW s, IsSeq(s), s # <<>>
  PROVE  /\ IsSeq(Tail(s)) /\ Len(Tail(s)) = Len(s) - 1 /\ Len(s) \in Nat \ {0}
         /\ DOMAIN Tail(s) = 1 .. Len(s) - 1
         /\ \A n \in 1 .. Len(s) - 1 : Tail(s)[n] = s[n + 1]
         /\ Head(s) = s[1]
<1>1. s \in Seq(Range(s))
  BY DEF IsSeq
<1>2. /\ Tail(s) \in Seq(Range(s)) /\ Len(Tail(s)) = Len(s) - 1 /\ Len(s) \in Nat \ {0}
      /\ DOMAIN Tail(s) = 1 .. Len(s) - 1
      /\ \A n \in 1 .. Len(s) - 1 : Tail(s)[n] = s[n + 1]
      /\ Head(s) = s[1]
  BY <1>1, HeadTailProperties, LenProperties, EmptySeq
<1>3. QED BY <1>2, SeqOfOwn

\* Setting one place of a sequence.
LEMMA SeqExcept ==
  ASSUME NEW s, IsSeq(s), NEW i \in DOMAIN s, NEW x
  PROVE  /\ IsSeq([s EXCEPT ![i] = x]) /\ Len([s EXCEPT ![i] = x]) = Len(s)
         /\ DOMAIN [s EXCEPT ![i] = x] = DOMAIN s
         /\ [s EXCEPT ![i] = x][i] = x
         /\ \A n \in DOMAIN s : n # i => [s EXCEPT ![i] = x][n] = s[n]
<1> DEFINE S == Range(s) \cup {x}
           t == [s EXCEPT ![i] = x]
<1>1. /\ Len(s) \in Nat /\ s \in [1 .. Len(s) -> Range(s)] /\ DOMAIN s = 1 .. Len(s)
  BY LenProperties DEF IsSeq
<1>2. /\ t \in [1 .. Len(s) -> S] /\ DOMAIN t = 1 .. Len(s) /\ t[i] = x
      /\ \A n \in DOMAIN s : n # i => t[n] = s[n]
  BY <1>1
<1> HIDE DEF S, t
<1>3. t \in Seq(S)
  BY <1>1, <1>2
<1>4. Len(t) = Len(s)
  BY <1>1, <1>2, <1>3
<1>5. IsSeq(t)
  BY <1>3, SeqOfOwn
<1>6. QED BY <1>1, <1>2, <1>4, <1>5 DEF t

\* The places of a concatenation.
LEMMA SeqConcat ==
  ASSUME NEW s, NEW t, IsSeq(s), IsSeq(t)
  PROVE  /\ IsSeq(s \o t) /\ Len(s \o t) = Len(s) + Len(t)
         /\ DOMAIN (s \o t) = 1 .. Len(s) + Len(t)
         /\ \A n \in 1 .. Len(s) : (s \o t)[n] = s[n]
         /\ \A n \in Len(s) + 1 .. Len(s) + Len(t) : (s \o t)[n] = t[n - Len(s)]
<1> DEFINE S == Range(s) \cup Range(t)
<1>1. /\ Len(s) \in Nat /\ s \in [1 .. Len(s) -> Range(s)]
      /\ Len(t) \in Nat /\ t \in [1 .. Len(t) -> Range(t)]
  BY LenProperties DEF IsSeq
<1>2. s \in [1 .. Len(s) -> S] /\ t \in [1 .. Len(t) -> S]
  BY <1>1
<1>3. s \in Seq(S) /\ t \in Seq(S)
  BY <1>1, <1>2
<1> HIDE DEF S
<1>4. /\ s \o t \in Seq(S) /\ Len(s \o t) = Len(s) + Len(t)
  BY <1>3, ConcatProperties
<1>5. DOMAIN (s \o t) = 1 .. Len(s) + Len(t)
  BY <1>4, LenProperties
<1>6. \A n \in 1 .. Len(s) + Len(t) : (s \o t)[n] = IF n <= Len(s) THEN s[n] ELSE t[n - Len(s)]
  BY <1>3, ConcatProperties
<1>7. IsSeq(s \o t)
  BY <1>4, SeqOfOwn
<1>8. QED BY <1>1, <1>4, <1>5, <1>6, <1>7

-----------------------------------------------------------------------------

Types ==
  /\ files \in FileSystems /\ baseline \in Baselines
  /\ IsSeq(components) /\ IsSeq(tasks) /\ IsSeq(channel) /\ IsSeq(asked)
  /\ phase \in {"detect", "walk", "send", "wait", "done", "failed"}
  /\ next \in Nat \ {0} /\ added \in Nat /\ hits \in Nat
  /\ live \subseteq Workers
  /\ held = [w \in Workers |-> held[w]]

\* The components the SBOM came with stay in front, as they were.
BaselineStays ==
  /\ Len(baseline) <= Len(components)
  /\ \A n \in 1 .. Len(baseline) : components[n] = baseline[n]

\* A component the scan added: its fields, and its match is of its content.
AddedComponent(c) ==
  /\ c = [ref |-> c.ref, purl |-> c.purl, digest |-> c.digest, method |-> c.method, match |-> c.match]
  /\ c.method = "fingerprint" => c.match = c.digest

AddedWell == \A n \in New : AddedComponent(components[n])

\* A task names, by index, a file component the scan added, with the content
\* of that component; no two tasks name the same.
TaskOfComponent(t) ==
  /\ t.index \in New
  /\ components[t.index].digest = t.digest /\ components[t.index].method # "cluster"

TasksWell ==
  /\ \A k \in DOMAIN tasks : TaskOfComponent(tasks[k])
  /\ \A j, k \in DOMAIN tasks : tasks[j].index = tasks[k].index => j = k

\* The number of tasks that have been sent.
Sent == IF phase = "send" THEN next - 1 ELSE IF phase \in {"wait", "done"} THEN Len(tasks) ELSE 0

\* What was handed to the matcher, followed by what is in the channel, are the
\* tasks sent so far, in order.
SentInOrder ==
  /\ Len(asked) + Len(channel) = Sent /\ Sent <= Len(tasks)
  /\ \A k \in DOMAIN asked : asked[k] = tasks[k]
  /\ \A k \in DOMAIN channel : channel[k] = tasks[Len(asked) + k]

\* The pool runs between the send and the wait, and is drained before it ends.
PoolPhases ==
  /\ phase \in {"detect", "walk", "failed", "done"} => live = {}
  /\ phase \in {"detect", "walk", "failed", "send"} => ~closed
  /\ phase = "send" => live # {}
  /\ phase = "wait" => live # {} \/ channel = <<>>
  /\ phase = "done" => channel = <<>>

\* A worker looks up a task that was handed out, and nobody else does.
HeldOnce ==
  /\ \A w \in Workers : held[w] # NoTask => w \in live /\ \E k \in DOMAIN asked : held[w] = asked[k]
  /\ \A v, w \in Workers : held[v] # NoTask /\ held[v] = held[w] => v = w

\* The components identified, each by a task that no worker still holds.
Identified == {n \in New : components[n].method = "fingerprint"}
AnsweredBy(k, n) == asked[k].index = n /\ \A w \in Workers : held[w] # NoTask => held[w] # asked[k]
HitsCounted ==
  /\ hits = Cardinality(Identified)
  /\ \A n \in Identified : \E k \in DOMAIN asked : AnsweredBy(k, n)

\* The limit is tested against the number of files among the new components.
AddedFiles == {n \in New : components[n].method # "cluster"}
LimitCounted == added = Cardinality(AddedFiles) /\ added <= MaxComponents

PoolInv ==
  /\ Types /\ BaselineStays /\ AddedWell /\ TasksWell /\ SentInOrder /\ PoolPhases
  /\ HeldOnce /\ HitsCounted /\ LimitCounted

-----------------------------------------------------------------------------
(* Facts used throughout.                                                  *)

\* The sequences of the state, and the sets of places that are counted.
LEMMA Basics ==
  ASSUME Types
  PROVE  /\ IsSeq(baseline) /\ Len(baseline) \in Nat /\ DOMAIN baseline = 1 .. Len(baseline)
         /\ Len(components) \in Nat /\ DOMAIN components = 1 .. Len(components)
         /\ Len(tasks) \in Nat /\ DOMAIN tasks = 1 .. Len(tasks) /\ (tasks = <<>> <=> Len(tasks) = 0)
         /\ Len(channel) \in Nat /\ DOMAIN channel = 1 .. Len(channel) /\ (channel = <<>> <=> Len(channel) = 0)
         /\ Len(asked) \in Nat /\ DOMAIN asked = 1 .. Len(asked)
         /\ New = {n \in 1 .. Len(components) : n > Len(baseline)}
         /\ IsFiniteSet(Identified) /\ IsFiniteSet(AddedFiles)
<1>1. IsSeq(baseline)
  BY UntrackedAssumption, SeqOfOwn DEF Types
<1>2. Len(baseline) \in Nat /\ DOMAIN baseline = 1 .. Len(baseline)
  BY <1>1, SeqPlaces
<1>3. Len(components) \in Nat /\ DOMAIN components = 1 .. Len(components)
  BY SeqPlaces DEF Types
<1>4. /\ Len(tasks) \in Nat /\ DOMAIN tasks = 1 .. Len(tasks) /\ (tasks = <<>> <=> Len(tasks) = 0)
      /\ Len(channel) \in Nat /\ DOMAIN channel = 1 .. Len(channel) /\ (channel = <<>> <=> Len(channel) = 0)
      /\ Len(asked) \in Nat /\ DOMAIN asked = 1 .. Len(asked)
  BY SeqPlaces DEF Types
<1>5. New = {n \in 1 .. Len(components) : n > Len(baseline)}
  BY <1>3 DEF New
<1>6. IsFiniteSet(1 .. Len(components))
  BY <1>3, FS_Interval
<1>7. Identified \subseteq 1 .. Len(components) /\ AddedFiles \subseteq 1 .. Len(components)
  BY <1>5 DEF Identified, AddedFiles
<1>8. IsFiniteSet(Identified) /\ IsFiniteSet(AddedFiles)
  BY <1>6, <1>7, FS_Subset
<1>9. QED BY <1>1, <1>2, <1>3, <1>4, <1>5, <1>8

\* The part of the invariant that is about components and tasks.
ScanInv == BaselineStays /\ AddedWell /\ TasksWell /\ LimitCounted

\* It is kept by a step that leaves them alone.
LEMMA ScanStays ==
  ASSUME ScanInv, UNCHANGED <<baseline, components, tasks, added>>
  PROVE  ScanInv' /\ New' = New /\ Identified' = Identified
<1>1. New' = New /\ Identified' = Identified /\ AddedFiles' = AddedFiles
  BY DEF New, Identified, AddedFiles
<1>2. BaselineStays' /\ AddedWell'
  BY <1>1 DEF ScanInv, BaselineStays, AddedWell, AddedComponent
<1>3. TasksWell'
  BY <1>1 DEF ScanInv, TasksWell, TaskOfComponent
<1>4. LimitCounted'
  BY <1>1 DEF ScanInv, LimitCounted
<1>5. QED BY <1>1, <1>2, <1>3, <1>4 DEF ScanInv

\* The part about the pool, kept by a step that leaves the pool and the
\* components alone and sends nothing.
PoolState == SentInOrder /\ PoolPhases /\ HeldOnce /\ HitsCounted

LEMMA PoolStays ==
  ASSUME PoolState, Identified' = Identified, UNCHANGED <<asked, held, hits>>,
         UNCHANGED live \/ (\A w \in Workers : held[w] # NoTask => w \in live')
  PROVE  HeldOnce' /\ HitsCounted'
<1>1. HeldOnce'
  BY DEF PoolState, HeldOnce
<1>2. HitsCounted'
  BY DEF PoolState, HitsCounted, AnsweredBy
<1>3. QED BY <1>1, <1>2

\* The initial state.
LEMMA InitPool == Init => PoolInv
<1> SUFFICES ASSUME Init PROVE PoolInv
  OBVIOUS
<1>1. IsSeq(<<>>) /\ Len(<<>>) = 0 /\ DOMAIN <<>> = {}
  <2>1. <<>> \in Seq({}) /\ Len(<<>>) = 0 /\ DOMAIN <<>> = {}
    OBVIOUS
  <2>2. QED BY <2>1, SeqOfOwn
<1>2. IsSeq(components)
  BY UntrackedAssumption, SeqOfOwn DEF Init
<1>3. Types
  <2>1. held = [w \in Workers |-> held[w]]
    BY DEF Init
  <2>2. IsSeq(tasks) /\ IsSeq(channel) /\ IsSeq(asked) /\ live \subseteq Workers
    BY <1>1 DEF Init
  <2>3. files \in FileSystems /\ baseline \in Baselines
    BY DEF Init
  <2>4. /\ phase = "detect" /\ next \in Nat \ {0} /\ added \in Nat /\ hits \in Nat
    BY DEF Init
  <2>5. QED BY <1>2, <2>1, <2>2, <2>3, <2>4 DEF Types
<1>4. New = {} /\ Identified = {} /\ AddedFiles = {}
  <2>1. New = {}
    BY <1>3, Basics DEF Init
  <2>2. QED BY <2>1 DEF Identified, AddedFiles
<1>5. BaselineStays /\ AddedWell /\ TasksWell
  BY <1>1, <1>3, <1>4, Basics DEF Init, BaselineStays, AddedWell, TasksWell
<1>6. SentInOrder
  BY <1>1, <1>3, Basics DEF Init, SentInOrder, Sent
<1>7. PoolPhases /\ HeldOnce
  BY <1>1 DEF Init, PoolPhases, HeldOnce
<1>8. HitsCounted /\ LimitCounted
  BY <1>4, FS_EmptySet, UntrackedAssumption DEF Init, HitsCounted, LimitCounted
<1>9. QED BY <1>3, <1>5, <1>6, <1>7, <1>8 DEF PoolInv

-----------------------------------------------------------------------------
(* The scan.                                                               *)

\* The steps of the scan that record nothing: a pre-pass without clusters, a
\* file that is passed over, and the ways a walk can fail.
LEMMA PassOver ==
  ASSUME PoolInv, phase \in {"detect", "walk"}, phase' \in {"walk", "failed"}, next' \in Nat \ {0},
         UNCHANGED <<scan, components, pool>>
  PROVE  PoolInv'
<1>1. UNCHANGED <<files, baseline, components, tasks, added, channel, closed, held, live, asked, hits>>
  BY DEF scan, pool
<1>2. Types'
  BY <1>1 DEF PoolInv, Types
<1>3. ScanInv' /\ Identified' = Identified
  BY <1>1, ScanStays DEF PoolInv, ScanInv
<1>4. HeldOnce' /\ HitsCounted'
  BY <1>1, <1>3, PoolStays DEF PoolInv, PoolState
<1>5. SentInOrder'
  BY <1>1 DEF PoolInv, SentInOrder, Sent
<1>6. PoolPhases'
  BY <1>1 DEF PoolInv, PoolPhases
<1>7. QED BY <1>2, <1>3, <1>4, <1>5, <1>6 DEF PoolInv, ScanInv

\* Nothing has been asked before the pool starts.
LEMMA BeforePool ==
  ASSUME PoolInv, phase \in {"detect", "walk"}
  PROVE  /\ Len(asked) = 0 /\ Len(channel) = 0 /\ Identified = {} /\ live = {} /\ ~closed
         /\ \A w \in Workers : held[w] = NoTask
<1>1. Len(asked) + Len(channel) = 0 /\ Len(asked) \in Nat /\ Len(channel) \in Nat /\ DOMAIN asked = 1 .. Len(asked)
  BY Basics DEF PoolInv, SentInOrder, Sent
<1>2. Len(asked) = 0 /\ Len(channel) = 0 /\ DOMAIN asked = {}
  BY <1>1
<1>3. Identified = {}
  BY <1>2 DEF PoolInv, HitsCounted
<1>4. live = {} /\ ~closed
  BY DEF PoolInv, PoolPhases
<1>5. \A w \in Workers : held[w] = NoTask
  BY <1>2 DEF PoolInv, HeldOnce
<1>6. QED BY <1>2, <1>3, <1>4, <1>5

\* Components are added behind the ones there are, none of them identified:
\* the tasks and the baseline keep what they refer to.
LEMMA ComponentsGrow ==
  ASSUME PoolInv, phase \in {"detect", "walk"}, phase' = "walk", IsSeq(components'),
         Len(components) <= Len(components'),
         \A n \in 1 .. Len(components) : components'[n] = components[n],
         \A n \in Len(components) + 1 .. Len(components') :
           AddedComponent(components'[n]) /\ components'[n].method # "fingerprint",
         UNCHANGED <<files, baseline, channel, closed, held, live, asked, hits>>,
         next' \in Nat \ {0}, added' \in Nat, IsSeq(tasks')
  PROVE  /\ Types' /\ BaselineStays' /\ AddedWell' /\ PoolState'
         /\ New \subseteq New'
         /\ \A n \in New' : n \in New \/ n \in Len(components) + 1 .. Len(components')
         /\ \A k \in DOMAIN tasks : TaskOfComponent(tasks[k]) /\
              (tasks[k].index \in New' /\ components'[tasks[k].index].digest = tasks[k].digest
               /\ components'[tasks[k].index].method # "cluster")
<1>1. Types /\ Types'
  BY DEF PoolInv, Types
<1>2. /\ Len(baseline) \in Nat /\ Len(components) \in Nat /\ Len(baseline) <= Len(components)
      /\ New = {n \in 1 .. Len(components) : n > Len(baseline)}
      /\ Len(components') \in Nat
      /\ New' = {n \in 1 .. Len(components') : n > Len(baseline)}
  <2>1. Len(components') \in Nat /\ DOMAIN components' = 1 .. Len(components')
    BY SeqPlaces
  <2>2. New' = {n \in 1 .. Len(components') : n > Len(baseline)}
    BY <2>1 DEF New
  <2>3. Len(baseline) <= Len(components)
    BY DEF PoolInv, BaselineStays
  <2>4. QED BY <1>1, <2>1, <2>2, <2>3, Basics
<1>3. BaselineStays'
  BY <1>2 DEF PoolInv, BaselineStays
<1>4. New \subseteq New' /\ \A n \in New' : n \in New \/ n \in Len(components) + 1 .. Len(components')
  BY <1>2
<1>5. \A n \in New : components'[n] = components[n]
  BY <1>2
<1>6. AddedWell'
  <2> SUFFICES ASSUME NEW n \in New' PROVE AddedComponent(components'[n])
    BY DEF AddedWell, AddedComponent
  <2>1. CASE n \in New
    BY <1>5, <2>1 DEF PoolInv, AddedWell
  <2>2. CASE n \in Len(components) + 1 .. Len(components')
    BY <2>2
  <2>3. QED BY <1>4, <2>1, <2>2
<1>7. Identified' = {} /\ Identified = {}
  <2>1. Identified = {}
    BY BeforePool
  <2>2. ASSUME NEW n \in New' PROVE components'[n].method # "fingerprint"
    BY <1>4, <1>5, <2>1, <2>2 DEF Identified
  <2>3. QED BY <2>1, <2>2 DEF Identified
<1>8. PoolState'
  <2>1. HeldOnce' /\ HitsCounted'
    BY <1>7, PoolStays DEF PoolInv, PoolState
  <2>2. /\ Len(asked) = 0 /\ Len(channel) = 0 /\ Len(tasks') \in Nat
        /\ DOMAIN asked = 1 .. Len(asked) /\ DOMAIN channel = 1 .. Len(channel)
    BY <1>1, BeforePool, Basics, SeqPlaces
  <2>3. SentInOrder'
    BY <2>2 DEF SentInOrder, Sent
  <2>4. PoolPhases'
    BY BeforePool DEF PoolPhases
  <2>5. QED BY <2>1, <2>3, <2>4 DEF PoolState
<1>9. ASSUME NEW k \in DOMAIN tasks
      PROVE  /\ TaskOfComponent(tasks[k])
             /\ tasks[k].index \in New' /\ components'[tasks[k].index].digest = tasks[k].digest
             /\ components'[tasks[k].index].method # "cluster"
  <2>1. TaskOfComponent(tasks[k])
    BY <1>9 DEF PoolInv, TasksWell
  <2>2. QED BY <1>4, <1>5, <2>1 DEF TaskOfComponent
<1>10. QED BY <1>1, <1>3, <1>4, <1>6, <1>8, <1>9

\* runClusterPrePass adds cluster components and no file.
LEMMA DetectKeeps ==
  ASSUME PoolInv, NEW found \in ClusterSets, DetectClusters(found)
  PROVE  PoolInv'
<1> DEFINE ns == NewClusters(found)
           new == Pick(found, ns)
           more == [k \in DOMAIN new |-> ClusterComponent(new[k])]
           C == Cardinality(ns)
           L == Len(components)
<1>1. IsFiniteSet(ns) /\ C \in Nat
  <2>1. IsSeq(found)
    BY UntrackedAssumption, SeqOfOwn
  <2>2. Len(found) \in Nat /\ DOMAIN found = 1 .. Len(found)
    BY <2>1, SeqPlaces
  <2>3. ns \subseteq 1 .. Len(found) /\ IsFiniteSet(1 .. Len(found))
    BY <2>2, FS_Interval DEF NewClusters
  <2>4. QED BY <2>3, FS_Subset, FS_CardinalityType
<1>2. DOMAIN new = 1 .. C
  BY DEF Pick
<1>3. IsSeq(more) /\ Len(more) = C /\ \A k \in 1 .. C : more[k] = ClusterComponent(new[k])
  <2> DEFINE S == {more[k] : k \in 1 .. C}
  <2>1. DOMAIN more = 1 .. C /\ \A k \in 1 .. C : more[k] \in S
    BY <1>2
  <2>2. more \in [1 .. C -> S]
    BY <2>1
  <2>a. \A k \in 1 .. C : more[k] = ClusterComponent(new[k])
    BY <1>2
  <2> HIDE DEF more, S, C, new
  <2>3. more \in Seq(S)
    BY <1>1, <2>2
  <2>4. Len(more) = C
    BY <1>1, <2>1, <2>3
  <2>5. QED BY <2>3, <2>4, <2>a, SeqOfOwn
<1> HIDE DEF more, new, C, ns
<1>4. /\ phase = "detect" /\ phase' = "walk" /\ components' = components \o more
      /\ UNCHANGED <<files, baseline, next, added, tasks, channel, closed, held, live, asked, hits>>
  BY DEF DetectClusters, pool, more, new, ns
<1>5. Types /\ IsSeq(components) /\ L \in Nat
  BY Basics DEF PoolInv, Types
<1>6. /\ IsSeq(components') /\ Len(components') = L + C
      /\ \A n \in 1 .. L : components'[n] = components[n]
      /\ \A n \in L + 1 .. L + C : components'[n] = more[n - L]
  BY <1>3, <1>4, <1>5, SeqConcat
<1>7. ASSUME NEW n \in L + 1 .. L + C
      PROVE  AddedComponent(components'[n]) /\ components'[n].method = "cluster"
  <2>1. n - L \in 1 .. C
    BY <1>1, <1>5, <1>7
  <2>2. components'[n] = ClusterComponent(new[n - L])
    BY <1>3, <1>6, <1>7, <2>1
  <2>3. \A x : AddedComponent(ClusterComponent(x)) /\ ClusterComponent(x).method = "cluster"
    BY DEF ClusterComponent, AddedComponent
  <2>4. QED BY <2>2, <2>3
<1>8. /\ Types' /\ BaselineStays' /\ AddedWell' /\ PoolState'
      /\ New \subseteq New'
      /\ \A n \in New' : n \in New \/ n \in L + 1 .. L + C
      /\ \A k \in DOMAIN tasks : /\ tasks[k].index \in New'
                                 /\ components'[tasks[k].index].digest = tasks[k].digest
                                 /\ components'[tasks[k].index].method # "cluster"
  <2>1. next' \in Nat \ {0} /\ added' \in Nat /\ IsSeq(tasks')
    BY <1>4, <1>5 DEF Types
  <2>2. Len(components) <= Len(components')
    BY <1>1, <1>5, <1>6
  <2>3. \A n \in Len(components) + 1 .. Len(components') :
          AddedComponent(components'[n]) /\ components'[n].method # "fingerprint"
    BY <1>6, <1>7
  <2>4. QED BY <1>4, <1>6, <2>1, <2>2, <2>3, ComponentsGrow
<1>9. TasksWell'
  BY <1>4, <1>8 DEF PoolInv, TasksWell, TaskOfComponent
<1>10. LimitCounted'
  <2>1. \A n \in New : components'[n] = components[n]
    BY <1>5, <1>6, Basics
  <2>2. AddedFiles' = AddedFiles
    BY <1>7, <1>8, <2>1 DEF AddedFiles
  <2>3. QED BY <1>4, <2>2 DEF PoolInv, LimitCounted
<1>11. QED BY <1>8, <1>9, <1>10 DEF PoolInv, PoolState

\* visit records a file: one component, and a task with its index and digest.
LEMMA RecordKeeps ==
  ASSUME PoolInv, Record
  PROVE  PoolInv'
<1> DEFINE c == FileComponent(File)
           L == Len(components)
           t == [index |-> L + 1, digest |-> File.digest]
<1>1. /\ phase = "walk" /\ phase' = "walk" /\ added < MaxComponents
      /\ components' = Append(components, c) /\ added' = added + 1 /\ next' = next + 1
      /\ tasks' \in {tasks, Append(tasks, t)}
      /\ UNCHANGED <<files, baseline, channel, closed, held, live, asked, hits>>
  <2>1. added \in Nat /\ MaxComponents \in Nat
    BY UntrackedAssumption DEF PoolInv, Types
  <2>2. QED BY <2>1 DEF Record, Visiting, LimitReached, pool
<1>2. Types /\ L \in Nat /\ next \in Nat \ {0} /\ added \in Nat /\ IsSeq(components) /\ IsSeq(tasks)
  BY Basics DEF PoolInv, Types
<1>3. /\ IsSeq(components') /\ Len(components') = L + 1 /\ components'[L + 1] = c
      /\ \A n \in 1 .. L : components'[n] = components[n]
  BY <1>1, <1>2, SeqAppend
<1>4. AddedComponent(c) /\ c.method = "untracked-scan" /\ c.digest = File.digest
  BY DEF FileComponent, AddedComponent
<1> HIDE DEF c
<1>5. IsSeq(tasks')
  <2>1. IsSeq(Append(tasks, t))
    BY <1>2, SeqAppend
  <2>2. QED BY <1>1, <1>2, <2>1
<1>6. /\ Types' /\ BaselineStays' /\ AddedWell' /\ PoolState'
      /\ New \subseteq New'
      /\ \A n \in New' : n \in New \/ n = L + 1
      /\ \A k \in DOMAIN tasks : /\ TaskOfComponent(tasks[k]) /\ tasks[k].index \in New'
                                 /\ components'[tasks[k].index].digest = tasks[k].digest
                                 /\ components'[tasks[k].index].method # "cluster"
  <2>1. Len(components) <= Len(components') /\ L + 1 .. L + 1 = {L + 1}
    BY <1>2, <1>3
  <2>2. \A n \in Len(components) + 1 .. Len(components') :
          AddedComponent(components'[n]) /\ components'[n].method # "fingerprint"
    BY <1>3, <1>4, <2>1
  <2>3. next' \in Nat \ {0} /\ added' \in Nat
    BY <1>1, <1>2
  <2>4. QED BY <1>1, <1>3, <1>5, <2>1, <2>2, <2>3, ComponentsGrow
<1>7. L + 1 \in New' /\ L + 1 \notin New /\ \A n \in New : components'[n] = components[n]
  <2>1. New = {n \in 1 .. L : n > Len(baseline)} /\ Len(baseline) \in Nat /\ Len(baseline) <= L
    BY <1>2, Basics DEF PoolInv, BaselineStays
  <2>2. New' = {n \in 1 .. L + 1 : n > Len(baseline)}
    BY <1>1, <1>3, <1>6, Basics DEF New, Types
  <2>3. QED BY <1>2, <1>3, <2>1, <2>2
<1>8. TasksWell'
  <2>1. CASE tasks' = tasks
    BY <1>6, <2>1 DEF PoolInv, TasksWell, TaskOfComponent
  <2>2. CASE tasks' = Append(tasks, t)
    <3> SUFFICES ASSUME NEW T, T = Len(tasks) PROVE TasksWell'
      OBVIOUS
    <3>1. /\ T \in Nat /\ DOMAIN tasks = 1 .. T /\ DOMAIN tasks' = 1 .. T + 1
          /\ \A k \in 1 .. T : tasks'[k] = tasks[k]
          /\ tasks'[T + 1] = t
      BY <1>2, <2>2, SeqAppend, Basics
    <3>2. t.index = L + 1 /\ t.digest = File.digest
      OBVIOUS
    <3>3. \A k \in 1 .. T : tasks[k].index # L + 1
      BY <1>6, <1>7, <3>1 DEF TaskOfComponent
    <3> HIDE DEF t
    <3>4. \A k \in 1 .. T + 1 : k \in 1 .. T \/ k = T + 1
      BY <3>1
    <3>5. ASSUME NEW k \in 1 .. T + 1
                PROVE  /\ tasks'[k].index \in New'
                       /\ components'[tasks'[k].index].digest = tasks'[k].digest
                       /\ components'[tasks'[k].index].method # "cluster"
      <4>1. CASE k \in 1 .. T
        BY <1>6, <3>1, <4>1
      <4>2. CASE k = T + 1
        BY <1>3, <1>4, <1>7, <3>1, <3>2, <4>2
      <4>3. QED BY <3>4, <4>1, <4>2
    <3>6. ASSUME NEW j \in 1 .. T + 1, NEW k \in 1 .. T + 1, tasks'[j].index = tasks'[k].index PROVE j = k
      <4>1. CASE j \in 1 .. T /\ k \in 1 .. T
        BY <3>1, <3>6, <4>1 DEF PoolInv, TasksWell
      <4>2. CASE j = T + 1 /\ k \in 1 .. T
        BY <3>1, <3>2, <3>3, <3>6, <4>2
      <4>3. CASE j \in 1 .. T /\ k = T + 1
        BY <3>1, <3>2, <3>3, <3>6, <4>3
      <4>4. QED BY <3>4, <4>1, <4>2, <4>3
    <3>7. QED BY <3>1, <3>5, <3>6 DEF TasksWell, TaskOfComponent
  <2>3. QED BY <1>1, <2>1, <2>2
<1>9. LimitCounted'
  <2>1. AddedFiles' = AddedFiles \cup {L + 1} /\ L + 1 \notin AddedFiles
    BY <1>3, <1>4, <1>6, <1>7 DEF AddedFiles
  <2>2. Cardinality(AddedFiles') = Cardinality(AddedFiles) + 1
    BY <1>2, <2>1, Basics, FS_AddElement
  <2>3. added = Cardinality(AddedFiles) /\ MaxComponents \in Nat
    BY UntrackedAssumption DEF PoolInv, LimitCounted
  <2>4. QED BY <1>1, <1>2, <2>2, <2>3 DEF LimitCounted
<1>10. QED BY <1>6, <1>8, <1>9 DEF PoolInv, PoolState

-----------------------------------------------------------------------------
(* The pool.                                                               *)

\* runMatcherWorkers starts a worker at least, unless there is no task.
LEMMA StartKeeps ==
  ASSUME PoolInv, phase = "walk", StartPool,
         UNCHANGED <<scan, components, channel, closed, held, asked, hits>>
  PROVE  PoolInv'
<1>1. /\ UNCHANGED <<files, baseline, components, tasks, added, channel, closed, held, asked, hits>>
      /\ next' = 1 /\ live' \subseteq Workers
      /\ phase' = IF tasks = <<>> THEN "done" ELSE "send"
  BY DEF scan, StartPool
<1>2. Types /\ Types'
  BY <1>1 DEF PoolInv, Types
<1>3. tasks = <<>> <=> live' = {}
  <2>1. /\ IsFiniteSet(Workers) /\ Cardinality(Workers) \in Nat /\ Cardinality(Workers) # 0
        /\ IsFiniteSet(live')
    BY <1>1, UntrackedAssumption, FS_CardinalityType, FS_EmptySet, FS_Subset
  <2>2. Len(tasks) \in Nat /\ (tasks = <<>> <=> Len(tasks) = 0)
    BY <1>2, Basics
  <2>3. Cardinality(live') = IF Len(tasks) < Cardinality(Workers) THEN Len(tasks) ELSE Cardinality(Workers)
    BY DEF StartPool
  <2>4. Cardinality(live') = 0 <=> Len(tasks) = 0
    BY <2>1, <2>2, <2>3
  <2>5. QED BY <2>1, <2>2, <2>4, FS_EmptySet
<1>4. ScanInv' /\ Identified' = Identified
  BY <1>1, ScanStays DEF PoolInv, ScanInv
<1>5. /\ Len(asked) = 0 /\ Len(channel) = 0 /\ ~closed /\ \A w \in Workers : held[w] = NoTask
      /\ Len(tasks) \in Nat /\ DOMAIN asked = 1 .. Len(asked) /\ DOMAIN channel = 1 .. Len(channel)
      /\ (tasks = <<>> <=> Len(tasks) = 0) /\ (channel = <<>> <=> Len(channel) = 0)
  BY <1>2, BeforePool, Basics
<1>6. HeldOnce' /\ HitsCounted'
  BY <1>1, <1>4, <1>5, PoolStays DEF PoolInv, PoolState
<1>7. SentInOrder'
  <2>1. Sent' = 0
    BY <1>1, <1>5 DEF Sent
  <2>2. QED BY <1>1, <1>5, <2>1 DEF SentInOrder
<1>8. PoolPhases'
  BY <1>1, <1>3, <1>5 DEF PoolPhases
<1>9. QED BY <1>2, <1>4, <1>6, <1>7, <1>8 DEF PoolInv, ScanInv

\* A task goes into the channel behind the ones sent before it.
LEMMA SendKeeps ==
  ASSUME PoolInv, Send
  PROVE  PoolInv'
<1>1. /\ phase = "send" /\ next <= Len(tasks) /\ next' = next + 1 /\ channel' = Append(channel, tasks[next])
      /\ UNCHANGED <<files, baseline, components, tasks, added, phase, closed, held, live, asked, hits>>
  BY DEF Send, scan
<1>2. Types /\ IsSeq(channel) /\ next \in Nat \ {0}
  BY DEF PoolInv, Types
<1>3. Len(tasks) \in Nat /\ Len(asked) \in Nat /\ Len(channel) \in Nat
      /\ DOMAIN asked = 1 .. Len(asked) /\ DOMAIN channel = 1 .. Len(channel)
  BY <1>2, Basics
<1>4. /\ IsSeq(channel') /\ Len(channel') = Len(channel) + 1 /\ DOMAIN channel' = 1 .. Len(channel) + 1
      /\ \A k \in 1 .. Len(channel) : channel'[k] = channel[k]
      /\ channel'[Len(channel) + 1] = tasks[next]
  BY <1>1, <1>2, SeqAppend
<1>5. Types'
  BY <1>1, <1>2, <1>4 DEF PoolInv, Types
<1>6. ScanInv' /\ Identified' = Identified
  BY <1>1, ScanStays DEF PoolInv, ScanInv
<1>7. HeldOnce' /\ HitsCounted'
  BY <1>1, <1>6, PoolStays DEF PoolInv, PoolState
<1>8. SentInOrder'
  <2>1. /\ Len(asked) + Len(channel) = next - 1
        /\ \A k \in DOMAIN asked : asked[k] = tasks[k]
        /\ \A k \in DOMAIN channel : channel[k] = tasks[Len(asked) + k]
    BY <1>1 DEF PoolInv, SentInOrder, Sent
  <2>2. Sent' = next /\ Len(asked) + Len(channel') = next
    BY <1>1, <1>2, <1>3, <1>4, <2>1 DEF Sent
  <2>3. ASSUME NEW k \in DOMAIN channel' PROVE channel'[k] = tasks[Len(asked) + k]
    <3>1. CASE k \in 1 .. Len(channel)
      BY <1>3, <1>4, <2>1, <3>1
    <3>2. CASE k = Len(channel) + 1
      <4>1. Len(asked) + k = next
        BY <1>2, <1>3, <2>1, <3>2
      <4>2. QED BY <1>4, <3>2, <4>1
    <3>3. QED BY <1>3, <1>4, <2>3, <3>1, <3>2
  <2>4. QED BY <1>1, <2>1, <2>2, <2>3 DEF SentInOrder
<1>9. PoolPhases'
  BY <1>1 DEF PoolInv, PoolPhases
<1>10. QED BY <1>5, <1>6, <1>7, <1>8, <1>9 DEF PoolInv, ScanInv

\* Closing the channel, a worker's return and the end of the wait: the tasks
\* sent stay the same.
LEMMA PhaseKeeps ==
  ASSUME PoolInv,
         \/ Close \/ Wait \/ UNCHANGED vars
         \/ \E w \in Workers : WorkerReturns(w)
  PROVE  PoolInv'
<1>1. /\ UNCHANGED <<files, baseline, components, tasks, added, next, channel, held, asked, hits>>
      /\ live' \subseteq live
  BY DEF Close, Wait, WorkerReturns, vars, scan, pool
<1>2. Types /\ Types'
  <2>1. phase' \in {"detect", "walk", "send", "wait", "done", "failed"}
    BY DEF PoolInv, Types, Close, Wait, WorkerReturns, vars
  <2>2. QED BY <1>1, <2>1 DEF PoolInv, Types
<1>3. \A w \in Workers : held[w] # NoTask => w \in live'
  BY DEF PoolInv, HeldOnce, Close, Wait, WorkerReturns, vars, pool
<1>4. ScanInv' /\ Identified' = Identified
  BY <1>1, ScanStays DEF PoolInv, ScanInv
<1>5. HeldOnce' /\ HitsCounted'
  BY <1>1, <1>3, <1>4, PoolStays DEF PoolInv, PoolState
<1>6. SentInOrder'
  <2>1. Sent' = Sent
    <3>1. CASE Close
      <4>1. /\ phase = "send" /\ phase' = "wait" /\ next > Len(tasks)
            /\ Len(tasks) \in Nat /\ next \in Nat /\ next - 1 <= Len(tasks)
        BY <1>2, <3>1, Basics DEF Close, PoolInv, SentInOrder, Sent, Types
      <4>2. QED BY <1>1, <4>1 DEF Sent
    <3>2. CASE Wait \/ UNCHANGED vars \/ \E w \in Workers : WorkerReturns(w)
      BY <1>1, <3>2 DEF Wait, WorkerReturns, vars, Sent
    <3>3. QED BY <3>1, <3>2
  <2>2. QED BY <1>1, <2>1 DEF PoolInv, SentInOrder
<1>7. PoolPhases'
  <2>1. CASE Close
    BY <2>1 DEF Close, PoolInv, PoolPhases
  <2>2. CASE Wait
    BY <2>2 DEF Wait, pool, PoolInv, PoolPhases
  <2>3. CASE UNCHANGED vars
    BY <2>3 DEF vars, pool, PoolInv, PoolPhases
  <2>4. CASE \E w \in Workers : WorkerReturns(w)
    BY <2>4 DEF WorkerReturns, PoolInv, PoolPhases, Types
  <2>5. QED BY <2>1, <2>2, <2>3, <2>4
<1>8. QED BY <1>2, <1>4, <1>5, <1>6, <1>7 DEF PoolInv, ScanInv

\* A worker receives the task at the head of the channel, which nobody has had.
LEMMA ReceiveKeeps ==
  ASSUME PoolInv, NEW w \in Workers, Receive(w)
  PROVE  PoolInv'
<1> SUFFICES ASSUME NEW h, h = Head(channel), NEW A, A = Len(asked) PROVE PoolInv'
  OBVIOUS
<1>1. /\ w \in live /\ channel # <<>> /\ held' = [held EXCEPT ![w] = h]
      /\ channel' = Tail(channel) /\ asked' = Append(asked, h)
      /\ UNCHANGED <<files, baseline, components, tasks, added, phase, next, closed, live, hits>>
  BY DEF Receive, scan
<1>2. Types /\ IsSeq(channel) /\ IsSeq(asked) /\ held = [v \in Workers |-> held[v]]
  BY DEF PoolInv, Types
<1>3. /\ Len(tasks) \in Nat /\ DOMAIN tasks = 1 .. Len(tasks) /\ A \in Nat /\ DOMAIN asked = 1 .. A
      /\ Len(channel) \in Nat /\ DOMAIN channel = 1 .. Len(channel)
  BY <1>2, Basics
<1>4. /\ IsSeq(channel') /\ Len(channel') = Len(channel) - 1 /\ Len(channel) \in Nat \ {0}
      /\ DOMAIN channel' = 1 .. Len(channel) - 1
      /\ \A k \in 1 .. Len(channel) - 1 : channel'[k] = channel[k + 1]
      /\ h = channel[1]
  BY <1>1, <1>2, SeqTail
<1>5. /\ IsSeq(asked') /\ Len(asked') = A + 1 /\ DOMAIN asked' = 1 .. A + 1
      /\ \A k \in 1 .. A : asked'[k] = asked[k]
      /\ asked'[A + 1] = h
  BY <1>1, <1>2, SeqAppend
<1>6. held' = [v \in Workers |-> held'[v]] /\ held'[w] = h /\ \A v \in Workers \ {w} : held'[v] = held[v]
  BY <1>1, <1>2
<1>7. Types'
  BY <1>1, <1>2, <1>4, <1>5, <1>6 DEF Types
<1>8. /\ A + Len(channel) = Sent /\ Sent <= Len(tasks) /\ Sent \in Nat
      /\ \A k \in 1 .. A : asked[k] = tasks[k]
      /\ \A k \in 1 .. Len(channel) : channel[k] = tasks[A + k]
  <2>1. SentInOrder
    BY DEF PoolInv
  <2>2. A + Len(channel) = Sent /\ Sent <= Len(tasks) /\ Sent \in Nat
    BY <1>3, <2>1 DEF SentInOrder
  <2>3. \A k \in 1 .. A : asked[k] = tasks[k]
    BY <1>3, <2>1 DEF SentInOrder
  <2>4. \A k \in 1 .. Len(channel) : channel[k] = tasks[A + k]
    BY <1>3, <2>1 DEF SentInOrder
  <2>5. QED BY <2>2, <2>3, <2>4
<1>9. h = tasks[A + 1] /\ A + 1 \in DOMAIN tasks /\ \A k \in 1 .. A : k \in DOMAIN tasks /\ k # A + 1
  <2>1. A + 1 <= Len(tasks) /\ 1 \in 1 .. Len(channel)
    BY <1>3, <1>4, <1>8
  <2>2. QED BY <1>3, <1>4, <1>8, <2>1
\* The task is another than the ones handed out before.
<1>10. \A k \in 1 .. A : asked[k] # h
  BY <1>8, <1>9 DEF PoolInv, TasksWell
<1>11. SentInOrder'
  <2>1. Sent' = Sent
    BY <1>1 DEF Sent
  <2>2. Len(asked') + Len(channel') = Sent
    <3>1. /\ A \in Int /\ Len(channel) \in Int /\ A + Len(channel) = Sent
          /\ Len(asked') = A + 1 /\ Len(channel') = Len(channel) - 1
      BY <1>3, <1>4, <1>5, <1>8
    <3>2. QED BY <3>1
  <2>3. ASSUME NEW k \in 1 .. A + 1 PROVE asked'[k] = tasks[k]
    <3>1. k \in 1 .. A \/ k = A + 1
      BY <1>3, <2>3
    <3>2. QED BY <1>5, <1>8, <1>9, <3>1
  <2>4. ASSUME NEW k \in 1 .. Len(channel) - 1 PROVE channel'[k] = tasks[Len(asked') + k]
    <3>1. k + 1 \in 1 .. Len(channel) /\ Len(asked') + k = A + (k + 1)
      BY <1>3, <1>4, <1>5, <2>4
    <3>2. QED BY <1>4, <1>8, <2>4, <3>1
  <2>5. QED BY <1>1, <1>4, <1>5, <1>8, <2>1, <2>2, <2>3, <2>4 DEF SentInOrder
<1>12. HeldOnce'
  <2>0. \A k \in 1 .. A : k \in DOMAIN asked' /\ asked'[k] = asked[k]
    BY <1>3, <1>5
  <2>1. ASSUME NEW v \in Workers, v # w, held[v] # NoTask
        PROVE  v \in live /\ \E k \in 1 .. A : held[v] = asked[k]
    BY <1>3, <2>1 DEF PoolInv, HeldOnce
  <2>2. ASSUME NEW v \in Workers, held'[v] # NoTask
        PROVE  v \in live' /\ \E k \in DOMAIN asked' : held'[v] = asked'[k]
    <3>1. CASE v = w
      <4>1. A + 1 \in DOMAIN asked'
        BY <1>3, <1>5
      <4>2. QED BY <1>1, <1>5, <1>6, <3>1, <4>1
    <3>2. CASE v # w
      BY <1>1, <1>6, <2>0, <2>1, <2>2, <3>2
    <3>3. QED BY <3>1, <3>2
  <2>3. ASSUME NEW u \in Workers, NEW v \in Workers, held'[u] # NoTask, held'[u] = held'[v] PROVE u = v
    <3>1. ASSUME NEW x \in Workers, x # w, held[x] # NoTask PROVE held[x] # h
      BY <1>10, <2>1, <3>1
    <3>2. CASE u = w /\ v # w
      BY <1>6, <2>3, <3>1, <3>2
    <3>3. CASE u # w /\ v = w
      BY <1>6, <2>3, <3>1, <3>3
    <3>4. CASE u # w /\ v # w
      BY <1>6, <2>3, <3>4 DEF PoolInv, HeldOnce
    <3>5. QED BY <3>2, <3>3, <3>4
  <2>4. QED BY <2>2, <2>3 DEF HeldOnce
<1>13. ScanInv' /\ Identified' = Identified
  BY <1>1, ScanStays DEF PoolInv, ScanInv
<1>14. HitsCounted'
  <2>1. ASSUME NEW n \in Identified' PROVE \E k \in DOMAIN asked' : AnsweredBy(k, n)'
    <3>1. PICK k \in 1 .. A : AnsweredBy(k, n)
      BY <1>3, <1>13, <2>1 DEF PoolInv, HitsCounted
    <3>2. k \in DOMAIN asked' /\ asked'[k] = asked[k] /\ asked[k] # h
      BY <1>3, <1>5, <1>10, <3>1
    <3>3. AnsweredBy(k, n)'
      BY <1>6, <3>1, <3>2 DEF AnsweredBy
    <3>4. QED BY <3>2, <3>3
  <2>2. QED BY <1>1, <1>13, <2>1 DEF PoolInv, HitsCounted
<1>15. PoolPhases'
  <2>1. phase = "done" => live = {}
    BY DEF PoolInv, PoolPhases
  <2>2. QED BY <1>1, <2>1 DEF PoolInv, PoolPhases
<1>16. QED BY <1>7, <1>11, <1>12, <1>13, <1>14, <1>15 DEF PoolInv, ScanInv

\* A worker gives its task up, with or without an answer: nobody holds it then.
LEMMA HeldReleased ==
  ASSUME PoolInv, NEW w \in Workers, held' = [held EXCEPT ![w] = NoTask],
         UNCHANGED <<asked, live>>
  PROVE  /\ HeldOnce' /\ held' = [v \in Workers |-> held'[v]] /\ held'[w] = NoTask
         /\ \A v \in Workers \ {w} : held'[v] = held[v]
         /\ \A k, n : AnsweredBy(k, n) => AnsweredBy(k, n)'
<1>1. held = [v \in Workers |-> held[v]]
  BY DEF PoolInv, Types
<1>2. held' = [v \in Workers |-> held'[v]] /\ held'[w] = NoTask /\ \A v \in Workers \ {w} : held'[v] = held[v]
  BY <1>1
<1>3. HeldOnce'
  BY <1>2 DEF PoolInv, HeldOnce
<1>4. \A k, n : AnsweredBy(k, n) => AnsweredBy(k, n)'
  BY <1>2 DEF AnsweredBy
<1>5. QED BY <1>2, <1>3, <1>4

\* A lookup without an answer leaves the components and the count alone.
LEMMA LookupFailsKeeps ==
  ASSUME PoolInv, NEW w \in Workers, LookupFails(w)
  PROVE  PoolInv'
<1>1. /\ held' = [held EXCEPT ![w] = NoTask]
      /\ UNCHANGED <<files, baseline, components, tasks, added, phase, next, channel, closed, live, asked, hits>>
  BY DEF LookupFails, scan
<1>2. HeldOnce' /\ held' = [v \in Workers |-> held'[v]] /\ \A k, n : AnsweredBy(k, n) => AnsweredBy(k, n)'
  BY <1>1, HeldReleased
<1>3. Types'
  BY <1>1, <1>2 DEF PoolInv, Types
<1>4. ScanInv' /\ Identified' = Identified
  BY <1>1, ScanStays DEF PoolInv, ScanInv
<1>5. HitsCounted'
  BY <1>1, <1>2, <1>4 DEF PoolInv, HitsCounted
<1>6. SentInOrder' /\ PoolPhases'
  BY <1>1 DEF PoolInv, SentInOrder, Sent, PoolPhases
<1>7. QED BY <1>2, <1>3, <1>4, <1>5, <1>6 DEF PoolInv, ScanInv

\* An answer is written into the component its task names: one the scan added,
\* with the content that was looked up, and not identified before.
LEMMA LookupHitsKeeps ==
  ASSUME PoolInv, NEW w \in Workers, LookupHits(w)
  PROVE  PoolInv'
<1> SUFFICES ASSUME NEW t, t = held[w], NEW i, i = t.index, NEW c, c = components[i] PROVE PoolInv'
  OBVIOUS
<1> DEFINE x == [c EXCEPT !.method = "fingerprint", !.match = t.digest]
<1>1. /\ w \in live /\ t # NoTask /\ hits' = hits + 1 /\ held' = [held EXCEPT ![w] = NoTask]
      /\ UNCHANGED <<files, baseline, tasks, added, phase, next, channel, closed, live, asked>>
  BY DEF LookupHits, scan
<1>2. Types /\ IsSeq(components) /\ hits \in Nat
  BY DEF PoolInv, Types
<1>3. PICK k \in DOMAIN asked : t = asked[k]
  BY <1>1 DEF PoolInv, HeldOnce
<1>4. /\ Len(asked) \in Nat /\ Len(channel) \in Nat /\ Len(tasks) \in Nat
      /\ DOMAIN asked = 1 .. Len(asked) /\ DOMAIN tasks = 1 .. Len(tasks)
      /\ Len(baseline) \in Nat /\ Len(components) \in Nat /\ DOMAIN components = 1 .. Len(components)
      /\ New = {n \in 1 .. Len(components) : n > Len(baseline)}
      /\ IsFiniteSet(Identified)
  BY <1>2, Basics
<1>5. Len(asked) + Len(channel) <= Len(tasks) /\ \A j \in DOMAIN asked : asked[j] = tasks[j]
  BY DEF PoolInv, SentInOrder
<1>6. \A j \in DOMAIN asked : j \in DOMAIN tasks /\ asked[j] = tasks[j]
  BY <1>4, <1>5
<1>7. i \in New /\ c.digest = t.digest /\ c.method # "cluster"
  <2>1. k \in DOMAIN tasks /\ t = tasks[k]
    BY <1>3, <1>6
  <2>2. TaskOfComponent(tasks[k])
    BY <2>1 DEF PoolInv, TasksWell
  <2>3. QED BY <2>1, <2>2 DEF TaskOfComponent
<1>8. i \in DOMAIN components
  BY <1>4, <1>7
<1>9. AddedComponent(c)
  BY <1>7 DEF PoolInv, AddedWell
<1>10. x = [ref |-> c.ref, purl |-> c.purl, digest |-> c.digest, method |-> "fingerprint", match |-> c.digest]
  <2>1. c = [ref |-> c.ref, purl |-> c.purl, digest |-> c.digest, method |-> c.method, match |-> c.match]
    BY <1>9 DEF AddedComponent
  <2>2. x = [r \in {"ref", "purl", "digest", "method", "match"} |->
               CASE r = "method" -> "fingerprint" [] r = "match" -> t.digest [] OTHER -> c[r]]
    BY <2>1
  <2>3. QED BY <1>7, <2>2
<1>11. components' = [components EXCEPT ![i] = x]
  BY <1>8 DEF LookupHits
<1> HIDE DEF x
<1>12. AddedComponent(x) /\ x.method = "fingerprint" /\ x.digest = c.digest
  BY <1>10 DEF AddedComponent
<1>13. /\ IsSeq(components') /\ Len(components') = Len(components) /\ DOMAIN components' = DOMAIN components
       /\ components'[i] = x /\ \A n \in DOMAIN components : n # i => components'[n] = components[n]
  <2> DEFINE y == [components EXCEPT ![i] = x]
  <2>1. /\ IsSeq(y) /\ Len(y) = Len(components) /\ DOMAIN y = DOMAIN components
        /\ y[i] = x /\ \A n \in DOMAIN components : n # i => y[n] = components[n]
    BY <1>2, <1>8, SeqExcept
  <2> HIDE DEF y
  <2>2. components' = y
    BY <1>11 DEF y
  <2>3. QED BY <2>1, <2>2
<1>14. New' = New
  BY <1>1, <1>13 DEF New
<1>15. /\ HeldOnce' /\ held' = [v \in Workers |-> held'[v]] /\ held'[w] = NoTask
       /\ \A v \in Workers \ {w} : held'[v] = held[v]
       /\ \A j, n : AnsweredBy(j, n) => AnsweredBy(j, n)'
  BY <1>1, HeldReleased
<1>16. Types'
  <2>1. hits' \in Nat
    BY <1>1, <1>2
  <2>2. QED BY <1>1, <1>2, <1>13, <1>15, <2>1 DEF Types
\* No component before it is touched.
<1>17. BaselineStays'
  <2>1. \A n \in 1 .. Len(baseline) : n # i /\ n \in DOMAIN components
    BY <1>4, <1>7 DEF PoolInv, BaselineStays
  <2>2. QED BY <1>1, <1>13, <2>1 DEF PoolInv, BaselineStays
<1>18. AddedWell'
  <2> SUFFICES ASSUME NEW n \in New PROVE AddedComponent(components'[n])
    BY <1>14 DEF AddedWell, AddedComponent
  <2>1. CASE n = i
    BY <1>12, <1>13, <2>1
  <2>2. CASE n # i
    BY <1>4, <1>13, <2>2 DEF PoolInv, AddedWell
  <2>3. QED BY <2>1, <2>2
<1>19. \A n \in New : /\ components'[n].digest = components[n].digest
                      /\ components'[n].method = "cluster" <=> components[n].method = "cluster"
  BY <1>4, <1>7, <1>12, <1>13
<1>20. TasksWell'
  BY <1>1, <1>14, <1>19 DEF PoolInv, TasksWell, TaskOfComponent
<1>21. LimitCounted'
  <2>1. AddedFiles' = AddedFiles
    BY <1>14, <1>19 DEF AddedFiles
  <2>2. QED BY <1>1, <2>1 DEF PoolInv, LimitCounted
\* The task was not answered before: its worker still holds it.
<1>22. i \notin Identified
  <2> SUFFICES ASSUME i \in Identified PROVE FALSE
    OBVIOUS
  <2>1. PICK j \in DOMAIN asked : AnsweredBy(j, i)
    BY DEF PoolInv, HitsCounted
  <2>2. asked[j].index = i /\ asked[j] # t
    BY <1>1, <2>1 DEF AnsweredBy
  <2>3. j = k
    BY <1>3, <1>6, <2>2 DEF PoolInv, TasksWell
  <2>4. QED BY <1>3, <2>2, <2>3
<1>23. Identified' = Identified \cup {i}
  BY <1>4, <1>7, <1>12, <1>13, <1>14 DEF Identified
<1>24. HitsCounted'
  <2>1. Cardinality(Identified') = Cardinality(Identified) + 1
    BY <1>4, <1>22, <1>23, FS_AddElement
  <2>2. hits' = Cardinality(Identified')
    BY <1>1, <2>1 DEF PoolInv, HitsCounted
  <2>3. AnsweredBy(k, i)'
    <3>1. ASSUME NEW v \in Workers, held'[v] # NoTask PROVE held'[v] # t
      BY <1>1, <1>15, <3>1 DEF PoolInv, HeldOnce
    <3>2. asked'[k].index = i /\ asked'[k] = t
      BY <1>1, <1>3
    <3>3. QED BY <3>1, <3>2 DEF AnsweredBy
  <2>4. ASSUME NEW n \in Identified' PROVE \E j \in DOMAIN asked' : AnsweredBy(j, n)'
    <3>1. CASE n = i
      BY <1>1, <2>3, <3>1
    <3>2. CASE n \in Identified
      <4>1. PICK j \in DOMAIN asked : AnsweredBy(j, n)
        BY <3>2 DEF PoolInv, HitsCounted
      <4>2. AnsweredBy(j, n)'
        BY <1>15, <4>1
      <4>3. QED BY <1>1, <4>1, <4>2
    <3>3. QED BY <1>23, <2>4, <3>1, <3>2
  <2>5. QED BY <2>2, <2>4 DEF HitsCounted
<1>25. SentInOrder' /\ PoolPhases'
  BY <1>1 DEF PoolInv, SentInOrder, Sent, PoolPhases
<1>26. QED BY <1>15, <1>16, <1>17, <1>18, <1>20, <1>21, <1>24, <1>25 DEF PoolInv

-----------------------------------------------------------------------------
(* The theorems.                                                           *)

\* The invariant of the scan and the pool: every task names the component it
\* was queued for, is handed out in order, once, to one worker, and the hits
\* and additions counted are the components they stand for.
THEOREM PoolInvariant == Spec => []PoolInv
<1>1. PoolInv /\ [Next]_vars => PoolInv'
  <2> SUFFICES ASSUME PoolInv, [Next]_vars PROVE PoolInv'
    OBVIOUS
  <2>1. ASSUME NEW found \in ClusterSets, DetectClusters(found) PROVE PoolInv'
    BY <2>1, DetectKeeps
  <2>2. CASE NoClusters \/ SkipFile \/ FileTooLarge \/ WalkFails
    <3>1. next \in Nat \ {0}
      BY DEF PoolInv, Types
    <3>2. next' \in Nat \ {0}
      BY <2>2, <3>1 DEF NoClusters, SkipFile, FileTooLarge, WalkFails
    <3>3. phase \in {"detect", "walk"} /\ phase' \in {"walk", "failed"} /\ UNCHANGED <<scan, components, pool>>
      BY <2>2 DEF NoClusters, SkipFile, FileTooLarge, WalkFails, Visiting
    <3>4. QED BY <3>2, <3>3, PassOver
  <2>3. CASE LimitHit \/ WalkEnds
    BY <2>3, StartKeeps DEF LimitHit, WalkEnds, Visiting
  <2>4. CASE Record
    BY <2>4, RecordKeeps
  <2>5. CASE Send
    BY <2>5, SendKeeps
  <2>6. CASE Close \/ Wait \/ UNCHANGED vars
    BY <2>6, PhaseKeeps
  <2>7. ASSUME NEW w \in Workers, Work(w) PROVE PoolInv'
    <3>1. CASE Receive(w)
      BY <3>1, ReceiveKeeps
    <3>2. CASE LookupFails(w)
      BY <3>2, LookupFailsKeeps
    <3>3. CASE LookupHits(w)
      BY <3>3, LookupHitsKeeps
    <3>4. CASE WorkerReturns(w)
      BY <3>4, PhaseKeeps
    <3>5. QED BY <2>7, <3>1, <3>2, <3>3, <3>4 DEF Work
  <2>8. QED BY <2>1, <2>2, <2>3, <2>4, <2>5, <2>6, <2>7 DEF Next, Enrich
<1>2. QED BY <1>1, InitPool, PTL DEF Spec

\* However the workers interleave, an answer of the matcher lands on the
\* component whose content was looked up, and never on one the SBOM came with.
THEOREM MatchTheorem == Spec => []MatchIsForItsOwnContent
<1>1. PoolInv => MatchIsForItsOwnContent
  <2> SUFFICES ASSUME PoolInv PROVE MatchIsForItsOwnContent
    OBVIOUS
  <2>1. ASSUME NEW n \in DOMAIN baseline PROVE n \in DOMAIN components /\ components[n] = baseline[n]
    BY <2>1, Basics DEF PoolInv, BaselineStays
  <2>2. \A n \in New : components[n].method = "fingerprint" => components[n].match = components[n].digest
    BY DEF PoolInv, AddedWell, AddedComponent
  <2>3. QED BY <2>1, <2>2 DEF MatchIsForItsOwnContent
<1>2. QED BY <1>1, PoolInvariant, PTL

\* When runMatcherWorkers returns, every task was handed out exactly once, no
\* worker is left and the hits reported are the components identified.
THEOREM PoolTheorem == Spec => []PoolIsComplete
<1>1. PoolInv => PoolIsComplete
  <2> SUFFICES ASSUME PoolInv, phase = "done"
               PROVE  /\ Len(asked) = Len(tasks)
                      /\ \A t \in Elements(tasks) : \E n \in DOMAIN asked : asked[n] = t
                      /\ live = {} /\ channel = <<>>
                      /\ hits = Cardinality({n \in New : components[n].method = "fingerprint"})
    BY DEF PoolIsComplete
  <2>1. live = {} /\ channel = <<>>
    BY DEF PoolInv, PoolPhases
  <2>2. /\ Len(asked) \in Nat /\ DOMAIN asked = 1 .. Len(asked) /\ Len(tasks) \in Nat
        /\ DOMAIN tasks = 1 .. Len(tasks) /\ Len(channel) = 0
    BY <2>1, Basics DEF PoolInv
  <2>3. Len(asked) = Len(tasks) /\ \A k \in DOMAIN asked : asked[k] = tasks[k]
    BY <2>2 DEF PoolInv, SentInOrder, Sent
  <2>4. \A t \in Elements(tasks) : \E n \in DOMAIN asked : asked[n] = t
    BY <2>2, <2>3 DEF Elements
  <2>5. hits = Cardinality({n \in New : components[n].method = "fingerprint"})
    BY DEF PoolInv, HitsCounted, Identified
  <2>6. QED BY <2>1, <2>3, <2>4, <2>5
<1>2. QED BY <1>1, PoolInvariant, PTL

\* The scan never adds more than MaxComponents files to the SBOM.
THEOREM LimitTheorem == Spec => []LimitKept
<1>1. PoolInv => LimitKept
  BY DEF PoolInv, LimitCounted, LimitKept, AddedFiles
<1>2. QED BY <1>1, PoolInvariant, PTL

=============================================================================
