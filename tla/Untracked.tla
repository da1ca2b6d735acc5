----------------------------- MODULE Untracked -----------------------------
(***************************************************************************)
(* The untracked enricher (src/internal/enrich/untracked/enricher.go):     *)
(* clusters are detected and recorded first, then the visible files of the *)
(* image are visited one by one, each dropped by a filter or recorded as a *)
(* component, and after the walk a pool of workers asks the fingerprint    *)
(* matchers about the recorded files and writes what they answer into the  *)
(* components by index.                                                    *)
(*                                                                         *)
(* A file is what the visitor can tell of it: the cluster it lies in, what *)
(* the filters say of its path, its size and category, and its digest.     *)
(***************************************************************************)
EXTENDS Integers, Sequences, FiniteSets

CONSTANTS
  FileSystems,    \* what WalkFiles may deliver: sequences of files
  Baselines,      \* the components the SBOM may come with
  ClusterSets,    \* what DetectClusters may return: sequences of clusters
  Workers,        \* the goroutines of runMatcherWorkers
  MaxComponents,  \* Options.MaxComponents
  IncludeRedundant, IncludeNoise,  \* Options.Include
  LayerErrors,    \* a layer may turn out unreadable
  NoTask

\* A file: the directory it lies in, what the redundancy index, the catalogue
\* and the path rules say of its path, whether it is over MaxFileBytes or under
\* MatcherMinFileBytes, and what processFile makes of its bytes.  ActionSkip
\* and ActionRedundantUnderArchive are both "skip".
IsFile(f) ==
  /\ DOMAIN f = {"dir", "redundant", "noise", "rule", "over", "small", "category", "digest"}
  /\ f.redundant \in BOOLEAN /\ f.noise \in BOOLEAN
  /\ f.rule \in {"none", "skip", "noise", "redundant"}
  /\ f.over \in BOOLEAN /\ f.small \in BOOLEAN
  /\ f.category \in {"executable", "library", "script", "archive", "unknown",
                     "noise", "static-archive", "config"}

Elements(s) == {s[n] : n \in DOMAIN s}

ASSUME UntrackedAssumption ==
  /\ \A s \in FileSystems \cup Baselines \cup ClusterSets : s \in Seq(Elements(s))
  /\ \A fs \in FileSystems : \A n \in DOMAIN fs : IsFile(fs[n])
  /\ IsFiniteSet(Workers) /\ Workers # {}
  /\ MaxComponents \in Nat \ {0}

VARIABLES
  files,       \* the visible files, in the order WalkFiles delivers them
  clusters,    \* the detected clusters, nil before the pre-pass and when it failed
  components,  \* sbom.Components
  baseline,    \* history: the components the SBOM came with
  phase,       \* "detect", "walk", "send", "wait", "done" or "failed"
  next,        \* the next file, then the next task to send
  added,       \* stats.added
  tasks,       \* the matcher tasks queued by visit
  channel,     \* taskCh
  closed,      \* taskCh is closed
  held,        \* the task each worker is looking up
  live,        \* workers whose goroutine has not returned
  asked,       \* history: the tasks handed to the matcher
  hits         \* matcher hits counted under mu

scan == <<files, clusters, baseline, added, tasks>>
pool == <<channel, closed, held, live, asked, hits>>
vars == <<scan, components, phase, next, pool>>

Init ==
  /\ files \in FileSystems
  /\ components \in Baselines
  /\ baseline = components
  /\ clusters = <<>>
  /\ phase = "detect"
  /\ next = 1
  /\ added = 0
  /\ tasks = <<>> /\ channel = <<>>
  /\ closed = FALSE
  /\ held = [w \in Workers |-> NoTask]
  /\ live = {}
  /\ asked = <<>>
  /\ hits = 0

-----------------------------------------------------------------------------
(* runClusterPrePass.                                                      *)

\* A package URL, qualifiers stripped: coordinates and version.  NoPackage is
\* the empty URL of a component that is just a file.
NoPackage == [coord |-> "", version |-> ""]
Packages == {c.purl : c \in Elements(components)} \ {NoPackage}

\* clusterToComponent: the reference is made from the identity.
ClusterComponent(c) ==
  [ref |-> <<"cluster", c.purl.coord, c.purl.version>>, purl |-> c.purl, digest |-> "", method |-> "cluster", match |-> ""]

\* A cluster is recorded unless its coordinates (whatever the version) are
\* those of a component the SBOM came with, or an earlier cluster had its
\* very PURL.
NewClusters(found) ==
  {n \in DOMAIN found :
     /\ \A p \in Packages : p.coord # found[n].purl.coord
     /\ \A m \in 1 .. n - 1 : found[m].purl # found[n].purl}

\* The members of a set of indices of s, in order.
Pick(s, ns) ==
  LET Rank(n) == Cardinality({m \in ns : m <= n})
  IN  [k \in 1 .. Cardinality(ns) |-> s[CHOOSE n \in ns : Rank(n) = k]]

DetectClusters(found) ==
  /\ phase = "detect"
  /\ clusters' = found
  /\ LET new == Pick(found, NewClusters(found)) IN
     components' = components \o [k \in DOMAIN new |-> ClusterComponent(new[k])]
  /\ phase' = "walk"
  /\ UNCHANGED <<files, baseline, next, added, tasks, pool>>

\* Detection is switched off or failed: no clusters, the walk goes on.
NoClusters ==
  /\ phase = "detect"
  /\ phase' = "walk"
  /\ UNCHANGED <<scan, components, next, pool>>

-----------------------------------------------------------------------------
(* visit.                                                                  *)

\* preFilter: the redundancy index, the docs and metadata catalogue and, for
\* a file neither of them knows, the declarative path rules.
Dropped(f) ==
  \/ f.redundant /\ ~IncludeRedundant
  \/ f.noise /\ ~IncludeNoise
  \/ /\ ~f.redundant /\ ~f.noise
     /\ \/ f.rule = "skip"
        \/ f.rule = "noise" /\ ~IncludeNoise
        \/ f.rule = "redundant" /\ ~IncludeRedundant

WithinAnyCluster(f) == \E c \in Elements(clusters) : c.root = f.dir

\* processFile records these categories.
Recorded(f) == f.category \in {"executable", "library", "script", "archive", "unknown"}

\* shouldMatcherLookup with the default options.
ShouldMatcherLookup(f) == ~f.small /\ f.category \in {"executable", "library"}

\* buildBaseComponent: the reference is made from the digest.
FileComponent(f) ==
  [ref |-> <<"untracked", f.digest>>, purl |-> NoPackage, digest |-> f.digest, method |-> "untracked-scan", match |-> ""]

Visiting == phase = "walk" /\ next <= Len(files)
File == files[next]

\* The pool starts with at most one worker per task.
StartPool ==
  /\ phase' = IF tasks = <<>> THEN "done" ELSE "send"
  /\ next' = 1
  /\ live' \in SUBSET Workers
  /\ Cardinality(live') = IF Len(tasks) < Cardinality(Workers) THEN Len(tasks) ELSE Cardinality(Workers)

\* Faulty variant: the limit is tested one component too late.
LimitReachedLate == added > MaxComponents

\* The first test of visit.
LimitReached == added >= MaxComponents

\* errLimitHit halts the walk, which then counts as complete.
LimitHit ==
  /\ Visiting
  /\ LimitReached
  /\ StartPool
  /\ UNCHANGED <<scan, components, channel, closed, held, asked, hits>>

\* The file is inside a cluster, filtered by its path or of a category that
\* is not recorded.
SkipFile ==
  /\ Visiting
  /\ ~LimitReached
  /\ \/ WithinAnyCluster(File)
     \/ Dropped(File)
     \/ ~File.over /\ ~Recorded(File)
  /\ next' = next + 1
  /\ UNCHANGED <<scan, components, phase, pool>>

\* Faulty variant: the task is given the index after the component's.
RecordWithWrongIndex ==
  /\ Visiting
  /\ ~LimitReached
  /\ ~WithinAnyCluster(File) /\ ~Dropped(File) /\ ~File.over /\ Recorded(File)
  /\ components' = Append(components, FileComponent(File))
  /\ added' = added + 1
  /\ tasks' = IF ShouldMatcherLookup(File)
              THEN Append(tasks, [index |-> added + 1, digest |-> File.digest])
              ELSE tasks
  /\ next' = next + 1
  /\ UNCHANGED <<files, clusters, baseline, phase, pool>>

Record ==
  /\ Visiting
  /\ ~LimitReached
  /\ ~WithinAnyCluster(File) /\ ~Dropped(File) /\ ~File.over /\ Recorded(File)
  /\ components' = Append(components, FileComponent(File))
  /\ added' = added + 1
  /\ tasks' = IF ShouldMatcherLookup(File)
              THEN Append(tasks, [index |-> Len(components) + 1, digest |-> File.digest])
              ELSE tasks
  /\ next' = next + 1
  /\ UNCHANGED <<files, clusters, baseline, phase, pool>>

\* readCapped refuses a file over MaxFileBytes, and its error halts the walk.
FileTooLarge ==
  /\ Visiting
  /\ ~LimitReached
  /\ ~WithinAnyCluster(File) /\ ~Dropped(File) /\ File.over
  /\ phase' = "failed"
  /\ UNCHANGED <<scan, components, next, pool>>

\* A layer cannot be read, or the context was cancelled.
WalkFails ==
  /\ phase = "walk" /\ LayerErrors
  /\ phase' = "failed"
  /\ UNCHANGED <<scan, components, next, pool>>

WalkEnds ==
  /\ phase = "walk" /\ next > Len(files)
  /\ StartPool
  /\ UNCHANGED <<scan, components, channel, closed, held, asked, hits>>

-----------------------------------------------------------------------------
(* runMatcherWorkers.                                                      *)

\* The channel holds as many tasks as there are workers.
Send ==
  /\ phase = "send" /\ next <= Len(tasks)
  /\ Len(channel) < Cardinality(live)
  /\ channel' = Append(channel, tasks[next])
  /\ next' = next + 1
  /\ UNCHANGED <<scan, components, phase, closed, held, live, asked, hits>>

\* Faulty variant: the channel is never closed.
CloseForgotten ==
  /\ phase = "send" /\ next > Len(tasks)
  /\ phase' = "wait"
  /\ UNCHANGED <<scan, components, next, pool>>

Close ==
  /\ phase = "send" /\ next > Len(tasks)
  /\ closed' = TRUE
  /\ phase' = "wait"
  /\ UNCHANGED <<scan, components, next, channel, held, live, asked, hits>>

\* for t := range taskCh, up to the call of Lookup.
Receive(w) ==
  /\ w \in live /\ held[w] = NoTask
  /\ channel # <<>>
  /\ held' = [held EXCEPT ![w] = Head(channel)]
  /\ channel' = Tail(channel)
  /\ asked' = Append(asked, Head(channel))
  /\ UNCHANGED <<scan, components, phase, next, closed, live, hits>>

\* Lookup found nothing, failed, or ran into MatcherTimeout.
LookupFails(w) ==
  /\ w \in live /\ held[w] # NoTask
  /\ held' = [held EXCEPT ![w] = NoTask]
  /\ UNCHANGED <<scan, components, phase, next, channel, closed, live, asked, hits>>

\* Lookup found the artefact: applyMatch, Evidence.Method and hits, all
\* under mu.
LookupHits(w) ==
  /\ w \in live /\ held[w] # NoTask
  /\ components' = [components EXCEPT ![held[w].index].method = "fingerprint",
                                      ![held[w].index].match = held[w].digest]
  /\ hits' = hits + 1
  /\ held' = [held EXCEPT ![w] = NoTask]
  /\ UNCHANGED <<scan, phase, next, channel, closed, live, asked>>

\* The closed channel is drained: the worker returns.
WorkerReturns(w) ==
  /\ w \in live /\ held[w] = NoTask
  /\ closed /\ channel = <<>>
  /\ live' = live \ {w}
  /\ UNCHANGED <<scan, components, phase, next, channel, closed, held, asked, hits>>

\* Faulty variant: the enricher returns without waiting for the workers.
NoWait ==
  /\ phase = "wait"
  /\ phase' = "done"
  /\ UNCHANGED <<scan, components, next, pool>>

\* wg.Wait.
Wait ==
  /\ phase = "wait" /\ live = {}
  /\ phase' = "done"
  /\ UNCHANGED <<scan, components, next, pool>>

Work(w) == Receive(w) \/ LookupFails(w) \/ LookupHits(w) \/ WorkerReturns(w)

Enrich ==
  \/ \E found \in ClusterSets : DetectClusters(found)
  \/ NoClusters
  \/ LimitHit \/ SkipFile \/ Record \/ FileTooLarge \/ WalkFails \/ WalkEnds
  \/ Send \/ Close \/ Wait

Next == Enrich \/ \E w \in Workers : Work(w)

Spec == Init /\ [][Next]_vars

\* The goroutines are scheduled, and every Lookup returns: it has a deadline.
FairSpec == Spec /\ WF_vars(Enrich) /\ \A w \in Workers : WF_vars(Work(w))

-----------------------------------------------------------------------------
(* Properties.                                                             *)

\* The components the scan added.
New == {n \in DOMAIN components : n > Len(baseline)}

\* Components carry a match only for their own content, so no answer lands on
\* another component, nor on one the SBOM came with.
MatchIsForItsOwnContent ==
  /\ \A n \in DOMAIN baseline : n \in DOMAIN components /\ components[n] = baseline[n]
  /\ \A n \in New : components[n].method = "fingerprint" => components[n].match = components[n].digest

\* When the enricher returns, every task was handed to the matcher exactly
\* once, no worker is still writing, and the hits it reports are the
\* components that were identified.
PoolIsComplete ==
  phase = "done" =>
    /\ Len(asked) = Len(tasks)
    /\ \A t \in Elements(tasks) : \E n \in DOMAIN asked : asked[n] = t
    /\ live = {} /\ channel = <<>>
    /\ hits = Cardinality({n \in New : components[n].method = "fingerprint"})

\* At most MaxComponents files are added.
LimitKept == Cardinality({n \in New : components[n].method # "cluster"}) <= MaxComponents

\* The enricher returns.
Terminates == <>(phase \in {"done", "failed"})

=============================================================================
