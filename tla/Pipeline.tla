----------------------------- MODULE Pipeline -----------------------------
(***************************************************************************)
(* enrich.Pipeline.Run (src/internal/enrich/pipeline.go) with TopoSort     *)
(* (ordering.go): the enrichers that --enable / --disable left are checked *)
(* for duplicate names, put in an order by Kahn's algorithm and dispatched *)
(* one after the other until one fails or the context is cancelled.        *)
(*                                                                         *)
(* The loops of TopoSort are unrolled into steps (one per iteration) so    *)
(* that what each iteration keeps can be stated as an invariant.           *)
(***************************************************************************)
EXTENDS Integers, Sequences, FiniteSets, Functions

CONSTANTS
  Names,      \* names an enricher can have, and names that are declared as dependencies
  Registries, \* what NewPipeline may be given: [enrichers, deps]
  NoName      \* no enricher

ASSUME RegistryAssumption ==
  /\ IsFiniteSet(Names)
  /\ NoName \notin Names
  /\ \A r \in Registries : /\ r.enrichers \in Seq(Names)
                           /\ r.deps \in [Names -> SUBSET Names]

VARIABLES
  enrichers,  \* p.enrichers, by name
  deps,       \* Dependencies() of each
  phase,      \* where Run is
  i,          \* index of the running loop
  inDegree,   \* kahn: declared dependencies not yet retired
  queue,      \* kahn: ready enrichers
  head,       \* kahn: the enricher that is retiring
  out,        \* kahn's result, then the order of dispatch
  ran,        \* history: enrichers whose Enrich returned nil
  cancelled,  \* ctx.Err() != nil
  failure,    \* why Run returned an error
  stamped,    \* the enriched-by property of the SBOM
  counted     \* astinus_pipeline_runs_total, by status

registry == <<enrichers, deps>>
sorting == <<inDegree, queue, head, out>>
vars == <<registry, phase, i, sorting, ran, cancelled, failure, stamped, counted>>

\* The enrichers of the run; a dependency on any other name is dropped.
Present == Range(enrichers)
RealDeps(e) == deps[e] \cap Present

Init ==
  /\ \E r \in Registries : enrichers = r.enrichers /\ deps = r.deps
  /\ phase = "index"
  /\ i = 1
  /\ inDegree = [n \in Names |-> 0]
  /\ queue = <<>> /\ out = <<>> /\ ran = <<>>
  /\ head = NoName
  /\ cancelled = FALSE
  /\ failure = "none"
  /\ stamped = FALSE
  /\ counted = [s \in {"success", "error"} |-> 0]

-----------------------------------------------------------------------------
(* TopoSort.                                                               *)

Fail(why) == phase' = "failed" /\ failure' = why

\* Faulty variant: a dependency that is not part of the run is counted.
IndexByNameCountsMissing ==
  /\ phase = "index"
  /\ IF ~IsInjective(enrichers)
     THEN Fail("duplicate") /\ UNCHANGED inDegree
     ELSE /\ phase' = IF enrichers = <<>> THEN "run" ELSE "seed"
          /\ inDegree' = [n \in Names |-> IF n \in Present THEN Cardinality(deps[n]) ELSE 0]
          /\ UNCHANGED failure
  /\ UNCHANGED <<registry, i, queue, head, out, ran, cancelled, stamped, counted>>

\* indexByName and buildGraph.  TopoSort returns at once for no enrichers.
\* Its errors leave Run before any metric is recorded.
IndexByName ==
  /\ phase = "index"
  /\ IF ~IsInjective(enrichers)
     THEN Fail("duplicate") /\ UNCHANGED inDegree
     ELSE /\ phase' = IF enrichers = <<>> THEN "run" ELSE "seed"
          /\ inDegree' = [n \in Names |-> IF n \in Present THEN Cardinality(RealDeps(n)) ELSE 0]
          /\ UNCHANGED failure
  /\ UNCHANGED <<registry, i, queue, head, out, ran, cancelled, stamped, counted>>

\* The first loop of kahn.
Seed ==
  /\ phase = "seed"
  /\ IF i <= Len(enrichers)
     THEN /\ queue' = IF inDegree[enrichers[i]] = 0 THEN Append(queue, enrichers[i]) ELSE queue
          /\ i' = i + 1
          /\ UNCHANGED phase
     ELSE /\ phase' = "pop"
          /\ i' = 1
          /\ UNCHANGED queue
  /\ UNCHANGED <<registry, inDegree, head, out, ran, cancelled, failure, stamped, counted>>

\* Faulty variant: the queue is used as a stack.
PopNewest ==
  /\ phase = "pop"
  /\ queue # <<>>
  /\ head' = queue[Len(queue)]
  /\ queue' = SubSeq(queue, 1, Len(queue) - 1)
  /\ out' = Append(out, queue[Len(queue)])
  /\ i' = 1
  /\ phase' = "release"
  /\ UNCHANGED <<registry, inDegree, ran, cancelled, failure, stamped, counted>>

\* One turn of kahn's main loop: retire the head of the queue ...
Pop ==
  /\ phase = "pop"
  /\ queue # <<>>
  /\ head' = Head(queue)
  /\ queue' = Tail(queue)
  /\ out' = Append(out, Head(queue))
  /\ i' = 1
  /\ phase' = "release"
  /\ UNCHANGED <<registry, inDegree, ran, cancelled, failure, stamped, counted>>

\* Faulty variant: the dependent is queued with the first of its dependencies.
ReleaseEarly ==
  /\ phase = "release"
  /\ IF i <= Len(enrichers)
     THEN LET e == enrichers[i] IN
          /\ inDegree' = IF head \in deps[e] THEN [inDegree EXCEPT ![e] = @ - 1] ELSE inDegree
          /\ queue' = IF head \in deps[e] /\ inDegree[e] = Cardinality(RealDeps(e)) THEN Append(queue, e) ELSE queue
          /\ i' = i + 1
          /\ UNCHANGED phase
     ELSE /\ phase' = "pop"
          /\ i' = 1
          /\ UNCHANGED <<inDegree, queue>>
  /\ UNCHANGED <<registry, head, out, ran, cancelled, failure, stamped, counted>>

\* ... and walk dependents[head], which lists the enrichers in input order.
Release ==
  /\ phase = "release"
  /\ IF i <= Len(enrichers)
     THEN LET e == enrichers[i] IN
          /\ inDegree' = IF head \in deps[e] THEN [inDegree EXCEPT ![e] = @ - 1] ELSE inDegree
          /\ queue' = IF head \in deps[e] /\ inDegree[e] = 1 THEN Append(queue, e) ELSE queue
          /\ i' = i + 1
          /\ UNCHANGED phase
     ELSE /\ phase' = "pop"
          /\ i' = 1
          /\ UNCHANGED <<inDegree, queue>>
  /\ UNCHANGED <<registry, head, out, ran, cancelled, failure, stamped, counted>>

\* The queue is empty: everything is ordered, or the rest is stuck in a cycle.
Sorted ==
  /\ phase = "pop"
  /\ queue = <<>>
  /\ IF Len(out) = Len(enrichers)
     THEN phase' = "run" /\ i' = 1 /\ UNCHANGED failure
     ELSE Fail("cycle") /\ UNCHANGED i
  /\ UNCHANGED <<registry, sorting, ran, cancelled, stamped, counted>>

-----------------------------------------------------------------------------
(* runEnrichers, runOne and the end of Run.                                *)

Count(status) == counted' = [counted EXCEPT ![status] = @ + 1]

\* The context is checked before each enricher.
Dispatch ==
  /\ phase = "run"
  /\ i <= Len(out)
  /\ IF cancelled
     THEN Fail("cancelled") /\ Count("error")
     ELSE phase' = "enrich" /\ UNCHANGED <<failure, counted>>
  /\ UNCHANGED <<registry, i, sorting, ran, cancelled, stamped>>

EnrichSucceeds ==
  /\ phase = "enrich"
  /\ ran' = Append(ran, out[i])
  /\ i' = i + 1
  /\ phase' = "run"
  /\ UNCHANGED <<registry, sorting, cancelled, failure, stamped, counted>>

\* Faulty variant: the loop goes on after an error.
EnrichErrorIgnored ==
  /\ phase = "enrich"
  /\ i' = i + 1
  /\ phase' = "run"
  /\ UNCHANGED <<registry, sorting, ran, cancelled, failure, stamped, counted>>

\* Faulty variant: an enricher that failed is tried again.
EnrichRetried ==
  /\ phase = "enrich"
  /\ phase' = "run"
  /\ UNCHANGED <<registry, i, sorting, ran, cancelled, failure, stamped, counted>>

\* The first error halts the pipeline.
EnrichFails ==
  /\ phase = "enrich"
  /\ Fail("enricher") /\ Count("error")
  /\ UNCHANGED <<registry, i, sorting, ran, cancelled, stamped>>

Finish ==
  /\ phase = "run"
  /\ i > Len(out)
  /\ phase' = "done"
  /\ stamped' = TRUE
  /\ Count("success")
  /\ UNCHANGED <<registry, i, sorting, ran, cancelled, failure>>

\* The caller of Run cancels its context.  (The enrich command itself hands
\* over one that is never cancelled.)
Cancel ==
  /\ ~cancelled /\ phase \notin {"done", "failed"}
  /\ cancelled' = TRUE
  /\ UNCHANGED <<registry, phase, i, sorting, ran, failure, stamped, counted>>

Step ==
  \/ IndexByName \/ Seed \/ Pop \/ Release \/ Sorted
  \/ Dispatch \/ EnrichSucceeds \/ EnrichFails \/ Finish

Next == Step \/ Cancel

Spec == Init /\ [][Next]_vars

\* Run executes on one goroutine, and each Enrich is assumed to return.
FairSpec == Spec /\ WF_vars(Step)

-----------------------------------------------------------------------------
(* Properties.                                                             *)

TypeOK ==
  /\ enrichers \in Seq(Names)
  /\ deps \in [Names -> SUBSET Names]
  /\ phase \in {"index", "seed", "pop", "release", "run", "enrich", "done", "failed"}
  /\ i \in Nat \ {0}
  /\ inDegree \in [Names -> Int]
  /\ queue \in Seq(Names)
  /\ head \in Names \cup {NoName}
  /\ out \in Seq(Names)
  /\ ran \in Seq(Names)
  /\ cancelled \in BOOLEAN
  /\ failure \in {"none", "duplicate", "cycle", "cancelled", "enricher"}
  /\ stamped \in BOOLEAN
  /\ counted \in [{"success", "error"} -> Nat]
  /\ phase = "release" => head \in Names
  /\ phase = "enrich" => i <= Len(out)

\* When an enricher is dispatched, every dependency it declares and that is
\* part of the run has completed, and it has not been dispatched before.
DependenciesFirst ==
  phase = "enrich" => /\ RealDeps(out[i]) \subseteq Range(ran)
                      /\ out[i] \notin Range(ran)

\* Run succeeds only when every enricher ran, exactly once; the SBOM then,
\* and only then, says that it was enriched.
StampMeansAllRan ==
  /\ stamped => /\ Range(ran) = Present
                /\ Len(ran) = Len(enrichers)
                /\ failure = "none"
  /\ stamped <=> phase = "done"

\* A cycle is reported only when there is one: the enrichers that were not
\* ordered each wait for another of them.
CycleIsReal ==
  failure = "cycle" =>
    LET stuck == Present \ Range(out) IN
    /\ stuck # {}
    /\ \A e \in stuck : RealDeps(e) \cap stuck # {}

\* A graph with a set of enrichers that wait for one another is never run.
CyclesNeverRun ==
  phase \in {"run", "enrich", "done"} =>
    \A S \in (SUBSET Present) \ {{}} : \E e \in S : RealDeps(e) \cap S = {}

\* a waits for nothing in list and is registered before b.
FreeBefore(list, needs, a, b) ==
  /\ needs[a] \cap Range(list) = {}
  /\ \E j, k \in DOMAIN list : j < k /\ list[j] = a /\ list[k] = b

\* Registration order counts where kahn has a choice: an enricher that waits
\* for nothing runs before every one registered behind it, whatever the
\* dependencies of those.
FreeRunInOrder ==
  phase = "enrich" =>
    \A a \in Names : FreeBefore(enrichers, deps, a, out[i]) => a \in Range(ran)

\* Layer attribution runs before the base diff in every selection of the
\* command's enrichers: basediff reads the LayerInfo that attribution writes,
\* and declares no dependency on it (Pipeline: "attribution must run before
\* basediff").
AttributionBeforeBasediff ==
  phase = "enrich" /\ out[i] = "basediff" /\ "attribution" \in Present =>
    "attribution" \in Range(ran)

\* What allEnrichers does for it: attribution is registered before basediff
\* and waits for nothing.
AttributionFirst(list, needs) ==
  {"attribution", "basediff"} \subseteq Range(list) =>
    FreeBefore(list, needs, "attribution", "basediff")

\* Run returns, whatever the registry and wherever it is cancelled.
Terminates == <>(phase \in {"done", "failed"})

-----------------------------------------------------------------------------
(* Pipeline implements EnrichmentRun.                                      *)

Outcome == CASE phase = "done"   -> "enriched"
             [] phase = "failed" -> "failed"
             [] OTHER            -> "running"

Promise == INSTANCE EnrichmentRun WITH performed <- Range(ran), outcome <- Outcome

\* Whatever order Kahn's algorithm finds, Run performs each enricher at most
\* once, dependencies first, and succeeds only when it performed all of them.
ImplementsEnrichmentRun == Promise!Spec
=============================================================================
