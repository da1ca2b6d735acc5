# A TLA+ development for astinus

astinus reads an SBOM and a container image and writes an enriched SBOM:
every component attributed to its layer, compared with the base image, given
metadata, CPEs and lifecycle data, files nobody listed added, duplicates
merged, the whole optionally signed and gated. This directory holds TLA+ modules
for the parts of it whose correctness depends on order, interleaving, failure
and repetition, TLC configurations that check them on small instances, and
TLAPS proofs of what can be proved for every instance. `PROJECT.json` lists
components, runs, theorems, hazards and, for each definition, the source lines
it stands for. `src/` below is the repository's root.

## 1. The system: inventory

| Component | State it keeps | Operations | Where it is hard | What makes it correct |
|---|---|---|---|---|
| **enrich command** `internal/cli/enrich.go` | flags, output file, signature, metrics file, exit code | load SBOM, open image, build enrichers, run pipeline, render, sign, gate | twelve steps that fail one by one, a file that is truncated before it is rendered, runs repeated over one path, kills | an exit code tells the truth about the artefacts |
| **pipeline** `internal/enrich/{pipeline,ordering}.go` | registered enrichers, order, run counter, stamp | TopoSort (Kahn), dispatch, fail, cancel, stamp | every dependency graph, deselected dependencies, cancellation between two enrichers | dependencies first, no cycle run, stamp only after all |
| **untracked enricher** `internal/enrich/untracked` | component list, added counter, task list, channel, workers | cluster pre-pass, visit file, queue task, worker pool | workers write one slice by index, bounded channel, limit inside a visitor | each answer lands on its own file, none lost, all return |
| **cluster detector** `.../untracked/cluster` | index of directories | anchors, density, assignment, pre-pass | its files are skipped, its package may not be added | every file is accounted for |
| **matcher cache** `internal/fingerprint/matcher/cached.go` | entries map, eviction queue | Lookup, read, store | check and act under two locks; map and queue kept apart | every entry evictable, bounded size |
| **rate limiter** `.../matcher/ratelimit.go` | tokens, last refill | acquire, refill | refill and take are two critical sections | never more than burst plus earned tokens |
| **layer walker** `internal/image/layer` | FileMap | Walk, WalkFiles | whiteouts and opaque markers in any tar order over several layers, two passes | exactly the visible files, once |
| **registry enricher** `internal/enrich/registry` | memory cache per process, cache directory shared by processes | Resolve, FetchJSON, DiskCache Get/Set | shared temporary names, crashes, mirrors, negative answers | only whole answers, failures not handed on, no traffic past a replace mirror |
| **cpe enricher** `internal/enrich/cpe` | cache, NVD token bucket, CPEs and properties of components | candidates, sources per mode, scoring, classification | slow and failing requests, rate limit, its own properties read back as CPEs | one answer per package, offline stays offline, the first CPE is a CPE |
| **basediff** `internal/enrich/basediff` | base file set, strategies, origin of components | resolve base, three strategies, stamp origin | fallbacks and partial results | what others wrote stays |
| **attribution, extractor, dedup, prefilter, lifecycle, compliance** | fields and properties of components, relationships, metadata | one pass over the SBOM each | order between them, running twice, merging what others told apart | nothing of the input lost or overwritten, no dangling edge, counts that are true |
| **SBOM readers and writers** `internal/sbom` | - | both formats in both directions | what survives a round trip is what the next run knows | a rerun adds nothing |
| **lifecycle update** `internal/cli/lifecycle.go` | snapshot file | fetch, convert, write | products that fail, a second wire format | offline answers are the service's |
| **signing and verification** `internal/sign` | temporary files, bundle | Validate, Sign, Verify | bytes read back from a path | what is signed is what was rendered |
| **image sources, transport, auth; binary extractors; renderers; telemetry; config** | none or local | conversions, I/O | - | see section 7 |

How they interact: `runEnrich` builds the ten enrichers, `Filter` drops the
deselected ones, `Pipeline.Run` orders them by their declared dependencies and
calls them one after the other on one goroutine, sharing one mutable SBOM. Only
the untracked enricher starts goroutines (sixteen matcher workers), and they meet
in the matcher chain: rate limiter, cache, catalogue. Processes meet in two
places only: the output path and the registry cache directory.

## 2. Modules

| Module | Models | State | Actions |
|---|---|---|---|
| `EnrichRun` | `runEnrich` from flags to exit code, run after run | options, step, output file, signature, metrics, calls made, exit code | one per step of the command, each with its failures; `Kill` |
| `Pipeline` | `Pipeline.Run`, `TopoSort`, `kahn` | in-degrees, queue, order, what ran, counter, stamp | `IndexByName`, `Seed`, `Pop`, `Release`, `Sorted`, `Dispatch`, `EnrichSucceeds`, `EnrichFails`, `Finish`, `Cancel` |
| `EnrichmentRun` | the abstract run: dependencies first, then success or failure | what was performed, result | `Perform`, `Succeed`, `Fail` |
| `EnricherRegistry` | the ten enrichers the command registers, their dependencies, `Filter` | - | - |
| `Untracked` | cluster pre-pass, per-file decisions, limit, task queue, worker pool | components, tasks, channel, workers | one per decision of `visit`, per channel operation, per worker step |
| `MatcherCache` | `CachedMatcher`: every critical section of `Lookup` | entries, order, program counter per goroutine | `Lookup`, `CheckAge`, `Expire`, `InnerAnswers`, `InnerFails`, `Store` |
| `RateLimit` | `RateLimitedMatcher.acquire` | tokens, last, sleepers | `Begin`, `Refill`, `Take`, `Sleep`, `Wake`, `GiveUp` |
| `LayerWalk` | `Walk` and `WalkFiles` | image, owner map, deliveries | `WalkLayer`, `NextLayer`, `StreamLayer`, failures |
| `Registry` | `Resolver.Resolve`, `LayeredCache`, `DiskCache`, `FetchJSON` | memory per process, names and inodes of the cache directory | one per system call or request; `Kill`, `Age` |
| `Enrichment` | the pipeline on one SBOM, run after run on what it wrote | document, SBOM in memory, enrichers left, circumstances of the run, lifecycle snapshot, references merged away and into what | one per enricher, `Write`, `Reread`, `UpdateSnapshot` |
| `SBOM` | the canonical model: components, relationships, metadata, and the walks over them | - | - |
| `CycloneDX`, `SPDX` | the mappers between the canonical model and the two formats | - | - |
| `PathClassifier` | rule files, their merge and precedence; the syft prefilter | - | - |
| `Attribution`, `BaseDiff` | layer and confidence of a component; base image and origin | - | - |
| `Clusters`, `UntrackedFiles` | cluster detector and pre-pass; what becomes of one file of the image | - | - |
| `Extractor`, `Dedup` | embedded modules attached and lifted; duplicates grouped and merged | - | - |
| `RegistryFill`, `Lifecycle` | metadata projected onto a component; products, cycles, fallback, stamps and the update command | - | - |
| `CPE` | candidates of every source, scoring, thresholds, what is written to a component | - | - |
| `Compliance` | validators, severity policy and overrides, stamps | - | - |
| `CPEResolver` | `MultiSourceResolver` and the NVD client over time; what the sources know is a parameter, which `MCCPEResolver` takes from `CPE` | mode, component at hand and its sources left, cache, tokens, clock, requests, answers | `Hit`, `Miss`, `Skip`, `AskOffline`, `AskNVD`, `Wake`, `AskClearlyDefined`, `Answer`, `Store`, `Tick` |
| `*Proofs` | the theorems | - | - |
| `MC*` | instances for TLC | - | - |

Choices that shape the models:

* **Atomicity** is the code's. `MatcherCache` and `RateLimit` have one action per
  critical section; `Registry` one per system call, because processes share
  files and no lock; `Pipeline` one per loop round, because it is sequential;
  `Untracked` one per channel operation and per lookup.
* **Files** in `Registry` are inodes: `path` and `path.tmp` are names that lead to
  one, opening truncates, a writer keeps its inode when the name moves. Bytes
  `json.Unmarshal` refuses are `Torn`; a body written over a longer one is whole
  or torn. A prefix of a JSON object, or an object with a tail, never parses.
* **Images** in `LayerWalk` are sequences of tar entries. The reference says, without
  a walk, which layer a reader of the layered filesystem finds at a path: the last
  that wrote it, unless a higher one hides it, either as a file (`FileHides`: its
  whiteout, an opaque directory above it) or through a directory (`DirectoryHides`: one
  above it removed by a whiteout or replaced by a file or a link, the root opaque, a
  directory in the place of the path itself). `walkLayer` knows only the first kind;
  `LostWithDirectory` names the paths on which the two therefore differ.
* **The network** in `EnrichRun` is the set of parties a run has called. Each enricher
  that can call out has its own builder with its own test of the flags, as in the
  code, and cosign calls its services wherever it runs.
* **Data** are model values: a digest, a PURL, a metadata record that only says
  which key it is for and which endpoints it was decoded from.
* **Enrichers** are operators from SBOM to SBOM, one module each, since each runs
  alone on the SBOM between two steps of the pipeline; `Enrichment` makes each one
  action, in the order `TopoSort` gives, and adds the reader and the writer. A
  component is a record of the fields some enricher reads or writes. A text is
  the part of it that the code tells apart: a PURL is `<<coordinates, version,
  qualifiers>>`, a location `<<"/" or "", path>>`, a property key the sequence of
  its segments below `astinus:`. What a regular expression, a glob or a parser
  makes of a text is a table among the constants (`PURLParts`, `CPEParts`, `Split`,
  `Signals`, `Versioned`, `matches` of a rule).
* **Circumstances** differ from run to run (`Environments`): is the base image
  reachable, does its scan or its diff fail, which registries, catalogues and CPE
  services answer, which key of a Go map comes first, what day it is. Flags stay
  the same over the runs (`Configs`).
* Log lines, spans and histograms are left out; the run counter and the metrics
  export are in.

## 3. Runs

| Run | Instance | Shows |
|---|---|---|
| `pipeline` | every relation over three names with six registrations (cycles, missing and duplicate names), and the ten enrichers under all 1024 selections; failure and cancellation anywhere | a reported cycle is real; the stamp means all ran; attribution precedes basediff in every selection, although nothing declares it; the run ends; it implements `EnrichmentRun` |
| `cache` | two goroutines, three keys, two slots, TTL of one tick, four lookups | the queue covers the map, exact until the first expiry; size exceeds the bound by at most the expiries; lookups return |
| `ratelimit` | three callers, bucket of two, half a token per tick, five ticks | no more grants than burst and rate allow from the start, and in every window no more than that and one per caller |
| `layers` | three layers over five paths and the root, the middle one any tar of up to three entries about files or two of any kind, in any order, the top one any of one entry: a directory removed, a file in its place, a directory in the place of a file | the FileMap is the layered filesystem but for what went with its directory; a path is delivered once at most, from its last writer; no visible file is missed |
| `untracked` | all images of up to three files of twelve kinds, two larger ones, with clusters and a baseline, two workers | answers land on their own file, none is lost or late, the limit holds, the pool ends |
| `enrich` | two runs over one path, some hundred flag sets with every network mode, every step failing, kill anywhere | exit 0 means delivered, signed as asked, gate passed; nothing truncated is signed; under `--no-network` only the base image's registry and, once the SBOM is on disk, cosign's services are called |
| `registry` | three runs in two processes over one directory, four configurations, kill, full disk and expiry anywhere | only whole answers for the right key are handed out; a nil means that every service was asked; one walk per key and run; mirrors shield upstream, and those that replace it come before the fallbacks; undisturbed runs share; runs end |
| `sbom` | a document with duplicates, nested and embedded components, relationships and junk CPEs (and an empty one), an image of seventeen files with three kinds of clusters, both formats, three selections of enrichers, three modes, four circumstances, two runs, a lifecycle update between them | no component, file or hash is lost; upstream fields stay; only a merge leaves a dangling edge; no CPE is forgotten and no property passes for one; what compliance stamped is true of the result; a rerun adds nothing; every file of the image is accounted for; an updated snapshot answers like the service |
| `cpe` | five components of four packages, three modes, with and without API key, below and above the size at which the anonymous NVD is skipped, requests fast, slow or failing | the request rate in every window; one answer and one request per package; no needless request; all are answered |

Three runs are expected to be violated; each states what a comment of the
repository promises and TLC shows the code doing otherwise: `layers_directory`
(files below a removed directory are still delivered), `registry_mixed` (metadata
of two endpoints mixed), `sbom_nested` (what is nested two levels deep is gone
once the extractor has lifted its parent).

The properties of `sbom` say in their definitions where the code stops short:
`DanglingOnlyByMerge` admits the edges to merged components, which dedup does not
redirect; `NoComponentLost` is about nested components only if the extractor is
on, because `mergePair` drops those of the secondary, and follows components from
run to run only in CycloneDX; `NoCPEForgotten` lets a group of three displace one
conflict recorded on its own primary; `RerunAddsNothing` is about CycloneDX, since
SPDX carries no file locations; `StampsAreCurrent` needs dedup, without which
nothing holds compliance back.

**Bounds.** Two goroutines or processes suffice for every check-then-act
interleaving of a pair; the registry needs a third run, since a torn entry takes
two writers and a reader. Three names make every shape of cycle, chain and
diamond with a missing corner. Two slots and three keys make evictions meet
expiries. Two command runs let one run meet the leftovers of another; the
proofs below remove the bounds for `EnrichRun`, `Pipeline`, `MatcherCache`,
`RateLimit`, `LayerWalk`, `Untracked`, `Registry` and `CPEResolver`. `MaxTime`,
`MaxLookups` and `MaxRuns` cap clocks and counters only.
In `sbom` the second run meets what the first one wrote, and every enricher
meets a component it changes, one it must leave alone and one another enricher
changed before; `Many`, `VeryMany` and `LargeSBOM` stand for 100, 1000 files and the
size of a large SBOM. In `cpe` a request empties the bucket of one token, which takes `Period` ticks to
refill, and a request of `Slow` ticks lasts long enough to earn three.
Deadlock checking is off because all these systems stop when they are done;
the liveness properties take its place.

**Fairness.** `Pipeline`, `CPEResolver`: weak fairness of the one goroutine's next
step - no step waits for another actor, and every network call has a timeout.
`MatcherCache`, `Untracked`: weak fairness of each goroutine, which the Go
scheduler gives; lookups end at `MatcherTimeout`. `Registry`: weak fairness of
each process; requests end after 30 s. No fairness is assumed of kills, expiries,
cancellations, new lookups or new runs. `RateLimit` has no liveness property: the
code polls and promises no caller a turn; the lookup deadline ends its wait.

## 4. Proofs

All proofs are checked by TLAPS for every value of the constants.

* **`PipelineProofs`** - `KahnInvariant` relates in-degrees, queue and order: an
  enricher's count is the number of its present dependencies not yet retired,
  and it is queued, retired or still counted, never two of these. Without the
  exact count, "queued" would say nothing about dependencies. From it follow
  `DependenciesFirstTheorem`, `StampTheorem`, `CycleTheorem` (the rest Kahn leaves
  really is on or behind a cycle: each has an outstanding dependency),
  `NoCycleRunTheorem` and `RefinementTheorem` (`Pipeline` implements
  `EnrichmentRun`; the safety part, with every loop step a stutter until dispatch).
  `LineInv` adds the order in the queue: an enricher that waits for nothing stands
  before those registered behind it, in the queue or already in the output. It
  gives `FreeOrderTheorem` (such an enricher runs before all of those, on any
  registry), and that gives `AttributionTheorem`. Its premise `AttributionFirst` -
  attribution is registered before basediff and has no dependency - is evaluated by
  TLC for every selection of the command's enrichers (`CommandAssumption`).
* **`MatcherCacheProofs`** - `QueueInvariant`: every key in the map is in the queue,
  and the queue is no longer than the live entries plus the expiries. The size
  bound alone is not inductive, since an eviction may pop a dead name. From it
  `CoverTheorem`, `BoundTheorem`, `ExactQueueTheorem`.
* **`RateLimitProofs`** - `LedgerTheorem`: tokens, grants and elapsed time balance;
  `RateTheorem` follows by arithmetic. A window that starts late needs a ledger of
  its own, since the balance from the start says nothing about how full the bucket
  was when the window began: `WindowInv` bounds, for every grant, the grants since
  then, the callers about to take a token and the tokens left. From it
  `WindowTheorem`.
* **`EnrichRunProofs`** - `RunInvariant` says, step by step, what the output and the
  signature are; from it `SuccessTheorem`, `SignatureTheorem`,
  `EarlyFailureTheorem`, `HooksTheorem`, for any number of runs and all flags.
  `OfflineTheorem` follows the builders and the signing step: whom each may call, and
  that cosign is reached only with the whole SBOM on disk.
* **`LayerWalkProofs`** - `WalkInvariant`: after every tar entry the FileMap names the
  last writer of each path that no later whiteout or opaque marker hides. The
  reference definition speaks of whole images; the invariant is that part of it cut
  off at the entry at hand, which is what an entry can preserve. From it
  `OwnerTheorem`, `DeliveryTheorem`, `NoFileMissedTheorem`, for images of any number of
  layers, entries and paths. They are about images whose layers are differences of
  filesystems (`Built`): a file or link is in a tar once and has nothing below it
  there, and the whiteout of a path precedes what the layer writes in its place.
  Directories removed, replaced and created are included: for them the theorems say
  that the one thing the code gets wrong is to keep the last writer of a path that
  went with its directory (`LostWithDirectory`), and that no visible file is missed
  for it. `layers_directory` shows that it does.
* **`UntrackedProofs`** - `PoolInvariant`: a task names, by index, the component it was
  queued for; the tasks handed out followed by those in the channel are the tasks
  sent, in order; no two workers hold one task; the hits are the components
  identified and the counter is the number of files added. `MatchTheorem` alone is
  not inductive: that a worker writes to the right component rests on components
  keeping their index once a task names it. From it also `PoolTheorem` and
  `LimitTheorem`, for every image, SBOM, limit and number of workers.
* **`RegistryProofs`** - `SafeInv` carries `WholeAnswersTheorem`: the names of
  different keys never lead to one inode, a writer's inode is never reached
  through another key's names (although others may have renamed or removed it),
  and what a name leads to is torn or an answer for its key. The property itself
  speaks of memory only and says nothing about what the next read returns.
  `WalksInvariant` (a walk is running for the key, or its result is in memory)
  carries `OneWalkTheorem` and, with the services asked so far in the walk,
  `NilTheorem`; `MirrorsTheorem` rests on the endpoints asked being an initial part of
  the chain. `TypeCorrect` needs that
  `DiskCache.Set` never sees a nil. `SharedTheorem` is about runs one after the
  other that nothing disturbs: `Quiet` says that then one process is at work, nothing
  on disk is torn or too old, `path.tmp` leads to the file that process is writing
  or to nothing, and every answer fetched has its name or is on the way to it.
* **`CPEResolverProofs`** - `ResolveInvariant`: the answers given are the cached ones;
  a cached answer has all that the dictionaries know of its package and nothing that
  no registered source said; in a walk under way the same holds for the sources
  walked so far, and a settling answer of one of them has been noticed; what is
  waited for is a service, at the bucket the NVD, which was not to be skipped.
  `AnswersAreTheirOwn` speaks of finished answers only and is not inductive without
  the part about the walk. It gives `OwnTheorem`, and with `RequestInv` (a request
  was for a resolved package, or for the one at hand from a source that is not asked
  again) `SameAnswerTheorem`. `NeededTheorem` adds that the order of the walk is
  the order of the priorities: a dictionary before the service has been walked. For
  `RateTheorem` `LedgerInv` balances, from every request on, the requests and the
  tokens left against a full bucket and the time since; the bound itself says
  nothing about the tokens and is not inductive. All of it holds for every set of
  sources with distinct priorities, whatever they know (`SourcesAssumption`, which TLC
  evaluates for the sources of the program), every list of components, every refill
  period, and every delay and failure of a request.

The modules about queues and lists begin with the lemmas about ranges, injectivity and
places of appended, shortened, updated and joined sequences that they need.

`CyclesNeverRun`, `FreeRunInOrder`, `EarlyFailureKeepsOutput`, `HooksKeepTheSBOM` and the
`TypeOK`s are proved and need no run; `AnswersAreTheirOwn` is proved, and in the run `cpe`
part of `AllAnswered`.

The assumptions are the named `ASSUME`s of the modules (finite sets of names,
callers, processes and workers, positive bounds, well-typed options, images and SBOMs
that are sequences, CPE sources that differ in name and priority); TLC evaluates each
in a run.

Model-checked only: all liveness (`Terminates`, `LookupReturns`, `RunsEnd`,
`AllAnswered`) and fairness, which the prover does not support; and `Enrichment`
with the enrichers, whose operators recurse over component trees and fold over
sequences, so that what they compute for every SBOM would take induction over data.
`CPEResolver` has the candidates of a source as a parameter for this reason: its proofs
do not depend on how `CPE` computes them.

## 5. Divergences noticed while modelling

Besides the three findings, the code differs from its comments here:

* `enrich/untracked/enricher.go:904`: a file over `MaxFileBytes` is an error that ends
  the walk and the pipeline (`FileTooLarge`, `WalkFails`); `enrich/enricher.go:14` says
  "Missing data is logged at debug level; it does not abort the pipeline."
* `cli/enrich.go:1199` looks at `--base` and not at `--no-network`, so the base image
  is still resolved from a registry; `runSigningStep` (line 483) does not look at it
  either, and `cosign attest --yes` and `sign-blob --yes` (`sign/cosign.go:150`) call
  Fulcio, Rekor or the image's registry. `docs/configuration.md:49` says "Refuse all
  outbound calls" and `docs/quickstart.md:104` "never reaches out". `OfflineCallers` is
  what holds.
* `cli/enrich.go:547`: the gate uses `compliance.New()` with the bundled policy, so a
  finding that `--compliance-config` downgraded or ignored still trips it and one it
  raised does not; `docs/compliance.md:100` says "after policy filtering" and line 157
  that `ignored` "removes the finding before the gate sees it". `GateHit` of `EnrichRun`
  takes the findings under the bundled policy, as the code does.
* `enrich/enricher.go:7` promises idempotence since "the reader hydrates Astinus-typed
  fields back"; `sbom/cyclonedx/mapper.go:362` takes every `astinus:cpe:*` property for
  a CPE, so source and confidence come back as CPEs in map order (they never become
  the first: `PrimaryCPEIsVouched`). The SPDX writer keeps neither the
  locations, type and author of a component nor the stamps in the metadata.
* `enrich/dedup/dedup.go:272` records a conflict "so it isn't lost silently"; a third
  member of the group overwrites the breadcrumb, name, description, supplier and
  nested components of the secondary leave none, and relationships to it dangle.
* `enrich/untracked/cluster/detector.go:272` marks every ancestor of a density cluster
  and `alreadyScored` looks at ancestors, so any later one below the same top-level
  directory is suppressed, overlapping or not.
* `enrich/untracked/enricher.go:319`: coordinates are "for dedup when one side lacks a
  version", yet a cluster of another version is suppressed too; the first "@" of a
  scoped npm PURL cuts the coordinates to `npm/`, the same for all of them.
* `enrich/cpe/sources/pattern.go:49` says the heuristic "only fires when nothing else
  matched"; it always fires. Line 56 of `enrich/cpe/matcher.go` says "Always emits
  ConfidenceLow", line 93 emits medium. `Enrich` of the cpe enricher takes no notice
  of a cancelled context.
* `policy/builtin/compliance/severity_policy.go:26` says "the first rule" wins and line
  33 "the LAST match"; the last does. `eu_cra.go:125` wants the CPE source to be
  `nvd-api` and misses `input+nvd-api`, which a component with a CPE of its own gets.
* `enrich/lifecycle/product_mapping.go:96` says the PURL rule "carries the distro
  version, not the package version"; `MapToProduct` passes the component's version.
* `fingerprint/matcher/cached.go:97` deletes an expired entry and leaves its key in
  the queue, so the map can outgrow the limit although line 44 says "MaxEntries
  caps the cache size", and a key stored again is evicted by its old position
  (line 19: "oldest insertion evicted first"). `BoundUpToExpiries` is what holds.
  The age is tested outside the lock, so an entry another goroutine has just
  refreshed can be deleted (line 99).
* `enrich/ordering.go:114`: ready enrichers are taken in the order they became
  ready, not "in registration order" (`pipeline.go:133`); line 90 drops a missing
  dependency that `enricher.go:38` says is refused; hence compliance without dedup
  runs before what it should validate (`compliance/enricher.go:58`).
* `enrich/pipeline.go:137` returns before the run is counted (line 84: "Total
  pipeline runs labeled by terminal status"); line 23 says "basediff before
  untracked", while basediff depends on untracked.
* `docs/configuration.md:29` names `--disable layer`; the enricher is called
  `attribution`. An unknown `--enable` name exits 0 and not 5 (line 291).
* `image/layer/extract.go:123` delivers a path twice that occurs twice in one tar
  (line 44: "exactly once"; `Built` excludes it); an opaque marker at the root evicts
  nothing (`walker.go:218`, whose prefix is `./`), and neither does a file in the place
  of a directory, or a directory in that of a file (lines 224-231).
* `enrich/untracked/enricher.go:283` appends cluster components outside
  `MaxComponents` (line 67); two copies of a file share a
  BOMRef (line 814; `sbom/model/component.go:39` says "unique identifier").
* `--fail-on info` exits 40 (`cli/enrich.go:551`; `policy/finding.go:25` says "never
  blocks"); keyless signing with a key path signs with the key (`sign/cosign.go:168`).
* `enrich/registry/resolver.go:70` says the result "(including ErrNotFound) is cached
  so a re-run on the same SBOM is free"; `DiskCache.Set` ignores a nil (`cache.go:141`),
  so negatives are kept in memory only and a re-run asks again. The second lookup of an
  unsupported PURL reports not found instead of unsupported.

## 6. Plan

1. *(done)* `Pipeline` with its abstract run and its proofs; `EnrichRun`;
   `MatcherCache`, `RateLimit`; `LayerWalk`; `Untracked`; `Registry` and its proofs.
2. *(done)* `SBOM` with both formats, one operator module per enricher, and
   `Enrichment`, which composes them and runs them twice; `Clusters`; `CPEResolver`.
3. *(done)* Proofs of every invariant of `Pipeline`, `MatcherCache`, `RateLimit`,
   `EnrichRun`, `LayerWalk`, `Untracked`, `Registry` and `CPEResolver` that a run checks.
4. The verification command beside the signing model, and the parsers of the single
   registries.

## 7. Not modelled

The parsers of executables and archives, hashing, JSON and tag-value encoding,
format detection and the renderers: functions of bytes without control; the tables
among the constants stand for what they return. The parsers of the single
registries: their answers are `Answers` of `RegistryFill`. Image sources, transport
and credentials: go-containerregistry and TLS; `EnrichRun` models that opening fails
and whether it needs the network. Histograms, traces and logs. Signature
verification: one cosign call and its exit status. The offline-database command: an
empty directory layout and a manifest. In `Enrichment` `--no-cluster` and the
`--include` flags of the untracked enricher keep their defaults (constants of
`Untracked`), and files are read without error; `Untracked`, `EnrichRun` and `Pipeline`
have the failures.
