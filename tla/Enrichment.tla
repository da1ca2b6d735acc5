----------------------------- MODULE Enrichment -----------------------------
(***************************************************************************)
(* `astinus enrich` on one SBOM, run after run: the document is read, the  *)
(* enrichers change the canonical SBOM one after another in the order the  *)
(* pipeline gives them, the result is written, and the written document is *)
(* the input of the next run.  Each enricher's own module says what it     *)
(* does; here they meet.                                                   *)
(*                                                                         *)
(* What the network, the base image and Go's map order do differs from run *)
(* to run; the flags stay.                                                 *)
(***************************************************************************)
EXTENDS SPDX, Dedup, Extractor, BaseDiff, Attribution, UntrackedFiles, RegistryFill, Lifecycle, CPE,
        Compliance, EnricherRegistry

CONSTANTS
  Inputs,        \* canonical SBOMs; the first document is one of them, written
  Configs,       \* [format, disabled, mode, base, reference]: the flags
  Environments,  \* [base, normalized, extracted, matched, answered, answer, down, first, now]
  ImageFiles,    \* the files of the image, in walk order
  Snapshot,      \* the lifecycle data at hand before `astinus lifecycle update`
  Outages,       \* sets of products that an update cannot fetch
  Rounds         \* how often the command is run

ASSUME EnrichmentAssumption == Rounds \in Nat \ {0}

VARIABLES
  doc,           \* the document in the file
  config, env,
  round,         \* runs begun
  sbom,          \* the canonical SBOM in memory
  input,         \* what was read in this run
  order,         \* the enrichers still to run
  snapshot,      \* the lifecycle data --lifecycle-snapshot names
  merged,        \* references that dedup merged away in this run, with the primary's
  results        \* the SBOM at the end of each run, and the run's circumstances

vars == <<doc, config, env, round, sbom, input, order, snapshot, merged, results>>

-----------------------------------------------------------------------------
(* TopoSort on the enrichers left by --disable: dependencies on others do  *)
(* not count.                                                              *)
RECURSIVE kahn(_, _, _)
kahn(queue, retired, enrichers) ==
  IF queue = <<>> THEN <<>>
  ELSE LET head  == Head(queue)
           done  == retired \cup {head}
           needs(e) == Dependencies[e] \cap ToSet(enrichers)
           ready == SelectSeq(enrichers, LAMBDA e : head \in needs(e) /\ needs(e) \subseteq done)
       IN  <<head>> \o kahn(Tail(queue) \o ready, done, enrichers)

TopoSort(enrichers) ==
  kahn(SelectSeq(enrichers, LAMBDA e : Dependencies[e] \cap ToSet(enrichers) = {}), {}, enrichers)

Order == TopoSort(Filter(Registered, {}, config.disabled))

Written(format, s) == IF format = "spdx" THEN toSPDX(s) ELSE toCDX(s)

(* loadSBOM *)
Read == IF config.format = "spdx" THEN fromSPDX(doc) ELSE fromCDX(doc, env.first)

(* The pipeline's stamp: the mark of the first run stays. *)
stampRun(props) ==
  SetProp(setIfAbsent(props, <<"enriched", "by">>, "astinus"), <<"enriched", "version">>, "version")

-----------------------------------------------------------------------------
Init ==
  /\ config \in Configs
  /\ \E s \in Inputs : doc = Written(config.format, s)
  /\ env \in Environments
  /\ round = 1 /\ results = <<>> /\ merged = {} /\ snapshot = Snapshot
  /\ sbom = Read /\ input = sbom /\ order = Order

Turn(name) == order # <<>> /\ Head(order) = name /\ order' = Tail(order)

Step(name, result) ==
  /\ Turn(name)
  /\ sbom' = result
  /\ UNCHANGED <<doc, config, env, round, input, snapshot, merged, results>>

Prefilter == Step("syft-prefilter", PrefilterEnrich(sbom))
Attribute == Step("attribution", AttributionEnrich(sbom, env.normalized))
ScanUntracked == Step("untracked", UntrackedEnrich(sbom, ImageFiles, env.matched))
Compare == Step("basediff", BasediffEnrich(sbom, config.base, config.reference, env.base))
Extract == Step("extractor", ExtractorEnrich(sbom, env.extracted))
FillFromRegistries == Step("registry", RegistryEnrich(sbom, env.answered))
StampLifecycle == Step("lifecycle", LifecycleEnrich(sbom, config.mode, env.answer, snapshot, env.now))
ResolveCPEs == Step("cpe", CPEEnrich(sbom, config.mode, env.down))
Comply == Step("compliance", ComplianceEnrich(sbom))

Refs(components) == {c.ref : c \in ToSet(Flat(components))}

Deduplicate ==
  /\ Turn("dedup")
  /\ sbom' = DedupEnrich(sbom)
  /\ merged' = merged \cup {m \in MergedInto(sbom.components) : m[1] \notin Refs(sbom'.components)}
  /\ UNCHANGED <<doc, config, env, round, input, snapshot, results>>

(* The end of the pipeline and the output. *)
Write ==
  /\ order = <<>> /\ Len(results) < round
  /\ sbom' = [sbom EXCEPT !.meta.props = stampRun(@)]
  /\ doc' = Written(config.format, sbom')
  /\ results' = Append(results, [env |-> env, sbom |-> sbom'])
  /\ UNCHANGED <<config, env, round, input, order, snapshot, merged>>

(* `astinus lifecycle update`, once, between two runs. *)
UpdateSnapshot ==
  /\ Len(results) = round /\ round < Rounds /\ snapshot = Snapshot
  /\ \E failing \in Outages : snapshot' = runLifecycleUpdate(snapshot, failing)
  /\ UNCHANGED <<doc, config, env, round, sbom, input, order, merged, results>>

(* The next run, on what the last one wrote. *)
Reread ==
  /\ Len(results) = round /\ round < Rounds
  /\ env' \in Environments
  /\ round' = round + 1 /\ merged' = {}
  /\ sbom' = IF config.format = "spdx" THEN fromSPDX(doc) ELSE fromCDX(doc, env'.first)
  /\ input' = sbom' /\ order' = Order
  /\ UNCHANGED <<doc, config, snapshot, results>>

Next ==
  \/ Prefilter \/ Attribute \/ ScanUntracked \/ Compare \/ Extract \/ FillFromRegistries
  \/ StampLifecycle \/ ResolveCPEs \/ Deduplicate \/ Comply \/ Write
  \/ UpdateSnapshot \/ Reread

Spec == Init /\ [][Next]_vars

-----------------------------------------------------------------------------
Finished == Len(results) = round

Enabled(name) == name \notin config.disabled

Nested(components) == Concat(MapSeq(components, LAMBDA c : Flat(c.subs)))

Lowered(hashes) == {<<Lower(h[1]), Lower(h[2])>> : h \in {h \in ToSet(hashes) : h[2] # ""}}

\* d has the package, the files and the hashes of c.
Carries(d, c) ==
  /\ c.purl # <<>> => d.purl # <<>> /\ canonicalPURL(d.purl) = canonicalPURL(c.purl)
  /\ ToSet(c.locs) \subseteq ToSet(d.locs)
  /\ Lowered(c.hashes) \subseteq Lowered(d.hashes)

\* d is what became of c: c itself, or the primary it was merged into.
Heir(d, c) == d.ref = c.ref \/ <<c.ref, d.ref>> \in merged

Dropped(c) == Enabled("syft-prefilter") /\ Removed(c)

\* What the last run ended with, when CycloneDX brought it here.
Earlier == IF round = 2 /\ config.format = "cyclonedx" THEN results[1].sbom.components ELSE <<>>

\* Whatever the enrichers do to a component that was read, its package, files
\* and hashes are still in the result, in it or in what it was merged into, and
\* so they are after a CycloneDX document was written and read; a nested
\* component is at least still named, provided the extractor lifted it before
\* mergePair could drop it with its parent.  Only the path rules may drop one.
\* (lift, mergePair and mergeEvidence, toCDX and fromCDX.)
NoComponentLost ==
  Finished =>
    /\ \A c \in ToSet(input.components \o Earlier) :
         Dropped(c) \/ \E d \in ToSet(sbom.components) : Heir(d, c) /\ Carries(d, c)
    /\ Enabled("extractor") => \A c \in ToSet(Nested(SelectSeq(input.components, LAMBDA c : ~Removed(c)))) :
         \E d \in ToSet(Flat(sbom.components)) : liftKey(d) = liftKey(c)

MergeCount(c) == Prop(c.props, <<"dedup", "merged-count">>)

Stays(old, new) == old = "" \/ new = old

\* What the producer of the SBOM said of a component is not replaced: applyMetadata
\* and the other enrichers fill what is empty.  (A merge keeps the primary's and
\* drops the rest, so components merged in this run are left out.)
UpstreamFieldsStay ==
  Finished => \A c \in ToSet(input.components) :
    LET same == {d \in ToSet(sbom.components) : d.ref = c.ref /\ MergeCount(d) = MergeCount(c)}
    IN  same # {} => \E d \in same :
          /\ Stays(c.name, d.name) /\ Stays(c.ver, d.ver) /\ Stays(c.supplier, d.supplier)
          /\ Stays(c.desc, d.desc) /\ Stays(c.author, d.author)
          /\ ToSet(c.lics) \subseteq ToSet(d.lics)
          /\ c.layer # <<>> => d.layer = c.layer

Ends(rels) == {r.from : r \in ToSet(rels)} \cup {r.to : r \in ToSet(rels)}

\* An edge that leads nowhere was so in the input or leads to a component that
\* dedup merged away (Run leaves the relationships alone): neither the prefilter
\* nor the lift of nested components leaves one.
DanglingOnlyByMerge ==
  Finished => Ends(sbom.rels) \subseteq
                Refs(sbom.components) \cup {m[1] : m \in merged} \cup (Ends(input.rels) \ Refs(input.components))

Mentions(c) == ToSet(c.cpes) \cup {c.props[k] : k \in DOMAIN c.props}

\* A well-formed CPE of a component is a CPE of what became of it or listed in a
\* property there: as an alternative of enrichOne, or as a conflict of
\* mergeProperties (which keeps one conflict, so in a group of three or more a
\* later member may displace it).
NoCPEForgotten ==
  Finished => \A c \in ToSet(input.components) : \A cpe \in ToSet(c.cpes) :
    IsValidCPE(cpe) /\ ~Dropped(c) =>
      \E d \in ToSet(sbom.components) : Heir(d, c) /\ (cpe \in Mentions(d) \/ MergeCount(d) \notin {"", "1"})

\* A component with a stamped CPE source has a well-formed first CPE, however
\* often it was written and read: what the reader mistakes for a CPE never wins.
PrimaryCPEIsVouched ==
  Finished /\ Enabled("cpe") => \A c \in ToSet(Flat(sbom.components)) :
    HasProp(c.props, <<"cpe", "source">>) => c.cpes # <<>> /\ IsValidCPE(c.cpes[1])

\* What the compliance enricher left in the metadata and on the components is
\* true of the SBOM it is written with: each count is that of the final
\* findings, and each finding stands on its component.  Nothing that matters to
\* a validator happens between that enricher and the end, as long as dedup is
\* there to hold it back.
StampsAreCurrent ==
  Finished /\ Enabled("dedup") =>
    LET judged == Concat(MapSeq(Validators, LAMBDA v :
                    applyPolicy(WithOverrides(defaultRules), sbom, Validate(v, sbom))))
        count(name) == Prop(sbom.meta.props, CountKey(name))
    IN  /\ count("findings") = ToString(Len(judged))
        /\ count("actionable") = ToString(countActionable(judged))
        /\ \A s \in Info .. Critical : count(SeverityName[s]) = ToString(countSeverity(judged, s))
        /\ \A f \in ToSet(judged) : f.component # NoRef =>
             \E c \in ToSet(Flat(sbom.components)) :
               /\ c.ref = f.component
               /\ Prop(c.props, <<"compliance", "finding", f.rule>>) = SeverityName[f.severity]

ComponentIds(s) == MapSeq(s.components, LAMBDA c : <<c.ref, c.name, c.purl>>)

\* A second run in the same circumstances on the CycloneDX document that the
\* first wrote neither adds nor loses a component: files once recorded are
\* known by their path, lifted dependencies by their key.
RerunAddsNothing ==
  Finished /\ round = 2 /\ config.format = "cyclonedx" /\ results[1].env = results[2].env =>
    ComponentIds(results[2].sbom) = ComponentIds(results[1].sbom)

\* Every file of the image that no list or rule drops is named by a component of
\* the result or lies in the directory of one (of the packages of a cluster, the
\* version aside): the pre-pass may skip the files of a cluster only if its package
\* is in the SBOM, and no later enricher may lose it (withinAnyCluster,
\* runClusterPrePass, preFilter, mergeEvidence).
FilesAccountedFor ==
  Finished =>
    LET packages == {purlCoordinates(p) : p \in {c.purl : c \in ToSet(Flat(sbom.components))} \ {<<>>}}
        named    == buildKnownIndex(sbom.components)
        listed   == {c \in ToSet(DetectClusters(ImageFiles)) : purlCoordinates(c.purl) \in packages}
    IN  \A f \in ToSet(ImageFiles) :
          \/ f.docs \/ processFile(f) = <<>> \/ classifyPath(<<"", f.path>>) # NoRule
          \/ isRedundantAgainstIndex(f, named)
          \/ \E c \in listed : ClusterHas(c, f.segs)

\* What an update wrote answers, without the network, as the service did: dates,
\* Booleans and the long-term mark survive toWireFormat and the loader.
SnapshotServesLikeTheSource ==
  snapshot # Snapshot => \A p \in DOMAIN snapshot : \A w \in ToSet(Published[p]) :
    BundledFetch(snapshot, p, w.cycle) = OnlineFetch(p, w.cycle, "ok")


=============================================================================
