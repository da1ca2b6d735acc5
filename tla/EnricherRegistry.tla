------------------------- MODULE EnricherRegistry -------------------------
(***************************************************************************)
(* The enrichers the command registers (allEnrichers of                    *)
(* src/internal/cli/enrich.go), the dependencies each of them declares and *)
(* the --enable / --disable filter in front of the pipeline.               *)
(***************************************************************************)
EXTENDS Sequences, SequencesExt

\* allEnrichers, in registration order.
Registered ==
  << "syft-prefilter", "attribution", "basediff", "untracked", "extractor",
     "registry", "lifecycle", "cpe", "dedup", "compliance" >>

EnricherNames == ToSet(Registered)

\* Faulty variant: compliance does not wait for dedup.
DependenciesLoose ==
  [n \in EnricherNames |->
     CASE n = "basediff"  -> {"untracked"}
       [] n = "extractor" -> {"untracked"}
       [] n \in {"registry", "lifecycle", "cpe"} -> {"untracked", "extractor"}
       [] n = "dedup"     -> {"basediff", "cpe", "extractor", "registry"}
       [] OTHER           -> {}]

\* The Dependencies() method of each enricher.
Dependencies ==
  [n \in EnricherNames |->
     CASE n = "basediff"   -> {"untracked"}
       [] n = "extractor"  -> {"untracked"}
       [] n = "registry"   -> {"untracked", "extractor"}
       [] n = "lifecycle"  -> {"untracked", "extractor"}
       [] n = "cpe"        -> {"untracked", "extractor"}
       [] n = "dedup"      -> {"basediff", "cpe", "extractor", "registry"}
       [] n = "compliance" -> {"dedup"}
       [] OTHER            -> {}]

\* enrich.Filter: an empty enabled set means every enricher.
Filter(enrichers, enabled, disabled) ==
  SelectSeq(enrichers, LAMBDA e : e \notin disabled /\ (enabled = {} \/ e \in enabled))
=============================================================================
