---------------------------- MODULE Attribution -----------------------------
(***************************************************************************)
(* The attribution enricher (internal/enrich/attribution): the layer of    *)
(* each component, from the FileMap that LayerWalk models, and how far the *)
(* layers of the image can be trusted.                                     *)
(***************************************************************************)
EXTENDS SBOM

CONSTANTS
  FileMap,       \* path -> <<layer digest, layer index>>
  ImageBuild          \* [runtime, evidence, provenance, layers]: how the image was built;
                 \* a layer is [createdBy, squashed]

(* apply: the first location that the image has; an attributed component   *)
(* keeps its layer.                                                        *)
attributed(c) ==
  LET found == SelectSeq(c.locs, LAMBDA l : l[2] \in DOMAIN FileMap)
  IN  IF c.layer # <<>> \/ found = <<>> THEN c ELSE [c EXCEPT !.layer = FileMap[found[1][2]]]

looksSquashed(layers) == Len(layers) <= 2 /\ \E l \in ToSet(layers) : l.squashed

hasFullHistory(layers) == \A l \in ToSet(layers) : l.createdBy # ""

DetermineConfidence(build) ==
  IF build.provenance THEN "high"
  ELSE IF build.layers = <<>> THEN "none"
  ELSE IF build.runtime = "kaniko" \/ looksSquashed(build.layers) THEN "low"
  ELSE IF hasFullHistory(build.layers) THEN "medium" ELSE "low"

(* normalized is FALSE when the layers cannot be read: then the runtime is *)
(* recorded alone, and an older confidence stays.                          *)
stampRuntimeAndConfidence(props, normalized) ==
  LET runtime == SetProp(props, <<"runtime">>, IF ImageBuild.runtime = "" THEN "unknown" ELSE ImageBuild.runtime)
      why     == IF ImageBuild.evidence = "" THEN runtime
                 ELSE SetProp(runtime, <<"runtime", "evidence">>, ImageBuild.evidence)
  IN  IF normalized THEN SetProp(why, <<"attribution", "confidence">>, DetermineConfidence(ImageBuild)) ELSE why

AttributionEnrich(sbom, normalized) ==
  [sbom EXCEPT !.components = Walk(@, attributed),
               !.meta.props = stampRuntimeAndConfidence(@, normalized)]

=============================================================================
