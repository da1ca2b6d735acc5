------------------------------ MODULE BaseDiff ------------------------------
(***************************************************************************)
(* The basediff enricher (internal/enrich/basediff, internal/image/layer/  *)
(* diff.go): which components come from the base image.  Three strategies  *)
(* in turn: the contents of the files, the layers or paths of the base,    *)
(* and, when the base cannot be had, a guess from its digest label.        *)
(***************************************************************************)
EXTENDS SBOM

CONSTANTS
  Target,        \* [layers, files, labels]: layer digests, path -> content, labels
  BaseImage      \* [layers, files] of the image the labels or the flag name

Keyed(props) == {k \in DOMAIN props : Len(k) = 4 /\ k[1] = "syft:location" /\ k[4] = "path"}

(* Evidence locations and the syft:location:N:path properties. *)
pathsForComponent(c) ==
  {l[2] : l \in ToSet(c.locs)} \cup {c.props[k] : k \in {k \in Keyed(c.props) : c.props[k] # ""}}

firstNonEmpty(labels, keys) ==
  LET found == SelectSeq(keys, LAMBDA k : k \in DOMAIN labels /\ labels[k] # "")
  IN  IF found = <<>> THEN "" ELSE labels[found[1]]

autoLabels == <<"base.name", "base.ref.name">>
digestLabels == <<"base.digest">>

detectFromLabels(labels) == firstNonEmpty(labels, autoLabels)

(* resolveBaseRef: the flag, or the labels; "" when there is no base. *)
resolveBaseRef(mode, reference) ==
  IF mode = "explicit" THEN reference ELSE detectFromLabels(Target.labels)

-----------------------------------------------------------------------------
(* Content strategy: the contents of the base under their hash, each with  *)
(* a path it was found at, and the paths of the base.                      *)
BuildBaseSet == [exact |-> {BaseImage.files[p] : p \in DOMAIN BaseImage.files},
                 basePaths |-> DOMAIN BaseImage.files]

ScanTarget == Target.files

classifyComponent(c, base, target) ==
  LET paths == pathsForComponent(c)
      hits  == {p \in paths : p \in DOMAIN target /\ target[p] \in base.exact}
      matched(p) == CHOOSE q \in base.basePaths : BaseImage.files[q] = target[p]
  IN  IF paths = {} THEN [c EXCEPT !.origin = "unknown"]
      ELSE IF hits # {}
      THEN [c EXCEPT !.origin = "base",
                     !.props = SetProp(@, <<"basediff", "matched-base-path">>, matched(CHOOSE p \in hits : TRUE))]
      ELSE IF paths \cap base.basePaths # {}
      THEN [c EXCEPT !.origin = "base", !.props = SetProp(@, <<"basediff", "state">>, "modified")]
      ELSE [c EXCEPT !.origin = "app"]

runContentStrategy(components) ==
  Walk(components, LAMBDA c : classifyComponent(c, BuildBaseSet, ScanTarget))

-----------------------------------------------------------------------------
(* Layer and path strategy. *)
layerPrefix(target, base) == Len(base) <= Len(target) /\ SubSeq(target, 1, Len(base)) = base

ComputeDiff ==
  IF layerPrefix(Target.layers, BaseImage.layers)
  THEN [mode |-> "prefix", prefix |-> Len(BaseImage.layers), paths |-> {}]
  ELSE [mode |-> "fallback", prefix |-> 0, paths |-> DOMAIN BaseImage.files]

IsBaseLayer(diff, index) == diff.mode = "prefix" /\ index < diff.prefix

originFor(c, diff) ==
  IF diff.mode = "prefix"
  THEN IF c.layer = <<>> THEN "unknown"
       ELSE IF IsBaseLayer(diff, c.layer[2]) THEN "base" ELSE "app"
  ELSE IF pathsForComponent(c) \cap diff.paths # {} THEN "base" ELSE "app"

stampOrigin(components, diff) == Walk(components, LAMBDA c : [c EXCEPT !.origin = originFor(c, diff)])

(* Only components without an origin: one read from the input stays. *)
stampUnknown(components) ==
  Walk(components, LAMBDA c : [c EXCEPT !.origin = IF @ = "" THEN "unknown" ELSE @])

(* The base is named by digest but cannot be opened: all layers but the    *)
(* last count as the base's, with low confidence.                          *)
handleBaseUnreachable(components) ==
  IF firstNonEmpty(Target.labels, digestLabels) = "" \/ Len(Target.layers) < 2
  THEN stampUnknown(components)
  ELSE LET diff == [mode |-> "prefix", prefix |-> Len(Target.layers) - 1, paths |-> {}] IN
       Walk(components, LAMBDA c : [c EXCEPT !.origin = originFor(c, diff),
                                             !.props = SetProp(@, <<"basediff", "confidence">>, "low")])

-----------------------------------------------------------------------------
Outcomes == {"scanned", "scan fails", "diff fails", "unreachable"}

(* Enrich: the components after each strategy, and the strategy's name. *)
BasediffEnrich(sbom, mode, reference, outcome) ==
  LET strategy(name, components) ==
        [sbom EXCEPT !.components = components,
                     !.meta.props = SetProp(@, <<"basediff", "strategy">>, name)]
  IN  IF mode = "none" THEN sbom
      ELSE IF resolveBaseRef(mode, reference) = ""
      THEN strategy("unavailable", stampUnknown(sbom.components))
      ELSE IF outcome = "unreachable"
      THEN strategy("unavailable", handleBaseUnreachable(sbom.components))
      ELSE IF outcome = "scanned" THEN strategy("content", runContentStrategy(sbom.components))
      ELSE IF outcome = "diff fails" THEN strategy("unavailable", stampUnknown(sbom.components))
      ELSE strategy("path-fallback", stampOrigin(sbom.components, ComputeDiff))

=============================================================================
