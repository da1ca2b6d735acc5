------------------------------ MODULE Extractor -----------------------------
(***************************************************************************)
(* The extractor enricher (internal/enrich/extractor): dependencies found  *)
(* inside binaries become SubComponents of the component that lists the    *)
(* binary, and every SubComponent is then lifted to the top level with a   *)
(* depends-on edge from its parent.                                        *)
(***************************************************************************)
EXTENDS SBOM

CONSTANT
  Embedded       \* path -> what the extractor registry finds in the file:
                 \* a sequence of [name, ver, purl]; other paths yield nothing

normalizePath(path) == path[2]

(* attachExtractedDeps: not twice under one PURL. *)
attachExtractedDeps(c, deps) ==
  LET known(s) == {d.purl : d \in ToSet(s.subs)} \ {<<>>}
      add(s, dep) ==
        IF dep.name = "" \/ dep.purl \in known(s) THEN s
        ELSE [s EXCEPT !.subs =
                Append(@, [Component EXCEPT !.name = dep.name, !.ver = dep.ver, !.purl = dep.purl])]
      source == <<"extractor", "source">>
  IN  FoldLeft(add,
               [c EXCEPT !.props = IF Prop(@, source) = "" THEN SetProp(@, source, "binary") ELSE @],
               deps)

(* extractFromImage: the walk visits each file of the image once and       *)
(* attaches what it finds to all components, nested ones too, that list    *)
(* its path.                                                               *)
extractFromImage(components, files) ==
  LET visited(c) ==
        FoldLeft(LAMBDA d, f : IF f \in {normalizePath(l) : l \in ToSet(c.locs)} /\ f \in DOMAIN Embedded
                               THEN attachExtractedDeps(d, Embedded[f]) ELSE d,
                 c, files)
      nested(c) == LET d == visited(c) IN
                   [d EXCEPT !.subs = MapSeq(SubSeq(d.subs, 1, Len(c.subs)), visited)
                                        \o SubSeq(d.subs, Len(c.subs) + 1, Len(d.subs))]
  IN  MapSeq(components, nested)

-----------------------------------------------------------------------------
liftKey(c) == IF c.purl # <<>> THEN PURLText(c.purl)
              ELSE IF c.name = "" THEN "" ELSE c.name \o "@" \o c.ver

synthBOMRef(c) ==
  IF c.purl # <<>> THEN RefOf(PURLText(c.purl))
  ELSE IF c.name # "" THEN RefOf(c.name \o "@" \o (IF c.ver = "" THEN "unknown" ELSE c.ver))
  ELSE <<"extracted", "-">>

WithRef(c) == IF c.ref = NoRef THEN [c EXCEPT !.ref = synthBOMRef(c)] ELSE c

(* indexExistingByPURL: the first component of each key; every component   *)
(* without a reference gets one.                                           *)
indexExistingByPURL(components) ==
  LET keyed == SelectSeq(components, LAMBDA c : liftKey(c) # "")
      first(k) == (CHOOSE i \in DOMAIN keyed :
                     liftKey(keyed[i]) = k /\ \A j \in 1 .. i - 1 : liftKey(keyed[j]) # k)
  IN  [k \in {liftKey(c) : c \in ToSet(keyed)} |-> keyed[first(k)].ref]

buildLiftedComponent(sub, parent) ==
  [WithRef(sub) EXCEPT !.props = SetProp(@, <<"extractor", "embedded-in">>, parent.ref[1]), !.subs = <<>>]

(* One SubComponent of a parent: a new component unless its key is known,  *)
(* and one edge for each component it leads to.                            *)
LiftOne(st, sub, parent) ==
  LET key == liftKey(sub)
      new == buildLiftedComponent(sub, parent)
      ref == IF key \in DOMAIN st.index THEN st.index[key] ELSE new.ref
  IN  IF key = "" THEN st
      ELSE [components |-> IF key \in DOMAIN st.index THEN st.components ELSE Append(st.components, new),
            index |-> (key :> ref) @@ st.index,
            seen |-> st.seen \cup {ref},
            rels |-> IF ref \in st.seen THEN st.rels
                     ELSE Append(st.rels, Relationship(parent.ref, ref, "depends-on"))]

LiftParent(st, i) ==
  LET parent == st.components[i]
      bare   == [st EXCEPT !.components[i].subs = <<>>, !.seen = {}]
  IN  FoldLeft(LAMBDA s, sub : LiftOne(s, sub, parent), bare, parent.subs)

(* The range is fixed before the loop: what is lifted is not visited. *)
liftSubComponentsToTopLevel(sbom) ==
  LET comps == MapSeq(sbom.components, WithRef)
      st    == FoldLeft(LiftParent,
                        [components |-> comps, index |-> indexExistingByPURL(comps),
                         seen |-> {}, rels |-> sbom.rels],
                        [i \in DOMAIN comps |-> i])
  IN  [sbom EXCEPT !.components = st.components, !.rels = st.rels]

(* Enrich: files are those of the image in walk order; without an image,   *)
(* or when the walk fails, only the part visited so far is extracted.      *)
ExtractorEnrich(sbom, files) ==
  liftSubComponentsToTopLevel([sbom EXCEPT !.components = extractFromImage(@, files)])

=============================================================================
