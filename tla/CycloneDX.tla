----------------------------- MODULE CycloneDX ------------------------------
(***************************************************************************)
(* The CycloneDX mapper (internal/sbom/cyclonedx): the document written    *)
(* for a canonical SBOM and the SBOM read from a document.  Encoding and   *)
(* decoding as JSON or XML are the library's.                              *)
(***************************************************************************)
EXTENDS SBOM

LOCAL Spelling == [sha256 |-> "SHA-256", sha1 |-> "SHA-1", blake3 |-> "BLAKE3"]

(* Algorithm names: the canonical ones get the spelling of the standard,   *)
(* unknown ones pass; reading normalises both.                             *)
toCDXHashName(alg) == IF alg \in DOMAIN Spelling THEN Spelling[alg] ELSE alg

NormalizeHashAlgorithm(name) ==
  IF \E alg \in DOMAIN Spelling : Spelling[alg] = name
  THEN CHOOSE alg \in DOMAIN Spelling : Spelling[alg] = name
  ELSE Lower(name)

LayerProps(c) ==
  IF c.layer = <<>> THEN <<>>
  ELSE (<<"layer", "index">> :> ToString(c.layer[2]))
         @@ (IF c.layer[1] = "" THEN <<>> ELSE <<"layer", "digest">> :> c.layer[1])

OriginProps(c) == IF c.origin = "" THEN <<>> ELSE <<"origin">> :> c.origin

(* The CPEs after the first become numbered properties. *)
CPEOverflow(c) ==
  [key \in {<<"cpe", ToString(i - 1)>> : i \in 2 .. Len(c.cpes)} |->
     c.cpes[CHOOSE i \in 2 .. Len(c.cpes) : key = <<"cpe", ToString(i - 1)>>]]

astinusProperties(c) == OriginProps(c) @@ LayerProps(c) @@ CPEOverflow(c)

mergeProperties(base, extra) == extra @@ base

licensesToCDX(lics) == SelectSeq(lics, LAMBDA l : l[2] # <<>>)

evidenceToCDX(c) == [identity |-> c.method, occurrences |-> c.locs]

RECURSIVE componentToCDX(_)
componentToCDX(c) ==
  [ref |-> c.ref, type |-> c.type, name |-> c.name, ver |-> c.ver, purl |-> c.purl,
   supplier |-> c.supplier, desc |-> c.desc, author |-> c.author,
   cpe |-> IF c.cpes = <<>> THEN "" ELSE c.cpes[1],
   hashes |-> MapSeq(c.hashes, LAMBDA h : <<toCDXHashName(h[1]), h[2]>>),
   lics |-> licensesToCDX(c.lics),
   evidence |-> evidenceToCDX(c),
   components |-> MapSeq(c.subs, componentToCDX),
   properties |-> mergeProperties(c.props, astinusProperties(c))]

(* One entry per source in the order of their first edge; containment is   *)
(* not an edge of CycloneDX, but its source still gets an entry.           *)
relationshipsToCDX(rels) ==
  LET targets(from, type) ==
        MapSeq(SelectSeq(rels, LAMBDA r : r.from = from /\ r.type = type), LAMBDA r : r.to)
  IN  MapSeq(FirstOfEach(rels, LAMBDA r : r.from),
             LAMBDA r : [ref |-> r.from,
                         dependencies |-> targets(r.from, "depends-on"),
                         provides |-> targets(r.from, "provides")])

(* A tool becomes a component whose supplier is the vendor. *)
toolsToCDX(tools) == MapSeq(tools, LAMBDA t : [supplier |-> t.vendor, group |-> "", name |-> t.name])

metadataToCDX(meta) ==
  [properties |-> meta.props, authors |-> meta.authors, tools |-> toolsToCDX(meta.tools),
   component |-> MapSeq(meta.component, componentToCDX), timestamp |-> meta.timestamp]

toCDX(sbom) ==
  [metadata |-> metadataToCDX(sbom.meta), properties |-> sbom.props,
   components |-> MapSeq(sbom.components, componentToCDX),
   dependencies |-> relationshipsToCDX(sbom.rels)]

-----------------------------------------------------------------------------
LayerKeys == {<<"layer", "digest">>, <<"layer", "index">>}

Atoi(text) ==
  IF \E n \in 0 .. 9 : ToString(n) = text
  THEN CHOOSE n \in 0 .. 9 : ToString(n) = text ELSE 0

HydratedLayer(props) ==
  IF LayerKeys \cap DOMAIN props = {} THEN <<>>
  ELSE <<Prop(props, <<"layer", "digest">>), Atoi(Prop(props, <<"layer", "index">>))>>

(* Every astinus:cpe:* property is taken for an overflowed CPE, in the     *)
(* order of a map, which Go leaves open: of that order the model keeps     *)
(* which entry comes first.                                                *)
OverflowKeys(props, first) ==
  LET keys == PropsUnder(props, "cpe")
  IN  (IF first \in keys THEN <<first>> ELSE <<>>) \o SetToSeq(keys \ {first})

hydrateAstinusFields(c, first) ==
  LET overflow == OverflowKeys(c.props, first)
  IN  [c EXCEPT !.origin = IF HasProp(c.props, <<"origin">>) THEN c.props[<<"origin">>] ELSE @,
                !.layer = HydratedLayer(c.props),
                !.cpes = @ \o MapSeq(overflow, LAMBDA k : c.props[k]),
                !.props = DropProps(@, {<<"origin">>} \cup LayerKeys \cup ToSet(overflow))]

evidenceFromCDX(e) == [method |-> e.identity,
                       locs |-> SelectSeq(e.occurrences, LAMBDA l : l # <<"", "">>)]

licensesFromCDX(lics) == SelectSeq(lics, LAMBDA l : l[2] # <<>>)

RECURSIVE componentFromCDX(_, _)
componentFromCDX(c, first) ==
  LET e == evidenceFromCDX(c.evidence) IN
  hydrateAstinusFields(
    [Component EXCEPT
       !.ref = c.ref, !.type = c.type, !.name = c.name, !.ver = c.ver, !.purl = c.purl,
       !.supplier = c.supplier, !.desc = c.desc, !.author = c.author,
       !.cpes = IF c.cpe = "" THEN <<>> ELSE <<c.cpe>>,
       !.hashes = MapSeq(c.hashes, LAMBDA h : <<NormalizeHashAlgorithm(h[1]), h[2]>>),
       !.lics = licensesFromCDX(c.lics), !.method = e.method, !.locs = e.locs,
       !.subs = MapSeq(c.components, LAMBDA s : componentFromCDX(s, first)),
       !.props = c.properties], first)

relationshipsFromCDX(deps) ==
  Concat(MapSeq(deps, LAMBDA d :
    MapSeq(d.dependencies, LAMBDA t : Relationship(d.ref, t, "depends-on"))
      \o MapSeq(d.provides, LAMBDA t : Relationship(d.ref, t, "provides"))))

toolsFromCDX(tools) ==
  MapSeq(tools, LAMBDA t : Tool(IF t.supplier = "" THEN t.group ELSE t.supplier, t.name))

(* Authors without a name are skipped. *)
metadataFromCDX(metadata, first) ==
  [props |-> metadata.properties, authors |-> SelectSeq(metadata.authors, LAMBDA a : a # ""),
   tools |-> toolsFromCDX(metadata.tools),
   component |-> MapSeq(metadata.component, LAMBDA c : componentFromCDX(c, first)),
   timestamp |-> metadata.timestamp]

fromCDX(doc, first) ==
  [meta |-> metadataFromCDX(doc.metadata, first), props |-> doc.properties,
   components |-> MapSeq(doc.components, LAMBDA c : componentFromCDX(c, first)),
   rels |-> relationshipsFromCDX(doc.dependencies)]

=============================================================================
