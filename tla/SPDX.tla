-------------------------------- MODULE SPDX --------------------------------
(***************************************************************************)
(* The SPDX mapper (internal/sbom/spdx): a flat list of packages with      *)
(* relationships, nested components becoming CONTAINS edges, properties    *)
(* becoming annotations.  Encoding is the library's.                       *)
(***************************************************************************)
EXTENDS SBOM, CycloneDX

(* refToID replaces everything but letters, digits, "." and "-" by "-". *)
refToID(ref) == IF ref = NoRef THEN <<"Package", "">> ELSE <<ref[1], "-">>

pkgID(c) == IF c.ref # NoRef THEN refToID(c.ref)
            ELSE refToID(<<c.name \o "-" \o c.ver, "-">>)

SPDXAlgorithms == {"md5", "sha1", "sha256", "sha384", "sha512"}

checksumsFromHashes(hashes) == SelectSeq(hashes, LAMBDA h : h[1] \in SPDXAlgorithms)

(* All licences in one expression, joined with AND. *)
licenseExpression(lics) == Concat(MapSeq(lics, LAMBDA l : l[2]))

(* The PURL and every CPE are external references. *)
externalRefs(c) ==
  (IF c.purl = <<>> THEN <<>> ELSE <<[type |-> "purl", locator |-> c.purl]>>)
    \o MapSeq(c.cpes, LAMBDA cpe : [type |-> "cpe23Type", locator |-> <<cpe>>])

astinusComponentProps(c) == OriginProps(c) @@ LayerProps(c)

(* "key=value": a property with an empty key is not read back. *)
annotationsForComponent(c) == mergeProperties(c.props, astinusComponentProps(c))

componentToPackage(c) ==
  [id |-> pkgID(c), name |-> c.name, ver |-> c.ver, supplier |-> c.supplier, desc |-> c.desc,
   checksums |-> checksumsFromHashes(c.hashes), license |-> licenseExpression(c.lics),
   refs |-> externalRefs(c), annotations |-> annotationsForComponent(c)]

(* emitComponent, depth first: the packages of a component's tree, and its *)
(* CONTAINS edges, those of a child before the edge to the child.          *)
RECURSIVE EmittedPackages(_)
EmittedPackages(c) == <<componentToPackage(c)>> \o Concat(MapSeq(c.subs, EmittedPackages))

RECURSIVE EmittedEdges(_)
EmittedEdges(c) ==
  Concat(MapSeq(c.subs, LAMBDA s : Append(EmittedEdges(s), Relationship(pkgID(c), pkgID(s), "CONTAINS"))))

LOCAL SPDXTypes == ("depends-on" :> "DEPENDS_ON") @@ ("provides" :> "DEPENDENCY_OF") @@ ("contains" :> "CONTAINS")

canonicalToSPDXRelType(type) == IF type \in DOMAIN SPDXTypes THEN SPDXTypes[type] ELSE ""

spdxRelTypeToCanonical(type) ==
  IF \E t \in DOMAIN SPDXTypes : SPDXTypes[t] = type
  THEN CHOOSE t \in DOMAIN SPDXTypes : SPDXTypes[t] = type ELSE "unknown"

DocumentID == <<"DOCUMENT", "">>

(* Of the document's own data only sbom.Properties and the name of the     *)
(* metadata component are written; the tool is always astinus.             *)
docName(sbom) == IF sbom.meta.component # <<>> /\ sbom.meta.component[1].name # ""
                 THEN sbom.meta.component[1].name ELSE "astinus-sbom"

creationInfo == <<[type |-> "Tool", name |-> "astinus"]>>

toSPDX(sbom) ==
  LET rels == SelectSeq(sbom.rels, LAMBDA r : canonicalToSPDXRelType(r.type) # "") IN
  [name |-> docName(sbom), creators |-> creationInfo, annotations |-> sbom.props,
   packages |-> Concat(MapSeq(sbom.components, EmittedPackages)),
   rels |-> Concat(MapSeq(sbom.components, EmittedEdges))
             \o MapSeq(sbom.components, LAMBDA c : Relationship(DocumentID, pkgID(c), "DESCRIBES"))
             \o MapSeq(rels, LAMBDA r : Relationship(refToID(r.from), refToID(r.to),
                                                     canonicalToSPDXRelType(r.type)))]

-----------------------------------------------------------------------------
(* SPDX has no place for overflowed CPEs in properties, so none is taken   *)
(* from there.                                                             *)
spdxHydrate(c) ==
  [c EXCEPT !.origin = Prop(c.props, <<"origin">>), !.layer = HydratedLayer(c.props),
            !.props = DropProps(@, {<<"origin">>} \cup LayerKeys)]

packageToComponent(p) ==
  LET locators(type) == MapSeq(SelectSeq(p.refs, LAMBDA r : r.type = type), LAMBDA r : r.locator)
      purls == locators("purl")
  IN  spdxHydrate(
        [Component EXCEPT
           !.ref = p.id, !.name = p.name, !.ver = p.ver, !.supplier = p.supplier, !.desc = p.desc,
           !.hashes = p.checksums,
           !.lics = IF p.license \in {<<>>, <<"NOASSERTION">>} THEN <<>>
                    ELSE <<<<"expression", p.license>>>>,
           !.purl = IF purls = <<>> THEN <<>> ELSE Last(purls),
           !.cpes = Concat(locators("cpe23Type")),
           !.props = p.annotations])

(* hydrateRelationships: each CONTAINS edge copies the child, as it is at  *)
(* that point, into the parent; what became a child leaves the top level.  *)
(* Of packages with one identifier the last is found.                      *)
Contained(st, r) ==
  LET at(id) == {i \in DOMAIN st.components : st.components[i].ref = id}
      lastAt(id) == CHOOSE i \in at(id) : \A j \in at(id) : j <= i
  IN  IF r.type = "DESCRIBES" THEN st
      ELSE IF r.type = "CONTAINS" /\ at(r.from) # {} /\ at(r.to) # {}
      THEN [st EXCEPT !.components[lastAt(r.from)].subs = Append(@, st.components[lastAt(r.to)]),
                      !.consumed = @ \cup {r.to}]
      ELSE [st EXCEPT !.rels = Append(@, Relationship(r.from, r.to, spdxRelTypeToCanonical(r.type)))]

hydrateRelationships(components, rels) ==
  LET st == FoldLeft(Contained, [components |-> components, consumed |-> {}, rels |-> <<>>], rels)
  IN  [components |-> SelectSeq(st.components, LAMBDA c : c.ref \notin st.consumed), rels |-> st.rels]

(* The document's annotations become the SBOM's properties and, once more, *)
(* the metadata's.                                                         *)
metadataFromDoc(doc) ==
  LET of(types) == SelectSeq(doc.creators, LAMBDA c : c.type \in types) IN
  [props |-> doc.annotations, component |-> <<>>, timestamp |-> TRUE,
   authors |-> MapSeq(of({"Person", "Organization"}), LAMBDA c : c.name),
   tools |-> MapSeq(of({"Tool"}), LAMBDA c : Tool("", c.name))]

fromSPDX(doc) ==
  LET read == hydrateRelationships(MapSeq(doc.packages, packageToComponent), doc.rels)
  IN  [meta |-> metadataFromDoc(doc), props |-> doc.annotations,
       components |-> read.components, rels |-> read.rels]

=============================================================================
