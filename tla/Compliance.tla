----------------------------- MODULE Compliance -----------------------------
(***************************************************************************)
(* The compliance enricher (internal/enrich/compliance), its validators    *)
(* and the severity policy (internal/policy/builtin/compliance): findings  *)
(* about an SBOM and the stamps they leave.                                *)
(***************************************************************************)
EXTENDS SBOM, Integers

CONSTANTS
  Ecosystem(_),  \* the type of a PURL's name, lower case
  Overrides,     \* the entries of --compliance-config: [rule, type, eco, severity]
  LargeSBOM      \* from how many components on an SBOM should have relationships

ASSUME ComplianceAssumption == LargeSBOM \in Nat \ {0}

Ignored == -1
Info == 0
Low == 1
Medium == 2
High == 3
Critical == 4

SeverityName == (Ignored :> "ignored") @@ (Info :> "info") @@ (Low :> "low") @@ (Medium :> "medium")
                  @@ (High :> "high") @@ (Critical :> "critical")

AtLeast(severity, floor) == severity >= floor

(* The empty name is info; an unknown one fails the configuration. *)
ParseSeverity(name) ==
  IF name = "" THEN Info ELSE CHOOSE s \in Ignored .. Critical : SeverityName[s] = name

Finding(rule, severity, ref) == [rule |-> rule, severity |-> severity, component |-> ref]

If(condition, findings) == IF condition THEN findings ELSE <<>>

-----------------------------------------------------------------------------
(* Validators.  A file is skipped with all it contains by two of them. *)
RECURSIVE NotFiles(_)
NotFiles(components) ==
  Concat(MapSeq(components, LAMBDA c : IF c.type = "file" THEN <<>> ELSE <<c>> \o NotFiles(c.subs)))

Each(components, Check(_)) == Concat(MapSeq(components, Check))

hasSBOMAuthor(meta) == meta.authors # <<>> \/ \E t \in ToSet(meta.tools) : t.name # ""

NTIAMetadata(sbom) ==
  If(~hasSBOMAuthor(sbom.meta), <<Finding("NTIA-METADATA-AUTHOR", High, NoRef)>>)
    \o If(~sbom.meta.timestamp, <<Finding("NTIA-METADATA-TIMESTAMP", High, NoRef)>>)

checkComponent(c) ==
  If(c.name = "", <<Finding("NTIA-NAME", Critical, c.ref)>>)
    \o If(c.ver = "", <<Finding("NTIA-VERSION", High, c.ref)>>)
    \o If(c.supplier = "" /\ c.author = "", <<Finding("NTIA-SUPPLIER", Medium, c.ref)>>)
    \o If(c.purl = <<>> /\ c.cpes = <<>>, <<Finding("NTIA-IDENTIFIER", Medium, c.ref)>>)

NTIARelationships(sbom) ==
  If(Len(sbom.components) >= LargeSBOM /\ sbom.rels = <<>>, <<Finding("NTIA-RELATIONSHIPS", Medium, NoRef)>>)

NTIA(sbom) == NTIAMetadata(sbom) \o Each(NotFiles(sbom.components), checkComponent) \o NTIARelationships(sbom)

(* Any disclosure reference, or a CPE that one of the two services alone   *)
(* vouches for.                                                            *)
sbomHasVulnerabilityHandling(sbom) ==
  \E c \in ToSet(Flat(sbom.components)) :
    \/ Prop(c.props, <<"references", "vuln-disclosure">>) # ""
    \/ Prop(c.props, <<"cpe", "source">>) \in {"nvd-api", "clearly-defined"}

isMajorFramework(c) ==
  /\ c.purl # <<>> /\ c.type \in {"framework", "application"}
  /\ Ecosystem(c.purl[1]) \in {"maven", "helm", "pypi", "npm"}

EUCRA(sbom) ==
  If(~sbomHasVulnerabilityHandling(sbom), <<Finding("EU-CRA-ART13-VULN-HANDLING", Medium, NoRef)>>)
    \o Each(NotFiles(sbom.components), LAMBDA c :
         If(isMajorFramework(c) /\ c.lics = <<>>, <<Finding("EU-CRA-ART13-LICENSE", Low, c.ref)>>))

isRecognisedComponentType(type) ==
  type \in {"application", "container", "device", "file", "firmware", "framework", "library",
            "operating-system", "platform", "unknown"}

CDXDuplicates(components) ==
  LET all == SelectSeq(Flat(components), LAMBDA c : c.ref # NoRef)
      again(i) == \E j \in 1 .. i - 1 : all[j].ref = all[i].ref
  IN  MapSeq(SelectSeq([i \in DOMAIN all |-> i], again), LAMBDA i : Finding("CDX-BOMREF-DUPLICATE", High, all[i].ref))

CycloneDXStructural(sbom) ==
  If(sbom.components = <<>>, <<Finding("CDX-EMPTY-COMPONENTS", High, NoRef)>>)
    \o Each(Flat(sbom.components), LAMBDA c :
         If(c.name = "", <<Finding("CDX-COMPONENT-NAME-MISSING", Critical, c.ref)>>)
           \o If(~isRecognisedComponentType(c.type), <<Finding("CDX-COMPONENT-TYPE-INVALID", High, c.ref)>>))
    \o CDXDuplicates(sbom.components)

SPDXStructural(sbom) ==
  If(sbom.components = <<>>, <<Finding("SPDX-EMPTY-PACKAGES", High, NoRef)>>)
    \o Each(Flat(sbom.components), LAMBDA c :
         If(c.name = "", <<Finding("SPDX-PACKAGE-NAME-MISSING", Critical, c.ref)>>)
           \o If(c.purl = <<>>, <<Finding("SPDX-DOWNLOAD-LOCATION-NOASSERTION", Low, c.ref)>>)
           \o If(c.lics = <<>>, <<Finding("SPDX-LICENSE-NOASSERTION", Low, c.ref)>>))

Validators == <<"ntia", "eu-cra", "cyclonedx-structural", "spdx-structural">>

Validate(validator, sbom) ==
  CASE validator = "ntia" -> NTIA(sbom)
    [] validator = "eu-cra" -> EUCRA(sbom)
    [] validator = "cyclonedx-structural" -> CycloneDXStructural(sbom)
    [] validator = "spdx-structural" -> SPDXStructural(sbom)

-----------------------------------------------------------------------------
(* The severity policy: rules in order, "" matching every type or          *)
(* ecosystem, the last that matches deciding.                              *)
Rule(rule, type, eco, severity) == [rule |-> rule, type |-> type, eco |-> eco, severity |-> severity]

ntiaSupplierRules ==
  LET id == "NTIA-SUPPLIER"
      for(severity, ecosystems) == MapSeq(ecosystems, LAMBDA e : Rule(id, "", e, severity))
  IN  <<Rule(id, "", "", Medium), Rule(id, "file", "", Ignored)>>
        \o for(Info, <<"npm", "pypi", "deb", "rpm", "apk">>)
        \o for(Low, <<"maven", "cargo", "gem", "nuget">>)
        \o for(Medium, <<"golang">>) \o <<Rule(id, "application", "", High)>>

ntiaVersionRules ==
  <<Rule("NTIA-VERSION", "", "", High), Rule("NTIA-VERSION", "file", "", Ignored),
    Rule("NTIA-VERSION", "application", "", Critical)>>

ntiaIdentifierRules == <<Rule("NTIA-IDENTIFIER", "", "", High), Rule("NTIA-IDENTIFIER", "file", "", Ignored)>>

ntiaMiscRules ==
  <<Rule("NTIA-NAME", "", "", Critical), Rule("NTIA-METADATA-AUTHOR", "", "", High),
    Rule("NTIA-METADATA-TIMESTAMP", "", "", High), Rule("NTIA-RELATIONSHIPS", "", "", Medium)>>

spdxRules ==
  <<Rule("SPDX-LICENSE-NOASSERTION", "", "", Low), Rule("SPDX-LICENSE-NOASSERTION", "file", "", Ignored),
    Rule("SPDX-DOWNLOAD-LOCATION-NOASSERTION", "", "", Low),
    Rule("SPDX-DOWNLOAD-LOCATION-NOASSERTION", "file", "", Ignored),
    Rule("SPDX-PACKAGE-NAME-MISSING", "", "", Critical), Rule("SPDX-EMPTY-PACKAGES", "", "", High)>>

euCRARules ==
  <<Rule("EU-CRA-ART13-VULN-HANDLING", "", "", Medium), Rule("EU-CRA-ART13-LICENSE", "", "", Low),
    Rule("EU-CRA-ART13-LICENSE", "file", "", Ignored)>>

defaultRules == ntiaSupplierRules \o ntiaVersionRules \o ntiaIdentifierRules \o ntiaMiscRules
                  \o spdxRules \o euCRARules

convertOverrides(entries) == MapSeq(entries, LAMBDA o : Rule(o.rule, o.type, o.eco, ParseSeverity(o.severity)))

WithOverrides(rules) == rules \o convertOverrides(Overrides)

(* findComponentByBOMRef; << >> for a finding about the whole SBOM. *)
componentForFinding(sbom, f) ==
  LET found == SelectSeq(Flat(sbom.components), LAMBDA c : c.ref = f.component)
  IN  IF f.component = NoRef \/ found = <<>> THEN <<>> ELSE <<found[1]>>

(* The type and ecosystem a rule is matched against. *)
componentContext(component) ==
  IF component = <<>> THEN <<"", "">>
  ELSE <<component[1].type, IF component[1].purl = <<>> THEN "" ELSE Ecosystem(component[1].purl[1])>>

(* << >> when no rule matches and the finding keeps its severity. *)
Severity(rules, rule, component) ==
  LET context == componentContext(component)
      matching == SelectSeq(rules, LAMBDA r :
                    r.rule = rule /\ r.type \in {"", context[1]} /\ r.eco \in {"", context[2]})
  IN  IF matching = <<>> THEN <<>> ELSE <<Last(matching).severity>>

applyPolicy(rules, sbom, raw) ==
  LET judged(f) == LET s == Severity(rules, f.rule, componentForFinding(sbom, f))
                   IN  IF s = <<>> THEN f ELSE [f EXCEPT !.severity = s[1]]
  IN  SelectSeq(MapSeq(raw, judged), LAMBDA f : f.severity # Ignored)

-----------------------------------------------------------------------------
statusFor(findings) ==
  IF findings = <<>> THEN "passed"
  ELSE IF \E f \in ToSet(findings) : AtLeast(f.severity, High) THEN "failed" ELSE "passed-with-warnings"

countSeverity(findings, severity) == Len(SelectSeq(findings, LAMBDA f : f.severity = severity))

countActionable(findings) == Len(SelectSeq(findings, LAMBDA f : AtLeast(f.severity, Medium)))

CountKey(name) == <<"compliance", name \o "-count">>

stampMetadata(props, statuses, findings) ==
  [key \in {<<"compliance", v, "status">> : v \in DOMAIN statuses} |-> statuses[key[2]]]
    @@ (CountKey("findings") :> ToString(Len(findings)))
    @@ (CountKey("actionable") :> ToString(countActionable(findings)))
    @@ [key \in {CountKey(SeverityName[s]) : s \in Info .. Critical} |->
          ToString(countSeverity(findings, CHOOSE s \in Info .. Critical : CountKey(SeverityName[s]) = key))]
    @@ props

(* stampPerComponent: on the first component of the reference.  Stamps of  *)
(* an earlier run stay.                                                    *)
StampOne(components, f) ==
  LET first == SelectSeq([i \in DOMAIN components |-> i],
                 LAMBDA i : f.component \in {c.ref : c \in ToSet(Flat(<<components[i]>>))})
      stamp(c) == [c EXCEPT !.props = SetProp(@, <<"compliance", "finding", f.rule>>, SeverityName[f.severity])]
      nested(c) == [c EXCEPT !.subs = MapSeq(@, LAMBDA d : IF d.ref = f.component THEN stamp(d) ELSE d)]
  IN  IF f.component = NoRef \/ first = <<>> THEN components
      ELSE [components EXCEPT ![first[1]] = IF @.ref = f.component THEN stamp(@) ELSE nested(@)]

stampPerComponent(components, findings) == FoldLeft(StampOne, components, findings)

(* Enrich: no validator of this set returns an error. *)
ComplianceEnrich(sbom) ==
  LET judged(v) == applyPolicy(WithOverrides(defaultRules), sbom, Validate(v, sbom))
      all       == Concat(MapSeq(Validators, judged))
      statuses  == [v \in ToSet(Validators) |-> statusFor(judged(v))]
  IN  [sbom EXCEPT !.meta.props = stampMetadata(@, statuses, all),
                   !.components = stampPerComponent(@, all)]

=============================================================================
