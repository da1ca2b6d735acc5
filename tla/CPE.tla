--------------------------------- MODULE CPE --------------------------------
(***************************************************************************)
(* The CPE enricher (internal/enrich/cpe) and its sources: the candidates  *)
(* for a PURL from two dictionaries, two services and a guess, ranked by   *)
(* confidence into a primary, alternatives and rejected ones.              *)
(*                                                                         *)
(* A CPE is its text; a confidence is in hundredths.                       *)
(***************************************************************************)
EXTENDS SBOM

CONSTANTS
  PURLParts,       \* PURL name -> [type, ns, name]; other PURLs do not parse
  CPEParts,        \* valid CPE text -> [part, vendor, product, version]
  BundledIndex,    \* [type, ns, name], lower case -> [vendor, product]
  LocalFiles,      \* the offline database: a sequence of [index, key, entry, ok]
  NVDIndex,        \* keyword -> the CPE texts of the page the NVD answers
  Definitions,     \* [type, ns, name, version] -> the CPE texts ClearlyDefined lists
  Normal(_),       \* dashes and dots become underscores
  Within(_, _),    \* Within(s, t): t occurs in s
  LastSegment(_),  \* what follows the last "/" or "."
  IncludeRejected  \* --include-rejected-cpe

ASSUME CPEAssumption == IncludeRejected \in BOOLEAN

ConfidenceHigh == 95
ConfidenceMedium == 70
ConfidenceReject == 5
PrimaryMin == 70
AlternativeMin == 50

Candidate(cpe, source, confidence) == [cpe |-> cpe, source |-> source, confidence |-> confidence]

-----------------------------------------------------------------------------
(* CPE 2.3 and PURLs. *)
IsValidCPE(cpe) == cpe \in DOMAIN CPEParts

orStar(text) == IF text = "" THEN "*" ELSE text

Build(vendor, product, version) ==
  "cpe:a:" \o orStar(Lower(vendor)) \o ":" \o orStar(Lower(product)) \o ":" \o orStar(version)

(* The qualifiers are parsed off: they are no part of what is looked up. *)
ParsePURL(purl) ==
  [type |-> PURLParts[purl[1]].type, ns |-> PURLParts[purl[1]].ns,
   name |-> PURLParts[purl[1]].name, version |-> purl[2]]

Parses(purl) == purl[1] \in DOMAIN PURLParts

-----------------------------------------------------------------------------
(* The sources. *)
bundledKey(type, ns, name) == <<Lower(type), Lower(ns), Lower(name)>>

BundledResolve(p) ==
  LET key == bundledKey(p.type, p.ns, p.name) IN
  IF key \notin DOMAIN BundledIndex THEN <<>>
  ELSE <<Candidate(Build(BundledIndex[key].vendor, BundledIndex[key].product, p.version),
                   "bundled", ConfidenceHigh)>>

(* LoadFromDir: unreadable files are skipped; of two files with one key    *)
(* the one walked last stays.                                              *)
LoadFromDir(index) ==
  LET files == SelectSeq(LocalFiles, LAMBDA f : f.index = index /\ f.ok)
  IN  FoldLeft(LAMBDA acc, f : (f.key :> f.entry) @@ acc, <<>>, files)

LocalResolve(p) ==
  LET byPurl == LoadFromDir("by-purl")
      byName == LoadFromDir("by-name")
      whole  == <<p.type, p.ns, p.name, p.version>>
      short  == <<Lower(p.type), Lower(p.name)>>
      hit(e) == <<Candidate(Build(e.vendor, e.product, p.version), "local-dictionary", ConfidenceHigh)>>
  IN  IF whole \in DOMAIN byPurl THEN hit(byPurl[whole])
      ELSE IF short \in DOMAIN byName THEN hit(byName[short])
      ELSE <<>>

guessVendorProduct(p) ==
  CASE p.type = "pypi" -> <<p.name \o "_project", p.name>>
    [] p.type \in {"maven", "golang"} /\ p.ns # "" -> <<LastSegment(p.ns), p.name>>
    [] OTHER -> <<p.name, p.name>>

HeuristicResolve(p) ==
  LET guess == guessVendorProduct(p)
  IN  <<Candidate(Build(guess[1], guess[2], p.version), "heuristic", ConfidenceMedium)>>

(* The score of an entry of the NVD's answer: vendor, product, version. *)
vendorMatchExact(v, ns, nm) ==
  IF (ns # "" /\ v = ns) \/ v = nm THEN 50
  ELSE IF (ns # "" /\ Normal(v) = Normal(ns)) \/ Normal(v) = Normal(nm) THEN 40 ELSE 0

vendorMatchSubstring(v, ns, nm) ==
  IF \/ ns # "" /\ (Within(v, ns) \/ Within(ns, v))
     \/ Within(v, nm) \/ Within(nm, v)
  THEN 10 ELSE 0

scoreVendor(vendor, ns, name) ==
  LET exact == vendorMatchExact(Lower(vendor), Lower(ns), Lower(name)) IN
  IF vendor = "" THEN 0
  ELSE IF exact > 0 THEN exact
  ELSE vendorMatchSubstring(Lower(vendor), Lower(ns), Lower(name))

scoreProduct(product, name, ns) ==
  LET p == Lower(product) nm == Lower(name) IN
  IF p = "" THEN 0
  ELSE IF p = nm THEN 40
  ELSE IF Normal(p) = Normal(nm) THEN 30
  ELSE IF ns # "" /\ p = LastSegment(Lower(ns)) THEN 20
  ELSE IF Within(p, nm) \/ Within(nm, p) THEN 10 ELSE 0

Wildcards == {"*", "-", ""}

scoreVersion(cpeVersion, version) ==
  IF version = "" THEN 5
  ELSE IF cpeVersion = version THEN 20
  ELSE IF cpeVersion \in Wildcards THEN 10 ELSE 0

cpeVersionCompatible(cpeVersion, version) == cpeVersion \in Wildcards \/ cpeVersion = version

scoreNVDMatch(p, parsed) ==
  LET sum == scoreVendor(parsed.vendor, p.ns, p.name) + scoreProduct(parsed.product, p.name, p.ns)
               + scoreVersion(parsed.version, p.version)
  IN  IF parsed.part = "h" THEN ConfidenceReject ELSE IF sum > 100 THEN 100 ELSE sum

candidatesFromNVDPage(page, p) ==
  LET eligible(cpe) == IsValidCPE(cpe) /\ (p.version = "" \/ cpeVersionCompatible(CPEParts[cpe].version, p.version))
  IN  MapSeq(SelectSeq(page, eligible), LAMBDA cpe : Candidate(cpe, "nvd-api", scoreNVDMatch(p, CPEParts[cpe])))

NVDMatch(p) == candidatesFromNVDPage(IF p.name \in DOMAIN NVDIndex THEN NVDIndex[p.name] ELSE <<>>, p)

(* Types without coordinates are not asked about. *)
purlToCDCoordinates(p) ==
  p.version # "" /\ (\/ p.type \in {"npm", "pypi", "nuget", "gem", "cargo"}
                     \/ p.type \in {"maven", "golang"} /\ p.ns # "")

ClearlyDefinedMatch(p) ==
  IF purlToCDCoordinates(p) /\ p \in DOMAIN Definitions
  THEN MapSeq(SelectSeq(Definitions[p], IsValidCPE), LAMBDA cpe : Candidate(cpe, "clearly-defined", ConfidenceHigh))
  ELSE <<>>

(* The sources with their priority and whether they need the network. *)
Source(name, priority, network) == [name |-> name, priority |-> priority, network |-> network]

AllSources == <<Source("bundled", 100, FALSE), Source("local-dictionary", 90, FALSE),
                Source("nvd-api", 80, TRUE), Source("clearly-defined", 70, TRUE),
                Source("heuristic", 50, FALSE)>>

Match(source, p) ==
  CASE source.name = "bundled" -> BundledResolve(p)
    [] source.name = "local-dictionary" -> LocalResolve(p)
    [] source.name = "nvd-api" -> NVDMatch(p)
    [] source.name = "clearly-defined" -> ClearlyDefinedMatch(p)
    [] source.name = "heuristic" -> HeuristicResolve(p)

(* NewMultiSource: offline mode drops the sources that need the network. *)
NewMultiSource(sources, mode) ==
  SortSeq(SelectSeq(sources, LAMBDA s : ~(mode = "offline" /\ s.network)),
          LAMBDA a, b : a.priority > b.priority)

hasHighConfidence(cands) == \E c \in ToSet(cands) : c.confidence >= PrimaryMin

(* resolveCtx without its cache: the network sources in down fail. *)
resolve(p, sources, mode, down) ==
  LET ask(acc, s) ==
        LET skipped == mode = "hybrid" /\ acc.high /\ s.network
            cands   == IF skipped \/ (s.network /\ s.name \in down) THEN <<>> ELSE Match(s, p)
        IN  [all |-> acc.all \o cands, high |-> acc.high \/ (~s.network /\ hasHighConfidence(cands))]
  IN  FoldLeft(ask, [all |-> <<>>, high |-> FALSE], NewMultiSource(sources, mode)).all

-----------------------------------------------------------------------------
(* Ranking. *)
\* Faulty variants: only the first CPE of the input is a candidate; a malformed
\* one is as good as a well-formed one.
candidateFromFirstCPE(cpes) ==
  MapSeq(SubSeq(cpes, 1, IF cpes = <<>> THEN 0 ELSE 1), LAMBDA cpe :
    Candidate(cpe, "input", IF IsValidCPE(cpe) THEN ConfidenceMedium ELSE ConfidenceReject))

candidatesUnchecked(cpes) == MapSeq(cpes, LAMBDA cpe : Candidate(cpe, "input", ConfidenceMedium))

candidatesFromExistingCPEs(cpes) ==
  MapSeq(cpes, LAMBDA cpe : Candidate(cpe, "input", IF IsValidCPE(cpe) THEN ConfidenceMedium ELSE ConfidenceReject))

(* Sources that agree are joined in the order of their names. *)
mergeSources(names) ==
  LET known  == <<"bundled", "clearly-defined", "heuristic", "input", "local-dictionary", "nvd-api">>
      sorted == SelectSeq(known, LAMBDA s : s \in names)
  IN  FoldLeft(LAMBDA acc, s : IF acc = "" THEN s ELSE acc \o "+" \o s, "", sorted)

DedupeCandidates(cands) ==
  LET same(c) == SelectSeq(cands, LAMBDA d : d.cpe = c.cpe)
      best(c) == LET s == same(c) IN
                 s[CHOOSE i \in DOMAIN s : \A j \in DOMAIN s :
                     s[i].confidence > s[j].confidence \/ (s[i].confidence = s[j].confidence /\ i <= j)]
  IN  MapSeq(FirstOfEach(cands, LAMBDA c : c.cpe),
             LAMBDA c : [best(c) EXCEPT !.source = mergeSources({d.source : d \in ToSet(same(c))})])

(* Stable, by confidence: the first may be the primary. *)
Classify(cands) ==
  LET sorted == SortSeq([i \in DOMAIN cands |-> i],
                        LAMBDA i, j : \/ cands[i].confidence > cands[j].confidence
                                      \/ cands[i].confidence = cands[j].confidence /\ i < j)
      ranked == MapSeq(sorted, LAMBDA i : cands[i])
      primary == IF ranked # <<>> /\ ranked[1].confidence >= PrimaryMin THEN <<ranked[1]>> ELSE <<>>
      rest == SubSeq(ranked, Len(primary) + 1, Len(ranked))
  IN  [primary |-> primary,
       alts |-> SelectSeq(rest, LAMBDA c : c.confidence >= AlternativeMin),
       rejected |-> SelectSeq(rest, LAMBDA c : c.confidence < AlternativeMin)]

-----------------------------------------------------------------------------
(* The enricher. *)
formatConfidence(confidence) == ToString(confidence)

setValidationStamps(props, original) ==
  LET good == \E cpe \in ToSet(original) : IsValidCPE(cpe)
      bad  == \E cpe \in ToSet(original) : ~IsValidCPE(cpe)
  IN  IF original = <<>> THEN props
      ELSE IF ~bad THEN SetProp(props, <<"cpe", "validated">>, "true")
      ELSE IF ~good THEN SetProp(SetProp(props, <<"cpe", "validated">>, "false"), <<"cpe", "invalid">>, "true")
      ELSE SetProp(props, <<"cpe", "validated">>, "partial")

(* Numbered properties for a list of candidates. *)
Listed(props, kind, cands) ==
  FoldLeft(LAMBDA acc, i :
             SetProp(SetProp(SetProp(acc, <<"cpe", kind, ToString(i)>>, cands[i].cpe),
                             <<"cpe", kind, ToString(i), "source">>, cands[i].source),
                     <<"cpe", kind, ToString(i), "confidence">>, formatConfidence(cands[i].confidence)),
           props, [i \in DOMAIN cands |-> i])

writeResults(c, cands) ==
  LET result == Classify(DedupeCandidates(cands))
      found  == result.primary # <<>>
      stamps == setValidationStamps(c.props, c.cpes)
      main   == IF found
                THEN SetProp(SetProp(stamps, <<"cpe", "source">>, result.primary[1].source),
                             <<"cpe", "confidence">>, formatConfidence(result.primary[1].confidence))
                ELSE SetProp(stamps, <<"cpe", "lookup">>,
                             IF c.cpes = <<>> THEN "no-match" ELSE "no-primary-above-threshold")
      alts   == Listed(main, "alternative", result.alts)
  IN  [c EXCEPT !.cpes = IF found THEN <<result.primary[1].cpe>> ELSE @,
                !.props = IF IncludeRejected THEN Listed(alts, "rejected", result.rejected) ELSE alts]

clearCPEProperties(c) == [c EXCEPT !.props = DropProps(@, PropsUnder(@, "cpe"))]

enrichOne(old, mode, down) ==
  LET c     == clearCPEProperties(old)
      input == candidatesFromExistingCPEs(c.cpes)
      cands == input \o resolve(ParsePURL(c.purl), AllSources, mode, down)
  IN  IF c.purl = <<>>
      THEN IF c.cpes = <<>> THEN c ELSE writeResults(c, input)
      ELSE IF ~Parses(c.purl) THEN [c EXCEPT !.props = SetProp(@, <<"cpe", "purl-error">>, "error")]
      ELSE IF cands = <<>> THEN [c EXCEPT !.props = SetProp(@, <<"cpe", "lookup">>, "no-match")]
      ELSE writeResults(c, cands)

CPEEnrich(sbom, mode, down) ==
  [sbom EXCEPT !.components = Walk(@, LAMBDA c : enrichOne(c, mode, down))]

=============================================================================
