----------------------------- MODULE Lifecycle ------------------------------
(***************************************************************************)
(* The lifecycle enricher (internal/enrich/lifecycle): which product a     *)
(* component is, the cycle of its version from endoflife.date or from a    *)
(* snapshot, and the status stamped for it.  `astinus lifecycle update`,   *)
(* which writes such a snapshot (internal/cli/lifecycle.go), is here too.  *)
(*                                                                         *)
(* Dates and the time of a run are half days since an epoch, dates even,   *)
(* 0 for no date.  A field that may be a date or a Boolean is              *)
(* [date, bool], with "" for no Boolean.                                   *)
(***************************************************************************)
EXTENDS SBOM

CONSTANTS
  Split(_),      \* the parts of a version between its dots
  Unprefixed(_), \* a version without its leading "v"
  Distro(_),     \* the package type and namespace of a PURL's name
  Published      \* product -> the cycles endoflife.date serves

-----------------------------------------------------------------------------
(* Products. *)
Mapping(product, format) == [product |-> product, format |-> format]

LOCAL Major(product) == Mapping(product, "major")
LOCAL Minor(product) == Mapping(product, "major.minor")

purlToProduct ==
  ("apk/alpine" :> Minor("alpine")) @@ ("deb/debian" :> Major("debian"))
    @@ ("deb/ubuntu" :> Minor("ubuntu")) @@ ("rpm/centos" :> Major("centos"))
    @@ ("rpm/rhel" :> Major("rhel")) @@ ("rpm/rocky" :> Major("rocky-linux"))
    @@ ("rpm/almalinux" :> Major("almalinux")) @@ ("rpm/fedora" :> Major("fedora"))
    @@ ("rpm/amazonlinux" :> Major("amazon-linux")) @@ ("rpm/opensuse" :> Minor("opensuse"))

nameToProduct ==
  [n \in {"dotnet", "redis", "mongodb", "cassandra", "elasticsearch", "postgresql", "podman",
          "debian", "centos", "rhel", "nodejs", "openjdk"} |-> Major(n)]
    @@ [n \in {"python", "go", "ruby", "php", "perl", "rust", "mysql", "mariadb", "sqlite", "kubernetes",
               "containerd", "nginx", "apache", "haproxy", "alpine", "ubuntu"} |-> Minor(n)]
    @@ [n \in {"java", "jdk", "jre"} |-> Major("openjdk")]
    @@ ("node" :> Major("nodejs")) @@ ("python3" :> Minor("python")) @@ ("golang" :> Minor("go"))
    @@ ("postgres" :> Major("postgresql")) @@ ("docker" :> Major("docker-engine")) @@ ("httpd" :> Minor("apache"))

formatVersion(version, format) ==
  LET parts == Split(version) IN
  IF version = "" THEN ""
  ELSE IF format = "major" \/ Len(parts) = 1 THEN parts[1]
  ELSE parts[1] \o "." \o parts[2]

(* << >> when the component is no known product. *)
MapToProduct(c) ==
  LET key(mapping) == <<mapping.product, formatVersion(c.ver, mapping.format)>> IN
  IF c.purl # <<>> /\ Distro(c.purl[1]) \in DOMAIN purlToProduct THEN key(purlToProduct[Distro(c.purl[1])])
  ELSE IF Lower(c.name) \in DOMAIN nameToProduct THEN key(nameToProduct[Lower(c.name)])
  ELSE <<>>

-----------------------------------------------------------------------------
(* Sources.  A cycle on the wire is [cycle, release, support, eol, latest, *)
(* lts]; lts may be a date too, which counts as true.                      *)
NotFound == [error |-> "not found"]
Transient == [error |-> "transient"]

parseDateOrBool(field) == <<field.date, field.bool>>

parseLTS(field) == field.date # 0 \/ field.bool = "true"

convertCycle(w) ==
  LET support == parseDateOrBool(w.support)
      eol     == parseDateOrBool(w.eol)
  IN  [cycle |-> w.cycle, release |-> w.release, supportEnd |-> support[1], supportBool |-> support[2],
       eol |-> eol[1], eolBool |-> eol[2], latest |-> w.latest, lts |-> parseLTS(w.lts)]

cycleMatches(cycle, version) == cycle = version \/ cycle = Unprefixed(version)

(* The first cycle that matches. *)
FetchFrom(products, product, version) ==
  LET found == IF product \in DOMAIN products
               THEN SelectSeq(products[product], LAMBDA w : cycleMatches(w.cycle, version)) ELSE <<>>
  IN  IF found = <<>> THEN NotFound ELSE [error |-> "", lifecycle |-> convertCycle(found[1])]

(* EndOfLifeSource.Fetch: answer is what becomes of the request. *)
OnlineFetch(product, version, answer) ==
  IF version = "" THEN NotFound
  ELSE IF answer = "ok" THEN FetchFrom(Published, product, version)
  ELSE IF answer = "transient" THEN Transient ELSE NotFound

BundledFetch(snapshot, product, version) == FetchFrom(snapshot, product, version)

(* Resolve: hybrid mode falls back to the snapshot. *)
Resolve(product, version, mode, answer, snapshot) ==
  LET online  == IF mode = "offline" THEN NotFound ELSE OnlineFetch(product, version, answer)
      bundled == IF mode = "online" THEN NotFound ELSE BundledFetch(snapshot, product, version)
  IN  IF online.error = "" THEN online @@ [source |-> "endoflife.date"]
      ELSE IF bundled.error = "" THEN bundled @@ [source |-> "bundled"]
      ELSE online

-----------------------------------------------------------------------------
ClassifyStatus(l, now) ==
  IF (l.eol # 0 /\ now >= l.eol) \/ l.eolBool = "true" THEN "eol"
  ELSE IF (l.supportEnd # 0 /\ now >= l.supportEnd) \/ l.supportBool = "false" THEN "maintenance"
  ELSE IF l.release # 0 THEN "active" ELSE "unknown"

(* Whole days, towards zero. *)
DaysUntilEOL(l, now) ==
  IF l.eol >= now THEN ToString((l.eol - now) \div 2) ELSE "-" \o ToString((now - l.eol) \div 2)

LifecycleKey(name) == <<"lifecycle", name>>

(* applyLifecycle: a field the data do not have leaves the older stamp. *)
applyLifecycle(props, l, product, source, now) ==
  LET put(acc, name, value) == IF value = "" THEN acc ELSE SetProp(acc, LifecycleKey(name), value)
      date(d, bool) == IF d # 0 THEN ToString(d) ELSE bool
      dated == put(put(put(props, "release-date", date(l.release, "")),
                       "active-support-end", date(l.supportEnd, l.supportBool)),
                   "eol", date(l.eol, l.eolBool))
      days  == IF l.eol = 0 THEN dated ELSE put(dated, "days-until-eol", DaysUntilEOL(l, now))
      more  == put(put(days, "latest", l.latest), "cycle", l.cycle)
  IN  SetProp(SetProp(SetProp(SetProp(more,
        LifecycleKey("product"), product), LifecycleKey("status"), ClassifyStatus(l, now)),
        LifecycleKey("source"), source), LifecycleKey("lts"), IF l.lts THEN "true" ELSE "false")

processComponent(c, mode, answer, snapshot, now) ==
  LET key    == MapToProduct(c)
      result == Resolve(key[1], key[2], mode, answer, snapshot)
  IN  IF key = <<>> \/ result.error # "" THEN c
      ELSE [c EXCEPT !.props = applyLifecycle(@, result.lifecycle, key[1], result.source, now)]

LifecycleEnrich(sbom, mode, answer, snapshot, now) ==
  [sbom EXCEPT !.components = Walk(@, LAMBDA c : processComponent(c, mode, answer, snapshot, now))]

-----------------------------------------------------------------------------
(* `astinus lifecycle update`. *)
uniqueProducts ==
  {"alpine", "debian", "ubuntu", "centos", "rhel", "rocky-linux", "almalinux", "fedora", "amazon-linux",
   "opensuse", "nodejs", "python", "go", "openjdk", "ruby", "php", "perl", "rust", "dotnet", "postgresql",
   "mysql", "mariadb", "redis", "mongodb", "sqlite", "cassandra", "elasticsearch", "kubernetes",
   "docker-engine", "containerd", "podman", "nginx", "apache", "haproxy"}

\* Faulty variant: only dates are written.
toWireDates(l) ==
  [cycle |-> l.cycle, latest |-> l.latest, release |-> l.release,
   support |-> [date |-> l.supportEnd, bool |-> ""], eol |-> [date |-> l.eol, bool |-> ""],
   lts |-> [date |-> 0, bool |-> IF l.lts THEN "true" ELSE "false"]]

(* What is parsed goes back to the wire; a false or absent lts is false. *)
toWireFormat(l) ==
  [cycle |-> l.cycle, latest |-> l.latest, release |-> l.release,
   support |-> [date |-> l.supportEnd, bool |-> IF l.supportEnd # 0 THEN "" ELSE l.supportBool],
   eol |-> [date |-> l.eol, bool |-> IF l.eol # 0 THEN "" ELSE l.eolBool],
   lts |-> [date |-> 0, bool |-> IF l.lts THEN "true" ELSE "false"]]

(* The products fetched, the failing ones left out; nothing is written     *)
(* when all fail, and the old file stays.                                  *)
runLifecycleUpdate(old, failing) ==
  LET fetched == (uniqueProducts \cap DOMAIN Published) \ failing
  IN  IF fetched = {} THEN old
      ELSE [p \in fetched |-> MapSeq(Published[p], LAMBDA w : toWireFormat(convertCycle(w)))]

=============================================================================
