---------------------------- MODULE MCEnrichment ----------------------------
(***************************************************************************)
(* An image with two copies of a program, a Java archive, the database of  *)
(* a package manager, an application with another nested in it and two     *)
(* unpacked source archives side by side, and an SBOM of it with a package *)
(* listed twice, a distribution package, a file the rules drop, a marked   *)
(* one and a nested dependency.                                            *)
(***************************************************************************)
EXTENDS Enrichment

MCLower(s) ==
  LET upper == ("Log4j" :> "log4j") @@ ("maven/Log4j@1.0" :> "maven/log4j@1.0") @@ ("SHA-256" :> "sha-256")
                 @@ ("MIT" :> "mit")
  IN  IF s \in DOMAIN upper THEN upper[s] ELSE s

\* Paths, contents and layers: "a" and "a2" are copies of one program, "b" is
\* of the base image, "m" was changed after it.
File(segs, ext, magic, content, layer) ==
  [segs |-> segs, path |-> PathText(segs), dirs |-> {PathText(SubSeq(segs, 1, k)) : k \in 1 .. Len(segs) - 1},
   docs |-> FALSE, junk |-> FALSE, ext |-> ext, magic |-> magic, content |-> content, layer |-> layer]

MCImageFiles ==
  LET base == <<"l0", 0>> top == <<"l1", 1>> IN
  << File(<<"b">>, ".so", "elf", "B", base),
     File(<<"db", "status">>, "", "", "S", base),
     File(<<"db", "x">>, "", "elf", "X", base),
     File(<<"doc", "r">>, "", "elf", "R", top),
     File(<<"a">>, "", "elf", "A", top),
     File(<<"a2">>, "", "elf", "A", top),
     File(<<"j.jar">>, ".jar", "zip", "J", top),
     File(<<"web", "package.json">>, "", "", "P", top),
     File(<<"web", "m.so">>, ".so", "elf", "M", top),
     File(<<"web", "in", "METADATA">>, "", "", "Q", top),
     File(<<"web", "in", "w.dist-info", "METADATA">>, "", "", "W", top),
     [File(<<"src", "pcre-2", "Makefile">>, "", "", "K", top) EXCEPT !.docs = TRUE],
     File(<<"src", "pcre-2", "configure">>, "", "shebang", "C", top),
     File(<<"src", "pcre-2", "p.so">>, ".so", "elf", "PS", top),
     [File(<<"src", "zlib-1.3", "Makefile">>, "", "", "K", top) EXCEPT !.docs = TRUE],
     File(<<"src", "zlib-1.3", "configure">>, "", "shebang", "C", top),
     File(<<"src", "zlib-1.3", "z.so">>, ".so", "elf", "ZS", top) >>

MCManifests == ("P" :> [ns |-> "", name |-> "log4j", ver |-> "5"]) @@ ("W" :> [ns |-> "", name |-> "w", ver |-> ""])

MCDistInfo == {"w.dist-info"}

MCSignals == ("Makefile" :> {"makefile"}) @@ ("configure" :> {"configure"})

MCVersioned == ("pcre-2" :> [name |-> "pcre", ver |-> "2"]) @@ ("zlib-1.3" :> [name |-> "zlib", ver |-> "1.3"])

MCSortedDirs == << <<"db">>, <<"doc">>, <<"src">>, <<"src", "pcre-2">>, <<"src", "zlib-1.3">>, <<"web">>,
                   <<"web", "in">>, <<"web", "in", "w.dist-info">> >>

MCUpToAt(name) == name

MCFileMap == [f \in {MCImageFiles[i].path : i \in DOMAIN MCImageFiles} |->
                (CHOOSE g \in ToSet(MCImageFiles) : g.path = f).layer]

MCTarget ==
  [layers |-> <<"l0", "l1">>,
   files |-> [p \in DOMAIN MCFileMap |-> (CHOOSE g \in ToSet(MCImageFiles) : g.path = p).content],
   labels |-> ("base.name" :> "base") @@ ("base.digest" :> "d")]

MCBaseImage == [layers |-> <<"l0">>, files |-> ("b" :> "B") @@ ("db/status" :> "S0") @@ ("db/x" :> "X")]

MCImageBuild == [runtime |-> "docker", evidence |-> "history", provenance |-> FALSE,
                 layers |-> <<[createdBy |-> "ADD", squashed |-> FALSE], [createdBy |-> "RUN", squashed |-> FALSE]>>]

MCManifestRoots == "db/status" :> "db"

MCDefaultRules ==
  << [name |-> "docs", action |-> "skip", type |-> "prefix",
      matches |-> (<<"/", "doc/r">> :> 3) @@ (<<"", "doc/r">> :> 3)],
     [name |-> "doc-files", action |-> "mark_as_noise", type |-> "suffix",
      matches |-> (<<"/", "doc/r">> :> 2) @@ (<<"/", "db/x">> :> 2)] >>

MCCustomRules == << [name |-> "mine", action |-> "mark_as_redundant", type |-> "prefix",
                     matches |-> <<"/", "j.jar">> :> 5] >>

MCPathOfName == ("/doc/r" :> <<"/", "doc/r">>) @@ ("/db/x" :> <<"/", "db/x">>)

Dependency(name, ver, purl) == [name |-> name, ver |-> ver, purl |-> purl]

MCIdentities == "A" :> [name |-> "app", ver |-> "1", purl |-> <<"golang/app", "1", "">>, java |-> FALSE,
                        subs |-> <<Dependency("dep", "2", <<"golang/dep", "2", "">>)>>]

MCMatches == "B" :> [name |-> "libb", ver |-> "9", purl |-> <<"deb/debian/b", "9", "">>, cpes |-> <<"cpe:a:b:b:9">>,
                     lics |-> <<<<"id", <<"MIT">>>>>>]

MCEmbedded == "j.jar" :> <<Dependency("inner", "3", <<"maven/inner", "3", "">>)>>

MCAnswers ==
  ("maven/log4j" :> [desc |-> "logging", author |-> "", supplier |-> "apache", lics |-> <<<<"id", "MIT">>>>,
                     hashes |-> <<<<"sha256", "reg">>>>, links |-> "home"])
    @@ ("golang/app" :> [desc |-> "app", author |-> "me", supplier |-> "", lics |-> <<>>, hashes |-> <<>>,
                         links |-> ""])

MCPURLParts ==
  ("maven/log4j" :> [type |-> "maven", ns |-> "apache", name |-> "log4j"])
    @@ ("maven/Log4j" :> [type |-> "maven", ns |-> "apache", name |-> "Log4j"])
    @@ ("maven/inner" :> [type |-> "maven", ns |-> "", name |-> "inner"])
    @@ ("apk/alpine/musl" :> [type |-> "apk", ns |-> "alpine", name |-> "musl"])
    @@ ("golang/app" :> [type |-> "golang", ns |-> "", name |-> "app"])
    @@ ("golang/dep" :> [type |-> "golang", ns |-> "", name |-> "dep"])
    @@ ("deb/debian/b" :> [type |-> "deb", ns |-> "debian", name |-> "b"])
    @@ ("npm/log4j" :> [type |-> "npm", ns |-> "", name |-> "log4j"])
    @@ ("pypi/w" :> [type |-> "pypi", ns |-> "", name |-> "w"])
    @@ ("generic/pcre" :> [type |-> "generic", ns |-> "", name |-> "pcre"])

Parts(vendor, product, version) == [part |-> "a", vendor |-> vendor, product |-> product, version |-> version]

MCCPEParts ==
  ("cpe:a:apache:log4j:1.0" :> Parts("apache", "log4j", "1.0"))
    @@ ("cpe:a:log4j_project:log4j:*" :> Parts("log4j_project", "log4j", "*"))
    @@ ("cpe:a:musl:musl:1.2.3" :> Parts("musl", "musl", "1.2.3"))
    @@ ("cpe:a:log4j:log4j:5" :> Parts("log4j", "log4j", "5")) @@ ("cpe:a:w_project:w:*" :> Parts("w_project", "w", "*"))
    @@ ("cpe:a:pcre:pcre:2" :> Parts("pcre", "pcre", "2"))
    @@ ("cpe:a:b:b:9" :> Parts("b", "b", "9")) @@ ("cpe:a:app:app:1" :> Parts("app", "app", "1"))
    @@ ("cpe:a:dep:dep:2" :> Parts("dep", "dep", "2")) @@ ("cpe:a:inner:inner:3" :> Parts("inner", "inner", "3"))

MCBundledIndex == <<"maven", "apache", "log4j">> :> [vendor |-> "apache", product |-> "log4j"]

MCLocalFiles == << [index |-> "by-name", key |-> <<"apk", "musl">>,
                    entry |-> [vendor |-> "musl", product |-> "musl"], ok |-> TRUE] >>

MCNVDIndex == ("log4j" :> <<"cpe:a:apache:log4j:1.0", "cpe:a:log4j_project:log4j:*">>)
                @@ ("b" :> <<"cpe:a:b:b:9">>)

MCDefinitions == <<>>

MCNormal(s) == s

MCWithin(s, t) == s = t \/ (s = "log4j_project" /\ t = "log4j")

MCLastSegment(s) == s

MCEcosystem(name) ==
  LET of == [n \in {"maven/log4j", "maven/Log4j", "maven/inner"} |-> "maven"]
              @@ [n \in {"golang/app", "golang/dep"} |-> "golang"]
              @@ ("apk/alpine/musl" :> "apk") @@ ("deb/debian/b" :> "deb")
  IN  IF name \in DOMAIN of THEN of[name] ELSE ""

MCOverrides == << [rule |-> "NTIA-SUPPLIER", type |-> "", eco |-> "golang", severity |-> "ignored"] >>

MCSplit(version) ==
  LET parts == ("1.0" :> <<"1", "0">>) @@ ("3.18.4" :> <<"3", "18", "4">>) @@ ("1.2.3" :> <<"1", "2", "3">>)
  IN  IF version \in DOMAIN parts THEN parts[version] ELSE <<version>>

MCUnprefixed(version) == version

MCDistro(name) == IF name = "apk/alpine/musl" THEN "apk/alpine"
                  ELSE IF name = "deb/debian/b" THEN "deb/debian" ELSE name

Wire(cycle, release, support, eol, lts) ==
  [cycle |-> cycle, release |-> release, support |-> support, eol |-> eol, latest |-> cycle, lts |-> lts]

On(date) == [date |-> date, bool |-> ""]

Is(bool) == [date |-> 0, bool |-> bool]

MCPublished == ("alpine" :> <<Wire("3.18", 2, Is(""), On(10), Is("false"))>>)
                 @@ ("debian" :> <<Wire("9", 2, On(6), Is("false"), On(8)), Wire("10", 0, Is("false"), Is("true"), Is("true"))>>)

MCSnapshot == "alpine" :> <<Wire("3.18", 2, Is("true"), Is("false"), Is("false"))>>

MCOutages == {{}, {"debian"}, {"alpine", "debian"}}

-----------------------------------------------------------------------------
Ref(name) == <<name, ":">>

Log4j ==
  [Component EXCEPT !.ref = Ref("log4j"), !.name = "log4j", !.ver = "1.0", !.purl = <<"maven/log4j", "1.0", "">>,
     !.cpes = <<"cpe:junk", "cpe:a:log4j_project:log4j:*">>, !.hashes = <<<<"sha1", "h">>>>,
     !.lics = <<<<"name", <<"ASL">>>>>>, !.supplier = "upstream", !.method = "manifest", !.locs = <<<<"/", "j.jar">>>>]

Log4jAgain ==
  [Component EXCEPT !.ref = Ref("log4j-again"), !.name = "Log4j", !.ver = "1.0",
     !.purl = <<"maven/Log4j", "1.0", "?type=jar">>, !.cpes = <<"cpe:a:apache:log4j:1.0">>,
     !.hashes = <<<<"sha256", "reg2">>>>, !.desc = "again", !.locs = <<<<"", "lib/l">>, <<"", "lib/k">>>>]

Musl ==
  [Component EXCEPT !.ref = Ref("musl"), !.name = "alpine", !.ver = "3.18.4", !.type = "operating-system",
     !.cpes = <<"cpe:junk">>, !.locs = <<<<"/", "db/status">>>>]

Inner ==
  [Component EXCEPT !.ref = Ref("nested"), !.name = "nested", !.ver = "7", !.hashes = <<<<"sha256", "n">>>>]

Doc == [Component EXCEPT !.ref = Ref("doc"), !.type = "file", !.name = "/doc/r"]

Marked == [Component EXCEPT !.ref = Ref("marked"), !.type = "file", !.name = "/db/x"]

Metadata1 == [Metadata EXCEPT !.tools = <<Tool("anchore", "syft")>>, !.timestamp = TRUE]

Plain ==
  [EmptySBOM EXCEPT !.meta = Metadata1,
     !.components = <<[Log4j EXCEPT !.subs = <<Inner>>], Log4jAgain, Musl, Doc, Marked>>,
     !.rels = <<Relationship(Log4j.ref, Log4jAgain.ref, "depends-on"), Relationship(Log4j.ref, Doc.ref, "depends-on"),
                Relationship(Musl.ref, Log4j.ref, "provides"), Relationship(Musl.ref, Marked.ref, "contains")>>]

MCInputs == {Plain, EmptySBOM}

MCConfigs ==
  {[format |-> format, disabled |-> disabled, mode |-> mode, base |-> base, reference |-> "named"] :
     format \in {"cyclonedx", "spdx"}, disabled \in {{}, {"dedup"}, {"extractor", "registry"}},
     <<mode, base>> \in {<<"hybrid", "auto">>, <<"offline", "none">>, <<"online", "explicit">>}}

Paths(files) == [i \in DOMAIN files |-> files[i].path]

Good == [base |-> "scanned", normalized |-> TRUE, extracted |-> Paths(MCImageFiles), matched |-> {"b"},
         answered |-> {"maven/log4j", "golang/app"}, answer |-> "ok", down |-> {}, first |-> <<"cpe", "1">>, now |-> 9]

Bad == [base |-> "unreachable", normalized |-> FALSE, extracted |-> <<"b">>, matched |-> {}, answered |-> {},
        answer |-> "transient", down |-> {"nvd-api", "clearly-defined"}, first |-> <<"cpe", "source">>, now |-> 10]

MCEnvironments ==
  {Good, Bad, [Good EXCEPT !.base = "scan fails", !.down = {"nvd-api"}],
   [Bad EXCEPT !.base = "diff fails", !.first = <<"cpe", "alternative", "1">>]}

\* A dependency nested two deep.
Deep == [Plain EXCEPT !.components[1].subs = <<[Inner EXCEPT !.subs = <<[Inner EXCEPT !.ref = Ref("deep"), !.name = "deep"]>>]>>]

MCDeepInputs == {Deep}

MCDeepConfigs == {[format |-> "cyclonedx", disabled |-> {}, mode |-> "hybrid", base |-> "auto", reference |-> ""]}

=============================================================================
