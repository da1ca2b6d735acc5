------------------------------ MODULE Clusters ------------------------------
(***************************************************************************)
(* The cluster pre-pass of the untracked enricher                          *)
(* (internal/enrich/untracked/cluster, and runClusterPrePass): directories *)
(* that hold a package, found by a manifest in them (an anchor) or by the  *)
(* look of an unpacked source archive (density), become one component each *)
(* and their files are not looked at one by one.                           *)
(*                                                                         *)
(* Here a file has segs, the segments of its path; a directory is such a   *)
(* sequence too, << >> being the root of the image.                        *)
(***************************************************************************)
EXTENDS SBOM, FiniteSets

CONSTANTS
  Manifests,     \* content of a manifest that parses -> [ns, name, ver]
  DistInfo,      \* names of directories that end in .dist-info
  Signals,       \* name of a directory entry -> what it hints at
  Versioned,     \* name of a directory with a version in it -> [name, ver]
  SortedDirs,    \* the directories of the image in the order of their names
  Many, VeryMany,  \* files that make a directory large, 100 and 1000 in the code
  UpToAt(_)      \* a PURL's name up to its first "@", if it has one

PathText(segs) ==
  IF segs = <<>> THEN "" ELSE FoldLeft(LAMBDA text, s : text \o "/" \o s, segs[1], Tail(segs))

-----------------------------------------------------------------------------
(* Anchors. *)
anchorRules ==
  ("package.json" :> "npm") @@ ("Cargo.toml" :> "cargo") @@ ("go.mod" :> "golang") @@ ("pom.xml" :> "maven")
    @@ ("pyproject.toml" :> "pypi") @@ ("METADATA" :> "pypi") @@ ("composer.json" :> "composer")
    @@ ("Chart.yaml" :> "helm")

isPythonDistInfo(f) == Len(f.segs) > 1 /\ Last(Front(f.segs)) \in DistInfo

(* matchAnchor: the kind of package the file is the manifest of, or "". *)
matchAnchor(f) ==
  LET base == Last(f.segs) IN
  IF base = "METADATA" /\ ~isPythonDistInfo(f) THEN ""
  ELSE IF base \in DOMAIN anchorRules THEN anchorRules[base]
  ELSE IF f.ext = ".gemspec" THEN "gem" ELSE ""

(* The extractors: a manifest without a name, a pom.xml without a group or *)
(* a composer.json without a vendor is an error.                           *)
extracts(f) ==
  /\ matchAnchor(f) # "" /\ f.content \in DOMAIN Manifests
  /\ Manifests[f.content].name # ""
  /\ matchAnchor(f) \in {"maven", "composer"} => Manifests[f.content].ns # ""

PackageName(kind, m) ==
  IF m.ns = "" THEN m.name ELSE m.ns \o (IF kind = "maven" THEN ":" ELSE "/") \o m.name

(* simplePURL, purlNPM, purlGolang, purlMaven *)
manifestPURL(kind, m) ==
  <<kind \o "/" \o (IF m.ns = "" THEN "" ELSE m.ns \o "/") \o m.name,
    IF kind = "golang" THEN "unknown" ELSE m.ver, "">>

anchorRoot(f) == IF Last(f.segs) = "METADATA" THEN Front(Front(f.segs)) ELSE Front(f.segs)

anchorCluster(f) ==
  LET kind == matchAnchor(f) m == Manifests[f.content]
  IN  [type |-> kind, name |-> PackageName(kind, m), ver |-> IF kind = "golang" THEN "" ELSE m.ver,
       purl |-> manifestPURL(kind, m), method |-> "anchor", root |-> anchorRoot(f), anchor |-> f.path]

(* The deepest root first. *)
anchorClusters(files) ==
  LET found   == MapSeq(SelectSeq(files, extracts), anchorCluster)
      deepest == FoldLeft(LAMBDA d, c : IF Len(c.root) > d THEN Len(c.root) ELSE d, 0, found)
  IN  Concat([k \in 1 .. deepest + 1 |-> SelectSeq(found, LAMBDA c : Len(c.root) = deepest + 1 - k)])

(* Within: nothing is within the root of the image. *)
ClusterHas(c, segs) == c.root # <<>> /\ IsPrefix(c.root, segs)

(* withinAnyCluster, isAnchored *)
withinAnyCluster(segs, clusters) == \E c \in ToSet(clusters) : ClusterHas(c, segs)

(* The files of the i-th anchor cluster: each belongs to the first that    *)
(* has it.                                                                 *)
assignFilesToClusters(clusters, i, files) ==
  {f \in ToSet(files) : ClusterHas(clusters[i], f.segs) /\ \A j \in 1 .. i - 1 : ~ClusterHas(clusters[j], f.segs)}

-----------------------------------------------------------------------------
(* Density. *)
densityScoreThreshold == 7

MinDirChildren == 3

Under(dir, files) == {f \in ToSet(files) : IsStrictPrefix(dir, f.segs)}

children(dir, files) == {f.segs[Len(dir) + 1] : f \in Under(dir, files)}

scoreDirectory(dir, files) ==
  LET hints  == UNION {Signals[c] : c \in children(dir, files) \cap DOMAIN Signals}
      count  == Cardinality(Under(dir, files))
      points(condition, n) == IF condition THEN n ELSE 0
  IN  points({"makefile", "configure"} \subseteq hints, 5) + points("cmake" \in hints, 4)
        + points(Last(dir) \in DOMAIN Versioned, 5) + points({"src", "include"} \subseteq hints, 3)
        + points("test" \in hints, 2) + points({"license", "readme"} \subseteq hints, 2)
        + points(count > Many, 1) + points(count > VeryMany, 2)

densityCluster(dir) ==
  LET id == IF Last(dir) \in DOMAIN Versioned THEN Versioned[Last(dir)] ELSE [name |-> Last(dir), ver |-> ""]
  IN  [type |-> "generic", name |-> id.name, ver |-> id.ver,
       purl |-> <<"generic/" \o id.name, id.ver, "?root=/" \o PathText(dir)>>,
       method |-> "density", root |-> dir, anchor |-> ""]

Ancestry(dir) == {SubSeq(dir, 1, k) : k \in 1 .. Len(dir)}

(* densityCandidate: a directory with an anchor below it is none, nor is   *)
(* one that shares an ancestor with an earlier cluster.                    *)
densityCandidate(dir, files, anchors, scored) ==
  /\ Cardinality(children(dir, files)) >= MinDirChildren
  /\ \A f \in Under(dir, files) : ~withinAnyCluster(f.segs, anchors)
  /\ Ancestry(dir) \cap scored = {}

(* detectDensityClusters with markScored: the cluster's directory and      *)
(* every directory above it count as scored.                               *)
detectDensityClusters(files, anchors) ==
  LET visit(st, dir) ==
        IF densityCandidate(dir, files, anchors, st.scored) /\ scoreDirectory(dir, files) >= densityScoreThreshold
        THEN [out |-> Append(st.out, densityCluster(dir)), scored |-> st.scored \cup Ancestry(dir)]
        ELSE st
  IN  FoldLeft(visit, [out |-> <<>>, scored |-> {}], SortedDirs).out

(* DetectClusters: every cluster with the number of its files. *)
DetectClusters(files) ==
  LET anchors == anchorClusters(files)
      counted(c, n) == [file_count |-> n] @@ c
  IN  [i \in DOMAIN anchors |-> counted(anchors[i], Cardinality(assignFilesToClusters(anchors, i, files)))]
        \o MapSeq(detectDensityClusters(files, anchors), LAMBDA c : counted(c, Cardinality(Under(c.root, files))))

-----------------------------------------------------------------------------
(* What the pre-pass adds to the SBOM. *)
normalisePURL(purl) == <<purl[1], purl[2]>>

purlCoordinates(purl) == UpToAt(purl[1])

clusterToComponent(c) ==
  [Component EXCEPT
     !.ref = <<"cluster" \o c.type \o c.name \o c.ver, "-">>,
     !.type = IF c.type = "helm" THEN "application" ELSE "library",
     !.name = c.name, !.ver = c.ver, !.purl = c.purl, !.method = "cluster", !.locs = <<<<"", PathText(c.root)>>>>,
     !.props = (<<"cluster", "type">> :> c.type) @@ (<<"cluster", "detection-method">> :> c.method)
                 @@ (<<"cluster", "file-count">> :> ToString(c.file_count))
                 @@ (<<"cluster", "root">> :> PathText(c.root))
                 @@ (IF c.anchor = "" THEN <<>> ELSE <<"cluster", "anchor-path">> :> c.anchor)]

\* Faulty variant: a package is known by its bare name.
addClustersByName(components, clusters) ==
  LET names == {c.name : c \in ToSet(Flat(components))}
  IN  components \o MapSeq(SelectSeq(clusters, LAMBDA c : c.name \notin names), clusterToComponent)

(* runClusterPrePass: a cluster whose package the SBOM has, in any version *)
(* at all, adds nothing; neither does the second cluster of one version.   *)
addClusters(components, clusters) ==
  LET purls  == {c.purl : c \in ToSet(Flat(components))} \ {<<>>}
      known  == {normalisePURL(p) : p \in purls}
      coords == {purlCoordinates(p) : p \in purls}
      isNew(c) == normalisePURL(c.purl) \notin known /\ purlCoordinates(c.purl) \notin coords
      new    == FirstOfEach(SelectSeq(clusters, isNew), LAMBDA c : normalisePURL(c.purl))
  IN  components \o MapSeq(new, clusterToComponent)

=============================================================================
