--------------------------- MODULE UntrackedFiles ---------------------------
(***************************************************************************)
(* What the untracked enricher makes of one file (filter.go, classifier.go *)
(* and processFile in internal/enrich/untracked): dropped, or recorded as  *)
(* a component, with what module Clusters finds first.  The walk, the      *)
(* limit and the matcher pool are module Untracked's.                      *)
(*                                                                         *)
(* A file is [segs, path, dirs, docs, junk, ext, magic, content, layer]:   *)
(* dirs are the directories above it; docs and junk tell what the two      *)
(* lists of unwanted names say of it.                                      *)
(***************************************************************************)
EXTENDS PathClassifier, Clusters

CONSTANTS
  ManifestRoots,  \* path of a package manifest -> its directory
  Identities,     \* content -> what the extractors find: [name, ver, purl, java, subs]
  Matches         \* content -> what the fingerprint matcher answers: [name, ver, purl, cpes, lics]

(* Evidence locations and the syft:location:N:path properties. *)
extractKnownPathsFromComponent(c) ==
  ({l[2] : l \in ToSet(c.locs)}
    \cup {c.props[k] : k \in {k \in DOMAIN c.props : k[1] = "syft:location" /\ Last(k) = "path"}}) \ {""}

extractPackageRoot(path) == IF path \in DOMAIN ManifestRoots THEN {ManifestRoots[path]} ELSE {}

buildKnownIndex(components) ==
  LET paths == UNION {extractKnownPathsFromComponent(c) : c \in ToSet(Flat(components))}
  IN  [paths |-> paths, dirs |-> UNION {extractPackageRoot(p) : p \in paths}]

\* Faulty variant: only package directories count.
isRedundantByDir(f, idx) == f.dirs \cap idx.dirs # {}

isRedundantAgainstIndex(f, idx) == f.path \in idx.paths \/ f.dirs \cap idx.dirs # {}

(* preFilter, with neither --include-redundant nor --include-noise. *)
preFiltered(f, idx) ==
  isRedundantAgainstIndex(f, idx) \/ f.docs \/ classifyPath(<<"", f.path>>).action # NoRule.action

classifyByExtension(f) ==
  CASE f.ext = ".a" -> "static-archive"
    [] f.ext \in {".so", ".dylib", ".dll"} -> "library"
    [] f.ext \in {".jar", ".war", ".ear"} -> "archive"
    [] f.ext = ".zip" /\ f.magic = "zip" -> "archive"
    [] f.ext \in {".yaml", ".json", ".conf", ".pem", ".md", ".txt", ".html"} -> "config"
    [] OTHER -> ""

classifyByMagic(f) ==
  CASE f.magic \in {"elf", "pe", "macho"} -> "executable"
    [] f.magic = "zip" -> "archive"
    [] f.magic = "shebang" -> "script"
    [] OTHER -> ""

fileCategory(f) ==
  IF f.junk THEN "noise"
  ELSE IF classifyByExtension(f) # "" THEN classifyByExtension(f)
  ELSE IF classifyByMagic(f) # "" THEN classifyByMagic(f) ELSE "unknown"

componentTypeFor(category) ==
  IF category \in {"executable", "script"} THEN "application"
  ELSE IF category = "library" THEN "library" ELSE "file"

(* The reference is made from the content: two copies share it. *)
buildBaseComponent(f) ==
  [Component EXCEPT
     !.ref = <<"untracked" \o f.content, "-">>, !.type = componentTypeFor(fileCategory(f)), !.name = Last(f.segs),
     !.hashes = <<<<"sha256", f.content>>>>, !.method = "untracked-scan", !.locs = <<<<"", f.path>>>>,
     !.layer = f.layer, !.props = <<"untracked", "category">> :> fileCategory(f)]

(* What the extractors found wins over the name of the file. *)
applyExtractorIdentity(c, id) ==
  [c EXCEPT !.name = IF id.name = "" THEN @ ELSE id.name,
            !.ver = IF id.ver = "" THEN @ ELSE id.ver,
            !.purl = IF id.purl = <<>> THEN @ ELSE id.purl,
            !.type = IF id.java THEN "library" ELSE @,
            !.props = SetProp(@, <<"extractor", "source">>, "binary"),
            !.subs = @ \o MapSeq(id.subs, LAMBDA d :
                       [Component EXCEPT !.name = d.name, !.ver = d.ver, !.purl = d.purl])]

enrichEmbedded(c, f) ==
  IF fileCategory(f) \in {"executable", "archive", "library"} /\ f.content \in DOMAIN Identities
  THEN applyExtractorIdentity(c, Identities[f.content]) ELSE c

(* processFile: at most one component for a file. *)
processFile(f) ==
  IF fileCategory(f) \in {"noise", "static-archive", "config"} THEN <<>>
  ELSE <<enrichEmbedded(buildBaseComponent(f), f)>>

applyMatch(c, match) ==
  [c EXCEPT !.name = IF match.name = "" THEN @ ELSE match.name,
            !.ver = IF match.ver = "" THEN @ ELSE match.ver,
            !.purl = IF match.purl = <<>> THEN @ ELSE match.purl,
            !.cpes = @ \o match.cpes, !.lics = @ \o match.lics,
            !.props = SetProp(@, <<"untracked", "matcher">>, "matcher")]

(* A hit of runMatcherWorkers. *)
matched(c, match) == [applyMatch(c, match) EXCEPT !.method = "fingerprint"]

shouldMatcherLookup(f) == fileCategory(f) \in {"executable", "library"}

(* Enrich: answers are the paths whose lookup is answered in this run.     *)
UntrackedEnrich(sbom, files, answers) ==
  LET clusters == DetectClusters(files)
      start == addClusters(sbom.components, clusters)
      idx == buildKnownIndex(start)
      visited(f) == IF withinAnyCluster(f.segs, clusters) \/ preFiltered(f, idx) THEN <<>> ELSE processFile(f)
      answered(f, c) == IF shouldMatcherLookup(f) /\ f.path \in answers /\ f.content \in DOMAIN Matches
                        THEN matched(c, Matches[f.content]) ELSE c
  IN  [sbom EXCEPT !.components =
         start \o Concat(MapSeq(files, LAMBDA f : MapSeq(visited(f), LAMBDA c : answered(f, c))))]

=============================================================================
