---------------------------- MODULE MCUntracked ----------------------------
(* Small images for the untracked enricher.                                *)
EXTENDS Untracked

Plain == [dir |-> "bin", redundant |-> FALSE, noise |-> FALSE, rule |-> "none",
          over |-> FALSE, small |-> FALSE, category |-> "executable", digest |-> "d1"]

Binary(d) == [Plain EXCEPT !.digest = d]
Library == [Plain EXCEPT !.category = "library", !.digest = "d3"]
Script == [Plain EXCEPT !.category = "script", !.digest = "d4"]
Config == [Plain EXCEPT !.category = "config", !.digest = "d5"]
Tiny == [Plain EXCEPT !.small = TRUE, !.digest = "d6"]
Huge == [Plain EXCEPT !.over = TRUE, !.digest = "d7"]
InModule == [Plain EXCEPT !.dir = "node_modules/a", !.digest = "d8"]
Readme == [Plain EXCEPT !.noise = TRUE, !.rule = "skip", !.digest = "d9"]
Owned == [Plain EXCEPT !.redundant = TRUE, !.digest = "d10"]
RuleNoise == [Plain EXCEPT !.rule = "noise", !.digest = "d11"]
RuleSkip == [Plain EXCEPT !.rule = "skip", !.digest = "d12"]

Files == {Binary("d1"), Binary("d2"), Library, Script, Config, Tiny, Huge,
          InModule, Readme, Owned, RuleNoise, RuleSkip}

\* Every image of up to three distinct files of these kinds, one with more
\* recorded files than MaxComponents and one with more tasks than workers.
DistinctFiles ==
  {fs \in UNION {[1 .. n -> Files] : n \in 0 .. 3} :
     \A i, j \in DOMAIN fs : fs[i] = fs[j] => i = j}
ManyFiles == <<Script, Binary("d1"), Tiny, Library, Binary("d2"), RuleNoise>>
BusyFiles == <<Binary("d1"), Config, Binary("d2"), Script, Library>>
SmallImages == DistinctFiles \cup {ManyFiles, BusyFiles}

Purl(c, v) == [coord |-> c, version |-> v]
Known(p) == [ref |-> <<"syft", p.coord, p.version>>, purl |-> p, digest |-> "", method |-> "syft", match |-> ""]
\* What an earlier scan of the same image left in the SBOM.
Identified == [Known(NoPackage) EXCEPT !.digest = "d1", !.method = "fingerprint", !.match = "d1"]
SmallBaselines == {<<>>, <<Known(Purl("npm/a", "1"))>>, <<Identified>>}

ModuleCluster(v) == [root |-> "node_modules/a", purl |-> Purl("npm/a", v)]
OtherCluster(v) == [root |-> "opt/b", purl |-> Purl("pypi/b", v)]
SmallClusters ==
  {<<>>, <<ModuleCluster("1")>>, <<ModuleCluster("2"), OtherCluster("1")>>,
   <<OtherCluster("1"), ModuleCluster("2"), OtherCluster("1")>>}
=============================================================================
