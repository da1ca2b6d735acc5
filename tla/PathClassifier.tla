--------------------------- MODULE PathClassifier ---------------------------
(***************************************************************************)
(* The path classifier (internal/enrich/untracked/pathclassifier) and the  *)
(* prefilter that applies it to the file components of an input SBOM       *)
(* (internal/enrich/syftprefilter).                                        *)
(*                                                                         *)
(* A rule is [name, action, type, matches]: matches maps a path to the     *)
(* length of the rule's longest pattern that matches it.                   *)
(***************************************************************************)
EXTENDS SBOM

CONSTANTS
  DefaultRules,  \* the embedded rules
  CustomRules,   \* those of --rules-file
  PathOfName     \* the path of a name that begins with "/"

knownAction(action) == action \in {"skip", "redundant_under_archive", "mark_as_noise", "mark_as_redundant"}

validRules(rules) ==
  /\ \A r \in ToSet(rules) : r.name # "" /\ knownAction(r.action)
  /\ \A i, j \in DOMAIN rules : rules[i].name = rules[j].name => i = j

(* Load refuses the others. *)
ASSUME RulesAssumption == validRules(DefaultRules) /\ validRules(CustomRules)

(* Merge: a custom rule takes the place of the default of its name, the    *)
(* others follow.                                                          *)
Merge(defaults, custom) ==
  LET named(rules) == {r.name : r \in ToSet(rules)}
      by(name) == CHOOSE r \in ToSet(custom) : r.name = name
  IN  MapSeq(defaults, LAMBDA d : IF d.name \in named(custom) THEN by(d.name) ELSE d)
        \o SelectSeq(custom, LAMBDA c : c.name \notin named(defaults))

Rules == Merge(DefaultRules, CustomRules)

Matching(type, path) ==
  SelectSeq(Rules, LAMBDA r : r.type = type /\ path \in DOMAIN r.matches)

NoRule == [name |-> "", action |-> "keep"]

(* longestMatch: of the tries, the rule with the longest pattern, the      *)
(* first inserted when two rules have the same pattern.                    *)
longestMatch(rules, path) ==
  rules[CHOOSE i \in DOMAIN rules : \A j \in DOMAIN rules :
          LET li == rules[i].matches[path] lj == rules[j].matches[path]
          IN  li > lj \/ (li = lj /\ i <= j)]

(* Classify: file name, prefix, suffix, glob, regular expression. *)
classifyPath(path) ==
  LET hits(type) == Matching(type, path) IN
  IF hits("filename_exact") # <<>> THEN hits("filename_exact")[1]
  ELSE IF hits("prefix") # <<>> THEN longestMatch(hits("prefix"), path)
  ELSE IF hits("suffix") # <<>> THEN longestMatch(hits("suffix"), path)
  ELSE IF hits("glob") # <<>> THEN hits("glob")[1]
  ELSE IF hits("regex") # <<>> THEN hits("regex")[1]
  ELSE NoRule

-----------------------------------------------------------------------------
(* The prefilter.  A file's name may be its path; the syft property holds  *)
(* an absolute path.                                                       *)
NoPath == <<"", "">>

extractPath(c) ==
  LET syft == <<"syft:location", "", "0", "path">> IN
  IF c.name \in DOMAIN PathOfName THEN PathOfName[c.name]
  ELSE IF Prop(c.props, syft) # "" THEN <<"/", c.props[syft]>>
  ELSE IF c.locs # <<>> THEN c.locs[1] ELSE NoPath

Decision(c) ==
  IF c.type = "file" /\ extractPath(c) # NoPath THEN classifyPath(extractPath(c)) ELSE NoRule

Removed(c) == Decision(c).action \in {"skip", "redundant_under_archive"}

markAsNoise(c) ==
  IF Decision(c).action \in {"mark_as_noise", "mark_as_redundant"}
  THEN [c EXCEPT !.props = SetProp(SetProp(@, <<"noise">>, "true"), <<"noise", "rule">>, Decision(c).name)]
  ELSE c

\* Faulty variant: edges to a removed component stay.
pruneOutgoing(rels, removed) == SelectSeq(rels, LAMBDA r : r.from \notin removed)

pruneRelationships(rels, removed) ==
  SelectSeq(rels, LAMBDA r : r.from \notin removed /\ r.to \notin removed)

PrefilterEnrich(sbom) ==
  LET removed == {c.ref : c \in {c \in ToSet(sbom.components) : Removed(c)}} \ {NoRef}
  IN  [sbom EXCEPT !.components = MapSeq(SelectSeq(@, LAMBDA c : ~Removed(c)), markAsNoise),
                   !.rels = pruneRelationships(@, removed)]

=============================================================================
