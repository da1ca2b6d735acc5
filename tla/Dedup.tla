------------------------------- MODULE Dedup --------------------------------
(***************************************************************************)
(* The dedup enricher (internal/enrich/dedup): components with one key     *)
(* become one, at the place of the first of them.                          *)
(***************************************************************************)
EXTENDS SBOM

canonicalPURL(purl) == Lower(purl[1] \o "@" \o purl[2])

canonicalCPE(cpe) == Lower(cpe)

findHash(c, alg) ==
  LET found == SelectSeq(c.hashes, LAMBDA h : h[1] = alg /\ h[2] # "")
  IN  IF found = <<>> THEN "" ELSE found[1][2]

(* The strongest identity a component has; << >> when it has none, which   *)
(* keeps it out of every group.                                            *)
dedupKey(c) ==
  LET cpes == SelectSeq(c.cpes, LAMBDA cpe : cpe # "") IN
  IF c.purl # <<>> THEN <<"purl", canonicalPURL(c.purl)>>
  ELSE IF cpes # <<>> THEN <<"cpe", canonicalCPE(cpes[1])>>
  ELSE IF findHash(c, "sha256") # "" THEN <<"sha256", Lower(findHash(c, "sha256"))>>
  ELSE IF c.name # "" /\ c.ver # "" THEN <<"nvt", Lower(c.type), Lower(c.name), Lower(c.ver)>>
  ELSE <<>>

primaryScore(c) ==
  (IF c.purl # <<>> THEN 100 ELSE 0) + (IF c.cpes # <<>> THEN 10 ELSE 0) + Len(c.locs)

(* The first of the members with the highest score. *)
pickPrimary(comps, idxs) ==
  CHOOSE i \in idxs : \A j \in idxs :
    LET si == primaryScore(comps[i]) sj == primaryScore(comps[j])
    IN  si > sj \/ (si = sj /\ i <= j)

\* Faulty variant: the secondary's locations are lost.
mergeEvidenceShort(a, b) == [method |-> IF a.method = "" THEN b.method ELSE a.method, locs |-> a.locs]

mergeEvidence(a, b) ==
  [method |-> IF a.method = "" THEN b.method ELSE a.method,
   locs |-> a.locs \o FirstOfEach(SelectSeq(b.locs, LAMBDA l : l \notin ToSet(a.locs)), LAMBDA l : l)]

mergeHashes(a, b) ==
  FirstOfEach(SelectSeq(a \o b, LAMBDA h : h[2] # ""), LAMBDA h : <<Lower(h[1]), Lower(h[2])>>)

mergeCPEs(a, b) == FirstOfEach(SelectSeq(a \o b, LAMBDA cpe : cpe # ""), canonicalCPE)

mergeLicenses(a, b) ==
  FirstOfEach(SelectSeq(a \o b, LAMBDA l : l[2] # <<>>), LAMBDA l : <<l[1], MapSeq(l[2], Lower)>>)

(* The primary's value stays; a different one of the secondary is left     *)
(* under a conflict key, in place of what an earlier member left there.    *)
mergeProps(a, b) ==
  LET clash == {k \in DOMAIN a \cap DOMAIN b : a[k] # b[k]}
  IN  [k \in {<<"dedup", "conflict">> \o c : c \in clash} |-> b[SubSeq(k, 3, Len(k))]]
        @@ a @@ b

Count(props) == LET key == <<"dedup", "merged-count">>
                    is(n) == HasProp(props, key) /\ props[key] = ToString(n)
                IN  IF \E n \in 1 .. 9 : is(n) THEN CHOOSE n \in 1 .. 9 : is(n) ELSE 0

mergePair(primary, secondary) ==
  LET evidence == mergeEvidence(primary, secondary)
      props    == mergeProps(primary.props, secondary.props)
      layers   == IF primary.layer # <<>> /\ secondary.layer # <<>> /\ primary.layer[2] # secondary.layer[2]
                  THEN SetProp(props, <<"dedup", "also-in-layer">>, ToString(secondary.layer[2]))
                  ELSE props
  IN  [primary EXCEPT
         !.method = evidence.method, !.locs = evidence.locs,
         !.hashes = mergeHashes(@, secondary.hashes), !.cpes = mergeCPEs(@, secondary.cpes),
         !.lics = mergeLicenses(@, secondary.lics),
         !.layer = IF @ = <<>> THEN secondary.layer ELSE @,
         !.props = SetProp(layers, <<"dedup", "merged-count">>, ToString(Count(layers) + 1))]

(* Run: the group of each first member, folded into its primary. *)
DedupRun(comps) ==
  LET group(i) == {j \in DOMAIN comps : dedupKey(comps[j]) = dedupKey(comps[i])}
      emitted  == SelectSeq([i \in DOMAIN comps |-> i],
                            LAMBDA i : dedupKey(comps[i]) = <<>> \/ \A j \in group(i) : i <= j)
      merged(i) == LET p    == pickPrimary(comps, group(i))
                       rest == SelectSeq([j \in DOMAIN comps |-> j], LAMBDA j : j \in group(i) \ {p})
                   IN  FoldLeft(mergePair, comps[p], MapSeq(rest, LAMBDA j : comps[j]))
  IN  MapSeq(emitted, LAMBDA i : IF dedupKey(comps[i]) = <<>> THEN comps[i] ELSE merged(i))

(* The members of a group with all they contain, each with the primary it  *)
(* went into.                                                              *)
MergedInto(comps) ==
  LET group(i) == {j \in DOMAIN comps : dedupKey(comps[j]) = dedupKey(comps[i])}
  IN  UNION {{<<c.ref, comps[pickPrimary(comps, group(i))].ref>> : c \in ToSet(Flat(<<comps[i]>>))} :
               i \in {i \in DOMAIN comps : dedupKey(comps[i]) # <<>>}}

(* Enrich: the components alone; relationships are left as they are. *)
DedupEnrich(sbom) == [sbom EXCEPT !.components = DedupRun(@)]

=============================================================================
