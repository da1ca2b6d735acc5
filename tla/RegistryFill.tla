---------------------------- MODULE RegistryFill ----------------------------
(***************************************************************************)
(* What the registry enricher does with an answer                          *)
(* (internal/enrich/registry/enricher.go); how the answer is come by is    *)
(* module Registry's.                                                      *)
(***************************************************************************)
EXTENDS SBOM

CONSTANT
  Answers        \* PURL name -> [desc, author, supplier, lics, hashes, links]:
                 \* what the registries hold, licences as <<"id", text>> or <<"name", text>>

(* licensePresent: by identifier, by name, or as a whole expression. *)
licensePresent(existing, l) ==
  \E e \in ToSet(existing) :
    \/ e = <<l[1], <<l[2]>>>>
    \/ l[1] = "id" /\ e = <<"expression", <<l[2]>>>>

addLicenses(lics, new) ==
  FoldLeft(LAMBDA acc, l : IF l[2] = "" \/ licensePresent(acc, l) THEN acc ELSE Append(acc, <<l[1], <<l[2]>>>>),
           lics, new)

(* One value per algorithm: an existing one stays. *)
addHashes(hashes, new) ==
  FoldLeft(LAMBDA acc, h : IF h[2] = "" \/ h[1] \in {g[1] : g \in ToSet(acc)} THEN acc ELSE Append(acc, h),
           hashes, new)

setIfAbsent(props, key, value) == IF value = "" \/ HasProp(props, key) THEN props ELSE SetProp(props, key, value)

\* Faulty variant: the registry's value replaces the producer's.
FillOver(old, new) == IF new = "" THEN old ELSE new

Fill(old, new) == IF old = "" THEN new ELSE old

(* applyMetadata; links stands for the homepage, repository, bug tracker   *)
(* and documentation.                                                      *)
applyMetadata(c, meta) ==
  [c EXCEPT !.desc = Fill(@, meta.desc), !.author = Fill(@, meta.author), !.supplier = Fill(@, meta.supplier),
            !.lics = addLicenses(@, meta.lics), !.hashes = addHashes(@, meta.hashes),
            !.props = setIfAbsent(SetProp(@, <<"registry", "source">>, c.purl[1]),
                                  <<"registry", "homepage">>, meta.links)]

(* Enrich: answered are the PURLs whose lookup succeeds in this run. *)
RegistryEnrich(sbom, answered) ==
  [sbom EXCEPT !.components =
     Walk(@, LAMBDA c : IF c.purl # <<>> /\ c.purl[1] \in answered \cap DOMAIN Answers
                        THEN applyMetadata(c, Answers[c.purl[1]]) ELSE c)]

=============================================================================
