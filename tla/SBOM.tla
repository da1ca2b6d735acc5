-------------------------------- MODULE SBOM --------------------------------
(***************************************************************************)
(* The canonical SBOM model (internal/sbom/model) and the operations every *)
(* enricher uses on it.  The data are abstracted as far as the properties  *)
(* allow:                                                                  *)
(*   - a BOM reference is <<letters, punctuation>>, since refToID keeps    *)
(*     the letters of a reference only;                                    *)
(*   - a PURL is <<name, version, qualifiers>>, << >> when absent;         *)
(*   - a path is <<lead, rest>>, lead being "/" or "";                     *)
(*   - a hash is <<algorithm, value>>, a licence <<kind, texts>> with a    *)
(*     kind of "id", "expression" or "name";                               *)
(*   - LayerInfo is <<digest, index>>, << >> when nil (the two texts that  *)
(*     go with the digest are left out);                                   *)
(*   - "author" stands for Author, Group, Scope and Publisher, the fields  *)
(*     that only CycloneDX can hold;                                       *)
(*   - the key of a property is the tuple of its parts, without "astinus": *)
(*     astinus:cpe:source is <<"cpe", "source">>.                          *)
(***************************************************************************)
EXTENDS Naturals, Sequences, SequencesExt, TLC

CONSTANT
  Lower(_)       \* strings.ToLower on the strings of the instance

NoRef == <<"", "">>

Component ==
  [ref |-> NoRef, type |-> "library", name |-> "", ver |-> "", purl |-> <<>>,
   cpes |-> <<>>, hashes |-> <<>>, lics |-> <<>>, supplier |-> "", desc |-> "",
   author |-> "", method |-> "", locs |-> <<>>, layer |-> <<>>, origin |-> "",
   props |-> <<>>, subs |-> <<>>]

Metadata == [props |-> <<>>, authors |-> <<>>, tools |-> <<>>, component |-> <<>>, timestamp |-> FALSE]

EmptySBOM == [meta |-> Metadata, components |-> <<>>, rels |-> <<>>, props |-> <<>>]

(* A tool of the metadata. *)
Tool(vendor, name) == [vendor |-> vendor, name |-> name]

Relationship(from, to, type) == [from |-> from, to |-> to, type |-> type]

-----------------------------------------------------------------------------
(* Property bags. *)

HasProp(props, key) == key \in DOMAIN props

Prop(props, key) == IF HasProp(props, key) THEN props[key] ELSE ""

SetProp(props, key, value) == (key :> value) @@ props

DropProps(props, keys) == [k \in DOMAIN props \ keys |-> props[k]]

PropsUnder(props, head) == {k \in DOMAIN props : Len(k) > 1 /\ k[1] = head}

-----------------------------------------------------------------------------
(* A sequence without the elements whose key occurred before. *)
FirstOfEach(seq, Key(_)) ==
  LET First(i) == \A j \in 1 .. i - 1 : Key(seq[j]) # Key(seq[i])
      Kept     == SelectSeq([i \in DOMAIN seq |-> i], First)
  IN  SubSeq([i \in DOMAIN Kept |-> seq[Kept[i]]], 1, Len(Kept))

(* SubSeq makes TLC evaluate the sequence where it is defined: an EXCEPT on *)
(* a sequence that is still a function constructor is lost by Append.       *)
MapSeq(seq, Op(_)) == SubSeq([i \in DOMAIN seq |-> Op(seq[i])], 1, Len(seq))

Concat(seqs) == FoldLeft(LAMBDA acc, s : acc \o s, <<>>, seqs)

(* Every component and what it contains, depth first. *)
RECURSIVE Flat(_)
Flat(components) == Concat(MapSeq(components, LAMBDA c : <<c>> \o Flat(c.subs)))

(* walk: Op on every component and what it contains.  Components nest to a *)
(* depth of three in the instances.                                        *)
Walk(components, Op(_)) ==
  LET Third(c)  == Op(c)
      Second(c) == LET d == Op(c) IN [d EXCEPT !.subs = MapSeq(d.subs, Third)]
      First(c)  == LET d == Op(c) IN [d EXCEPT !.subs = MapSeq(d.subs, Second)]
  IN  MapSeq(components, First)

(* A PURL as the text a BOMRef or a map key is made of. *)
PURLText(purl) == purl[1] \o "@" \o purl[2] \o purl[3]

RefOf(text) == <<text, "pkg:/@">>

=============================================================================
