---------------------------- MODULE MCPipeline ----------------------------
(* Instances of Pipeline for TLC.                                          *)
EXTENDS Pipeline, EnricherRegistry

\* Every dependency relation over three names, acyclic or not, with several
\* selections and orders of the names, one of them possibly registered twice.
SmallNames == {"a", "b", "c"}
AllNames == SmallNames \cup EnricherNames

\* The dependencies of the names in f, none for the others.
Extended(f) == [n \in AllNames |-> IF n \in DOMAIN f THEN f[n] ELSE {}]

SmallRegistries ==
  {[enrichers |-> e, deps |-> Extended(d)] :
     e \in {<<>>, <<"a">>, <<"b", "a">>, <<"a", "b", "c">>, <<"c", "b", "a">>, <<"a", "b", "a">>},
     d \in [SmallNames -> SUBSET SmallNames]}

\* The command's registry under every combination of --disable flags (an
\* --enable list leaves the same subsets).
CommandRegistries ==
  {[enrichers |-> Filter(Registered, {}, off), deps |-> Extended(Dependencies)] :
     off \in SUBSET EnricherNames}

AllRegistries == SmallRegistries \cup CommandRegistries

\* The premise of AttributionTheorem holds of every selection.
ASSUME CommandAssumption == \A r \in CommandRegistries : AttributionFirst(r.enrichers, r.deps)
=============================================================================
