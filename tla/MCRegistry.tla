--------------------------- MODULE MCRegistry ---------------------------
(* Two processes over one cache directory.  npm is served over HTTP, cargo   *)
(* by a stub, and an entry can be asked for twice.                           *)
EXTENDS Registry, TLC

CONSTANTS p1, p2, npm, cargo

MCProcs   == {p1, p2}
MCKeys    == {npm, cargo}
MCSources == npm :> <<"http">> @@ cargo :> <<"stub">>
MCLists   == {<<npm, npm>>, <<cargo, npm>>}

\* Without mirrors; with mirrors of both modes, the replacing one by default and
\* last in the list; with a fallback only; and without the network.
MCConfigs ==
  {[mirrors |-> <<>>, network |-> TRUE, disk |-> TRUE],
   [mirrors |-> <<"fallback", "">>, network |-> TRUE, disk |-> FALSE],
   [mirrors |-> <<"fallback">>, network |-> TRUE, disk |-> FALSE],
   [mirrors |-> <<"replace">>, network |-> FALSE, disk |-> TRUE]}
=============================================================================
