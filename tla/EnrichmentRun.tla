--------------------------- MODULE EnrichmentRun ---------------------------
(***************************************************************************)
(* What a run of the enrichment pipeline promises, without how: enrichers  *)
(* are performed one at a time, each at most once and after the            *)
(* dependencies it declares, and the run succeeds only when all of them    *)
(* were performed.  Pipeline implements it.                                *)
(***************************************************************************)
EXTENDS Functions

CONSTANTS Registries

VARIABLES
  enrichers,  \* the names in the run
  deps,       \* the names each of them depends on
  performed,  \* the enrichers that returned without an error
  outcome     \* "running", "enriched" or "failed"

vars == <<enrichers, deps, performed, outcome>>

Init ==
  /\ \E r \in Registries : enrichers = r.enrichers /\ deps = r.deps
  /\ performed = {}
  /\ outcome = "running"

Perform(e) ==
  /\ outcome = "running"
  /\ e \in Range(enrichers) \ performed
  /\ deps[e] \cap Range(enrichers) \subseteq performed
  /\ performed' = performed \cup {e}
  /\ UNCHANGED <<enrichers, deps, outcome>>

Succeed ==
  /\ outcome = "running"
  /\ performed = Range(enrichers)
  /\ outcome' = "enriched"
  /\ UNCHANGED <<enrichers, deps, performed>>

Fail ==
  /\ outcome = "running"
  /\ outcome' = "failed"
  /\ UNCHANGED <<enrichers, deps, performed>>

Next == (\E e \in Range(enrichers) : Perform(e)) \/ Succeed \/ Fail

Spec == Init /\ [][Next]_vars
=============================================================================
