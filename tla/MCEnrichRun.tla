---------------------------- MODULE MCEnrichRun ----------------------------
(* Sets of flags for the enrich command.                                   *)
EXTENDS EnrichRun, EnricherRegistry

Plain == [remote |-> FALSE, noNetwork |-> FALSE, enable |-> {}, base |-> TRUE, cpe |-> "hybrid",
          lifecycle |-> "hybrid", registry |-> TRUE, metrics |-> "off", format |-> "known",
          output |-> "file", sign |-> "none", key |-> FALSE, target |-> "none", failOn |-> "", policy |-> "default"]

\* Every key and target for each way to sign.
Signing ==
  {[Plain EXCEPT !.sign = s, !.key = k, !.target = t] :
     s \in {"cosign-key", "cosign-keyless", "unknown"}, k \in BOOLEAN, t \in {"none", "file"}}

Outputs ==
  {[Plain EXCEPT !.output = o, !.metrics = m, !.sign = s, !.key = TRUE, !.target = "image"] :
     o \in {"file", "stdout", "empty"}, m \in {"on", "unwritable"}, s \in {"none", "cosign-key"}}

Network ==
  {[Plain EXCEPT !.remote = r, !.noNetwork = n, !.base = b, !.enable = e] :
     r \in BOOLEAN, n \in BOOLEAN, b \in BOOLEAN, e \in {{"basediff"}, {"cpe", "registry"}}}

Gates == {[Plain EXCEPT !.failOn = f, !.policy = "custom"] : f \in {"ignored", "info", "high", "typo"}}
           \cup {[Plain EXCEPT !.format = "unknown"]}

\* Offline runs that sign, and offline runs whose mode flags ask for the network.
Offline ==
  {[Plain EXCEPT !.noNetwork = TRUE, !.sign = "cosign-keyless", !.target = t] : t \in {"none", "file", "image"}}
    \cup {[Plain EXCEPT !.noNetwork = n, !.enable = e, !.cpe = m, !.lifecycle = m, !.registry = r] :
            n \in BOOLEAN, e \in {{"cpe", "lifecycle"}, {"registry", "untracked"}},
            m \in {"online", "typo"}, r \in BOOLEAN}
    \cup {[Plain EXCEPT !.cpe = "offline", !.lifecycle = "off", !.enable = {"cpe", "lifecycle"}]}

AllOptions == Signing \cup Outputs \cup Network \cup Offline \cup Gates
ManyFindings == {[default |-> "ignored", custom |-> "ignored"], [default |-> "high", custom |-> "info"]}
=============================================================================
