-------------------------- MODULE EnrichRunProofs --------------------------
(***************************************************************************)
(* What the exit code of `astinus enrich` means, for every set of flags,   *)
(* every outcome of every step and any number of runs over the same output *)
(* path, killed or not.                                                    *)
(***************************************************************************)
EXTENDS EnrichRun, TLAPS

\* What holds at each statement of runEnrich: the output is untouched until
\* output.Open, partial until Close, then delivered; the gate is reached with
\* the signature made.
Progress ==
  /\ step \in Steps \ {"idle", "render", "sign", "gate"} => file = before
  /\ step = "render" => /\ opts.output \in {"file", "stdout"}
                        /\ opts.output = "file" => file.run = run
  /\ step \in {"sign", "gate"} => Delivered
  /\ step = "gate" => SignedAsAsked
  /\ step # "idle" => run > 0

IInv ==
  /\ TypeOK /\ Progress
  /\ SuccessIsComplete /\ NoTruncatedSBOMSigned /\ EarlyFailureKeepsOutput /\ HooksKeepTheSBOM

\* The variables keep their types (runEnrich).
THEOREM TypeCorrect == Spec => []TypeOK
<1> USE EnrichRunAssumption
<1>1. Init => TypeOK
  BY DEF Init, TypeOK, NoFile, NoSignature, Steps, Codes, Running
<1>2. TypeOK /\ [Next]_vars => TypeOK'
  <2> SUFFICES ASSUME TypeOK, [Next]_vars PROVE TypeOK'
    OBVIOUS
  <2> USE DEF TypeOK, Steps, Codes, Running, Killed, At, Goto, Return, disk, input
  <2>1. CASE Start
    BY <2>1 DEF Start
  <2>2. CASE LoadSBOM
    BY <2>2 DEF LoadSBOM, GoOnOrFail
  <2>3. CASE LoadConfig
    BY <2>3 DEF LoadConfig, GoOnOrFail
  <2>4. CASE RefuseNetwork
    BY <2>4 DEF RefuseNetwork
  <2>5. CASE BuildTransport
    BY <2>5 DEF BuildTransport, GoOnOrFail
  <2>6. CASE OpenImage
    BY <2>6 DEF OpenImage
  <2>7. CASE AllEnrichers
    BY <2>7 DEF AllEnrichers, GoOnOrFail
  <2>8. CASE RunPipeline
    <3>1. MayCall \subseteq Networked
      BY DEF MayCall, Networked
    <3>2. QED BY <2>8, <3>1 DEF RunPipeline, WriteMetrics
  <2>9. CASE GetRenderer
    BY <2>9 DEF GetRenderer
  <2>10. CASE OpenOutput
    <3>1. run' = run /\ run \in 0 .. run
      BY <2>10 DEF OpenOutput
    <3>2. file' \in [run : 0 .. run, content : {"none", "partial", "whole"}]
      <4>1. file' = [run |-> run, content |-> "partial"] \/ file' = file
        BY <2>10 DEF OpenOutput
      <4>2. [run |-> run, content |-> "partial"] \in [run : 0 .. run, content : {"none", "partial", "whole"}]
        BY <3>1
      <4>3. QED BY <4>1, <4>2
    <3>3. step' \in Steps /\ exit' \in Codes /\ (step' = "idle" <=> exit' # Running)
      BY <2>10 DEF OpenOutput
    <3>4. QED BY <2>10, <3>1, <3>2, <3>3 DEF OpenOutput
  <2>11. CASE Render
    <3>1. run' = run /\ run \in 0 .. run
      BY <2>11 DEF Render
    <3>2. file' \in [run : 0 .. run, content : {"none", "partial", "whole"}] /\ stdout' \in 0 .. run
      <4>1. file' = [file EXCEPT !.content = "whole"] \/ file' = file
        BY <2>11 DEF Render
      <4>2. [file EXCEPT !.content = "whole"] \in [run : 0 .. run, content : {"none", "partial", "whole"}]
        OBVIOUS
      <4>3. stdout' = run \/ stdout' = stdout
        BY <2>11 DEF Render
      <4>4. stdout' \in 0 .. run
        BY <3>1, <4>3
      <4>5. file' \in [run : 0 .. run, content : {"none", "partial", "whole"}]
        BY <4>1, <4>2
      <4>6. QED BY <4>4, <4>5
    <3>3. step' \in Steps /\ exit' \in Codes /\ (step' = "idle" <=> exit' # Running)
      BY <2>11 DEF Render
    <3>4. QED BY <2>11, <3>1, <3>2, <3>3 DEF Render
  <2>12. CASE Sign
    <3>1. IsOptions(opts)
      OBVIOUS
    <3>2. signature' \in [run : 0 .. run, content : {"none", "partial", "whole"},
                          with : {"none", "cosign-key", "cosign-keyless"}]
      <4>1. CASE UNCHANGED signature
        BY <4>1
      <4>2. CASE Cosign
        BY <4>2 DEF Cosign
      <4>3. QED BY <2>12, <4>1, <4>2 DEF Sign
    <3>3. step' \in Steps /\ exit' \in Codes /\ (step' = "idle" <=> exit' # Running)
      BY <2>12 DEF Sign
    <3>4. outbound' \subseteq Networked \cup {"image", "cosign"}
      BY <2>12 DEF Sign, CosignCalls
    <3>5. UNCHANGED <<run, opts, found, before, file, stdout, metrics>>
      BY <2>12 DEF Sign
    <3>6. QED BY <3>2, <3>3, <3>4, <3>5
  <2>13. CASE Gate
    <3>1. PICK code \in {0, 2, 40} : Return(code)
      BY <2>13 DEF Gate
    <3>2. UNCHANGED <<run, opts, found, before, outbound, file, stdout, signature, metrics>>
      BY <2>13 DEF Gate
    <3>3. QED BY <3>1, <3>2
  <2>14. CASE Kill
    BY <2>14 DEF Kill
  <2>15. CASE UNCHANGED vars
    BY <2>15 DEF vars
  <2>16. QED
    BY <2>1, <2>2, <2>3, <2>4, <2>5, <2>6, <2>7, <2>8, <2>9, <2>10, <2>11, <2>12, <2>13,
       <2>14, <2>15 DEF Next, Advance
<1>3. QED BY <1>1, <1>2, PTL DEF Spec

\* The invariant that ties the statement a run is at to what is on disk is
\* inductive: it holds at first, and each statement keeps it.
THEOREM RunInvariant == Spec => []IInv
<1>1. Init => IInv
  BY EnrichRunAssumption
     DEF Init, IInv, TypeOK, Progress, NoFile, NoSignature, Steps, Codes, Running, Ended,
         SuccessIsComplete, NoTruncatedSBOMSigned, EarlyFailureKeepsOutput, HooksKeepTheSBOM
<1>2. IInv /\ TypeOK' /\ [Next]_vars => IInv'
  <2> SUFFICES ASSUME IInv, TypeOK', [Next]_vars PROVE IInv'
    OBVIOUS
  <2>0. step \in Steps /\ exit \in Codes /\ run \in Nat /\ file \in [run : 0 .. run, content : {"none", "partial", "whole"}]
    BY EnrichRunAssumption DEF IInv, TypeOK
  \* Neither the inputs nor the disk change: what was delivered or signed stays.
  <2>1. ASSUME UNCHANGED <<run, opts, found, before, file, stdout, signature>>
        PROVE  /\ Delivered' <=> Delivered
               /\ SignedAsAsked' <=> SignedAsAsked
               /\ GatePassed' <=> GatePassed
    BY <2>1 DEF Delivered, SignedAsAsked, GatePassed, GateHit, GateSeverity, AtLeast
  \* What is left to show of a statement that returns, and of one that goes on.
  <2>a. ASSUME step' = "idle", NoTruncatedSBOMSigned',
               exit' = 0 => Delivered' /\ SignedAsAsked' /\ GatePassed',
               exit' \in {3, 4, 5, 30} => file' = before',
               exit' \in {40, 50} => Delivered',
               exit' = 40 => SignedAsAsked'
        PROVE  IInv'
    <3>1. Progress'
      BY <2>a DEF Progress, Steps
    <3>2. SuccessIsComplete' /\ EarlyFailureKeepsOutput' /\ HooksKeepTheSBOM'
      BY <2>a DEF Ended, SuccessIsComplete, EarlyFailureKeepsOutput, HooksKeepTheSBOM
    <3>3. QED BY <2>a, <3>1, <3>2 DEF IInv
  <2>b. ASSUME step' # "idle", NoTruncatedSBOMSigned', Progress'
        PROVE  IInv'
    <3>1. SuccessIsComplete' /\ EarlyFailureKeepsOutput' /\ HooksKeepTheSBOM'
      BY <2>b DEF Ended, SuccessIsComplete, EarlyFailureKeepsOutput, HooksKeepTheSBOM
    <3>2. QED BY <2>b, <3>1 DEF IInv
  <2>c. NoTruncatedSBOMSigned
    BY DEF IInv
  <2> USE DEF At, Goto, Return, disk, input, Running, Killed, Steps
  <2>2. CASE Start
    <3>1. Progress'
      BY <2>2, <2>0 DEF Start, Progress
    <3>2. QED
      BY <2>2, <3>1 DEF Start, IInv, Ended, SuccessIsComplete, NoTruncatedSBOMSigned,
         EarlyFailureKeepsOutput, HooksKeepTheSBOM
  <2>3. ASSUME UNCHANGED <<run, opts, found, before, file, stdout, signature>>,
               step \in {"sbom", "config", "network", "transport", "image", "enrichers",
                         "pipeline", "renderer"},
               \/ step' \in {"config", "network", "transport", "image", "enrichers",
                             "pipeline", "renderer", "output"}
               \/ step' = "idle" /\ exit' \in {2, 3, 4, 5, 30}
        PROVE  IInv'
    <3>1. file = before /\ run > 0
      BY <2>3 DEF IInv, Progress
    <3>2. Progress'
      BY <2>3, <3>1 DEF Progress
    <3>3. SuccessIsComplete' /\ EarlyFailureKeepsOutput' /\ HooksKeepTheSBOM'
      BY <2>3, <3>1 DEF Ended, SuccessIsComplete, EarlyFailureKeepsOutput, HooksKeepTheSBOM
    <3>4. QED BY <2>3, <3>2, <3>3 DEF IInv, NoTruncatedSBOMSigned
  <2>4. CASE LoadSBOM \/ LoadConfig \/ BuildTransport \/ AllEnrichers
    BY <2>3, <2>4 DEF LoadSBOM, LoadConfig, BuildTransport, AllEnrichers, GoOnOrFail
  <2>5. CASE RefuseNetwork
    BY <2>3, <2>5 DEF RefuseNetwork
  <2>6. CASE OpenImage
    BY <2>3, <2>6 DEF OpenImage
  <2>7. CASE RunPipeline
    BY <2>3, <2>7 DEF RunPipeline
  <2>8. CASE GetRenderer
    BY <2>3, <2>8 DEF GetRenderer
  <2>9. CASE OpenOutput
    <3>1. Progress'
      BY <2>9, <2>0 DEF OpenOutput, IInv, Progress
    <3>2. QED
      BY <2>9, <3>1 DEF OpenOutput, IInv, Ended, SuccessIsComplete, NoTruncatedSBOMSigned,
         EarlyFailureKeepsOutput, HooksKeepTheSBOM
  <2>10. CASE Render
    <3>1. run > 0 /\ opts.output \in {"file", "stdout"} /\ (opts.output = "file" => file.run = run)
      BY <2>10 DEF Render, IInv, Progress
    <3>2. NoTruncatedSBOMSigned'
      BY <2>10, <2>c DEF Render, NoTruncatedSBOMSigned
    <3>3. CASE step' = "sign"
      <4>1. opts.output = "file" => file' = [run |-> run, content |-> "whole"]
        <5>1. opts.output = "file" => file' = [file EXCEPT !.content = "whole"]
          BY <2>10, <3>3 DEF Render
        <5>2. QED BY <2>0, <3>1, <5>1
      <4>2. opts.output # "file" => stdout' = run
        BY <2>10, <3>3 DEF Render
      <4>3. Delivered' /\ run' > 0
        BY <2>10, <3>1, <4>1, <4>2 DEF Render, Delivered
      <4>4. QED BY <2>b, <3>2, <3>3, <4>3 DEF Progress
    <3>4. CASE step' = "idle" /\ exit' = 6
      BY <2>a, <3>2, <3>4
    <3>5. QED BY <2>10, <3>3, <3>4 DEF Render
  <2>11. CASE Sign
    <3>1. run > 0 /\ Delivered
      BY <2>11 DEF Sign, IInv, Progress
    <3>2. Delivered'
      BY <2>11, <3>1 DEF Sign, Delivered
    <3>3. run' = run /\ opts' = opts
      BY <2>11 DEF Sign
    <3>4. CASE step' = "idle" /\ exit' \in {2, 6, 50} /\ signature' = signature
      BY <2>a, <2>c, <3>2, <3>4 DEF NoTruncatedSBOMSigned
    <3>5. CASE step' = "gate" /\ opts.sign = "none" /\ signature' = signature
      <4>1. SignedAsAsked' /\ NoTruncatedSBOMSigned'
        BY <2>c, <3>3, <3>5 DEF SignedAsAsked, NoTruncatedSBOMSigned
      <4>2. QED BY <2>b, <3>1, <3>2, <3>3, <3>5, <4>1 DEF Progress
    <3>6. CASE step' = "gate" /\ Cosign /\ ~SigningRefused
      <4>1. file = [run |-> run, content |-> "whole"]
        BY <3>1, <3>6 DEF SigningRefused, NothingToSign, Delivered
      <4>2. signature'.run = run /\ signature'.content = "whole"
        BY <3>6, <4>1 DEF Cosign
      <4>a. opts.sign = "cosign-key" => signature'.with = "cosign-key"
        BY <3>6 DEF SigningRefused, ValidSignOptions, Cosign
      <4>3. SignedAsAsked' /\ NoTruncatedSBOMSigned'
        BY <3>3, <4>2, <4>a DEF SignedAsAsked, NoTruncatedSBOMSigned
      <4>4. QED BY <2>b, <3>1, <3>2, <3>3, <3>6, <4>3 DEF Progress
    <3>7. QED BY <2>11, <3>4, <3>5, <3>6 DEF Sign
  <2>12. CASE Gate
    <3>1. run > 0 /\ Delivered /\ SignedAsAsked
      BY <2>12 DEF Gate, IInv, Progress
    <3>2. UNCHANGED <<run, opts, found, before, file, stdout, signature>>
      BY <2>12 DEF Gate
    <3>3. step' = "idle" /\ exit' \in {0, 2, 40}
      BY <2>12 DEF Gate
    <3>4. exit' = 0 => GatePassed
      <4>1. "typo" \notin DOMAIN Severity
        BY DEF Severity
      <4>2. 2 # 0 /\ 40 # 0
        OBVIOUS
      <4>3. QED BY <2>12, <4>1, <4>2, Zenon DEF Gate, GatePassed
    <3>5. NoTruncatedSBOMSigned'
      BY <2>c, <3>2 DEF NoTruncatedSBOMSigned
    <3>6. QED BY <2>a, <2>1, <3>1, <3>2, <3>3, <3>4, <3>5
  <2>13. CASE Kill
    <3>1. step' = "idle" /\ exit' = 137 /\ NoTruncatedSBOMSigned'
      BY <2>13, <2>c DEF Kill, NoTruncatedSBOMSigned
    <3>2. QED BY <2>a, <3>1
  <2>14. CASE UNCHANGED vars
    <3>1. UNCHANGED <<run, opts, found, before, file, stdout, signature, step, exit>>
      BY <2>14 DEF vars
    <3>2. Progress' /\ NoTruncatedSBOMSigned'
      BY <2>1, <2>c, <3>1 DEF IInv, Progress, NoTruncatedSBOMSigned
    <3>3. SuccessIsComplete' /\ EarlyFailureKeepsOutput' /\ HooksKeepTheSBOM'
      BY <2>1, <3>1 DEF IInv, Ended, SuccessIsComplete, EarlyFailureKeepsOutput, HooksKeepTheSBOM
    <3>4. QED BY <3>2, <3>3 DEF IInv
  <2>15. QED
    BY <2>2, <2>4, <2>5, <2>6, <2>7, <2>8, <2>9, <2>10, <2>11, <2>12, <2>13, <2>14
       DEF Next, Advance
<1>3. QED BY <1>1, <1>2, TypeCorrect, PTL DEF Spec

\* Exit 0 means that the whole SBOM of the run is delivered, that the signature
\* asked for covers it, and that the gate did not trip (runEnrich,
\* runPostRenderHooks).
THEOREM SuccessTheorem == Spec => []SuccessIsComplete
<1>1. IInv => SuccessIsComplete
  BY DEF IInv
<1>2. QED BY <1>1, RunInvariant, PTL

\* Nothing but a completely written SBOM is ever signed (runSigningStep reads
\* the file back after Close was checked).
THEOREM SignatureTheorem == Spec => []NoTruncatedSBOMSigned
<1>1. IInv => NoTruncatedSBOMSigned
  BY DEF IInv
<1>2. QED BY <1>1, RunInvariant, PTL

\* The exit codes of the stages before output.Open promise that the previous
\* output is intact.
THEOREM EarlyFailureTheorem == Spec => []EarlyFailureKeepsOutput
<1>1. IInv => EarlyFailureKeepsOutput
  BY DEF IInv
<1>2. QED BY <1>1, RunInvariant, PTL

\* The exit codes of the two hooks promise that the new SBOM is in place.
THEOREM HooksTheorem == Spec => []HooksKeepTheSBOM
<1>1. IInv => HooksKeepTheSBOM
  BY DEF IInv
<1>2. QED BY <1>1, RunInvariant, PTL

\* What --no-network keeps to as a run goes on: nothing has been called before
\* image.Open, which is reached only with an image that needs no pull, cosign
\* only by the signing step, and only a refused run ends with 30.
OfflineInv ==
  /\ OfflineCallers
  /\ step \in {"sbom", "config", "network", "transport", "image"} => outbound = {}
  /\ step \in {"transport", "image"} => ~(opts.noNetwork /\ opts.remote)
  /\ step \notin {"gate", "idle"} => "cosign" \notin outbound

\* With --no-network no builder but that of basediff gives its enricher a way
\* out, whatever the mode flags say.
LEMMA OnlyBaseMayCall ==
  opts.noNetwork => /\ MayCall \subseteq {"basediff"}
                    /\ MayCall # {} => opts.base /\ "basediff" \in Kept
BY DEF MayCall, buildFingerprintMatcher, buildCPEEnricher, buildRegistryEnricher, buildLifecycleEnricher,
       basediffOptionsFor

\* Under --no-network a run calls nobody but the registry of a base image it was
\* to compare with and, once its whole SBOM is on disk, cosign's services if it
\* was to sign, whatever flags, outcomes and kills (runEnrich,
\* basediffOptionsFor, runSigningStep).
THEOREM OfflineTheorem == Spec => []OfflineCallers
<1>1. Init => OfflineInv
  BY DEF Init, OfflineInv, OfflineCallers
<1>2. IInv /\ OfflineInv /\ [Next]_vars => OfflineInv'
  <2> SUFFICES ASSUME IInv, OfflineInv, [Next]_vars PROVE OfflineInv'
    OBVIOUS
  <2>0. UNCHANGED opts => UNCHANGED <<Kept, SigningRefused>>
    BY DEF Kept, SigningRefused, NothingToSign, ValidSignOptions
  <2> USE DEF At, Goto, Return, input, disk, OfflineInv, OfflineCallers, Running, Killed
  <2>1. CASE Start
    BY <2>1 DEF Start
  <2>2. CASE LoadSBOM \/ LoadConfig \/ BuildTransport \/ AllEnrichers
    BY <2>0, <2>2 DEF LoadSBOM, LoadConfig, BuildTransport, AllEnrichers, GoOnOrFail
  <2>3. CASE RefuseNetwork
    BY <2>0, <2>3 DEF RefuseNetwork
  <2>4. CASE OpenImage
    BY <2>0, <2>4 DEF OpenImage
  <2>5. CASE RunPipeline
    <3>1. PICK calls \in SUBSET MayCall : outbound' = outbound \cup calls
      BY <2>5 DEF RunPipeline
    <3>2. "cosign" \notin MayCall
      BY DEF MayCall
    <3>3. step = "pipeline" /\ step' \in {"renderer", "idle"} /\ UNCHANGED <<run, opts>>
      BY <2>5 DEF RunPipeline
    <3>4. exit # 30 /\ exit' # 30
      BY <2>5 DEF RunPipeline, IInv, TypeOK
    <3>5. "cosign" \notin outbound /\ "cosign" \notin outbound'
      BY <3>1, <3>2, <3>3
    <3>6. ASSUME opts.noNetwork, run > 0
          PROVE  /\ outbound' \subseteq {"basediff", "cosign"}
                 /\ "basediff" \in outbound' => opts.base /\ "basediff" \in Kept
      BY <3>1, <3>6, OnlyBaseMayCall
    <3>7. QED BY <2>0, <3>3, <3>4, <3>5, <3>6
  <2>6. CASE GetRenderer
    BY <2>0, <2>6 DEF GetRenderer
  <2>7. CASE OpenOutput
    BY <2>0, <2>7 DEF OpenOutput
  <2>8. CASE Render
    BY <2>0, <2>8 DEF Render
  <2>9. CASE Sign
    <3>1. step = "sign" /\ step' \in {"idle", "gate"} /\ exit' # 30 /\ UNCHANGED <<run, opts, file, stdout>>
      <4>1. exit' \in {exit, 2, 6, 50}
        BY <2>9 DEF Sign
      <4>2. step = "sign" => exit # 30
        BY DEF IInv, TypeOK
      <4>3. QED BY <2>9, <4>1, <4>2 DEF Sign
    <3>2. Delivered /\ Delivered'
      <4>1. Delivered
        BY <3>1 DEF IInv, Progress
      <4>2. QED BY <3>1, <4>1 DEF Delivered
    <3>3. \/ outbound' = outbound
          \/ outbound' = outbound \cup {"cosign"} /\ opts.sign # "none" /\ ~SigningRefused
      BY <2>9 DEF Sign, CosignCalls
    <3>4. QED BY <2>0, <3>1, <3>2, <3>3
  <2>10. CASE Gate
    <3>1. step = "gate" /\ step' = "idle" /\ exit' # 30
      <4>1. PICK code \in {0, 2, 40} : Return(code)
        BY <2>10 DEF Gate
      <4>2. step = "gate"
        BY <2>10 DEF Gate
      <4>3. QED BY <4>1, <4>2
    <3>2. UNCHANGED <<run, opts, file, stdout, outbound>>
      BY <2>10 DEF Gate
    <3>3. Delivered' <=> Delivered
      BY <3>2 DEF Delivered
    <3>4. QED BY <2>0, <3>1, <3>2, <3>3
  <2>11. CASE Kill
    <3>1. Delivered' <=> Delivered
      BY <2>11 DEF Kill, Delivered
    <3>2. QED BY <2>0, <2>11, <3>1 DEF Kill
  <2>12. CASE UNCHANGED vars
    <3>1. Delivered' <=> Delivered
      BY <2>12 DEF vars, Delivered
    <3>2. QED BY <2>0, <2>12, <3>1 DEF vars
  <2>13. QED
    BY <2>1, <2>2, <2>3, <2>4, <2>5, <2>6, <2>7, <2>8, <2>9, <2>10, <2>11, <2>12
       DEF Next, Advance
<1>3. OfflineInv => OfflineCallers
  BY DEF OfflineInv
<1>4. QED BY <1>1, <1>2, <1>3, RunInvariant, PTL DEF Spec
=============================================================================
