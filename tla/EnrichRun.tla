------------------------------ MODULE EnrichRun ------------------------------
(***************************************************************************)
(* `astinus enrich` from its flags to its exit code                        *)
(* (src/internal/cli/enrich.go), run again and again over the same output  *)
(* path: what each run leaves on disk, what it signs, which network calls  *)
(* it makes, and what the exit code says of all that.  A run may be killed *)
(* between any two steps; what it has written stays.                       *)
(***************************************************************************)
EXTENDS Integers, FiniteSets

CONSTANTS
  Enrichers,    \* the names of the enrichers allEnrichers registers
  OptionSets,   \* the flags a run may be given, see IsOptions
  Findings,     \* what the validators may find, see IsFindings
  MaxRuns       \* bound: runs over the same output path

Severity == [ignored |-> -1, info |-> 0, low |-> 1, medium |-> 2, high |-> 3, critical |-> 4]

\* The enrichers that can reach the network; so can image.Open and cosign.
Networked == {"basediff", "untracked", "registry", "lifecycle", "cpe"}

\* remote     --image names something only a registry pull can provide
\* enable     --enable, empty for every enricher
\* base       --base is not "none" (auto or a reference)
\* cpe        --cpe-mode; "typo" is a mode nobody knows
\* lifecycle  --lifecycle-mode, or "off" for --no-lifecycle
\* registry   --no-registry is not given
\* metrics    --metrics-output, and whether its sink can be written
\* output     --output: a file, "-" or the empty path
\* sign, key  --sign-with and whether --signing-key is given
\* target     --signature-output ("file"), --attach-to-image ("image") or neither
\* failOn     --fail-on: "" is no gate, "typo" an unknown severity
IsOptions(o) ==
  /\ DOMAIN o = {"remote", "noNetwork", "enable", "base", "cpe", "lifecycle", "registry",
                 "metrics", "format", "output", "sign", "key", "target", "failOn",
                 "policy"}
  /\ o.remote \in BOOLEAN /\ o.noNetwork \in BOOLEAN /\ o.base \in BOOLEAN
  /\ o.registry \in BOOLEAN /\ o.key \in BOOLEAN
  /\ o.cpe \in {"online", "hybrid", "offline", "typo"}
  /\ o.lifecycle \in {"online", "hybrid", "offline", "typo", "off"}
  /\ o.metrics \in {"off", "on", "unwritable"}
  /\ o.format \in {"known", "unknown"}
  /\ o.output \in {"file", "stdout", "empty"}
  /\ o.sign \in {"none", "cosign-key", "cosign-keyless", "unknown"}
  /\ o.target \in {"none", "file", "image"}
  /\ o.failOn \in DOMAIN Severity \cup {"", "typo"}
  /\ o.policy \in {"default", "custom"}

\* The worst severity found, under the bundled severity policy and under the
\* one of --compliance-config; "ignored" when nothing is left.
IsFindings(f) == DOMAIN f = {"default", "custom"} /\ \A p \in DOMAIN f : f[p] \in DOMAIN Severity

ASSUME EnrichRunAssumption ==
  /\ \A o \in OptionSets : IsOptions(o)
  /\ \A f \in Findings : IsFindings(f)
  /\ Networked \subseteq Enrichers
  /\ MaxRuns \in Nat

Running == 99    \* exit while a run is under way
Killed == 137    \* exit of a run that was killed
Codes == {0, 2, 3, 4, 5, 6, 30, 40, 50, Killed, Running}

Steps == {"idle", "sbom", "config", "network", "transport", "image", "enrichers",
          "pipeline", "renderer", "output", "render", "sign", "gate"}

VARIABLES
  run,        \* how many runs were started
  opts,       \* the flags of the current run
  found,      \* what its SBOM holds for the compliance validators
  step,       \* the statement of runEnrich it is at
  exit,       \* its exit code
  outbound,   \* the parties it has called over the network
  file,       \* the output file: the run that wrote it, and whether all of it
  stdout,     \* the last run whose whole SBOM went to stdout
  signature,  \* what was signed last: the SBOM of which run, whole or not, and with what
  metrics,    \* the last run whose metrics were exported
  before      \* history: the output file when the run started

vars == <<run, opts, found, step, exit, outbound, file, stdout, signature, metrics, before>>

NoFile == [run |-> 0, content |-> "none"]
NoSignature == [run |-> 0, content |-> "none", with |-> "none"]

Init ==
  /\ run = 0
  /\ opts \in OptionSets /\ found \in Findings
  /\ step = "idle" /\ exit = 0
  /\ outbound = {}
  /\ file = NoFile /\ stdout = 0
  /\ signature = NoSignature
  /\ metrics = 0
  /\ before = NoFile

Start ==
  /\ step = "idle" /\ run < MaxRuns
  /\ run' = run + 1
  /\ opts' \in OptionSets /\ found' \in Findings
  /\ step' = "sbom" /\ exit' = Running
  /\ outbound' = {}
  /\ before' = file
  /\ UNCHANGED <<file, stdout, signature, metrics>>

\* A return of runEnrich; the image, once open, is closed by a defer.
Return(code) == step' = "idle" /\ exit' = code

At(s) == step = s
Goto(s) == step' = s /\ UNCHANGED exit
disk == <<file, stdout, signature, metrics>>
input == <<run, opts, found, before>>

-----------------------------------------------------------------------------
(* Up to the pipeline.                                                     *)

\* A step that succeeds and goes on, or fails with an exit code.
GoOnOrFail(s, t, code) ==
  /\ At(s)
  /\ Goto(t) \/ Return(code)
  /\ UNCHANGED <<input, outbound, disk>>

LoadSBOM == GoOnOrFail("sbom", "config", 3)
LoadConfig == GoOnOrFail("config", "network", 2)

RefuseNetwork ==
  /\ At("network")
  /\ IF opts.noNetwork /\ opts.remote THEN Return(30) ELSE Goto("transport")
  /\ UNCHANGED <<input, outbound, disk>>

BuildTransport == GoOnOrFail("transport", "image", 4)

\* image.Open: a source whose image cannot be loaded is closed again.
OpenImage ==
  /\ At("image")
  /\ outbound' = IF opts.remote THEN outbound \cup {"image"} ELSE outbound
  /\ Goto("enrichers") \/ Return(4)
  /\ UNCHANGED <<input, disk>>

AllEnrichers == GoOnOrFail("enrichers", "pipeline", 2)

-----------------------------------------------------------------------------
(* The pipeline.                                                           *)

\* Filter: an empty --enable keeps every enricher, a name nobody has keeps none.
Kept == IF opts.enable = {} THEN Enrichers ELSE Enrichers \cap opts.enable

\* An unknown mode is taken for hybrid.
KnownMode(mode) == IF mode = "typo" THEN "hybrid" ELSE mode

\* What each builder makes of the flags: whether its enricher may reach the
\* network.  Each of them looks at --no-network for itself.
buildFingerprintMatcher == ~opts.noNetwork

buildCPEEnricher ==
  LET mode == IF opts.noNetwork THEN "offline" ELSE KnownMode(opts.cpe) IN
  mode # "offline"

\* Faulty variant: the resolver is built without NetworkOK.
buildRegistryAlwaysOnline == opts.registry

buildRegistryEnricher == opts.registry /\ ~opts.noNetwork

buildLifecycleEnricher ==
  LET mode == IF opts.noNetwork THEN "offline" ELSE KnownMode(opts.lifecycle) IN
  opts.lifecycle # "off" /\ mode # "offline"

\* It looks at --base alone, and never at --no-network.
basediffOptionsFor == opts.base

MayCall ==
  Kept \cap (  {e \in {"untracked"} : buildFingerprintMatcher}
            \cup {e \in {"cpe"} : buildCPEEnricher}
            \cup {e \in {"registry"} : buildRegistryEnricher}
            \cup {e \in {"lifecycle"} : buildLifecycleEnricher}
            \cup {e \in {"basediff"} : basediffOptionsFor})

\* writeMetrics, whose own failure is only logged.
WriteMetrics == metrics' = IF opts.metrics = "on" THEN run ELSE metrics

RunPipeline ==
  /\ At("pipeline")
  /\ \E calls \in SUBSET MayCall : outbound' = outbound \cup calls
  /\ WriteMetrics
  /\ Goto("renderer") \/ Return(5)
  /\ UNCHANGED <<input, file, stdout, signature>>

-----------------------------------------------------------------------------
(* Output.                                                                 *)

GetRenderer ==
  /\ At("renderer")
  /\ IF opts.format = "known" THEN Goto("output") ELSE Return(2)
  /\ UNCHANGED <<input, outbound, disk>>

\* output.Open truncates the file before anything is rendered.
OpenOutput ==
  /\ At("output")
  /\ \/ /\ opts.output = "file"
        /\ file' = [run |-> run, content |-> "partial"]
        /\ Goto("render")
     \/ opts.output = "stdout" /\ Goto("render") /\ UNCHANGED file
     \/ opts.output # "stdout" /\ Return(6) /\ UNCHANGED file
  /\ UNCHANGED <<input, outbound, stdout, signature, metrics>>

\* Faulty variant: the error of Close is dropped (a deferred, unchecked Close).
RenderUncheckedClose ==
  /\ At("render")
  /\ \/ /\ Goto("sign")
        /\ \E c \in {"partial", "whole"} :
             IF opts.output = "file" THEN file' = [file EXCEPT !.content = c] /\ UNCHANGED stdout
                                     ELSE stdout' = run /\ UNCHANGED file
     \/ Return(6) /\ UNCHANGED <<file, stdout>>
  /\ UNCHANGED <<input, outbound, signature, metrics>>

\* Render and Close, both checked; a failure leaves what was written so far.
Render ==
  /\ At("render")
  /\ \/ /\ Goto("sign")
        /\ IF opts.output = "file" THEN file' = [file EXCEPT !.content = "whole"] /\ UNCHANGED stdout
                                   ELSE stdout' = run /\ UNCHANGED file
     \/ Return(6) /\ UNCHANGED <<file, stdout>>
  /\ UNCHANGED <<input, outbound, signature, metrics>>

-----------------------------------------------------------------------------
(* Signing.                                                                *)

\* SignOptions.Validate.
ValidSignOptions == (opts.sign = "cosign-key" => opts.key) /\ opts.target # "none"

\* The checks of runSigningStep before it reads the file back.
NothingToSign == opts.sign = "unknown" \/ opts.output # "file"

\* Those and the check of its options end the step before cosign is looked for.
SigningRefused == NothingToSign \/ ~ValidSignOptions

\* cosign signs the bytes read back from the output file, with the key when
\* one is given.
Cosign ==
  signature' = [run |-> file.run, content |-> file.content,
                with |-> IF opts.key THEN "cosign-key" ELSE "cosign-keyless"]

\* `attest --yes <image>` and `sign-blob --yes` talk to the transparency log,
\* the certificate authority or the image's registry: whether they may is
\* nowhere asked of --no-network.
CosignCalls == outbound' = outbound \cup {"cosign"}

\* Faulty variant: a signing failure is a warning and the run goes on.
SignWarns ==
  /\ At("sign")
  /\ Goto("gate")
  /\ \/ opts.sign # "none" /\ ~SigningRefused /\ Cosign /\ CosignCalls
     \/ UNCHANGED <<signature, outbound>>
  /\ UNCHANGED <<input, file, stdout, metrics>>

Sign ==
  /\ At("sign")
  /\ \/ opts.sign = "none" /\ Goto("gate") /\ UNCHANGED <<signature, outbound>>
     \/ opts.sign # "none" /\ SigningRefused /\ Return(2) /\ UNCHANGED <<signature, outbound>>
     \/ \* the file cannot be read back
        opts.sign # "none" /\ ~NothingToSign /\ Return(6) /\ UNCHANGED <<signature, outbound>>
     \/ /\ opts.sign # "none" /\ ~SigningRefused
        /\ \/ Cosign /\ CosignCalls /\ Goto("gate")
           \/ \* cosign is missing, or failed before or after it called out
              Return(50) /\ UNCHANGED signature /\ (CosignCalls \/ UNCHANGED outbound)
  /\ UNCHANGED <<input, file, stdout, metrics>>

-----------------------------------------------------------------------------
(* The compliance gate.                                                    *)

\* compliance.New(): the gate runs the validators under the bundled policy.
GateSeverity == found["default"]
\* Severity.AtLeast.
AtLeast(s, floor) == Severity[s] >= Severity[floor]

\* Ignored findings are dropped before they are compared.
GateHit == GateSeverity # "ignored" /\ AtLeast(GateSeverity, opts.failOn)

Gate ==
  /\ At("gate")
  /\ \/ opts.failOn = "" /\ Return(0)
     \/ opts.failOn = "typo" /\ Return(2)
     \/ opts.failOn \in DOMAIN Severity /\ GateHit /\ Return(40)
     \/ opts.failOn \in DOMAIN Severity /\ ~GateHit /\ Return(0)
  /\ UNCHANGED <<input, outbound, disk>>

\* The process dies between two steps.
Kill ==
  /\ step # "idle"
  /\ step' = "idle" /\ exit' = Killed
  /\ UNCHANGED <<input, outbound, disk>>

Advance ==
  \/ LoadSBOM \/ LoadConfig \/ RefuseNetwork \/ BuildTransport \/ OpenImage
  \/ AllEnrichers \/ RunPipeline \/ GetRenderer \/ OpenOutput \/ Render \/ Sign \/ Gate

Next == Start \/ Advance \/ Kill

Spec == Init /\ [][Next]_vars

-----------------------------------------------------------------------------
(* Properties.                                                             *)

TypeOK ==
  /\ run \in 0 .. MaxRuns
  /\ opts \in OptionSets /\ found \in Findings
  /\ step \in Steps /\ exit \in Codes
  /\ step = "idle" <=> exit # Running
  /\ outbound \subseteq Networked \cup {"image", "cosign"}
  /\ file \in [run : 0 .. run, content : {"none", "partial", "whole"}]
  /\ before \in [run : 0 .. run, content : {"none", "partial", "whole"}]
  /\ stdout \in 0 .. run /\ metrics \in 0 .. run
  /\ signature \in [run : 0 .. run, content : {"none", "partial", "whole"},
                    with : {"none", "cosign-key", "cosign-keyless"}]

Ended(codes) == step = "idle" /\ run > 0 /\ exit \in codes

\* The SBOM of this run is wholly where --output says.
Delivered ==
  IF opts.output = "file" THEN file = [run |-> run, content |-> "whole"]
                          ELSE opts.output = "stdout" /\ stdout = run

\* The signature that was asked for is that of this run's SBOM, and made with
\* the key if a key was to be used.
SignedAsAsked ==
  opts.sign # "none" => /\ signature.run = run /\ signature.content = "whole"
                        /\ opts.sign = "cosign-key" => signature.with = "cosign-key"

\* No finding the gate looked at reached the floor, if one was given.
GatePassed == opts.failOn = "" \/ (opts.failOn # "typo" /\ ~GateHit)

\* Exit 0 means the whole SBOM of this very run was delivered, the requested
\* signature covers it, and no finding the gate looked at reached the floor.
SuccessIsComplete ==
  Ended({0}) => Delivered /\ SignedAsAsked /\ GatePassed

\* Whatever was signed was a completely written SBOM, whichever runs were
\* killed or failed in between.
NoTruncatedSBOMSigned == signature.run > 0 => signature.content = "whole"

\* A run that fails before it has something to write, or refuses the network,
\* leaves the previous output as it was.
EarlyFailureKeepsOutput == Ended({3, 4, 5, 30}) => file = before

\* "Both produce non-zero exit codes; both leave the SBOM artefact in place"
\* (runPostRenderHooks), and the gate is only reached once signing is done.
HooksKeepTheSBOM ==
  /\ Ended({40, 50}) => Delivered
  /\ Ended({40}) => SignedAsAsked

\* Who a run under --no-network has called, up to and past its exit: a run
\* refused with 30 nobody; any other nobody but the base image's registry, if
\* --base asks for it and basediff is kept, and cosign's services, if a
\* signature is rightly asked for, and those only once the whole SBOM is on disk.  No
\* mode flag brings another caller back (the builders of cli/enrich.go, each
\* with its own test, and runSigningStep).
OfflineCallers ==
  opts.noNetwork /\ run > 0 =>
    /\ outbound \subseteq {"basediff", "cosign"}
    /\ "basediff" \in outbound => opts.base /\ "basediff" \in Kept
    /\ "cosign" \in outbound => opts.sign # "none" /\ ~SigningRefused /\ Delivered
    /\ exit = 30 => outbound = {}

=============================================================================
