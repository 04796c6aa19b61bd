--------------------------- MODULE FakeGPUConfig ---------------------------
(***************************************************************************)
(* The pure part of the operator: what a FakeGPUConfig spec means.         *)
(*                                                                         *)
(* A spec is a record with the fields of FakeGPUConfigSpec                 *)
(* (api/v1alpha1/fakegpuconfig_types.go).  An optional pointer field that  *)
(* is not set is Nil; a Go map used as a selector is the set of its        *)
(* <<key, value>> pairs; a Go string that is not set is "".  Node labels   *)
(* are a total function on LabelKeys whose value is Nil where the label is *)
(* absent.                                                                 *)
(***************************************************************************)
EXTENDS Naturals

CONSTANTS
    Configs,               \* names of FakeGPUConfig objects
    UserLabels,            \* node label keys that belong to the cluster, not to the operator
    RelatedImageRegistry,  \* RELATED_IMAGE_REGISTRY, "" when it is not set
    RelatedImageTag,       \* RELATED_IMAGE_TAG, "" when it is not set
    Nil                    \* nil pointer, absent label, absent object

-----------------------------------------------------------------------------
(* GPU profiles (internal/profiles/profiles.go). *)

Profiles ==
    [a100  |-> [Name |-> "a100",  Product |-> "NVIDIA-A100-SXM4-40GB", Memory |-> 40960,  Architecture |-> "Ampere"],
     h100  |-> [Name |-> "h100",  Product |-> "NVIDIA-H100-80GB-HBM3", Memory |-> 81920,  Architecture |-> "Hopper"],
     h200  |-> [Name |-> "h200",  Product |-> "NVIDIA-H200",           Memory |-> 143771, Architecture |-> "Hopper"],
     b200  |-> [Name |-> "b200",  Product |-> "NVIDIA-B200",           Memory |-> 196608, Architecture |-> "Blackwell"],
     gb200 |-> [Name |-> "gb200", Product |-> "NVIDIA-GB200-NVL",      Memory |-> 196608, Architecture |-> "Blackwell"],
     l40s  |-> [Name |-> "l40s",  Product |-> "NVIDIA-L40S",           Memory |-> 49152,  Architecture |-> "Ada Lovelace"],
     t4    |-> [Name |-> "t4",    Product |-> "Tesla-T4",              Memory |-> 16384,  Architecture |-> "Turing"]]

\* profiles.Get: Nil stands for ok = false.
Get(name) == IF name \in DOMAIN Profiles THEN Profiles[name] ELSE Nil

\* The profile a spec asks for; Nil stands for the error.  custom wins over
\* gpuProfile and has no architecture.
resolveProfile(spec) ==
    IF spec.custom # Nil
    THEN [Name |-> "custom", Product |-> spec.custom.gpuProduct,
          Memory |-> spec.custom.gpuMemory, Architecture |-> ""]
    ELSE Get(spec.gpuProfile)

-----------------------------------------------------------------------------
(* Switches of a spec, read with the code's defaults. *)

MIGEnabled(spec) == spec.mig # Nil /\ spec.mig.enabled

\* components == nil || components.X
OnByDefault(spec, component) == spec.components = Nil \/ spec.components[component]

\* components != nil && components.X
OffByDefault(spec, component) == spec.components # Nil /\ spec.components[component]

\* What the API server stores when the operator writes a spec back from its Go
\* struct: a switch that is off is omitempty and is not sent, and a switch that
\* is missing gets its default.
OnWhenMissing == {"devicePlugin", "metricsExporter", "topologyServer", "statusUpdater"}
WrittenBack(spec) ==
    [spec EXCEPT !.components =
        IF spec.components = Nil THEN Nil
        ELSE [x \in DOMAIN spec.components |-> x \in OnWhenMissing \/ spec.components[x]]]

migStrategy(spec) == IF MIGEnabled(spec) THEN spec.mig.strategy ELSE "none"

-----------------------------------------------------------------------------
(* Node labels and node selection. *)

nodePoolLabel   == "run.ai/simulated-gpu-node-pool"
deployDPLabel   == "nvidia.com/gpu.deploy.device-plugin"
deployDCGMLabel == "nvidia.com/gpu.deploy.dcgm-exporter"
dynamicMIGLabel == "node-role.kubernetes.io/runai-dynamic-mig"
deployDRALabel  == "nvidia.com/gpu.deploy.dra-plugin-gpu"
deployCDLabel   == "nvidia.com/gpu.deploy.compute-domain-dra-plugin"

OperatorLabels ==
    {nodePoolLabel, deployDPLabel, deployDCGMLabel, dynamicMIGLabel, deployDRALabel, deployCDLabel}

LabelKeys   == OperatorLabels \cup UserLabels
LabelValues == {"", "true"} \cup Configs
Labels      == [LabelKeys -> LabelValues \cup {Nil}]

\* (Mutant: the DRA switch sets no label.)
DeployLabels_NoDRA(spec) ==
    {deployDPLabel, deployDCGMLabel}
        \cup (IF MIGEnabled(spec) THEN {dynamicMIGLabel} ELSE {})
        \cup (IF OffByDefault(spec, "computeDomainController") THEN {deployCDLabel} ELSE {})

\* The labels, besides the pool label, that reconcileNodeLabels sets to "true".
DeployLabels(spec) ==
    {deployDPLabel, deployDCGMLabel}
        \cup (IF MIGEnabled(spec) THEN {dynamicMIGLabel} ELSE {})
        \cup (IF OffByDefault(spec, "dra") THEN {deployDRALabel} ELSE {})
        \cup (IF OffByDefault(spec, "computeDomainController") THEN {deployCDLabel} ELSE {})

\* A node's labels after the loop body of reconcileNodeLabels.
Labelled(labels, c, spec) ==
    [k \in LabelKeys |-> IF k = nodePoolLabel THEN c
                         ELSE IF k \in DeployLabels(spec) THEN "true"
                         ELSE labels[k]]

\* (Mutant: the label of the DRA plugin is not taken off.)
Unlabelled_KeepsDRA(labels) ==
    [k \in LabelKeys |-> IF k \in OperatorLabels \ {deployDRALabel} THEN Nil ELSE labels[k]]

\* A node's labels after the loop body of handleDeletion.
Unlabelled(labels) ==
    [k \in LabelKeys |-> IF k \in OperatorLabels THEN Nil ELSE labels[k]]

\* client.MatchingLabels, as the API machinery evaluates it: the key must be
\* present, and an empty selector value asks for the empty label value.
MatchingLabels(labels, selector) == \A p \in selector : labels[p[1]] = p[2]

\* (Mutant: the spec's selector is ignored.)
nodeListOption_PoolOnly(c, spec) == {<<nodePoolLabel, c>>}

\* The selector reconcileNodeLabels and updateStatus list nodes with.
nodeListOption(c, spec) ==
    IF spec.nodeSelector # {} THEN spec.nodeSelector ELSE {<<nodePoolLabel, c>>}

\* node.Labels[k] in Go: a missing key reads as "".
GoLookup(labels, k) == IF labels[k] = Nil THEN "" ELSE labels[k]

\* (Mutant: only nodes that are in the pool already are watched.)
nodeMatchesCfg_PoolOnly(labels, c, spec) == GoLookup(labels, nodePoolLabel) = c

\* The test the node watch uses to find the configs to enqueue.
nodeMatchesCfg(labels, c, spec) ==
    IF spec.nodeSelector # {}
    THEN \A p \in spec.nodeSelector : GoLookup(labels, p[1]) = p[2]
    ELSE GoLookup(labels, nodePoolLabel) = c

-----------------------------------------------------------------------------
(* Container images (internal/resources/images.go).  A reference built from *)
(* registry, repository and tag is a triple, an override is a 1-tuple.      *)

\* A component's repository: its own name for all components but three.
componentRepos(component) ==
    CASE component = "metrics-exporter"   -> "status-exporter"
      [] component = "dra-plugin"         -> "dra-plugin-gpu"
      [] component = "compute-domain-dra" -> "compute-domain-dra-plugin"
      [] OTHER                            -> component

DefaultRegistry ==
    IF RelatedImageRegistry # "" THEN RelatedImageRegistry ELSE "ghcr.io/run-ai/fake-gpu-operator"

DefaultTag == IF RelatedImageTag # "" THEN RelatedImageTag ELSE "0.1.0"

\* (Mutant: the environment wins over the config.)
Image_EnvironmentFirst(component, registry, tag, overrides) ==
    IF component \in DOMAIN overrides
    THEN <<overrides[component]>>
    ELSE <<IF RelatedImageRegistry # "" \/ registry = "" THEN DefaultRegistry ELSE registry,
           componentRepos(component),
           IF RelatedImageTag # "" \/ tag = "" THEN DefaultTag ELSE tag>>

Image(component, registry, tag, overrides) ==
    IF component \in DOMAIN overrides
    THEN <<overrides[component]>>
    ELSE <<IF registry = "" THEN DefaultRegistry ELSE registry,
           componentRepos(component),
           IF tag = "" THEN DefaultTag ELSE tag>>

imageFor(spec, component) ==
    IF spec.images = Nil
    THEN Image(component, "", "", <<>>)
    ELSE Image(component, spec.images.registry, spec.images.tag, spec.images.overrides)
=============================================================================
