---------------------------- MODULE MCRendering ----------------------------
(***************************************************************************)
(* Rendering on every combination of the switches of a spec, of selectors  *)
(* and node labels, and of image settings.                                 *)
(***************************************************************************)
EXTENDS Rendering

CONSTANTS c1, c2, n1

Worker == "node-role.kubernetes.io/worker"
Zone   == "zone"

UserKeys == {Worker, Zone}

Basic ==
    [gpuProfile |-> "h200", gpuCount |-> 8, custom |-> Nil, nodeSelector |-> {},
     mig |-> Nil, components |-> Nil, images |-> Nil]

Bare == [k \in LabelKeys |-> Nil]

Probe(s, l, o) == [config |-> c1, node |-> n1, spec |-> s, labels |-> l, openshift |-> o]

Switches ==
    {Nil} \cup [devicePlugin : {TRUE}, metricsExporter : BOOLEAN, topologyServer : BOOLEAN,
               statusUpdater : BOOLEAN, dra : BOOLEAN, computeDomainController : BOOLEAN]
MIGs == {Nil} \cup [enabled : BOOLEAN, strategy : {"mixed"}]
Customs == {Nil, [gpuProduct |-> "Fake", gpuMemory |-> 1024]}

ComponentProbes ==
    {Probe([Basic EXCEPT !.components = s, !.mig = m, !.custom = u], Bare, o) :
        s \in Switches, m \in MIGs, u \in Customs, o \in BOOLEAN}

Selectors == {{}, {<<Worker, "">>}, {<<Zone, "true">>}, {<<Worker, "">>, <<Zone, "true">>}, {<<Zone, c1>>}}
NodeLabels ==
    {[Bare EXCEPT ![Worker] = w, ![Zone] = z, ![nodePoolLabel] = p, ![deployDPLabel] = d] :
        w \in {Nil, "", "true"}, z \in {Nil, "", "true", c1}, p \in {Nil, c1, c2}, d \in {Nil, "true"}}

SelectionProbes ==
    {Probe([Basic EXCEPT !.nodeSelector = s], l, FALSE) :
        s \in Selectors, l \in NodeLabels}

Overrides == {<<>>} \cup UNION {[d -> {"test/image:1"}] : d \in {{"device-plugin"}, {"device-plugin", "dra-plugin"}}}
ImageProbes ==
    {Probe([Basic EXCEPT !.images = i], Bare, FALSE) :
        i \in {Nil} \cup [registry : {"", "mirror.example.com"}, tag : {"", "0.2.0"}, overrides : Overrides]}

AllProbes  == ComponentProbes \cup SelectionProbes \cup ImageProbes
ProbeSpecs == {p.spec : p \in AllProbes}
=============================================================================
