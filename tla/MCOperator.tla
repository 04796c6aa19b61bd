----------------------------- MODULE MCOperator -----------------------------
(* Small instances of Operator for TLC. *)
EXTENDS Claims, Refinement

CONSTANTS c1, c2, n1, n2

Worker == "node-role.kubernetes.io/worker"
Infra  == "node-role.kubernetes.io/infra"

AllComponents(dra, cdc) ==
    [devicePlugin |-> TRUE, metricsExporter |-> TRUE, topologyServer |-> TRUE,
     statusUpdater |-> TRUE, dra |-> dra, computeDomainController |-> cdc]

Basic ==
    [gpuProfile |-> "h200", gpuCount |-> 8, custom |-> Nil, nodeSelector |-> {<<Worker, "">>},
     mig |-> Nil, components |-> Nil, images |-> Nil]

\* Fewer workloads, another profile.
Lean ==
    [Basic EXCEPT !.gpuProfile = "t4", !.gpuCount = 2,
                  !.components = [AllComponents(FALSE, FALSE) EXCEPT
                                     !.metricsExporter = FALSE, !.topologyServer = FALSE,
                                     !.statusUpdater = FALSE]]

\* Every optional component.
Full ==
    [Basic EXCEPT !.gpuProfile = "a100", !.mig = [enabled |-> TRUE, strategy |-> "mixed"],
                  !.components = AllComponents(TRUE, TRUE),
                  !.images = [registry |-> "", tag |-> "0.2.0", overrides |-> <<>>]]

Custom  == [Lean EXCEPT !.custom = [gpuProduct |-> "Fake", gpuMemory |-> 1024]]
OnInfra == [Lean EXCEPT !.nodeSelector = {<<Infra, "true">>}]
Empty   == [Basic EXCEPT !.gpuProfile = "", !.nodeSelector = {}]

\* The specs that users give, and what the operator makes of them.
AndWrittenBack(specs) == specs \cup {WrittenBack(s) : s \in specs}

LeanSpecs     == AndWrittenBack({Lean})
LeanFullInfra == AndWrittenBack({Lean, Full, OnInfra})
LeanAndCustom == AndWrittenBack({Lean, Custom})
LeanAndInfra  == AndWrittenBack({Lean, OnInfra})
LeanAndEmpty  == AndWrittenBack({Lean, Empty})

\* What users give a config: any spec but one that is only written back.
AnySpec      == [c \in Configs |-> {s \in Specs : \A t \in Specs \ {s} : WrittenBack(t) # s}]
OnePerConfig == [c \in Configs |-> IF c = c1 THEN {Lean} ELSE {OnInfra}]

Bare        == [k \in LabelKeys |-> Nil]
WorkerNode  == [Bare EXCEPT ![Worker] = ""]
InfraNode   == [Bare EXCEPT ![Infra] = "true"]

UserKeys == {Worker, Infra}

OneWorker   == [n \in Nodes |-> IF n = n1 THEN WorkerNode ELSE Nil]
WorkerInfra == [n \in Nodes |-> IF n = n1 THEN WorkerNode ELSE InfraNode]
Workers     == {WorkerNode}
NoNodes     == [n \in Nodes |-> Nil]

NoRelabels   == {}
WorkerLabels == {<<Worker, "">>, <<Worker, Nil>>}

\* Budgets: edits alone, or with few disturbances.
Undisturbed == [edit |-> 3, node |-> 0, helm |-> 0, fault |-> 0, crash |-> 0, drift |-> 0]
TwoEdits    == [Undisturbed EXCEPT !.edit = 2]

StaleCaches  == {[Undisturbed EXCEPT !.node = 1]}
Cleanup      == {[Undisturbed EXCEPT !.fault = 1, !.crash = 1]}
Convergence  == {[TwoEdits EXCEPT !.node = 1, !.fault = 1], [TwoEdits EXCEPT !.helm = 2],
                 [TwoEdits EXCEPT !.edit = 1, !.helm = 2, !.fault = 1],
                 [TwoEdits EXCEPT !.node = 1, !.drift = 1]}
TwoPools     == {Undisturbed}
EditsOnly    == {TwoEdits}
Leftovers    == {[TwoEdits EXCEPT !.node = 1, !.fault = 1]}
OneFault     == {[TwoEdits EXCEPT !.fault = 1]}
=============================================================================
