--------------------------- MODULE OperatorProofs ---------------------------
(***************************************************************************)
(* Theorems about Operator, for all configs, nodes, specs and budgets.     *)
(***************************************************************************)
EXTENDS Operator, FiniteSetTheorems, TLAPS

-----------------------------------------------------------------------------
(* Typing of the operators the model is built from. *)

\* What Reconcile renders for a config and a valid spec are objects with an id.
LEMMA PlanTyped ==
    ASSUME NEW c \in Configs, NEW s \in ValidSpecs, NEW o \in BOOLEAN,
           NEW i \in DOMAIN Plan(c, s, o)
    PROVE  Plan(c, s, o)[i] \in Objects /\ Plan(c, s, o)[i].id \in Ids
<1>1. Plan(c, s, o)[i] \in Planned(c, s, o)
  BY DEF Planned
<1>2. Plan(c, s, o)[i] \in Objects
  BY <1>1 DEF Objects, PlannedObjects
<1> QED
  BY <1>2 DEF Ids

\* So is the topology of a node.
LEMMA NodeTopologyTyped ==
    ASSUME NEW n \in Nodes, NEW s \in ValidSpecs
    PROVE  NodeTopologyConfigMap(n, s) \in Objects /\ NodeTopologyConfigMap(n, s).id \in Ids
<1>1. NodeTopologyConfigMap(n, s) \in NodeTopologies
  BY DEF NodeTopologies
<1>2. NodeTopologyConfigMap(n, s) \in Objects
  BY <1>1 DEF Objects
<1> QED
  BY <1>2 DEF Ids

\* Labelling and unlabelling a node gives labels.
LEMMA LabelsTyped ==
    ASSUME NEW l \in Labels, NEW c \in Configs, NEW s
    PROVE  Labelled(l, c, s) \in Labels /\ Unlabelled(l) \in Labels
BY DEF Labelled, Unlabelled, Labels, LabelValues

\* A List returns copies of cached nodes.
LEMMA ListNodesTyped ==
    ASSUME CachesOK, NEW selector
    PROVE  ListNodes(selector) \in [Nodes -> Labels \cup {Nil}]
BY DEF ListNodes, CachesOK

\* The numbers in the status are natural numbers.
LEMMA CountTyped ==
    ASSUME NEW l
    PROVE  Count(l) \in Nat /\ CountReady(l) \in Nat
<1>1. IsFiniteSet({n \in Nodes : l[n] # Nil})
  BY NodesAssumption, FS_Subset
<1>2. IsFiniteSet({n \in Nodes : l[n] # Nil /\ l[n][deployDPLabel] = "true"})
  BY NodesAssumption, FS_Subset
<1> QED
  BY <1>1, <1>2, FS_CardinalityType DEF Count, CountReady

\* updateStatus computes a status.
LEMMA StatusTyped ==
    ASSUME NEW s \in ValidSpecs, NEW l
    PROVE  ReconciledStatus(s, l) \in Statuses
<1>1. s \in Specs /\ resolveProfile(s).Name \in STRING /\ s.gpuCount \in Nat
  BY SpecsAssumption DEF ValidSpecs
<1> QED
  BY <1>1, CountTyped DEF ReconciledStatus, Statuses, Reasons

-----------------------------------------------------------------------------
(* The parts actions are made of keep their part of the types. *)

\* A disturbance is paid for from a budget that suffices.
LEMMA SpendTyped ==
    ASSUME RestOK, NEW d \in Disturbances, Spend(d)
    PROVE  budget' \in [Disturbances -> Nat]
BY DEF RestOK, Spend

\* A failing call leaves a budget.
LEMMA MayFailTyped ==
    ASSUME RestOK, NEW call, NEW failed \in BOOLEAN, MayFail(call, failed)
    PROVE  budget' \in [Disturbances -> Nat]
<1>1. CASE failed
  BY <1>1, SpendTyped DEF MayFail, Disturbances
<1>2. CASE ~failed
  BY <1>2 DEF MayFail, RestOK
<1> QED
  BY <1>1, <1>2

\* A pass that returns leaves the worker in order; one with an error needs its config.
LEMMA ReturnTyped ==
    ASSUME NEW outcome \in {"idle", "error"}, outcome = "error" => cur \in Configs, Return(outcome)
    PROVE  WorkerOK'
BY NilAssumption DEF Return, WorkerOK, PCs, Nobody

\* Writing a config keeps the types of server and caches.
LEMMA PutConfigTyped ==
    ASSUME ServerOK, CachesOK, NEW c \in Configs, NEW new \in ConfigObjects \cup {Nil},
           PutConfig(c, new), UNCHANGED <<node, store>>
    PROVE  ServerOK' /\ CachesOK'
BY DEF PutConfig, ServerOK, CachesOK

\* Writing a node does.
LEMMA PutNodeTyped ==
    ASSUME ServerOK, CachesOK, NEW n \in Nodes, NEW new \in Labels \cup {Nil},
           PutNode(n, new), UNCHANGED <<cfg, store>>
    PROVE  ServerOK' /\ CachesOK'
BY DEF PutNode, ServerOK, CachesOK

\* An Update of the config does, whatever its outcome.
LEMMA UpdateConfigTyped ==
    ASSUME ServerOK, CachesOK, RestOK, cur \in Configs, NEW call, NEW err \in BOOLEAN,
           NEW new \in ConfigObjects \cup {Nil},
           UpdateConfig(call, new, err), UNCHANGED <<node, store>>
    PROVE  ServerOK' /\ CachesOK' /\ budget' \in [Disturbances -> Nat]
<1>1. CASE PutConfig(cur, new) /\ UNCHANGED budget
  BY <1>1, PutConfigTyped DEF RestOK
<1>2. CASE UNCHANGED <<cfg, caches, budget>>
  BY <1>2 DEF ServerOK, CachesOK, RestOK, caches
<1>3. CASE MayFail(call, TRUE) /\ UNCHANGED <<cfg, caches>>
  BY <1>3, MayFailTyped DEF ServerOK, CachesOK, caches
<1>4. CASE MayFail(call, TRUE) /\ PutConfig(cur, new)
  BY <1>4, MayFailTyped, PutConfigTyped
<1> QED
  BY <1>1, <1>2, <1>3, <1>4 DEF UpdateConfig

\* So does an Update of a node.
LEMMA UpdateNodeTyped ==
    ASSUME ServerOK, CachesOK, RestOK, NEW n \in Nodes, NEW err \in BOOLEAN,
           NEW new \in Labels, UpdateNode(n, new, err), UNCHANGED <<cfg, store>>
    PROVE  ServerOK' /\ CachesOK' /\ budget' \in [Disturbances -> Nat]
<1>1. CASE PutNode(n, new) /\ UNCHANGED budget
  BY <1>1, PutNodeTyped DEF RestOK
<1>2. CASE UNCHANGED <<node, caches, budget>>
  BY <1>2 DEF ServerOK, CachesOK, RestOK, caches
<1>3. CASE MayFail("node", TRUE) /\ UNCHANGED <<node, caches>>
  BY <1>3, MayFailTyped DEF ServerOK, CachesOK, caches
<1>4. CASE MayFail("node", TRUE) /\ PutNode(n, new)
  BY <1>4, MayFailTyped, PutNodeTyped
<1> QED
  BY <1>1, <1>2, <1>3, <1>4 DEF UpdateNode

\* createOrUpdate stores nothing but objects.
LEMMA createOrUpdateTyped ==
    ASSUME ServerOK, RestOK, NEW obj \in Objects, obj.id \in Ids, NEW err \in BOOLEAN,
           createOrUpdate(obj, err), UNCHANGED <<cfg, node>>
    PROVE  ServerOK' /\ budget' \in [Disturbances -> Nat]
<1>1. [store EXCEPT ![obj.id] = obj] \in [Ids -> Objects \cup {Nil}]
  BY DEF ServerOK
<1>2. store' \in [Ids -> Objects \cup {Nil}]
  BY <1>1 DEF createOrUpdate, ServerOK
<1>3. budget' = budget \/ MayFail("write", TRUE)
  BY DEF createOrUpdate
<1> QED
  BY <1>2, <1>3, MayFailTyped DEF ServerOK, RestOK

-----------------------------------------------------------------------------
(* Every action keeps the types.  Actions that leave a part of the state    *)
(* alone keep the types of that part.                                       *)

\* Parts of the state that do not change keep their types.
LEMMA FrameTyped ==
    ASSUME TypeOK
    PROVE  /\ UNCHANGED server => ServerOK'
           /\ UNCHANGED caches => CachesOK'
           /\ UNCHANGED worker => WorkerOK'
           /\ UNCHANGED <<helm, isOpenShift, queue>> /\ budget' \in [Disturbances -> Nat] => RestOK'
BY DEF TypeOK, ServerOK, CachesOK, WorkerOK, RestOK, server, caches, worker, PCs, Provisioning, CleaningUp

\* Where the worker is, it has a config and a copy of it.
LEMMA InPass ==
    ASSUME TypeOK, pc \notin {"idle", "error"}
    PROVE  cur \in Configs /\ copy \in ConfigObjects
BY DEF TypeOK, WorkerOK

\* What Take does to the worker: the config is gone, the pass begins, or the Get fails.
LEMMA TakeOutcomes ==
    ASSUME NEW c \in Configs, Take(c)
    PROVE  /\ pc = "idle" /\ c \in queue /\ queue' = queue \ {c}
           /\ UNCHANGED <<cfg, node, store, seenCfg, seenNode, seen, lag, helm, isOpenShift>>
           /\ \/ seenCfg[c] = Nil /\ UNCHANGED <<pc, cur, copy, pos, listed, stale, budget>>
              \/ /\ seenCfg[c] # Nil
                 /\ cur' = c /\ copy' = seenCfg[c] /\ pc' = Entry(seenCfg[c]) /\ stale' = lag \cap {c}
                 /\ UNCHANGED <<pos, listed, budget>>
              \/ /\ MayFail("get", TRUE)
                 /\ pc' = "error" /\ cur' = c /\ UNCHANGED <<copy, pos, listed, stale>>
BY DEF Take, At, server, caches, worker

\* Reconcile starts with the cached config.
LEMMA TakeTyped ==
    ASSUME TypeOK, NEW c \in Configs, Take(c)
    PROVE  TypeOK'
<1>1. budget' \in [Disturbances -> Nat]
  <2>1. RestOK /\ (UNCHANGED budget \/ MayFail("get", TRUE))
    BY TakeOutcomes DEF TypeOK
  <2> QED
    BY <2>1, MayFailTyped DEF RestOK
<1>2. ServerOK' /\ CachesOK' /\ RestOK'
  BY <1>1, TakeOutcomes DEF TypeOK, RestOK, ServerOK, CachesOK
<1>3. WorkerOK'
  <2>1. CASE UNCHANGED <<pc, cur, copy, pos, listed, stale>>
    BY <2>1, FrameTyped DEF worker
  <2>2. CASE /\ seenCfg[c] # Nil
             /\ cur' = c /\ copy' = seenCfg[c] /\ pc' = Entry(seenCfg[c]) /\ stale' = lag \cap {c}
             /\ UNCHANGED <<pos, listed>>
    <3>1. seenCfg[c] \in ConfigObjects
      BY <2>2 DEF TypeOK, CachesOK
    <3>2. Entry(seenCfg[c]) \in {"delete", "check", "finalize"}
      BY DEF Entry
    <3> QED
      BY <2>2, <3>1, <3>2 DEF TypeOK, WorkerOK, CachesOK, PCs, Provisioning, CleaningUp
  <2>3. CASE pc' = "error" /\ cur' = c /\ UNCHANGED <<copy, pos, listed, stale>>
    BY <2>3 DEF TypeOK, WorkerOK, PCs
  <2> QED
    BY <2>1, <2>2, <2>3, TakeOutcomes
<1> QED
  BY <1>2, <1>3 DEF TypeOK

\* A config with the finalizer added is a config.
LEMMA AddFinalizerTyped ==
    ASSUME TypeOK, AddFinalizer
    PROVE  TypeOK'
<1> DEFINE new == [copy EXCEPT !.spec = WrittenBack(@), !.finalizer = TRUE]
<1>1. cur \in Configs /\ copy \in ConfigObjects
  BY InPass DEF AddFinalizer, At
<1>2. new \in ConfigObjects
  <2>1. copy.spec \in Specs /\ WrittenBack(copy.spec) \in Specs
    BY <1>1, SpecsAssumption DEF ConfigObjects
  <2> QED
    BY <1>1, <2>1 DEF ConfigObjects
<1>3. PICK err \in BOOLEAN :
        /\ UpdateConfig("update", new, err)
        /\ IF err THEN Return("error")
           ELSE pc' = "check" /\ copy' = new /\ UNCHANGED <<cur, pos, listed, stale>>
  BY DEF AddFinalizer
<1>4. ServerOK' /\ CachesOK' /\ budget' \in [Disturbances -> Nat]
  BY <1>1, <1>2, <1>3, UpdateConfigTyped DEF AddFinalizer, TypeOK
<1>5. WorkerOK'
  <2>1. CASE err
    BY <2>1, <1>1, <1>3, ReturnTyped
  <2>2. CASE ~err
    BY <2>2, <1>1, <1>2, <1>3 DEF TypeOK, WorkerOK, PCs, Provisioning
  <2> QED
    BY <2>1, <2>2
<1>6. RestOK'
  BY <1>4, FrameTyped DEF AddFinalizer
<1> QED
  BY <1>4, <1>5, <1>6 DEF TypeOK

\* Only a config with a profile goes on to the children.
LEMMA CheckHelmTyped ==
    ASSUME TypeOK, CheckHelm
    PROVE  TypeOK'
<1>1. cur \in Configs /\ copy \in ConfigObjects
  BY InPass DEF CheckHelm, At
<1>2. PICK broken \in {{}} \cup {{list} : list \in HelmTraces} :
        /\ MayFail("list", broken # {})
        /\ Goto(IF detectHelmConflict(helm, broken) THEN "conflict"
                ELSE IF resolveProfile(copy.spec) = Nil THEN "reject" ELSE "apply")
  BY DEF CheckHelm
<1>3. budget' \in [Disturbances -> Nat]
  BY <1>2, MayFailTyped DEF TypeOK
<1>4. copy.spec \in Specs
  BY <1>1 DEF ConfigObjects
<1>5. pc' \in {"conflict", "reject", "apply"} /\ (pc' = "apply" => copy.spec \in ValidSpecs)
  BY <1>2, <1>4 DEF Goto, ValidSpecs
<1>6. WorkerOK'
  BY <1>1, <1>2, <1>5 DEF Goto, CheckHelm, TypeOK, WorkerOK, PCs, Provisioning
<1> QED
  BY <1>3, <1>6, FrameTyped DEF TypeOK, CheckHelm

\* ReportHelmConflict and RejectProfile.
LEMMA WriteConditionTyped ==
    ASSUME TypeOK, NEW reason \in Reasons, NEW outcome \in {"idle", "error"},
           cur \in Configs, copy \in ConfigObjects,
           WriteCondition(reason), Return(outcome),
           UNCHANGED <<node, store, helm, isOpenShift, queue>>
    PROVE  TypeOK'
<1> DEFINE new == [copy EXCEPT !.status.reason = reason]
<1>1. new \in ConfigObjects
  BY DEF ConfigObjects, Statuses
<1>2. PICK err \in BOOLEAN : UpdateConfig("status", new, err)
  BY DEF WriteCondition
<1>3. ServerOK' /\ CachesOK' /\ budget' \in [Disturbances -> Nat]
  BY <1>1, <1>2, UpdateConfigTyped DEF TypeOK
<1>4. WorkerOK'
  BY ReturnTyped
<1> QED
  BY <1>3, <1>4, FrameTyped DEF TypeOK

\* The next child is an object of the plan.
LEMMA ApplyTyped ==
    ASSUME TypeOK, Apply
    PROVE  TypeOK'
<1>1. cur \in Configs /\ copy \in ConfigObjects
  BY InPass DEF Apply, At
<1>2. copy.spec \in ValidSpecs
  BY DEF TypeOK, WorkerOK, Apply, At
<1>3. CurPlan[pos] \in Objects /\ CurPlan[pos].id \in Ids
  BY <1>1, <1>2, PlanTyped DEF CurPlan, Apply
<1>4. PICK err \in BOOLEAN :
        /\ createOrUpdate(CurPlan[pos], err)
        /\ IF err THEN Return("error")
           ELSE pos' = pos + 1 /\ UNCHANGED <<pc, cur, copy, listed, stale>>
  BY DEF Apply
<1>5. ServerOK' /\ budget' \in [Disturbances -> Nat]
  BY <1>3, <1>4, createOrUpdateTyped DEF TypeOK, Apply
<1>6. WorkerOK'
  <2>1. CASE err
    BY <2>1, <1>1, <1>4, ReturnTyped
  <2>2. CASE ~err
    BY <2>2, <1>4 DEF TypeOK, WorkerOK
  <2> QED
    BY <2>1, <2>2
<1> QED
  BY <1>5, <1>6, FrameTyped DEF TypeOK, Apply

\* detectOpenShift sets its memo.
LEMMA DetectOpenShiftTyped ==
    ASSUME TypeOK, DetectOpenShift
    PROVE  TypeOK'
<1>1. PICK failed \in BOOLEAN :
        /\ MayFail("discovery", failed)
        /\ isOpenShift' = IF OnOpenShift /\ ~failed THEN "yes" ELSE "no"
  BY DEF DetectOpenShift
<1>2. budget' \in [Disturbances -> Nat]
  BY <1>1, MayFailTyped DEF TypeOK
<1> QED
  BY <1>1, <1>2, FrameTyped DEF TypeOK, RestOK, DetectOpenShift

\* ListMatching, ListPool and ListLabelled.
LEMMA TakeListTyped ==
    ASSUME TypeOK, cur \in Configs, copy \in ConfigObjects, NEW selector, TakeList(selector),
           NEW label \in {"label", "topology", "unlabel"}, Goto(label), pos' \in Nat,
           label # "unlabel" => copy.spec \in ValidSpecs,
           UNCHANGED <<server, caches, helm, isOpenShift, queue, budget>>
    PROVE  TypeOK'
<1>1. listed' \in [Nodes -> Labels \cup {Nil}]
  BY ListNodesTyped DEF TakeList, TypeOK
<1>2. stale' \in SUBSET (Configs \cup Nodes)
  BY DEF TakeList
<1>3. WorkerOK'
  BY <1>1, <1>2 DEF Goto, WorkerOK, PCs, Provisioning, CleaningUp
<1>4. budget' \in [Disturbances -> Nat]
  BY DEF TypeOK, RestOK
<1> QED
  BY <1>3, <1>4, FrameTyped DEF TypeOK

\* The three Lists of nodes that a pass works through.
LEMMA ListsTyped ==
    ASSUME TypeOK, ListMatching \/ ListPool \/ ListLabelled
    PROVE  TypeOK'
<1>0. pos \in Nat /\ (pc \in {"apply", "label"} => copy.spec \in ValidSpecs)
  BY DEF TypeOK, WorkerOK
<1>1. CASE ListMatching
  BY <1>0, <1>1, InPass, TakeListTyped DEF ListMatching, At
<1>2. CASE ListPool
  BY <1>0, <1>2, InPass, TakeListTyped DEF ListPool, At
<1>3. CASE ListLabelled
  BY <1>0, <1>3, InPass, TakeListTyped DEF ListLabelled, At
<1> QED
  BY <1>1, <1>2, <1>3

\* A List that fails ends the pass.
LEMMA ListFailsTyped ==
    ASSUME TypeOK, ListFails
    PROVE  TypeOK'
<1>1. cur \in Configs
  BY InPass DEF ListFails, At
<1>2. budget' \in [Disturbances -> Nat]
  BY MayFailTyped DEF TypeOK, ListFails
<1>3. WorkerOK'
  BY <1>1, ReturnTyped DEF ListFails
<1> QED
  BY <1>2, <1>3, FrameTyped DEF TypeOK, ListFails

\* A node that is labelled is put back as labels.
LEMMA LabelNodeTyped ==
    ASSUME TypeOK, NEW n \in Nodes, LabelNode(n)
    PROVE  TypeOK'
<1> DEFINE new == Labelled(listed[n], cur, copy.spec)
           next == listed' = [listed EXCEPT ![n] = Nil] /\ UNCHANGED <<pc, cur, copy, pos, stale>>
<1>1. cur \in Configs /\ copy \in ConfigObjects
  BY InPass DEF LabelNode, At
<1>2. new \in Labels
  BY <1>1, LabelsTyped DEF LabelNode, TypeOK, WorkerOK
<1>3. next => WorkerOK'
  BY DEF TypeOK, WorkerOK
<1>4. Return("error") => WorkerOK'
  BY <1>1, ReturnTyped
<1>5. budget \in [Disturbances -> Nat]
  BY DEF TypeOK, RestOK
<1>6. UNCHANGED <<cfg, store>> /\ UNCHANGED <<helm, isOpenShift, queue>>
  BY DEF LabelNode
<1>7. CASE next /\ UNCHANGED <<node, caches, budget>>
  <2>1. ServerOK' /\ CachesOK'
    BY <1>6, <1>7, FrameTyped DEF server
  <2> QED
    BY <2>1, <1>3, <1>5, <1>6, <1>7, FrameTyped DEF TypeOK
<1>8. ASSUME NEW err \in BOOLEAN, UpdateNode(n, new, err), IF err THEN Return("error") ELSE next
      PROVE  TypeOK'
  <2>1. ServerOK' /\ CachesOK' /\ budget' \in [Disturbances -> Nat]
    BY <1>2, <1>6, <1>8, UpdateNodeTyped DEF TypeOK
  <2>2. WorkerOK'
    BY <1>3, <1>4, <1>8
  <2> QED
    BY <2>1, <2>2, <1>6, FrameTyped DEF TypeOK
<1> QED
  BY <1>7, <1>8 DEF LabelNode

\* A node topology is written as an object.
LEMMA WriteTopologyTyped ==
    ASSUME TypeOK, NEW n \in Nodes, WriteTopology(n)
    PROVE  TypeOK'
<1> DEFINE cm == NodeTopologyConfigMap(n, copy.spec)
<1>1. cur \in Configs /\ copy \in ConfigObjects
  BY InPass DEF WriteTopology, At
<1>2. cm \in Objects /\ cm.id \in Ids
  BY NodeTopologyTyped DEF TypeOK, WorkerOK, WriteTopology, At
<1>3. PICK err \in BOOLEAN :
        /\ createOrUpdate(cm, err)
        /\ IF err THEN Return("error")
           ELSE listed' = [listed EXCEPT ![n] = Nil] /\ UNCHANGED <<pc, cur, copy, pos, stale>>
  BY DEF WriteTopology
<1>4. ServerOK' /\ budget' \in [Disturbances -> Nat]
  BY <1>2, <1>3, createOrUpdateTyped DEF TypeOK, WriteTopology
<1>5. WorkerOK'
  <2>1. CASE err
    BY <2>1, <1>1, <1>3, ReturnTyped
  <2>2. CASE ~err
    BY <2>2, <1>3 DEF TypeOK, WorkerOK
  <2> QED
    BY <2>1, <2>2
<1> QED
  BY <1>4, <1>5, FrameTyped DEF TypeOK, WriteTopology

\* The status write ends the pass.
LEMMA UpdateStatusTyped ==
    ASSUME TypeOK, UpdateStatus
    PROVE  TypeOK'
<1> DEFINE status == ReconciledStatus(copy.spec, ListNodes(nodeListOption(cur, copy.spec)))
           new == [copy EXCEPT !.status = status]
<1>1. cur \in Configs /\ copy \in ConfigObjects
  BY InPass DEF UpdateStatus, At
<1>2. status \in Statuses
  BY StatusTyped DEF TypeOK, WorkerOK, UpdateStatus, At
<1>3. new \in ConfigObjects
  BY <1>1, <1>2 DEF ConfigObjects
<1>4. PICK err \in BOOLEAN :
        UpdateConfig("status", new, err) /\ Return(IF err THEN "error" ELSE "idle")
  BY DEF UpdateStatus
<1>5. ServerOK' /\ CachesOK' /\ budget' \in [Disturbances -> Nat]
  BY <1>1, <1>3, <1>4, UpdateConfigTyped DEF TypeOK, UpdateStatus
<1>6. WorkerOK'
  BY <1>1, <1>4, ReturnTyped
<1> QED
  BY <1>5, <1>6, FrameTyped DEF TypeOK, UpdateStatus

\* Deletions only take objects away.
LEMMA DeletionTyped ==
    ASSUME ServerOK, NEW gone, store' = [id \in Ids |-> IF id \in gone THEN Nil ELSE store[id]],
           UNCHANGED <<cfg, node>>
    PROVE  ServerOK'
BY DEF ServerOK

\* Deleting by label.
LEMMA DeleteLabelledTyped ==
    ASSUME TypeOK, DeleteLabelled
    PROVE  TypeOK'
<1>1. PICK doomed, kept :
        /\ MayFail("delete", kept # {})
        /\ store' = [id \in Ids |-> IF id \in doomed \ kept THEN Nil ELSE store[id]]
  BY DEF DeleteLabelled
<1>2. ServerOK'
  BY <1>1, DeletionTyped DEF TypeOK, DeleteLabelled
<1>3. budget' \in [Disturbances -> Nat]
  BY <1>1, MayFailTyped DEF TypeOK
<1>4. WorkerOK'
  BY DEF DeleteLabelled, TypeOK, WorkerOK
<1> QED
  BY <1>2, <1>3, <1>4, FrameTyped DEF TypeOK, DeleteLabelled

\* A node that is unlabelled is put back as labels.
LEMMA UnlabelNodeTyped ==
    ASSUME TypeOK, NEW n \in Nodes, UnlabelNode(n)
    PROVE  TypeOK'
<1>1. cur \in Configs
  BY InPass DEF UnlabelNode, At
<1>2. Unlabelled(listed[n]) \in Labels
  BY <1>1, LabelsTyped DEF UnlabelNode, TypeOK, WorkerOK
<1>3. ServerOK' /\ CachesOK' /\ budget' \in [Disturbances -> Nat]
  BY <1>2, UpdateNodeTyped DEF UnlabelNode, TypeOK
<1>4. WorkerOK'
  BY DEF UnlabelNode, TypeOK, WorkerOK
<1> QED
  BY <1>3, <1>4, FrameTyped DEF TypeOK, UnlabelNode

\* Deleting by name.
LEMMA DeleteClusterScopedTyped ==
    ASSUME TypeOK, DeleteClusterScoped
    PROVE  TypeOK'
<1>1. PICK doomed, kept :
        /\ MayFail("delete", kept # {})
        /\ store' = [id \in Ids |-> IF id \in doomed \ kept THEN Nil ELSE store[id]]
  BY DEF DeleteClusterScoped
<1>2. ServerOK'
  BY <1>1, DeletionTyped DEF TypeOK, DeleteClusterScoped
<1>3. budget' \in [Disturbances -> Nat]
  BY <1>1, MayFailTyped DEF TypeOK
<1>4. WorkerOK'
  BY DEF DeleteClusterScoped, At, Goto, TypeOK, WorkerOK, PCs, CleaningUp
<1> QED
  BY <1>2, <1>3, <1>4, FrameTyped DEF TypeOK, DeleteClusterScoped

\* The config goes with its finalizer.
LEMMA ReleaseTyped ==
    ASSUME TypeOK, Release
    PROVE  TypeOK'
<1>1. cur \in Configs
  BY InPass DEF Release, At
<1>2. PICK err \in BOOLEAN :
        UpdateConfig("update", Nil, err) /\ Return(IF err THEN "error" ELSE "idle")
  BY DEF Release
<1>3. ServerOK' /\ CachesOK' /\ budget' \in [Disturbances -> Nat]
  BY <1>1, <1>2, UpdateConfigTyped DEF TypeOK, Release
<1>4. WorkerOK'
  BY <1>1, <1>2, ReturnTyped
<1> QED
  BY <1>3, <1>4, FrameTyped DEF TypeOK, Release

\* The config of a failed pass is put back on the queue.
LEMMA RequeueTyped ==
    ASSUME TypeOK, Requeue
    PROVE  TypeOK'
<1>1. WorkerOK'
  BY DEF TypeOK, WorkerOK, Requeue, PCs
<1>2. RestOK'
  BY DEF TypeOK, WorkerOK, RestOK, Requeue
<1> QED
  BY <1>1, <1>2, FrameTyped DEF TypeOK, Requeue

\* The informers.
LEMMA InformersTyped ==
    ASSUME TypeOK,
           \/ \E c \in Configs : SyncConfig(c)
           \/ \E n \in Nodes : SyncNode(n)
           \/ \E kind \in ChildKinds : SyncKind(kind)
           \/ Resync
    PROVE  TypeOK'
<1>1. ASSUME NEW c \in Configs, SyncConfig(c) PROVE TypeOK'
  <2>1. CachesOK' /\ RestOK'
    BY <1>1 DEF SyncConfig, TypeOK, CachesOK, ServerOK, RestOK
  <2> QED
    BY <2>1, <1>1, FrameTyped DEF TypeOK, SyncConfig
<1>2. ASSUME NEW n \in Nodes, SyncNode(n) PROVE TypeOK'
  <2>1. CachesOK'
    BY <1>2 DEF SyncNode, TypeOK, CachesOK, ServerOK
  <2>2. PICK oldErr \in BOOLEAN, newErr \in BOOLEAN :
          /\ MayFail("watch", oldErr \/ newErr)
          /\ queue' = queue \cup nodeToFakeGPUConfig(seenNode[n], oldErr)
                            \cup nodeToFakeGPUConfig(node[n], newErr)
    BY <1>2 DEF SyncNode
  <2>3. budget' \in [Disturbances -> Nat]
    BY <2>2, MayFailTyped DEF TypeOK
  <2>4. RestOK'
    BY <1>2, <2>2, <2>3 DEF SyncNode, nodeToFakeGPUConfig, TypeOK, RestOK
  <2> QED
    BY <2>1, <2>4, <1>2, FrameTyped DEF TypeOK, SyncNode
<1>3. ASSUME NEW kind \in ChildKinds, SyncKind(kind) PROVE TypeOK'
  <2>1. seen' \in [LaggingIds -> Objects \cup {Nil}]
    BY <1>3 DEF SyncKind, TypeOK, CachesOK, ServerOK, LaggingIds
  <2>2. CachesOK' /\ budget' \in [Disturbances -> Nat]
    BY <2>1, <1>3 DEF SyncKind, TypeOK, CachesOK, RestOK
  <2> QED
    BY <2>2, <1>3, FrameTyped DEF TypeOK, SyncKind
<1>4. ASSUME Resync PROVE TypeOK'
  <2>1. RestOK'
    BY <1>4 DEF Resync, TypeOK, RestOK
  <2> QED
    BY <2>1, <1>4, FrameTyped DEF TypeOK, Resync
<1> QED
  BY <1>1, <1>2, <1>3, <1>4

\* A user writes a config.
LEMMA ChangeConfigTyped ==
    ASSUME TypeOK, NEW c \in Configs, NEW new \in ConfigObjects \cup {Nil},
           ChangeConfig(c, new), budget' \in [Disturbances -> Nat]
    PROVE  TypeOK'
<1>1. ServerOK' /\ CachesOK'
  BY PutConfigTyped DEF ChangeConfig, TypeOK
<1>2. WorkerOK'
  BY DEF ChangeConfig, TypeOK, WorkerOK
<1> QED
  BY <1>1, <1>2, FrameTyped DEF ChangeConfig, TypeOK

\* Somebody writes a node.
LEMMA ChangeNodeTyped ==
    ASSUME TypeOK, NEW n \in Nodes, NEW new \in Labels \cup {Nil},
           ChangeNode(n, new), budget' \in [Disturbances -> Nat]
    PROVE  TypeOK'
<1>1. ServerOK' /\ CachesOK'
  BY PutNodeTyped DEF ChangeNode, TypeOK
<1>2. WorkerOK'
  BY DEF ChangeNode, TypeOK, WorkerOK
<1> QED
  BY <1>1, <1>2, FrameTyped DEF ChangeNode, TypeOK

\* Creating, editing and deleting a config.
LEMMA UsersTyped ==
    ASSUME TypeOK, NEW c \in Configs, UserCreates(c) \/ UserEdits(c) \/ UserDeletes(c)
    PROVE  TypeOK'
<1>1. budget' \in [Disturbances -> Nat]
  BY SpendTyped DEF UserCreates, UserEdits, UserDeletes, TypeOK, Disturbances
<1>2. cfg[c] # Nil => cfg[c] \in ConfigObjects
  BY DEF TypeOK, ServerOK
<1>3. Offers[c] \subseteq Specs
  BY SpecsAssumption
<1>4. CASE UserCreates(c)
  <2>1. PICK s \in Offers[c] :
          ChangeConfig(c, [spec |-> s, finalizer |-> FALSE, deleting |-> FALSE, status |-> NoStatus])
    BY <1>4 DEF UserCreates
  <2>2. [spec |-> s, finalizer |-> FALSE, deleting |-> FALSE, status |-> NoStatus] \in ConfigObjects
    <3>1. NoStatus \in Statuses
      BY DEF NoStatus, Statuses, Reasons
    <3> QED
      BY <3>1, <1>3 DEF ConfigObjects
  <2> QED
    BY <1>1, <2>1, <2>2, ChangeConfigTyped
<1>5. CASE UserEdits(c)
  <2>1. PICK s \in Offers[c] : ChangeConfig(c, [cfg[c] EXCEPT !.spec = s])
    BY <1>5 DEF UserEdits
  <2>2. [cfg[c] EXCEPT !.spec = s] \in ConfigObjects
    BY <1>2, <1>3, <1>5 DEF UserEdits, ConfigObjects
  <2> QED
    BY <1>1, <2>1, <2>2, ChangeConfigTyped
<1>6. CASE UserDeletes(c)
  <2>1. [cfg[c] EXCEPT !.deleting = TRUE] \in ConfigObjects
    BY <1>2, <1>6 DEF UserDeletes, ConfigObjects
  <2> QED
    BY <1>1, <1>6, <2>1, ChangeConfigTyped DEF UserDeletes
<1> QED
  BY <1>4, <1>5, <1>6

\* Nodes that join, leave and are relabelled.
LEMMA ClusterTyped ==
    ASSUME TypeOK, NEW n \in Nodes, NodeJoins(n) \/ NodeLeaves(n) \/ UserRelabels(n)
    PROVE  TypeOK'
<1>1. budget' \in [Disturbances -> Nat]
  BY SpendTyped DEF NodeJoins, NodeLeaves, UserRelabels, TypeOK, Disturbances
<1>2. CASE NodeJoins(n)
  BY <1>1, <1>2, NodesAssumption, ChangeNodeTyped DEF NodeJoins
<1>3. CASE NodeLeaves(n)
  BY <1>1, <1>3, ChangeNodeTyped DEF NodeLeaves
<1>4. CASE UserRelabels(n)
  <2>1. PICK edit \in Relabels : ChangeNode(n, [node[n] EXCEPT ![edit[1]] = edit[2]])
    BY <1>4 DEF UserRelabels
  <2>2. edit[2] \in LabelValues \cup {Nil}
    BY NodesAssumption
  <2>3. node[n] \in Labels
    BY <1>4 DEF UserRelabels, TypeOK, ServerOK
  <2>4. [node[n] EXCEPT ![edit[1]] = edit[2]] \in Labels
    BY <2>2, <2>3 DEF Labels
  <2> QED
    BY <1>1, <2>1, <2>4, ChangeNodeTyped
<1> QED
  BY <1>2, <1>3, <1>4

\* What others do to children leaves objects.
LEMMA DriftTyped ==
    ASSUME TypeOK, NEW id \in Ids, OthersDelete(id) \/ StatusUpdaterAllocates(id)
    PROVE  TypeOK'
<1>1. budget' \in [Disturbances -> Nat]
  BY SpendTyped DEF OthersDelete, StatusUpdaterAllocates, TypeOK, Disturbances
<1>2. \A t \in NodeTopologies : Allocated(t) \in Objects
  BY DEF Objects
<1>3. ServerOK'
  BY <1>2 DEF OthersDelete, StatusUpdaterAllocates, TypeOK, ServerOK
<1> QED
  BY <1>1, <1>3, FrameTyped DEF OthersDelete, StatusUpdaterAllocates, TypeOK

\* Helm, and a restart of the operator.
LEMMA RestartTyped ==
    ASSUME TypeOK, HelmChanges \/ Restart
    PROVE  TypeOK'
<1>1. budget' \in [Disturbances -> Nat]
  BY SpendTyped DEF HelmChanges, Restart, TypeOK, Disturbances
<1>2. CASE HelmChanges
  <2>1. RestOK'
    BY <1>1, <1>2 DEF HelmChanges, TypeOK, RestOK
  <2> QED
    BY <2>1, <1>2, FrameTyped DEF HelmChanges, TypeOK
<1>3. CASE Restart
  <2>1. seen' \in [LaggingIds -> Objects \cup {Nil}]
    BY <1>3 DEF Restart, TypeOK, ServerOK, LaggingIds
  <2>2. CachesOK'
    BY <2>1, <1>3 DEF Restart, TypeOK, ServerOK, CachesOK
  <2>3. WorkerOK'
    BY <1>3, ReturnTyped DEF Restart
  <2>4. RestOK'
    BY <1>1, <1>3 DEF Restart, TypeOK, RestOK
  <2> QED
    BY <2>2, <2>3, <2>4, <1>3, FrameTyped DEF Restart, TypeOK
<1> QED
  BY <1>2, <1>3

-----------------------------------------------------------------------------
\* The steps of the worker keep the types.
LEMMA ReconcileTyped ==
    ASSUME TypeOK, Reconcile
    PROVE  TypeOK'
<1>1. CASE AddFinalizer \/ CheckHelm
  BY <1>1, AddFinalizerTyped, CheckHelmTyped
<1>2. CASE ReportHelmConflict \/ RejectProfile
  <2>1. cur \in Configs /\ copy \in ConfigObjects
    BY <1>2, InPass DEF ReportHelmConflict, RejectProfile, At
  <2>2. "HelmConflict" \in Reasons /\ "InvalidProfile" \in Reasons
    BY DEF Reasons
  <2> QED
    BY <1>2, <2>1, <2>2, WriteConditionTyped DEF ReportHelmConflict, RejectProfile
<1>3. CASE DetectOpenShift \/ Apply \/ ListMatching \/ ListPool \/ ListFails \/ UpdateStatus
  BY <1>3, DetectOpenShiftTyped, ApplyTyped, ListsTyped, ListFailsTyped, UpdateStatusTyped
<1>4. CASE DeleteLabelled \/ ListLabelled \/ DeleteClusterScoped \/ Release \/ Requeue
  BY <1>4, DeleteLabelledTyped, ListsTyped, DeleteClusterScopedTyped, ReleaseTyped, RequeueTyped
<1>5. CASE \E n \in Nodes : LabelNode(n) \/ WriteTopology(n) \/ UnlabelNode(n)
  BY <1>5, LabelNodeTyped, WriteTopologyTyped, UnlabelNodeTyped
<1> QED
  BY <1>1, <1>2, <1>3, <1>4, <1>5 DEF Reconcile

\* The initial state has the types.
LEMMA InitTyped ==
    ASSUME Init
    PROVE  TypeOK
<1>1. ServerOK
  BY NodesAssumption DEF Init, ServerOK
<1>2. CachesOK
  BY NodesAssumption DEF Init, CachesOK
<1>3. WorkerOK
  BY DEF Init, WorkerOK, PCs, Nobody
<1>4. RestOK
  BY BudgetAssumption DEF Init, RestOK
<1> QED
  BY <1>1, <1>2, <1>3, <1>4 DEF TypeOK

\* Every step keeps the types.
LEMMA StepTyped ==
    ASSUME TypeOK, [Next]_vars
    PROVE  TypeOK'
<1>1. CASE UNCHANGED vars
  <2>1. budget' \in [Disturbances -> Nat]
    BY <1>1 DEF vars, TypeOK, RestOK
  <2> QED
    BY <1>1, <2>1, FrameTyped DEF vars, TypeOK
<1>2. ASSUME NEW c \in Configs, Take(c) PROVE TypeOK'
  BY <1>2, TakeTyped
<1>3. CASE \/ \E c \in Configs : SyncConfig(c)
           \/ \E n \in Nodes : SyncNode(n)
           \/ \E kind \in ChildKinds : SyncKind(kind)
           \/ Resync
  BY <1>3, InformersTyped
<1>4. CASE Reconcile
  BY <1>4, ReconcileTyped
<1>5. CASE Environment
  BY <1>5, UsersTyped, ClusterTyped, DriftTyped, RestartTyped DEF Environment
<1> QED
  BY <1>1, <1>2, <1>3, <1>4, <1>5 DEF Next

\* The type invariant holds in every state of every behaviour, for all configs,
\* nodes, specs and budgets: in particular, Reconcile renders children only
\* from a config whose profile has been resolved, and a failed pass always
\* knows the config it has to requeue.
THEOREM TypeCorrect == Spec => []TypeOK
<1>1. Init => TypeOK
  BY InitTyped
<1>2. TypeOK /\ [Next]_vars => TypeOK'
  BY StepTyped
<1> QED
  BY <1>1, <1>2, PTL DEF Spec

-----------------------------------------------------------------------------
(* The finalizer.  Provisioning starts from a cached config, so that the     *)
(* invariant has to say how old a cached or working copy can be misleading:  *)
(* never about a finalizer that is not there (CacheTrusted), and never about *)
(* a config that was deleted and is live again (DeletionTrusted).            *)

\* A config with the finalizer that nobody has deleted.
Live(obj) == obj # Nil /\ obj.finalizer /\ ~obj.deleting

CacheCurrent == \A c \in Configs : c \notin lag => seenCfg[c] = cfg[c]

CacheTrusted == \A c \in Configs : Live(seenCfg[c]) => Guarded(c)

DeletionTrusted ==
    \A c \in Configs : seenCfg[c] # Nil /\ seenCfg[c].deleting => ~Live(cfg[c])

CopyCurrent ==
    /\ pc \notin {"idle", "error"} /\ cur \notin stale => cfg[cur] = copy
    /\ pc = "finalize" /\ cur \notin stale => cur \notin lag

CopyFits ==
    /\ pc = "finalize" => ~copy.deleting /\ ~copy.finalizer
    /\ pc \in Provisioning => Live(copy)

CleansUpDeleted == pc \in CleaningUp => ~Live(cfg[cur]) /\ ~Live(seenCfg[cur])

CachesInv == CacheCurrent /\ CacheTrusted /\ DeletionTrusted
PassInv   == CopyCurrent /\ CopyFits /\ CleansUpDeleted /\ ProvisionsUnderFinalizer

FinalizerInv == CachesInv /\ PassInv

\* Which configs a step leaves as recently cached as they were.
SameLag == \A c \in Configs : c \in lag' <=> c \in lag

\* Steps that change no config keep what the invariant says of the caches.
LEMMA CachesFrame ==
    ASSUME CachesInv, UNCHANGED <<cfg, seenCfg>>, SameLag
    PROVE  CachesInv'
BY DEF CachesInv, CacheCurrent, CacheTrusted, DeletionTrusted, Guarded, SameLag

\* So do writes that the cached copy does not contradict.
LEMMA PutConfigKeeps ==
    ASSUME CachesInv, ServerOK, NEW c \in Configs, NEW new, PutConfig(c, new),
           Live(seenCfg[c]) => new # Nil /\ new.finalizer,
           seenCfg[c] # Nil /\ seenCfg[c].deleting => ~Live(new)
    PROVE  CachesInv'
<1>1. cfg' = [cfg EXCEPT ![c] = new] /\ cfg \in [Configs -> ConfigObjects \cup {Nil}]
  BY DEF PutConfig, ServerOK
<1>2. cfg'[c] = new /\ \A d \in Configs \ {c} : cfg'[d] = cfg[d]
  BY <1>1
<1>3. seenCfg' = seenCfg
  BY DEF PutConfig
<1>4. CacheCurrent'
  <2>1. CASE new = cfg[c]
    BY <1>2, <1>3, <2>1 DEF PutConfig, CachesInv, CacheCurrent
  <2>2. CASE new # cfg[c]
    BY <1>2, <1>3, <2>2 DEF PutConfig, CachesInv, CacheCurrent
  <2> QED
    BY <2>1, <2>2
<1>5. CacheTrusted'
  BY <1>2, <1>3 DEF CachesInv, CacheTrusted, Guarded
<1>6. DeletionTrusted'
  BY <1>2, <1>3 DEF CachesInv, DeletionTrusted
<1> QED
  BY <1>4, <1>5, <1>6 DEF CachesInv

\* In particular, writes that keep a finalizer and make no config live.
LEMMA OrdinaryWrite ==
    ASSUME CachesInv, ServerOK, NEW c \in Configs, NEW new, PutConfig(c, new),
           Guarded(c) => new # Nil /\ new.finalizer, Live(new) => Live(cfg[c])
    PROVE  CachesInv'
BY PutConfigKeeps DEF CachesInv, CacheTrusted, DeletionTrusted

\* Steps within provisioning or within the cleanup that change no config.
LEMMA PassFrame ==
    ASSUME TypeOK, FinalizerInv, UNCHANGED <<cfg, seenCfg, cur, copy>>, SameLag,
           \A c \in Configs : c \in stale => c \in stale',
           \/ pc' = pc
           \/ pc \in Provisioning /\ pc' \in Provisioning
           \/ pc \in CleaningUp /\ pc' \in CleaningUp
    PROVE  FinalizerInv'
<1>1. CachesInv'
  BY CachesFrame DEF FinalizerInv
<1>2. /\ pc' \in Provisioning <=> pc \in Provisioning
      /\ pc' \in CleaningUp <=> pc \in CleaningUp
      /\ pc' = "finalize" <=> pc = "finalize"
      /\ pc' \in {"idle", "error"} <=> pc \in {"idle", "error"}
  BY DEF Provisioning, CleaningUp
<1>3. pc \notin {"idle", "error"} => cur \in Configs
  BY DEF TypeOK, WorkerOK
<1>4. CopyCurrent'
  BY <1>2, <1>3 DEF FinalizerInv, PassInv, CopyCurrent, SameLag
<1>5. CopyFits' /\ CleansUpDeleted' /\ ProvisionsUnderFinalizer'
  BY <1>2 DEF FinalizerInv, PassInv, CopyFits, CleansUpDeleted, ProvisionsUnderFinalizer, Guarded
<1> QED
  BY <1>1, <1>4, <1>5 DEF FinalizerInv, PassInv

\* Between passes there is nothing to say of the worker.
LEMMA PassOver ==
    ASSUME CachesInv', pc' \in {"idle", "error"}
    PROVE  FinalizerInv'
BY DEF FinalizerInv, PassInv, CopyCurrent, CopyFits, CleansUpDeleted, ProvisionsUnderFinalizer,
       Provisioning, CleaningUp

\* A pass starts where the invariant says the cached config can be trusted.
LEMMA TakeGuarded ==
    ASSUME TypeOK, FinalizerInv, NEW c \in Configs, Take(c)
    PROVE  FinalizerInv'
<1>1. UNCHANGED <<cfg, seenCfg, lag>>
  BY TakeOutcomes
<1>2. CachesInv'
  BY <1>1, CachesFrame DEF FinalizerInv, SameLag
<1>3. CASE UNCHANGED <<pc, cur, copy, stale>>
  BY <1>1, <1>3, PassFrame DEF SameLag
<1>4. CASE /\ seenCfg[c] # Nil
           /\ cur' = c /\ copy' = seenCfg[c] /\ pc' = Entry(seenCfg[c]) /\ stale' = lag \cap {c}
  <2>1. cur' = c /\ copy' = seenCfg[c] /\ pc' = Entry(copy') /\ stale' = lag \cap {c}
    BY <1>4
  <2>2. CopyCurrent'
    BY <1>1, <2>1 DEF CopyCurrent, FinalizerInv, CachesInv, CacheCurrent
  <2>3. /\ pc' \in CleaningUp => copy'.deleting
        /\ pc' \in Provisioning => Live(copy')
        /\ pc' = "finalize" => ~copy'.deleting /\ ~copy'.finalizer
    BY <1>4, <2>1 DEF Entry, Live, CleaningUp, Provisioning
  <2>4. CleansUpDeleted'
    BY <1>1, <1>4, <2>1, <2>3 DEF CleansUpDeleted, FinalizerInv, CachesInv, DeletionTrusted, Live
  <2>5. ProvisionsUnderFinalizer'
    BY <1>1, <2>1, <2>3 DEF ProvisionsUnderFinalizer, FinalizerInv, CachesInv, CacheTrusted, Guarded
  <2> QED
    BY <1>2, <2>2, <2>3, <2>4, <2>5 DEF FinalizerInv, PassInv, CopyFits
<1>5. CASE pc' = "error"
  BY <1>2, <1>5, PassOver
<1> QED
  BY <1>3, <1>4, <1>5, TakeOutcomes

\* The outcomes of an Update of the config, without the budget.
LEMMA UpdateOutcomes ==
    ASSUME NEW call, NEW new, NEW err \in BOOLEAN, UpdateConfig(call, new, err)
    PROVE  \/ SameVersion(cur) /\ PutConfig(cur, new)
           \/ err /\ UNCHANGED <<cfg, seenCfg, lag>>
BY DEF UpdateConfig, caches

\* An Update that succeeds was made from the copy that the cache still shows.
LEMMA AddFinalizerGuarded ==
    ASSUME TypeOK, FinalizerInv, AddFinalizer
    PROVE  FinalizerInv'
<1> DEFINE new == [copy EXCEPT !.spec = WrittenBack(@), !.finalizer = TRUE]
<1>1. cur \in Configs /\ copy \in ConfigObjects /\ pc = "finalize"
  BY InPass DEF AddFinalizer, At
<1>2. new \in ConfigObjects /\ new.finalizer /\ new.deleting = copy.deleting
  <2>1. copy.spec \in Specs /\ WrittenBack(copy.spec) \in Specs
    BY <1>1, SpecsAssumption DEF ConfigObjects
  <2> QED
    BY <1>1, <2>1 DEF ConfigObjects
<1>3. Live(new)
  BY <1>1, <1>2, NilAssumption DEF Live, FinalizerInv, PassInv, CopyFits
<1>4. PICK err \in BOOLEAN :
        /\ UpdateConfig("update", new, err)
        /\ IF err THEN Return("error")
           ELSE pc' = "check" /\ copy' = new /\ UNCHANGED <<cur, pos, listed, stale>>
  BY DEF AddFinalizer
<1>5. CASE err /\ UNCHANGED <<cfg, seenCfg, lag>>
  BY <1>4, <1>5, CachesFrame, PassOver DEF FinalizerInv, SameLag, Return
<1>6. CASE SameVersion(cur) /\ PutConfig(cur, new)
  <2>1. cfg[cur] = copy /\ cur \notin lag
    BY <1>1, <1>6 DEF FinalizerInv, PassInv, CopyCurrent, SameVersion
  <2>2. seenCfg[cur] = copy
    BY <1>1, <2>1 DEF FinalizerInv, CachesInv, CacheCurrent
  <2>3. ~copy.deleting
    BY <1>1 DEF FinalizerInv, PassInv, CopyFits
  <2>4. CachesInv'
    BY <1>1, <1>2, <1>6, <2>2, <2>3, NilAssumption, PutConfigKeeps DEF FinalizerInv, TypeOK
  <2>5. CASE err
    BY <1>4, <2>4, <2>5, PassOver DEF Return
  <2>6. CASE ~err
    <3>1. pc' = "check" /\ copy' = new /\ cur' = cur
      BY <1>4, <2>6
    <3>2. cfg'[cur'] = new
      BY <1>1, <1>6, <3>1 DEF PutConfig, TypeOK, ServerOK
    <3>3. CopyCurrent' /\ CopyFits' /\ CleansUpDeleted'
      BY <1>3, <3>1, <3>2 DEF CopyCurrent, CopyFits, CleansUpDeleted, CleaningUp
    <3>4. ProvisionsUnderFinalizer'
      BY <1>3, <3>2 DEF ProvisionsUnderFinalizer, Guarded, Live
    <3> QED
      BY <2>4, <3>3, <3>4 DEF FinalizerInv, PassInv
  <2> QED
    BY <2>5, <2>6
<1> QED
  BY <1>4, <1>5, <1>6, UpdateOutcomes

\* A status write of a pass that provisions, which ends the pass.
LEMMA StatusWriteGuarded ==
    ASSUME TypeOK, FinalizerInv, pc \in Provisioning, NEW call, NEW err \in BOOLEAN,
           NEW new \in ConfigObjects,
           new.finalizer = copy.finalizer, new.deleting = copy.deleting,
           UpdateConfig(call, new, err), pc' \in {"idle", "error"}
    PROVE  FinalizerInv'
<1>1. cur \in Configs
  BY InPass DEF Provisioning
<1>2. Live(copy)
  BY DEF FinalizerInv, PassInv, CopyFits
<1>3. Live(new)
  BY <1>2, NilAssumption DEF Live
<1>4. CASE UNCHANGED <<cfg, seenCfg, lag>>
  BY <1>4, CachesFrame, PassOver DEF FinalizerInv, SameLag
<1>5. CASE SameVersion(cur) /\ PutConfig(cur, new)
  <2>1. cfg[cur] = copy
    BY <1>5 DEF FinalizerInv, PassInv, CopyCurrent, SameVersion, Provisioning
  <2>2. CachesInv'
    BY <1>1, <1>2, <1>3, <1>5, <2>1, OrdinaryWrite DEF FinalizerInv, TypeOK, Live
  <2> QED
    BY <2>2, PassOver
<1> QED
  BY <1>4, <1>5, UpdateOutcomes

\* The conditions written for a Helm conflict and for an invalid profile.
LEMMA WriteConditionGuarded ==
    ASSUME TypeOK, FinalizerInv, ReportHelmConflict \/ RejectProfile
    PROVE  FinalizerInv'
<1>1. pc \in Provisioning /\ pc' \in {"idle", "error"}
  BY DEF ReportHelmConflict, RejectProfile, At, Return, Provisioning
<1>2. copy \in ConfigObjects
  BY <1>1, InPass DEF Provisioning
<1>3. PICK reason \in Reasons : WriteCondition(reason)
  BY DEF ReportHelmConflict, RejectProfile, Reasons
<1> DEFINE new == [copy EXCEPT !.status.reason = reason]
<1>4. new \in ConfigObjects /\ new.finalizer = copy.finalizer /\ new.deleting = copy.deleting
  BY <1>2 DEF ConfigObjects, Statuses
<1>5. PICK err \in BOOLEAN : UpdateConfig("status", new, err)
  BY <1>3 DEF WriteCondition
<1> HIDE DEF new
<1> QED
  BY <1>1, <1>4, <1>5, StatusWriteGuarded

\* The status of a pass that went well.
LEMMA UpdateStatusGuarded ==
    ASSUME TypeOK, FinalizerInv, UpdateStatus
    PROVE  FinalizerInv'
<1> DEFINE status == ReconciledStatus(copy.spec, ListNodes(nodeListOption(cur, copy.spec)))
           new == [copy EXCEPT !.status = status]
<1>1. pc \in Provisioning
  BY DEF UpdateStatus, At, Provisioning
<1>2. copy \in ConfigObjects
  BY <1>1, InPass DEF Provisioning
<1>3. status \in Statuses
  BY StatusTyped DEF TypeOK, WorkerOK, UpdateStatus, At
<1>4. new \in ConfigObjects /\ new.finalizer = copy.finalizer /\ new.deleting = copy.deleting
  BY <1>2, <1>3 DEF ConfigObjects
<1>5. PICK err \in BOOLEAN :
        UpdateConfig("status", new, err) /\ Return(IF err THEN "error" ELSE "idle")
  BY DEF UpdateStatus
<1>6. pc' \in {"idle", "error"}
  BY <1>5 DEF Return
<1> HIDE DEF new
<1> QED
  BY <1>1, <1>4, <1>5, <1>6, StatusWriteGuarded

\* No cached copy makes a released config look live.
LEMMA ReleaseGuarded ==
    ASSUME TypeOK, FinalizerInv, Release
    PROVE  FinalizerInv'
<1>1. cur \in Configs /\ pc \in CleaningUp
  BY InPass DEF Release, At, CleaningUp
<1>2. PICK err \in BOOLEAN :
        UpdateConfig("update", Nil, err) /\ Return(IF err THEN "error" ELSE "idle")
  BY DEF Release
<1>3. pc' \in {"idle", "error"}
  BY <1>2 DEF Return
<1>4. ~Live(seenCfg[cur]) /\ ~Live(Nil)
  BY <1>1 DEF FinalizerInv, PassInv, CleansUpDeleted, Live
<1>5. CachesInv'
  <2>1. CASE UNCHANGED <<cfg, seenCfg, lag>>
    BY <2>1, CachesFrame DEF FinalizerInv, SameLag
  <2>2. CASE PutConfig(cur, Nil)
    BY <1>1, <1>4, <2>2, PutConfigKeeps DEF FinalizerInv, TypeOK
  <2> QED
    BY <1>2, <2>1, <2>2, UpdateOutcomes
<1> QED
  BY <1>3, <1>5, PassOver

\* Writes to nodes leave the configs alone.
LEMMA UpdateNodeFrame ==
    ASSUME NEW n \in Nodes, NEW new, NEW err \in BOOLEAN, UpdateNode(n, new, err)
    PROVE  UNCHANGED seenCfg /\ SameLag
BY NodesAssumption DEF UpdateNode, PutNode, SameLag, caches

\* Labelling a node.
LEMMA LabelNodeGuarded ==
    ASSUME TypeOK, FinalizerInv, NEW n \in Nodes, LabelNode(n)
    PROVE  FinalizerInv'
<1>1. UNCHANGED <<cfg, seenCfg>> /\ SameLag
  BY UpdateNodeFrame DEF LabelNode, caches, SameLag
<1>2. CASE UNCHANGED <<pc, cur, copy, stale>>
  BY <1>1, <1>2, PassFrame
<1>3. CASE Return("error")
  BY <1>1, <1>3, CachesFrame, PassOver DEF Return, FinalizerInv
<1> QED
  BY <1>2, <1>3 DEF LabelNode

\* Unlabelling a node.
LEMMA UnlabelNodeGuarded ==
    ASSUME TypeOK, FinalizerInv, NEW n \in Nodes, UnlabelNode(n)
    PROVE  FinalizerInv'
<1>1. UNCHANGED <<cfg, seenCfg, pc, cur, copy>> /\ SameLag
  BY UpdateNodeFrame DEF UnlabelNode
<1>2. \A c \in Configs : c \in stale => c \in stale'
  BY NodesAssumption DEF UnlabelNode
<1> QED
  BY <1>1, <1>2, PassFrame

\* The remaining steps of a pass change no config and no node.
LEMMA PassGuarded ==
    ASSUME TypeOK, FinalizerInv,
           \/ CheckHelm \/ DetectOpenShift \/ Apply \/ ListMatching \/ ListPool \/ ListFails
           \/ DeleteLabelled \/ ListLabelled \/ DeleteClusterScoped \/ Requeue
           \/ \E n \in Nodes : WriteTopology(n)
    PROVE  FinalizerInv'
<1>1. UNCHANGED <<cfg, seenCfg, lag>>
  BY DEF CheckHelm, DetectOpenShift, Apply, ListMatching, ListPool, ListFails, DeleteLabelled,
         ListLabelled, DeleteClusterScoped, Requeue, WriteTopology, server, caches
<1>2. CASE pc' \in {"idle", "error"}
  BY <1>1, <1>2, CachesFrame, PassOver DEF FinalizerInv, SameLag
<1>3. CASE pc' \notin {"idle", "error"}
  <2>1. ~(Return("error")) /\ ~ListFails /\ ~Requeue
    BY <1>3 DEF Return, ListFails, Requeue
  <2>2. CASE CheckHelm \/ DeleteClusterScoped
    BY <1>1, <2>2, PassFrame
       DEF CheckHelm, DeleteClusterScoped, At, Goto, Provisioning, CleaningUp, SameLag
  <2>3. CASE DetectOpenShift \/ DeleteLabelled
    BY <1>1, <2>3, PassFrame DEF DetectOpenShift, DeleteLabelled, worker, SameLag
  <2>4. CASE Apply \/ \E n \in Nodes : WriteTopology(n)
    BY <1>1, <2>1, <2>4, PassFrame DEF Apply, WriteTopology, SameLag
  <2>5. CASE ListMatching \/ ListPool \/ ListLabelled
    <3>1. \A c \in Configs : c \in stale => c \in stale'
      BY <2>5 DEF ListMatching, ListPool, ListLabelled, TakeList
    <3> QED
      BY <1>1, <2>5, <3>1, PassFrame
         DEF ListMatching, ListPool, ListLabelled, At, Goto, Provisioning, CleaningUp, SameLag
  <2> QED
    BY <2>1, <2>2, <2>3, <2>4, <2>5
<1> QED
  BY <1>2, <1>3

\* The cache catches up with a config, also in the middle of a pass for it.
LEMMA SyncConfigGuarded ==
    ASSUME TypeOK, FinalizerInv, NEW c \in Configs, SyncConfig(c)
    PROVE  FinalizerInv'
<1>1. UNCHANGED <<cfg, pc, cur, copy, stale>> /\ lag' = lag \ {c}
  BY DEF SyncConfig, server, worker
<1>2. seenCfg'[c] = cfg[c] /\ \A d \in Configs \ {c} : seenCfg'[d] = seenCfg[d]
  BY DEF SyncConfig, TypeOK, CachesOK
<1>3. CachesInv'
  BY <1>1, <1>2
     DEF FinalizerInv, CachesInv, CacheCurrent, CacheTrusted, DeletionTrusted, Guarded, Live
<1>4. CopyCurrent' /\ CopyFits' /\ ProvisionsUnderFinalizer'
  BY <1>1 DEF FinalizerInv, PassInv, CopyCurrent, CopyFits, ProvisionsUnderFinalizer, Guarded
<1>5. CleansUpDeleted'
  <2>1. pc \in CleaningUp => cur \in Configs
    BY DEF TypeOK, WorkerOK, CleaningUp
  <2> QED
    BY <1>1, <1>2, <2>1 DEF FinalizerInv, PassInv, CleansUpDeleted
<1> QED
  BY <1>3, <1>4, <1>5 DEF FinalizerInv, PassInv

\* What users do: they keep a finalizer that is there, and make no config live.
LEMMA ChangeConfigGuarded ==
    ASSUME TypeOK, FinalizerInv, NEW c \in Configs, NEW new, ChangeConfig(c, new),
           Guarded(c) => new # Nil /\ new.finalizer, Live(new) => Live(cfg[c])
    PROVE  FinalizerInv'
<1>1. CachesInv'
  BY OrdinaryWrite DEF ChangeConfig, FinalizerInv, TypeOK
<1>2. UNCHANGED <<seenCfg, pc, cur, copy>> /\ stale' = stale \cup ({c} \cap {cur})
  BY DEF ChangeConfig, PutConfig
<1>3. cfg'[c] = new /\ \A d \in Configs \ {c} : cfg'[d] = cfg[d]
  BY DEF ChangeConfig, PutConfig, TypeOK, ServerOK
<1>4. c # cur => (cur \in lag' => cur \in lag)
  BY DEF ChangeConfig, PutConfig
<1>5. pc \notin {"idle", "error"} => cur \in Configs
  BY DEF TypeOK, WorkerOK
<1>6. CopyCurrent'
  BY <1>2, <1>3, <1>4, <1>5 DEF FinalizerInv, PassInv, CopyCurrent
<1>7. CopyFits'
  BY <1>2 DEF FinalizerInv, PassInv, CopyFits
<1>8. CleansUpDeleted'
  BY <1>2, <1>3, <1>5 DEF FinalizerInv, PassInv, CleansUpDeleted, CleaningUp
<1>9. ProvisionsUnderFinalizer'
  BY <1>2, <1>3, <1>5 DEF FinalizerInv, PassInv, ProvisionsUnderFinalizer, Guarded, Provisioning
<1> QED
  BY <1>1, <1>6, <1>7, <1>8, <1>9 DEF FinalizerInv, PassInv

\* Creating, editing and deleting a config, at any point of a pass.
LEMMA UsersGuarded ==
    ASSUME TypeOK, FinalizerInv, NEW c \in Configs,
           UserCreates(c) \/ UserEdits(c) \/ UserDeletes(c)
    PROVE  FinalizerInv'
<1>1. cfg[c] # Nil => cfg[c] \in ConfigObjects
  BY DEF TypeOK, ServerOK
<1>2. CASE UserCreates(c)
  <2>1. PICK s \in Offers[c] :
          ChangeConfig(c, [spec |-> s, finalizer |-> FALSE, deleting |-> FALSE, status |-> NoStatus])
    BY <1>2 DEF UserCreates
  <2>2. ~Live([spec |-> s, finalizer |-> FALSE, deleting |-> FALSE, status |-> NoStatus])
    BY DEF Live
  <2>3. ~Guarded(c)
    BY <1>2 DEF UserCreates, Guarded
  <2> QED
    BY <2>1, <2>2, <2>3, ChangeConfigGuarded
<1>3. CASE UserEdits(c)
  <2>1. PICK s \in Offers[c] : ChangeConfig(c, [cfg[c] EXCEPT !.spec = s])
    BY <1>3 DEF UserEdits
  <2> DEFINE new == [cfg[c] EXCEPT !.spec = s]
  <2>2. cfg[c] \in ConfigObjects /\ s \in Specs
    BY <1>1, <1>3, SpecsAssumption DEF UserEdits
  <2>3. new \in ConfigObjects /\ new.finalizer = cfg[c].finalizer /\ new.deleting = cfg[c].deleting
    BY <2>2 DEF ConfigObjects
  <2> HIDE DEF new
  <2>4. (Guarded(c) => new # Nil /\ new.finalizer) /\ (Live(new) => Live(cfg[c]))
    BY <2>2, <2>3, NilAssumption DEF Guarded, Live
  <2> QED
    BY <2>1, <2>4, ChangeConfigGuarded DEF new
<1>4. CASE UserDeletes(c)
  <2> DEFINE marked == [cfg[c] EXCEPT !.deleting = TRUE]
             new == IF cfg[c].finalizer THEN marked ELSE Nil
  <2>1. cfg[c] \in ConfigObjects /\ ChangeConfig(c, new)
    BY <1>1, <1>4 DEF UserDeletes
  <2>2. marked \in ConfigObjects /\ marked.finalizer = cfg[c].finalizer /\ marked.deleting
    BY <2>1 DEF ConfigObjects
  <2> HIDE DEF marked
  <2>3. (Guarded(c) => new # Nil /\ new.finalizer) /\ ~Live(new)
    BY <2>2, NilAssumption DEF Guarded, Live
  <2> QED
    BY <2>1, <2>3, ChangeConfigGuarded
<1> QED
  BY <1>2, <1>3, <1>4

\* The remaining steps of the environment and of the informers.
LEMMA OthersGuarded ==
    ASSUME TypeOK, FinalizerInv,
           \/ \E n \in Nodes : SyncNode(n) \/ NodeJoins(n) \/ NodeLeaves(n) \/ UserRelabels(n)
           \/ \E kind \in ChildKinds : SyncKind(kind)
           \/ \E id \in Ids : OthersDelete(id) \/ StatusUpdaterAllocates(id)
           \/ Resync \/ HelmChanges
    PROVE  FinalizerInv'
<1>1. CASE \/ \E kind \in ChildKinds : SyncKind(kind)
           \/ \E id \in Ids : OthersDelete(id) \/ StatusUpdaterAllocates(id)
           \/ Resync \/ HelmChanges
  BY <1>1, PassFrame DEF SyncKind, OthersDelete, StatusUpdaterAllocates, Resync, HelmChanges,
                         server, caches, worker, SameLag
<1>2. ASSUME NEW n \in Nodes, SyncNode(n) PROVE FinalizerInv'
  BY <1>2, NodesAssumption, PassFrame DEF SyncNode, server, worker, SameLag
<1>3. ASSUME NEW n \in Nodes, NEW new, ChangeNode(n, new) PROVE FinalizerInv'
  <2>1. UNCHANGED <<cfg, seenCfg, pc, cur, copy>> /\ SameLag
    BY <1>3, NodesAssumption DEF ChangeNode, PutNode, SameLag
  <2>2. \A c \in Configs : c \in stale => c \in stale'
    BY <1>3 DEF ChangeNode
  <2> QED
    BY <2>1, <2>2, PassFrame
<1> QED
  BY <1>1, <1>2, <1>3 DEF NodeJoins, NodeLeaves, UserRelabels

\* After a restart the caches are current and there is no pass.
LEMMA RestartGuarded ==
    ASSUME TypeOK, FinalizerInv, Restart
    PROVE  FinalizerInv'
<1>1. seenCfg' = cfg /\ cfg' = cfg /\ pc' = "idle"
  BY DEF Restart, Return, server
<1>2. CachesInv'
  BY <1>1 DEF CachesInv, CacheCurrent, CacheTrusted, DeletionTrusted, Guarded, Live
<1> QED
  BY <1>1, <1>2, PassOver

-----------------------------------------------------------------------------
\* The invariant holds initially.
LEMMA InitGuarded ==
    ASSUME Init
    PROVE  FinalizerInv
<1>1. seenCfg = cfg /\ pc = "idle"
  BY DEF Init
<1>2. \A c \in Configs : cfg[c] = Nil
  BY DEF Init
<1> QED
  BY <1>1, <1>2
     DEF FinalizerInv, CachesInv, PassInv, CacheCurrent, CacheTrusted, DeletionTrusted, CopyCurrent,
         CopyFits, CleansUpDeleted, ProvisionsUnderFinalizer, Provisioning, CleaningUp, Live

\* Every step keeps the invariant.
LEMMA StepGuarded ==
    ASSUME TypeOK, FinalizerInv, [Next]_vars
    PROVE  FinalizerInv'
<1>1. CASE UNCHANGED vars
  BY <1>1, PassFrame DEF vars, server, caches, worker, SameLag
<1>2. CASE \E c \in Configs : Take(c) \/ SyncConfig(c)
  BY <1>2, TakeGuarded, SyncConfigGuarded
<1>3. CASE Reconcile
  <2>1. CASE AddFinalizer \/ ReportHelmConflict \/ RejectProfile \/ UpdateStatus \/ Release
    BY <2>1, AddFinalizerGuarded, WriteConditionGuarded, UpdateStatusGuarded, ReleaseGuarded
  <2>2. CASE \E n \in Nodes : LabelNode(n) \/ UnlabelNode(n)
    BY <2>2, LabelNodeGuarded, UnlabelNodeGuarded
  <2>3. CASE \/ CheckHelm \/ DetectOpenShift \/ Apply \/ ListMatching \/ ListPool \/ ListFails
             \/ DeleteLabelled \/ ListLabelled \/ DeleteClusterScoped \/ Requeue
             \/ \E n \in Nodes : WriteTopology(n)
    BY <2>3, PassGuarded
  <2> QED
    BY <1>3, <2>1, <2>2, <2>3 DEF Reconcile
<1>4. CASE \E c \in Configs : UserCreates(c) \/ UserEdits(c) \/ UserDeletes(c)
  BY <1>4, UsersGuarded
<1>5. CASE \/ \E n \in Nodes : SyncNode(n) \/ NodeJoins(n) \/ NodeLeaves(n) \/ UserRelabels(n)
           \/ \E kind \in ChildKinds : SyncKind(kind)
           \/ \E id \in Ids : OthersDelete(id) \/ StatusUpdaterAllocates(id)
           \/ Resync \/ HelmChanges
  BY <1>5, OthersGuarded
<1>6. CASE Restart
  BY <1>6, RestartGuarded
<1> QED
  BY <1>1, <1>2, <1>3, <1>4, <1>5, <1>6 DEF Next, Environment

\* FinalizerInv is an invariant, relative to the types.
LEMMA FinalizerInvHolds == Spec => []FinalizerInv
<1>1. Init => FinalizerInv
  BY InitGuarded
<1>2. TypeOK /\ FinalizerInv /\ [Next]_vars => FinalizerInv'
  BY StepGuarded
<1> QED
  BY <1>1, <1>2, TypeCorrect, PTL DEF Spec

\* Reconcile writes children, labels and status of a config only while the
\* config is on the server with the finalizer, however far the caches lag,
\* whatever calls fail or lose their answer, and whoever deletes or recreates
\* the config meanwhile.
THEOREM FinalizerFirst == Spec => []ProvisionsUnderFinalizer
<1>1. FinalizerInv => ProvisionsUnderFinalizer
  BY DEF FinalizerInv, PassInv
<1> QED
  BY <1>1, FinalizerInvHolds, PTL

\* handleDeletion never runs for a config that has the finalizer and that
\* nobody has deleted: a cached deletion timestamp can be old, but by the time
\* the operator acts on it the config of that name is gone, is still being
\* deleted, or is a new one that has not been given the finalizer.
THEOREM CleanupOnlyOfDeleted == Spec => [](pc \in CleaningUp => ~Live(cfg[cur]))
<1>1. FinalizerInv => (pc \in CleaningUp => ~Live(cfg[cur]))
  BY DEF FinalizerInv, PassInv, CleansUpDeleted
<1> QED
  BY <1>1, FinalizerInvHolds, PTL

-----------------------------------------------------------------------------
(* Edits.  By CopyCurrent, an Update that the server accepts carries the     *)
(* spec that the server has.                                                 *)

\* The Update that adds the finalizer changes the spec only by the defaults.
LEMMA AddFinalizerKeepsEdits ==
    ASSUME TypeOK, FinalizerInv, AddFinalizer, NEW c \in Configs,
           cfg[c] # Nil, cfg'[c] # Nil, cfg'[c].spec # cfg[c].spec
    PROVE  /\ ~cfg[c].finalizer /\ cfg'[c].finalizer
           /\ cfg'[c].spec = WrittenBack(cfg[c].spec)
<1> DEFINE new == [copy EXCEPT !.spec = WrittenBack(@), !.finalizer = TRUE]
<1>1. cur \in Configs /\ copy \in ConfigObjects /\ pc = "finalize"
  BY InPass DEF AddFinalizer, At
<1>2. new.finalizer /\ new.spec = WrittenBack(copy.spec)
  BY <1>1 DEF ConfigObjects
<1>3. SameVersion(cur) /\ PutConfig(cur, new)
  BY UpdateOutcomes DEF AddFinalizer
<1>4. cfg[cur] = copy /\ ~copy.finalizer
  BY <1>1, <1>3 DEF FinalizerInv, PassInv, CopyCurrent, CopyFits, SameVersion
<1>5. cfg' = [cfg EXCEPT ![cur] = new] /\ cfg \in [Configs -> ConfigObjects \cup {Nil}]
  BY <1>3 DEF PutConfig, TypeOK, ServerOK
<1>6. c = cur
  BY <1>5
<1> QED
  BY <1>1, <1>2, <1>4, <1>5, <1>6

\* A write of the status leaves every spec as it is.
LEMMA StatusKeepsEdits ==
    ASSUME TypeOK, FinalizerInv, ReportHelmConflict \/ RejectProfile \/ UpdateStatus, NEW c \in Configs
    PROVE  cfg[c] # Nil /\ cfg'[c] # Nil => cfg'[c].spec = cfg[c].spec
<1>1. cur \in Configs /\ copy \in ConfigObjects /\ pc \notin {"idle", "error"}
  BY InPass DEF ReportHelmConflict, RejectProfile, UpdateStatus, At
<1>2. PICK call, status, err : err \in BOOLEAN /\ UpdateConfig(call, [copy EXCEPT !.status = status], err)
  <2>1. CASE ReportHelmConflict \/ RejectProfile
    <3>1. PICK reason \in Reasons : WriteCondition(reason)
      BY <2>1 DEF ReportHelmConflict, RejectProfile, Reasons
    <3>2. PICK err \in BOOLEAN : UpdateConfig("status", [copy EXCEPT !.status.reason = reason], err)
      BY <3>1 DEF WriteCondition
    <3>3. [copy EXCEPT !.status.reason = reason] = [copy EXCEPT !.status = [copy.status EXCEPT !.reason = reason]]
      BY <1>1 DEF ConfigObjects
    <3> QED
      BY <3>2, <3>3
  <2>2. CASE UpdateStatus
    BY <2>2 DEF UpdateStatus
  <2> QED
    BY <2>1, <2>2
<1>3. CASE UNCHANGED cfg
  BY <1>3
<1>4. CASE SameVersion(cur) /\ PutConfig(cur, [copy EXCEPT !.status = status])
  <2>1. cfg[cur] = copy
    BY <1>1, <1>4 DEF FinalizerInv, PassInv, CopyCurrent, SameVersion
  <2>2. cfg' = [cfg EXCEPT ![cur] = [copy EXCEPT !.status = status]]
    BY <1>4 DEF PutConfig
  <2>3. [copy EXCEPT !.status = status].spec = copy.spec
    BY <1>1 DEF ConfigObjects
  <2> QED
    BY <1>1, <2>1, <2>2, <2>3 DEF TypeOK, ServerOK
<1> QED
  BY <1>2, <1>3, <1>4, UpdateOutcomes

\* The other steps of a pass write no config, or remove it.
LEMMA RestKeepsEdits ==
    ASSUME TypeOK, Reconcile, ~AddFinalizer, ~(ReportHelmConflict \/ RejectProfile \/ UpdateStatus),
           NEW c \in Configs
    PROVE  cfg'[c] = cfg[c] \/ cfg'[c] = Nil
<1>1. CASE Release
  <2>1. cur \in Configs
    BY <1>1, InPass DEF Release, At
  <2>2. PutConfig(cur, Nil) \/ UNCHANGED cfg
    BY <1>1, UpdateOutcomes DEF Release
  <2> QED
    BY <2>1, <2>2 DEF PutConfig, TypeOK, ServerOK
<1>2. CASE CheckHelm \/ DetectOpenShift \/ Apply \/ ListMatching \/ ListPool \/ ListFails
  BY <1>2 DEF CheckHelm, DetectOpenShift, Apply, ListMatching, ListPool, ListFails, server
<1>3. CASE DeleteLabelled \/ ListLabelled \/ DeleteClusterScoped \/ Requeue
  BY <1>3 DEF DeleteLabelled, ListLabelled, DeleteClusterScoped, Requeue, server
<1>4. CASE \E n \in Nodes : LabelNode(n) \/ WriteTopology(n) \/ UnlabelNode(n)
  BY <1>4 DEF LabelNode, WriteTopology, UnlabelNode
<1> QED
  BY <1>1, <1>2, <1>3, <1>4 DEF Reconcile

\* No pass overwrites an edit that was made while it ran, however old its copy
\* of the config is and whatever fails; the one Update that changes a spec is
\* the one that adds the finalizer, and all it changes is what the API server's
\* defaults turn on.
THEOREM EditsAreKept == Spec => NoEditLost
<1>1. ASSUME TypeOK, FinalizerInv, Reconcile, NEW c \in Configs,
             cfg[c] # Nil, cfg'[c] # Nil, cfg'[c].spec # cfg[c].spec
      PROVE  /\ ~cfg[c].finalizer /\ cfg'[c].finalizer
             /\ cfg'[c].spec = WrittenBack(cfg[c].spec)
  BY <1>1, AddFinalizerKeepsEdits, StatusKeepsEdits, RestKeepsEdits
<1>2. TypeOK /\ FinalizerInv => (Reconcile =>
          \A c \in Configs :
              cfg[c] # Nil /\ cfg'[c] # Nil /\ cfg'[c].spec # cfg[c].spec
              => /\ ~cfg[c].finalizer /\ cfg'[c].finalizer
                 /\ cfg'[c].spec = WrittenBack(cfg[c].spec))
  BY <1>1
<1> QED
  BY <1>2, TypeCorrect, FinalizerInvHolds, PTL DEF NoEditLost
=============================================================================
