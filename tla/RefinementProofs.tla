-------------------------- MODULE RefinementProofs --------------------------
(***************************************************************************)
(* Operator implements Lifecycle, for all configs, nodes, specs, budgets,  *)
(* lags and failures.                                                      *)
(***************************************************************************)
EXTENDS OperatorProofs, Refinement, PlanProofs

\* The children of a config's own are of the kinds and names that handleDeletion
\* removes, and carry the config's instance label.
LEMMA OwnNamed ==
    ASSUME NEW c \in Configs, NEW id \in OwnIds(c)
    PROVE  /\ id[1] \in ChildKinds \ {"ConfigMap", "RuntimeClass"}
           /\ \A obj \in Objects : obj.id = id => obj.label = Instance(c)
           /\ id[1] \in {"ClusterRole", "ClusterRoleBinding"} => id \in ClusterScoped(c, TRUE)
<1>1. \A obj \in Objects :
          obj.id = id => \E o \in BOOLEAN : WellNamed(obj, c, o) /\ id[1] # "RuntimeClass"
    <2> SUFFICES ASSUME NEW obj \in Objects, obj.id = id
                 PROVE  \E o \in BOOLEAN : WellNamed(obj, c, o) /\ id[1] # "RuntimeClass"
        OBVIOUS
    <2>1. id[1] # "ConfigMap" /\ id[3] = c
        BY DEF OwnIds
    <2>2. PICK d \in Configs, o \in BOOLEAN : WellNamed(obj, d, o)
        BY <2>1, ObjectNamed
    <2>3. id[1] # "RuntimeClass"
        BY <2>1, <2>2, NilAssumption DEF WellNamed
    <2>4. d = c
        BY <2>1, <2>2, <2>3 DEF WellNamed
    <2> QED BY <2>2, <2>3, <2>4
<1>2. PICK obj \in Objects : obj.id = id
    BY DEF OwnIds, Ids
<1>3. ClusterScoped(c, FALSE) \subseteq ClusterScoped(c, TRUE)
    BY DEF ClusterScoped
<1>4. \A d, o : WellNamed(obj, d, o) => obj.id[1] \in ChildKinds
    BY DEF WellNamed
<1>5. id[1] \in ChildKinds \ {"ConfigMap", "RuntimeClass"}
    BY <1>1, <1>2, <1>4 DEF OwnIds
<1>6. ASSUME NEW x \in Objects, x.id = id PROVE x.label = Instance(c)
    BY <1>1, <1>5, <1>6 DEF WellNamed
<1>7. ASSUME id[1] \in {"ClusterRole", "ClusterRoleBinding"} PROVE id \in ClusterScoped(c, TRUE)
    <2>1. PICK o \in BOOLEAN : WellNamed(obj, c, o)
        BY <1>1, <1>2
    <2>2. id \in ClusterScoped(c, o)
        BY <1>2, <1>7, <2>1 DEF WellNamed, ClusterKinds
    <2> QED BY <2>2, <1>3
<1> QED BY <1>5, <1>6, <1>7

-----------------------------------------------------------------------------
(* What the proof needs beyond FinalizerInv: objects are kept under their   *)
(* own ids, and the cleanup works on a copy that is being deleted.          *)

StoreNamed ==
    /\ \A id \in Ids : store[id] # Nil => store[id].id = id
    /\ \A id \in LaggingIds : seen[id] # Nil => seen[id].id = id

CleansUpDeleting == pc \in CleaningUp => copy.deleting

NamesInv == StoreNamed /\ CleansUpDeleting

\* A write of a child, if it happens, stores the child under its id.
LEMMA createOrUpdateOutcomes ==
    ASSUME ServerOK, NEW obj, NEW err \in BOOLEAN, createOrUpdate(obj, err)
    PROVE  store' = store \/ store' = [store EXCEPT ![obj.id] = obj]
BY DEF createOrUpdate

\* A deletion leaves or removes children.
LEMMA RemovalNamed ==
    ASSUME TypeOK, StoreNamed, UNCHANGED seen, NEW gone,
           store' = [id \in Ids |-> IF id \in gone THEN Nil ELSE store[id]]
    PROVE  StoreNamed'
BY DEF StoreNamed

LEMMA StoreFrameNamed ==
    ASSUME StoreNamed, UNCHANGED <<store, seen>>
    PROVE  StoreNamed'
BY DEF StoreNamed

\* Apply and WriteTopology.
LEMMA WritesNamed ==
    ASSUME TypeOK, StoreNamed, Apply \/ \E n \in Nodes : WriteTopology(n)
    PROVE  StoreNamed'
<1>1. UNCHANGED seen
    BY DEF Apply, WriteTopology, caches
<1>2. PICK obj \in Objects, err \in BOOLEAN : obj.id \in Ids /\ createOrUpdate(obj, err)
    <2>1. CASE Apply
        <3>1. cur \in Configs /\ copy.spec \in ValidSpecs
            BY <2>1 DEF Apply, At, TypeOK, WorkerOK
        <3>2. CurPlan[pos] \in Objects /\ CurPlan[pos].id \in Ids
            BY <2>1, <3>1, PlanTyped DEF CurPlan, Apply
        <3> QED BY <2>1, <3>2 DEF Apply
    <2>2. ASSUME NEW n \in Nodes, WriteTopology(n)
          PROVE  \E obj \in Objects, err \in BOOLEAN : obj.id \in Ids /\ createOrUpdate(obj, err)
        <3>1. copy.spec \in ValidSpecs
            BY <2>2 DEF WriteTopology, At, TypeOK, WorkerOK
        <3> QED BY <2>2, <3>1, NodeTopologyTyped DEF WriteTopology
    <2> QED BY <2>1, <2>2
<1>3. CASE store' = store
    BY <1>1, <1>3, StoreFrameNamed
<1>4. CASE store' = [store EXCEPT ![obj.id] = obj]
    BY <1>1, <1>2, <1>4 DEF StoreNamed, TypeOK, ServerOK
<1> QED BY <1>2, <1>3, <1>4, createOrUpdateOutcomes DEF TypeOK

\* DeleteLabelled and DeleteClusterScoped.
LEMMA DeletionsNamed ==
    ASSUME TypeOK, StoreNamed, DeleteLabelled \/ DeleteClusterScoped
    PROVE  StoreNamed'
<1>1. UNCHANGED seen
    BY DEF DeleteLabelled, DeleteClusterScoped, caches
<1>2. PICK gone : store' = [id \in Ids |-> IF id \in gone THEN Nil ELSE store[id]]
    BY DEF DeleteLabelled, DeleteClusterScoped
<1> QED BY <1>1, <1>2, RemovalNamed

\* What others do to children.
LEMMA DriftNamed ==
    ASSUME TypeOK, StoreNamed, NEW id \in Ids, OthersDelete(id) \/ StatusUpdaterAllocates(id)
    PROVE  StoreNamed'
<1>1. UNCHANGED seen
    BY DEF OthersDelete, StatusUpdaterAllocates, caches
<1>2. CASE OthersDelete(id)
    BY <1>1, <1>2 DEF OthersDelete, StoreNamed, TypeOK, ServerOK
<1>3. CASE StatusUpdaterAllocates(id)
    <2>1. store' = [store EXCEPT ![id] = Allocated(store[id])]
        BY <1>3 DEF StatusUpdaterAllocates
    <2>2. Allocated(store[id]).id = store[id].id
        BY <1>3, TopologyNamed DEF StatusUpdaterAllocates, NodeTopologies
    <2>3. store[id] # Nil
        BY <1>3, NilAssumption DEF StatusUpdaterAllocates, Objects
    <2> QED BY <1>1, <2>1, <2>2, <2>3 DEF StoreNamed, TypeOK, ServerOK
<1> QED BY <1>2, <1>3

\* The caches of children show what the server had.
LEMMA SyncsNamed ==
    ASSUME TypeOK, StoreNamed, Restart \/ \E kind \in ChildKinds : SyncKind(kind)
    PROVE  StoreNamed'
<1>1. UNCHANGED store /\ LaggingIds \subseteq Ids
    BY DEF Restart, SyncKind, server, LaggingIds
<1>2. CASE Restart
    BY <1>1, <1>2 DEF Restart, StoreNamed
<1>3. ASSUME NEW kind \in ChildKinds, SyncKind(kind) PROVE StoreNamed'
    BY <1>1, <1>3 DEF SyncKind, StoreNamed
<1> QED BY <1>2, <1>3

\* The writes to configs and nodes are none to children.
LEMMA UpdatesFrame ==
    ASSUME NEW call, NEW new, NEW err
    PROVE  /\ UpdateConfig(call, new, err) => UNCHANGED seen
           /\ \A n : UpdateNode(n, new, err) => UNCHANGED seen
BY DEF UpdateConfig, UpdateNode, PutConfig, PutNode, caches

LEMMA PassKeepsChildren ==
    ASSUME \/ AddFinalizer \/ ReportHelmConflict \/ RejectProfile \/ UpdateStatus \/ Release
           \/ CheckHelm \/ DetectOpenShift \/ ListMatching \/ ListPool \/ ListFails \/ ListLabelled
           \/ Requeue
           \/ \E n \in Nodes : LabelNode(n) \/ UnlabelNode(n)
    PROVE  UNCHANGED <<store, seen>>
<1>1. CASE AddFinalizer \/ ReportHelmConflict \/ RejectProfile \/ UpdateStatus \/ Release
    BY <1>1, UpdatesFrame DEF AddFinalizer, ReportHelmConflict, RejectProfile, WriteCondition,
                              UpdateStatus, Release
<1>2. CASE \/ CheckHelm \/ DetectOpenShift \/ ListMatching \/ ListPool \/ ListFails \/ ListLabelled
           \/ Requeue
    BY <1>2 DEF CheckHelm, DetectOpenShift, ListMatching, ListPool, ListFails, ListLabelled,
                Requeue, server, caches
<1>3. CASE \E n \in Nodes : LabelNode(n) \/ UnlabelNode(n)
    BY <1>3, UpdatesFrame DEF LabelNode, UnlabelNode, caches
<1> QED BY <1>1, <1>2, <1>3

LEMMA OthersKeepChildren ==
    ASSUME \/ \E c \in Configs : Take(c) \/ SyncConfig(c) \/ UserCreates(c) \/ UserEdits(c) \/ UserDeletes(c)
           \/ \E n \in Nodes : SyncNode(n) \/ NodeJoins(n) \/ NodeLeaves(n) \/ UserRelabels(n)
           \/ Resync \/ HelmChanges
    PROVE  UNCHANGED <<store, seen>>
BY DEF Take, SyncConfig, UserCreates, UserEdits, UserDeletes, SyncNode, NodeJoins, NodeLeaves,
       UserRelabels, ChangeConfig, ChangeNode, PutConfig, PutNode, Resync, HelmChanges, server, caches

LEMMA StepStoreNamed ==
    ASSUME TypeOK, StoreNamed, [Next]_vars
    PROVE  StoreNamed'
<1>1. CASE UNCHANGED vars
    BY <1>1, StoreFrameNamed DEF vars, server, caches
<1>2. CASE Reconcile
    BY <1>2, WritesNamed, DeletionsNamed, PassKeepsChildren, StoreFrameNamed DEF Reconcile
<1>3. CASE \E kind \in ChildKinds : SyncKind(kind)
    BY <1>3, SyncsNamed
<1>4. CASE Environment
    BY <1>4, DriftNamed, SyncsNamed, OthersKeepChildren, StoreFrameNamed DEF Environment
<1>5. CASE Resync \/ (\E c \in Configs : Take(c) \/ SyncConfig(c)) \/ \E n \in Nodes : SyncNode(n)
    BY <1>5, OthersKeepChildren, StoreFrameNamed
<1> QED BY <1>1, <1>2, <1>3, <1>4, <1>5 DEF Next

\* The cleanup starts from a copy with a deletion timestamp and keeps it.
LEMMA StepCleansUp ==
    ASSUME TypeOK, CleansUpDeleting, [Next]_vars
    PROVE  CleansUpDeleting'
<1>1. CASE UNCHANGED <<pc, copy>>
    BY <1>1 DEF CleansUpDeleting
<1>2. CASE pc' \notin CleaningUp
    BY <1>2 DEF CleansUpDeleting
<1>3. CASE pc \in CleaningUp /\ copy' = copy
    BY <1>3 DEF CleansUpDeleting
<1>4. ASSUME NEW c \in Configs, Take(c) PROVE CleansUpDeleting'
    <2>1. CASE copy' = seenCfg[c] /\ pc' = Entry(seenCfg[c])
        BY <2>1 DEF Entry, CleansUpDeleting, CleaningUp
    <2>2. CASE pc' = "error"
        BY <2>2, <1>2 DEF CleaningUp
    <2> QED BY <1>4, <1>1, <2>1, <2>2, TakeOutcomes
<1>5. CASE Reconcile
    <2>1. CASE AddFinalizer \/ ReportHelmConflict \/ RejectProfile \/ UpdateStatus \/ Release
               \/ ListFails \/ Requeue
        BY <2>1, <1>2 DEF AddFinalizer, ReportHelmConflict, RejectProfile, UpdateStatus, Release,
                          ListFails, Requeue, Return, CleaningUp
    <2>2. CASE CheckHelm \/ ListMatching \/ ListPool
        BY <2>2, <1>2 DEF CheckHelm, ListMatching, ListPool, Goto, CleaningUp
    <2>3. CASE ListLabelled \/ DeleteClusterScoped
        BY <2>3, <1>3 DEF ListLabelled, DeleteClusterScoped, At, Goto, CleaningUp
    <2>4. CASE DetectOpenShift \/ DeleteLabelled \/ \E n \in Nodes : UnlabelNode(n)
        BY <2>4, <1>1 DEF DetectOpenShift, DeleteLabelled, UnlabelNode, worker
    <2>5. CASE Apply \/ \E n \in Nodes : LabelNode(n) \/ WriteTopology(n)
        BY <2>5, <1>1, <1>2 DEF Apply, LabelNode, WriteTopology, Return, CleaningUp
    <2> QED BY <1>5, <2>1, <2>2, <2>3, <2>4, <2>5 DEF Reconcile
<1>6. CASE Environment
    BY <1>6, <1>1, <1>2
       DEF Environment, UserCreates, UserEdits, UserDeletes, NodeJoins, NodeLeaves, UserRelabels,
           ChangeConfig, ChangeNode, OthersDelete, StatusUpdaterAllocates, HelmChanges, Restart,
           Return, CleaningUp, worker
<1>7. CASE \/ \E c \in Configs : SyncConfig(c)
           \/ \E n \in Nodes : SyncNode(n)
           \/ \E kind \in ChildKinds : SyncKind(kind)
           \/ Resync
    BY <1>7, <1>1 DEF SyncConfig, SyncNode, SyncKind, Resync, worker
<1>8. CASE UNCHANGED vars
    BY <1>8, <1>1 DEF vars, worker
<1> QED BY <1>4, <1>5, <1>6, <1>7, <1>8 DEF Next

LEMMA NamesInvHolds == Spec => []NamesInv
<1>1. Init => NamesInv
    BY DEF Init, NamesInv, StoreNamed, CleansUpDeleting, CleaningUp
<1>2. TypeOK /\ NamesInv /\ [Next]_vars => NamesInv'
    BY StepStoreNamed, StepCleansUp DEF NamesInv
<1> QED BY <1>1, <1>2, TypeCorrect, PTL DEF Spec

-----------------------------------------------------------------------------
(* How the parts of an action read in the terms of Lifecycle. *)

\* What does not change in Operator does not change in Lifecycle.
LEMMA AbstractFrame ==
    /\ UNCHANGED cfg => UNCHANGED <<phase, report>>
    /\ UNCHANGED store => UNCHANGED present
    /\ UNCHANGED budget => UNCHANGED drift
BY DEF phase, report, present, drift

\* The other disturbances are not drift.
LEMMA DriftFrame ==
    ASSUME RestOK
    PROVE  /\ \A d \in Disturbances \ {"drift"} : Spend(d) => UNCHANGED drift
           /\ \A call : \A failed \in BOOLEAN : MayFail(call, failed) => UNCHANGED drift
BY DEF RestOK, Spend, MayFail, Disturbances, drift

\* A write of a config moves it to the phase of what is written.
LEMMA PutConfigAbstract ==
    ASSUME TypeOK, NEW c \in Configs, NEW new, PutConfig(c, new)
    PROVE  /\ phase' = [phase EXCEPT ![c] = PhaseOf(new)]
           /\ report' = [report EXCEPT ![c] = IF new = Nil THEN NoStatus ELSE new.status]
BY DEF PutConfig, TypeOK, ServerOK, phase, report

\* The outcomes of an Update of the config, with what they leave of Lifecycle.
LEMMA UpdateConfigAbstract ==
    ASSUME TypeOK, cur \in Configs, NEW call, NEW new, NEW err \in BOOLEAN, UpdateConfig(call, new, err)
    PROVE  /\ UNCHANGED drift
           /\ \/ UNCHANGED <<phase, report>>
              \/ SameVersion(cur) /\ PutConfig(cur, new)
BY AbstractFrame, DriftFrame, UpdateOutcomes DEF UpdateConfig, TypeOK

LEMMA UpdateNodeAbstract ==
    ASSUME TypeOK, NEW n, NEW new, NEW err \in BOOLEAN, UpdateNode(n, new, err)
    PROVE  UNCHANGED drift
BY AbstractFrame, DriftFrame DEF UpdateNode, TypeOK

-----------------------------------------------------------------------------
(* Each action is an action of Lifecycle or changes nothing of it. *)

\* A step of Lifecycle, or none.
Mapped == L!Next \/ UNCHANGED L!vars

LEMMA StutterMapped ==
    ASSUME UNCHANGED <<cfg, store>>, UNCHANGED drift
    PROVE  Mapped
BY AbstractFrame DEF Mapped, L!vars

\* AddFinalizer guards the config, unless it has a finalizer already.
LEMMA AddFinalizerMapped ==
    ASSUME TypeOK, FinalizerInv, AddFinalizer
    PROVE  Mapped
<1> DEFINE new == [copy EXCEPT !.spec = WrittenBack(@), !.finalizer = TRUE]
<1>1. cur \in Configs /\ copy \in ConfigObjects /\ pc = "finalize"
    BY InPass DEF AddFinalizer, At
<1>2. new \in ConfigObjects /\ new.finalizer /\ new.deleting = copy.deleting /\ new.status = copy.status
    <2>1. copy.spec \in Specs /\ WrittenBack(copy.spec) \in Specs
        BY <1>1, SpecsAssumption DEF ConfigObjects
    <2> QED BY <1>1, <2>1 DEF ConfigObjects
<1>3. PICK err \in BOOLEAN : UpdateConfig("update", new, err)
    BY DEF AddFinalizer
<1> HIDE DEF new
<1>4. UNCHANGED drift /\ UNCHANGED present
    BY <1>1, <1>3, UpdateConfigAbstract, AbstractFrame DEF AddFinalizer
<1>5. CASE UNCHANGED <<phase, report>>
    BY <1>4, <1>5 DEF Mapped, L!vars
<1>6. CASE SameVersion(cur) /\ PutConfig(cur, new)
    <2>1. cfg[cur] = copy /\ ~copy.deleting
        BY <1>1, <1>6 DEF FinalizerInv, PassInv, CopyCurrent, CopyFits, SameVersion
    <2>2. phase[cur] = (IF copy.finalizer THEN "guarded" ELSE "new") /\ report[cur] = copy.status
        BY <1>1, <2>1, NilAssumption DEF phase, report, PhaseOf
    <2>3. PhaseOf(new) = "guarded" /\ new # Nil
        BY <1>2, <2>1, NilAssumption DEF PhaseOf
    <2>4. phase' = [phase EXCEPT ![cur] = "guarded"] /\ report' = [report EXCEPT ![cur] = new.status]
        BY <1>1, <1>6, <2>3, PutConfigAbstract
    <2>5. UNCHANGED report
        BY <1>2, <2>2, <2>4 DEF report
    <2>6. CASE copy.finalizer
        <3>1. UNCHANGED phase
            BY <2>2, <2>4, <2>6 DEF phase
        <3> QED BY <1>4, <2>5, <3>1 DEF Mapped, L!vars
    <2>7. CASE ~copy.finalizer
        <3>1. L!Guard(cur)
            BY <1>4, <2>2, <2>4, <2>5, <2>7 DEF L!Guard, L!Move
        <3> QED BY <1>1, <3>1 DEF Mapped, L!Next
    <2> QED BY <2>6, <2>7
<1> QED BY <1>1, <1>3, <1>5, <1>6, UpdateConfigAbstract

\* A status write of a pass that provisions reports on a config in use.
LEMMA StatusWriteMapped ==
    ASSUME TypeOK, FinalizerInv, pc \in Provisioning, NEW call, NEW err \in BOOLEAN,
           NEW new \in ConfigObjects,
           new.finalizer = copy.finalizer, new.deleting = copy.deleting,
           UpdateConfig(call, new, err), UNCHANGED store
    PROVE  Mapped
<1>1. cur \in Configs
    BY InPass DEF Provisioning
<1>2. UNCHANGED drift /\ UNCHANGED present
    BY <1>1, UpdateConfigAbstract, AbstractFrame
<1>3. CASE UNCHANGED <<phase, report>>
    BY <1>2, <1>3 DEF Mapped, L!vars
<1>4. CASE SameVersion(cur) /\ PutConfig(cur, new)
    <2>1. cfg[cur] = copy /\ Live(copy)
        BY <1>4 DEF FinalizerInv, PassInv, CopyCurrent, CopyFits, SameVersion, Provisioning
    <2>2. phase[cur] = "guarded" /\ PhaseOf(new) = "guarded"
        BY <1>1, <2>1, NilAssumption DEF phase, PhaseOf, Live
    <2>3. phase' = [phase EXCEPT ![cur] = "guarded"]
          /\ report' = [report EXCEPT ![cur] = new.status]
        BY <1>1, <1>4, <2>2, NilAssumption, PutConfigAbstract
    <2>4. UNCHANGED phase
        BY <2>2, <2>3 DEF phase
    <2>5. report' = [report EXCEPT ![cur] = report'[cur]]
        BY <1>1, <2>3 DEF report
    <2>6. L!Report(cur)
        BY <1>2, <2>2, <2>4, <2>5 DEF L!Report
    <2> QED BY <1>1, <2>6 DEF Mapped, L!Next
<1> QED BY <1>1, <1>3, <1>4, UpdateConfigAbstract

LEMMA ReportsMapped ==
    ASSUME TypeOK, FinalizerInv, ReportHelmConflict \/ RejectProfile \/ UpdateStatus
    PROVE  Mapped
<1>1. CASE ReportHelmConflict \/ RejectProfile
    <2>1. pc \in Provisioning /\ UNCHANGED store
        BY <1>1 DEF ReportHelmConflict, RejectProfile, At, Provisioning
    <2>2. copy \in ConfigObjects
        BY <2>1, InPass DEF Provisioning
    <2>3. PICK reason \in Reasons : WriteCondition(reason)
        BY <1>1 DEF ReportHelmConflict, RejectProfile, Reasons
    <2> DEFINE new == [copy EXCEPT !.status.reason = reason]
    <2>4. new \in ConfigObjects /\ new.finalizer = copy.finalizer /\ new.deleting = copy.deleting
        BY <2>2 DEF ConfigObjects, Statuses
    <2>5. PICK err \in BOOLEAN : UpdateConfig("status", new, err)
        BY <2>3 DEF WriteCondition
    <2> HIDE DEF new
    <2> QED BY <2>1, <2>4, <2>5, StatusWriteMapped
<1>2. CASE UpdateStatus
    <2> DEFINE status == ReconciledStatus(copy.spec, ListNodes(nodeListOption(cur, copy.spec)))
               new == [copy EXCEPT !.status = status]
    <2>1. pc \in Provisioning /\ UNCHANGED store
        BY <1>2 DEF UpdateStatus, At, Provisioning
    <2>2. copy \in ConfigObjects
        BY <2>1, InPass DEF Provisioning
    <2>3. status \in Statuses
        BY <1>2, StatusTyped DEF TypeOK, WorkerOK, UpdateStatus, At
    <2>4. new \in ConfigObjects /\ new.finalizer = copy.finalizer /\ new.deleting = copy.deleting
        BY <2>2, <2>3 DEF ConfigObjects
    <2>5. PICK err \in BOOLEAN : UpdateConfig("status", new, err)
        BY <1>2 DEF UpdateStatus
    <2> HIDE DEF new
    <2> QED BY <2>1, <2>4, <2>5, StatusWriteMapped
<1> QED BY <1>1, <1>2

\* What Release needs to know, whether or not the operator is thorough.
LEMMA ReleaseOutcomes ==
    ASSUME TypeOK, FinalizerInv, NamesInv, Release
    PROVE  /\ cur \in Configs
           /\ UNCHANGED <<present, drift>>
           /\ \/ UNCHANGED <<phase, report>>
              \/ /\ phase[cur] = "terminating"
                 /\ phase' = [phase EXCEPT ![cur] = "absent"]
                 /\ report' = [report EXCEPT ![cur] = NoStatus]
<1>1. cur \in Configs /\ copy \in ConfigObjects /\ pc \in CleaningUp
    BY InPass DEF Release, At, CleaningUp
<1>2. PICK err \in BOOLEAN : UpdateConfig("update", Nil, err)
    BY DEF Release
<1>3. UNCHANGED drift /\ UNCHANGED present
    BY <1>1, <1>2, UpdateConfigAbstract, AbstractFrame DEF Release
<1>4. CASE SameVersion(cur) /\ PutConfig(cur, Nil)
    <2>1. cfg[cur] = copy
        BY <1>1, <1>4 DEF FinalizerInv, PassInv, CopyCurrent, SameVersion, CleaningUp
    <2>2. copy.deleting
        BY <1>1 DEF NamesInv, CleansUpDeleting
    <2>3. phase[cur] = "terminating"
        BY <1>1, <2>1, <2>2, NilAssumption DEF phase, PhaseOf
    <2>4. PhaseOf(Nil) = "absent"
        BY DEF PhaseOf
    <2> QED BY <1>1, <1>3, <1>4, <2>3, <2>4, PutConfigAbstract
<1> QED BY <1>1, <1>2, <1>3, <1>4, UpdateConfigAbstract

LEMMA ReleaseMapped ==
    ASSUME TypeOK, FinalizerInv, NamesInv, Release
    PROVE  Mapped
BY ReleaseOutcomes DEF Mapped, L!Next, L!Finish, L!Move, L!vars

-----------------------------------------------------------------------------
\* A write of a child that is not another config's own.
LEMMA BuildMapped ==
    ASSUME TypeOK, FinalizerInv, pc \in Provisioning, NEW obj \in Objects, NEW err \in BOOLEAN,
           \A d \in Configs \ {cur} : obj.id \notin OwnIds(d),
           createOrUpdate(obj, err), UNCHANGED cfg
    PROVE  Mapped
<1>1. UNCHANGED drift
    BY AbstractFrame, DriftFrame DEF createOrUpdate, TypeOK
<1>2. cur \in Configs /\ phase[cur] \in {"guarded", "terminating"}
    <2>1. cur \in Configs
        BY InPass DEF Provisioning
    <2>2. Guarded(cur)
        BY DEF FinalizerInv, PassInv, ProvisionsUnderFinalizer
    <2> QED BY <2>1, <2>2 DEF phase, PhaseOf, Guarded
<1>3. CASE store' = store
    BY <1>1, <1>3, StutterMapped
<1>4. CASE store' = [store EXCEPT ![obj.id] = obj]
    <2>1. obj.id \in Ids
        BY DEF Ids
    <2>2. \A id \in Ids : store'[id] = IF id = obj.id THEN obj ELSE store[id]
        BY <1>4, <2>1 DEF TypeOK, ServerOK
    <2>3. \A d \in Configs : OwnIds(d) \subseteq Ids
        BY DEF OwnIds
    <2>4. CASE obj.id \in OwnIds(cur)
        <3>1. present' = [present EXCEPT ![cur] = TRUE]
            BY <1>2, <2>2, <2>3, <2>4, NilAssumption DEF present
        <3>2. L!Build(cur)
            BY <1>1, <1>2, <3>1, AbstractFrame DEF L!Build
        <3> QED BY <1>2, <3>2 DEF Mapped, L!Next
    <2>5. CASE obj.id \notin OwnIds(cur)
        <3>1. UNCHANGED present
            BY <2>2, <2>3, <2>5 DEF present
        <3> QED BY <1>1, <3>1, AbstractFrame DEF Mapped, L!vars
    <2> QED BY <2>4, <2>5
<1> QED BY <1>3, <1>4, createOrUpdateOutcomes DEF TypeOK

\* What a pass writes for its config is no other config's own.
LEMMA WritesMapped ==
    ASSUME TypeOK, FinalizerInv, Apply \/ \E n \in Nodes : WriteTopology(n)
    PROVE  Mapped
<1>1. pc \in Provisioning /\ cur \in Configs /\ copy.spec \in ValidSpecs /\ UNCHANGED cfg
    BY DEF Apply, WriteTopology, At, Provisioning, TypeOK, WorkerOK
<1>2. CASE Apply
    <2>1. CurPlan[pos] \in Objects /\ WellNamed(CurPlan[pos], cur, isOpenShift = "yes")
        BY <1>1, <1>2, PlanTyped, PlanNamed DEF CurPlan, Apply
    <2>2. \A d \in Configs \ {cur} : CurPlan[pos].id \notin OwnIds(d)
        BY <1>1, <2>1, NilAssumption DEF WellNamed, OwnIds
    <2> QED BY <1>1, <1>2, <2>1, <2>2, BuildMapped DEF Apply
<1>3. ASSUME NEW n \in Nodes, WriteTopology(n) PROVE Mapped
    <2>1. NodeTopologyConfigMap(n, copy.spec) \in Objects
        BY <1>1, NodeTopologyTyped
    <2>2. \A d \in Configs : NodeTopologyConfigMap(n, copy.spec).id \notin OwnIds(d)
        BY TopologyNamed DEF OwnIds
    <2> QED BY <1>1, <1>3, <2>1, <2>2, BuildMapped DEF WriteTopology
<1> QED BY <1>2, <1>3

\* The removal of children of a config that is not in use.
LEMMA CleanMapped ==
    ASSUME TypeOK, NEW c \in Configs, phase[c] # "guarded", NEW gone,
           \A d \in Configs \ {c} : gone \cap OwnIds(d) = {},
           store' = [id \in Ids |-> IF id \in gone THEN Nil ELSE store[id]],
           UNCHANGED cfg, UNCHANGED drift
    PROVE  Mapped
<1>1. \A d \in Configs : OwnIds(d) \subseteq Ids
    BY DEF OwnIds
<1>2. \A d \in Configs \ {c} : \A id \in OwnIds(d) : store'[id] = store[id]
    BY <1>1
<1>3. UNCHANGED <<phase, report>>
    BY AbstractFrame
<1>4. CASE \E id \in OwnIds(c) : store'[id] # Nil
    <2>1. \E id \in OwnIds(c) : store[id] # Nil
        BY <1>1, <1>4
    <2>2. UNCHANGED present
        BY <1>2, <1>4, <2>1 DEF present
    <2> QED BY <1>3, <2>2 DEF Mapped, L!vars
<1>5. CASE ~\E id \in OwnIds(c) : store'[id] # Nil
    <2>1. present' = [present EXCEPT ![c] = FALSE]
        BY <1>2, <1>5 DEF present
    <2>2. L!Clean(c)
        BY <1>3, <2>1 DEF L!Clean
    <2> QED BY <2>2 DEF Mapped, L!Next
<1> QED BY <1>4, <1>5

\* An instance label names one config, and is no node topology's.
LEMMA InstancesDiffer ==
    ASSUME NEW c \in Configs, NEW d \in Configs, c # d
    PROVE  Instance(c) # Instance(d)
BY DEF Instance

\* The children of another config are out of reach of the lists of a cleanup.
LEMMA ListsOwnOnly ==
    ASSUME TypeOK, StoreNamed, cur \in Configs, NEW d \in Configs \ {cur},
           NEW i \in DOMAIN DeletionOrder(cur), NEW id \in OwnIds(d)
    PROVE  id \notin ListChildren(DeletionOrder(cur)[i][1], DeletionOrder(cur)[i][2])
<1> DEFINE step == DeletionOrder(cur)[i]
<1>1. id \in Ids /\ id[1] # "ConfigMap"
    BY DEF OwnIds
<1>2. View(id) # Nil => View(id) \in Objects /\ View(id).id = id
    BY <1>1 DEF View, StoreNamed, TypeOK, ServerOK, CachesOK
<1>3. View(id) # Nil => View(id).label = Instance(d)
    BY <1>2, OwnNamed
<1>4. step[1] = "ConfigMap" \/ step[2] = Instance(cur)
    BY DEF DeletionOrder
<1> QED BY <1>1, <1>3, <1>4, InstancesDiffer DEF ListChildren

LEMMA DeletionsMapped ==
    ASSUME TypeOK, FinalizerInv, NamesInv, DeleteLabelled \/ DeleteClusterScoped
    PROVE  Mapped
<1>1. cur \in Configs /\ pc \in CleaningUp /\ UNCHANGED cfg
    BY InPass DEF DeleteLabelled, DeleteClusterScoped, At, CleaningUp
<1>2. phase[cur] # "guarded"
    <2>1. ~Live(cfg[cur])
        BY <1>1 DEF FinalizerInv, PassInv, CleansUpDeleted
    <2> QED BY <1>1, <2>1 DEF phase, PhaseOf, Live
<1>3. CASE DeleteLabelled
    <2> DEFINE doomed == ListChildren(DeletionOrder(cur)[pos][1], DeletionOrder(cur)[pos][2])
    <2>1. PICK kept : /\ MayFail("delete", kept # {})
                      /\ store' = [id \in Ids |-> IF id \in doomed \ kept THEN Nil ELSE store[id]]
        BY <1>3 DEF DeleteLabelled
    <2>2. \A d \in Configs \ {cur} : (doomed \ kept) \cap OwnIds(d) = {}
        BY <1>1, <1>3, ListsOwnOnly DEF DeleteLabelled, NamesInv
    <2>3. UNCHANGED drift
        BY <2>1, DriftFrame DEF TypeOK
    <2> QED BY <1>1, <1>2, <2>1, <2>2, <2>3, CleanMapped
<1>4. CASE DeleteClusterScoped
    <2> DEFINE doomed == ClusterScoped(cur, isOpenShift = "yes") \cap Ids
    <2>1. PICK kept : /\ MayFail("delete", kept # {})
                      /\ store' = [id \in Ids |-> IF id \in doomed \ kept THEN Nil ELSE store[id]]
        BY <1>4 DEF DeleteClusterScoped
    <2>2. \A d \in Configs \ {cur} : (doomed \ kept) \cap OwnIds(d) = {}
        BY <1>1, NilAssumption DEF ClusterScoped, OwnIds
    <2>3. UNCHANGED drift
        BY <2>1, DriftFrame DEF TypeOK
    <2> QED BY <1>1, <1>2, <2>1, <2>2, <2>3, CleanMapped
<1> QED BY <1>3, <1>4

-----------------------------------------------------------------------------
\* The users' writes: creation, an edit of the spec, and a deletion that the
\* finalizer turns into a deletion timestamp.
LEMMA UsersMapped ==
    ASSUME TypeOK, NEW c \in Configs, UserCreates(c) \/ UserEdits(c) \/ UserDeletes(c)
    PROVE  Mapped
<1>1. cfg[c] # Nil => cfg[c] \in ConfigObjects
    BY DEF TypeOK, ServerOK
<1>2. UNCHANGED drift /\ UNCHANGED present
    BY DriftFrame, AbstractFrame
       DEF UserCreates, UserEdits, UserDeletes, ChangeConfig, TypeOK, Disturbances
<1>3. CASE UserCreates(c)
    <2> DEFINE new(s) == [spec |-> s, finalizer |-> FALSE, deleting |-> FALSE, status |-> NoStatus]
    <2>1. PICK s \in Offers[c] : PutConfig(c, new(s))
        BY <1>3 DEF UserCreates, ChangeConfig
    <2>2. s \in Specs
        BY SpecsAssumption
    <2>3. new(s) # Nil
        <3>1. new(s) \in ConfigObjects
            BY <2>2 DEF ConfigObjects, Statuses, NoStatus, Reasons
        <3> QED BY <3>1, NilAssumption
    <2>4. PhaseOf(new(s)) = "new" /\ new(s).status = NoStatus
        BY <2>3 DEF PhaseOf
    <2> HIDE DEF new
    <2>5. phase' = [phase EXCEPT ![c] = "new"] /\ report' = [report EXCEPT ![c] = NoStatus]
        BY <2>1, <2>3, <2>4, PutConfigAbstract
    <2>6. phase[c] = "absent" /\ report[c] = NoStatus
        BY <1>3 DEF UserCreates, phase, PhaseOf, report
    <2>7. UNCHANGED report
        BY <2>5, <2>6 DEF report
    <2>8. L!Create(c)
        BY <1>2, <2>5, <2>6, <2>7 DEF L!Create, L!Move
    <2> QED BY <2>8 DEF Mapped, L!Next
<1>4. CASE UserEdits(c)
    <2>1. PICK s \in Offers[c] : PutConfig(c, [cfg[c] EXCEPT !.spec = s])
        BY <1>4 DEF UserEdits, ChangeConfig
    <2> DEFINE new == [cfg[c] EXCEPT !.spec = s]
    <2>0. PutConfig(c, new)
        BY <2>1
    <2>2. cfg[c] \in ConfigObjects /\ cfg[c] # Nil /\ s \in Specs
        BY <1>1, <1>4, SpecsAssumption DEF UserEdits
    <2>3. new \in ConfigObjects /\ new.finalizer = cfg[c].finalizer
          /\ new.deleting = cfg[c].deleting /\ new.status = cfg[c].status
        BY <2>2 DEF ConfigObjects
    <2> HIDE DEF new
    <2>4. PhaseOf(new) = PhaseOf(cfg[c]) /\ new # Nil
        BY <2>2, <2>3, NilAssumption DEF PhaseOf
    <2>5. phase' = [phase EXCEPT ![c] = PhaseOf(new)] /\ report' = [report EXCEPT ![c] = new.status]
        BY <2>0, <2>4, PutConfigAbstract
    <2>6. phase[c] = PhaseOf(new) /\ report[c] = new.status
        BY <2>2, <2>3, <2>4 DEF phase, report
    <2>7. UNCHANGED <<phase, report>>
        BY <2>5, <2>6 DEF phase, report
    <2> QED BY <1>2, <2>7 DEF Mapped, L!vars
<1>5. CASE UserDeletes(c)
    <2> DEFINE marked == [cfg[c] EXCEPT !.deleting = TRUE]
    <2>1. cfg[c] \in ConfigObjects /\ cfg[c] # Nil /\ ~cfg[c].deleting
        BY <1>1, <1>5 DEF UserDeletes
    <2>2. marked \in ConfigObjects /\ marked.deleting /\ marked.status = cfg[c].status
        BY <2>1 DEF ConfigObjects
    <2>3. PutConfig(c, IF cfg[c].finalizer THEN marked ELSE Nil)
        BY <1>5 DEF UserDeletes, ChangeConfig
    <2> HIDE DEF marked
    <2>4. CASE cfg[c].finalizer
        <3>1. marked # Nil /\ PhaseOf(marked) = "terminating" /\ phase[c] = "guarded"
            BY <2>1, <2>2, <2>4, NilAssumption DEF PhaseOf, phase
        <3>2. phase' = [phase EXCEPT ![c] = "terminating"]
              /\ report' = [report EXCEPT ![c] = report[c]]
            BY <2>1, <2>2, <2>3, <2>4, <3>1, PutConfigAbstract DEF report
        <3>3. UNCHANGED report
            BY <3>2 DEF report
        <3>4. L!Terminate(c)
            BY <1>2, <3>1, <3>2, <3>3 DEF L!Terminate, L!Move
        <3> QED BY <3>4 DEF Mapped, L!Next
    <2>5. CASE ~cfg[c].finalizer
        <3>1. PhaseOf(Nil) = "absent" /\ phase[c] = "new"
            BY <2>1, <2>5 DEF PhaseOf, phase
        <3>2. phase' = [phase EXCEPT ![c] = "absent"] /\ report' = [report EXCEPT ![c] = NoStatus]
            BY <2>3, <2>5, <3>1, PutConfigAbstract
        <3>3. L!Discard(c)
            BY <1>2, <3>1, <3>2 DEF L!Discard, L!Move
        <3> QED BY <3>3 DEF Mapped, L!Next
    <2> QED BY <2>4, <2>5
<1> QED BY <1>3, <1>4, <1>5

\* What others do to children is drift.
LEMMA DriftMapped ==
    ASSUME TypeOK, NEW id \in Ids, OthersDelete(id) \/ StatusUpdaterAllocates(id)
    PROVE  Mapped
<1>1. budget["drift"] > 0 /\ budget' = [budget EXCEPT !["drift"] = @ - 1] /\ UNCHANGED cfg
    BY DEF OthersDelete, StatusUpdaterAllocates, Spend
<1>2. drift > 0 /\ drift' = drift - 1
    BY <1>1 DEF drift, TypeOK, RestOK, Disturbances
<1>3. \A x \in Ids : store'[x] # Nil => store[x] # Nil
    <2>1. CASE OthersDelete(id)
        BY <2>1 DEF OthersDelete, TypeOK, ServerOK
    <2>2. CASE StatusUpdaterAllocates(id)
        <3>1. store[id] # Nil
            BY <2>2, NilAssumption DEF StatusUpdaterAllocates, Objects
        <3> QED BY <2>2, <3>1 DEF StatusUpdaterAllocates, TypeOK, ServerOK
    <2> QED BY <2>1, <2>2
<1>4. \A c \in Configs : present'[c] => present[c]
    BY <1>3 DEF present, OwnIds
<1>5. L!Drift
    BY <1>1, <1>2, <1>4, AbstractFrame DEF L!Drift
<1> QED BY <1>5 DEF Mapped, L!Next

\* The other steps of the worker write no config and no child.
LEMMA PassMapped ==
    ASSUME TypeOK,
           \/ CheckHelm \/ DetectOpenShift \/ ListMatching \/ ListPool \/ ListFails \/ ListLabelled
           \/ Requeue
           \/ \E n \in Nodes : LabelNode(n) \/ UnlabelNode(n)
    PROVE  Mapped
<1>1. UNCHANGED <<cfg, store>>
    BY DEF CheckHelm, DetectOpenShift, ListMatching, ListPool, ListFails, ListLabelled, Requeue,
           LabelNode, UnlabelNode, server
<1>2. UNCHANGED drift
    <2>1. CASE \/ CheckHelm \/ DetectOpenShift \/ ListMatching \/ ListPool \/ ListFails \/ ListLabelled
               \/ Requeue
        <3>1. UNCHANGED budget \/ \E call : \E failed \in BOOLEAN : MayFail(call, failed)
            BY <2>1 DEF CheckHelm, DetectOpenShift, ListMatching, ListPool, ListFails, ListLabelled,
                        Requeue
        <3> QED BY <3>1, DriftFrame, AbstractFrame DEF TypeOK
    <2>2. CASE \E n \in Nodes : LabelNode(n) \/ UnlabelNode(n)
        BY <2>2, UpdateNodeAbstract, AbstractFrame DEF LabelNode, UnlabelNode
    <2> QED BY <2>1, <2>2
<1> QED BY <1>1, <1>2, StutterMapped

\* Nor do the queue, the informers, the nodes, Helm and a restart.
LEMMA OthersMapped ==
    ASSUME TypeOK,
           \/ \E c \in Configs : Take(c) \/ SyncConfig(c)
           \/ \E n \in Nodes : SyncNode(n) \/ NodeJoins(n) \/ NodeLeaves(n) \/ UserRelabels(n)
           \/ \E kind \in ChildKinds : SyncKind(kind)
           \/ Resync \/ HelmChanges \/ Restart
    PROVE  Mapped
<1>1. UNCHANGED <<cfg, store>>
    BY DEF Take, SyncConfig, SyncNode, NodeJoins, NodeLeaves, UserRelabels, ChangeNode, PutNode,
           SyncKind, Resync, HelmChanges, Restart, server
<1>2. UNCHANGED budget \/ Spend("node") \/ Spend("helm") \/ Spend("crash") \/ Spend("fault")
    BY DEF Take, MayFail, SyncConfig, SyncNode, NodeJoins, NodeLeaves, UserRelabels, SyncKind, Resync,
           HelmChanges, Restart
<1>3. UNCHANGED drift
    BY <1>2, DriftFrame, AbstractFrame DEF TypeOK, Disturbances
<1> QED BY <1>1, <1>3, StutterMapped

-----------------------------------------------------------------------------
LEMMA InitMapped ==
    ASSUME Init
    PROVE  L!Init
<1>1. phase = [c \in Configs |-> "absent"] /\ report = [c \in Configs |-> NoStatus]
    BY DEF Init, phase, PhaseOf, report
<1>2. present = [c \in Configs |-> FALSE]
    BY DEF Init, present, OwnIds
<1>3. drift \in Nat
    BY BudgetAssumption DEF Init, drift, Disturbances
<1> QED BY <1>1, <1>2, <1>3 DEF L!Init

LEMMA StepMapped ==
    ASSUME TypeOK, FinalizerInv, NamesInv, [Next]_vars
    PROVE  Mapped
<1>1. CASE UNCHANGED vars
    BY <1>1, AbstractFrame, StutterMapped DEF vars, server
<1>2. CASE Reconcile
    BY <1>2, AddFinalizerMapped, ReportsMapped, ReleaseMapped, WritesMapped, DeletionsMapped, PassMapped
       DEF Reconcile
<1>3. CASE Environment
    BY <1>3, UsersMapped, DriftMapped, OthersMapped DEF Environment
<1>4. CASE \/ \E c \in Configs : Take(c) \/ SyncConfig(c)
           \/ \E n \in Nodes : SyncNode(n)
           \/ \E kind \in ChildKinds : SyncKind(kind)
           \/ Resync
    BY <1>4, OthersMapped
<1> QED BY <1>1, <1>2, <1>3, <1>4 DEF Next

\* The operator implements Lifecycle: its configs go through the phases of the
\* abstract specification, own children appear only under the finalizer and go
\* only while the config is not in use, and only a config in use is reported
\* on, whatever the caches show, the calls answer and the users do (Reconcile,
\* handleDeletion).
THEOREM Implements == Spec => ImplementsLifecycle
<1>1. Init => L!Init
    BY InitMapped
<1>2. TypeOK /\ FinalizerInv /\ NamesInv /\ [Next]_vars => [L!Next]_(L!vars)
    BY StepMapped DEF Mapped
<1> QED
    BY <1>1, <1>2, TypeCorrect, FinalizerInvHolds, NamesInvHolds, PTL
       DEF Spec, ImplementsLifecycle, L!Spec
=============================================================================
