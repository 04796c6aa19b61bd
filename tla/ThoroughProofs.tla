--------------------------- MODULE ThoroughProofs ---------------------------
(***************************************************************************)
(* Where the calls of handleDeletion succeed on up-to-date lists, nothing  *)
(* labelled for a config outlives it, for all configs, nodes, specs and    *)
(* budgets, and the operator implements the thorough Lifecycle.            *)
(***************************************************************************)
EXTENDS RefinementProofs

\* The lists and deletions of handleDeletion and the discovery of OpenShift do
\* not fail, and the caches of the children do not lag.
DeletionsReliable ==
    /\ "delete" \notin Faulty
    /\ "discovery" \notin Faulty
    /\ Lagging \cap ChildKinds = {}

\* Where there is an OpenShift to find, the discovery does not fail.
DiscoveryReliable == OnOpenShift => "discovery" \notin Faulty

-----------------------------------------------------------------------------
(* The invariant: what the cleanup has handled so far is gone. *)

MemoRight == isOpenShift \in {"unknown", IF OnOpenShift THEN "yes" ELSE "no"}

\* A pass and a cleanup start with the first child and the first list.
PosRight == (pc \in {"idle", "error"} => pos = 1) /\ (pc = "delete" => pos >= 1)

\* An object is a node topology, or was rendered for a config.
Known(obj) ==
    \/ obj.id[1] = "ConfigMap" /\ obj.label = NodeTopology
    \/ \E c \in Configs : WellNamed(obj, c, OnOpenShift)

StoreKnown == \A id \in Ids : store[id] # Nil => Known(store[id])

\* The children of one kind with one label; those that the cleanup is to remove.
Left(kind, label) == {id \in Ids : store[id] # Nil /\ id[1] = kind /\ store[id].label = label}
Doomed == {id \in Ids : store[id] # Nil /\ store[id].label \in {Instance(cur), NodeTopology}}

Progress ==
    /\ pc = "delete" =>
          \A i \in DOMAIN DeletionOrder(cur) :
              i < pos => Left(DeletionOrder(cur)[i][1], DeletionOrder(cur)[i][2]) = {}
    /\ pc = "unlabel" => Doomed \subseteq ClusterScoped(cur, OnOpenShift)
    /\ pc = "release" => Doomed = {}

ThoroughInv == MemoRight /\ PosRight /\ StoreKnown /\ Progress /\ NoOrphans

\* What FinalizerInv and NamesInv say is used as well.
Base == TypeOK /\ FinalizerInv /\ NamesInv

-----------------------------------------------------------------------------
(* Steps that remove children or none, and change no label. *)

Shrinks ==
    \A id \in Ids : store'[id] # Nil =>
        store[id] # Nil /\ store'[id].label = store[id].label /\ store'[id].id = store[id].id

LEMMA ShrinkKnown ==
    ASSUME Shrinks, StoreKnown
    PROVE  StoreKnown'
BY DEF Shrinks, StoreKnown, Known, WellNamed

LEMMA ShrinkProgress ==
    ASSUME Shrinks, Progress, UNCHANGED <<pc, cur, pos>>
    PROVE  Progress'
<1>1. \A kind, label : Left(kind, label)' \subseteq Left(kind, label)
    BY DEF Shrinks, Left
<1>2. Doomed' \subseteq Doomed
    BY DEF Shrinks, Doomed
<1> QED BY <1>1, <1>2 DEF Progress

\* A worker that is not in a cleanup has nothing to show.
LEMMA NoCleanupProgress ==
    ASSUME pc' \notin CleaningUp
    PROVE  Progress'
BY DEF Progress, CleaningUp

LEMMA OtherStoreShrinks ==
    ASSUME UNCHANGED store
    PROVE  Shrinks
BY DEF Shrinks

LEMMA RemovalShrinks ==
    ASSUME NEW gone, store' = [id \in Ids |-> IF id \in gone THEN Nil ELSE store[id]]
    PROVE  Shrinks
BY DEF Shrinks

LEMMA DriftShrinks ==
    ASSUME TypeOK, NEW id \in Ids, OthersDelete(id) \/ StatusUpdaterAllocates(id)
    PROVE  Shrinks
<1>1. CASE OthersDelete(id)
    BY <1>1 DEF OthersDelete, Shrinks, TypeOK, ServerOK
<1>2. CASE StatusUpdaterAllocates(id)
    <2>1. store[id] # Nil
        BY <1>2, NilAssumption DEF StatusUpdaterAllocates, Objects
    <2>2. Allocated(store[id]).label = store[id].label /\ Allocated(store[id]).id = store[id].id
        BY <1>2 DEF StatusUpdaterAllocates, NodeTopologies, NodeTopologyConfigMap, Child, Allocated
    <2> QED BY <1>2, <2>1, <2>2 DEF StatusUpdaterAllocates, Shrinks, TypeOK, ServerOK
<1> QED BY <1>1, <1>2

\* All steps but the writes of Reconcile.
LEMMA StoreShrinks ==
    ASSUME TypeOK, [Next]_vars, ~Apply, ~\E n \in Nodes : WriteTopology(n)
    PROVE  Shrinks
<1>1. CASE UNCHANGED vars
    BY <1>1, OtherStoreShrinks DEF vars, server
<1>2. CASE Reconcile
    <2>1. CASE DeleteLabelled \/ DeleteClusterScoped
        BY <2>1, RemovalShrinks DEF DeleteLabelled, DeleteClusterScoped
    <2>2. CASE ~(DeleteLabelled \/ DeleteClusterScoped)
        BY <1>2, <2>2, PassKeepsChildren, OtherStoreShrinks DEF Reconcile
    <2> QED BY <2>1, <2>2
<1>3. CASE Environment
    BY <1>3, DriftShrinks, OthersKeepChildren, OtherStoreShrinks DEF Environment, Restart, server
<1>4. CASE \/ \E c \in Configs : Take(c) \/ SyncConfig(c)
           \/ \E n \in Nodes : SyncNode(n)
           \/ Resync
    BY <1>4, OthersKeepChildren, OtherStoreShrinks
<1>5. CASE \E kind \in ChildKinds : SyncKind(kind)
    BY <1>5, OtherStoreShrinks DEF SyncKind, server
<1> QED BY <1>1, <1>2, <1>3, <1>4, <1>5 DEF Next

-----------------------------------------------------------------------------
(* The memo of detectOpenShift, and where a pass starts. *)

LEMMA StepMemo ==
    ASSUME DiscoveryReliable, MemoRight, [Next]_vars
    PROVE  MemoRight'
<1>1. CASE UNCHANGED isOpenShift
    BY <1>1 DEF MemoRight
<1>2. CASE DetectOpenShift
    BY <1>2 DEF DetectOpenShift, MayFail, DiscoveryReliable, MemoRight
<1>3. CASE Restart
    BY <1>3 DEF Restart, MemoRight
<1>4. CASE Reconcile /\ ~DetectOpenShift
    BY <1>1, <1>4
       DEF Reconcile, AddFinalizer, CheckHelm, ReportHelmConflict, RejectProfile, Apply, ListMatching,
           ListPool, ListFails, UpdateStatus, DeleteLabelled, ListLabelled, DeleteClusterScoped,
           Release, Requeue, LabelNode, WriteTopology, UnlabelNode
<1>5. CASE Environment /\ ~Restart
    BY <1>1, <1>5
       DEF Environment, UserCreates, UserEdits, UserDeletes, NodeJoins, NodeLeaves, UserRelabels,
           ChangeConfig, ChangeNode, OthersDelete, StatusUpdaterAllocates, HelmChanges
<1>6. CASE \/ \E c \in Configs : Take(c) \/ SyncConfig(c)
           \/ \E n \in Nodes : SyncNode(n)
           \/ \E kind \in ChildKinds : SyncKind(kind)
           \/ Resync \/ UNCHANGED vars
    BY <1>1, <1>6 DEF Take, SyncConfig, SyncNode, SyncKind, Resync, vars
<1> QED BY <1>2, <1>3, <1>4, <1>5, <1>6 DEF Next

\* The steps that change neither where the worker is nor its config.
Elsewhere ==
    \/ \E c \in Configs : SyncConfig(c) \/ UserCreates(c) \/ UserEdits(c) \/ UserDeletes(c)
    \/ \E n \in Nodes :
          SyncNode(n) \/ NodeJoins(n) \/ NodeLeaves(n) \/ UserRelabels(n) \/ UnlabelNode(n)
    \/ \E kind \in ChildKinds : SyncKind(kind)
    \/ \E id \in Ids : OthersDelete(id) \/ StatusUpdaterAllocates(id)
    \/ Resync \/ HelmChanges \/ DetectOpenShift \/ UNCHANGED vars

LEMMA ElsewhereFrame ==
    ASSUME Elsewhere
    PROVE  UNCHANGED <<pc, cur, pos>>
<1>1. CASE \/ \E c \in Configs : SyncConfig(c) \/ UserCreates(c) \/ UserEdits(c) \/ UserDeletes(c)
           \/ \E n \in Nodes :
                 SyncNode(n) \/ NodeJoins(n) \/ NodeLeaves(n) \/ UserRelabels(n) \/ UnlabelNode(n)
    BY <1>1
    DEF SyncConfig, UserCreates, UserEdits, UserDeletes, SyncNode, NodeJoins, NodeLeaves, UserRelabels,
        UnlabelNode, ChangeConfig, ChangeNode, worker
<1>2. CASE \/ \E kind \in ChildKinds : SyncKind(kind)
           \/ \E id \in Ids : OthersDelete(id) \/ StatusUpdaterAllocates(id)
           \/ Resync \/ HelmChanges \/ DetectOpenShift \/ UNCHANGED vars
    BY <1>2 DEF SyncKind, OthersDelete, StatusUpdaterAllocates, Resync, HelmChanges, DetectOpenShift,
                worker, vars
<1> QED BY <1>1, <1>2 DEF Elsewhere

\* The steps that leave or stay outside the cleanup.
NotCleaning ==
    \/ AddFinalizer \/ CheckHelm \/ ReportHelmConflict \/ RejectProfile \/ ListMatching \/ ListPool
    \/ ListFails \/ UpdateStatus \/ Release \/ Requeue \/ Restart \/ Apply
    \/ \E n \in Nodes : LabelNode(n) \/ WriteTopology(n)

LEMMA NotCleaningFrame ==
    ASSUME PosRight, NotCleaning
    PROVE  pc' \notin CleaningUp /\ PosRight'
<1>1. CASE AddFinalizer \/ CheckHelm \/ ListMatching \/ ListPool
    BY <1>1 DEF AddFinalizer, CheckHelm, ListMatching, ListPool, Return, Goto, CleaningUp, PosRight
<1>2. CASE ReportHelmConflict \/ RejectProfile \/ ListFails \/ UpdateStatus \/ Release \/ Restart
    BY <1>2 DEF ReportHelmConflict, RejectProfile, ListFails, UpdateStatus, Release, Restart, Return,
                CleaningUp, PosRight
<1>3. CASE Requeue
    BY <1>3 DEF Requeue, CleaningUp, PosRight
<1>4. CASE Apply \/ \E n \in Nodes : LabelNode(n) \/ WriteTopology(n)
    BY <1>4 DEF Apply, LabelNode, WriteTopology, At, Return, CleaningUp, PosRight
<1> QED BY <1>1, <1>2, <1>3, <1>4 DEF NotCleaning

\* The steps of the cleanup that go on to the next list or deletion.
LEMMA StepKinds ==
    ASSUME [Next]_vars
    PROVE  \/ Elsewhere \/ NotCleaning \/ DeleteLabelled \/ ListLabelled \/ DeleteClusterScoped
           \/ \E c \in Configs : Take(c)
BY DEF Next, Reconcile, Environment, Elsewhere, NotCleaning

LEMMA StepPos ==
    ASSUME TypeOK, PosRight, [Next]_vars
    PROVE  PosRight'
<1>1. CASE Elsewhere
    BY <1>1, ElsewhereFrame DEF PosRight
<1>2. CASE NotCleaning
    BY <1>2, NotCleaningFrame
<1>3. CASE DeleteLabelled
    BY <1>3 DEF DeleteLabelled, At, PosRight, TypeOK, WorkerOK
<1>4. CASE ListLabelled \/ DeleteClusterScoped
    BY <1>4 DEF ListLabelled, DeleteClusterScoped, Goto, PosRight
<1>5. ASSUME NEW c \in Configs, Take(c) PROVE PosRight'
    <2>1. pos = 1 /\ pos' = pos
        BY <1>5, TakeOutcomes DEF PosRight
    <2> QED BY <2>1 DEF PosRight
<1> QED BY <1>1, <1>2, <1>3, <1>4, <1>5, StepKinds

-----------------------------------------------------------------------------
(* What Reconcile writes. *)

\* With or without OpenShift, the name is one that the cleanup deletes.
LEMMA PlannedKnown ==
    ASSUME MemoRight, NEW c \in Configs, NEW obj, WellNamed(obj, c, isOpenShift = "yes")
    PROVE  WellNamed(obj, c, OnOpenShift)
<1>1. isOpenShift = "yes" => OnOpenShift
    BY DEF MemoRight
<1>2. ClusterScoped(c, isOpenShift = "yes") \subseteq ClusterScoped(c, OnOpenShift)
    BY <1>1 DEF ClusterScoped
<1> QED BY <1>2 DEF WellNamed

\* A write stores an object that is known, and labelled for a guarded config.
LEMMA WriteOutcomes ==
    ASSUME Base, MemoRight, Apply \/ \E n \in Nodes : WriteTopology(n)
    PROVE  /\ cur \in Configs /\ Guarded(cur) /\ UNCHANGED cfg
           /\ \/ UNCHANGED store
              \/ \E obj \in Objects :
                    /\ obj.id \in Ids
                    /\ store' = [store EXCEPT ![obj.id] = obj]
                    /\ Known(obj)
                    /\ obj.label \in {Instance(cur), NodeTopology}
<1>1. pc \in Provisioning /\ cur \in Configs /\ copy.spec \in ValidSpecs /\ UNCHANGED cfg
    BY DEF Apply, WriteTopology, At, Provisioning, Base, TypeOK, WorkerOK
<1>2. Guarded(cur)
    BY <1>1 DEF Base, FinalizerInv, PassInv, ProvisionsUnderFinalizer
<1>3. CASE Apply
    <2>1. CurPlan[pos] \in Objects /\ CurPlan[pos].id \in Ids
          /\ WellNamed(CurPlan[pos], cur, isOpenShift = "yes")
        BY <1>1, <1>3, PlanTyped, PlanNamed DEF CurPlan, Apply
    <2>2. Known(CurPlan[pos]) /\ CurPlan[pos].label = Instance(cur)
        BY <1>1, <2>1, PlannedKnown DEF Known, WellNamed
    <2>3. store' = store \/ store' = [store EXCEPT ![CurPlan[pos].id] = CurPlan[pos]]
        BY <1>3, createOrUpdateOutcomes DEF Apply, Base, TypeOK
    <2> QED BY <1>1, <1>2, <2>1, <2>2, <2>3
<1>4. ASSUME NEW n \in Nodes, WriteTopology(n)
      PROVE  \/ UNCHANGED store
             \/ \E obj \in Objects :
                   /\ obj.id \in Ids
                   /\ store' = [store EXCEPT ![obj.id] = obj]
                   /\ Known(obj)
                   /\ obj.label \in {Instance(cur), NodeTopology}
    <2> DEFINE cm == NodeTopologyConfigMap(n, copy.spec)
    <2>1. cm \in Objects /\ cm.id \in Ids
        BY <1>1, NodeTopologyTyped
    <2>2. cm.label = NodeTopology /\ cm.id[1] = "ConfigMap"
        BY DEF NodeTopologyConfigMap, Child
    <2>3. store' = store \/ store' = [store EXCEPT ![cm.id] = cm]
        BY <1>4, createOrUpdateOutcomes DEF WriteTopology, Base, TypeOK
    <2> HIDE DEF cm
    <2>4. Known(cm)
        BY <2>2 DEF Known
    <2> QED BY <2>1, <2>2, <2>3, <2>4
<1> QED BY <1>1, <1>2, <1>3, <1>4

LEMMA StepKnown ==
    ASSUME Base, MemoRight, StoreKnown, [Next]_vars
    PROVE  StoreKnown'
<1>1. CASE ~Apply /\ ~\E n \in Nodes : WriteTopology(n)
    BY <1>1, StoreShrinks, ShrinkKnown DEF Base
<1>2. CASE Apply \/ \E n \in Nodes : WriteTopology(n)
    <2>1. CASE UNCHANGED store
        BY <2>1, OtherStoreShrinks, ShrinkKnown
    <2>2. ASSUME NEW obj \in Objects, obj.id \in Ids, store' = [store EXCEPT ![obj.id] = obj], Known(obj)
          PROVE  StoreKnown'
        <3>1. \A id \in Ids : store'[id] = IF id = obj.id THEN obj ELSE store[id]
            BY <2>2 DEF Base, TypeOK, ServerOK
        <3>2. \A id \in Ids : store'[id] # Nil => Known(store'[id])
            BY <2>2, <3>1 DEF StoreKnown
        <3> QED BY <3>2 DEF StoreKnown, Known, WellNamed
    <2> QED BY <1>2, <2>1, <2>2, WriteOutcomes
<1> QED BY <1>1, <1>2

-----------------------------------------------------------------------------
(* The cleanup removes what it lists. *)

\* A child that the lists of handleDeletion do not find is deleted by name.
LEMMA KnownLeft ==
    ASSUME StoreNamed, StoreKnown, cur \in Configs, NEW id \in Doomed,
           \A i \in 1 .. 6 : Left(DeletionOrder(cur)[i][1], DeletionOrder(cur)[i][2]) = {}
    PROVE  id \in ClusterScoped(cur, OnOpenShift)
<1>1. id \in Ids /\ store[id] # Nil /\ Known(store[id]) /\ store[id].id = id
      /\ store[id].label \in {Instance(cur), NodeTopology}
    BY DEF Doomed, StoreKnown, StoreNamed
<1>2. /\ Left("DaemonSet", Instance(cur)) = {} /\ Left("Deployment", Instance(cur)) = {}
      /\ Left("Service", Instance(cur)) = {} /\ Left("ServiceAccount", Instance(cur)) = {}
      /\ Left("ConfigMap", Instance(cur)) = {} /\ Left("ConfigMap", NodeTopology) = {}
    BY DEF DeletionOrder
<1>3. PICK c \in Configs : WellNamed(store[id], c, OnOpenShift)
    BY <1>1, <1>2 DEF Known, Left
<1>4. c = cur
    BY <1>1, <1>3 DEF WellNamed, Instance, NodeTopology
<1>5. store[id].label = Instance(cur)
    BY <1>3, <1>4 DEF WellNamed
<1>6. id[1] \in ClusterKinds
    BY <1>1, <1>2, <1>3, <1>5 DEF WellNamed, Left, ChildKinds, ClusterKinds
<1> QED BY <1>1, <1>3, <1>4, <1>6 DEF WellNamed

LEMMA DeleteLabelledProgress ==
    ASSUME DeletionsReliable, Base, PosRight, Progress, DeleteLabelled
    PROVE  Progress'
<1>1. pc = "delete" /\ pc' = pc /\ cur' = cur /\ pos' = pos + 1 /\ pos \in Nat
      /\ pos \in DOMAIN DeletionOrder(cur)
    BY DEF DeleteLabelled, At, Base, TypeOK, WorkerOK
<1>2. PICK kind, label : kind = DeletionOrder(cur)[pos][1] /\ label = DeletionOrder(cur)[pos][2]
    OBVIOUS
<1> DEFINE doomed == ListChildren(kind, label)
<1>3. store' = [id \in Ids |-> IF id \in doomed THEN Nil ELSE store[id]]
    BY <1>2 DEF DeleteLabelled, MayFail, DeletionsReliable
<1>4. kind \in ChildKinds
    BY <1>1, <1>2 DEF DeletionOrder, ChildKinds
<1>5. Left(kind, label) \subseteq doomed
    BY <1>4 DEF Left, ListChildren, View, LaggingIds, DeletionsReliable
<1>6. Left(kind, label)' = {}
    BY <1>3, <1>5 DEF Left
<1>7. \A k, l : Left(k, l)' \subseteq Left(k, l)
    BY <1>3, RemovalShrinks DEF Shrinks, Left
<1>8. ASSUME NEW i \in DOMAIN DeletionOrder(cur), i < pos + 1
      PROVE  Left(DeletionOrder(cur)[i][1], DeletionOrder(cur)[i][2])' = {}
    <2>1. i \in Nat
        BY <1>8 DEF DeletionOrder
    <2>2. CASE i < pos
        <3>1. Left(DeletionOrder(cur)[i][1], DeletionOrder(cur)[i][2]) = {}
            BY <1>1, <2>2 DEF Progress
        <3> QED BY <1>1, <1>7, <3>1
    <2>3. CASE i = pos
        BY <1>1, <1>2, <1>6, <2>3
    <2> QED BY <1>1, <1>8, <2>1, <2>2, <2>3
<1> QED BY <1>1, <1>8 DEF Progress

LEMMA ListLabelledProgress ==
    ASSUME Base, PosRight, StoreKnown, Progress, ListLabelled
    PROVE  Progress'
<1>1. pc = "delete" /\ cur \in Configs /\ pos \in Nat /\ pos >= 1 /\ pos \notin DOMAIN DeletionOrder(cur)
    BY DEF ListLabelled, At, PosRight, Base, TypeOK, WorkerOK
<1>2. DOMAIN DeletionOrder(cur) = 1 .. 6
    BY DEF DeletionOrder
<1>3. \A i \in 1 .. 6 : Left(DeletionOrder(cur)[i][1], DeletionOrder(cur)[i][2]) = {}
    BY <1>1, <1>2 DEF Progress
<1>4. Doomed \subseteq ClusterScoped(cur, OnOpenShift)
    BY <1>1, <1>3, KnownLeft DEF Base, NamesInv
<1>5. pc' = "unlabel" /\ cur' = cur /\ store' = store
    BY DEF ListLabelled, Goto, server
<1> QED BY <1>4, <1>5 DEF Progress, Doomed

LEMMA DeleteClusterScopedProgress ==
    ASSUME DeletionsReliable, MemoRight, Progress, DeleteClusterScoped
    PROVE  Progress'
<1>1. pc = "unlabel" /\ pc' = "release" /\ cur' = cur
    BY DEF DeleteClusterScoped, At, Goto
<1>2. (isOpenShift = "yes") = OnOpenShift
    BY BudgetAssumption DEF DeleteClusterScoped, MemoRight
<1>3. store' = [id \in Ids |-> IF id \in ClusterScoped(cur, OnOpenShift) \cap Ids THEN Nil ELSE store[id]]
    BY <1>2 DEF DeleteClusterScoped, MayFail, DeletionsReliable
<1>4. Doomed \subseteq ClusterScoped(cur, OnOpenShift)
    BY <1>1 DEF Progress
<1>5. Doomed' = {}
    BY <1>1, <1>3, <1>4 DEF Doomed
<1> QED BY <1>1, <1>5 DEF Progress

LEMMA StepProgress ==
    ASSUME DeletionsReliable, Base, MemoRight, PosRight, StoreKnown, Progress, [Next]_vars
    PROVE  Progress'
<1>1. CASE NotCleaning
    BY <1>1, NotCleaningFrame, NoCleanupProgress
<1>2. CASE Elsewhere /\ ~NotCleaning
    <2>1. Shrinks
        BY <1>2, StoreShrinks DEF NotCleaning, Base
    <2> QED BY <1>2, <2>1, ElsewhereFrame, ShrinkProgress
<1>3. ASSUME NEW c \in Configs, Take(c) PROVE Progress'
    <2>1. pc = "idle" /\ store' = store
        BY <1>3, TakeOutcomes
    <2>2. CASE pc' = pc \/ pc' = "error"
        BY <2>1, <2>2, NoCleanupProgress DEF CleaningUp
    <2>3. CASE pc' = Entry(seenCfg[c]) /\ pos' = pos
        <3>1. pos' = 1 /\ pc' \notin {"unlabel", "release"}
            BY <2>1, <2>3 DEF PosRight, Entry
        <3>2. \A i \in DOMAIN DeletionOrder(cur') : ~(i < 1)
            BY DEF DeletionOrder
        <3> QED BY <3>1, <3>2 DEF Progress, DeletionOrder
    <2> QED BY <1>3, <2>2, <2>3, TakeOutcomes
<1> QED
    BY <1>1, <1>2, <1>3, StepKinds, DeleteLabelledProgress, ListLabelledProgress,
       DeleteClusterScopedProgress

-----------------------------------------------------------------------------
(* Only Release lets a guarded config go, and by then nothing is left. *)

\* What a step may do to a config: nothing, release it, write it without taking
\* the finalizer away, or, with no finalizer on it, anything.
Kept(c) ==
    \/ cfg'[c] = cfg[c]
    \/ cfg'[c] # Nil /\ (Guarded(c) => cfg'[c].finalizer)
    \/ ~Guarded(c) /\ cfg[c] # Nil /\ ~cfg[c].deleting

LEMMA UpdateKeeps ==
    ASSUME Base, cur \in Configs, NEW call, NEW err \in BOOLEAN, NEW new \in ConfigObjects,
           UpdateConfig(call, new, err), new.finalizer, NEW c \in Configs
    PROVE  Kept(c)
BY NilAssumption DEF UpdateConfig, PutConfig, Kept, Base, TypeOK, ServerOK

LEMMA PassKeeps ==
    ASSUME Base, Reconcile, ~Release, NEW c \in Configs
    PROVE  Kept(c)
<1>1. CASE AddFinalizer
    <2>1. cur \in Configs /\ copy \in ConfigObjects
        BY <1>1, InPass DEF Base, AddFinalizer, At
    <2> DEFINE new == [copy EXCEPT !.spec = WrittenBack(@), !.finalizer = TRUE]
    <2>2. new \in ConfigObjects /\ new.finalizer
        <3>1. copy.spec \in Specs /\ WrittenBack(copy.spec) \in Specs
            BY <2>1, SpecsAssumption DEF ConfigObjects
        <3> QED BY <2>1, <3>1 DEF ConfigObjects
    <2>3. PICK err \in BOOLEAN : UpdateConfig("update", new, err)
        BY <1>1 DEF AddFinalizer
    <2> HIDE DEF new
    <2> QED BY <2>1, <2>2, <2>3, UpdateKeeps
<1>2. CASE ReportHelmConflict \/ RejectProfile \/ UpdateStatus
    <2>1. cur \in Configs /\ copy \in ConfigObjects /\ copy.finalizer
        BY <1>2, InPass
           DEF Base, ReportHelmConflict, RejectProfile, UpdateStatus, At, FinalizerInv, PassInv,
               CopyFits, Live, Provisioning
    <2>2. PICK status \in Statuses, err \in BOOLEAN :
             UpdateConfig("status", [copy EXCEPT !.status = status], err)
        <3>1. CASE UpdateStatus
            <4>1. copy.spec \in ValidSpecs
                BY <3>1 DEF Base, TypeOK, WorkerOK, UpdateStatus, At
            <4> QED BY <3>1, <4>1, StatusTyped DEF UpdateStatus
        <3>2. CASE ReportHelmConflict \/ RejectProfile
            <4>1. PICK reason \in Reasons : WriteCondition(reason)
                BY <3>2 DEF ReportHelmConflict, RejectProfile, Reasons
            <4> DEFINE status == [copy.status EXCEPT !.reason = reason]
            <4>2. status \in Statuses
                BY <2>1 DEF ConfigObjects, Statuses
            <4>3. [copy EXCEPT !.status.reason = reason] = [copy EXCEPT !.status = status]
                BY <2>1 DEF ConfigObjects
            <4> QED BY <4>1, <4>2, <4>3 DEF WriteCondition
        <3> QED BY <1>2, <3>1, <3>2
    <2> DEFINE new == [copy EXCEPT !.status = status]
    <2>3. new \in ConfigObjects /\ new.finalizer
        BY <2>1 DEF ConfigObjects
    <2> HIDE DEF new
    <2>4. UpdateConfig("status", new, err)
        BY <2>2 DEF new
    <2> QED BY <2>1, <2>3, <2>4, UpdateKeeps
<1>3. CASE UNCHANGED cfg
    BY <1>3 DEF Kept
<1> QED
    BY <1>1, <1>2, <1>3
       DEF Reconcile, CheckHelm, DetectOpenShift, Apply, ListMatching, ListPool, ListFails,
           DeleteLabelled, ListLabelled, DeleteClusterScoped, Requeue, LabelNode, WriteTopology,
           UnlabelNode, server

LEMMA UsersKeep ==
    ASSUME Base, NEW d \in Configs, UserCreates(d) \/ UserEdits(d) \/ UserDeletes(d), NEW c \in Configs
    PROVE  Kept(c)
<1>1. cfg \in [Configs -> ConfigObjects \cup {Nil}]
    BY DEF Base, TypeOK, ServerOK
<1>2. PICK new : PutConfig(d, new)
                 /\ \/ cfg[d] = Nil
                    \/ \E s \in Specs : new = [cfg[d] EXCEPT !.spec = s]
                    \/ cfg[d].finalizer /\ new = [cfg[d] EXCEPT !.deleting = TRUE]
                    \/ ~cfg[d].finalizer /\ ~cfg[d].deleting
    BY SpecsAssumption DEF UserCreates, UserEdits, UserDeletes, ChangeConfig
<1>3. cfg'[d] = new /\ \A x \in Configs \ {d} : cfg'[x] = cfg[x]
    BY <1>1, <1>2 DEF PutConfig
<1>4. CASE c # d
    BY <1>3, <1>4 DEF Kept
<1>5. CASE c = d /\ cfg[d] = Nil
    BY <1>3, <1>5 DEF Kept, Guarded
<1>6. CASE c = d /\ cfg[d] # Nil
    <2>1. cfg[d] \in ConfigObjects
        BY <1>1, <1>6
    <2>2. CASE \E s \in Specs : new = [cfg[d] EXCEPT !.spec = s]
        <3>1. new \in ConfigObjects /\ new.finalizer = cfg[d].finalizer
            BY <2>1, <2>2 DEF ConfigObjects
        <3> QED BY <1>3, <1>6, <3>1, NilAssumption DEF Kept, Guarded
    <2>3. CASE cfg[d].finalizer /\ new = [cfg[d] EXCEPT !.deleting = TRUE]
        <3>1. new \in ConfigObjects /\ new.finalizer
            BY <2>1, <2>3 DEF ConfigObjects
        <3> QED BY <1>3, <1>6, <3>1, NilAssumption DEF Kept
    <2>4. CASE ~cfg[d].finalizer /\ ~cfg[d].deleting
        BY <1>6, <2>4 DEF Kept, Guarded
    <2> QED BY <1>2, <1>6, <2>2, <2>3, <2>4
<1> QED BY <1>4, <1>5, <1>6

\* Only Release takes a finalizer away.
LEMMA OnlyReleaseTakes ==
    ASSUME Base, [Next]_vars, NEW c \in Configs
    PROVE  Kept(c) \/ (Release /\ c = cur)
<1>1. CASE Reconcile /\ ~Release
    BY <1>1, PassKeeps
<1>2. CASE Release
    BY <1>2, InPass DEF Release, At, UpdateConfig, PutConfig, Kept, Base, TypeOK, ServerOK
<1>3. CASE \E d \in Configs : UserCreates(d) \/ UserEdits(d) \/ UserDeletes(d)
    BY <1>3, UsersKeep
<1>4. CASE UNCHANGED cfg
    BY <1>4 DEF Kept
<1> QED
    BY <1>1, <1>2, <1>3, <1>4
       DEF Next, Take, SyncConfig, SyncNode, SyncKind, Resync, Environment, NodeJoins, NodeLeaves,
           UserRelabels, ChangeNode, PutNode, OthersDelete, StatusUpdaterAllocates, HelmChanges,
           Restart, server, vars

LEMMA StepOrphans ==
    ASSUME Base, ThoroughInv, [Next]_vars
    PROVE  NoOrphans'
<1>1. \A c \in Configs : Guarded(c) => Guarded(c)' \/ (Release /\ c = cur)
    BY OnlyReleaseTakes DEF Kept, Guarded
<1>2. CASE Apply \/ \E n \in Nodes : WriteTopology(n)
    <2>1. cur \in Configs /\ Guarded(cur) /\ UNCHANGED cfg
        BY <1>2, WriteOutcomes DEF ThoroughInv
    <2>2. \A c \in Configs : Guarded(c)' <=> Guarded(c)
        BY <2>1 DEF Guarded
    <2>3. CASE UNCHANGED store
        BY <2>2, <2>3 DEF ThoroughInv, NoOrphans
    <2>4. ASSUME NEW obj \in Objects, obj.id \in Ids, store' = [store EXCEPT ![obj.id] = obj],
                 obj.label \in {Instance(cur), NodeTopology}
          PROVE  NoOrphans'
        <3>1. \A id \in Ids : store'[id] = IF id = obj.id THEN obj ELSE store[id]
            BY <2>4 DEF Base, TypeOK, ServerOK
        <3>2. \A c \in Configs : obj.label = Instance(c) => c = cur
            BY <2>4 DEF Instance, NodeTopology
        <3> QED BY <2>1, <2>2, <3>1, <3>2 DEF ThoroughInv, NoOrphans
    <2> QED BY <1>2, <2>3, <2>4, WriteOutcomes DEF ThoroughInv
<1>3. CASE Release /\ ~Apply /\ ~\E n \in Nodes : WriteTopology(n)
    <2>1. pc = "release" /\ cur \in Configs /\ UNCHANGED store
        BY <1>3, InPass DEF Release, At, Base
    <2>2. \A id \in Ids : store[id] # Nil => store[id].label \notin {Instance(cur), NodeTopology}
        BY <2>1 DEF ThoroughInv, Progress, Doomed
    <2> QED BY <1>1, <2>1, <2>2 DEF ThoroughInv, NoOrphans
<1>4. CASE ~Release /\ ~Apply /\ ~\E n \in Nodes : WriteTopology(n)
    <2>1. Shrinks
        BY <1>4, StoreShrinks DEF Base
    <2> QED BY <1>1, <1>4, <2>1 DEF Shrinks, ThoroughInv, NoOrphans
<1> QED BY <1>2, <1>3, <1>4

LEMMA InitThorough ==
    ASSUME Init
    PROVE  ThoroughInv
BY DEF Init, ThoroughInv, MemoRight, PosRight, StoreKnown, Progress, NoOrphans

LEMMA StepThorough ==
    ASSUME DeletionsReliable, Base, ThoroughInv, [Next]_vars
    PROVE  ThoroughInv'
BY StepMemo, StepPos, StepKnown, StepProgress, StepOrphans DEF ThoroughInv, Base, DeletionsReliable, DiscoveryReliable

LEMMA ThoroughInvHolds == DeletionsReliable => (Spec => []ThoroughInv)
<1> SUFFICES ASSUME DeletionsReliable
             PROVE  Spec => []ThoroughInv
    OBVIOUS
<1>1. Init => ThoroughInv
    BY InitThorough
<1>2. TypeOK /\ FinalizerInv /\ NamesInv /\ ThoroughInv /\ [Next]_vars => ThoroughInv'
    BY StepThorough DEF Base
<1> QED
    BY <1>1, <1>2, TypeCorrect, FinalizerInvHolds, NamesInvHolds, PTL DEF Spec

-----------------------------------------------------------------------------
\* Where the calls of handleDeletion succeed on up-to-date lists, no child
\* outlives the config whose instance label it carries, and no node topology
\* outlives the last config, whatever crashes, lags of the configs' and nodes'
\* caches and failures of other calls interrupt the passes.
THEOREM NothingOutlivesItsConfig == DeletionsReliable => (Spec => []NoOrphans)
<1>1. ThoroughInv => NoOrphans
    BY DEF ThoroughInv
<1> QED
    BY <1>1, ThoroughInvHolds, PTL

\* A config goes when none of its own children is left.
LEMMA StepThoroughlyMapped ==
    ASSUME Base, ThoroughInv, [Next]_vars
    PROVE  LT!Next \/ UNCHANGED LT!vars
<1>1. Mapped
    BY StepMapped DEF Base
<1>2. ASSUME NEW c \in Configs, L!Finish(c)
      PROVE  ~present[c]
    <2>1. phase[c] = "terminating" /\ phase'[c] = "absent"
        BY <1>2 DEF L!Finish, L!Move, phase
    <2>2. Release /\ c = cur
        BY <2>1, OnlyReleaseTakes DEF phase, PhaseOf, Kept
    <2>3. Doomed = {}
        BY <2>2 DEF Release, At, ThoroughInv, Progress
    <2>4. ASSUME NEW id \in OwnIds(c), store[id] # Nil
          PROVE  FALSE
        <3>1. id \in Ids /\ store[id] \in Objects /\ store[id].id = id
            BY <2>4 DEF OwnIds, Base, TypeOK, ServerOK, NamesInv, StoreNamed
        <3>2. store[id].label = Instance(cur)
            BY <2>2, <2>4, <3>1, OwnNamed
        <3> QED BY <2>3, <2>4, <3>1, <3>2 DEF Doomed
    <2> QED BY <2>4 DEF present
<1>3. \A c \in Configs : L!Finish(c) => LT!Finish(c)
    BY <1>2 DEF L!Finish, L!Move, LT!Finish, LT!Move
<1>4. \A c \in Configs :
        /\ L!Create(c) => LT!Create(c)
        /\ L!Guard(c) => LT!Guard(c)
        /\ L!Terminate(c) => LT!Terminate(c)
        /\ L!Discard(c) => LT!Discard(c)
    BY DEF L!Create, LT!Create, L!Guard, LT!Guard, L!Terminate, LT!Terminate, L!Discard, LT!Discard,
           L!Move, LT!Move
<1>5. \A c \in Configs :
        /\ L!Build(c) => LT!Build(c)
        /\ L!Clean(c) => LT!Clean(c)
        /\ L!Report(c) => LT!Report(c)
    BY DEF L!Build, LT!Build, L!Clean, LT!Clean, L!Report, LT!Report
<1>6. (L!Drift => LT!Drift) /\ (UNCHANGED L!vars => UNCHANGED LT!vars)
    BY DEF L!Drift, LT!Drift, L!vars, LT!vars
<1> QED BY <1>1, <1>3, <1>4, <1>5, <1>6 DEF Mapped, L!Next, LT!Next

\* Under the same conditions the operator implements the thorough Lifecycle: a
\* config that handleDeletion releases has no child of its own left.
THEOREM ImplementsThoroughly == DeletionsReliable => (Spec => ImplementsThoroughLifecycle)
<1> SUFFICES ASSUME DeletionsReliable
             PROVE  Spec => ImplementsThoroughLifecycle
    OBVIOUS
<1>1. Init => LT!Init
    BY InitMapped DEF L!Init, LT!Init
<1>2. TypeOK /\ FinalizerInv /\ NamesInv /\ ThoroughInv /\ [Next]_vars => [LT!Next]_(LT!vars)
    BY StepThoroughlyMapped DEF Base
<1>3. Spec => []ThoroughInv
    BY ThoroughInvHolds
<1> QED
    BY <1>1, <1>2, <1>3, TypeCorrect, FinalizerInvHolds, NamesInvHolds, PTL
       DEF Spec, ImplementsThoroughLifecycle, LT!Spec
=============================================================================
