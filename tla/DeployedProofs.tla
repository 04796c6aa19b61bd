--------------------------- MODULE DeployedProofs ---------------------------
(***************************************************************************)
(* What a pass has written, for all configs, nodes, specs, lags and        *)
(* failures: passes for different configs keep out of each other's         *)
(* children; where nobody but the operator changes children, an Available  *)
(* config has all of them, and every workload has its service account; and *)
(* the operator rests only when it is done, however stale what it read.    *)
(***************************************************************************)
EXTENDS LabelProofs

-----------------------------------------------------------------------------
(* A pass changes no child of another config's own. *)

\* A write or removal of children, none of which is d's own.
LEMMA WriteIsolated ==
    ASSUME TypeOK, NEW d \in Configs, NEW obj, NEW err \in BOOLEAN,
           createOrUpdate(obj, err), obj.id \notin OwnIds(d)
    PROVE  \A id \in OwnIds(d) : store'[id] = store[id]
BY createOrUpdateOutcomes DEF TypeOK, ServerOK, OwnIds

LEMMA RemovalIsolated ==
    ASSUME NEW d \in Configs, NEW gone, gone \cap OwnIds(d) = {},
           store' = [id \in Ids |-> IF id \in gone THEN Nil ELSE store[id]]
    PROVE  \A id \in OwnIds(d) : store'[id] = store[id]
BY DEF OwnIds

\* What handleDeletion removes for its config is no other config's own.
LEMMA DeletionsIsolated ==
    ASSUME TypeOK, NamesInv, DeleteLabelled \/ DeleteClusterScoped, NEW d \in Configs \ {cur}
    PROVE  \A id \in OwnIds(d) : store'[id] = store[id]
<1>1. cur \in Configs
    BY InPass DEF DeleteLabelled, DeleteClusterScoped, At
<1>2. CASE DeleteLabelled
    <2> DEFINE doomed == ListChildren(DeletionOrder(cur)[pos][1], DeletionOrder(cur)[pos][2])
    <2>1. PICK kept : store' = [id \in Ids |-> IF id \in doomed \ kept THEN Nil ELSE store[id]]
        BY <1>2 DEF DeleteLabelled
    <2>2. (doomed \ kept) \cap OwnIds(d) = {}
        BY <1>1, <1>2, ListsOwnOnly DEF DeleteLabelled, NamesInv
    <2> QED BY <2>1, <2>2, RemovalIsolated
<1>3. CASE DeleteClusterScoped
    <2> DEFINE doomed == ClusterScoped(cur, isOpenShift = "yes") \cap Ids
    <2>1. PICK kept : store' = [id \in Ids |-> IF id \in doomed \ kept THEN Nil ELSE store[id]]
        BY <1>3 DEF DeleteClusterScoped
    <2>2. (doomed \ kept) \cap OwnIds(d) = {}
        BY <1>1, NilAssumption DEF ClusterScoped, OwnIds
    <2> QED BY <2>1, <2>2, RemovalIsolated
<1> QED BY <1>2, <1>3

\* What Reconcile writes for its config is no other config's own.
LEMMA WritesIsolated ==
    ASSUME TypeOK, Apply \/ \E n \in Nodes : WriteTopology(n), NEW d \in Configs \ {cur}
    PROVE  \A id \in OwnIds(d) : store'[id] = store[id]
<1>1. cur \in Configs /\ copy.spec \in ValidSpecs
    BY DEF Apply, WriteTopology, At, TypeOK, WorkerOK
<1>2. CASE Apply
    <2>1. WellNamed(CurPlan[pos], cur, isOpenShift = "yes")
        BY <1>2, PlanNamed DEF CurPlan, Apply
    <2>2. CurPlan[pos].id \notin OwnIds(d)
        BY <1>1, <2>1, NilAssumption DEF WellNamed, OwnIds
    <2> QED BY <1>2, <2>2, WriteIsolated DEF Apply
<1>3. ASSUME NEW n \in Nodes, WriteTopology(n)
      PROVE  \A id \in OwnIds(d) : store'[id] = store[id]
    <2>1. NodeTopologyConfigMap(n, copy.spec).id \notin OwnIds(d)
        BY TopologyNamed DEF OwnIds
    <2> QED BY <1>3, <2>1, WriteIsolated DEF WriteTopology
<1> QED BY <1>2, <1>3

\* A pass for one config changes no child of another config's own, also where
\* their nodes and selectors overlap and whatever the caches show: the names in
\* Plan and the selections of handleDeletion tell configs apart (Reconcile).
THEOREM ConfigsKeepApart == Spec => ChildrenIsolated
<1>1. ASSUME TypeOK, NamesInv, Reconcile PROVE KeepsOthersChildren
    <2>1. CASE DeleteLabelled \/ DeleteClusterScoped
        BY <1>1, <2>1, DeletionsIsolated DEF KeepsOthersChildren
    <2>2. CASE Apply \/ \E n \in Nodes : WriteTopology(n)
        BY <1>1, <2>2, WritesIsolated DEF KeepsOthersChildren
    <2>3. CASE ~(DeleteLabelled \/ DeleteClusterScoped) /\ ~(Apply \/ \E n \in Nodes : WriteTopology(n))
        BY <1>1, <2>3, PassKeepsChildren DEF Reconcile, KeepsOthersChildren
    <2> QED BY <2>1, <2>2, <2>3
<1>2. TypeOK /\ NamesInv /\ [Next]_vars => [KeepsOthersChildren]_vars
    BY <1>1 DEF KeepsOthersChildren
<1> QED BY <1>2, TypeCorrect, NamesInvHolds, PTL DEF Spec, ChildrenIsolated

-----------------------------------------------------------------------------
(* What a pass has written is there when it reports, as nobody else changes *)
(* children.                                                                *)

\* Nobody but the operator changes children.
ChildrenLeftAlone == \A allowed \in Budgets : allowed["drift"] = 0

NoDrift == budget["drift"] = 0

\* A pass begins with the first child of its plan.
PassBegins == pc \in {"idle", "error", "finalize", "check"} => pos = 1

\* The children before pos are on the server as rendered, in the end all of
\* them; the first ones do not depend on what detectOpenShift returns.
Written ==
    /\ pc = "apply" =>
          /\ isOpenShift = "unknown" => pos <= LastBeforeSCC + 1
          /\ \A i \in DOMAIN CurPlan : i < pos => store[CurPlan[i].id] = CurPlan[i]
    /\ pc \in {"label", "topology"} => \A i \in DOMAIN CurPlan : store[CurPlan[i].id] = CurPlan[i]

DeployedInv == NoDrift /\ PassBegins /\ Written

\* Nobody gets to change a child: the budget for it is never added to.
LEMMA StepNoDrift ==
    ASSUME TypeOK, FinalizerInv, NamesInv, NoDrift, [Next]_vars
    PROVE  NoDrift' /\ ~\E id \in Ids : OthersDelete(id) \/ StatusUpdaterAllocates(id)
<1>1. Mapped
    BY StepMapped
<1>2. drift' = drift
    BY <1>1 DEF NoDrift, drift, Mapped, L!Next, L!Create, L!Guard, L!Terminate, L!Discard, L!Finish, L!Move,
                L!Build, L!Clean, L!Report, L!Drift, L!vars
<1>3. ~\E id \in Ids : OthersDelete(id) \/ StatusUpdaterAllocates(id)
    BY DEF NoDrift, OthersDelete, StatusUpdaterAllocates, Spend
<1> QED BY <1>2, <1>3 DEF NoDrift, drift

\* Steps that leave the worker where it is in its pass and change no child.
LEMMA WrittenFrame ==
    ASSUME PassBegins, Written, UNCHANGED <<pc, cur, copy, pos, isOpenShift, store>>
    PROVE  PassBegins' /\ Written'
<1>1. UNCHANGED CurPlan
    BY DEF CurPlan
<1> QED BY <1>1 DEF PassBegins, Written

\* Steps that lead out of a pass, or do not lead to its writes.
LEMMA NotWriting ==
    ASSUME pc' \notin {"apply", "label", "topology"},
           pc' \in {"idle", "error", "finalize", "check"} => pos' = 1
    PROVE  PassBegins' /\ Written'
BY DEF PassBegins, Written

\* The steps outside the writes of a pass.
LEMMA OutsideWrites ==
    ASSUME TypeOK, PassBegins,
           \/ \E c \in Configs : Take(c) /\ pc' # "idle"
           \/ AddFinalizer \/ ReportHelmConflict \/ RejectProfile \/ ListFails \/ UpdateStatus
           \/ DeleteLabelled \/ ListLabelled \/ DeleteClusterScoped \/ Release \/ Requeue \/ Restart
    PROVE  PassBegins' /\ Written'
<1>1. ASSUME NEW c \in Configs, Take(c), pc' # "idle" PROVE PassBegins' /\ Written'
    <2>1. pc = "idle" /\ pos' = pos /\ pc' \in {"delete", "check", "finalize", "error"}
        BY <1>1, TakeOutcomes DEF Entry
    <2>2. pos' = 1
        BY <2>1 DEF PassBegins
    <2> QED BY <2>1, <2>2, NotWriting
<1>2. CASE AddFinalizer
    BY <1>2, NotWriting DEF AddFinalizer, At, Return, PassBegins
<1>3. CASE ReportHelmConflict \/ RejectProfile \/ ListFails \/ UpdateStatus \/ Release \/ Restart
    <2>1. PICK outcome \in {"idle", "error"} : Return(outcome)
        BY <1>3 DEF ReportHelmConflict, RejectProfile, ListFails, UpdateStatus, Release, Restart
    <2> QED BY <2>1, NotWriting DEF Return
<1>4. CASE DeleteLabelled \/ ListLabelled \/ DeleteClusterScoped
    BY <1>4, NotWriting DEF DeleteLabelled, ListLabelled, DeleteClusterScoped, At, Goto
<1>5. CASE Requeue
    BY <1>5, NotWriting DEF Requeue, PassBegins
<1> QED BY <1>1, <1>2, <1>3, <1>4, <1>5

\* The first writes are the same with and without OpenShift.
LEMMA SameStart ==
    ASSUME NEW c, NEW s, NEW o \in BOOLEAN, NEW i \in 1 .. LastBeforeSCC
    PROVE  i \in DOMAIN Plan(c, s, o) /\ Plan(c, s, o)[i] = AccountsAndRoles(c)[i]
<1>1. i \in DOMAIN Roots(c, o) /\ Roots(c, o)[i] = AccountsAndRoles(c)[i]
    BY RootsAre DEF LastBeforeSCC
<1> QED BY <1>1, PlanKeyed DEF Continues

LEMMA DetectWritten ==
    ASSUME TypeOK, Written, DetectOpenShift
    PROVE  PassBegins' /\ Written'
<1>1. pc \in {"apply", "unlabel"} /\ isOpenShift = "unknown" /\ pos \in Nat
      /\ UNCHANGED <<pc, cur, copy, pos, store>> /\ isOpenShift' \in {"yes", "no"}
    BY DEF DetectOpenShift, At, worker, server, TypeOK, WorkerOK
<1>2. CASE pc = "unlabel"
    BY <1>1, <1>2, NotWriting
<1>3. CASE pc = "apply"
    <2>1. pos <= LastBeforeSCC + 1 /\ \A i \in DOMAIN CurPlan : i < pos => store[CurPlan[i].id] = CurPlan[i]
        BY <1>1, <1>3 DEF Written
    <2>2. DOMAIN CurPlan' = 1 .. Len(CurPlan')
        BY PlanRendered, LenProperties DEF CurPlan
    <2>3. ASSUME NEW i \in DOMAIN CurPlan', i < pos
          PROVE  i \in DOMAIN CurPlan /\ CurPlan'[i] = CurPlan[i]
        <3>1. i \in 1 .. LastBeforeSCC
            BY <1>1, <2>1, <2>2, <2>3 DEF LastBeforeSCC
        <3>2. CurPlan[i] = AccountsAndRoles(cur)[i] /\ i \in DOMAIN CurPlan
            BY <3>1, SameStart DEF CurPlan
        <3>3. CurPlan'[i] = AccountsAndRoles(cur)[i]
            BY <1>1, <3>1, SameStart DEF CurPlan
        <3> QED BY <3>2, <3>3
    <2> QED BY <1>1, <1>3, <2>1, <2>3 DEF PassBegins, Written
<1> QED BY <1>1, <1>2, <1>3

\* Among what is rendered for a config, only one ConfigMap has a name that starts
\* like those of the nodes' topologies, and it ends like none of them.
LEMMA SharedNames ==
    ASSUME NEW c, NEW s, NEW o \in BOOLEAN, NEW obj \in Rendered(c, s, o), NEW n, n # Nil
    PROVE  obj.id # <<"ConfigMap", "topology", n>>
<1>1. CASE obj \in Accounts(c) \cup Roles(c) \cup SCCs(c, o)
    BY <1>1 DEF Accounts, Roles, SCCs, ServiceAccount, DevicePluginClusterRole, StatusUpdaterClusterRole,
                MetricsExporterClusterRole, SCCClusterRole, ClusterRoleBinding, SCCClusterRoleBinding, Child
<1>2. CASE obj \in DaemonSets(c, s)
    BY <1>2 DEF DaemonSets, Only, DevicePluginDaemonSet, MetricsExporterDaemonSet, MIGFakerDaemonSet,
                DRAPluginDaemonSet, ComputeDomainDRADaemonSet, DaemonSet, Child
<1>3. CASE obj \in Deployments(c, s)
    BY <1>3 DEF Deployments, StatusUpdaterDeployment, TopologyServerDeployment,
                ComputeDomainControllerDeployment, Deployment, Child
<1>4. CASE obj \in Rest(c, s)
    BY <1>4 DEF Rest, MetricsExporterService, TopologyServerService, NvidiaRuntimeClass,
                TopologyConfigMap, GPUProfileConfigMap, Child
<1> QED BY <1>1, <1>2, <1>3, <1>4 DEF Rendered, Later

\* The steps between the writes.
LEMMA BetweenWritten ==
    ASSUME TypeOK, PassBegins, Written, CheckHelm \/ ListMatching \/ ListPool \/ \E n \in Nodes : LabelNode(n)
    PROVE  PassBegins' /\ Written'
<1>1. CASE CheckHelm
    <2>1. pc = "check" /\ pos = 1 /\ pos' = pos /\ pc' \in {"conflict", "reject", "apply"}
          /\ UNCHANGED <<cur, copy, isOpenShift, store>>
        BY <1>1 DEF CheckHelm, At, Goto, PassBegins, server
    <2>2. \A i \in DOMAIN CurPlan' : ~(i < 1)
        <3>1. DOMAIN CurPlan' = 1 .. Len(CurPlan')
            BY PlanRendered, LenProperties DEF CurPlan
        <3> QED BY <3>1
    <2> QED BY <2>1, <2>2 DEF PassBegins, Written, LastBeforeSCC
<1>2. CASE ListMatching
    <2>1. pc = "apply" /\ pos \in Nat /\ pos > LastBeforeSCC /\ pos \notin DOMAIN CurPlan
          /\ pc' = "label" /\ UNCHANGED <<cur, copy, isOpenShift, store>>
        BY <1>2 DEF ListMatching, At, Goto, server, TypeOK, WorkerOK
    <2>2. DOMAIN CurPlan = 1 .. Len(CurPlan) /\ Len(CurPlan) \in Nat
        BY PlanRendered, LenProperties DEF CurPlan
    <2>3. \A i \in DOMAIN CurPlan : i < pos
        BY <2>1, <2>2 DEF LastBeforeSCC
    <2>4. \A i \in DOMAIN CurPlan : store[CurPlan[i].id] = CurPlan[i]
        BY <2>1, <2>3 DEF Written
    <2>5. CurPlan' = CurPlan
        BY <2>1 DEF CurPlan
    <2> QED BY <2>1, <2>4, <2>5 DEF PassBegins, Written
<1>3. CASE ListPool
    <2>1. pc = "label" /\ pc' = "topology" /\ UNCHANGED <<cur, copy, isOpenShift, store>>
        BY <1>3 DEF ListPool, At, Goto, server
    <2>2. CurPlan' = CurPlan
        BY <2>1 DEF CurPlan
    <2> QED BY <2>1, <2>2 DEF PassBegins, Written
<1>4. ASSUME NEW n \in Nodes, LabelNode(n) PROVE PassBegins' /\ Written'
    <2>1. UNCHANGED <<isOpenShift, store>>
          /\ (UNCHANGED <<pc, cur, copy, pos>> \/ Return("error"))
        BY <1>4 DEF LabelNode
    <2>2. CASE Return("error")
        BY <2>2, NotWriting DEF Return
    <2> QED BY <2>1, <2>2, WrittenFrame
<1> QED BY <1>1, <1>2, <1>3, <1>4

\* A write puts one child of the plan, or a topology that is not in it, in place.
LEMMA ApplyWritten ==
    ASSUME TypeOK, Written, Apply
    PROVE  PassBegins' /\ Written'
<1>1. pc = "apply" /\ pos \in DOMAIN CurPlan /\ pos \in Nat /\ cur \in Configs /\ copy.spec \in ValidSpecs
      /\ isOpenShift' = isOpenShift
    BY DEF Apply, At, TypeOK, WorkerOK
<1>2. PICK err \in BOOLEAN :
        /\ createOrUpdate(CurPlan[pos], err)
        /\ IF err THEN Return("error") ELSE pos' = pos + 1 /\ UNCHANGED <<pc, cur, copy, listed, stale>>
    BY DEF Apply
<1>3. CASE err
    BY <1>2, <1>3, NotWriting DEF Return
<1>4. CASE ~err
    <2>1. store' = [store EXCEPT ![CurPlan[pos].id] = CurPlan[pos]]
        BY <1>2, <1>4 DEF createOrUpdate
    <2>2. CurPlan[pos].id \in Ids
        BY <1>1, PlanTyped DEF CurPlan
    <2>3. DOMAIN store = Ids /\ pos' = pos + 1 /\ pc' = pc /\ CurPlan' = CurPlan
        BY <1>1, <1>2, <1>4 DEF CurPlan, TypeOK, ServerOK
    <2>4. DOMAIN CurPlan = 1 .. Len(CurPlan)
        BY PlanRendered, LenProperties DEF CurPlan
    <2>5. ASSUME NEW i \in DOMAIN CurPlan, i < pos + 1
          PROVE  store'[CurPlan[i].id] = CurPlan[i]
        <3>1. CASE i = pos
            BY <2>1, <2>2, <2>3, <3>1
        <3>2. CASE i # pos
            <4>1. i < pos
                BY <1>1, <2>4, <2>5, <3>2
            <4>2. CurPlan[i].id # CurPlan[pos].id
                <5>1. \A o \in BOOLEAN : \A j, k \in DOMAIN Plan(cur, copy.spec, o) :
                        j # k => Plan(cur, copy.spec, o)[j].id # Plan(cur, copy.spec, o)[k].id
                    BY PlanDistinct
                <5> QED BY <1>1, <3>2, <5>1 DEF CurPlan
            <4>3. store[CurPlan[i].id] = CurPlan[i]
                BY <1>1, <4>1 DEF Written
            <4> QED BY <2>1, <2>3, <4>2, <4>3
        <3> QED BY <3>1, <3>2
    <2>6. isOpenShift = "unknown" => pos + 1 <= LastBeforeSCC + 1
        BY <1>1 DEF Apply, LastBeforeSCC
    <2> QED BY <1>1, <2>3, <2>5, <2>6 DEF PassBegins, Written
<1> QED BY <1>3, <1>4

LEMMA WriteTopologyWritten ==
    ASSUME TypeOK, Written, NEW n \in Nodes, WriteTopology(n)
    PROVE  PassBegins' /\ Written'
<1> DEFINE cm == NodeTopologyConfigMap(n, copy.spec)
<1>1. pc = "topology" /\ cur \in Configs /\ copy.spec \in ValidSpecs /\ UNCHANGED isOpenShift
    BY DEF WriteTopology, At, TypeOK, WorkerOK
<1>2. PICK err \in BOOLEAN :
        /\ createOrUpdate(cm, err)
        /\ IF err THEN Return("error") ELSE UNCHANGED <<pc, cur, copy, pos, stale>>
    BY DEF WriteTopology
<1>3. CASE err
    BY <1>2, <1>3, NotWriting DEF Return
<1>4. CASE ~err
    <2>1. store' = [store EXCEPT ![cm.id] = cm]
        BY <1>2, <1>4 DEF createOrUpdate
    <2>2. cm.id = <<"ConfigMap", "topology", n>> /\ n # Nil
        BY NodesAssumption DEF NodeTopologyConfigMap, Child
    <2>3. ASSUME NEW i \in DOMAIN CurPlan PROVE CurPlan[i].id # cm.id
        <3>1. CurPlan[i] \in Rendered(cur, copy.spec, isOpenShift = "yes")
            BY PlanRendered, ElementOfSeq, LenProperties DEF CurPlan
        <3> QED BY <2>2, <3>1, SharedNames
    <2>4. CurPlan' = CurPlan /\ pc' = pc
        BY <1>1, <1>2, <1>4 DEF CurPlan
    <2>5. \A i \in DOMAIN CurPlan : store'[CurPlan[i].id] = CurPlan[i]
        <3> HIDE DEF cm
        <3> QED BY <1>1, <2>1, <2>3 DEF Written, TypeOK, ServerOK
    <2> QED BY <1>1, <2>4, <2>5 DEF PassBegins, Written
<1> QED BY <1>3, <1>4

\* The steps that concern neither the worker nor the children.
LEMMA BesideWrites ==
    ASSUME \/ \E c \in Configs : (Take(c) /\ pc' = "idle") \/ SyncConfig(c)
           \/ \E c \in Configs : UserCreates(c) \/ UserEdits(c) \/ UserDeletes(c)
           \/ \E n \in Nodes : SyncNode(n) \/ NodeJoins(n) \/ NodeLeaves(n) \/ UserRelabels(n) \/ UnlabelNode(n)
           \/ \E kind \in ChildKinds : SyncKind(kind)
           \/ Resync \/ HelmChanges \/ UNCHANGED vars
    PROVE  UNCHANGED <<pc, cur, copy, pos, isOpenShift, store>>
<1>1. CASE \/ \E c \in Configs : (Take(c) /\ pc' = "idle") \/ SyncConfig(c)
           \/ \E n \in Nodes : SyncNode(n) \/ UnlabelNode(n)
           \/ \E kind \in ChildKinds : SyncKind(kind)
           \/ Resync \/ HelmChanges \/ UNCHANGED vars
    BY <1>1, TakeOutcomes
       DEF SyncConfig, SyncNode, UnlabelNode, SyncKind, Resync, HelmChanges, Entry, server, worker, vars
<1>2. CASE \/ \E c \in Configs : UserCreates(c) \/ UserEdits(c) \/ UserDeletes(c)
           \/ \E n \in Nodes : NodeJoins(n) \/ NodeLeaves(n) \/ UserRelabels(n)
    BY <1>2 DEF UserCreates, UserEdits, UserDeletes, NodeJoins, NodeLeaves, UserRelabels,
                ChangeConfig, ChangeNode
<1> QED BY <1>1, <1>2

LEMMA StepWritten ==
    ASSUME TypeOK, FinalizerInv, NamesInv, DeployedInv, [Next]_vars
    PROVE  DeployedInv'
<1>1. NoDrift' /\ ~\E id \in Ids : OthersDelete(id) \/ StatusUpdaterAllocates(id)
    BY StepNoDrift DEF DeployedInv
<1>2. PassBegins /\ Written
    BY DEF DeployedInv
<1>3. CASE Reconcile
    <2>1. CASE \E n \in Nodes : UnlabelNode(n)
        <3>1. UNCHANGED <<pc, cur, copy, pos, isOpenShift, store>>
            BY <2>1, BesideWrites
        <3>2. PassBegins' /\ Written'
            BY <1>2, <3>1, WrittenFrame
        <3> QED BY <1>1, <3>2 DEF DeployedInv
    <2>2. CASE ~\E n \in Nodes : UnlabelNode(n)
        <3>1. PassBegins' /\ Written'
            BY <1>2, <1>3, <2>2, OutsideWrites, DetectWritten, BetweenWritten, ApplyWritten,
               WriteTopologyWritten
               DEF Reconcile
        <3> QED BY <1>1, <3>1 DEF DeployedInv
    <2> QED BY <2>1, <2>2
<1>4. CASE ~Reconcile
    <2>1. CASE Restart \/ \E c \in Configs : Take(c) /\ pc' # "idle"
        <3>1. PassBegins' /\ Written'
            BY <1>2, <2>1, OutsideWrites
        <3> QED BY <1>1, <3>1 DEF DeployedInv
    <2>2. CASE ~(Restart \/ \E c \in Configs : Take(c) /\ pc' # "idle")
        <3>1. UNCHANGED <<pc, cur, copy, pos, isOpenShift, store>>
            BY <1>1, <1>4, <2>2, BesideWrites DEF Next, Environment
        <3>2. PassBegins' /\ Written'
            BY <1>2, <3>1, WrittenFrame
        <3> QED BY <1>1, <3>2 DEF DeployedInv
    <2> QED BY <2>1, <2>2
<1> QED BY <1>3, <1>4

LEMMA DeployedInvHolds == ChildrenLeftAlone => (Spec => []DeployedInv)
<1> SUFFICES ASSUME ChildrenLeftAlone
             PROVE  Spec => []DeployedInv
    OBVIOUS
<1>1. Init => DeployedInv
    BY DEF Init, DeployedInv, NoDrift, PassBegins, Written, ChildrenLeftAlone
<1>2. TypeOK /\ FinalizerInv /\ NamesInv /\ DeployedInv /\ [Next]_vars => DeployedInv'
    BY StepWritten
<1> QED BY <1>1, <1>2, TypeCorrect, FinalizerInvHolds, NamesInvHolds, PTL DEF Spec

-----------------------------------------------------------------------------
(* Available means deployed. *)

\* A new status that says Reconciled comes from UpdateStatus, for the spec of
\* the copy it was computed from.
ReportsFrom(c) ==
    /\ UpdateStatus
    /\ c = cur
    /\ cfg'[c] = [copy EXCEPT !.status = ReconciledStatus(copy.spec, ListNodes(nodeListOption(cur, copy.spec)))]

ReportsNew(c) ==
    cfg[c] # Nil /\ cfg'[c] # Nil /\ cfg'[c].status # cfg[c].status /\ cfg'[c].status.reason = "Reconciled"

LEMMA UsersReportNothing ==
    ASSUME TypeOK, NEW d \in Configs, UserCreates(d) \/ UserEdits(d) \/ UserDeletes(d), NEW c \in Configs
    PROVE  ~ReportsNew(c)
<1>1. cfg \in [Configs -> ConfigObjects \cup {Nil}]
    BY DEF TypeOK, ServerOK
<1>2. PICK new : PutConfig(d, new)
                 /\ \/ cfg[d] = Nil
                    \/ \E s \in Specs : new = [cfg[d] EXCEPT !.spec = s]
                    \/ new = [cfg[d] EXCEPT !.deleting = TRUE]
                    \/ new = Nil
    BY SpecsAssumption DEF UserCreates, UserEdits, UserDeletes, ChangeConfig
<1>3. cfg'[d] = new /\ \A x \in Configs \ {d} : cfg'[x] = cfg[x]
    BY <1>1, <1>2 DEF PutConfig
<1>4. CASE cfg[d] # Nil /\ new # Nil
    <2>1. cfg[d] \in ConfigObjects
        BY <1>1, <1>4
    <2>2. new.status = cfg[d].status
        BY <1>2, <1>4, <2>1 DEF ConfigObjects
    <2> QED BY <1>3, <2>2 DEF ReportsNew
<1>5. CASE ~(cfg[d] # Nil /\ new # Nil)
    BY <1>3, <1>5 DEF ReportsNew
<1> QED BY <1>4, <1>5

LEMMA PassReports ==
    ASSUME TypeOK, FinalizerInv, NEW c \in Configs, ReportsNew(c),
           AddFinalizer \/ ReportHelmConflict \/ RejectProfile \/ UpdateStatus \/ Release
    PROVE  ReportsFrom(c)
<1>1. cur \in Configs /\ copy \in ConfigObjects /\ pc \notin {"idle", "error"}
    BY InPass DEF AddFinalizer, ReportHelmConflict, RejectProfile, UpdateStatus, Release, At
<1>2. cfg'[c] # cfg[c]
    BY DEF ReportsNew
<1>3. PICK new :
        /\ \E call : \E err \in BOOLEAN : UpdateConfig(call, new, err)
        /\ \/ new = [copy EXCEPT !.spec = WrittenBack(@), !.finalizer = TRUE]
           \/ new = [copy EXCEPT !.status.reason = "HelmConflict"]
           \/ new = [copy EXCEPT !.status.reason = "InvalidProfile"]
           \/ new = Nil
           \/ UpdateStatus /\ new = [copy EXCEPT !.status = ReconciledStatus(copy.spec, ListNodes(nodeListOption(cur, copy.spec)))]
    <2>1. CASE AddFinalizer \/ Release
        BY <2>1 DEF AddFinalizer, Release
    <2>2. CASE ReportHelmConflict \/ RejectProfile
        BY <2>2 DEF ReportHelmConflict, RejectProfile, WriteCondition
    <2>3. CASE UpdateStatus
        BY <2>3 DEF UpdateStatus
    <2> QED BY <2>1, <2>2, <2>3
<1>4. SameVersion(cur) /\ PutConfig(cur, new)
    BY <1>2, <1>3, UpdateOutcomes
<1>5. cfg[cur] = copy
    BY <1>1, <1>4 DEF FinalizerInv, PassInv, CopyCurrent, SameVersion
<1>6. c = cur /\ cfg'[c] = new
    BY <1>1, <1>2, <1>4 DEF PutConfig, TypeOK, ServerOK
<1>7. new.status # copy.status /\ new.status.reason = "Reconciled" /\ new # Nil
    BY <1>5, <1>6 DEF ReportsNew
<1>8. copy.status \in Statuses
    BY <1>1 DEF ConfigObjects
<1>9. new # [copy EXCEPT !.spec = WrittenBack(@), !.finalizer = TRUE]
    BY <1>1, <1>7 DEF ConfigObjects
<1>10. \A reason \in {"HelmConflict", "InvalidProfile"} : new # [copy EXCEPT !.status.reason = reason]
    BY <1>1, <1>7, <1>8 DEF ConfigObjects, Statuses
<1> QED BY <1>3, <1>6, <1>7, <1>9, <1>10 DEF ReportsFrom

LEMMA OnlyUpdateStatusReports ==
    ASSUME TypeOK, FinalizerInv, [Next]_vars, NEW c \in Configs, ReportsNew(c)
    PROVE  ReportsFrom(c)
<1>1. CASE AddFinalizer \/ ReportHelmConflict \/ RejectProfile \/ UpdateStatus \/ Release
    BY <1>1, PassReports
<1>2. CASE \E d \in Configs : UserCreates(d) \/ UserEdits(d) \/ UserDeletes(d)
    BY <1>2, UsersReportNothing
<1>3. CASE UNCHANGED cfg
    BY <1>3 DEF ReportsNew
<1> QED
    BY <1>1, <1>2, <1>3
       DEF Next, Reconcile, CheckHelm, DetectOpenShift, Apply, ListMatching, ListPool, ListFails,
           DeleteLabelled, ListLabelled, DeleteClusterScoped, Requeue, LabelNode, WriteTopology,
           UnlabelNode, Take, SyncConfig, SyncNode, SyncKind, Resync, Environment, NodeJoins, NodeLeaves,
           UserRelabels, ChangeNode, PutNode, OthersDelete, StatusUpdaterAllocates, HelmChanges,
           Restart, server, vars

\* Where nobody but the operator changes children, a config that becomes
\* Available has every child that the spec it is stored with asks for, as
\* rendered from that spec, however the caches lag and whatever calls of the
\* pass fail (Reconcile, createOrUpdate, updateStatus).
THEOREM AvailableIsDeployed == ChildrenLeftAlone => (Spec => AvailableMeansDeployed)
<1> SUFFICES ASSUME ChildrenLeftAlone
             PROVE  Spec => AvailableMeansDeployed
    OBVIOUS
<1> DEFINE Described(c) ==
        LET spec == cfg'[c].spec IN
        /\ cfg'[c].status.gpuProfile = resolveProfile(spec).Name
        /\ cfg'[c].status.gpuCount = spec.gpuCount
        /\ \A obj \in Planned(c, spec, isOpenShift = "yes") : store'[obj.id] = obj
<1>1. ASSUME TypeOK, FinalizerInv, DeployedInv, [Next]_vars, NEW c \in Configs, ReportsNew(c)
      PROVE  Described(c)
    <2>1. ReportsFrom(c)
        BY <1>1, OnlyUpdateStatusReports
    <2>2. pc = "topology" /\ copy \in ConfigObjects /\ UNCHANGED store
        BY <1>1, <2>1, InPass DEF ReportsFrom, UpdateStatus, At
    <2>3. \A i \in DOMAIN CurPlan : store[CurPlan[i].id] = CurPlan[i]
        BY <1>1, <2>2 DEF DeployedInv, Written
    <2>4. cfg'[c].spec = copy.spec
          /\ cfg'[c].status = ReconciledStatus(copy.spec, ListNodes(nodeListOption(cur, copy.spec)))
        BY <2>1, <2>2 DEF ReportsFrom, ConfigObjects
    <2>5. \A obj \in Planned(c, copy.spec, isOpenShift = "yes") : store'[obj.id] = obj
        BY <2>1, <2>2, <2>3 DEF Planned, CurPlan, ReportsFrom
    <2> QED BY <2>4, <2>5 DEF ReconciledStatus
<1>2. TypeOK /\ FinalizerInv /\ DeployedInv /\ [Next]_vars
        => [\A c \in Configs : ReportsNew(c) => Described(c)]_vars
    BY <1>1
<1>3. AvailableMeansDeployed <=> [][\A c \in Configs : ReportsNew(c) => Described(c)]_vars
    BY DEF AvailableMeansDeployed, ReportsNew
<1> HIDE DEF Described
<1> QED BY <1>2, <1>3, TypeCorrect, FinalizerInvHolds, DeployedInvHolds, PTL DEF Spec

-----------------------------------------------------------------------------
(* Workloads have their accounts. *)

Workloads   == {"DaemonSet", "Deployment"}
AccountOf(id) == <<"ServiceAccount", store[id].body.account, id[3]>>

AccountsThere ==
    \A id \in Ids : store[id] # Nil /\ id[1] \in Workloads => AccountOf(id) \in Ids /\ store[AccountOf(id)] # Nil

\* A write of an object whose account is there if it needs one.
LEMMA WriteAccounts ==
    ASSUME ServerOK, AccountsThere, NEW obj \in Objects, obj.id \in Ids,
           store' = [store EXCEPT ![obj.id] = obj],
           obj.id[1] \in Workloads =>
               LET account == <<"ServiceAccount", obj.body.account, obj.id[3]>>
               IN  account \in Ids /\ store[account] # Nil
    PROVE  AccountsThere'
<1>1. \A id \in Ids : store'[id] = IF id = obj.id THEN obj ELSE store[id]
    BY DEF ServerOK
<1>2. obj # Nil
    BY NilAssumption
<1>3. ASSUME NEW id \in Ids, store'[id] # Nil, id[1] \in Workloads
      PROVE  AccountOf(id)' \in Ids /\ store'[AccountOf(id)'] # Nil
    <2>1. CASE id = obj.id
        <3>1. AccountOf(id)' = <<"ServiceAccount", obj.body.account, obj.id[3]>>
            BY <1>1, <2>1 DEF AccountOf
        <3> QED BY <1>1, <1>2, <1>3, <2>1, <3>1
    <2>2. CASE id # obj.id
        <3>1. store'[id] = store[id]
            BY <1>1, <2>2
        <3>2. AccountOf(id)' = AccountOf(id) /\ AccountOf(id) \in Ids /\ store[AccountOf(id)] # Nil
            BY <1>3, <3>1 DEF AccountOf, AccountsThere
        <3> QED BY <1>1, <1>2, <3>2
    <2> QED BY <2>1, <2>2
<1> QED BY <1>3 DEF AccountsThere

\* The account of a workload comes before it in the plan, and is written.
LEMMA ApplyAccounts ==
    ASSUME TypeOK, Written, AccountsThere, Apply
    PROVE  AccountsThere'
<1>1. pc = "apply" /\ pos \in DOMAIN CurPlan /\ pos \in Nat /\ cur \in Configs /\ copy.spec \in ValidSpecs
    BY DEF Apply, At, TypeOK, WorkerOK
<1>2. CurPlan[pos] \in Objects /\ CurPlan[pos].id \in Ids
    BY <1>1, PlanTyped DEF CurPlan
<1>3. ASSUME CurPlan[pos].id[1] \in Workloads
      PROVE  LET account == <<"ServiceAccount", CurPlan[pos].body.account, CurPlan[pos].id[3]>>
             IN  account \in Ids /\ store[account] # Nil
    <2>1. CurPlan[pos].id[3] = cur
        <3>1. WellNamed(CurPlan[pos], cur, isOpenShift = "yes")
            BY <1>1, PlanNamed DEF CurPlan
        <3> QED BY <1>3, <3>1 DEF WellNamed, Workloads
    <2>2. AccountFirst(CurPlan, pos, cur)
        BY <1>1, WritesInOrder DEF CurPlan
    <2>3. PICK j \in 1 .. pos - 1 : CurPlan[j].id = <<"ServiceAccount", CurPlan[pos].body.account, cur>>
        BY <1>3, <2>2 DEF AccountFirst, Workloads
    <2>4. j \in DOMAIN CurPlan /\ j < pos
        <3>1. DOMAIN CurPlan = 1 .. Len(CurPlan)
            BY PlanRendered, LenProperties DEF CurPlan
        <3> QED BY <1>1, <3>1
    <2>5. store[CurPlan[j].id] = CurPlan[j]
        BY <1>1, <2>4 DEF Written
    <2>6. CurPlan[j] \in Objects /\ CurPlan[j].id \in Ids
        BY <1>1, <2>4, PlanTyped DEF CurPlan
    <2> QED BY <2>1, <2>3, <2>5, <2>6, NilAssumption
<1>4. CASE UNCHANGED store
    BY <1>4 DEF AccountsThere, AccountOf
<1>5. CASE store' = [store EXCEPT ![CurPlan[pos].id] = CurPlan[pos]]
    BY <1>2, <1>3, <1>5, WriteAccounts DEF TypeOK
<1> QED BY <1>4, <1>5, createOrUpdateOutcomes DEF Apply, TypeOK

LEMMA WriteTopologyAccounts ==
    ASSUME TypeOK, AccountsThere, NEW n \in Nodes, WriteTopology(n)
    PROVE  AccountsThere'
<1> DEFINE cm == NodeTopologyConfigMap(n, copy.spec)
<1>1. copy.spec \in ValidSpecs
    BY DEF WriteTopology, At, TypeOK, WorkerOK
<1>2. cm \in Objects /\ cm.id \in Ids /\ cm.id[1] \notin Workloads
    BY <1>1, NodeTopologyTyped, TopologyNamed DEF Workloads
<1>3. store' = store \/ store' = [store EXCEPT ![cm.id] = cm]
    BY createOrUpdateOutcomes DEF WriteTopology, TypeOK
<1> HIDE DEF cm
<1>4. CASE UNCHANGED store
    BY <1>4 DEF AccountsThere, AccountOf
<1>5. CASE store' = [store EXCEPT ![cm.id] = cm]
    BY <1>2, <1>5, WriteAccounts DEF TypeOK
<1> QED BY <1>3, <1>4, <1>5

\* The removal of children, but of no account whose workloads stay.
LEMMA RemovalAccounts ==
    ASSUME AccountsThere, NEW gone, store' = [id \in Ids |-> IF id \in gone THEN Nil ELSE store[id]],
           \A id \in Ids : store[id] # Nil /\ id[1] \in Workloads => AccountOf(id) \notin gone
    PROVE  AccountsThere'
<1>1. ASSUME NEW id \in Ids, store'[id] # Nil, id[1] \in Workloads
      PROVE  AccountOf(id)' \in Ids /\ store'[AccountOf(id)'] # Nil
    <2>1. store'[id] = store[id]
        BY <1>1
    <2>2. AccountOf(id)' = AccountOf(id)
        BY <2>1 DEF AccountOf
    <2>3. AccountOf(id) \in Ids /\ store[AccountOf(id)] # Nil /\ AccountOf(id) \notin gone
        BY <1>1, <2>1 DEF AccountsThere
    <2> QED BY <2>2, <2>3
<1> QED BY <1>1 DEF AccountsThere

\* When handleDeletion comes to the accounts of a config, its workloads are gone.
LEMMA AccountsGoLast ==
    ASSUME DeletionsReliable, Base, StoreKnown, Progress, AccountsThere, DeleteLabelled
    PROVE  AccountsThere'
<1>1. pc = "delete" /\ cur \in Configs /\ pos \in DOMAIN DeletionOrder(cur)
    BY DEF DeleteLabelled, At, Base, TypeOK, WorkerOK
<1> DEFINE doomed == ListChildren(DeletionOrder(cur)[pos][1], DeletionOrder(cur)[pos][2])
<1>2. PICK kept : store' = [id \in Ids |-> IF id \in doomed \ kept THEN Nil ELSE store[id]]
    BY DEF DeleteLabelled
<1>3. ASSUME NEW id \in Ids, store[id] # Nil, id[1] \in Workloads, AccountOf(id) \in doomed
      PROVE  FALSE
    <2> DEFINE account == AccountOf(id)
    <2>1. account \in Ids /\ account[1] = "ServiceAccount" /\ account[3] = id[3]
        BY <1>3 DEF ListChildren, AccountOf
    <2>2. DeletionOrder(cur)[pos][1] = "ServiceAccount"
        BY <1>3, <2>1 DEF ListChildren
    <2>3. pos = 4 /\ DeletionOrder(cur)[pos][2] = Instance(cur)
        BY <1>1, <2>2 DEF DeletionOrder
    <2>4. View(account) = store[account]
        BY <2>1 DEF View, LaggingIds, DeletionsReliable, ChildKinds
    <2>5. store[account] # Nil /\ store[account].label = Instance(cur)
        BY <1>3, <2>3, <2>4 DEF ListChildren
    <2>6. store[account].id = account /\ store[id].id = id
        BY <1>3, <2>1, <2>5 DEF Base, NamesInv, StoreNamed
    <2>7. id[3] = cur
        <3>1. PICK c \in Configs : WellNamed(store[account], c, OnOpenShift)
            BY <2>1, <2>5, <2>6 DEF StoreKnown, Known
        <3>2. c = cur
            BY <1>1, <2>5, <3>1 DEF WellNamed, Instance
        <3> QED BY <2>1, <2>6, <3>1, <3>2 DEF WellNamed
    <2>8. store[id].label = Instance(cur)
        <3>1. PICK c \in Configs : WellNamed(store[id], c, OnOpenShift)
            BY <1>3, <2>6 DEF StoreKnown, Known, Workloads
        <3> QED BY <1>3, <2>6, <2>7, <3>1 DEF WellNamed, Workloads
    <2>9. Left("DaemonSet", Instance(cur)) = {} /\ Left("Deployment", Instance(cur)) = {}
        <3>1. 1 \in DOMAIN DeletionOrder(cur) /\ 2 \in DOMAIN DeletionOrder(cur)
              /\ DeletionOrder(cur)[1] = <<"DaemonSet", Instance(cur)>>
              /\ DeletionOrder(cur)[2] = <<"Deployment", Instance(cur)>>
            BY DEF DeletionOrder
        <3>2. \A i \in DOMAIN DeletionOrder(cur) :
                 i < 4 => Left(DeletionOrder(cur)[i][1], DeletionOrder(cur)[i][2]) = {}
            BY <1>1, <2>3 DEF Progress
        <3> QED BY <3>1, <3>2
    <2> QED BY <1>3, <2>8, <2>9 DEF Left, Workloads
<1> QED BY <1>2, <1>3, RemovalAccounts

LEMMA StepAccounts ==
    ASSUME DeletionsReliable, Base, StoreKnown, Progress, DeployedInv, AccountsThere, [Next]_vars
    PROVE  AccountsThere'
<1>1. ~\E id \in Ids : OthersDelete(id) \/ StatusUpdaterAllocates(id)
    BY StepNoDrift DEF DeployedInv, Base
<1>2. CASE Apply \/ \E n \in Nodes : WriteTopology(n)
    BY <1>2, ApplyAccounts, WriteTopologyAccounts DEF DeployedInv, Base
<1>3. CASE DeleteLabelled
    BY <1>3, AccountsGoLast
<1>4. CASE DeleteClusterScoped
    <2> DEFINE doomed == ClusterScoped(cur, isOpenShift = "yes") \cap Ids
    <2>1. PICK kept : store' = [id \in Ids |-> IF id \in doomed \ kept THEN Nil ELSE store[id]]
        BY <1>4 DEF DeleteClusterScoped
    <2>2. \A id \in Ids : AccountOf(id) \notin doomed \ kept
        BY DEF ClusterScoped, AccountOf
    <2> QED BY <2>1, <2>2, RemovalAccounts
<1>5. CASE UNCHANGED store
    BY <1>5 DEF AccountsThere, AccountOf
<1>6. CASE Reconcile
    BY <1>2, <1>3, <1>4, <1>5, <1>6, PassKeepsChildren DEF Reconcile
<1>7. CASE ~Reconcile
    BY <1>1, <1>5, <1>7, OthersKeepChildren DEF Next, Environment, Restart, SyncKind, server, vars
<1> QED BY <1>6, <1>7

\* Where handleDeletion's calls succeed on up-to-date lists and nobody else
\* changes children, a workload's service account is there as long as the
\* workload is: accounts are written first (reconcileRBAC) and removed last
\* (handleDeletion), across crashes, repeated passes and failing writes.
THEOREM WorkloadsKeepAccounts ==
    DeletionsReliable /\ ChildrenLeftAlone => (Spec => []WorkloadHasAccount)
<1> SUFFICES ASSUME DeletionsReliable, ChildrenLeftAlone
             PROVE  Spec => []WorkloadHasAccount
    OBVIOUS
<1>1. Init => AccountsThere
    BY DEF Init, AccountsThere
<1>2. /\ TypeOK /\ FinalizerInv /\ NamesInv /\ ThoroughInv /\ DeployedInv
      /\ AccountsThere /\ [Next]_vars
      => AccountsThere'
    BY StepAccounts DEF Base, ThoroughInv
<1>3. AccountsThere => WorkloadHasAccount
    BY DEF AccountsThere, AccountOf, Workloads, WorkloadHasAccount
<1>4. Spec => []ThoroughInv
    BY ThoroughInvHolds
<1>5. Spec => []DeployedInv
    BY DeployedInvHolds
<1> QED BY <1>1, <1>2, <1>3, <1>4, <1>5, TypeCorrect, FinalizerInvHolds, NamesInvHolds, PTL DEF Spec

-----------------------------------------------------------------------------
(* The operator rests only when it is done. *)

\* There is one config.
OneConfig == \A c, d \in Configs : c = d

\* A pass that labels nodes has asked whether it is on OpenShift.
MemoKnown == pc \in {"label", "topology"} => isOpenShift # "unknown"

\* What a pass does to a node the config selects, and to one in its pool.
NodeLabelled(n, c) ==
    n \notin lag /\ Chosen(seenNode[n], c, cfg[c].spec) => seenNode[n] = Labelled(seenNode[n], c, cfg[c].spec)
TopoWritten(n, c) ==
    InPool(seenNode[n], c) => LET cm == NodeTopologyConfigMap(n, cfg[c].spec) IN store[cm.id] = cm

Done(c) ==
    /\ ~cfg[c].deleting
    /\ AllChildrenDeployed(c)
    /\ \A n \in Nodes : NodeLabelled(n, c) /\ TopoWritten(n, c)
    /\ cfg[c].status = ReconciledStatus(cfg[c].spec, ListNodes(nodeListOption(c, cfg[c].spec)))

\* What is left to do for a config that no other pass is owed to is ahead of the worker.
SettlingFor(c) ==
    /\ pc = "label" => \A n \in Nodes : listed[n] # Nil \/ NodeLabelled(n, c)
    /\ pc = "topology" => \A n \in Nodes : NodeLabelled(n, c) /\ (listed[n] # Nil \/ TopoWritten(n, c))
    /\ pc = "idle" => cfg[c].status.reason = "HelmConflict" \/ Done(c)

Settling == \A c \in Configs : cfg[c] # Nil /\ ~Owed(c) => SettlingFor(c)

\* Nobody installs the Helm chart.
HelmAway == \A allowed \in Budgets : allowed["helm"] = 0

\* The report of a Helm conflict is not lost: nothing asks for another attempt.
ConflictsTold == "status" \notin Faulty \/ HelmAway

NoHelm == HelmAway => budget["helm"] = 0 /\ helm = {} /\ pc # "conflict"

\* Every disturbance is paid for.
LEMMA BudgetSteps ==
    ASSUME [Next]_vars
    PROVE  UNCHANGED budget \/ \E disturbance \in Disturbances : Spend(disturbance)
<1>1. ASSUME NEW call, NEW failed, MayFail(call, failed) PROVE UNCHANGED budget \/ Spend("fault")
    BY <1>1 DEF MayFail
<1>2. CASE AddFinalizer \/ ReportHelmConflict \/ RejectProfile \/ UpdateStatus \/ Release
    <2>1. PICK new : \E call : \E err \in BOOLEAN : UpdateConfig(call, new, err)
        BY <1>2 DEF AddFinalizer, ReportHelmConflict, RejectProfile, UpdateStatus, Release, WriteCondition
    <2> QED BY <1>1, <2>1 DEF UpdateConfig, Disturbances
<1>3. CASE Apply \/ \E n \in Nodes : WriteTopology(n)
    <2>1. \E obj : \E err \in BOOLEAN : createOrUpdate(obj, err)
        BY <1>3 DEF Apply, WriteTopology
    <2> QED BY <1>1, <2>1 DEF createOrUpdate, Disturbances
<1>4. CASE \E n \in Nodes : LabelNode(n) \/ UnlabelNode(n)
    <2>1. UNCHANGED budget \/ \E n, new : \E err \in BOOLEAN : UpdateNode(n, new, err)
        BY <1>4 DEF LabelNode, UnlabelNode
    <2> QED BY <1>1, <2>1 DEF UpdateNode, Disturbances
<1>5. CASE \/ CheckHelm \/ DetectOpenShift \/ ListFails \/ DeleteLabelled \/ DeleteClusterScoped
           \/ \E c \in Configs : Take(c)
           \/ \E n \in Nodes : SyncNode(n)
    <2>1. UNCHANGED budget \/ \E call, failed : MayFail(call, failed)
        BY <1>5 DEF CheckHelm, DetectOpenShift, ListFails, DeleteLabelled, DeleteClusterScoped, Take, SyncNode
    <2> QED BY <1>1, <2>1 DEF Disturbances
<1>6. CASE \/ ListMatching \/ ListPool \/ ListLabelled \/ Requeue \/ Resync \/ UNCHANGED vars
           \/ \E c \in Configs : SyncConfig(c)
           \/ \E kind \in ChildKinds : SyncKind(kind)
    BY <1>6 DEF ListMatching, ListPool, ListLabelled, Requeue, Resync, SyncConfig, SyncKind, vars
<1>7. CASE Environment
    <2>1. Spend("edit") \/ Spend("node") \/ Spend("drift") \/ Spend("helm") \/ Spend("crash")
        BY <1>7 DEF Environment, UserCreates, UserEdits, UserDeletes, NodeJoins, NodeLeaves, UserRelabels,
                    OthersDelete, StatusUpdaterAllocates, HelmChanges, Restart
    <2> QED BY <2>1 DEF Disturbances
<1> QED BY <1>2, <1>3, <1>4, <1>5, <1>6, <1>7 DEF Next, Reconcile

LEMMA StepNoHelm ==
    ASSUME TypeOK, NoHelm, [Next]_vars
    PROVE  NoHelm'
<1> SUFFICES ASSUME HelmAway PROVE budget'["helm"] = 0 /\ helm' = {} /\ pc' # "conflict"
    BY DEF NoHelm, HelmAway
<1>1. budget["helm"] = 0 /\ helm = {} /\ pc # "conflict"
    BY DEF NoHelm
<1>2. budget'["helm"] = 0
    BY <1>1, BudgetSteps DEF Spend, TypeOK, RestOK, Disturbances
<1>3. ~HelmChanges
    BY <1>1 DEF HelmChanges, Spend
<1>4. helm' = {}
    <2>1. CASE Reconcile
        BY <1>1, <2>1
           DEF Reconcile, AddFinalizer, CheckHelm, ReportHelmConflict, RejectProfile, DetectOpenShift, Apply,
               ListMatching, ListPool, ListFails, UpdateStatus, DeleteLabelled, ListLabelled,
               DeleteClusterScoped, Release, Requeue, LabelNode, WriteTopology, UnlabelNode
    <2>2. CASE ~Reconcile
        BY <1>1, <1>3, <2>2
           DEF Next, Environment, Take, SyncConfig, SyncNode, SyncKind, Resync, UserCreates, UserEdits,
               UserDeletes, NodeJoins, NodeLeaves, UserRelabels, ChangeConfig, ChangeNode, OthersDelete,
               StatusUpdaterAllocates, Restart, vars
    <2> QED BY <2>1, <2>2
<1>5. pc' # "conflict"
    <2>1. CASE CheckHelm
        <3>1. \A broken : ~detectHelmConflict(helm, broken)
            BY <1>1 DEF detectHelmConflict
        <3> QED BY <2>1, <3>1 DEF CheckHelm, Goto
    <2>2. CASE AddFinalizer \/ ListMatching \/ ListPool \/ Apply
        BY <2>2 DEF AddFinalizer, ListMatching, ListPool, Apply, At, Goto, Return
    <2>3. CASE DeleteLabelled \/ ListLabelled \/ DeleteClusterScoped
        BY <2>3 DEF DeleteLabelled, ListLabelled, DeleteClusterScoped, At, Goto
    <2>4. CASE ReportHelmConflict \/ RejectProfile \/ ListFails \/ UpdateStatus \/ Release \/ Requeue \/ Restart
        BY <2>4 DEF ReportHelmConflict, RejectProfile, ListFails, UpdateStatus, Release, Requeue, Restart, Return
    <2>5. ASSUME NEW n \in Nodes, LabelNode(n) \/ WriteTopology(n) PROVE pc' # "conflict"
        BY <2>5 DEF LabelNode, WriteTopology, At, Return
    <2>6. ASSUME NEW c \in Configs, Take(c) PROVE pc' # "conflict"
        BY <1>1, <2>6 DEF Take, Entry, worker
    <2> QED BY <1>1, <2>1, <2>2, <2>3, <2>4, <2>5, <2>6, StepKinds, ElsewhereFrame DEF NotCleaning
<1> QED BY <1>2, <1>4, <1>5

LEMMA StepMemoKnown ==
    ASSUME MemoKnown, [Next]_vars
    PROVE  MemoKnown'
<1>1. CASE ListMatching \/ ListPool
    BY <1>1 DEF ListMatching, ListPool, At, Goto, MemoKnown
<1>2. CASE AddFinalizer \/ CheckHelm \/ Apply \/ DeleteLabelled \/ ListLabelled \/ DeleteClusterScoped
    BY <1>2 DEF AddFinalizer, CheckHelm, Apply, DeleteLabelled, ListLabelled, DeleteClusterScoped, At, Goto,
                Return, MemoKnown
<1>3. CASE ReportHelmConflict \/ RejectProfile \/ ListFails \/ UpdateStatus \/ Release \/ Restart \/ Requeue
    BY <1>3 DEF ReportHelmConflict, RejectProfile, ListFails, UpdateStatus, Release, Restart, Requeue, Return,
                MemoKnown
<1>4. ASSUME NEW n \in Nodes, LabelNode(n) \/ WriteTopology(n) PROVE MemoKnown'
    BY <1>4 DEF LabelNode, WriteTopology, Return, MemoKnown
<1>5. ASSUME NEW c \in Configs, Take(c) PROVE MemoKnown'
    BY <1>5 DEF Take, At, Entry, worker, MemoKnown
<1>6. CASE DetectOpenShift
    BY <1>6 DEF DetectOpenShift, worker, MemoKnown
<1>7. CASE Elsewhere /\ ~DetectOpenShift
    <2>1. UNCHANGED isOpenShift
        BY <1>7
           DEF Elsewhere, SyncConfig, UserCreates, UserEdits, UserDeletes, SyncNode, NodeJoins, NodeLeaves,
               UserRelabels, UnlabelNode, ChangeConfig, ChangeNode, SyncKind, OthersDelete,
               StatusUpdaterAllocates, Resync, HelmChanges, vars
    <2> QED BY <1>7, <2>1, ElsewhereFrame DEF MemoKnown
<1> QED BY <1>1, <1>2, <1>3, <1>4, <1>5, <1>6, <1>7, StepKinds DEF NotCleaning

\* A node's event or a restart brings its copy up to date.
LEMMA NodeLag ==
    ASSUME TypeOK, [Next]_vars, NEW n \in Nodes, n \in lag
    PROVE  n \in lag' \/ SyncNode(n) \/ Restart
<1>1. CASE \E c \in Configs : SyncConfig(c)
    BY <1>1, NodesAssumption DEF SyncConfig
<1>2. CASE \E m \in Nodes : SyncNode(m)
    BY <1>2 DEF SyncNode
<1> QED BY <1>1, <1>2, LagSteps

\* A node that the config selects keeps its labels, or another pass is owed.
LEMMA NodeLabelledKept ==
    ASSUME WatchReaches, TypeOK, FinalizerInv, Offered, [Next]_vars, ~Restart,
           NEW c \in Configs, cfg[c] # Nil, cfg'[c] = cfg[c], ~Owed(c)',
           NEW n \in Nodes, NodeLabelled(n, c)
    PROVE  NodeLabelled(n, c)'
<1>1. CASE SyncNode(n)
    <2>1. ~Chosen(node[n], c, cfg[c].spec)
        BY <1>1, EventReaches
    <2>2. seenNode'[n] = node[n]
        BY <1>1 DEF SyncNode, TypeOK, CachesOK
    <2> QED BY <2>1, <2>2 DEF NodeLabelled, Chosen
<1>2. CASE ~SyncNode(n)
    <2>1. seenNode'[n] = seenNode[n]
        BY <1>2, SeenSteps
    <2>2. n \in lag => n \in lag'
        BY <1>2, NodeLag
    <2> QED BY <2>1, <2>2 DEF NodeLabelled, Chosen
<1> QED BY <1>1, <1>2

\* The event of a node that has entered the pool comes with another pass.
LEMMA PoolEventReaches ==
    ASSUME WatchReaches, TypeOK, FinalizerInv, Offered, PoolNoticed, [Next]_vars,
           NEW c \in Configs, cfg[c] # Nil, ~Owed(c)', ~Take(c), ~Restart,
           NEW n \in Nodes, SyncNode(n), InPool(node[n], c)
    PROVE  InPool(seenNode[n], c)
<1>1. SUFFICES ASSUME ~InPool(seenNode[n], c) PROVE FALSE
    OBVIOUS
<1>2. ~Chosen(seenNode[n], c, cfg[c].spec) /\ ~Chosen(node[n], c, cfg[c].spec)
    BY EventReaches
<1>3. PICK s \in Offers[c] : s.nodeSelector = cfg[c].spec.nodeSelector
    BY DEF Offered, CfgOffered, OfferedSelectors
<1>4. CASE ByHand
    <2>1. cfg[c].spec.nodeSelector = {}
        BY <1>3, <1>4 DEF ByHand
    <2> QED BY <1>2, <2>1 DEF Chosen, InPool, nodeListOption, MatchingLabels
<1>5. CASE Noticed(n, c)
    <2>1. ~Owed(c)
        BY OwedKept
    <2>2. ~Chosen(seenNode[n], c, s)
        BY <1>2, <1>3, ChosenBySelector
    <2> QED BY <1>2, <1>5, <2>1, <2>2 DEF Noticed
<1> QED BY <1>1, <1>4, <1>5 DEF PoolNoticed

\* So does a node in the pool keep its topology.
LEMMA TopoWrittenKept ==
    ASSUME WatchReaches, TypeOK, FinalizerInv, Offered, PoolNoticed, [Next]_vars,
           NEW c \in Configs, cfg[c] # Nil, cfg'[c] = cfg[c], ~Owed(c)', ~Take(c), ~Restart,
           NEW n \in Nodes, TopoWritten(n, c),
           LET id == NodeTopologyConfigMap(n, cfg[c].spec).id IN store'[id] = store[id]
    PROVE  TopoWritten(n, c)'
<1> SUFFICES ASSUME InPool(seenNode'[n], c) PROVE InPool(seenNode[n], c)
    <2> DEFINE cm == NodeTopologyConfigMap(n, cfg[c].spec)
    <2>1. cm' = cm
        OBVIOUS
    <2> HIDE DEF cm
    <2> SUFFICES ASSUME InPool(seenNode'[n], c) PROVE store'[cm.id] = cm
        BY <2>1 DEF TopoWritten, InPool, cm
    <2>2. store[cm.id] = cm /\ store'[cm.id] = store[cm.id]
        BY DEF TopoWritten, cm
    <2> QED BY <2>2
<1>1. CASE SyncNode(n)
    <2>1. seenNode'[n] = node[n]
        BY <1>1 DEF SyncNode, TypeOK, CachesOK
    <2> QED BY <1>1, <2>1, PoolEventReaches
<1>2. CASE ~SyncNode(n)
    BY <1>2, SeenSteps
<1> QED BY <1>1, <1>2

\* What the step of a settling config starts from, and which steps are meant:
\* those after which no other pass is owed to it.
SettlingBase ==
    /\ TypeOK /\ FinalizerInv /\ NamesInv /\ NodesInv /\ Offered
    /\ CopiesInv /\ PoolNoticed /\ DeployedInv /\ MemoRight /\ MemoKnown /\ NoHelm

StaysSettling(c) ==
    /\ cfg[c] # Nil /\ cfg'[c] = cfg[c]
    /\ ~Owed(c) /\ ~Owed(c)'
    /\ ~Restart /\ ~\E d \in Configs : Take(d)
    /\ SettlingFor(c)

\* A pass that no other pass is owed to follow works on the config as it is.
LEMMA PassOn ==
    ASSUME OneConfig, SettlingBase, NEW c \in Configs, StaysSettling(c), pc \notin {"idle", "error"}
    PROVE  cur = c /\ copy = cfg[c]
<1>1. cur = c
    BY InPass DEF OneConfig, SettlingBase
<1> QED BY <1>1, CopyRight DEF SettlingBase, CopiesInv, StaysSettling

\* The steps that lead to the places in question.
LEMMA StepsThere ==
    ASSUME SettlingBase, [Next]_vars, NEW c \in Configs, StaysSettling(c)
    PROVE  /\ pc' = "label" =>
                 \/ ListMatching
                 \/ pc = "label" /\ (UNCHANGED <<listed, store>> \/ \E n \in Nodes : LabelNode(n))
           /\ pc' = "topology" =>
                 \/ ListPool
                 \/ pc = "topology" /\ (UNCHANGED <<listed, store>> \/ \E n \in Nodes : WriteTopology(n))
           /\ pc' = "idle" =>
                 \/ pc = "idle" /\ UNCHANGED store
                 \/ ReportHelmConflict \/ UpdateStatus \/ Release \/ Requeue
<1>1. CASE Elsewhere /\ ~\E n \in Nodes : UnlabelNode(n)
    <2>1. UNCHANGED <<pc, listed>>
        BY <1>1, ElsewhereFrame
           DEF Elsewhere, SyncConfig, UserCreates, UserEdits, UserDeletes, SyncNode, NodeJoins, NodeLeaves,
               UserRelabels, ChangeConfig, ChangeNode, SyncKind, OthersDelete, StatusUpdaterAllocates, Resync,
               HelmChanges, DetectOpenShift, worker, vars
    <2>2. ~\E id \in Ids : OthersDelete(id) \/ StatusUpdaterAllocates(id)
        BY StepNoDrift DEF SettlingBase, DeployedInv
    <2>3. UNCHANGED store
        BY <1>1, <2>2, OthersKeepChildren, PassKeepsChildren DEF Elsewhere, SyncKind, server, vars
    <2> QED BY <2>1, <2>3
<1>2. CASE \/ AddFinalizer \/ CheckHelm \/ ListMatching \/ ListPool \/ Apply
           \/ DeleteLabelled \/ ListLabelled \/ DeleteClusterScoped
    <2>1. CASE AddFinalizer \/ CheckHelm \/ Apply
        BY <2>1 DEF AddFinalizer, CheckHelm, Apply, At, Goto, Return
    <2>2. CASE ListMatching \/ ListPool
        BY <2>2 DEF ListMatching, ListPool, At, Goto
    <2>3. CASE DeleteLabelled \/ ListLabelled \/ DeleteClusterScoped
        BY <2>3 DEF DeleteLabelled, ListLabelled, DeleteClusterScoped, At, Goto
    <2> QED BY <1>2, <2>1, <2>2, <2>3
<1>3. CASE ReportHelmConflict \/ RejectProfile \/ ListFails \/ UpdateStatus \/ Release \/ Requeue
    BY <1>3 DEF ReportHelmConflict, RejectProfile, ListFails, UpdateStatus, Release, Requeue, Return
<1>4. ASSUME NEW n \in Nodes, LabelNode(n) \/ WriteTopology(n) \/ UnlabelNode(n)
      PROVE  /\ pc' = "label" => pc = "label" /\ LabelNode(n)
             /\ pc' = "topology" => pc = "topology" /\ WriteTopology(n)
             /\ pc' # "idle"
    BY <1>4 DEF LabelNode, WriteTopology, UnlabelNode, At, Return
<1> QED BY <1>1, <1>2, <1>3, <1>4, StepKinds DEF NotCleaning, StaysSettling

LEMMA SettleLabel ==
    ASSUME OneConfig, WatchReaches, SettlingBase, [Next]_vars, NEW c \in Configs, StaysSettling(c),
           pc' = "label", NEW n \in Nodes, listed'[n] = Nil
    PROVE  NodeLabelled(n, c)'
<1>1. ASSUME NodeLabelled(n, c) PROVE NodeLabelled(n, c)'
    BY <1>1, NodeLabelledKept DEF SettlingBase, StaysSettling
<1>2. CASE ListMatching
    <2>1. cur = c /\ copy = cfg[c]
        BY <1>2, PassOn DEF ListMatching, At
    <2>2. ~Chosen(seenNode[n], c, cfg[c].spec)
        BY <1>2, <2>1 DEF ListMatching, TakeList, ListNodes, Chosen
    <2> QED BY <1>1, <2>2 DEF NodeLabelled
<1>3. CASE pc = "label" /\ (UNCHANGED listed \/ \E m \in Nodes : m # n /\ LabelNode(m))
    <2>1. listed[n] = Nil
        BY <1>3 DEF LabelNode, Return, SettlingBase, TypeOK, WorkerOK
    <2> QED BY <1>1, <1>3, <2>1 DEF StaysSettling, SettlingFor
<1>4. CASE pc = "label" /\ LabelNode(n)
    <2>1. cur = c /\ copy = cfg[c]
        BY <1>4, PassOn
    <2> DEFINE new == Labelled(listed[n], cur, copy.spec)
    <2>2. listed[n] # Nil
        BY <1>4 DEF LabelNode
    <2>3. seenNode[n] = listed[n]
        BY <1>4, <2>1, <2>2 DEF SettlingBase, CopiesInv, ListedSeen, StaysSettling
    <2>4. CASE new = listed[n]
        <3>1. NodeLabelled(n, c)
            BY <2>1, <2>3, <2>4 DEF NodeLabelled
        <3> QED BY <1>1, <3>1
    <2>5. CASE new # listed[n]
        <3>1. PICK err \in BOOLEAN : UpdateNode(n, new, err) /\ (err => Return("error"))
            BY <1>4, <2>5 DEF LabelNode
        <3>2. ~err
            BY <3>1 DEF Return
        <3>3. n \notin stale /\ PutNode(n, new)
            BY <3>1, <3>2 DEF UpdateNode, SameVersion
        <3>4. new # node[n]
            BY <2>2, <2>5, <3>3 DEF SettlingBase, NodesInv, ListedCurrent
        <3>5. n \in lag'
            BY <3>3, <3>4 DEF PutNode
        <3> QED BY <3>5 DEF NodeLabelled
    <2> QED BY <2>4, <2>5
<1> QED BY <1>2, <1>3, <1>4, StepsThere

\* Writing the topology of one node leaves that of the others.
LEMMA WriteTopologyHere ==
    ASSUME TypeOK, NEW m \in Nodes, WriteTopology(m), pc' = "topology"
    PROVE  LET cm == NodeTopologyConfigMap(m, copy.spec) IN
           /\ store'[cm.id] = cm
           /\ \A n \in Nodes \ {m} : \A s : LET id == NodeTopologyConfigMap(n, s).id IN store'[id] = store[id]
<1> DEFINE cm == NodeTopologyConfigMap(m, copy.spec)
<1>1. cm.id \in Ids
    BY NodeTopologyTyped DEF WriteTopology, At, TypeOK, WorkerOK
<1>2. PICK err \in BOOLEAN : createOrUpdate(cm, err) /\ (err => Return("error"))
    BY DEF WriteTopology
<1>3. store' = [store EXCEPT ![cm.id] = cm]
    BY <1>2 DEF createOrUpdate, Return
<1>4. \A n \in Nodes \ {m} : \A s : NodeTopologyConfigMap(n, s).id # cm.id
    BY DEF NodeTopologyConfigMap, Child
<1> HIDE DEF cm
<1>5. store'[cm.id] = cm
    BY <1>1, <1>3 DEF TypeOK, ServerOK
<1>6. \A id : id # cm.id => store'[id] = store[id]
    BY <1>3 DEF TypeOK, ServerOK
<1> QED BY <1>4, <1>5, <1>6 DEF cm

LEMMA SettleTopology ==
    ASSUME OneConfig, WatchReaches, SettlingBase, [Next]_vars, NEW c \in Configs, StaysSettling(c),
           pc' = "topology", NEW n \in Nodes
    PROVE  NodeLabelled(n, c)' /\ (listed'[n] # Nil \/ TopoWritten(n, c)')
<1>1. ASSUME NodeLabelled(n, c) PROVE NodeLabelled(n, c)'
    BY <1>1, NodeLabelledKept DEF SettlingBase, StaysSettling
<1>2. ASSUME TopoWritten(n, c), LET id == NodeTopologyConfigMap(n, cfg[c].spec).id IN store'[id] = store[id]
      PROVE  TopoWritten(n, c)'
    BY <1>2, TopoWrittenKept DEF SettlingBase, StaysSettling
<1>3. CASE ListPool
    <2>1. cur = c /\ pc = "label" /\ listed = Nobody
        BY <1>3, PassOn DEF ListPool, At
    <2>2. NodeLabelled(n, c)
        BY <2>1 DEF StaysSettling, SettlingFor, Nobody
    <2>3. ASSUME listed'[n] = Nil PROVE TopoWritten(n, c)'
        <3>1. ~InPool(seenNode[n], c) /\ UNCHANGED seenNode
            BY <1>3, <2>1, <2>3 DEF ListPool, TakeList, ListNodes, MatchingLabels, Pool, InPool, caches
        <3> QED BY <3>1 DEF TopoWritten, InPool
    <2> QED BY <1>1, <2>2, <2>3
<1>4. CASE pc = "topology" /\ UNCHANGED <<listed, store>>
    BY <1>1, <1>2, <1>4 DEF StaysSettling, SettlingFor
<1>5. ASSUME pc = "topology", NEW m \in Nodes, WriteTopology(m)
      PROVE  NodeLabelled(n, c)' /\ (listed'[n] # Nil \/ TopoWritten(n, c)')
    <2>1. cur = c /\ copy = cfg[c] /\ cfg'[c] = cfg[c]
        BY <1>5, PassOn DEF StaysSettling
    <2>2. NodeLabelled(n, c)'
        BY <1>1, <1>5 DEF StaysSettling, SettlingFor
    <2>3. listed' = [listed EXCEPT ![m] = Nil]
        BY <1>5 DEF WriteTopology, Return
    <2>4. CASE m = n
        <3> DEFINE cm == NodeTopologyConfigMap(n, cfg[c].spec)
        <3>1. store'[cm.id] = cm
            BY <1>5, <2>1, <2>4, WriteTopologyHere DEF SettlingBase
        <3>2. cm' = cm
            BY <2>1
        <3> HIDE DEF cm
        <3>3. TopoWritten(n, c)'
            BY <3>1, <3>2 DEF TopoWritten, cm
        <3> QED BY <2>2, <3>3
    <2>5. CASE m # n
        <3>1. listed'[n] = listed[n]
            BY <2>3, <2>5 DEF SettlingBase, TypeOK, WorkerOK
        <3>2. LET id == NodeTopologyConfigMap(n, cfg[c].spec).id IN store'[id] = store[id]
            BY <1>5, <2>5, WriteTopologyHere DEF SettlingBase
        <3>3. listed[n] # Nil \/ TopoWritten(n, c)
            BY <1>5 DEF StaysSettling, SettlingFor
        <3> QED BY <1>2, <2>2, <3>1, <3>2, <3>3
    <2> QED BY <2>4, <2>5
<1> QED BY <1>3, <1>4, <1>5, StepsThere

\* With the children of the plan written and no node left, the status is all
\* there is to write.
LEMMA UpdateStatusDone ==
    ASSUME OneConfig, WatchReaches, SettlingBase, [Next]_vars, NEW c \in Configs, StaysSettling(c),
           UpdateStatus, pc' = "idle"
    PROVE  Done(c)'
<1>1. pc = "topology" /\ listed = Nobody /\ UNCHANGED <<node, store>>
    BY DEF UpdateStatus, At
<1>2. cur = c /\ copy = cfg[c] /\ cfg'[c] = cfg[c] /\ cfg[c] \in ConfigObjects
    BY <1>1, PassOn, InPass DEF StaysSettling, SettlingBase
<1> DEFINE status == ReconciledStatus(copy.spec, ListNodes(nodeListOption(cur, copy.spec)))
<1>3. PutConfig(cur, [copy EXCEPT !.status = status])
    <2>1. PICK err \in BOOLEAN :
              UpdateConfig("status", [copy EXCEPT !.status = status], err) /\ Return(IF err THEN "error" ELSE "idle")
        BY DEF UpdateStatus
    <2>2. ~err
        BY <2>1 DEF Return
    <2> QED BY <2>1, <2>2 DEF UpdateConfig
<1>4. cfg'[c].status = status /\ UNCHANGED seenNode
    <2>1. cfg'[c] = [copy EXCEPT !.status = status]
        BY <1>2, <1>3 DEF PutConfig, SettlingBase, TypeOK, ServerOK
    <2> QED BY <1>2, <1>3, <2>1 DEF PutConfig, ConfigObjects
<1>5. (cfg[c].status = ReconciledStatus(cfg[c].spec, ListNodes(nodeListOption(c, cfg[c].spec))))'
    BY <1>2, <1>4 DEF ReconciledStatus, ListNodes
<1>6. ~cfg'[c].deleting
    BY <1>1, <1>2 DEF SettlingBase, FinalizerInv, PassInv, CopyFits, Live, Provisioning
<1>7. AllChildrenDeployed(c)'
    <2>1. (isOpenShift = "yes") = OnOpenShift
        BY <1>1, BudgetAssumption DEF SettlingBase, MemoRight, MemoKnown
    <2>2. \A i \in DOMAIN CurPlan : store[CurPlan[i].id] = CurPlan[i]
        BY <1>1 DEF SettlingBase, DeployedInv, Written
    <2>3. CurPlan = Plan(c, cfg'[c].spec, OnOpenShift)
        BY <1>2, <2>1 DEF CurPlan
    <2>4. \A obj \in Planned(c, cfg'[c].spec, OnOpenShift) : store'[obj.id] = obj
        BY <1>1, <2>2, <2>3 DEF Planned
    <2> QED BY <2>4 DEF AllChildrenDeployed
<1>8. ASSUME NEW n \in Nodes PROVE NodeLabelled(n, c)' /\ TopoWritten(n, c)'
    <2>1. NodeLabelled(n, c) /\ TopoWritten(n, c)
        BY <1>1 DEF StaysSettling, SettlingFor, Nobody
    <2>2. NodeLabelled(n, c)'
        BY <2>1, NodeLabelledKept DEF SettlingBase, StaysSettling
    <2>3. TopoWritten(n, c)'
        BY <1>1, <2>1, TopoWrittenKept DEF SettlingBase, StaysSettling
    <2> QED BY <2>2, <2>3
<1> QED BY <1>5, <1>6, <1>7, <1>8 DEF Done

\* A config that is done stays so until an event tells otherwise.
LEMMA DoneKept ==
    ASSUME WatchReaches, SettlingBase, [Next]_vars, NEW c \in Configs, StaysSettling(c),
           UNCHANGED store, Done(c)
    PROVE  Done(c)'
<1>1. cfg'[c] = cfg[c]
    BY DEF StaysSettling
<1>2. ~cfg'[c].deleting /\ AllChildrenDeployed(c)'
    BY <1>1 DEF Done, AllChildrenDeployed
<1>3. ASSUME NEW n \in Nodes PROVE NodeLabelled(n, c)' /\ TopoWritten(n, c)'
    <2>1. NodeLabelled(n, c) /\ TopoWritten(n, c)
        BY DEF Done
    <2>2. NodeLabelled(n, c)'
        BY <2>1, NodeLabelledKept DEF SettlingBase, StaysSettling
    <2>3. TopoWritten(n, c)'
        BY <2>1, TopoWrittenKept DEF SettlingBase, StaysSettling
    <2> QED BY <2>2, <2>3
<1> DEFINE selector == nodeListOption(c, cfg[c].spec)
<1>4. ListNodes(selector)' = ListNodes(selector)
    <2>1. ASSUME NEW n \in Nodes, SyncNode(n)
          PROVE  ~Chosen(seenNode[n], c, cfg[c].spec) /\ ~Chosen(seenNode'[n], c, cfg[c].spec)
        <3>1. seenNode'[n] = node[n]
            BY <2>1 DEF SyncNode, SettlingBase, TypeOK, CachesOK
        <3> QED BY <2>1, <3>1, EventReaches DEF SettlingBase, StaysSettling
    <2>2. ASSUME NEW n \in Nodes
          PROVE  \/ seenNode'[n] = seenNode[n]
                 \/ ~Chosen(seenNode[n], c, cfg[c].spec) /\ ~Chosen(seenNode'[n], c, cfg[c].spec)
        BY <2>1, SeenSteps DEF SettlingBase, StaysSettling
    <2> QED BY <1>1, <2>2 DEF ListNodes, Chosen
<1>5. (cfg[c].status = ReconciledStatus(cfg[c].spec, ListNodes(nodeListOption(c, cfg[c].spec))))'
    BY <1>1, <1>4 DEF Done, ReconciledStatus
<1> QED BY <1>2, <1>3, <1>5 DEF Done

\* A Helm conflict is reported before the worker rests.
LEMMA ConflictReported ==
    ASSUME ConflictsTold, OneConfig, SettlingBase, NEW c \in Configs, StaysSettling(c), ReportHelmConflict
    PROVE  cfg'[c].status.reason = "HelmConflict"
<1>1. pc = "conflict"
    BY DEF ReportHelmConflict, At
<1>2. cur = c /\ copy = cfg[c] /\ copy \in ConfigObjects
    BY <1>1, PassOn, InPass DEF SettlingBase
<1>3. SameVersion(cur)
    BY <1>1, <1>2 DEF SameVersion, SettlingBase, CopiesInv, StaleOwed, StaysSettling, Owed
<1> DEFINE new == [copy EXCEPT !.status.reason = "HelmConflict"]
<1>4. PutConfig(cur, new)
    <2>1. "status" \notin Faulty
        BY <1>1 DEF ConflictsTold, SettlingBase, NoHelm
    <2> QED BY <1>3, <2>1 DEF ReportHelmConflict, WriteCondition, UpdateConfig, MayFail
<1>5. cfg'[c] = new
    BY <1>2, <1>4 DEF PutConfig, SettlingBase, TypeOK, ServerOK
<1> QED BY <1>2, <1>5 DEF ConfigObjects, Statuses

LEMMA SettleIdle ==
    ASSUME ConflictsTold, OneConfig, WatchReaches, SettlingBase, [Next]_vars,
           NEW c \in Configs, cfg'[c] # Nil, StaysSettling(c), pc' = "idle"
    PROVE  cfg'[c].status.reason = "HelmConflict" \/ Done(c)'
<1>1. CASE pc = "idle" /\ UNCHANGED store
    BY <1>1, DoneKept DEF StaysSettling, SettlingFor
<1>2. CASE ReportHelmConflict
    BY <1>2, ConflictReported
<1>3. CASE UpdateStatus
    BY <1>3, UpdateStatusDone
<1>4. CASE Release
    <2>1. cur = c
        BY <1>4, PassOn DEF Release, At
    <2>2. PutConfig(cur, Nil)
        BY <1>4 DEF Release, Return, UpdateConfig
    <2> QED BY <2>1, <2>2 DEF PutConfig, SettlingBase, TypeOK, ServerOK
<1>5. CASE Requeue
    <2>1. cur = c
        BY <1>5 DEF Requeue, SettlingBase, TypeOK, WorkerOK, OneConfig
    <2> QED BY <1>5, <2>1 DEF Requeue, Owed, StaysSettling
<1> QED BY <1>1, <1>2, <1>3, <1>4, <1>5, StepsThere

\* A config that the worker takes is read as it is.
LEMMA TakeSettles ==
    ASSUME TypeOK, FinalizerInv, NEW c \in Configs, Take(c), cfg[c] # Nil, c \notin lag
    PROVE  pc' \notin {"label", "topology", "idle"}
BY DEF Take, At, FinalizerInv, CachesInv, CacheCurrent, Entry

LEMMA StepSettling ==
    ASSUME ConflictsTold, OneConfig, WatchReaches, SettlingBase, Settling, [Next]_vars
    PROVE  Settling'
<1> SUFFICES ASSUME NEW c \in Configs, cfg'[c] # Nil, ~Owed(c)' PROVE SettlingFor(c)'
    BY DEF Settling
<1>1. cfg'[c] = cfg[c]
    BY ConfigSteps DEF SettlingBase, Owed
<1>2. ~Restart
    BY <1>1 DEF Restart, Owed, server
<1>3. CASE Take(c)
    <2>1. c \notin lag
        BY <1>3 DEF Take, caches, Owed
    <2>2. pc' \notin {"label", "topology", "idle"}
        BY <1>1, <1>3, <2>1, TakeSettles DEF SettlingBase
    <2> QED BY <2>2 DEF SettlingFor
<1>4. CASE ~Take(c)
    <2>1. ~Owed(c)
        BY <1>2, <1>4, OwedKept DEF SettlingBase
    <2>2. StaysSettling(c)
        BY <1>1, <1>2, <1>4, <2>1 DEF StaysSettling, Settling, OneConfig
    <2>3. pc' = "label" => \A n \in Nodes : listed'[n] # Nil \/ NodeLabelled(n, c)'
        BY <2>2, SettleLabel
    <2>4. pc' = "topology" =>
              \A n \in Nodes : NodeLabelled(n, c)' /\ (listed'[n] # Nil \/ TopoWritten(n, c)')
        BY <2>2, SettleTopology
    <2>5. pc' = "idle" => cfg'[c].status.reason = "HelmConflict" \/ Done(c)'
        BY <2>2, SettleIdle
    <2> QED BY <2>3, <2>4, <2>5 DEF SettlingFor
<1> QED BY <1>3, <1>4

\* The nodes a config is for are those its List would return, were it current.
LEMMA SelectedChosen ==
    ASSUME NEW c, NEW n \in Nodes
    PROVE  n \in Selected(c) <=> Chosen(node[n], c, cfg[c].spec)
<1>1. CASE cfg[c].spec.nodeSelector # {}
    BY <1>1 DEF Selected, Chosen, nodeListOption, MatchingLabels
<1>2. CASE cfg[c].spec.nodeSelector = {}
    <2>1. nodeListOption(c, cfg[c].spec) = {<<nodePoolLabel, c>>}
        BY <1>2 DEF nodeListOption
    <2>2. MatchingLabels(node[n], {<<nodePoolLabel, c>>}) <=> node[n][nodePoolLabel] = c
        BY DEF MatchingLabels
    <2> QED BY <1>2, <2>1, <2>2 DEF Selected, Chosen
<1> QED BY <1>1, <1>2

\* With the caches caught up, what the passes saw is what there is.
LEMMA DoneProvisions ==
    ASSUME TypeOK, NodeCacheCurrent, lag = {}, NEW c \in Configs, cfg[c] # Nil, Done(c)
    PROVE  Provisioned(c)
<1> DEFINE spec == cfg[c].spec
           nodes == ListNodes(nodeListOption(c, spec))
<1>1. \A n \in Nodes : seenNode[n] = node[n]
    BY DEF NodeCacheCurrent
<1>2. \A n \in Nodes : n \in Selected(c) <=> Chosen(node[n], c, spec)
    BY SelectedChosen
<1>3. ASSUME NEW n \in Selected(c)
      PROVE  node[n] = Labelled(node[n], c, spec) /\ node[n][deployDPLabel] = "true"
    <2>1. n \in Nodes
        BY DEF Selected
    <2>2. node[n] = Labelled(node[n], c, spec)
        BY <1>1, <1>2, <2>1 DEF Done, NodeLabelled
    <2>3. deployDPLabel \in LabelKeys /\ deployDPLabel \in DeployLabels(spec) /\ deployDPLabel # nodePoolLabel
        BY DEF LabelKeys, OperatorLabels, DeployLabels, deployDPLabel, nodePoolLabel
    <2>4. Labelled(node[n], c, spec)[deployDPLabel] = "true"
        BY <2>3 DEF Labelled
    <2> QED BY <2>2, <2>4
<1>4. NodesServed(c)
    <2>1. ASSUME NEW n \in Pooled(c) PROVE InPool(seenNode[n], c) /\ n \in Nodes
        BY <1>1 DEF Pooled, InPool
    <2>2. \A n \in Pooled(c) : LET cm == NodeTopologyConfigMap(n, spec) IN store[cm.id] = cm
        BY <2>1 DEF Done, TopoWritten
    <2> QED BY <1>3, <2>2 DEF NodesServed
<1>5. \A n \in Nodes : nodes[n] = IF n \in Selected(c) THEN node[n] ELSE Nil
    BY <1>1, <1>2 DEF ListNodes, Chosen
<1>6. Selected(c) = {n \in Nodes : nodes[n] # Nil}
    BY <1>5 DEF Selected
<1>7. Selected(c) = {n \in Nodes : nodes[n] # Nil /\ nodes[n][deployDPLabel] = "true"}
    BY <1>3, <1>5, <1>6
<1>8. Count(nodes) = Cardinality(Selected(c)) /\ CountReady(nodes) = Cardinality(Selected(c))
    BY <1>6, <1>7 DEF Count, CountReady
<1>9. StatusExact(c)
    <2>1. cfg[c].status = ReconciledStatus(spec, nodes)
        BY DEF Done
    <2> HIDE DEF nodes
    <2> QED BY <1>8, <2>1 DEF StatusExact, ReconciledStatus
<1> QED BY <1>4, <1>9 DEF Provisioned, Done

LEMMA SettlingHolds ==
    /\ OneConfig /\ ChildrenLeftAlone /\ DiscoveryReliable /\ ConflictsTold
    /\ WatchReaches /\ PoolsOurs
    => (Spec => []Settling)
<1> SUFFICES ASSUME OneConfig, ChildrenLeftAlone, DiscoveryReliable, ConflictsTold, WatchReaches, PoolsOurs
             PROVE  Spec => []Settling
    OBVIOUS
<1>1. Init => Settling /\ MemoRight /\ MemoKnown /\ NoHelm
    BY DEF Init, Settling, MemoRight, MemoKnown, NoHelm, HelmAway
<1>2. TypeOK /\ MemoRight /\ MemoKnown /\ NoHelm /\ [Next]_vars => (MemoRight /\ MemoKnown /\ NoHelm)'
    BY StepMemo, StepMemoKnown, StepNoHelm
<1>3. /\ TypeOK /\ FinalizerInv /\ NamesInv /\ NodesInv /\ Offered /\ CopiesInv /\ PoolNoticed /\ DeployedInv
      /\ MemoRight /\ MemoKnown /\ NoHelm /\ Settling /\ [Next]_vars
      => Settling'
    BY StepSettling DEF SettlingBase
<1>4. Spec => []CopiesInv
    BY CopiesInvHolds
<1>5. Spec => []PoolNoticed
    BY PoolNoticedHolds
<1>6. Spec => []DeployedInv
    BY DeployedInvHolds
<1> QED
    BY <1>1, <1>2, <1>3, <1>4, <1>5, <1>6, TypeCorrect, FinalizerInvHolds, NamesInvHolds, NodesInvHolds,
       OfferedHolds, PTL DEF Spec

\* No event is missing: a config that no pass is running, queued or on its way
\* for has its children, its labels, its topologies and an exact status, with a
\* cache of configs and nodes that lags by any number of versions, users who
\* edit the config and relabel nodes meanwhile, crashes, and calls that fail
\* (Reconcile, createOrUpdate, reconcileNodeLabels, updateStatus, the node
\* watch).  The premises are where it would not hold: one config; children that
\* nobody else touches; a node watch whose selectors ask for labels and whose
\* List of the configs does not fail (an event is lost if it does); a pool label
\* that is the operator's own; a discovery that finds OpenShift where it is; and a
\* status write that does not fail where a Helm conflict may have to be reported.
THEOREM NothingIsMissed ==
    /\ OneConfig /\ ChildrenLeftAlone /\ DiscoveryReliable /\ ConflictsTold
    /\ WatchReaches /\ PoolsOurs
    => (Spec => []RestsOnlyWhenDone)
<1> SUFFICES ASSUME OneConfig, ChildrenLeftAlone, DiscoveryReliable, ConflictsTold, WatchReaches, PoolsOurs
             PROVE  Spec => []RestsOnlyWhenDone
    OBVIOUS
<1>1. ASSUME TypeOK, NodesInv, Settling PROVE RestsOnlyWhenDone
    <2> SUFFICES ASSUME Quiescent, NEW c \in Configs, cfg[c] # Nil, cfg[c].status.reason # "HelmConflict"
                 PROVE  Provisioned(c)
        BY DEF RestsOnlyWhenDone
    <2>1. pc = "idle" /\ lag = {} /\ ~Owed(c)
        BY DEF Quiescent, Owed
    <2>2. Done(c)
        BY <1>1, <2>1 DEF Settling, SettlingFor
    <2> QED BY <1>1, <2>1, <2>2, DoneProvisions DEF NodesInv
<1>2. TypeOK /\ NodesInv /\ Settling => RestsOnlyWhenDone
    BY <1>1
<1>3. Spec => []Settling
    BY SettlingHolds
<1> QED BY <1>2, <1>3, TypeCorrect, NodesInvHolds, PTL
=============================================================================
