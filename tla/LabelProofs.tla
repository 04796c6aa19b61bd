---------------------------- MODULE LabelProofs ----------------------------
(***************************************************************************)
(* What passes do to the nodes, for all configs, nodes and specs: pools    *)
(* with selectors of their own are kept apart, and where nobody else edits *)
(* nodes no label of the operator outlives its config.  What a pass sees   *)
(* of configs and nodes, and that what it missed comes back as an event.   *)
(***************************************************************************)
EXTENDS ThoroughProofs

-----------------------------------------------------------------------------
(* The copies of nodes that a pass works on.                                *)

\* The places in Reconcile where nodes are listed.
Listing == {"label", "topology", "unlabel"}

NodeCacheCurrent == \A n \in Nodes : n \notin lag => seenNode[n] = node[n]
ListedCurrent    == \A n \in Nodes : listed[n] # Nil /\ n \notin stale => node[n] = listed[n]
ListedInPass     == pc \notin Listing => listed = Nobody
ListedSelected ==
    /\ pc = "label" =>
          \A n \in Nodes : listed[n] # Nil => MatchingLabels(listed[n], nodeListOption(cur, copy.spec))
    /\ pc = "unlabel" => \A n \in Nodes : listed[n] # Nil => listed[n][nodePoolLabel] = cur

\* The cache and the copies are of the server's nodes unless lag and stale say
\* otherwise, and the copies are of nodes that the list selects.
NodesInv == NodeCacheCurrent /\ ListedCurrent /\ ListedInPass /\ ListedSelected

SameNodeLag == \A n \in Nodes : n \in lag' <=> n \in lag

\* Who changes a node or its cached copy, and how.
WorkerPuts(n) ==
    /\ SameVersion(n)
    /\ listed[n] # Nil
    /\ \/ LabelNode(n) /\ PutNode(n, Labelled(listed[n], cur, copy.spec))
       \/ UnlabelNode(n) /\ PutNode(n, Unlabelled(listed[n]))

OthersPut(n) == NodeJoins(n) \/ NodeLeaves(n) \/ UserRelabels(n)

LEMMA ConfigLag ==
    ASSUME NEW c \in Configs, NEW new, PutConfig(c, new)
    PROVE  UNCHANGED seenNode /\ SameNodeLag
BY NodesAssumption DEF PutConfig, SameNodeLag

LEMMA UpdateConfigLag ==
    ASSUME cur \in Configs, NEW call, NEW new, NEW err \in BOOLEAN, UpdateConfig(call, new, err)
    PROVE  UNCHANGED seenNode /\ SameNodeLag
<1>1. CASE UNCHANGED caches
    BY <1>1 DEF caches, SameNodeLag
<1>2. CASE PutConfig(cur, new)
    BY <1>2, ConfigLag
<1> QED BY <1>1, <1>2 DEF UpdateConfig

LEMMA UpdateNodeOutcomes ==
    ASSUME NEW n \in Nodes, NEW new, NEW err \in BOOLEAN, UpdateNode(n, new, err)
    PROVE  (SameVersion(n) /\ PutNode(n, new)) \/ UNCHANGED <<node, caches>>
BY DEF UpdateNode

LEMMA PassNodes ==
    ASSUME TypeOK, Reconcile
    PROVE  \/ UNCHANGED <<node, seenNode>> /\ SameNodeLag
           \/ \E n \in Nodes : WorkerPuts(n)
<1>1. CASE AddFinalizer \/ ReportHelmConflict \/ RejectProfile \/ UpdateStatus \/ Release
    <2>1. cur \in Configs /\ UNCHANGED node
        BY <1>1, InPass DEF AddFinalizer, ReportHelmConflict, RejectProfile, UpdateStatus, Release, At
    <2>2. PICK new : \E call : \E err \in BOOLEAN : UpdateConfig(call, new, err)
        BY <1>1 DEF AddFinalizer, ReportHelmConflict, RejectProfile, UpdateStatus, Release, WriteCondition
    <2> QED BY <2>1, <2>2, UpdateConfigLag
<1>2. ASSUME NEW n \in Nodes, LabelNode(n)
      PROVE  UNCHANGED <<node, caches>> \/ WorkerPuts(n)
    <2>1. listed[n] # Nil
        BY <1>2 DEF LabelNode
    <2>2. UNCHANGED <<node, caches>>
          \/ \E err \in BOOLEAN : UpdateNode(n, Labelled(listed[n], cur, copy.spec), err)
        BY <1>2 DEF LabelNode
    <2> QED BY <1>2, <2>1, <2>2, UpdateNodeOutcomes DEF WorkerPuts
<1>3. ASSUME NEW n \in Nodes, UnlabelNode(n)
      PROVE  UNCHANGED <<node, caches>> \/ WorkerPuts(n)
    <2>1. listed[n] # Nil
        BY <1>3 DEF UnlabelNode
    <2>2. \E err \in BOOLEAN : UpdateNode(n, Unlabelled(listed[n]), err)
        BY <1>3 DEF UnlabelNode
    <2> QED BY <1>3, <2>1, <2>2, UpdateNodeOutcomes DEF WorkerPuts
<1>4. CASE UNCHANGED <<node, caches>>
    BY <1>4 DEF caches, SameNodeLag
<1>5. CASE \E n \in Nodes : LabelNode(n) \/ UnlabelNode(n)
    BY <1>2, <1>3, <1>4, <1>5
<1>6. CASE \/ CheckHelm \/ DetectOpenShift \/ Apply \/ ListMatching \/ ListPool \/ ListFails
           \/ DeleteLabelled \/ ListLabelled \/ DeleteClusterScoped \/ Requeue
           \/ \E n \in Nodes : WriteTopology(n)
    BY <1>4, <1>6
       DEF CheckHelm, DetectOpenShift, Apply, ListMatching, ListPool, ListFails, DeleteLabelled,
           ListLabelled, DeleteClusterScoped, Requeue, WriteTopology, server
<1> QED BY <1>1, <1>5, <1>6 DEF Reconcile

LEMMA NodeSteps ==
    ASSUME TypeOK, [Next]_vars
    PROVE  \/ UNCHANGED <<node, seenNode>> /\ SameNodeLag
           \/ \E n \in Nodes : WorkerPuts(n) \/ OthersPut(n) \/ SyncNode(n)
           \/ Restart
<1>1. CASE Reconcile
    BY <1>1, PassNodes
<1>2. ASSUME NEW c \in Configs, UserCreates(c) \/ UserEdits(c) \/ UserDeletes(c)
      PROVE  UNCHANGED <<node, seenNode>> /\ SameNodeLag
    <2>1. PICK new : ChangeConfig(c, new)
        BY <1>2 DEF UserCreates, UserEdits, UserDeletes
    <2> QED BY <2>1, ConfigLag DEF ChangeConfig
<1>3. ASSUME NEW c \in Configs, SyncConfig(c)
      PROVE  UNCHANGED <<node, seenNode>> /\ SameNodeLag
    BY <1>3, NodesAssumption DEF SyncConfig, server, SameNodeLag
<1>4. CASE UNCHANGED <<node, caches>>
    BY <1>4 DEF caches, SameNodeLag
<1>5. CASE \E kind \in ChildKinds : SyncKind(kind)
    BY <1>5 DEF SyncKind, server, SameNodeLag
<1>6. CASE Environment
    <2>1. CASE HelmChanges \/ \E id \in Ids : OthersDelete(id) \/ StatusUpdaterAllocates(id)
        BY <1>4, <2>1 DEF HelmChanges, OthersDelete, StatusUpdaterAllocates, server
    <2> QED BY <1>2, <1>6, <2>1 DEF Environment, OthersPut
<1>7. CASE Resync \/ (\E c \in Configs : Take(c)) \/ UNCHANGED vars
    BY <1>4, <1>7 DEF Resync, Take, vars, server
<1> QED BY <1>1, <1>3, <1>5, <1>6, <1>7 DEF Next

\* A put changes one node.
LEMMA PutNodeChanges ==
    ASSUME TypeOK, NEW n \in Nodes, NEW new, PutNode(n, new)
    PROVE  /\ node'[n] = new
           /\ \A m \in Nodes \ {n} : node'[m] = node[m]
           /\ UNCHANGED seenNode
           /\ \A m \in Nodes : node'[m] = node[m] \/ m \in lag'
           /\ \A m \in lag : m \in lag'
BY DEF PutNode, TypeOK, ServerOK

LEMMA OthersPutNode ==
    ASSUME NEW n \in Nodes, OthersPut(n)
    PROVE  \E new : ChangeNode(n, new)
BY DEF OthersPut, NodeJoins, NodeLeaves, UserRelabels

LEMMA StepCache ==
    ASSUME TypeOK, NodeCacheCurrent, [Next]_vars
    PROVE  NodeCacheCurrent'
<1>1. CASE UNCHANGED <<node, seenNode>> /\ SameNodeLag
    BY <1>1 DEF NodeCacheCurrent, SameNodeLag
<1>2. ASSUME NEW n \in Nodes, WorkerPuts(n) \/ OthersPut(n) PROVE NodeCacheCurrent'
    <2>1. PICK new : PutNode(n, new)
        BY <1>2, OthersPutNode DEF WorkerPuts, ChangeNode
    <2> QED BY <2>1, PutNodeChanges DEF NodeCacheCurrent
<1>3. ASSUME NEW n \in Nodes, SyncNode(n) PROVE NodeCacheCurrent'
    BY <1>3 DEF SyncNode, NodeCacheCurrent, server, TypeOK, CachesOK
<1>4. CASE Restart
    BY <1>4 DEF Restart, NodeCacheCurrent, server
<1> QED BY <1>1, <1>2, <1>3, <1>4, NodeSteps

\* What is said of the copies.
ListedInv == ListedCurrent /\ ListedInPass /\ ListedSelected

\* Steps that change neither nodes nor their copies.
LEMMA ListedFrame ==
    ASSUME ListedInv, UNCHANGED <<node, pc, cur, copy, listed>>, \A n \in Nodes : n \in stale => n \in stale'
    PROVE  ListedInv'
BY DEF ListedInv, ListedCurrent, ListedInPass, ListedSelected

\* With no copies there is nothing to say.
LEMMA NothingListed ==
    ASSUME listed' = Nobody
    PROVE  ListedInv'
BY DEF ListedInv, ListedCurrent, ListedInPass, ListedSelected, Nobody

\* A copy is handled.
LEMMA NodeHandled ==
    ASSUME TypeOK, ListedInv, NEW n \in Nodes, listed' = [listed EXCEPT ![n] = Nil], UNCHANGED <<pc, cur, copy>>,
           pc \in Listing, \A m \in Nodes \ {n} : node'[m] = node[m] /\ (m \in stale => m \in stale')
    PROVE  ListedInv'
<1>1. listed'[n] = Nil /\ \A m \in Nodes \ {n} : listed'[m] = listed[m]
    BY DEF TypeOK, WorkerOK
<1>2. ListedCurrent'
    BY <1>1 DEF ListedInv, ListedCurrent
<1>3. ListedInPass' /\ ListedSelected'
    BY <1>1 DEF ListedInv, ListedInPass, ListedSelected
<1> QED BY <1>2, <1>3 DEF ListedInv

\* A list takes the cached labels of the nodes that match.
LEMMA ListTaken ==
    ASSUME TypeOK, NodeCacheCurrent, NEW selector, TakeList(selector), UNCHANGED <<node, cur, copy>>, pc' \in Listing,
           pc' = "label" => selector = nodeListOption(cur, copy.spec),
           pc' = "unlabel" => selector = Pool(cur)
    PROVE  ListedInv'
<1>1. \A n \in Nodes : listed'[n] # Nil => listed'[n] = seenNode[n] /\ MatchingLabels(seenNode[n], selector)
    BY DEF TakeList, ListNodes
<1>2. ListedCurrent'
    <2>1. \A n \in Nodes : listed'[n] # Nil /\ n \notin stale' => n \notin lag
        BY DEF TakeList
    <2> QED BY <1>1, <2>1 DEF NodeCacheCurrent, ListedCurrent
<1>3. ListedInPass'
    BY DEF ListedInPass
<1>4. \A n \in Nodes : listed'[n] # Nil => MatchingLabels(listed'[n], selector)
    BY <1>1
<1>5. \A labels : MatchingLabels(labels, Pool(cur)) => labels[nodePoolLabel] = cur
    BY DEF MatchingLabels, Pool
<1>6. ASSUME pc' = "label", NEW n \in Nodes, listed'[n] # Nil
      PROVE  MatchingLabels(listed'[n], nodeListOption(cur, copy.spec)')
    BY <1>4, <1>6
<1>7. ListedSelected'
    BY <1>4, <1>5, <1>6 DEF ListedSelected
<1> QED BY <1>2, <1>3, <1>7 DEF ListedInv

\* Somebody else changes a node: a copy of it is known to be outdated.
LEMMA OthersPutListed ==
    ASSUME TypeOK, ListedInv, NEW n \in Nodes, OthersPut(n)
    PROVE  ListedInv'
<1>1. PICK new : ChangeNode(n, new)
    BY OthersPutNode
<1>2. \A m \in Nodes \ {n} : node'[m] = node[m]
    BY <1>1, PutNodeChanges DEF ChangeNode
<1>3. /\ UNCHANGED <<pc, cur, copy, listed>>
      /\ \A m \in Nodes : m \in stale => m \in stale'
      /\ listed[n] # Nil => n \in stale'
    BY <1>1 DEF ChangeNode
<1> QED BY <1>2, <1>3 DEF ListedInv, ListedCurrent, ListedInPass, ListedSelected

LEMMA PassListed ==
    ASSUME TypeOK, NodeCacheCurrent, ListedInv, Reconcile
    PROVE  ListedInv'
<1>1. CASE AddFinalizer \/ CheckHelm \/ Apply \/ Requeue \/ DeleteClusterScoped
    <2>1. CASE \E outcome : Return(outcome)
        BY <2>1, NothingListed DEF Return
    <2>2. CASE ~\E outcome : Return(outcome)
        <3>1. listed = Nobody
            BY <1>1 DEF AddFinalizer, CheckHelm, Apply, Requeue, DeleteClusterScoped, At, ListedInv,
                        ListedInPass, Listing
        <3>2. UNCHANGED listed
            BY <1>1, <2>2 DEF AddFinalizer, CheckHelm, Apply, Requeue, DeleteClusterScoped
        <3> QED BY <3>1, <3>2, NothingListed
    <2> QED BY <2>1, <2>2
<1>2. CASE ReportHelmConflict \/ RejectProfile \/ ListFails \/ UpdateStatus \/ Release
    <2>1. \E outcome : Return(outcome)
        BY <1>2 DEF ReportHelmConflict, RejectProfile, ListFails, UpdateStatus, Release
    <2> QED BY <2>1, NothingListed DEF Return
<1>3. CASE DetectOpenShift \/ DeleteLabelled
    BY <1>3, ListedFrame DEF DetectOpenShift, DeleteLabelled, server, worker
<1>4. CASE ListMatching
    <2>1. /\ TakeList(nodeListOption(cur, copy.spec))
          /\ UNCHANGED <<node, cur, copy>>
          /\ pc' = "label"
        BY <1>4 DEF ListMatching, Goto, server
    <2> QED BY <2>1, ListTaken DEF Listing
<1>5. CASE ListPool \/ ListLabelled
    <2>1. TakeList(Pool(cur)) /\ UNCHANGED <<node, cur, copy>> /\ pc' \in {"topology", "unlabel"}
        BY <1>5 DEF ListPool, ListLabelled, Goto, server
    <2> QED BY <2>1, ListTaken DEF Listing
<1>6. ASSUME NEW n \in Nodes, LabelNode(n) PROVE ListedInv'
    <2>1. CASE Return("error")
        BY <2>1, NothingListed DEF Return
    <2>2. CASE ~Return("error")
        <3>1. listed' = [listed EXCEPT ![n] = Nil] /\ UNCHANGED <<pc, cur, copy, stale>> /\ pc = "label"
            BY <1>6, <2>2 DEF LabelNode, At
        <3>2. UNCHANGED node \/ \E new : PutNode(n, new)
            BY <1>6, UpdateNodeOutcomes DEF LabelNode
        <3>3. \A m \in Nodes \ {n} : node'[m] = node[m]
            BY <3>2, PutNodeChanges
        <3> QED BY <3>1, <3>3, NodeHandled DEF Listing
    <2> QED BY <2>1, <2>2
<1>7. ASSUME NEW n \in Nodes, UnlabelNode(n) PROVE ListedInv'
    <2>1. listed' = [listed EXCEPT ![n] = Nil] /\ UNCHANGED <<pc, cur, copy>> /\ stale' = stale \ {n}
          /\ pc = "unlabel"
        BY <1>7 DEF UnlabelNode, At
    <2>2. UNCHANGED node \/ \E new : PutNode(n, new)
        BY <1>7, UpdateNodeOutcomes DEF UnlabelNode
    <2>3. \A m \in Nodes \ {n} : node'[m] = node[m]
        BY <2>2, PutNodeChanges
    <2> QED BY <2>1, <2>3, NodeHandled DEF Listing
<1>8. ASSUME NEW n \in Nodes, WriteTopology(n) PROVE ListedInv'
    <2>1. CASE Return("error")
        BY <2>1, NothingListed DEF Return
    <2>2. CASE ~Return("error")
        <3>1. listed' = [listed EXCEPT ![n] = Nil] /\ UNCHANGED <<pc, cur, copy, stale, node>> /\ pc = "topology"
            BY <1>8, <2>2 DEF WriteTopology, At
        <3> QED BY <3>1, NodeHandled DEF Listing
    <2> QED BY <2>1, <2>2
<1> QED BY <1>1, <1>2, <1>3, <1>4, <1>5, <1>6, <1>7, <1>8 DEF Reconcile

LEMMA StepListed ==
    ASSUME TypeOK, NodeCacheCurrent, ListedInv, [Next]_vars
    PROVE  ListedInv'
<1>1. CASE Reconcile
    BY <1>1, PassListed
<1>2. ASSUME NEW c \in Configs, Take(c) PROVE ListedInv'
    <2>1. listed = Nobody /\ UNCHANGED listed
        BY <1>2 DEF Take, At, worker, ListedInv, ListedInPass, Listing
    <2> QED BY <2>1, NothingListed
<1>3. ASSUME NEW c \in Configs, SyncConfig(c) \/ UserCreates(c) \/ UserEdits(c) \/ UserDeletes(c)
      PROVE  ListedInv'
    <2>1. UNCHANGED <<node, pc, cur, copy, listed>> /\ \A n \in Nodes : n \in stale => n \in stale'
        BY <1>3 DEF SyncConfig, UserCreates, UserEdits, UserDeletes, ChangeConfig, server, worker
    <2> QED BY <2>1, ListedFrame
<1>4. ASSUME NEW n \in Nodes, OthersPut(n) PROVE ListedInv'
    BY <1>4, OthersPutListed
<1>5. CASE \/ \E n \in Nodes : SyncNode(n)
           \/ \E kind \in ChildKinds : SyncKind(kind)
           \/ \E id \in Ids : OthersDelete(id) \/ StatusUpdaterAllocates(id)
           \/ Resync \/ HelmChanges \/ UNCHANGED vars
    <2>1. UNCHANGED <<node, pc, cur, copy, listed, stale>>
        BY <1>5 DEF SyncNode, SyncKind, OthersDelete, StatusUpdaterAllocates, Resync, HelmChanges, server, worker, vars
    <2> QED BY <2>1, ListedFrame
<1>6. CASE Restart
    BY <1>6, NothingListed DEF Restart, Return
<1> QED BY <1>1, <1>2, <1>3, <1>4, <1>5, <1>6 DEF Next, Environment, OthersPut

LEMMA NodesInvHolds == Spec => []NodesInv
<1>1. Init => NodesInv
    BY DEF Init, NodesInv, NodeCacheCurrent, ListedCurrent, ListedInPass, ListedSelected, Nobody
<1>2. TypeOK /\ NodesInv /\ [Next]_vars => NodesInv'
    BY StepCache, StepListed DEF NodesInv, ListedInv
<1> QED BY <1>1, <1>2, TypeCorrect, PTL DEF Spec

-----------------------------------------------------------------------------
(* A pass works with a selector that its config was given: the Update that   *)
(* adds the finalizer may turn switches on, but leaves the selector alone.  *)

OfferedSelectors(c) == {s.nodeSelector : s \in Offers[c]}

CfgOffered  == \A c \in Configs : cfg[c] # Nil => cfg[c].spec.nodeSelector \in OfferedSelectors(c)
SeenOffered == \A c \in Configs : seenCfg[c] # Nil => seenCfg[c].spec.nodeSelector \in OfferedSelectors(c)
CopyOffered == pc \notin {"idle", "error"} => copy.spec.nodeSelector \in OfferedSelectors(cur)

Offered == CfgOffered /\ SeenOffered /\ CopyOffered

\* The API server's defaults do not touch the selector.
LEMMA WrittenBackSelects ==
    ASSUME NEW s \in Specs
    PROVE  WrittenBack(s).nodeSelector = s.nodeSelector
BY SpecsAssumption DEF WrittenBack

\* The copy with the finalizer keeps its selector.
LEMMA FinalizedSelects ==
    ASSUME copy \in ConfigObjects
    PROVE  [copy EXCEPT !.spec = WrittenBack(@), !.finalizer = TRUE].spec.nodeSelector = copy.spec.nodeSelector
<1>1. copy.spec \in Specs
    BY DEF ConfigObjects
<1>2. [copy EXCEPT !.spec = WrittenBack(@), !.finalizer = TRUE].spec = WrittenBack(copy.spec)
    BY DEF ConfigObjects
<1> QED BY <1>1, <1>2, WrittenBackSelects

\* The operator writes back the selector it has read.
LEMMA PassPutsCopy ==
    ASSUME TypeOK, CopyOffered, CfgOffered,
           AddFinalizer \/ ReportHelmConflict \/ RejectProfile \/ UpdateStatus \/ Release
    PROVE  CfgOffered' /\ UNCHANGED seenCfg
<1>1. cur \in Configs /\ copy \in ConfigObjects /\ copy.spec.nodeSelector \in OfferedSelectors(cur)
    BY InPass DEF AddFinalizer, ReportHelmConflict, RejectProfile, UpdateStatus, Release, At, CopyOffered
<1>2. PICK new :
        /\ \E call : \E err \in BOOLEAN : UpdateConfig(call, new, err)
        /\ \/ new = [copy EXCEPT !.spec = WrittenBack(@), !.finalizer = TRUE]
           \/ \E reason : new = [copy EXCEPT !.status.reason = reason]
           \/ \E status : new = [copy EXCEPT !.status = status]
           \/ new = Nil
    <2>1. CASE AddFinalizer \/ Release
        BY <2>1 DEF AddFinalizer, Release
    <2>2. CASE ReportHelmConflict \/ RejectProfile
        BY <2>2 DEF ReportHelmConflict, RejectProfile, WriteCondition
    <2>3. CASE UpdateStatus
        BY <2>3 DEF UpdateStatus
    <2> QED BY <2>1, <2>2, <2>3
<1>3. new = Nil \/ new.spec.nodeSelector = copy.spec.nodeSelector
    BY <1>1, <1>2, FinalizedSelects DEF ConfigObjects
<1>4. PutConfig(cur, new) \/ UNCHANGED <<cfg, seenCfg>>
    BY <1>2, UpdateOutcomes
<1> QED BY <1>1, <1>3, <1>4 DEF PutConfig, CfgOffered, TypeOK, ServerOK

LEMMA UsersOffer ==
    ASSUME TypeOK, CfgOffered, NEW c \in Configs, UserCreates(c) \/ UserEdits(c) \/ UserDeletes(c)
    PROVE  CfgOffered' /\ UNCHANGED seenCfg
<1>1. cfg \in [Configs -> ConfigObjects \cup {Nil}] /\ Offers[c] \subseteq Specs
    BY SpecsAssumption DEF TypeOK, ServerOK
<1>2. PICK new : PutConfig(c, new)
                 /\ \/ new = Nil
                    \/ \E s \in Offers[c] : new = [spec |-> s, finalizer |-> FALSE, deleting |-> FALSE, status |-> NoStatus]
                    \/ cfg[c] # Nil /\ \E s \in Offers[c] : new = [cfg[c] EXCEPT !.spec = s]
                    \/ cfg[c] # Nil /\ new = [cfg[c] EXCEPT !.deleting = TRUE]
    BY DEF UserCreates, UserEdits, UserDeletes, ChangeConfig
<1>3. cfg[c] # Nil => cfg[c] \in ConfigObjects
    BY <1>1
<1>4. new = Nil \/ new.spec.nodeSelector \in OfferedSelectors(c)
    BY <1>2, <1>3 DEF ConfigObjects, CfgOffered, OfferedSelectors
<1> QED BY <1>1, <1>2, <1>4 DEF PutConfig, CfgOffered

\* The spec of the copy is that of the cached config, and stays what it is.
LEMMA StepCopyOffered ==
    ASSUME TypeOK, SeenOffered, CopyOffered, [Next]_vars
    PROVE  CopyOffered'
<1>1. CASE \E outcome \in {"idle", "error"} : Return(outcome)
    BY <1>1 DEF Return, CopyOffered
<1>2. CASE UNCHANGED <<pc, cur, copy>>
    BY <1>2 DEF CopyOffered
<1>3. CASE CheckHelm \/ ListMatching \/ ListPool \/ ListLabelled \/ DeleteClusterScoped
    BY <1>3 DEF CheckHelm, ListMatching, ListPool, ListLabelled, DeleteClusterScoped, At, Goto, CopyOffered
<1>4. CASE AddFinalizer
    <2>1. copy \in ConfigObjects /\ copy.spec.nodeSelector \in OfferedSelectors(cur)
        BY <1>4, InPass DEF AddFinalizer, At, CopyOffered
    <2>2. CASE Return("error")
        BY <1>1, <2>2
    <2>3. CASE cur' = cur /\ copy' = [copy EXCEPT !.spec = WrittenBack(@), !.finalizer = TRUE]
        BY <2>1, <2>3, FinalizedSelects DEF CopyOffered
    <2> QED BY <1>4, <2>2, <2>3 DEF AddFinalizer
<1>5. CASE Requeue
    BY <1>5 DEF Requeue, CopyOffered
<1>6. ASSUME NEW c \in Configs, Take(c) PROVE CopyOffered'
    BY <1>2, <1>6, TakeOutcomes DEF SeenOffered, CopyOffered
<1>7. CASE Reconcile
    <2>1. CASE ReportHelmConflict \/ RejectProfile \/ ListFails \/ UpdateStatus \/ Release
        BY <1>1, <2>1 DEF ReportHelmConflict, RejectProfile, ListFails, UpdateStatus, Release
    <2>2. CASE DetectOpenShift \/ DeleteLabelled \/ \E n \in Nodes : UnlabelNode(n)
        BY <1>2, <2>2 DEF DetectOpenShift, DeleteLabelled, UnlabelNode, worker
    <2>3. CASE Apply \/ \E n \in Nodes : LabelNode(n) \/ WriteTopology(n)
        BY <1>1, <1>2, <2>3 DEF Apply, LabelNode, WriteTopology
    <2> QED BY <1>3, <1>4, <1>5, <1>7, <2>1, <2>2, <2>3 DEF Reconcile
<1>8. CASE Restart
    BY <1>1, <1>8 DEF Restart
<1>9. CASE (Environment /\ ~Restart) \/ UNCHANGED vars \/ Resync
           \/ (\E c \in Configs : SyncConfig(c)) \/ (\E n \in Nodes : SyncNode(n))
           \/ \E kind \in ChildKinds : SyncKind(kind)
    BY <1>2, <1>9
       DEF Environment, UserCreates, UserEdits, UserDeletes, ChangeConfig, NodeJoins, NodeLeaves, UserRelabels,
           ChangeNode, OthersDelete, StatusUpdaterAllocates, HelmChanges, Resync, SyncConfig, SyncNode,
           SyncKind, worker, vars
<1> QED BY <1>6, <1>7, <1>8, <1>9 DEF Next

LEMMA StepOffered ==
    ASSUME TypeOK, Offered, [Next]_vars
    PROVE  Offered'
<1>1. CopyOffered'
    BY StepCopyOffered DEF Offered
<1>2. CASE AddFinalizer \/ ReportHelmConflict \/ RejectProfile \/ UpdateStatus \/ Release
    BY <1>1, <1>2, PassPutsCopy DEF Offered, SeenOffered
<1>3. CASE \E c \in Configs : UserCreates(c) \/ UserEdits(c) \/ UserDeletes(c)
    BY <1>1, <1>3, UsersOffer DEF Offered, SeenOffered
<1>4. CASE Restart
    BY <1>1, <1>4 DEF Restart, Offered, CfgOffered, SeenOffered, server
<1>5. ASSUME NEW c \in Configs, SyncConfig(c) PROVE Offered'
    <2>1. UNCHANGED cfg /\ seenCfg' = [seenCfg EXCEPT ![c] = cfg[c]]
        BY <1>5 DEF SyncConfig, server
    <2> QED BY <1>1, <2>1 DEF Offered, CfgOffered, SeenOffered, TypeOK, CachesOK
<1>6. CASE UNCHANGED <<cfg, seenCfg>>
    BY <1>1, <1>6 DEF Offered, CfgOffered, SeenOffered
<1>7. CASE Reconcile /\ ~(AddFinalizer \/ ReportHelmConflict \/ RejectProfile \/ UpdateStatus \/ Release)
    BY <1>6, <1>7
       DEF Reconcile, CheckHelm, DetectOpenShift, Apply, ListMatching, ListPool, ListFails, DeleteLabelled,
           ListLabelled, DeleteClusterScoped, Requeue, LabelNode, WriteTopology, UnlabelNode,
           UpdateNode, PutNode, server, caches
<1>8. CASE \/ \E n \in Nodes : NodeJoins(n) \/ NodeLeaves(n) \/ UserRelabels(n) \/ SyncNode(n)
           \/ \E kind \in ChildKinds : SyncKind(kind)
           \/ \E id \in Ids : OthersDelete(id) \/ StatusUpdaterAllocates(id)
           \/ \E c \in Configs : Take(c)
           \/ Resync \/ HelmChanges \/ UNCHANGED vars
    BY <1>6, <1>8
       DEF NodeJoins, NodeLeaves, UserRelabels, ChangeNode, PutNode, SyncNode, SyncKind, OthersDelete,
           StatusUpdaterAllocates, Take, Resync, HelmChanges, server, caches, vars
<1> QED BY <1>2, <1>3, <1>4, <1>5, <1>7, <1>8 DEF Next, Environment

LEMMA OfferedHolds == Spec => []Offered
<1>1. Init => Offered
    BY DEF Init, Offered, CfgOffered, SeenOffered, CopyOffered
<1>2. TypeOK /\ Offered /\ [Next]_vars => Offered'
    BY StepOffered
<1> QED BY <1>1, <1>2, TypeCorrect, PTL DEF Spec

-----------------------------------------------------------------------------
(* Pools are kept apart. *)

\* The labels nodes come with, and the keys that configs select by.
Registered   == (NodeLabellings \cup {InitNodes[n] : n \in Nodes}) \ {Nil}
SelectorKeys == UNION {{p[1] : p \in s.nodeSelector} : s \in UNION {Offers[c] : c \in Configs}}

\* A config selects a node, by one of the specs it may be given.
Selects(c, labels) == \E s \in Offers[c] : MatchingLabels(labels, s.nodeSelector)

\* Every config selects nodes by labels of the cluster that stay what they are,
\* no node is selected by two, and none comes with the pool label of a config
\* that does not select it.
PoolsApart ==
    /\ \A c \in Configs : \A s \in Offers[c] : s.nodeSelector # {}
    /\ SelectorKeys \subseteq LabelKeys \ OperatorLabels
    /\ \A labels \in Registered : \A c, d \in Configs : Selects(c, labels) /\ Selects(d, labels) => c = d
    /\ \A labels \in Registered :
          labels[nodePoolLabel] \in Configs => Selects(labels[nodePoolLabel], labels)
    /\ \A edit \in Relabels : edit[1] \notin SelectorKeys \cup {nodePoolLabel}

Agree(labels, others) == \A k \in SelectorKeys : labels[k] = others[k]

\* Nodes are selected as they were when they came, and by the config whose pool they are in.
StillRegistered ==
    \A n \in Nodes : node[n] # Nil => \E labels \in Registered : Agree(node[n], labels)
PoolSelects ==
    \A n \in Nodes :
        node[n] # Nil /\ node[n][nodePoolLabel] \in Configs => Selects(node[n][nodePoolLabel], node[n])

PoolsInv == StillRegistered /\ PoolSelects

LEMMA AgreeSelects ==
    ASSUME NEW c \in Configs, NEW labels, NEW others, Agree(labels, others), Selects(c, others)
    PROVE  Selects(c, labels)
<1>1. PICK s \in Offers[c] : MatchingLabels(others, s.nodeSelector)
    BY DEF Selects
<1>2. ASSUME NEW p \in s.nodeSelector PROVE labels[p[1]] = p[2]
    <2>1. p[1] \in SelectorKeys
        BY DEF SelectorKeys
    <2> QED BY <1>1, <2>1 DEF Agree, MatchingLabels
<1> QED BY <1>2 DEF Selects, MatchingLabels

\* The operator writes no label that configs select by.
LEMMA OperatorWrites ==
    ASSUME PoolsApart, NEW labels, NEW c, NEW spec
    PROVE  /\ Agree(Labelled(labels, c, spec), labels) /\ Labelled(labels, c, spec)[nodePoolLabel] = c
           /\ Agree(Unlabelled(labels), labels) /\ Unlabelled(labels)[nodePoolLabel] = Nil
<1>1. DeployLabels(spec) \subseteq OperatorLabels /\ nodePoolLabel \in OperatorLabels /\ nodePoolLabel \in LabelKeys
    BY DEF DeployLabels, OperatorLabels, LabelKeys
<1>2. \A k \in SelectorKeys : k \in LabelKeys /\ k \notin OperatorLabels
    BY DEF PoolsApart
<1> QED BY <1>1, <1>2 DEF Labelled, Unlabelled, Agree

\* A node the worker writes to is as it was listed; the config selects it, or
\* it is in the config's pool.
LEMMA WrittenIsListed ==
    ASSUME TypeOK, NodesInv, Offered, PoolsApart, NEW n \in Nodes, WorkerPuts(n)
    PROVE  /\ cur \in Configs /\ node[n] = listed[n] /\ node[n] # Nil
           /\ \/ Selects(cur, node[n]) /\ PutNode(n, Labelled(node[n], cur, copy.spec))
              \/ node[n][nodePoolLabel] = cur /\ PutNode(n, Unlabelled(node[n]))
<1>1. node[n] = listed[n] /\ listed[n] # Nil
    BY DEF WorkerPuts, SameVersion, NodesInv, ListedCurrent
<1>2. pc \in {"label", "unlabel"} /\ cur \in Configs
    BY InPass DEF WorkerPuts, LabelNode, UnlabelNode, At
<1>3. CASE LabelNode(n) /\ PutNode(n, Labelled(listed[n], cur, copy.spec))
    <2>1. pc = "label" /\ copy.spec.nodeSelector \in OfferedSelectors(cur)
        BY <1>3 DEF LabelNode, At, Offered, CopyOffered
    <2>2. copy.spec.nodeSelector # {}
        BY <1>2, <2>1 DEF PoolsApart, OfferedSelectors
    <2>3. MatchingLabels(listed[n], copy.spec.nodeSelector)
        BY <1>1, <2>1, <2>2 DEF NodesInv, ListedSelected, nodeListOption
    <2> QED BY <1>1, <1>2, <1>3, <2>1, <2>3 DEF Selects, OfferedSelectors
<1>4. CASE UnlabelNode(n) /\ PutNode(n, Unlabelled(listed[n]))
    BY <1>1, <1>2, <1>4 DEF UnlabelNode, At, NodesInv, ListedSelected
<1> QED BY <1>3, <1>4 DEF WorkerPuts

\* A node that is changed in a way that keeps it selected as it was.
LEMMA NodeKeepsPools ==
    ASSUME TypeOK, PoolsInv, NEW n \in Nodes, NEW new, PutNode(n, new),
           new # Nil => /\ \E labels \in Registered : Agree(new, labels)
                        /\ new[nodePoolLabel] \in Configs => Selects(new[nodePoolLabel], new)
    PROVE  PoolsInv'
<1>1. node'[n] = new /\ \A m \in Nodes \ {n} : node'[m] = node[m]
    BY PutNodeChanges
<1>2. ASSUME NEW m \in Nodes, node'[m] # Nil
      PROVE  /\ \E labels \in Registered : Agree(node'[m], labels)
             /\ node'[m][nodePoolLabel] \in Configs => Selects(node'[m][nodePoolLabel], node'[m])
    <2>1. CASE m = n
        BY <1>1, <1>2, <2>1
    <2>2. CASE m # n
        BY <1>1, <1>2, <2>2 DEF PoolsInv, StillRegistered, PoolSelects
    <2> QED BY <2>1, <2>2
<1> QED BY <1>2 DEF PoolsInv, StillRegistered, PoolSelects

LEMMA StepPools ==
    ASSUME PoolsApart, TypeOK, NodesInv, Offered, PoolsInv, [Next]_vars
    PROVE  PoolsInv'
<1>1. ASSUME NEW n \in Nodes, WorkerPuts(n) PROVE PoolsInv'
    <2>1. PICK labels \in Registered : Agree(node[n], labels)
        BY <1>1, WrittenIsListed DEF PoolsInv, StillRegistered
    <2>2. CASE Selects(cur, node[n]) /\ PutNode(n, Labelled(node[n], cur, copy.spec))
        <3> DEFINE new == Labelled(node[n], cur, copy.spec)
        <3>1. Agree(new, node[n]) /\ new[nodePoolLabel] = cur /\ cur \in Configs
            BY <1>1, OperatorWrites, WrittenIsListed
        <3>2. Agree(new, labels) /\ Selects(cur, new)
            BY <2>1, <2>2, <3>1, AgreeSelects DEF Agree
        <3> HIDE DEF new
        <3> QED BY <2>2, <3>1, <3>2, NodeKeepsPools DEF new
    <2>3. CASE PutNode(n, Unlabelled(node[n]))
        <3> DEFINE new == Unlabelled(node[n])
        <3>1. Agree(new, node[n]) /\ new[nodePoolLabel] = Nil
            BY OperatorWrites
        <3>2. Agree(new, labels) /\ new[nodePoolLabel] \notin Configs
            BY <2>1, <3>1, NilAssumption DEF Agree
        <3> HIDE DEF new
        <3> QED BY <2>3, <3>2, NodeKeepsPools DEF new
    <2> QED BY <1>1, <2>2, <2>3, WrittenIsListed
<1>2. ASSUME NEW n \in Nodes, NodeJoins(n) PROVE PoolsInv'
    <2>1. PICK labels \in NodeLabellings : PutNode(n, labels)
        BY <1>2 DEF NodeJoins, ChangeNode
    <2>2. labels \in Registered
        BY NilAssumption, NodesAssumption DEF Registered
    <2>3. Agree(labels, labels) /\ (labels[nodePoolLabel] \in Configs => Selects(labels[nodePoolLabel], labels))
        BY <2>2 DEF Agree, PoolsApart
    <2> QED BY <2>1, <2>2, <2>3, NodeKeepsPools
<1>3. ASSUME NEW n \in Nodes, NodeLeaves(n) PROVE PoolsInv'
    BY <1>3, NodeKeepsPools DEF NodeLeaves, ChangeNode
<1>4. ASSUME NEW n \in Nodes, UserRelabels(n) PROVE PoolsInv'
    <2>1. PICK edit \in Relabels : PutNode(n, [node[n] EXCEPT ![edit[1]] = edit[2]])
        BY <1>4 DEF UserRelabels, ChangeNode
    <2> DEFINE new == [node[n] EXCEPT ![edit[1]] = edit[2]]
    <2>2. node[n] \in Labels /\ node[n] # Nil
        BY <1>4 DEF UserRelabels, TypeOK, ServerOK
    <2>3. edit[1] \notin SelectorKeys \cup {nodePoolLabel}
        BY DEF PoolsApart
    <2>4. nodePoolLabel \in LabelKeys /\ SelectorKeys \subseteq LabelKeys
        BY DEF PoolsApart, LabelKeys, OperatorLabels
    <2>5. Agree(new, node[n]) /\ new[nodePoolLabel] = node[n][nodePoolLabel]
        BY <2>2, <2>3, <2>4 DEF Agree, Labels
    <2>6. PICK labels \in Registered : Agree(node[n], labels)
        BY <2>2 DEF PoolsInv, StillRegistered
    <2>7. Agree(new, labels)
        BY <2>5, <2>6 DEF Agree
    <2>8. new[nodePoolLabel] \in Configs => Selects(new[nodePoolLabel], new)
        BY <2>2, <2>5, AgreeSelects DEF PoolsInv, PoolSelects
    <2> HIDE DEF new
    <2> QED BY <2>1, <2>6, <2>7, <2>8, NodeKeepsPools DEF new
<1>5. CASE UNCHANGED node
    BY <1>5 DEF PoolsInv, StillRegistered, PoolSelects
<1>6. CASE Restart \/ \E n \in Nodes : SyncNode(n)
    BY <1>5, <1>6 DEF Restart, SyncNode, server
<1> QED BY <1>1, <1>2, <1>3, <1>4, <1>5, <1>6, NodeSteps DEF OthersPut

LEMMA InitPools ==
    ASSUME PoolsApart, Init
    PROVE  PoolsInv
<1>1. \A n \in Nodes : node[n] # Nil => node[n] \in Registered
    BY DEF Init, Registered
<1>2. \A labels : Agree(labels, labels)
    BY DEF Agree
<1> QED BY <1>1, <1>2 DEF PoolsInv, StillRegistered, PoolSelects, PoolsApart

LEMMA PassKeepsOthersNodes ==
    ASSUME PoolsApart, TypeOK, NodesInv, Offered, PoolsInv, Reconcile
    PROVE  KeepsOthersNodes
<1> SUFFICES ASSUME NEW m \in Nodes, node[m] # Nil, node[m][nodePoolLabel] \in Configs \ {cur}
             PROVE  node'[m] = node[m]
    BY DEF KeepsOthersNodes
<1>1. CASE UNCHANGED node
    BY <1>1
<1>2. ASSUME NEW n \in Nodes, WorkerPuts(n) PROVE node'[m] = node[m]
    <2>1. CASE m # n
        BY <1>2, <2>1, PutNodeChanges DEF WorkerPuts
    <2>2. CASE m = n
        <3>1. Selects(cur, node[m]) /\ cur \in Configs
            BY <1>2, <2>2, WrittenIsListed
        <3>2. Selects(node[m][nodePoolLabel], node[m])
            BY DEF PoolsInv, PoolSelects
        <3>3. PICK labels \in Registered : Agree(node[m], labels)
            BY DEF PoolsInv, StillRegistered
        <3>4. Agree(labels, node[m])
            BY <3>3 DEF Agree
        <3>5. Selects(cur, labels) /\ Selects(node[m][nodePoolLabel], labels)
            BY <3>1, <3>2, <3>4, AgreeSelects
        <3> QED BY <3>1, <3>5 DEF PoolsApart
    <2> QED BY <2>1, <2>2
<1> QED BY <1>1, <1>2, PassNodes

\* Where no node is selected by two configs, a pass for one changes no label of
\* a node in another's pool, however old the copies and whatever the specs it
\* works for (reconcileNodeLabels and the unlabelling of handleDeletion).
THEOREM PoolsKeepApart == PoolsApart => (Spec => NodesIsolated)
<1>1. SUFFICES ASSUME PoolsApart PROVE Spec => NodesIsolated
    OBVIOUS
<1>2. Init => PoolsInv
    BY <1>1, InitPools
<1>3. TypeOK /\ NodesInv /\ Offered /\ PoolsInv /\ [Next]_vars => PoolsInv'
    BY <1>1, StepPools
<1>4. TypeOK /\ NodesInv /\ Offered /\ PoolsInv /\ [Next]_vars => [KeepsOthersNodes]_vars
    BY <1>1, PassKeepsOthersNodes DEF KeepsOthersNodes
<1> QED BY <1>2, <1>3, <1>4, TypeCorrect, NodesInvHolds, OfferedHolds, PTL DEF Spec, NodesIsolated

-----------------------------------------------------------------------------
(* No label outlives its config. *)

Clean(labels) == \A k \in OperatorLabels : labels[k] = Nil

\* Nodes come without labels of the operator, nobody else edits them, and the
\* operator's calls on them succeed with up-to-date lists.
NodesQuiet ==
    /\ \A labels \in Registered : Clean(labels)
    /\ Relabels = {}
    /\ "node" \notin Faulty
    /\ "Node" \notin Lagging

InCurPool(n) == node[n] # Nil /\ node[n][nodePoolLabel] = cur

\* handleDeletion has every node of the pool on its list, as it is, until it has
\* taken its labels off.
PoolListed ==
    /\ pc = "unlabel" => \A n \in Nodes : InCurPool(n) => listed[n] = node[n] /\ n \notin stale
    /\ pc = "release" => \A n \in Nodes : ~InCurPool(n)

LabelsInv == PosRight /\ PoolListed /\ NoLeftoverLabels

\* What may happen to a node.
LEMMA NodeChanges ==
    ASSUME NodesQuiet, TypeOK, [Next]_vars, NEW n \in Nodes
    PROVE  \/ node'[n] = node[n] \/ node'[n] = Nil \/ Clean(node'[n])
           \/ LabelNode(n) /\ node'[n][nodePoolLabel] = cur
<1>1. CASE UNCHANGED node
    BY <1>1
<1>2. ASSUME NEW m \in Nodes, m # n, WorkerPuts(m) \/ OthersPut(m) PROVE node'[n] = node[n]
    BY <1>2, OthersPutNode, PutNodeChanges DEF WorkerPuts, ChangeNode
<1>3. CASE LabelNode(n) /\ PutNode(n, Labelled(listed[n], cur, copy.spec))
    <2>1. nodePoolLabel \in LabelKeys
        BY DEF LabelKeys, OperatorLabels
    <2> QED BY <1>3, <2>1, PutNodeChanges DEF Labelled
<1>4. CASE PutNode(n, Unlabelled(listed[n]))
    <2>1. Clean(Unlabelled(listed[n]))
        BY DEF Clean, Unlabelled, LabelKeys
    <2> QED BY <1>4, <2>1, PutNodeChanges
<1>5. CASE NodeJoins(n)
    <2>1. PICK labels \in NodeLabellings : PutNode(n, labels)
        BY <1>5 DEF NodeJoins, ChangeNode
    <2>2. labels \in Registered
        BY NilAssumption, NodesAssumption DEF Registered
    <2> QED BY <2>1, <2>2, PutNodeChanges DEF NodesQuiet
<1>6. CASE NodeLeaves(n)
    BY <1>6, PutNodeChanges DEF NodeLeaves, ChangeNode
<1>7. ~UserRelabels(n)
    BY DEF UserRelabels, NodesQuiet
<1>8. CASE Restart \/ \E m \in Nodes : SyncNode(m)
    BY <1>1, <1>8 DEF Restart, SyncNode, server
<1>9. ASSUME NEW m \in Nodes, WorkerPuts(m) \/ OthersPut(m)
      PROVE  \/ node'[n] = node[n] \/ node'[n] = Nil \/ Clean(node'[n])
             \/ LabelNode(n) /\ node'[n][nodePoolLabel] = cur
    BY <1>2, <1>3, <1>4, <1>5, <1>6, <1>7, <1>9 DEF WorkerPuts, OthersPut
<1> QED BY <1>1, <1>8, <1>9, NodeSteps

\* Outside reconcileNodeLabels no node comes into the pool.
LEMMA PoolShrinks ==
    ASSUME NodesQuiet, TypeOK, [Next]_vars, pc \in CleaningUp, UNCHANGED cur, NEW n \in Nodes, InCurPool(n)'
    PROVE  InCurPool(n) /\ node'[n] = node[n]
<1>1. ~LabelNode(n)
    BY DEF LabelNode, At, CleaningUp
<1>2. ~Clean(node'[n])
    <2>1. node'[n][nodePoolLabel] # Nil
        BY NilAssumption, InPass DEF InCurPool, CleaningUp
    <2> QED BY <2>1 DEF Clean, OperatorLabels
<1> QED BY <1>1, <1>2, NodeChanges DEF InCurPool

LEMMA ListLabelledPool ==
    ASSUME NodesQuiet, TypeOK, NodesInv, [Next]_vars, ListLabelled
    PROVE  PoolListed'
<1>1. /\ pc = "delete" /\ pc' = "unlabel" /\ UNCHANGED <<node, cur>>
      /\ TakeList(Pool(cur)) /\ lag \cap Nodes = {}
    BY DEF ListLabelled, At, Fresh, Goto, NodesQuiet, server
<1>2. ASSUME NEW n \in Nodes, InCurPool(n)' PROVE listed'[n] = node'[n] /\ n \notin stale'
    <2>1. node[n] # Nil /\ node[n][nodePoolLabel] = cur /\ seenNode[n] = node[n]
        BY <1>1, <1>2 DEF InCurPool, NodesInv, NodeCacheCurrent
    <2>2. MatchingLabels(node[n], Pool(cur))
        BY <2>1 DEF MatchingLabels, Pool
    <2>3. n \notin Configs
        BY NodesAssumption
    <2> QED BY <1>1, <2>1, <2>2, <2>3 DEF TakeList, ListNodes
<1> QED BY <1>1, <1>2 DEF PoolListed

LEMMA UnlabelNodePool ==
    ASSUME NodesQuiet, TypeOK, NodesInv, PoolListed, [Next]_vars, NEW n \in Nodes, UnlabelNode(n)
    PROVE  PoolListed'
<1>1. /\ pc = "unlabel" /\ UNCHANGED <<pc, cur>> /\ cur \in Configs
      /\ listed' = [listed EXCEPT ![n] = Nil] /\ stale' = stale \ {n}
    BY InPass DEF UnlabelNode, At
<1>2. ASSUME NEW m \in Nodes, InCurPool(m)' PROVE listed'[m] = node'[m] /\ m \notin stale'
    <2>1. InCurPool(m) /\ node'[m] = node[m]
        BY <1>1, <1>2, PoolShrinks DEF CleaningUp
    <2>2. listed[m] = node[m] /\ m \notin stale
        BY <1>1, <2>1 DEF PoolListed
    <2>3. m # n
        <3>1. SUFFICES ASSUME m = n PROVE FALSE
            OBVIOUS
        <3>2. SameVersion(n)
            BY <2>2, <3>1 DEF SameVersion
        <3>3. \E err \in BOOLEAN : UpdateNode(n, Unlabelled(listed[n]), err)
            BY DEF UnlabelNode
        <3>4. PutNode(n, Unlabelled(listed[n]))
            BY <3>2, <3>3 DEF UpdateNode, MayFail, NodesQuiet
        <3>5. node'[n][nodePoolLabel] = Nil
            BY <3>4, PutNodeChanges DEF Unlabelled, LabelKeys, OperatorLabels
        <3> QED BY <1>1, <2>1, <3>1, <3>5, NilAssumption DEF InCurPool
    <2> QED BY <1>1, <2>1, <2>2, <2>3 DEF TypeOK, WorkerOK
<1> QED BY <1>1, <1>2 DEF PoolListed

\* Steps of others: a copy they make outdated is of a node that has left or come.
LEMMA ElsewherePool ==
    ASSUME NodesQuiet, TypeOK, NodesInv, PoolListed, [Next]_vars, Elsewhere, ~\E n \in Nodes : UnlabelNode(n)
    PROVE  PoolListed'
<1>1. UNCHANGED <<pc, cur>>
    BY ElsewhereFrame
<1>2. UNCHANGED listed
    BY DEF Elsewhere, SyncConfig, UserCreates, UserEdits, UserDeletes, SyncNode, NodeJoins, NodeLeaves, UserRelabels,
           ChangeConfig, ChangeNode, SyncKind, OthersDelete, StatusUpdaterAllocates, Resync, HelmChanges,
           DetectOpenShift, worker, vars
<1>3. ASSUME NEW n \in Nodes, n \in stale', n \notin stale PROVE node[n] = Nil \/ node'[n] = Nil
    <2>1. CASE \E m \in Nodes : NodeJoins(m) \/ NodeLeaves(m) \/ UserRelabels(m)
        <3>1. PICK m \in Nodes : NodeJoins(m) \/ NodeLeaves(m) \/ UserRelabels(m)
            BY <2>1
        <3>2. \/ node[m] = Nil /\ \E new : ChangeNode(m, new)
              \/ ChangeNode(m, Nil)
            BY <3>1 DEF NodeJoins, NodeLeaves, UserRelabels, NodesQuiet
        <3>3. m = n
            BY <1>3, <3>2 DEF ChangeNode
        <3> QED BY <3>2, <3>3, PutNodeChanges DEF ChangeNode
    <2>2. CASE \E c \in Configs : UserCreates(c) \/ UserEdits(c) \/ UserDeletes(c)
        <3>1. n \notin Configs
            BY NodesAssumption
        <3> QED BY <1>3, <2>2, <3>1 DEF UserCreates, UserEdits, UserDeletes, ChangeConfig
    <2>3. CASE ~(\E m \in Nodes : NodeJoins(m) \/ NodeLeaves(m) \/ UserRelabels(m))
               /\ ~(\E c \in Configs : UserCreates(c) \/ UserEdits(c) \/ UserDeletes(c))
        <3>1. UNCHANGED stale
            BY <2>3
               DEF Elsewhere, SyncConfig, SyncNode, SyncKind, OthersDelete, StatusUpdaterAllocates, Resync,
                   HelmChanges, DetectOpenShift, worker, vars
        <3> QED BY <1>3, <3>1
    <2> QED BY <2>1, <2>2, <2>3
<1>4. CASE pc \in CleaningUp
    <2>1. ASSUME NEW n \in Nodes, InCurPool(n)'
          PROVE  InCurPool(n) /\ node'[n] = node[n] /\ listed'[n] = listed[n] /\ (n \in stale' => n \in stale)
        <3>1. InCurPool(n) /\ node'[n] = node[n]
            BY <1>1, <1>4, <2>1, PoolShrinks
        <3> QED BY <1>2, <1>3, <3>1 DEF InCurPool
    <2> QED BY <1>1, <2>1 DEF PoolListed
<1>5. CASE pc \notin CleaningUp
    BY <1>1, <1>5 DEF PoolListed, CleaningUp
<1> QED BY <1>4, <1>5

LEMMA StepPoolListed ==
    ASSUME NodesQuiet, TypeOK, NodesInv, PosRight, PoolListed, [Next]_vars
    PROVE  PoolListed'
<1>1. CASE NotCleaning
    BY <1>1, NotCleaningFrame DEF PoolListed, CleaningUp
<1>2. CASE DeleteLabelled \/ \E c \in Configs : Take(c)
    <2>1. pc' \notin {"unlabel", "release"}
        BY <1>2, TakeOutcomes DEF DeleteLabelled, At, Entry
    <2> QED BY <2>1 DEF PoolListed
<1>3. CASE DeleteClusterScoped
    <2>1. pc = "unlabel" /\ pc' = "release" /\ listed = Nobody /\ UNCHANGED <<node, cur>>
        BY <1>3 DEF DeleteClusterScoped, At, Goto
    <2>2. \A n \in Nodes : ~InCurPool(n)
        BY <2>1 DEF PoolListed, InCurPool, Nobody
    <2> QED BY <2>1, <2>2 DEF PoolListed, InCurPool
<1> QED BY <1>1, <1>2, <1>3, ListLabelledPool, UnlabelNodePool, ElsewherePool, StepKinds

LEMMA StepLabels ==
    ASSUME NodesQuiet, Base, NodesInv, LabelsInv, [Next]_vars
    PROVE  NoLeftoverLabels'
<1> SUFFICES ASSUME NEW n \in Nodes, node'[n] # Nil, ~Clean(node'[n])
             PROVE  \E c \in Configs : node'[n][nodePoolLabel] = c /\ Guarded(c)'
    BY DEF NoLeftoverLabels, Clean
<1>1. CASE node'[n] = node[n]
    <2>1. PICK c \in Configs : node[n][nodePoolLabel] = c /\ Guarded(c)
        BY <1>1 DEF LabelsInv, NoLeftoverLabels, Clean
    <2>2. Guarded(c)' \/ (Release /\ c = cur)
        BY <2>1, OnlyReleaseTakes DEF Kept, Guarded
    <2>3. ~(Release /\ c = cur)
        BY <1>1, <2>1 DEF Release, At, LabelsInv, PoolListed, InCurPool
    <2> QED BY <1>1, <2>1, <2>2, <2>3
<1>2. CASE LabelNode(n) /\ node'[n][nodePoolLabel] = cur
    <2>1. pc = "label" /\ cur \in Configs /\ UNCHANGED cfg
        BY <1>2, InPass DEF Base, LabelNode, At
    <2>2. Guarded(cur)
        BY <2>1 DEF Base, FinalizerInv, PassInv, ProvisionsUnderFinalizer, Provisioning
    <2> QED BY <1>2, <2>1, <2>2 DEF Guarded
<1> QED BY <1>1, <1>2, NodeChanges DEF Base

\* Where nobody else edits nodes and the operator's calls on them succeed on
\* up-to-date lists, no label of the operator outlives its config, whatever
\* crashes, joining and leaving nodes, lag of the configs' cache and failures of
\* other calls interrupt the passes (reconcileNodeLabels, handleDeletion).
THEOREM LabelsGoWithTheirConfig == NodesQuiet => (Spec => []NoLeftoverLabels)
<1> SUFFICES ASSUME NodesQuiet
             PROVE  Spec => []NoLeftoverLabels
    OBVIOUS
<1>1. Init => LabelsInv
    <2> SUFFICES ASSUME Init PROVE LabelsInv
        OBVIOUS
    <2>1. \A n \in Nodes : node[n] # Nil => node[n] \in Registered
        BY DEF Init, Registered
    <2> QED BY <2>1 DEF Init, LabelsInv, PosRight, PoolListed, NoLeftoverLabels, NodesQuiet, Clean
<1>2. TypeOK /\ FinalizerInv /\ NamesInv /\ NodesInv /\ LabelsInv /\ [Next]_vars => LabelsInv'
    <2> SUFFICES ASSUME Base, NodesInv, LabelsInv, [Next]_vars PROVE LabelsInv'
        BY DEF Base
    <2>1. PosRight' /\ PoolListed'
        BY StepPos, StepPoolListed DEF LabelsInv, Base
    <2> QED BY <2>1, StepLabels DEF LabelsInv
<1>3. LabelsInv => NoLeftoverLabels
    BY DEF LabelsInv
<1> QED
    BY <1>1, <1>2, <1>3, TypeCorrect, FinalizerInvHolds, NamesInvHolds, NodesInvHolds, PTL DEF Spec

-----------------------------------------------------------------------------
(* What a pass may have missed comes back as an event. *)

\* A later pass for the config is certain: a change of it is on its way to the
\* cache, it is queued, or the rate limiter is about to queue it.
Owed(c) == c \in lag \/ c \in queue \/ (pc = "error" /\ cur = c)

\* Only the informers and a restart bring a cache up to date.
LEMMA LagSteps ==
    ASSUME [Next]_vars
    PROVE  \/ \A x \in lag : x \in lag'
           \/ \E c \in Configs : SyncConfig(c)
           \/ \E n \in Nodes : SyncNode(n)
           \/ Restart
<1>1. ASSUME NEW x, NEW new, PutConfig(x, new) \/ PutNode(x, new) PROVE \A y \in lag : y \in lag'
    BY <1>1 DEF PutConfig, PutNode
<1>2. CASE AddFinalizer \/ ReportHelmConflict \/ RejectProfile \/ UpdateStatus \/ Release
    <2>1. PICK new : \E call : \E err \in BOOLEAN : UpdateConfig(call, new, err)
        BY <1>2 DEF AddFinalizer, ReportHelmConflict, RejectProfile, UpdateStatus, Release, WriteCondition
    <2> QED BY <1>1, <2>1, UpdateOutcomes
<1>3. ASSUME NEW n \in Nodes, LabelNode(n) \/ UnlabelNode(n) PROVE \A y \in lag : y \in lag'
    <2>1. UNCHANGED caches \/ \E new : \E err \in BOOLEAN : UpdateNode(n, new, err)
        BY <1>3 DEF LabelNode, UnlabelNode
    <2> QED BY <1>1, <2>1, UpdateNodeOutcomes DEF caches
<1>4. CASE \/ \E c \in Configs : UserCreates(c) \/ UserEdits(c) \/ UserDeletes(c)
           \/ \E n \in Nodes : NodeJoins(n) \/ NodeLeaves(n) \/ UserRelabels(n)
    BY <1>1, <1>4 DEF UserCreates, UserEdits, UserDeletes, NodeJoins, NodeLeaves, UserRelabels, ChangeConfig,
                      ChangeNode
<1>5. CASE UNCHANGED lag
    BY <1>5
<1>6. CASE \/ CheckHelm \/ DetectOpenShift \/ Apply \/ ListMatching \/ ListPool \/ ListFails
           \/ DeleteLabelled \/ ListLabelled \/ DeleteClusterScoped \/ Requeue
           \/ \E n \in Nodes : WriteTopology(n)
    BY <1>5, <1>6
       DEF CheckHelm, DetectOpenShift, Apply, ListMatching, ListPool, ListFails, DeleteLabelled,
           ListLabelled, DeleteClusterScoped, Requeue, WriteTopology, caches
<1>7. CASE \/ \E c \in Configs : Take(c)
           \/ \E kind \in ChildKinds : SyncKind(kind)
           \/ \E id \in Ids : OthersDelete(id) \/ StatusUpdaterAllocates(id)
           \/ Resync \/ HelmChanges \/ UNCHANGED vars
    BY <1>5, <1>7 DEF Take, SyncKind, OthersDelete, StatusUpdaterAllocates, Resync, HelmChanges, caches, vars
<1> QED BY <1>2, <1>3, <1>4, <1>6, <1>7 DEF Next, Reconcile, Environment

\* Only the worker takes a config from the queue.
LEMMA QueueSteps ==
    ASSUME [Next]_vars
    PROVE  \/ \A c \in queue : c \in queue'
           \/ \E c \in Configs : Take(c) /\ queue' = queue \ {c}
           \/ Restart
<1>1. CASE Reconcile
    BY <1>1
       DEF Reconcile, AddFinalizer, CheckHelm, ReportHelmConflict, RejectProfile, DetectOpenShift, Apply,
           ListMatching, ListPool, ListFails, UpdateStatus, DeleteLabelled, ListLabelled,
           DeleteClusterScoped, Release, Requeue, LabelNode, WriteTopology, UnlabelNode
<1>2. CASE Environment
    BY <1>2
       DEF Environment, UserCreates, UserEdits, UserDeletes, NodeJoins, NodeLeaves, UserRelabels,
           ChangeConfig, ChangeNode, OthersDelete, StatusUpdaterAllocates, HelmChanges
<1>3. CASE \/ \E c \in Configs : Take(c) \/ SyncConfig(c)
           \/ \E n \in Nodes : SyncNode(n)
           \/ \E kind \in ChildKinds : SyncKind(kind)
           \/ Resync \/ UNCHANGED vars
    BY <1>3 DEF Take, SyncConfig, SyncNode, SyncKind, Resync, vars
<1> QED BY <1>1, <1>2, <1>3 DEF Next

\* A pass that is owed is taken, or there is no config any more.
LEMMA OwedKept ==
    ASSUME TypeOK, [Next]_vars, NEW c \in Configs, Owed(c), ~Take(c), ~(Restart /\ cfg[c] = Nil)
    PROVE  Owed(c)'
<1>1. CASE Restart
    BY <1>1 DEF Restart, Owed, server
<1>2. CASE ~Restart /\ c \in lag
    <2>1. CASE \E d \in Configs : SyncConfig(d)
        BY <1>2, <2>1 DEF SyncConfig, Owed
    <2>2. CASE \E n \in Nodes : SyncNode(n)
        BY <1>2, <2>2, NodesAssumption DEF SyncNode, Owed
    <2> QED BY <1>2, <2>1, <2>2, LagSteps DEF Owed
<1>3. CASE ~Restart /\ c \in queue
    BY <1>3, QueueSteps DEF Owed
<1>4. CASE ~Restart /\ pc = "error" /\ cur = c
    <2>1. CASE Requeue
        BY <1>4, <2>1 DEF Requeue, Owed
    <2>2. CASE ~Requeue
        <3>1. ~(Reconcile \/ \E d \in Configs : Take(d))
            BY <1>4, <2>2
               DEF Reconcile, AddFinalizer, CheckHelm, ReportHelmConflict, RejectProfile, DetectOpenShift,
                   Apply, ListMatching, ListPool, ListFails, UpdateStatus, DeleteLabelled, ListLabelled,
                   DeleteClusterScoped, Release, LabelNode, WriteTopology, UnlabelNode, Take, At
        <3>2. Elsewhere
            BY <1>4, <3>1 DEF Next, Environment, Elsewhere
        <3> QED BY <1>4, <3>2, ElsewhereFrame DEF Owed
    <2> QED BY <2>1, <2>2
<1> QED BY <1>1, <1>2, <1>3, <1>4 DEF Owed

\* A user's edit makes a new version of the config.
LEMMA UsersChange ==
    ASSUME TypeOK, NEW c \in Configs, UserCreates(c) \/ UserEdits(c) \/ UserDeletes(c)
    PROVE  \E new : new # cfg[c] /\ ChangeConfig(c, new)
<1>1. cfg[c] \in ConfigObjects \cup {Nil}
    BY DEF TypeOK, ServerOK
<1>2. CASE UserCreates(c)
    <2>1. PICK s \in Offers[c] :
              ChangeConfig(c, [spec |-> s, finalizer |-> FALSE, deleting |-> FALSE, status |-> NoStatus])
        BY <1>2 DEF UserCreates
    <2>2. [spec |-> s, finalizer |-> FALSE, deleting |-> FALSE, status |-> NoStatus] # Nil
        <3>1. s \in Specs
            BY SpecsAssumption
        <3>2. NoStatus \in Statuses
            BY DEF NoStatus, Statuses, Reasons
        <3>3. [spec |-> s, finalizer |-> FALSE, deleting |-> FALSE, status |-> NoStatus] \in ConfigObjects
            BY <3>1, <3>2 DEF ConfigObjects
        <3> QED BY <3>3, NilAssumption
    <2> QED BY <1>2, <2>1, <2>2 DEF UserCreates
<1>3. CASE UserEdits(c)
    <2>1. PICK s \in Offers[c] \ {cfg[c].spec} : ChangeConfig(c, [cfg[c] EXCEPT !.spec = s])
        BY <1>3 DEF UserEdits
    <2>2. cfg[c] \in ConfigObjects
        BY <1>1, <1>3 DEF UserEdits
    <2>3. [cfg[c] EXCEPT !.spec = s] # cfg[c]
        BY <2>2 DEF ConfigObjects
    <2> QED BY <2>1, <2>3
<1>4. CASE UserDeletes(c)
    <2>1. cfg[c] \in ConfigObjects /\ ~cfg[c].deleting /\ cfg[c] # Nil
        BY <1>1, <1>4 DEF UserDeletes
    <2>2. ChangeConfig(c, [cfg[c] EXCEPT !.deleting = TRUE]) \/ ChangeConfig(c, Nil)
        BY <1>4 DEF UserDeletes
    <2>3. [cfg[c] EXCEPT !.deleting = TRUE] # cfg[c]
        BY <2>1 DEF ConfigObjects
    <2> QED BY <2>1, <2>2, <2>3
<1> QED BY <1>2, <1>3, <1>4

\* Every change of a config is on its way to the cache.
LEMMA ConfigSteps ==
    ASSUME TypeOK, [Next]_vars, NEW c \in Configs
    PROVE  cfg'[c] = cfg[c] \/ c \in lag'
<1>1. ASSUME NEW d \in Configs, NEW new, PutConfig(d, new) PROVE cfg'[c] = cfg[c] \/ c \in lag'
    BY <1>1 DEF PutConfig, TypeOK, ServerOK
<1>2. CASE AddFinalizer \/ ReportHelmConflict \/ RejectProfile \/ UpdateStatus \/ Release
    <2>1. PICK new : \E call : \E err \in BOOLEAN : UpdateConfig(call, new, err)
        BY <1>2 DEF AddFinalizer, ReportHelmConflict, RejectProfile, UpdateStatus, Release, WriteCondition
    <2>2. cur \in Configs
        BY <1>2, InPass DEF AddFinalizer, ReportHelmConflict, RejectProfile, UpdateStatus, Release, At
    <2>3. PutConfig(cur, new) \/ UNCHANGED cfg
        BY <2>1, UpdateOutcomes
    <2> QED BY <1>1, <2>2, <2>3
<1>3. CASE \E d \in Configs : UserCreates(d) \/ UserEdits(d) \/ UserDeletes(d)
    BY <1>1, <1>3, UsersChange DEF ChangeConfig
<1>4. CASE UNCHANGED cfg
    BY <1>4
<1> QED
    BY <1>2, <1>3, <1>4
       DEF Next, Reconcile, CheckHelm, DetectOpenShift, Apply, ListMatching, ListPool, ListFails,
           DeleteLabelled, ListLabelled, DeleteClusterScoped, Requeue, LabelNode, WriteTopology,
           UnlabelNode, Take, SyncConfig, SyncNode, SyncKind, Resync, Environment, NodeJoins, NodeLeaves,
           UserRelabels, ChangeNode, PutNode, OthersDelete, StatusUpdaterAllocates, HelmChanges,
           Restart, server, vars
\* The nodes that the List of a spec returns.
Chosen(labels, c, s) == labels # Nil /\ MatchingLabels(labels, nodeListOption(c, s))

\* The nodes go by the selector alone.
LEMMA ChosenBySelector ==
    ASSUME NEW labels, NEW c, NEW s, NEW t, s.nodeSelector = t.nodeSelector
    PROVE  Chosen(labels, c, s) <=> Chosen(labels, c, t)
BY DEF Chosen, nodeListOption

\* Selectors ask for labels that are there.
SelectorsFilled == \A c \in Configs : \A s \in Offers[c] : \A p \in s.nodeSelector : p[2] # Nil

\* The node watch reaches the configs: it compares what selectors can ask for,
\* and its List of the configs does not fail (nodeToFakeGPUConfig drops the event
\* of the node when it does, and no retry brings it back).
WatchReaches == SelectorsFilled /\ "watch" \notin Faulty

\* The node watch enqueues a config for the nodes that its List returns.
LEMMA Watched ==
    ASSUME WatchReaches, NEW c \in Configs, seenCfg[c] # Nil,
           seenCfg[c].spec.nodeSelector \in OfferedSelectors(c),
           NEW labels, Chosen(labels, c, seenCfg[c].spec)
    PROVE  c \in nodeToFakeGPUConfig(labels, FALSE)
<1> DEFINE s == seenCfg[c].spec
<1>1. CASE s.nodeSelector = {}
    <2>1. labels[nodePoolLabel] = c
        BY <1>1 DEF Chosen, nodeListOption, MatchingLabels
    <2>2. GoLookup(labels, nodePoolLabel) = c
        BY <2>1, NilAssumption DEF GoLookup
    <2> QED BY <1>1, <2>2 DEF nodeToFakeGPUConfig, nodeMatchesCfg, Chosen
<1>2. CASE s.nodeSelector # {}
    <2>1. \A p \in s.nodeSelector : labels[p[1]] = p[2] /\ p[2] # Nil
        BY <1>2 DEF Chosen, nodeListOption, MatchingLabels, WatchReaches, SelectorsFilled, OfferedSelectors
    <2>2. \A p \in s.nodeSelector : GoLookup(labels, p[1]) = p[2]
        BY <2>1 DEF GoLookup
    <2> QED BY <1>2, <2>2 DEF nodeToFakeGPUConfig, nodeMatchesCfg, Chosen
<1> QED BY <1>1, <1>2

\* A working copy of the config that is outdated is about to be replaced.
StaleOwed == pc \notin {"idle", "error"} /\ cur \in stale => cur \in lag \cup queue

\* A listed copy that is not outdated is in the cache as well.
ListedFresh == \A n \in Nodes : listed[n] # Nil /\ n \notin stale => n \notin lag

\* A node's copy is still in the cache where it is to be labelled from.
ListedSeen == pc = "label" => \A n \in Nodes : listed[n] # Nil => seenNode[n] = listed[n] \/ Owed(cur)

CopiesInv == StaleOwed /\ ListedFresh /\ ListedSeen

\* How a step deals with the listed copies: a pass ends or has none, lists
\* nodes, or handles one.
CopyHandled(n) ==
    /\ listed[n] # Nil
    /\ listed' = [listed EXCEPT ![n] = Nil]
    /\ UNCHANGED <<pc, cur, copy>>
    /\ stale' \in {stale, stale \ {n}}
    /\ UNCHANGED <<node, lag>> \/ \E new : PutNode(n, new)

CopiesKept ==
    /\ Elsewhere
    /\ UNCHANGED <<pc, cur, listed>>
    /\ \A n \in Nodes : n \in stale => n \in stale'

LEMMA CopySteps ==
    ASSUME TypeOK, ListedInPass, [Next]_vars
    PROVE  \/ listed' = Nobody
           \/ (ListMatching \/ ListPool \/ ListLabelled) /\ \E selector : TakeList(selector)
           \/ \E n \in Nodes : CopyHandled(n)
           \/ CopiesKept
<1>1. CASE \/ AddFinalizer \/ CheckHelm \/ Apply \/ Requeue \/ DeleteClusterScoped \/ DeleteLabelled
           \/ \E c \in Configs : Take(c)
    <2>1. listed = Nobody \/ listed' = Nobody
        BY <1>1 DEF AddFinalizer, CheckHelm, Apply, Requeue, DeleteClusterScoped, DeleteLabelled, Take, At,
                    ListedInPass, Listing
    <2>2. UNCHANGED listed \/ listed' = Nobody
        BY <1>1 DEF AddFinalizer, CheckHelm, Apply, Requeue, DeleteClusterScoped, DeleteLabelled, Take, Return,
                    worker
    <2> QED BY <2>1, <2>2
<1>2. CASE ReportHelmConflict \/ RejectProfile \/ ListFails \/ UpdateStatus \/ Release \/ Restart
    BY <1>2 DEF ReportHelmConflict, RejectProfile, ListFails, UpdateStatus, Release, Restart, Return
<1>3. CASE ListMatching \/ ListPool \/ ListLabelled
    BY <1>3 DEF ListMatching, ListPool, ListLabelled
<1>4. ASSUME NEW n \in Nodes, LabelNode(n) \/ WriteTopology(n) \/ UnlabelNode(n)
      PROVE  listed' = Nobody \/ CopyHandled(n)
    <2>1. CASE LabelNode(n)
        <3>1. UNCHANGED <<node, caches>> \/ \E new : \E err \in BOOLEAN : UpdateNode(n, new, err)
            BY <2>1 DEF LabelNode
        <3>2. UNCHANGED <<node, lag>> \/ \E new : PutNode(n, new)
            BY <3>1, UpdateNodeOutcomes DEF caches
        <3> QED BY <2>1, <3>2 DEF LabelNode, Return, CopyHandled
    <2>2. CASE WriteTopology(n)
        BY <2>2 DEF WriteTopology, Return, CopyHandled, caches
    <2>3. CASE UnlabelNode(n)
        <3>1. \E new : \E err \in BOOLEAN : UpdateNode(n, new, err)
            BY <2>3 DEF UnlabelNode
        <3>2. UNCHANGED <<node, lag>> \/ \E new : PutNode(n, new)
            BY <3>1, UpdateNodeOutcomes DEF caches
        <3> QED BY <2>3, <3>2 DEF UnlabelNode, CopyHandled
    <2> QED BY <1>4, <2>1, <2>2, <2>3
<1>5. CASE Elsewhere /\ ~\E n \in Nodes : UnlabelNode(n)
    <2>1. UNCHANGED listed /\ \A n \in Nodes : n \in stale => n \in stale'
        BY <1>5
           DEF Elsewhere, SyncConfig, UserCreates, UserEdits, UserDeletes, SyncNode, NodeJoins, NodeLeaves,
               UserRelabels, ChangeConfig, ChangeNode, SyncKind, OthersDelete, StatusUpdaterAllocates, Resync,
               HelmChanges, DetectOpenShift, worker, vars
    <2> QED BY <1>5, <2>1, ElsewhereFrame DEF CopiesKept
<1> QED BY <1>1, <1>2, <1>3, <1>4, <1>5, StepKinds DEF NotCleaning
\* A pass goes on with its config, and its copy becomes outdated by an edit only.
LEMMA CurSteps ==
    ASSUME TypeOK, [Next]_vars, pc' \notin {"idle", "error"}, ~\E c \in Configs : Take(c)
    PROVE  /\ pc \notin {"idle", "error"} /\ cur' = cur
           /\ cur \in stale' => cur \in stale \/ cur \in lag'
<1>1. CASE ListMatching \/ ListPool \/ ListLabelled
    <2>1. pc \in {"apply", "label", "delete"} /\ UNCHANGED cur /\ \E selector : TakeList(selector)
        BY <1>1 DEF ListMatching, ListPool, ListLabelled, At, Goto
    <2>2. cur \in Configs /\ cur \notin Nodes
        BY <2>1, InPass, NodesAssumption
    <2> QED BY <2>1, <2>2 DEF TakeList
<1>2. CASE AddFinalizer \/ CheckHelm \/ Apply \/ \E n \in Nodes : LabelNode(n) \/ WriteTopology(n)
    BY <1>2 DEF AddFinalizer, CheckHelm, Apply, LabelNode, WriteTopology, At, Return, Goto
<1>3. CASE ReportHelmConflict \/ RejectProfile \/ ListFails \/ UpdateStatus \/ Release \/ Requeue \/ Restart
    BY <1>3 DEF ReportHelmConflict, RejectProfile, ListFails, UpdateStatus, Release, Requeue, Restart, Return
<1>4. CASE DeleteLabelled \/ DeleteClusterScoped
    BY <1>4 DEF DeleteLabelled, DeleteClusterScoped, At, Goto
<1>5. CASE Elsewhere
    <2>1. UNCHANGED <<pc, cur>>
        BY <1>5, ElsewhereFrame
    <2>2. cur \in Configs /\ cur \notin Nodes
        BY <2>1, InPass, NodesAssumption
    <2>3. CASE \E c \in Configs : UserCreates(c) \/ UserEdits(c) \/ UserDeletes(c)
        <3>1. PICK c \in Configs : \E new : new # cfg[c] /\ ChangeConfig(c, new)
            BY <2>3, UsersChange
        <3> QED BY <2>1, <3>1 DEF ChangeConfig, PutConfig
    <2>4. CASE \E n \in Nodes : NodeJoins(n) \/ NodeLeaves(n) \/ UserRelabels(n) \/ UnlabelNode(n)
        BY <2>1, <2>2, <2>4 DEF NodeJoins, NodeLeaves, UserRelabels, UnlabelNode, ChangeNode
    <2>5. CASE UNCHANGED stale
        BY <2>1, <2>5
    <2> QED BY <1>5, <2>3, <2>4, <2>5
           DEF Elsewhere, SyncConfig, SyncNode, SyncKind, OthersDelete, StatusUpdaterAllocates, Resync,
               HelmChanges, DetectOpenShift, worker, vars
<1> QED BY <1>1, <1>2, <1>3, <1>4, <1>5, StepKinds DEF NotCleaning

LEMMA StepStaleOwed ==
    ASSUME TypeOK, StaleOwed, [Next]_vars
    PROVE  StaleOwed'
<1> SUFFICES ASSUME pc' \notin {"idle", "error"}, cur' \in stale'
             PROVE  cur' \in lag' \cup queue'
    BY DEF StaleOwed
<1>1. ASSUME NEW c \in Configs, Take(c) PROVE cur' \in lag' \cup queue'
    <2>1. cur' = c /\ stale' = lag \cap {c} /\ UNCHANGED lag
        BY <1>1, TakeOutcomes
    <2> QED BY <2>1
<1>2. CASE ~\E c \in Configs : Take(c)
    <2>1. pc \notin {"idle", "error"} /\ cur' = cur /\ (cur \in stale \/ cur \in lag')
        BY <1>2, CurSteps
    <2>2. cur \in Configs
        BY <2>1, InPass
    <2>3. CASE cur \in stale
        <3>1. Owed(cur)
            BY <2>1, <2>3 DEF StaleOwed, Owed
        <3>2. ~Restart
            BY DEF Restart, Return
        <3>3. Owed(cur)'
            BY <1>2, <2>1, <2>2, <3>1, <3>2, OwedKept
        <3> QED BY <2>1, <3>3 DEF Owed
    <2> QED BY <2>1, <2>3
<1> QED BY <1>1, <1>2

LEMMA StepListedFresh ==
    ASSUME TypeOK, NodesInv, ListedFresh, [Next]_vars
    PROVE  ListedFresh'
<1>1. CASE listed' = Nobody
    BY <1>1 DEF ListedFresh, Nobody
<1>2. ASSUME ListMatching \/ ListPool \/ ListLabelled, NEW selector, TakeList(selector) PROVE ListedFresh'
    <2>1. UNCHANGED lag
        BY <1>2 DEF ListMatching, ListPool, ListLabelled, caches
    <2> QED BY <1>2, <2>1 DEF TakeList, ListedFresh
<1>3. ASSUME NEW n \in Nodes, CopyHandled(n) PROVE ListedFresh'
    <2>1. listed'[n] = Nil /\ \A m \in Nodes \ {n} : listed'[m] = listed[m]
        BY <1>3 DEF CopyHandled, TypeOK, WorkerOK
    <2>2. \A m \in Nodes \ {n} : m \in lag' => m \in lag
        BY <1>3 DEF CopyHandled, PutNode
    <2>3. \A m \in Nodes \ {n} : m \in stale => m \in stale'
        BY <1>3 DEF CopyHandled
    <2> QED BY <2>1, <2>2, <2>3 DEF ListedFresh
<1>4. CASE CopiesKept
    <2> SUFFICES ASSUME NEW n \in Nodes, listed[n] # Nil, n \notin stale' PROVE n \notin lag'
        BY <1>4 DEF CopiesKept, ListedFresh
    <2>1. n \notin lag
        BY <1>4 DEF CopiesKept, ListedFresh
    <2>2. CASE SameNodeLag
        BY <2>1, <2>2 DEF SameNodeLag
    <2>3. ASSUME NEW m \in Nodes, WorkerPuts(m) PROVE FALSE
        <3>1. listed'[m] = Nil \/ Return("error")
            BY <2>3 DEF WorkerPuts, LabelNode, UnlabelNode, TypeOK, WorkerOK
        <3>2. pc \in {"label", "unlabel"}
            BY <2>3 DEF WorkerPuts, LabelNode, UnlabelNode, At
        <3> QED BY <1>4, <2>3, <3>1, <3>2 DEF WorkerPuts, CopiesKept, Return
    <2>4. ASSUME NEW m \in Nodes, OthersPut(m) PROVE n \notin lag'
        <3>1. PICK new : ChangeNode(m, new)
            BY <2>4, OthersPutNode
        <3>2. m # n
            BY <3>1 DEF ChangeNode
        <3> QED BY <2>1, <3>1, <3>2 DEF ChangeNode, PutNode
    <2>5. CASE Restart \/ \E m \in Nodes : SyncNode(m)
        BY <2>1, <2>5 DEF Restart, SyncNode
    <2> QED BY <2>2, <2>3, <2>4, <2>5, NodeSteps
<1> QED BY <1>1, <1>2, <1>3, <1>4, CopySteps DEF NodesInv

\* The cached copy of a node changes by its event and by a restart.
LEMMA SeenSteps ==
    ASSUME TypeOK, [Next]_vars, NEW n \in Nodes
    PROVE  seenNode'[n] = seenNode[n] \/ SyncNode(n) \/ Restart
<1>1. ASSUME NEW m \in Nodes, WorkerPuts(m) \/ OthersPut(m) PROVE UNCHANGED seenNode
    BY <1>1, OthersPutNode, PutNodeChanges DEF WorkerPuts, ChangeNode
<1>2. ASSUME NEW m \in Nodes, SyncNode(m) PROVE seenNode'[n] = seenNode[n] \/ SyncNode(n)
    BY <1>2 DEF SyncNode, TypeOK, CachesOK
<1> QED BY <1>1, <1>2, NodeSteps

\* An event of a node that a config's List returns, before or after, is not lost.
LEMMA EventReaches ==
    ASSUME WatchReaches, TypeOK, FinalizerInv, Offered, NEW n \in Nodes, SyncNode(n), NEW c \in Configs,
           cfg[c] # Nil,
           Chosen(seenNode[n], c, cfg[c].spec) \/ Chosen(node[n], c, cfg[c].spec)
    PROVE  Owed(c)'
<1>1. CASE c \in lag
    BY <1>1, NodesAssumption DEF SyncNode, Owed
<1>2. CASE c \notin lag
    <2>1. seenCfg[c] = cfg[c]
        BY <1>2 DEF FinalizerInv, CachesInv, CacheCurrent
    <2>2. seenCfg[c].spec.nodeSelector \in OfferedSelectors(c)
        BY <2>1 DEF Offered, CfgOffered
    <2>3. c \in nodeToFakeGPUConfig(seenNode[n], FALSE) \cup nodeToFakeGPUConfig(node[n], FALSE)
        BY <2>1, <2>2, Watched
    <2>4. queue' = queue \cup nodeToFakeGPUConfig(seenNode[n], FALSE) \cup nodeToFakeGPUConfig(node[n], FALSE)
        BY DEF SyncNode, MayFail, WatchReaches
    <2> QED BY <2>3, <2>4 DEF Owed
<1> QED BY <1>1, <1>2

\* While it is not owed another pass, a pass works on its config as it is.
LEMMA CopyRight ==
    ASSUME TypeOK, FinalizerInv, StaleOwed, pc \notin {"idle", "error"}, ~Owed(cur)
    PROVE  cfg[cur] = copy
BY DEF StaleOwed, Owed, FinalizerInv, PassInv, CopyCurrent

LEMMA StepListedSeen ==
    ASSUME WatchReaches, TypeOK, FinalizerInv, NodesInv, Offered, CopiesInv, [Next]_vars
    PROVE  ListedSeen'
<1> SUFFICES ASSUME pc' = "label", NEW n \in Nodes, listed'[n] # Nil
             PROVE  seenNode'[n] = listed'[n] \/ Owed(cur)'
    BY DEF ListedSeen
<1>1. ASSUME ListMatching \/ ListPool \/ ListLabelled, NEW selector, TakeList(selector)
      PROVE  seenNode'[n] = listed'[n]
    <2>1. UNCHANGED seenNode
        BY <1>1 DEF ListMatching, ListPool, ListLabelled, caches
    <2> QED BY <1>1, <2>1 DEF TakeList, ListNodes
<1>2. CASE CopiesKept \/ \E m \in Nodes : CopyHandled(m)
    <2>1. pc = "label" /\ UNCHANGED <<cur, copy>> /\ listed'[n] = listed[n] /\ cur \in Configs
        <3>1. UNCHANGED <<pc, cur>> /\ listed'[n] = listed[n]
            BY <1>2 DEF CopiesKept, CopyHandled, TypeOK, WorkerOK
        <3>2. CopiesKept => UNCHANGED copy
            BY DEF CopiesKept, Elsewhere, SyncConfig, UserCreates, UserEdits, UserDeletes, SyncNode, NodeJoins,
                   NodeLeaves, UserRelabels, UnlabelNode, ChangeConfig, ChangeNode, SyncKind, OthersDelete,
                   StatusUpdaterAllocates, Resync, HelmChanges, DetectOpenShift, worker, vars
        <3> QED BY <1>2, <3>1, <3>2, InPass DEF CopyHandled
    <2>2. ~Restart /\ ~Take(cur)
        BY <2>1 DEF Restart, Return, Take, At
    <2>3. CASE Owed(cur)
        BY <2>1, <2>2, <2>3, OwedKept
    <2>4. CASE ~Owed(cur) /\ SyncNode(n)
        <3>1. seenNode[n] = listed[n]
            BY <2>1, <2>4 DEF CopiesInv, ListedSeen
        <3>2. Chosen(seenNode[n], cur, copy.spec)
            BY <2>1, <3>1 DEF NodesInv, ListedSelected, Chosen
        <3>3. cfg[cur] = copy /\ cfg[cur] # Nil
            BY <2>1, <2>4, CopyRight, InPass, NilAssumption DEF CopiesInv
        <3> QED BY <2>1, <2>4, <3>2, <3>3, EventReaches
    <2>5. CASE ~Owed(cur) /\ ~SyncNode(n)
        <3>1. seenNode[n] = listed[n]
            BY <2>1, <2>5 DEF CopiesInv, ListedSeen
        <3>2. seenNode'[n] = seenNode[n]
            BY <2>2, <2>5, SeenSteps
        <3> QED BY <2>1, <3>1, <3>2
    <2> QED BY <2>3, <2>4, <2>5
<1> QED BY <1>1, <1>2, CopySteps DEF Nobody, NodesInv

LEMMA CopiesInvHolds == WatchReaches => (Spec => []CopiesInv)
<1> SUFFICES ASSUME WatchReaches
             PROVE  Spec => []CopiesInv
    OBVIOUS
<1>1. Init => CopiesInv
    BY DEF Init, CopiesInv, StaleOwed, ListedFresh, ListedSeen, Nobody
<1>2. TypeOK /\ FinalizerInv /\ NodesInv /\ Offered /\ CopiesInv /\ [Next]_vars => CopiesInv'
    BY StepStaleOwed, StepListedFresh, StepListedSeen DEF CopiesInv
<1> QED
    BY <1>1, <1>2, TypeCorrect, FinalizerInvHolds, NodesInvHolds, OfferedHolds, PTL DEF Spec

-----------------------------------------------------------------------------
(* A node in the pool has been noticed. *)

\* The pool label of a config, on a copy of a node.
InPool(labels, c) == labels # Nil /\ labels[nodePoolLabel] = c

\* Every config selects by the pool label; each selects by one and the same selector.
ByHand      == \A c \in Configs : \A s \in Offers[c] : s.nodeSelector = {}
OneSelector == \A c \in Configs : \A s, t \in Offers[c] : s.nodeSelector = t.nodeSelector

\* Where configs have selectors, only the operator sets the pool label, and it
\* sees the nodes as they are or selects by a selector that does not change.
PoolsOurs ==
    \/ ByHand
    \/ /\ \A labels \in Registered : labels[nodePoolLabel] \notin Configs
       /\ \A edit \in Relabels : edit[1] = nodePoolLabel => edit[2] \notin Configs
       /\ OneSelector \/ "Node" \notin Lagging

\* The event of a node enqueues the config, or another pass comes anyway.
Noticed(n, c) ==
    \/ \A s \in Offers[c] : Chosen(seenNode[n], c, s)
    \/ /\ "Node" \notin Lagging
       /\ cfg[c] = Nil \/ Owed(c) \/ Chosen(seenNode[n], c, cfg[c].spec)

\* A config is told of the nodes that enter its pool.
PoolNoticed ==
    ByHand \/ \A c \in Configs : \A n \in Nodes :
                  InPool(node[n], c) /\ ~InPool(seenNode[n], c) => Noticed(n, c)

\* Steps that leave the cached copy of a node as it is.
LEMMA NoticedKept ==
    ASSUME TypeOK, NodesInv, [Next]_vars, ~Restart, NEW c \in Configs, NEW n \in Nodes,
           InPool(node[n], c), ~InPool(seenNode[n], c), Noticed(n, c), seenNode'[n] = seenNode[n]
    PROVE  Noticed(n, c)'
<1>1. CASE \A s \in Offers[c] : Chosen(seenNode[n], c, s)
    BY <1>1 DEF Noticed, Chosen
<1>2. CASE "Node" \notin Lagging /\ (cfg[c] = Nil \/ Owed(c) \/ Chosen(seenNode[n], c, cfg[c].spec))
    <2>1. CASE Owed(c)
        <3>1. ~Take(c)
            <4>1. seenNode[n] # node[n]
                OBVIOUS
            <4>2. n \in lag
                BY <4>1 DEF NodesInv, NodeCacheCurrent
            <4> QED BY <1>2, <4>2 DEF Take, At, Fresh
        <3>2. Owed(c)'
            BY <2>1, <3>1, OwedKept
        <3> QED BY <1>2, <3>2 DEF Noticed
    <2>2. CASE cfg'[c] = cfg[c] /\ ~Owed(c)
        BY <1>2, <2>2 DEF Noticed, Chosen
    <2>3. CASE c \in lag'
        BY <1>2, <2>3 DEF Noticed, Owed
    <2> QED BY <2>1, <2>2, <2>3, ConfigSteps
<1> QED BY <1>1, <1>2 DEF Noticed

\* The worker labels nodes that it has been listed, and is told of.
LEMMA LabelNoticed ==
    ASSUME PoolsOurs, ~ByHand, TypeOK, FinalizerInv, NodesInv, Offered, CopiesInv, [Next]_vars,
           NEW n \in Nodes, WorkerPuts(n), NEW c \in Configs, InPool(node'[n], c)
    PROVE  Noticed(n, c)'
<1>1. /\ cur \in Configs /\ pc \in {"label", "unlabel"} /\ n \notin stale /\ listed[n] # Nil
      /\ UNCHANGED <<cfg, seenNode>> /\ ~Restart /\ ~Take(cur)
    <2>1. pc \in {"label", "unlabel"} /\ n \notin stale /\ listed[n] # Nil /\ UNCHANGED <<cfg, seenNode>>
        BY DEF WorkerPuts, SameVersion, LabelNode, UnlabelNode, At, PutNode
    <2>2. ~Restart
        BY <2>1 DEF WorkerPuts, LabelNode, UnlabelNode, Restart, Spend, UpdateNode, MayFail, Return
    <2> QED BY <2>1, <2>2, InPass DEF Take, At
<1>2. seenNode[n] = listed[n]
    <2>1. n \notin lag
        BY <1>1 DEF CopiesInv, ListedFresh
    <2> QED BY <1>1, <2>1 DEF NodesInv, NodeCacheCurrent, ListedCurrent
<1>3. CASE UnlabelNode(n) /\ PutNode(n, Unlabelled(listed[n]))
    <2>1. node'[n][nodePoolLabel] = Nil
        BY <1>3, PutNodeChanges DEF Unlabelled, LabelKeys, OperatorLabels
    <2> QED BY <2>1, NilAssumption DEF InPool
<1>4. CASE LabelNode(n) /\ PutNode(n, Labelled(listed[n], cur, copy.spec))
    <2>1. c = cur
        <3>1. node'[n][nodePoolLabel] = cur
            BY <1>4, PutNodeChanges DEF Labelled, LabelKeys, OperatorLabels
        <3> QED BY <3>1 DEF InPool
    <2>2. pc = "label" /\ copy.spec.nodeSelector \in OfferedSelectors(cur)
        BY <1>4 DEF LabelNode, At, Offered, CopyOffered
    <2>3. Chosen(seenNode[n], cur, copy.spec)
        BY <1>1, <1>2, <2>2 DEF NodesInv, ListedSelected, Chosen
    <2>4. CASE OneSelector
        <3>1. \A s \in Offers[cur] : s.nodeSelector = copy.spec.nodeSelector
            BY <1>1, <2>2, <2>4 DEF OneSelector, OfferedSelectors
        <3>2. \A s \in Offers[cur] : Chosen(seenNode[n], cur, s)
            BY <2>3, <3>1, ChosenBySelector
        <3> QED BY <1>1, <2>1, <3>2 DEF Noticed, Chosen
    <2>5. CASE "Node" \notin Lagging
        <3>1. CASE Owed(c)
            <4>1. Owed(c)'
                BY <1>1, <2>1, <3>1, OwedKept
            <4> QED BY <2>5, <4>1 DEF Noticed
        <3>2. CASE ~Owed(c)
            <4>1. cfg[cur] = copy
                BY <1>1, <2>1, <3>2, CopyRight DEF CopiesInv
            <4> QED BY <1>1, <2>1, <2>3, <2>5, <4>1 DEF Noticed, Chosen
        <3> QED BY <3>1, <3>2
    <2> QED BY <2>4, <2>5 DEF PoolsOurs
<1> QED BY <1>3, <1>4 DEF WorkerPuts

\* Others put no node in the pool of a config.
LEMMA OthersKeepOut ==
    ASSUME PoolsOurs, ~ByHand, TypeOK, NEW n \in Nodes, OthersPut(n), NEW c \in Configs, InPool(node'[n], c)
    PROVE  InPool(node[n], c)
<1>1. node[n] \in Labels \cup {Nil} /\ nodePoolLabel \in LabelKeys
    BY DEF TypeOK, ServerOK, LabelKeys, OperatorLabels
<1>2. CASE NodeJoins(n)
    <2>1. PICK labels \in NodeLabellings : ChangeNode(n, labels)
        BY <1>2 DEF NodeJoins
    <2>2. node'[n] = labels
        BY <2>1, PutNodeChanges DEF ChangeNode
    <2>3. labels \in Registered
        BY <2>1, NodesAssumption, NilAssumption DEF Registered
    <2> QED BY <2>2, <2>3 DEF PoolsOurs, InPool
<1>3. CASE NodeLeaves(n)
    BY <1>3, PutNodeChanges DEF NodeLeaves, ChangeNode, InPool
<1>4. CASE UserRelabels(n)
    <2>1. PICK edit \in Relabels : ChangeNode(n, [node[n] EXCEPT ![edit[1]] = edit[2]])
        BY <1>4 DEF UserRelabels
    <2>2. node'[n] = [node[n] EXCEPT ![edit[1]] = edit[2]] /\ node[n] # Nil
        BY <1>4, <2>1, PutNodeChanges DEF ChangeNode, UserRelabels
    <2>3. CASE edit[1] = nodePoolLabel
        <3>1. node'[n][nodePoolLabel] = edit[2]
            BY <1>1, <2>2, <2>3 DEF Labels
        <3> QED BY <2>3, <3>1 DEF PoolsOurs, InPool
    <2>4. CASE edit[1] # nodePoolLabel
        <3>1. node'[n][nodePoolLabel] = node[n][nodePoolLabel]
            BY <1>1, <2>2, <2>4 DEF Labels
        <3> QED BY <2>2, <3>1 DEF InPool
    <2> QED BY <2>3, <2>4
<1> QED BY <1>2, <1>3, <1>4 DEF OthersPut

LEMMA StepPoolNoticed ==
    ASSUME PoolsOurs, TypeOK, FinalizerInv, NodesInv, Offered, CopiesInv, PoolNoticed, [Next]_vars
    PROVE  PoolNoticed'
<1> SUFFICES ASSUME ~ByHand, NEW c \in Configs, NEW n \in Nodes,
                    InPool(node'[n], c), ~InPool(seenNode'[n], c)
             PROVE  Noticed(n, c)'
    BY DEF PoolNoticed, InPool, ByHand
<1>1. CASE Restart
    BY <1>1 DEF Restart, server
<1>2. ASSUME ~Restart, seenNode'[n] = seenNode[n], InPool(node[n], c) PROVE Noticed(n, c)'
    BY <1>2, NoticedKept DEF PoolNoticed
<1>3. CASE UNCHANGED <<node, seenNode>>
    BY <1>1, <1>2, <1>3
<1>4. ASSUME ~Restart, NEW m \in Nodes, WorkerPuts(m) \/ OthersPut(m) PROVE Noticed(n, c)'
    <2>1. UNCHANGED seenNode /\ (m # n => node'[n] = node[n])
        BY <1>4, OthersPutNode, PutNodeChanges DEF WorkerPuts, ChangeNode
    <2>2. CASE m # n
        BY <1>2, <1>4, <2>1, <2>2
    <2>3. CASE m = n /\ OthersPut(m)
        BY <1>2, <1>4, <2>1, <2>3, OthersKeepOut
    <2>4. CASE m = n /\ WorkerPuts(m)
        BY <2>4, LabelNoticed
    <2> QED BY <1>4, <2>2, <2>3, <2>4
<1>5. ASSUME ~Restart, NEW m \in Nodes, SyncNode(m) PROVE Noticed(n, c)'
    <2>1. seenNode' = [seenNode EXCEPT ![m] = node[m]] /\ UNCHANGED node
        BY <1>5 DEF SyncNode, server
    <2>2. m # n
        BY <2>1 DEF TypeOK, CachesOK
    <2> QED BY <1>2, <1>5, <2>1, <2>2
<1> QED BY <1>1, <1>3, <1>4, <1>5, NodeSteps

LEMMA PoolNoticedHolds == WatchReaches /\ PoolsOurs => (Spec => []PoolNoticed)
<1> SUFFICES ASSUME WatchReaches, PoolsOurs
             PROVE  Spec => []PoolNoticed
    OBVIOUS
<1>1. Init => PoolNoticed
    BY DEF Init, PoolNoticed
<1>2. TypeOK /\ FinalizerInv /\ NodesInv /\ Offered /\ CopiesInv /\ PoolNoticed /\ [Next]_vars => PoolNoticed'
    BY StepPoolNoticed
<1>3. Spec => []CopiesInv
    BY CopiesInvHolds
<1> QED BY <1>1, <1>2, <1>3, TypeCorrect, FinalizerInvHolds, NodesInvHolds, OfferedHolds, PTL DEF Spec
=============================================================================
