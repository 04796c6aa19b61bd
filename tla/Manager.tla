------------------------------ MODULE Manager ------------------------------
(***************************************************************************)
(* The process of cmd/main.go: its start, its leader election and its end, *)
(* under the Deployment of config/manager/manager.yaml (one replica, a     *)
(* rolling update that starts the new pod before it stops the old one).    *)
(*                                                                         *)
(* The lease is what controller-runtime makes of LeaderElection and        *)
(* LeaderElectionID; LeaderElectionReleaseOnCancel is not set, so that a   *)
(* process that ends leaves it to expire.  Time is counted in ticks of the *)
(* lease's age, and is assumed to wait for what has a deadline: a leader   *)
(* stops trying to renew by RenewDeadline, and its process is gone before  *)
(* LeaseDuration.                                                          *)
(***************************************************************************)
EXTENDS Naturals, FiniteSets

CONSTANTS
    Replicas,      \* the pods there may be
    Nil,
    LeaderElect,   \* --leader-elect
    LeaseDuration, \* the age at which others may take the lease
    RenewDeadline, \* the age at which its holder gives up
    Budget         \* how often each kind of disturbance may still happen

Disturbances == {"fault", "outage", "rollout"}

ASSUME ReplicasAssumption == Nil \notin Replicas
ASSUME LeaseAssumption ==
    /\ LeaderElect \in BOOLEAN
    /\ RenewDeadline \in Nat /\ LeaseDuration \in Nat /\ RenewDeadline < LeaseDuration
ASSUME BudgetAssumption == Budget \in [Disturbances -> Nat]

VARIABLES
    state,     \* Replica -> where its process is in main
    holder,    \* whose identity the lease carries; Nil when that process is gone
    age,       \* the time since the lease was renewed, up to LeaseDuration
    reachable, \* does the API server answer?
    desired,   \* the pod of the Deployment's current template
    wanted,    \* the pods the Deployment keeps running
    budget     \* what is left of Budget

lease      == <<holder, age>>
deployment == <<desired, wanted>>
vars       == <<state, lease, reachable, deployment, budget>>

\* setup: main before mgr.Start; candidate: started, but not the leader;
\* stopping: a leader that has got SIGTERM; lost: a leader that has given up.
States == {"off", "setup", "candidate", "leader", "stopping", "lost"}

TypeOK ==
    /\ state \in [Replicas -> States]
    /\ holder \in Replicas \cup {Nil}
    /\ age \in 0..LeaseDuration
    /\ reachable \in BOOLEAN
    /\ desired \in Replicas
    /\ wanted \in SUBSET Replicas
    /\ budget \in [Disturbances -> Nat]

\* There is no lease before the first one is taken.
Init ==
    /\ state = [r \in Replicas |-> "off"]
    /\ holder = Nil
    /\ age = LeaseDuration
    /\ reachable = TRUE
    /\ desired \in Replicas
    /\ wanted = {desired}
    /\ budget = Budget

Spend(disturbance) ==
    /\ budget[disturbance] > 0
    /\ budget' = [budget EXCEPT ![disturbance] = @ - 1]

Become(r, s) == state' = [state EXCEPT ![r] = s]

\* A process ends.  Its identity is lost with it, the lease keeps its age.
End(r) ==
    /\ Become(r, "off")
    /\ holder' = IF holder = r THEN Nil ELSE holder
    /\ UNCHANGED age

\* The processes that hold on to the lease, and those that run reconcilers.
Renewing(r) == state[r] \in {"leader", "stopping"}
Active(r)   == state[r] \in {"leader", "stopping", "lost"}

\* (Mutant: a pod is ready once it is the leader.)
Ready_OnlyLeader(r) == state[r] = "leader"

\* readyz is a Ping: a process is ready whether or not it is the leader.
Ready(r) == state[r] \in {"candidate", "leader"}

-----------------------------------------------------------------------------
(* main. *)

Boot(r) ==
    /\ r \in wanted
    /\ state[r] = "off"
    /\ Become(r, "setup")
    /\ UNCHANGED <<lease, reachable, deployment, budget>>

\* Every error of the setup ends in os.Exit(1).
SetupFails(r) ==
    /\ state[r] = "setup"
    /\ Spend("fault")
    /\ End(r)
    /\ UNCHANGED <<reachable, deployment>>

\* mgr.Start: without leader election the controller runs at once.
Start(r) ==
    /\ state[r] = "setup"
    /\ Become(r, IF LeaderElect THEN "candidate" ELSE "leader")
    /\ UNCHANGED <<lease, reachable, deployment, budget>>

\* Another process takes the lease only when it has expired.
Acquire(r) ==
    /\ state[r] = "candidate"
    /\ reachable
    /\ age >= LeaseDuration
    /\ Become(r, "leader")
    /\ holder' = r /\ age' = 0
    /\ UNCHANGED <<reachable, deployment, budget>>

Renew(r) ==
    /\ Renewing(r)
    /\ holder = r
    /\ reachable
    /\ age <= RenewDeadline
    /\ age' = 0
    /\ UNCHANGED <<state, holder, reachable, deployment, budget>>

\* mgr.Start is about to return "leader election lost"; the reconcilers are not
\* waited for.
GiveUp(r) ==
    /\ LeaderElect
    /\ Renewing(r)
    /\ age >= RenewDeadline
    /\ Become(r, "lost")
    /\ UNCHANGED <<lease, reachable, deployment, budget>>

\* mgr.Start has returned that error, and main calls os.Exit(1).
Exit(r) ==
    /\ state[r] = "lost"
    /\ End(r)
    /\ UNCHANGED <<reachable, deployment, budget>>

\* (Mutant: the lease is released at once, as a leader stops.)
Terminate_Releases(r) ==
    /\ r \notin wanted
    /\ state[r] \in {"setup", "candidate", "leader"}
    /\ IF state[r] = "leader" THEN Become(r, "stopping") /\ holder' = Nil /\ age' = LeaseDuration
                              ELSE End(r)
    /\ UNCHANGED <<reachable, deployment, budget>>

\* SIGTERM: before mgr.Start no handler is set; a candidate has nothing to wait
\* for; a leader cancels the context of its reconcilers, which then fail at their
\* next call, and renews the lease until they have returned.
Terminate(r) ==
    /\ r \notin wanted
    /\ state[r] \in {"setup", "candidate", "leader"}
    /\ IF state[r] = "leader" THEN Become(r, "stopping") /\ UNCHANGED lease ELSE End(r)
    /\ UNCHANGED <<reachable, deployment, budget>>

\* mgr.Start returns nil and main ends.
Stopped(r) ==
    /\ state[r] = "stopping"
    /\ End(r)
    /\ UNCHANGED <<reachable, deployment, budget>>

Crash(r) ==
    /\ state[r] # "off"
    /\ Spend("fault")
    /\ End(r)
    /\ UNCHANGED <<reachable, deployment>>

-----------------------------------------------------------------------------
(* The Deployment: replicas 1, hence a surge of one pod and none unavailable. *)

\* The template changes.
RollOut(r) ==
    /\ r \notin wanted \cup {desired}
    /\ state[r] = "off"
    /\ Spend("rollout")
    /\ desired' = r
    /\ UNCHANGED <<state, lease, reachable, wanted>>

Surge ==
    /\ desired \notin wanted
    /\ Cardinality(wanted) <= 1
    /\ wanted' = wanted \cup {desired}
    /\ UNCHANGED <<state, lease, reachable, desired, budget>>

\* An old pod goes once it is not needed for one pod to be ready.
ScaleDown(r) ==
    /\ r \in wanted \ {desired}
    /\ Ready(r) => \E other \in wanted \ {r} : Ready(other)
    /\ wanted' = wanted \ {r}
    /\ UNCHANGED <<state, lease, reachable, desired, budget>>

-----------------------------------------------------------------------------
(* Time and the API server. *)

Outage ==
    /\ reachable
    /\ Spend("outage")
    /\ reachable' = FALSE
    /\ UNCHANGED <<state, lease, deployment>>

Recover ==
    /\ ~reachable
    /\ reachable' = TRUE
    /\ UNCHANGED <<state, lease, deployment, budget>>

\* While the server answers, renewals come in time.
Tick ==
    /\ age < LeaseDuration
    /\ \A r \in Replicas :
          /\ LeaderElect /\ Renewing(r) => age < RenewDeadline /\ (reachable => age + 1 < RenewDeadline)
          /\ state[r] = "lost" => age + 1 < LeaseDuration
    /\ age' = age + 1
    /\ UNCHANGED <<state, holder, reachable, deployment, budget>>

-----------------------------------------------------------------------------
Process(r) ==
    \/ Boot(r) \/ Start(r) \/ Acquire(r) \/ GiveUp(r) \/ Exit(r) \/ Terminate(r) \/ Stopped(r)
    \/ ScaleDown(r)

Next ==
    \/ \E r \in Replicas : Process(r) \/ Renew(r) \/ SetupFails(r) \/ Crash(r) \/ RollOut(r)
    \/ Surge \/ Outage \/ Recover \/ Tick

\* Processes get to run, the Deployment controller does its work, outages end
\* and time passes.
Fairness ==
    /\ \A r \in Replicas : WF_vars(Process(r))
    /\ WF_vars(Surge) /\ WF_vars(Recover) /\ WF_vars(Tick)

Spec     == Init /\ [][Next]_vars
FairSpec == Spec /\ Fairness

-----------------------------------------------------------------------------
(* Properties. *)

\* The help text of --leader-elect in main: "Enabling this will ensure there is
\* only one active controller manager", across crashes, outages and rolling
\* updates, a leader that has lost the lease or is stopping included.
OneActive == LeaderElect => \A r, s \in Replicas : Active(r) /\ Active(s) => r = s

\* A rolling update comes to its end: the pod of the current template becomes
\* the only one and its process the leader.  It is stopped neither by the old
\* pod, which holds the lease until the new one is ready (readyz), nor by a lease
\* whose holder is gone.
RolloutCompletes ==
    \A r \in Replicas : desired = r ~> desired # r \/ (state[r] = "leader" /\ wanted = {r})
=============================================================================
