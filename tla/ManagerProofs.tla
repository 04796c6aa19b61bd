--------------------------- MODULE ManagerProofs ---------------------------
(***************************************************************************)
(* Leader election keeps managers apart, for any number of pods, any       *)
(* durations with RenewDeadline < LeaseDuration and any disturbances.      *)
(***************************************************************************)
EXTENDS Manager, TLAPS

\* Why it does: whoever runs reconcilers has the lease, and it has not expired.
LeaseInv ==
    LeaderElect =>
        \A r \in Replicas :
            /\ Active(r) => holder = r /\ age < LeaseDuration
            /\ Renewing(r) => age <= RenewDeadline

IInv == TypeOK /\ LeaseInv

-----------------------------------------------------------------------------
LEMMA SpendTyped ==
    ASSUME NEW d \in Disturbances, TypeOK, Spend(d)
    PROVE  budget' \in [Disturbances -> Nat]
BY DEF TypeOK, Spend

LEMMA EndTyped ==
    ASSUME NEW r \in Replicas, TypeOK, End(r)
    PROVE  /\ state' \in [Replicas -> States]
           /\ holder' \in Replicas \cup {Nil}
           /\ age' \in 0..LeaseDuration
BY DEF TypeOK, End, Become, States

LEMMA BecomeTyped ==
    ASSUME NEW r \in Replicas, NEW s \in States, TypeOK, Become(r, s)
    PROVE  state' \in [Replicas -> States]
BY DEF TypeOK, Become

LEMMA StepTyped ==
    ASSUME TypeOK, Next
    PROVE  TypeOK'
<1>1. ASSUME NEW r \in Replicas, Boot(r) PROVE TypeOK'
    <2>1. state' \in [Replicas -> States]
        BY <1>1, BecomeTyped DEF Boot, States
    <2> QED BY <1>1, <2>1 DEF Boot, TypeOK, lease, deployment
<1>2. ASSUME NEW r \in Replicas, SetupFails(r) PROVE TypeOK'
    BY <1>2, EndTyped, SpendTyped DEF SetupFails, TypeOK, deployment, Disturbances
<1>3. ASSUME NEW r \in Replicas, Start(r) PROVE TypeOK'
    <2>1. state' \in [Replicas -> States]
        BY <1>3, BecomeTyped DEF Start, States
    <2> QED BY <1>3, <2>1 DEF Start, TypeOK, lease, deployment
<1>4. ASSUME NEW r \in Replicas, Acquire(r) PROVE TypeOK'
    <2>1. state' \in [Replicas -> States]
        BY <1>4, BecomeTyped DEF Acquire, States
    <2>2. holder' \in Replicas \cup {Nil} /\ age' \in 0..LeaseDuration
        BY <1>4, LeaseAssumption DEF Acquire
    <2> QED BY <1>4, <2>1, <2>2 DEF Acquire, TypeOK, deployment
<1>5. ASSUME NEW r \in Replicas, GiveUp(r) PROVE TypeOK'
    <2>1. state' \in [Replicas -> States]
        BY <1>5, BecomeTyped DEF GiveUp, States
    <2> QED BY <1>5, <2>1 DEF GiveUp, TypeOK, lease, deployment
<1>6. ASSUME NEW r \in Replicas, Exit(r) PROVE TypeOK'
    BY <1>6, EndTyped DEF Exit, TypeOK, deployment
<1>7. ASSUME NEW r \in Replicas, Terminate(r) PROVE TypeOK'
    <2>1. CASE state[r] = "leader"
        <3>1. state' \in [Replicas -> States]
            BY <1>7, <2>1, BecomeTyped DEF Terminate, States
        <3> QED BY <1>7, <2>1, <3>1 DEF Terminate, TypeOK, lease, deployment
    <2>2. CASE state[r] # "leader"
        BY <1>7, <2>2, EndTyped DEF Terminate, TypeOK, deployment
    <2> QED BY <2>1, <2>2
<1>8. ASSUME NEW r \in Replicas, Stopped(r) PROVE TypeOK'
    BY <1>8, EndTyped DEF Stopped, TypeOK, deployment
<1>9. ASSUME NEW r \in Replicas, ScaleDown(r) PROVE TypeOK'
    BY <1>9 DEF ScaleDown, TypeOK, lease
<1>10. ASSUME NEW r \in Replicas, Renew(r) PROVE TypeOK'
    BY <1>10, LeaseAssumption DEF Renew, TypeOK, deployment
<1>11. ASSUME NEW r \in Replicas, Crash(r) PROVE TypeOK'
    BY <1>11, EndTyped, SpendTyped DEF Crash, TypeOK, deployment, Disturbances
<1>12. ASSUME NEW r \in Replicas, RollOut(r) PROVE TypeOK'
    BY <1>12, SpendTyped DEF RollOut, TypeOK, lease, Disturbances
<1>13. CASE Surge
    BY <1>13 DEF Surge, TypeOK, lease
<1>14. CASE Outage
    BY <1>14, SpendTyped DEF Outage, TypeOK, lease, deployment, Disturbances
<1>15. CASE Recover
    BY <1>15 DEF Recover, TypeOK, lease, deployment
<1>16. CASE Tick
    BY <1>16, LeaseAssumption DEF Tick, TypeOK, deployment
<1> QED
    BY <1>1, <1>2, <1>3, <1>4, <1>5, <1>6, <1>7, <1>8, <1>9, <1>10, <1>11, <1>12,
       <1>13, <1>14, <1>15, <1>16 DEF Next, Process

-----------------------------------------------------------------------------
\* A process that ends takes only its own identity with it.
LEMMA EndKeepsLease ==
    ASSUME NEW r \in Replicas, TypeOK, LeaseInv, End(r)
    PROVE  LeaseInv'
BY ReplicasAssumption DEF End, Become, TypeOK, LeaseInv, Active, Renewing

LEMMA StepKeepsLease ==
    ASSUME TypeOK, LeaseInv, Next
    PROVE  LeaseInv'
<1>1. ASSUME NEW r \in Replicas, Boot(r) PROVE LeaseInv'
    BY <1>1 DEF Boot, Become, TypeOK, LeaseInv, Active, Renewing, lease
<1>2. ASSUME NEW r \in Replicas, SetupFails(r) \/ Exit(r) \/ Stopped(r) \/ Crash(r) PROVE LeaseInv'
    BY <1>2, EndKeepsLease DEF SetupFails, Exit, Stopped, Crash
<1>3. ASSUME NEW r \in Replicas, Start(r) PROVE LeaseInv'
    BY <1>3 DEF Start, Become, TypeOK, LeaseInv, Active, Renewing, lease
<1>4. ASSUME NEW r \in Replicas, Acquire(r) PROVE LeaseInv'
    <2> SUFFICES ASSUME LeaderElect, NEW s \in Replicas
                 PROVE  /\ Active(s)' => holder' = s /\ age' < LeaseDuration
                        /\ Renewing(s)' => age' <= RenewDeadline
        BY DEF LeaseInv
    <2>1. ~Active(s)
        BY <1>4, LeaseAssumption DEF Acquire, LeaseInv, TypeOK
    <2>2. s # r => ~Active(s)'
        BY <1>4, <2>1 DEF Acquire, Become, Active, TypeOK
    <2>3. Renewing(s)' => Active(s)'
        BY DEF Renewing, Active
    <2> QED BY <1>4, <2>2, <2>3, LeaseAssumption DEF Acquire
<1>5. ASSUME NEW r \in Replicas, GiveUp(r) PROVE LeaseInv'
    BY <1>5 DEF GiveUp, Become, TypeOK, LeaseInv, Active, Renewing, lease
<1>6. ASSUME NEW r \in Replicas, Terminate(r) PROVE LeaseInv'
    <2>1. CASE state[r] = "leader"
        BY <1>6, <2>1 DEF Terminate, Become, TypeOK, LeaseInv, Active, Renewing, lease
    <2>2. CASE state[r] # "leader"
        BY <1>6, <2>2, EndKeepsLease DEF Terminate
    <2> QED BY <2>1, <2>2
<1>7. ASSUME NEW r \in Replicas, Renew(r) PROVE LeaseInv'
    BY <1>7, LeaseAssumption DEF Renew, LeaseInv, Active, Renewing, TypeOK
<1>8. CASE Tick
    BY <1>8, LeaseAssumption DEF Tick, LeaseInv, Active, Renewing, TypeOK
<1>9. ASSUME NEW r \in Replicas, ScaleDown(r) \/ RollOut(r) PROVE LeaseInv'
    BY <1>9 DEF ScaleDown, RollOut, LeaseInv, Active, Renewing, lease
<1>10. CASE Surge \/ Outage \/ Recover
    BY <1>10 DEF Surge, Outage, Recover, LeaseInv, Active, Renewing, lease
<1> QED
    BY <1>1, <1>2, <1>3, <1>4, <1>5, <1>6, <1>7, <1>8, <1>9, <1>10 DEF Next, Process

LEMMA Inductive == Spec => []IInv
<1>1. Init => IInv
    <2> SUFFICES ASSUME Init PROVE IInv
        OBVIOUS
    <2>1. TypeOK
        BY LeaseAssumption, BudgetAssumption DEF Init, TypeOK, States
    <2>2. LeaseInv
        BY DEF Init, LeaseInv, Active, Renewing
    <2> QED BY <2>1, <2>2 DEF IInv
<1>2. IInv /\ [Next]_vars => IInv'
    <2> SUFFICES ASSUME IInv, [Next]_vars PROVE IInv'
        OBVIOUS
    <2>1. CASE Next
        BY <2>1, StepTyped, StepKeepsLease DEF IInv
    <2>2. CASE UNCHANGED vars
        BY <2>2 DEF IInv, TypeOK, LeaseInv, Active, Renewing, vars, lease, deployment
    <2> QED BY <2>1, <2>2
<1> QED BY <1>1, <1>2, PTL DEF Spec

-----------------------------------------------------------------------------
\* With --leader-elect at most one process runs reconcilers (the flag's help
\* text in main), one that is stopping or has lost the lease included: both
\* would be the holder of the lease.
THEOREM OnlyOneActive == Spec => []OneActive
<1>1. IInv => OneActive
    BY DEF IInv, LeaseInv, OneActive
<1> QED BY <1>1, Inductive, PTL
=============================================================================
