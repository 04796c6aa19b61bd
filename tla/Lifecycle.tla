----------------------------- MODULE Lifecycle -----------------------------
(***************************************************************************)
(* What the operator promises the users of FakeGPUConfigs, without caches, *)
(* passes or API calls: the phases of a config, when children of its own   *)
(* may appear and disappear, and when its status may change.  Operator     *)
(* implements it (see Refinement).                                         *)
(***************************************************************************)
EXTENDS Naturals

CONSTANTS
    Configs,
    NoReport, \* the report of a config that nobody has reported on
    Thorough  \* does a config stay until all of its own children are gone?

VARIABLES
    phase,    \* Config -> "absent", "new" (no finalizer yet), "guarded" or "terminating"
    present,  \* Config -> is there a child of its own?
    report,   \* Config -> its status
    drift     \* how many children somebody else may still delete or edit

vars == <<phase, present, report, drift>>

Init ==
    /\ phase = [c \in Configs |-> "absent"]
    /\ present = [c \in Configs |-> FALSE]
    /\ report = [c \in Configs |-> NoReport]
    /\ drift \in Nat

Move(c, from, to) ==
    /\ phase[c] = from
    /\ phase' = [phase EXCEPT ![c] = to]
    /\ UNCHANGED <<present, drift>>

Create(c)    == Move(c, "absent", "new") /\ UNCHANGED report
Guard(c)     == Move(c, "new", "guarded") /\ UNCHANGED report
Terminate(c) == Move(c, "guarded", "terminating") /\ UNCHANGED report

\* A config goes away: one that the operator has not guarded when its user
\* deletes it, one that it has when it is cleaned up.
Discard(c) == Move(c, "new", "absent") /\ report' = [report EXCEPT ![c] = NoReport]
Finish(c)  ==
    /\ Thorough => ~present[c]
    /\ Move(c, "terminating", "absent")
    /\ report' = [report EXCEPT ![c] = NoReport]

\* A child of its own appears only while the config is guarded; a pass that
\* runs when the user deletes it may go on for a while.
Build(c) ==
    /\ phase[c] \in {"guarded", "terminating"}
    /\ present' = [present EXCEPT ![c] = TRUE]
    /\ UNCHANGED <<phase, report, drift>>

\* The last child of its own disappears, never from a config in use.
Clean(c) ==
    /\ phase[c] # "guarded"
    /\ present' = [present EXCEPT ![c] = FALSE]
    /\ UNCHANGED <<phase, report, drift>>

\* Only a config in use is reported on.
Report(c) ==
    /\ phase[c] = "guarded"
    /\ report' = [report EXCEPT ![c] = report'[c]]
    /\ UNCHANGED <<phase, present, drift>>

\* Somebody else deletes or edits a child.
Drift ==
    /\ drift > 0
    /\ drift' = drift - 1
    /\ \A c \in Configs : present'[c] => present[c]
    /\ UNCHANGED <<phase, report>>

Next ==
    \/ \E c \in Configs :
          \/ Create(c) \/ Guard(c) \/ Terminate(c) \/ Discard(c) \/ Finish(c)
          \/ Build(c) \/ Clean(c) \/ Report(c)
    \/ Drift

Spec == Init /\ [][Next]_vars

-----------------------------------------------------------------------------
(* Properties. *)

Phases == {"absent", "new", "guarded", "terminating"}

\* A thorough operator leaves nothing behind: a config with a child of its own
\* is there, under the protection of its finalizer (Reconcile, handleDeletion).
NothingOutlives == \A c \in Configs : present[c] => phase[c] \in {"guarded", "terminating"}
=============================================================================
