---------------------------- MODULE Refinement ----------------------------
(***************************************************************************)
(* Operator implements Lifecycle: how the phases of a config, its children *)
(* and its report read in the state of the server.                         *)
(***************************************************************************)
EXTENDS Operator

PhaseOf(obj) ==
    IF obj = Nil THEN "absent" ELSE IF obj.deleting THEN "terminating"
    ELSE IF obj.finalizer THEN "guarded" ELSE "new"

phase   == [c \in Configs |-> PhaseOf(cfg[c])]
present == [c \in Configs |-> \E id \in OwnIds(c) : store[id] # Nil]
report  == [c \in Configs |-> IF cfg[c] = Nil THEN NoStatus ELSE cfg[c].status]
drift   == budget["drift"]

L  == INSTANCE Lifecycle WITH NoReport <- NoStatus, Thorough <- FALSE
LT == INSTANCE Lifecycle WITH NoReport <- NoStatus, Thorough <- TRUE

\* However far the caches lag, a config goes through the phases of Lifecycle,
\* children of its own appear only under its finalizer and go only while it is
\* not in use, and only a config in use is reported on (Reconcile).
ImplementsLifecycle == L!Spec

\* Moreover, where the calls of handleDeletion succeed on up-to-date lists, a
\* config stays until all children of its own are gone, whatever crashes and
\* failures of other calls interrupt its deletion.
ImplementsThoroughLifecycle == LT!Spec
=============================================================================
