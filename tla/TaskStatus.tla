----------------------------- MODULE TaskStatus -----------------------------
(***************************************************************************)
(* The status machine of a task (src/ltm/domain): the statuses, the edges  *)
(* can_transition allows, and the audit events the repository appends with *)
(* each lifecycle step.                                                    *)
(***************************************************************************)
EXTENDS Naturals, Sequences

\* TaskStatus of domain/enums.py.
Statuses == {"CREATED", "ASSIGNED", "IN_PROGRESS", "PENDING_CLOSURE",
             "PENDING_VERIFICATION", "VERIFIED", "REOPENED", "CANCELLED"}

\* refresh_overdue_flags's `terminal`, _DISALLOWED_CANCEL of the state machine.
Terminal == {"VERIFIED", "CANCELLED"}

\* The `transitions` table of can_transition as a relation.
Edges == {<<"CREATED", "ASSIGNED">>, <<"CREATED", "CANCELLED">>,
          <<"ASSIGNED", "IN_PROGRESS">>, <<"ASSIGNED", "CANCELLED">>,
          <<"IN_PROGRESS", "PENDING_CLOSURE">>,
          <<"IN_PROGRESS", "PENDING_VERIFICATION">>,
          <<"IN_PROGRESS", "CANCELLED">>,
          <<"PENDING_CLOSURE", "PENDING_VERIFICATION">>,
          <<"PENDING_CLOSURE", "IN_PROGRESS">>,
          <<"PENDING_VERIFICATION", "VERIFIED">>,
          <<"PENDING_VERIFICATION", "REOPENED">>,
          <<"REOPENED", "IN_PROGRESS">>,
          <<"REOPENED", "PENDING_VERIFICATION">>,
          <<"REOPENED", "CANCELLED">>}

\* can_transition(from, to): a status may always be written again. The
\* request_cancel branch has no caller.
CanTransition(from, to) == from = to \/ <<from, to>> \in Edges

\* The audit events that record a step of the task's life, and the one the
\* notification thread adds.
LifecycleEvents == {"CREATED", "ASSIGNED", "ACKNOWLEDGED", "RESUMED",
                    "CLOSURE_REQUESTED", "VERIFIED", "REOPENED"}
AuditEvents == LifecycleEvents \union {"NOTIFIED"}

\* The status each lifecycle event leaves the task in.
StatusAfter == [e \in LifecycleEvents |->
                  CASE e \in {"ACKNOWLEDGED", "RESUMED"} -> "IN_PROGRESS"
                    [] e = "CLOSURE_REQUESTED" -> "PENDING_VERIFICATION"
                    [] OTHER -> e]
=============================================================================
