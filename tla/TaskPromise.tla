---------------------------- MODULE TaskPromise ----------------------------
(***************************************************************************)
(* What the bot promises about one task, without transactions, threads,    *)
(* columns or timers: a trail of lifecycle events that only grows, each    *)
(* entry a legal step taken by the person entitled to it, and a status     *)
(* that is what the trail says. TaskLifecycle implements it.               *)
(***************************************************************************)
EXTENDS TaskStatus

CONSTANTS People,
          VerifiersOf   \* [<<creator, assignee>> -> who a lookup may name]

VARIABLES parties,      \* [creator, assignee]
          status, trail
vars == <<parties, status, trail>>

By(event, who) == [event |-> event, actor |-> who]

Init == /\ parties \in [creator : People, assignee : People]
        /\ status = "ASSIGNED"
        /\ trail = <<By("CREATED", parties.creator),
                     By("ASSIGNED", parties.creator)>>

\* One honoured request adds its entries and leaves the status of the last.
Record(entries) == /\ trail' = trail \o entries
                   /\ status' = StatusAfter[entries[Len(entries)].event]
                   /\ UNCHANGED parties

\* Work starts, for the first time or again.
Start == \/ status = "ASSIGNED" /\ Record(<<By("ACKNOWLEDGED", parties.assignee)>>)
         \/ status = "REOPENED" /\ Record(<<By("RESUMED", parties.assignee)>>)

\* Completing unacknowledged work acknowledges it first.
Begun(entries) == IF status = "ASSIGNED"
                    THEN <<By("ACKNOWLEDGED", parties.assignee)>> \o entries
                    ELSE entries

\* The assignee hands the work in, or hands it in again while it waits.
Submit == /\ status \in {"ASSIGNED", "IN_PROGRESS", "REOPENED", "PENDING_VERIFICATION"}
          /\ Record(Begun(<<By("CLOSURE_REQUESTED", parties.assignee)>>))

\* Somebody's own task needs nobody else.
Complete == /\ status \in {"ASSIGNED", "IN_PROGRESS", "REOPENED"}
            /\ parties.creator = parties.assignee
            /\ parties.assignee \in VerifiersOf[<<parties.creator, parties.assignee>>]
            /\ Record(Begun(<<By("CLOSURE_REQUESTED", parties.assignee),
                              By("VERIFIED", parties.assignee)>>))

\* A verifier decides on work that was handed in.
Decide == /\ status = "PENDING_VERIFICATION"
          /\ \E v \in VerifiersOf[<<parties.creator, parties.assignee>>],
                event \in {"VERIFIED", "REOPENED"} :
                Record(<<By(event, v)>>)

Next == Start \/ Submit \/ Complete \/ Decide

Spec == Init /\ [][Next]_vars
=============================================================================
