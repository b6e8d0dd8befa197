---------------------------- MODULE DraftPromise ----------------------------
(***************************************************************************)
(* What the bot promises about drafts, without requests, transactions,     *)
(* locks, clocks or a counter: a list of tasks that only grows, each made  *)
(* in one step of a draft that was active, and at most one of each draft;  *)
(* and nobody is told of a task that is not on the list, or that a draft   *)
(* is cancelled which is not.  DraftConfirmation implements it.            *)
(***************************************************************************)
EXTENDS Naturals, Sequences

CONSTANT Drafts

VARIABLES state,      \* of each draft
          made,       \* the draft of each task, in the order of the numbers
          told,       \* what requesters were told of tasks and cancellations
          overlapped  \* may two processes be up at a time?
vars == <<state, made, told, overlapped>>

Created(d, n) == [draft |-> d, code |-> "TASK_CREATED", task |-> n]
Cancelled(d) == [draft |-> d, code |-> "DRAFT_CANCELLED", task |-> 0]

\* A step may end without telling, or somebody else be told what is so.
Tell(answer) == told' \in {told, told \union {answer}}

Init == /\ state = [d \in Drafts |-> "ABSENT"]
        /\ made = << >>
        /\ told = {}
        /\ overlapped = FALSE

Stash(d) == /\ state[d] = "ABSENT"
            /\ state' = [state EXCEPT ![d] = "ACTIVE"]
            /\ UNCHANGED <<made, told, overlapped>>

\* An active draft becomes the task with the next number.
Make(d) == /\ state[d] = "ACTIVE"
           /\ state' = [state EXCEPT ![d] = "CONSUMED"]
           /\ made' = Append(made, d)
           /\ Tell(Created(d, Len(made) + 1))
           /\ UNCHANGED overlapped

\* Whoever confirms once more is told of the task there is.
Repeat(d) == /\ state[d] = "CONSUMED"
             /\ \E n \in 1..Len(made) : made[n] = d /\ Tell(Created(d, n))
             /\ UNCHANGED <<state, made, overlapped>>

\* A draft is cancelled or lapses.  While processes overlap one may come too
\* late, and cancel a draft that has ended: its task stays on the list.
Cancel(d) == /\ \/ state[d] = "ACTIVE"
                \/ overlapped /\ state[d] \in {"CONSUMED", "CANCELLED"}
             /\ state' = [state EXCEPT ![d] = "CANCELLED"]
             /\ Tell(Cancelled(d))
             /\ UNCHANGED <<made, overlapped>>

\* A second process begins to serve.
Overlap == overlapped' = TRUE /\ UNCHANGED <<state, made, told>>

Next == (\E d \in Drafts : Stash(d) \/ Make(d) \/ Repeat(d) \/ Cancel(d)) \/ Overlap

Spec == Init /\ [][Next]_vars
=============================================================================
