--------------------------- MODULE TaskLifecycle ---------------------------
(***************************************************************************)
(* One task row and everything that writes it.                             *)
(*                                                                         *)
(* The use cases (application/tasks.py) run on a process's event loop.     *)
(* Each is one transaction without an await in it, so on one loop they are *)
(* serial; but each reads the row when it starts and writes when it        *)
(* commits, and in between (a verifier lookup over HTTP, a wait for the    *)
(* write lock) two worker threads may commit: the one that notifies the    *)
(* assignee of a new task and appends NOTIFIED to the audit trail after    *)
(* its sends, and the overdue job of the cron route.  A commit writes the  *)
(* columns the transaction changed, whole; the audit trail is one of them. *)
(*                                                                         *)
(* On SQLite and libSQL (WriteLock) a thread holds the write lock from its *)
(* first flush to its commit, across the HTTP calls in between, and no     *)
(* read waits for it.  On SQL Server (READ COMMITTED) nothing is held      *)
(* while it reads.                                                         *)
(***************************************************************************)
EXTENDS TaskStatus, FiniteSets

CONSTANTS People,       \* Entra ids
          NoOne,        \* no manager configured, no request running
          Notes,        \* completion notes and rejection reasons
          NoNotes,
          ManagerOf,    \* the assignee's manager, in manager_map or in Graph
          VerifierMode, \* LTM_VERIFIER_MODE
          SelfVerify,   \* self_close_auto_verification_enabled
          Loops,        \* the event loops of the processes that are up
          WriteLock,    \* single-writer database
          MaxAudit      \* bound: no request starts on a longer trail

ASSUME LifecycleAssumption ==
    /\ NoOne \notin People
    /\ NoNotes \notin Notes
    /\ ManagerOf \in [People -> People \union {NoOne}]
    /\ VerifierMode \in {"created_by", "manager_map", "graph_manager"}
    /\ SelfVerify \in BOOLEAN
    /\ WriteLock \in BOOLEAN
    /\ MaxAudit \in Nat

VARIABLES row,       \* the committed task row
          due,       \* has the due date passed?
          txn,       \* per loop: the use case in its transaction, or Idle
          notifier,  \* the thread of notify_task_assigned
          cron,      \* the thread of run_overdue_refresh_and_notify
          lock       \* the thread holding the write lock, or "free"
vars == <<row, due, txn, notifier, cron, lock>>

Entry(event, actor, details) ==
    [event |-> event, actor |-> actor, details |-> details]

Entries == [event : AuditEvents, actor : People \union {NoOne},
            details : Notes \union {NoNotes}]

Rows == [creator : People, assignee : People, status : Statuses,
         notes : Notes \union {NoNotes}, reason : Notes \union {NoNotes},
         overdue : BOOLEAN, audit : Seq(Entries)]

Operations == {"acknowledge", "resume", "close", "verify", "reopen"}
Transactions == [op : Operations, actor : People, text : Notes, seen : Rows]
Idle == [op |-> "none"]

---------------------------------------------------------------------------
\* What the repository's methods make of the row they are given.

\* _transition, without its guard.
Step(r, target, entry) ==
    [r EXCEPT !.status = target, !.audit = Append(@, entry)]

AssigneeAcknowledge(r, who) ==
    Step(r, "IN_PROGRESS", Entry("ACKNOWLEDGED", who, NoNotes))

AssigneeResume(r, who) ==
    Step(r, "IN_PROGRESS", Entry("RESUMED", who, NoNotes))

\* Completing work acknowledges it.
ImplicitAcknowledge(r, who) ==
    IF r.status = "ASSIGNED" THEN AssigneeAcknowledge(r, who) ELSE r

\* mark_pending_closure_from_assignee. The notes are on the row before
\* _transition refuses, and the refusal does not roll the transaction back:
\* close() returns its failure from inside session_scope, which commits.
MarkPendingClosure(r, who, text) ==
    LET begun == [ImplicitAcknowledge(r, who) EXCEPT !.notes = text]
    IN IF CanTransition(begun.status, "PENDING_VERIFICATION")
         THEN Step(begun, "PENDING_VERIFICATION",
                   Entry("CLOSURE_REQUESTED", who, text))
         ELSE begun

CloseAndVerifySelf(r, who, text) ==
    LET closed == [ImplicitAcknowledge(r, who) EXCEPT !.notes = text]
    IN Step(Step(closed, "VERIFIED", Entry("CLOSURE_REQUESTED", who, text)),
            "VERIFIED", Entry("VERIFIED", who, NoNotes))

ManagerConfirm(r, who) == Step(r, "VERIFIED", Entry("VERIFIED", who, NoNotes))

ManagerReject(r, who, why) ==
    [Step(r, "REOPENED", Entry("REOPENED", who, why)) EXCEPT !.reason = why]

\* Mutants of RefreshOverdue: overdue as a status, and every row flagged.
RefreshStatus(r, passed) ==
    [r EXCEPT !.status = IF passed /\ r.status \notin Terminal THEN "OVERDUE" ELSE @]
RefreshEveryRow(r, passed) == [r EXCEPT !.overdue = passed]

\* refresh_overdue_flags, of this row.
RefreshOverdue(r, passed) ==
    [r EXCEPT !.overdue = passed /\ r.status \notin Terminal]

\* Mutant of AppendAudit: a delivered notice starts the work.
AcknowledgeOnDelivery(r) ==
    [r EXCEPT !.audit = Append(@, Entry("NOTIFIED", NoOne, NoNotes)),
              !.status = IF @ = "ASSIGNED" THEN "IN_PROGRESS" ELSE @]

AppendAudit(r) == [r EXCEPT !.audit = Append(@, Entry("NOTIFIED", NoOne, NoNotes))]

\* Who verifier_ref may name: a miss in the map and any failure of Graph
\* fall back to the creator.
VerifiersFor(creator, assignee) ==
    LET manager == {ManagerOf[assignee]} \ {NoOne}
    IN CASE VerifierMode = "created_by" -> {creator}
         [] VerifierMode = "manager_map" ->
              IF manager = {} THEN {creator} ELSE manager
         [] OTHER -> {creator} \union manager

VerifierRef(r) == VerifiersFor(r.creator, r.assignee)

---------------------------------------------------------------------------
\* The session.

\* A commit writes the columns that changed since they were read, and
\* leaves the others as they are now.
Flushed(now, seen, new) ==
    [now EXCEPT !.status  = IF new.status = seen.status THEN @ ELSE new.status,
                !.notes   = IF new.notes = seen.notes THEN @ ELSE new.notes,
                !.reason  = IF new.reason = seen.reason THEN @ ELSE new.reason,
                !.overdue = IF new.overdue = seen.overdue THEN @ ELSE new.overdue,
                !.audit   = IF new.audit = seen.audit THEN @ ELSE new.audit]

\* Mutants of CanWrite and Acquire: a flush that does not wait.
WriteAnyway(thread) == thread \in {"loop", "notifier", "cron"}
AcquireAnyway(thread) == lock' = IF WriteLock THEN thread ELSE lock

\* A writer's first flush waits for the lock of a single-writer database.
CanWrite(thread) == WriteLock => lock \in {"free", thread}
Acquire(thread) == CanWrite(thread) /\ lock' = IF WriteLock THEN thread ELSE lock
Release == lock' = IF WriteLock THEN "free" ELSE lock

---------------------------------------------------------------------------
\* The use cases of a process's event loop.

\* repo.get opens the transaction with the row as it is now.
Read(l, op, actor, text) ==
    /\ txn[l] = Idle
    /\ Len(row.audit) < MaxAudit
    /\ txn' = [txn EXCEPT ![l] = [op |-> op, actor |-> actor,
                                  text |-> text, seen |-> row]]
    /\ UNCHANGED <<row, due, notifier, cron, lock>>

\* session.commit of a transaction that made `new` of what it read.
Commit(l, new) ==
    /\ CanWrite("loop")
    /\ row' = Flushed(row, txn[l].seen, new)
    /\ txn' = [txn EXCEPT ![l] = Idle]
    /\ UNCHANGED <<due, notifier, cron, lock>>

Running(l, op) == txn[l].op = op
\* _require_assignee
IsAssignee(t) == t.actor = t.seen.assignee

Acknowledge(l) ==
    LET t == txn[l]
    IN /\ Running(l, "acknowledge")
       /\ IsAssignee(t)
       /\ t.seen.status = "ASSIGNED"
       /\ Commit(l, AssigneeAcknowledge(t.seen, t.actor))

Resume(l) ==
    LET t == txn[l]
    IN /\ Running(l, "resume")
       /\ IsAssignee(t)
       /\ t.seen.status = "REOPENED"
       /\ Commit(l, AssigneeResume(t.seen, t.actor))

\* close() decides between the two ways by the verifier a lookup names.
AutoVerify(t, verifier) ==
    /\ SelfVerify
    /\ t.actor = t.seen.creator
    /\ t.actor = t.seen.assignee
    /\ t.actor = verifier

Close(l) ==
    LET t == txn[l]
    IN /\ Running(l, "close")
       /\ IsAssignee(t)
       /\ \E verifier \in VerifierRef(t.seen) : ~AutoVerify(t, verifier)
       /\ Commit(l, MarkPendingClosure(t.seen, t.actor, t.text))

CloseSelf(l) ==
    LET t == txn[l]
    IN /\ Running(l, "close")
       /\ IsAssignee(t)
       /\ \E verifier \in VerifierRef(t.seen) : AutoVerify(t, verifier)
       /\ t.seen.status \in {"ASSIGNED", "IN_PROGRESS", "REOPENED"}
       /\ Commit(l, CloseAndVerifySelf(t.seen, t.actor, t.text))

\* Mutant of MayDecide: _require_verifier forgotten.
MayDecideAnybody(t) == t.seen.status = "PENDING_VERIFICATION"

\* _require_verifier and the status check of both decisions.
MayDecide(t) == /\ t.actor \in VerifierRef(t.seen)
                /\ t.seen.status = "PENDING_VERIFICATION"

Verify(l) ==
    LET t == txn[l]
    IN /\ Running(l, "verify")
       /\ MayDecide(t)
       /\ Commit(l, ManagerConfirm(t.seen, t.actor))

Reopen(l) ==
    LET t == txn[l]
    IN /\ Running(l, "reopen")
       /\ MayDecide(t)
       /\ Commit(l, ManagerReject(t.seen, t.actor, t.text))

\* A refusal that wrote nothing, "database is locked" after the busy
\* timeout, a lost connection, the process stopping.
GiveUp(l) ==
    /\ txn[l] # Idle
    /\ txn' = [txn EXCEPT ![l] = Idle]
    /\ UNCHANGED <<row, due, notifier, cron, lock>>

---------------------------------------------------------------------------
\* The thread confirm() starts once it has committed the task.
StartNotifier ==
    /\ notifier.pc = "due"
    /\ Acquire("notifier")
    /\ notifier' = [pc |-> "sending"]
    /\ UNCHANGED <<row, due, txn, cron>>

\* append_audit reads the row after the sends.
ReadForAudit ==
    /\ notifier.pc = "sending"
    /\ notifier' = [pc |-> "appending", seen |-> row]
    /\ UNCHANGED <<row, due, txn, cron, lock>>

CommitAudit ==
    /\ notifier.pc = "appending"
    /\ CanWrite("notifier")
    /\ row' = Flushed(row, notifier.seen, AppendAudit(notifier.seen))
    /\ notifier' = [pc |-> "done"]
    /\ Release
    /\ UNCHANGED <<due, txn, cron>>

\* An exception in the thread, or the process stopping: nothing retries it.
LoseNotifier ==
    /\ notifier.pc # "done"
    /\ notifier' = [pc |-> "done"]
    /\ IF notifier.pc = "due" THEN UNCHANGED lock ELSE Release
    /\ UNCHANGED <<row, due, txn, cron>>

\* The overdue job consumes the day's key, then reads every row and
\* flushes the flags; it commits after its own sends.
StartRefresh ==
    /\ cron.pc = "idle"
    /\ Acquire("cron")
    /\ cron' = [pc |-> "sending", seen |-> row, new |-> RefreshOverdue(row, due)]
    /\ UNCHANGED <<row, due, txn, notifier>>

CommitRefresh ==
    /\ cron.pc = "sending"
    /\ row' = Flushed(row, cron.seen, cron.new)
    /\ cron' = [pc |-> "idle"]
    /\ Release
    /\ UNCHANGED <<due, txn, notifier>>

LoseRefresh ==
    /\ cron.pc = "sending"
    /\ cron' = [pc |-> "idle"]
    /\ Release
    /\ UNCHANGED <<row, due, txn, notifier>>

\* Midnight in Riyadh.
DueDatePasses ==
    /\ ~due
    /\ due' = TRUE
    /\ UNCHANGED <<row, txn, notifier, cron, lock>>

---------------------------------------------------------------------------
\* create_from_draft has committed; the notification thread is about to run.
Created(creator, assignee) ==
    [creator |-> creator, assignee |-> assignee, status |-> "ASSIGNED",
     notes |-> NoNotes, reason |-> NoNotes, overdue |-> FALSE,
     audit |-> <<Entry("CREATED", creator, NoNotes),
                 Entry("ASSIGNED", creator, NoNotes)>>]

Init == /\ \E creator, assignee \in People : row = Created(creator, assignee)
        /\ due = FALSE
        /\ txn = [l \in Loops |-> Idle]
        /\ notifier = [pc |-> "due"]
        /\ cron = [pc |-> "idle"]
        /\ lock = "free"

Request(l) == \E op \in Operations, actor \in People, text \in Notes :
                 Read(l, op, actor, text)

UseCase(l) == \/ Request(l) \/ Acknowledge(l) \/ Resume(l) \/ Close(l)
              \/ CloseSelf(l) \/ Verify(l) \/ Reopen(l) \/ GiveUp(l)

Notifier == StartNotifier \/ ReadForAudit \/ CommitAudit \/ LoseNotifier
Cron == StartRefresh \/ CommitRefresh \/ LoseRefresh

Next == (\E l \in Loops : UseCase(l)) \/ Notifier \/ Cron \/ DueDatePasses

Spec == Init /\ [][Next]_vars

---------------------------------------------------------------------------
Threads == {"free", "notifier", "cron"}

\* Every variable has the values the code can give it.
TypeOK ==
    /\ row \in Rows
    /\ due \in BOOLEAN
    /\ txn \in [Loops -> Transactions \union {Idle}]
    /\ notifier \in [pc : {"due", "sending", "done"}]
                     \union [pc : {"appending"}, seen : Rows]
    /\ cron \in [pc : {"idle"}] \union [pc : {"sending"}, seen : Rows, new : Rows]
    /\ lock \in Threads

\* The status is what the last lifecycle entry of the audit trail says it
\* is: no commit overwrites a status without its entry, or an entry
\* without its status, whatever the notification thread and the overdue job
\* commit in between (repository.py's columns written apart, db.py).
Explains(audit, status) ==
    \E i \in 1..Len(audit) :
       /\ audit[i].event \in LifecycleEvents
       /\ status = StatusAfter[audit[i].event]
       /\ \A j \in (i + 1)..Len(audit) : audit[j].event = "NOTIFIED"
AuditExplainsStatus == Explains(row.audit, row.status)

\* A use case decides on the status the task still has when it commits,
\* with nobody taking a lock at the read: one loop runs one at a time, and
\* no worker thread writes the status.
DecisionsAreFresh ==
    \A l \in Loops : txn[l] # Idle =>
       /\ txn[l].seen.status = row.status
       /\ txn[l].seen.creator = row.creator
       /\ txn[l].seen.assignee = row.assignee
       /\ Explains(txn[l].seen.audit, txn[l].seen.status)

\* What a worker thread read under the write lock is still the row: nobody
\* commits between its read and its own commit, sends included.
LockedReadsAreFresh ==
    /\ notifier.pc \in {"sending", "appending"} <=> lock = "notifier"
    /\ cron.pc = "sending" <=> lock = "cron"
    /\ notifier.pc = "appending" => notifier.seen = row
    /\ cron.pc = "sending" => /\ cron.seen = row
                              /\ \E p \in BOOLEAN : cron.new = RefreshOverdue(row, p)

\* The overdue job never flags a task that has ended: not even one that is
\* verified while the job is running (refresh_overdue_flags reads before
\* it writes).
EndedTaskIsNotFlagged ==
    [][row.status \in Terminal => (row'.overdue => row.overdue)]_vars

\* Who may be named in an audit entry of each kind.
WhoMay(r, event) ==
    CASE event \in {"CREATED", "ASSIGNED"} -> {r.creator}
      [] event \in {"ACKNOWLEDGED", "RESUMED", "CLOSURE_REQUESTED"} -> {r.assignee}
      [] event \in {"VERIFIED", "REOPENED"} -> VerifierRef(r)
      [] OTHER -> {NoOne}

\* Every entry of the audit trail, not only the newest, names somebody who
\* was entitled to it. The guards of _require_assignee and _require_verifier
\* look at the row as it was read, and a commit writes back the whole trail
\* it read: nobody's entry may get into the trail by way of a stale copy.
Entitled(r) == \A i \in 1..Len(r.audit) :
                  r.audit[i].actor \in WhoMay(r, r.audit[i].event)
EntriesAreEntitled == Entitled(row)

\* The lifecycle entries of an audit trail, in its order.
Kept(audit) == {i \in 1..Len(audit) : audit[i].event \in LifecycleEvents}
Nth(kept, n) == CHOOSE i \in kept : i >= n /\ Cardinality(kept \intersect 1..i) = n
Bare(e) == [event |-> e.event, actor |-> e.actor]
Trail(audit) == LET kept == Kept(audit)
                IN [n \in 1..Cardinality(kept) |-> Bare(audit[Nth(kept, n)])]

\* The detailed row implements the promise: the lifecycle trail only grows,
\* by legal steps of the people entitled to them.
Promise == INSTANCE TaskPromise WITH
    VerifiersOf <- [p \in People \X People |-> VerifiersFor(p[1], p[2])],
    parties <- [creator |-> row.creator, assignee |-> row.assignee],
    status <- row.status,
    trail <- Trail(row.audit)
ImplementsPromise == Promise!Spec

---------------------------------------------------------------------------
Extends(new, old) == /\ Len(old) <= Len(new)
                     /\ \A i \in 1..Len(old) : new[i] = old[i]

\* DM-01 of LTA_TECHNICAL_REQUIREMENTS.md promises an append-only audit
\* trail: what a commit put in it, a later commit leaves there.
AuditAppendOnly == [][Extends(row'.audit, row.audit)]_vars

\* NFR-REL-01: a refused request leaves no partial write. Completion notes
\* change only in a commit that records who changed them.
NotesChangeIsRecorded ==
    [][row'.notes # row.notes => Len(row'.audit) > Len(row.audit)]_vars
=============================================================================
